--------------------------- MODULE LoRaWanSession ---------------------------
(***************************************************************************)
(* The LoRaWAN session: lorawan/LoRaWanRadio.h with its persisted nonces   *)
(* and session (lorawan/LoRaWanStateStore.h), and the part of the main     *)
(* loop that observes the connection and announces the device              *)
(* (core/Application.h).                                                   *)
(*                                                                         *)
(* Each flash write is a step of its own, so that power may be lost        *)
(* between using a nonce or a frame counter and saving it.  The LoRaWAN    *)
(* node is RadioLib's and is modelled as the code uses it: activateOTAA    *)
(* uses the next DevNonce, sendReceive the next frame counter; stored      *)
(* nonces are accepted only with the keys, and a stored session only with  *)
(* the nonces, they were made with.  Retry times are left out: a join may  *)
(* be tried in any iteration.                                              *)
(***************************************************************************)
EXTENDS Integers

CONSTANTS
  Identities,  \* fingerprints of the provisioned keys
  None,        \* nothing stored, or no session
  MaxJoins,    \* bound on join attempts
  MaxFrame,    \* bound on frame counters
  MaxRestarts  \* bound on restarts

Classes == {"A", "C"}

\* The node's buffers: the last DevNonce used with the keys (0: none) and the
\* number of the attempt that used it; the session of an accepted attempt.
Nonces  == [keys : Identities, nonce : Nat, join : Nat]
Session == [join : Nat, frame : 0 .. MaxFrame, class : Classes]

Flash == [identity : Identities \cup {None}, nonces : Nonces \cup {None}, session : Session \cup {None}]
Node  == [nonces : Nonces, session : Session \cup {None}]

Unused(id) == [keys |-> id, nonce |-> 0, join |-> 0]

ASSUME SessionAssumption ==
  /\ None \notin Session \cup Nonces \cup Identities
  /\ MaxJoins \in Nat /\ MaxFrame \in Nat /\ MaxRestarts \in Nat

VARIABLES
  identity,     \* stateIdentity_
  class,        \* the configured class
  flash,        \* "lw_state_id", "lw_nonces" and "lw_session"
  node,         \* the node's nonces and its session
  running,      \* Application::begin succeeded (or is running)
  joined,       \* joined_
  healthy,      \* persistenceHealthy_
  rejoin,       \* rejoinRequested_
  step,         \* where the loop, or begin, stands
  after,        \* where it goes on when the current radio call returns
  result,       \* how the current sendReceive ended
  initialized,  \* compatibilityConnectionInitialized_
  wasConnected, \* compatibilityWasConnected_
  basicInfo,    \* compatibilityBasicInfoPending_
  resetEvent    \* compatibilityResetEventPending_

\* History variables: never read by a guard other than a bound.
VARIABLES
  joins,       \* number of join attempts
  savedNonces, \* DevNonces saved, with their keys, since the stored nonces of those
               \* keys were last given up for other keys (ensureIdentity)
  savedFrames, \* frames sent and saved, with their join
  leftOver,    \* joins whose stored session lost its nonces to other keys (ensureIdentity)
  restarts     \* number of restarts

config   == <<identity, class>>
radio    == <<flash, node, joined, healthy>>
announce == <<initialized, wasConnected, basicInfo, resetEvent>>
saved    == <<joins, savedNonces, savedFrames, leftOver>>

vars == <<identity, class, flash, node, running, joined, healthy, rejoin, step, after, result,
          initialized, wasConnected, basicInfo, resetEvent, joins, savedNonces, savedFrames,
          leftOver, restarts>>

-----------------------------------------------------------------------------
(* LoRaWanStateStore.                                                      *)

Mine == flash.identity = identity

Stored(s) == [flash EXCEPT !.session = s]

\* The saved DevNonces once those of the stored identity are gone.
GivenUp == {p \in savedNonces : p[1] # flash.identity}

\* The stored session, if there is one, when it loses its nonces or its keys.
Orphaned == IF flash.session = None THEN leftOver ELSE leftOver \cup {flash.session.join}

Cleared_Kept == flash
Cleared == IF Mine THEN Stored(None) ELSE flash

-----------------------------------------------------------------------------
(* begin: stored nonces of other keys end the start; an accepted stored    *)
(* session is restored, a rejected one discarded; otherwise the device     *)
(* joins.                                                                  *)

HasNonces(id)  == flash.identity = id /\ flash.nonces # None
HasSession(id) == flash.identity = id /\ flash.session # None

Loaded_NeedsSession(id) == IF HasNonces(id) /\ HasSession(id) THEN flash.nonces ELSE Unused(id)
Loaded(id) == IF HasNonces(id) THEN flash.nonces ELSE Unused(id)

Restorable(id) == HasNonces(id) /\ HasSession(id) /\ flash.session.join = flash.nonces.join

\* setBufferNonces refuses, and begin returns false.
Refused(id) ==
  /\ running' = FALSE /\ healthy' = FALSE /\ joined' = FALSE /\ step' = "boot"
  /\ node' = [nonces |-> Unused(id), session |-> None]

Resume(id, c) ==
  /\ running' = TRUE /\ healthy' = TRUE /\ joined' = TRUE /\ step' = "restored"
  /\ node' = [nonces |-> flash.nonces, session |-> [flash.session EXCEPT !.class = c]]

StartJoining(id) ==
  /\ running' = TRUE /\ healthy' = TRUE /\ joined' = FALSE
  /\ step' = IF HasNonces(id) /\ HasSession(id) THEN "discard" ELSE "boot"
  /\ node' = [nonces |-> Loaded(id), session |-> None]

Boot(id, c) ==
  /\ identity' = id /\ class' = c /\ rejoin' = FALSE
  /\ \/ Loaded(id).keys # id /\ Refused(id)
     \/ Loaded(id).keys = id /\ Restorable(id) /\ Resume(id, c)
     \/ Loaded(id).keys = id /\ ~Restorable(id) /\ StartJoining(id)
  /\ after' = "radio" /\ result' = "ok"
  /\ initialized' = FALSE /\ wasConnected' = FALSE /\ basicInfo' = FALSE /\ resetEvent' = TRUE

Init ==
  /\ identity \in Identities /\ class \in Classes
  /\ flash = [identity |-> None, nonces |-> None, session |-> None]
  /\ node = [nonces |-> Unused(identity), session |-> None]
  /\ running = TRUE /\ joined = FALSE /\ healthy = TRUE /\ rejoin = FALSE
  /\ step = "boot" /\ after = "radio" /\ result = "ok"
  /\ initialized = FALSE /\ wasConnected = FALSE /\ basicInfo = FALSE /\ resetEvent = TRUE
  /\ joins = 0 /\ savedNonces = {} /\ savedFrames = {} /\ leftOver = {} /\ restarts = 0

\* Power loss or reboot at any moment; the provisioning may have changed.
Restart(id, c) ==
  /\ restarts < MaxRestarts
  /\ restarts' = restarts + 1
  /\ Boot(id, c)
  /\ UNCHANGED <<flash, saved>>

\* A failed write disables the radio until the next restart; inside begin it
\* stops the start of the whole application.
WriteFails ==
  /\ healthy' = FALSE
  /\ running' = (after # "radio")
  /\ step' = after

\* persistSession of the restored session.
SaveRestored(ok) ==
  /\ running /\ step = "restored"
  /\ IF ok THEN /\ flash' = Stored(node.session)
                /\ step' = "radio"
                /\ UNCHANGED <<healthy, running>>
     ELSE WriteFails /\ UNCHANGED flash
  /\ UNCHANGED <<config, node, joined, rejoin, after, result, announce, saved, restarts>>

\* A stored session that does not belong to the nonces is cleared before the join.
DiscardSession(ok) ==
  /\ running /\ step = "discard"
  /\ IF ok THEN flash' = Cleared /\ step' = "boot" /\ UNCHANGED <<healthy, running>>
     ELSE WriteFails /\ UNCHANGED flash
  /\ UNCHANGED <<config, node, joined, rejoin, after, result, announce, saved, restarts>>

-----------------------------------------------------------------------------
(* LoRaWanRadio::loop.                                                     *)

\* A requested rejoin drops the session and joins in the same iteration.
StartRejoin(ok) ==
  /\ running /\ step = "radio" /\ healthy /\ rejoin
  /\ rejoin' = FALSE
  /\ joined' = FALSE
  /\ node' = [node EXCEPT !.session = None]
  /\ after' = "observe"
  /\ IF ok THEN flash' = Cleared /\ step' = "rejoin" /\ UNCHANGED healthy
     ELSE healthy' = FALSE /\ step' = "observe" /\ UNCHANGED flash
  /\ UNCHANGED <<config, running, result, announce, saved, restarts>>

\* activateOTAA; the class is set before the session is saved.
TryJoin(accepted) ==
  /\ running /\ healthy
  /\ step \in {"boot", "rejoin"} \/ (step = "radio" /\ ~rejoin /\ ~joined)
  /\ joins < MaxJoins
  /\ joins' = joins + 1
  /\ node' = [nonces  |-> [keys |-> identity, nonce |-> node.nonces.nonce + 1, join |-> joins + 1],
              session |-> IF accepted THEN [join |-> joins + 1, frame |-> 0, class |-> class]
                          ELSE None]
  /\ joined' = accepted
  /\ step' = "activated"
  /\ after' = IF step = "boot" THEN "radio" ELSE "observe"
  /\ UNCHANGED <<config, flash, running, healthy, rejoin, result, announce, savedNonces,
                 savedFrames, leftOver, restarts>>

\* persistJoinState: saveNonces, then the session of a successful join.  When the
\* stored identity is another one, ensureIdentity first removes its nonces, then
\* its session (whether a removal succeeds is not looked at), and stores the new
\* identity.
RemoveNonces(ok) ==
  /\ running /\ step = "activated" /\ ~Mine
  /\ IF ok THEN /\ flash' = [flash EXCEPT !.nonces = None]
                /\ savedNonces' = GivenUp
                /\ leftOver' = Orphaned
     ELSE UNCHANGED <<flash, savedNonces, leftOver>>
  /\ step' = "removeSession"
  /\ UNCHANGED <<config, node, running, joined, healthy, rejoin, after, result, announce,
                 joins, savedFrames, restarts>>

RemoveSession(ok) ==
  /\ running /\ step = "removeSession"
  /\ flash' = IF ok THEN Stored(None) ELSE flash
  /\ step' = "storeIdentity"
  /\ UNCHANGED <<config, node, running, joined, healthy, rejoin, after, result, announce, saved,
                 restarts>>

StoreIdentity(ok) ==
  /\ running /\ step = "storeIdentity"
  /\ IF ok THEN /\ flash' = [flash EXCEPT !.identity = identity]
                /\ savedNonces' = GivenUp /\ leftOver' = Orphaned
                /\ step' = "activated"
                /\ UNCHANGED <<joined, healthy, running>>
     ELSE joined' = FALSE /\ WriteFails /\ UNCHANGED <<flash, savedNonces, leftOver>>
  /\ UNCHANGED <<config, node, rejoin, after, result, announce, joins, savedFrames, restarts>>

SaveNonces_Only(ok) ==
  /\ running /\ step = "activated" /\ Mine
  /\ IF ok THEN /\ flash' = [flash EXCEPT !.nonces = node.nonces]
                /\ savedNonces' = savedNonces \cup {<<identity, node.nonces.nonce>>}
                /\ step' = after
                /\ UNCHANGED <<joined, healthy, running>>
     ELSE joined' = FALSE /\ WriteFails /\ UNCHANGED <<flash, savedNonces>>
  /\ UNCHANGED <<config, node, rejoin, after, result, announce, joins, savedFrames, leftOver,
                 restarts>>
SaveNonces(ok) ==
  /\ running /\ step = "activated" /\ Mine
  /\ IF ok THEN /\ flash' = [flash EXCEPT !.nonces = node.nonces]
                /\ savedNonces' = savedNonces \cup {<<identity, node.nonces.nonce>>}
                /\ step' = IF joined THEN "session" ELSE after
                /\ UNCHANGED <<joined, healthy, running>>
     ELSE joined' = FALSE /\ WriteFails /\ UNCHANGED <<flash, savedNonces>>
  /\ UNCHANGED <<config, node, rejoin, after, result, announce, joins, savedFrames, leftOver,
                 restarts>>

SaveSession(ok) ==
  /\ running /\ step = "session"
  /\ IF ok THEN flash' = Stored(node.session) /\ step' = after /\ UNCHANGED <<joined, healthy, running>>
     ELSE joined' = FALSE /\ WriteFails /\ UNCHANGED flash
  /\ UNCHANGED <<config, node, rejoin, after, result, announce, saved, restarts>>

\* pollClassCDownlink with a downlink, which may ask for a rejoin.  After the time
\* synchronisation ("poll") neither rejoinRequested_ nor persistenceHealthy_ is
\* looked at again.
ReceiveClassC(ok, asked) ==
  /\ running /\ joined /\ class = "C"
  /\ step = "poll" \/ (step = "radio" /\ healthy /\ ~rejoin)
  /\ flash' = IF ok THEN Stored(node.session) ELSE flash
  /\ healthy' = (healthy /\ ok)
  /\ asked => (ok /\ healthy)
  /\ rejoin' = (rejoin \/ asked)
  /\ step' = "observe"
  /\ UNCHANGED <<config, node, running, joined, after, result, announce, saved, restarts>>

NothingToDo ==
  /\ running
  /\ step = "poll" \/ (step = "radio" /\ (healthy => ~rejoin))
  /\ step' = "observe"
  /\ UNCHANGED <<config, radio, running, rejoin, after, result, announce, saved, restarts>>

-----------------------------------------------------------------------------
(* The rest of the iteration.                                              *)

\* updateCompatibilityConnectionState.  A rejoin that succeeded in this iteration is
\* not seen: joined before, joined now.
Observe ==
  /\ running /\ step = "observe"
  /\ step' = "sends"
  /\ initialized' = TRUE
  /\ wasConnected' = joined
  /\ basicInfo' = (basicInfo \/ (joined /\ (initialized => ~wasConnected)))
  /\ UNCHANGED <<config, radio, running, rejoin, after, result, resetEvent, saved,
                 restarts>>

\* sendReceive, for an uplink of the application or (from LoRaWanRadio::loop)
\* for the network time.  A failed one may or may not have used the counter.
Transmit(outcome, used) ==
  /\ running /\ joined /\ healthy
  /\ step = "sends" \/ (step = "radio" /\ ~rejoin /\ outcome # "lost")
  /\ outcome = "ok" => used
  /\ outcome = "lost" => ~used
  /\ used => node.session.frame < MaxFrame
  /\ node' = IF used THEN [node EXCEPT !.session.frame = @ + 1] ELSE node
  /\ result' = outcome
  /\ after' = IF step = "radio" THEN "poll" ELSE "sends"
  /\ step' = "sent"
  /\ UNCHANGED <<config, flash, running, joined, healthy, rejoin, announce, saved, restarts>>

\* persistSession after it, then the downlink.  "info": the uplink was the basic
\* information.
SaveSent_OnlySuccess(ok, info, asked) ==
  /\ running /\ step = "sent"
  /\ info => (basicInfo /\ after = "sends")
  /\ asked => (ok /\ result = "ok")
  /\ flash' = IF ok /\ result = "ok" THEN Stored(node.session) ELSE flash
  /\ savedFrames' = IF ok THEN savedFrames \cup {<<node.session.join, node.session.frame>>}
                    ELSE savedFrames
  /\ healthy' = ok
  /\ rejoin' = (rejoin \/ asked)
  /\ step' = IF ok /\ result = "lost" THEN "lost" ELSE after
  /\ IF ok /\ info /\ result = "ok"
     THEN /\ basicInfo' = FALSE /\ resetEvent' = FALSE
     ELSE UNCHANGED <<basicInfo, resetEvent>>
  /\ UNCHANGED <<config, node, running, joined, after, result, initialized, wasConnected,
                 joins, savedNonces, leftOver, restarts>>
SaveSent(ok, info, asked) ==
  /\ running /\ step = "sent"
  /\ info => (basicInfo /\ after = "sends")
  /\ asked => (ok /\ result = "ok")
  /\ flash' = IF ok THEN Stored(node.session) ELSE flash
  /\ savedFrames' = IF ok THEN savedFrames \cup {<<node.session.join, node.session.frame>>}
                    ELSE savedFrames
  /\ healthy' = ok
  /\ rejoin' = (rejoin \/ asked)
  /\ step' = IF ok /\ result = "lost" THEN "lost" ELSE after
  /\ IF ok /\ info /\ result = "ok"
     THEN /\ basicInfo' = FALSE /\ resetEvent' = FALSE
     ELSE UNCHANGED <<basicInfo, resetEvent>>
  /\ UNCHANGED <<config, node, running, joined, after, result, initialized, wasConnected,
                 joins, savedNonces, leftOver, restarts>>

\* The network does not know the session any more.
DropSession(ok) ==
  /\ running /\ step = "lost"
  /\ joined' = FALSE
  /\ node' = [node EXCEPT !.session = None]
  /\ IF ok THEN flash' = Cleared /\ UNCHANGED healthy ELSE healthy' = FALSE /\ UNCHANGED flash
  /\ step' = after
  /\ UNCHANGED <<config, running, rejoin, after, result, announce, saved, restarts>>

EndIteration ==
  /\ running /\ step = "sends"
  /\ step' = "radio"
  /\ UNCHANGED <<config, radio, running, rejoin, after, result, announce, saved, restarts>>

-----------------------------------------------------------------------------
Write(ok) ==
  \/ SaveRestored(ok) \/ DiscardSession(ok) \/ StartRejoin(ok)
  \/ RemoveNonces(ok) \/ RemoveSession(ok) \/ StoreIdentity(ok) \/ SaveNonces(ok)
  \/ SaveSession(ok) \/ DropSession(ok)
  \/ \E asked \in BOOLEAN : ReceiveClassC(ok, asked) \/ \E info \in BOOLEAN : SaveSent(ok, info, asked)

Next ==
  \/ \E id \in Identities, c \in Classes : Restart(id, c)
  \/ \E ok \in BOOLEAN : Write(ok)
  \/ \E accepted \in BOOLEAN : TryJoin(accepted)
  \/ \E outcome \in {"ok", "failed", "lost"}, used \in BOOLEAN : Transmit(outcome, used)
  \/ NothingToDo \/ Observe \/ EndIteration

Spec == Init /\ [][Next]_vars

-----------------------------------------------------------------------------
(* Properties.                                                             *)

FlagsOK ==
  /\ identity \in Identities /\ class \in Classes
  /\ running \in BOOLEAN /\ joined \in BOOLEAN /\ healthy \in BOOLEAN /\ rejoin \in BOOLEAN
  /\ step \in {"boot", "restored", "discard", "radio", "poll", "rejoin", "activated",
               "removeSession", "storeIdentity", "session", "observe", "sends", "sent", "lost"}
  /\ after \in {"radio", "poll", "observe", "sends"} /\ result \in {"ok", "failed", "lost"}
  /\ initialized \in BOOLEAN /\ wasConnected \in BOOLEAN
  /\ basicInfo \in BOOLEAN /\ resetEvent \in BOOLEAN

StoreOK ==
  /\ flash \in Flash /\ node \in Node
  /\ joins \in Nat /\ savedNonces \subseteq Identities \X Nat
  /\ savedFrames \subseteq Nat \X (0 .. MaxFrame) /\ leftOver \subseteq Nat
  /\ restarts \in 0 .. MaxRestarts

\* The state stays within the types the code declares, and joined_ agrees with the
\* node.
TypeOK ==
  /\ FlagsOK /\ StoreOK
  /\ joined => node.session # None

\* Inside a join, up to the save of the session.
Joining == step \in {"activated", "removeSession", "storeIdentity", "session"}

\* Whenever power is lost, the stored session is one the stored nonces belong
\* to, so that a restart with its keys resumes it (rejoin and loss clear the
\* stored session before a join saves new nonces).  The one exception is a
\* session that ensureIdentity, changing the keys, left behind without its
\* nonces or its keys: power was lost between its two removals, or one failed.
StoredSessionUsable ==
  flash.session # None =>
    \/ flash.nonces # None /\ flash.session.join = flash.nonces.join
    \/ flash.session.join \in leftOver

\* A DevNonce that was saved is not used for a second join with the same keys,
\* through restarts, and through other keys in between as long as no join was
\* tried with them: the first such join makes ensureIdentity remove the stored
\* nonces, and the first keys then start again from nothing.
NonceNotReused ==
  [][(node'.nonces.nonce > node.nonces.nonce /\ step' = "activated") =>
       <<identity', node'.nonces.nonce>> \notin savedNonces]_vars

\* A frame counter that was saved is not used for a second uplink of its
\* session: only an uplink cut off by power loss before persistSession, or one
\* whose save failed, may have its counter used again.
FrameNotReused ==
  [][(step' = "sent" /\ step # "sent" /\ node' # node) =>
       <<node'.session.join, node'.session.frame>> \notin savedFrames]_vars

\* A joined device resumes its session after a restart with the same keys, with
\* no new join, except inside the join itself.
SessionSurvivesRestart ==
  [][(/\ restarts' # restarts /\ identity' = identity
      /\ running /\ joined /\ healthy /\ ~Joining /\ step \notin {"sent", "lost"})
       => (joined' /\ node'.session.join = node.session.join
                   /\ node'.session.frame = node.session.frame)]_vars
=============================================================================
