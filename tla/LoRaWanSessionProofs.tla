------------------------ MODULE LoRaWanSessionProofs ------------------------
(***************************************************************************)
(* Proofs about LoRaWanSession for any set of keys, number of joins,       *)
(* uplinks and restarts: the stored session is usable unless a change of   *)
(* keys left it over, and neither a saved DevNonce nor a saved frame       *)
(* counter is used again.                                                  *)
(***************************************************************************)
EXTENDS LoRaWanSession, TLAPS

\* Where the loop stands agrees with joined_.
Phase ==
  /\ step \in {"restored", "session", "sent", "lost"} => joined
  /\ step \in {"boot", "discard", "rejoin"} => ~joined

\* Attempts are numbered in order, and the node works with its own keys.
Numbered ==
  /\ node.nonces.keys = identity /\ node.nonces.join <= joins
  /\ flash.nonces # None => flash.nonces.join <= joins

\* A join starts only after the stored session is gone, or without nonces anyway.
Cleaned ==
  ((healthy /\ ~joined) \/ step = "activated") =>
    (Mine => (flash.session = None \/ flash.session.join \in leftOver))

\* Before the nonces of a join are stored.
Unsaved == step \in {"activated", "removeSession", "storeIdentity"}

\* The session in use belongs to the last attempt, whose nonces are the stored
\* ones as soon as the join is saved.
Bound ==
  joined => /\ node.session.join = node.nonces.join
            /\ ~Unsaved => (Mine /\ flash.nonces = node.nonces)

\* The stored nonces are those of the keys that have saved ones, and bound them.
SavedNonces ==
  \A p \in savedNonces :
    /\ p[1] = flash.identity /\ flash.nonces # None
    /\ p[1] = flash.nonces.keys /\ p[2] <= flash.nonces.nonce
    /\ p[1] = identity => p[2] <= node.nonces.nonce

SavedFrames ==
  \A p \in savedFrames :
    /\ p[1] <= joins
    /\ (joined /\ p[1] = node.session.join) => p[2] <= node.session.frame
    /\ (flash.session # None /\ p[1] = flash.session.join) => p[2] <= flash.session.frame

Inv == StoredSessionUsable /\ Phase /\ Numbered /\ Cleaned /\ Bound /\ SavedNonces /\ SavedFrames

IInv == TypeOK /\ Inv

-----------------------------------------------------------------------------

(* One step per action of Next; the conjuncts an action leaves alone follow    *)
(* from its UNCHANGED part.                                                *)

LEMMA TypeStep ==
  ASSUME IInv, [Next]_vars PROVE TypeOK'
<1> USE SessionAssumption DEF IInv, Inv, Phase, TypeOK, FlagsOK, StoreOK, Flash, Node, Session, Nonces,
        config, radio, announce, saved
<1>a. /\ flash \in Flash /\ node \in Node
      /\ joins \in Nat /\ savedNonces \subseteq Identities \X Nat
      /\ savedFrames \subseteq Nat \X (0 .. MaxFrame) /\ leftOver \subseteq Nat
      /\ restarts \in 0 .. MaxRestarts /\ MaxRestarts \in Nat
  BY DEF IInv, TypeOK, StoreOK
<1>e. None \notin Session
  OBVIOUS
<1>1. ASSUME NEW id \in Identities, NEW c \in Classes, Restart(id, c) PROVE TypeOK'
  <2>1. /\ UNCHANGED <<flash, joins, savedNonces, savedFrames, leftOver>>
        /\ identity' = id /\ class' = c /\ rejoin' = FALSE /\ after' = "radio" /\ result' = "ok"
        /\ initialized' = FALSE /\ wasConnected' = FALSE /\ basicInfo' = FALSE /\ resetEvent' = TRUE
    BY ONLY <1>1, Zenon DEF Restart, Boot, saved
  <2>2. restarts' \in 0 .. MaxRestarts
    BY ONLY <1>1, <1>a, SMT DEF Restart
  <2>3. /\ running' \in BOOLEAN /\ joined' \in BOOLEAN /\ healthy' \in BOOLEAN
        /\ step' \in {"boot", "restored", "discard"}
    BY ONLY <1>1, Zenon DEF Restart, Boot, Refused, Resume, StartJoining
  <2>4. FlagsOK'
    BY ONLY <1>1, <2>1, <2>3, Zenon DEF FlagsOK
  <2>5. node' \in Node /\ (joined' => node'.session # None)
    <3>1. CASE Refused(id)
      BY ONLY <3>1, <1>a, SMT DEF Refused, Unused, Node, Nonces
    <3>2. CASE Resume(id, c) /\ Restorable(id)
      <4>1. /\ node' = [nonces |-> flash.nonces, session |-> [flash.session EXCEPT !.class = c]]
            /\ flash.nonces # None /\ flash.session # None
        BY ONLY <3>2, Zenon DEF Resume, Restorable, HasNonces, HasSession
      <4>2. QED
        BY ONLY <4>1, <1>a, <1>e, c \in Classes, SMT DEF Flash, Node, Session
    <3>3. CASE StartJoining(id)
      BY ONLY <3>3, <1>a, SMT
         DEF StartJoining, Loaded, HasNonces, Unused, Flash, Node, Nonces
    <3>4. QED
      BY ONLY <1>1, <3>1, <3>2, <3>3 DEF Restart, Boot
  <2>6. StoreOK'
    BY ONLY <2>1, <2>2, <2>5, <1>a, Zenon DEF StoreOK
  <2>7. QED
    BY <2>4, <2>5, <2>6 DEF TypeOK
<1>2. ASSUME NEW ok \in BOOLEAN, SaveRestored(ok) PROVE TypeOK'
  <2>1. CASE ok
    BY <1>2, <2>1 DEF SaveRestored, WriteFails, Stored
  <2>2. CASE ~ok
    BY <1>2, <2>2, ZenonT(60) DEF SaveRestored, WriteFails, Stored
  <2>3. QED
    BY <2>1, <2>2
<1>3. ASSUME NEW ok \in BOOLEAN, DiscardSession(ok) PROVE TypeOK'
  <2>1. CASE ok
    BY <1>3, <2>1 DEF DiscardSession, WriteFails, Cleared, Stored
  <2>2. CASE ~ok
    BY <1>3, <2>2, ZenonT(60) DEF DiscardSession, WriteFails, Cleared, Stored
  <2>3. QED
    BY <2>1, <2>2
<1>4. ASSUME NEW ok \in BOOLEAN, StartRejoin(ok) PROVE TypeOK'
  BY <1>4, ZenonT(60) DEF StartRejoin, Cleared, Stored
<1>5. ASSUME NEW accepted \in BOOLEAN, TryJoin(accepted) PROVE TypeOK'
  BY <1>5 DEF TryJoin
<1>6. ASSUME NEW ok \in BOOLEAN, RemoveNonces(ok) PROVE TypeOK'
  BY <1>6 DEF RemoveNonces, GivenUp, Orphaned
<1>7. ASSUME NEW ok \in BOOLEAN, RemoveSession(ok) PROVE TypeOK'
  BY <1>7 DEF RemoveSession, Stored
<1>8. ASSUME NEW ok \in BOOLEAN, StoreIdentity(ok) PROVE TypeOK'
  <2>1. CASE ok
    BY <1>8, <2>1 DEF StoreIdentity, WriteFails, GivenUp, Orphaned
  <2>2. CASE ~ok
    BY <1>8, <2>2, ZenonT(60) DEF StoreIdentity, WriteFails, GivenUp, Orphaned
  <2>3. QED
    BY <2>1, <2>2
<1>9. ASSUME NEW ok \in BOOLEAN, SaveNonces(ok) PROVE TypeOK'
  <2>1. CASE ok
    BY <1>9, <2>1 DEF SaveNonces, WriteFails
  <2>2. CASE ~ok
    BY <1>9, <2>2, ZenonT(60) DEF SaveNonces, WriteFails
  <2>3. QED
    BY <2>1, <2>2
<1>10. ASSUME NEW ok \in BOOLEAN, SaveSession(ok) PROVE TypeOK'
  <2>1. CASE ok
    BY <1>10, <2>1 DEF SaveSession, WriteFails, Stored
  <2>2. CASE ~ok
    BY <1>10, <2>2, ZenonT(60) DEF SaveSession, WriteFails, Stored
  <2>3. QED
    BY <2>1, <2>2
<1>11. ASSUME NEW ok \in BOOLEAN, NEW asked \in BOOLEAN, ReceiveClassC(ok, asked) PROVE TypeOK'
  BY <1>11 DEF ReceiveClassC, Stored
<1>12. ASSUME NothingToDo PROVE TypeOK'
  BY <1>12 DEF NothingToDo
<1>13. ASSUME Observe PROVE TypeOK'
  BY <1>13 DEF Observe
<1>14. ASSUME NEW outcome \in {"ok", "failed", "lost"}, NEW used \in BOOLEAN, Transmit(outcome, used) PROVE TypeOK'
  BY <1>14 DEF Transmit
<1>15. ASSUME NEW ok \in BOOLEAN, NEW info \in BOOLEAN, NEW asked \in BOOLEAN, SaveSent(ok, info, asked) PROVE TypeOK'
  <2>1. CASE ok
    <3>1. flash' \in Flash
      BY <1>15, <2>1 DEF SaveSent, Stored
    <3>2. savedFrames' \subseteq Nat \X (0 .. MaxFrame)
      BY <1>15, <2>1 DEF SaveSent
    <3>3. QED
      BY <1>15, <2>1, <3>1, <3>2, ZenonT(60) DEF SaveSent
  <2>2. CASE ~ok
    BY <1>15, <2>2, ZenonT(60) DEF SaveSent, Stored
  <2>3. QED
    BY <2>1, <2>2
<1>16. ASSUME NEW ok \in BOOLEAN, DropSession(ok) PROVE TypeOK'
  <2>1. CASE ok
    <3>1. flash' \in Flash
      BY <1>16, <2>1 DEF DropSession, Cleared, Stored
    <3>2. node' \in Node
      BY <1>16, <2>1 DEF DropSession
    <3>3. QED
      BY <1>16, <2>1, <3>1, <3>2, ZenonT(60) DEF DropSession
  <2>2. CASE ~ok
    BY <1>16, <2>2, ZenonT(60) DEF DropSession, Cleared, Stored
  <2>3. QED
    BY <2>1, <2>2
<1>17. ASSUME EndIteration PROVE TypeOK'
  BY <1>17 DEF EndIteration
<1>18. CASE UNCHANGED vars
  BY <1>18 DEF vars
<1>19. QED
  BY <1>1, <1>2, <1>3, <1>4, <1>5, <1>6, <1>7, <1>8, <1>9, <1>10, <1>11, <1>12, <1>13, <1>14, <1>15,
     <1>16, <1>17, <1>18 DEF Next, Write

LEMMA InvStep ==
  ASSUME IInv, [Next]_vars PROVE Inv'
<1> USE SessionAssumption DEF IInv, Inv, TypeOK, FlagsOK, StoreOK, StoredSessionUsable, Phase, Numbered,
        Cleaned, Unsaved, Bound, SavedNonces, SavedFrames, Mine, Flash, Node, Session, Nonces,
        config, radio, announce, saved
<1>1. ASSUME NEW id \in Identities, NEW c \in Classes, Restart(id, c) PROVE Inv'
  <2>1. CASE Refused(id) /\ Loaded(id).keys # id
    BY <1>1, <2>1 DEF Restart, Boot, Refused, Loaded, HasNonces, Unused
  <2>2. CASE Resume(id, c) /\ Restorable(id) /\ Loaded(id).keys = id
    BY <1>1, <2>2 DEF Restart, Boot, Resume, Restorable, Loaded, HasNonces, HasSession
  <2>3. CASE StartJoining(id) /\ ~Restorable(id) /\ Loaded(id).keys = id
    BY <1>1, <2>3 DEF Restart, Boot, StartJoining, Restorable, Loaded, HasNonces, HasSession, Unused
  <2>4. QED
    BY ONLY <1>1, <2>1, <2>2, <2>3 DEF Restart, Boot
<1>2. ASSUME NEW ok \in BOOLEAN, SaveRestored(ok) PROVE Inv'
  BY <1>2, ZenonT(60) DEF SaveRestored, WriteFails, Stored
<1>3. ASSUME NEW ok \in BOOLEAN, DiscardSession(ok) PROVE Inv'
  BY <1>3, ZenonT(60) DEF DiscardSession, WriteFails, Cleared, Stored
<1>4. ASSUME NEW ok \in BOOLEAN, StartRejoin(ok) PROVE Inv'
  BY <1>4, ZenonT(60) DEF StartRejoin, Cleared, Stored
<1>5. ASSUME NEW accepted \in BOOLEAN, TryJoin(accepted) PROVE Inv'
  BY <1>5 DEF TryJoin
<1>6. ASSUME NEW ok \in BOOLEAN, RemoveNonces(ok) PROVE Inv'
  BY <1>6 DEF RemoveNonces, GivenUp, Orphaned
<1>7. ASSUME NEW ok \in BOOLEAN, RemoveSession(ok) PROVE Inv'
  BY <1>7 DEF RemoveSession, Stored
<1>8. ASSUME NEW ok \in BOOLEAN, StoreIdentity(ok) PROVE Inv'
  <2>1. CASE ok
    BY <1>8, <2>1 DEF StoreIdentity, WriteFails, GivenUp, Orphaned
  <2>2. CASE ~ok
    BY <1>8, <2>2 DEF StoreIdentity, WriteFails, GivenUp, Orphaned
  <2>3. QED
    BY <2>1, <2>2
<1>9. ASSUME NEW ok \in BOOLEAN, SaveNonces(ok) PROVE Inv'
  <2>1. CASE ok
    BY <1>9, <2>1 DEF SaveNonces, WriteFails
  <2>2. CASE ~ok
    BY <1>9, <2>2, ZenonT(60) DEF SaveNonces, WriteFails
  <2>3. QED
    BY <2>1, <2>2
<1>10. ASSUME NEW ok \in BOOLEAN, SaveSession(ok) PROVE Inv'
  BY <1>10, ZenonT(60) DEF SaveSession, WriteFails, Stored
<1>11. ASSUME NEW ok \in BOOLEAN, NEW asked \in BOOLEAN, ReceiveClassC(ok, asked) PROVE Inv'
  BY <1>11 DEF ReceiveClassC, Stored
<1>12. ASSUME NothingToDo PROVE Inv'
  BY <1>12 DEF NothingToDo
<1>13. ASSUME Observe PROVE Inv'
  BY <1>13 DEF Observe
<1>14. ASSUME NEW outcome \in {"ok", "failed", "lost"}, NEW used \in BOOLEAN, Transmit(outcome, used) PROVE Inv'
  BY <1>14 DEF Transmit
<1>15. ASSUME NEW ok \in BOOLEAN, NEW info \in BOOLEAN, NEW asked \in BOOLEAN, SaveSent(ok, info, asked) PROVE Inv'
  BY <1>15 DEF SaveSent, Stored
<1>16. ASSUME NEW ok \in BOOLEAN, DropSession(ok) PROVE Inv'
  BY <1>16 DEF DropSession, Cleared, Stored
<1>17. ASSUME EndIteration PROVE Inv'
  BY <1>17 DEF EndIteration
<1>18. CASE UNCHANGED vars
  BY <1>18 DEF vars
<1>19. QED
  BY <1>1, <1>2, <1>3, <1>4, <1>5, <1>6, <1>7, <1>8, <1>9, <1>10, <1>11, <1>12, <1>13, <1>14, <1>15,
     <1>16, <1>17, <1>18 DEF Next, Write

LEMMA Initially == Init => IInv
<1> SUFFICES ASSUME Init PROVE IInv
  OBVIOUS
<1>1. Inv
  BY SessionAssumption
     DEF Init, Inv, StoredSessionUsable, Phase, Numbered, Cleaned, Bound,
         SavedNonces,
     SavedFrames, Mine, Unused
<1>2. /\ flash \in Flash /\ node \in Node
      /\ joins \in Nat /\ savedNonces \subseteq Identities \X Nat
      /\ savedFrames \subseteq Nat \X (0 .. MaxFrame) /\ leftOver \subseteq Nat
      /\ restarts \in 0 .. MaxRestarts
  BY SessionAssumption DEF Init, Flash, Node, Nonces, Unused
<1>3. TypeOK
  BY ONLY Init, <1>2 DEF Init, TypeOK, FlagsOK, StoreOK
<1>4. QED BY <1>1, <1>3 DEF IInv

LEMMA Invariance == Spec => []IInv
<1>1. IInv /\ [Next]_vars => IInv'
  BY TypeStep, InvStep DEF IInv
<1>2. QED BY Initially, <1>1, PTL DEF Spec

-----------------------------------------------------------------------------
(* Results.                                                                *)

\* The session state keeps its types, and joined_ agrees with the node, whatever
\* write fails and wherever power is lost.
THEOREM TypeCorrect == Spec => []TypeOK
<1>1. IInv => TypeOK
  BY DEF IInv
<1>2. QED BY <1>1, Invariance, PTL

\* After any sequence of joins, losses, rejoins, failed writes and restarts with
\* other keys, the stored session is one the stored nonces belong to, or one that
\* ensureIdentity left behind when the keys were changed.
THEOREM SessionUsable == Spec => []StoredSessionUsable
<1>1. IInv => StoredSessionUsable
  BY DEF IInv, Inv
<1>2. QED BY <1>1, Invariance, PTL

LEMMA JoinUsesNewNonce ==
  ASSUME IInv, Next, node'.nonces.nonce > node.nonces.nonce, step' = "activated"
  PROVE  <<identity', node'.nonces.nonce>> \notin savedNonces
<1>1. node.nonces.nonce \in Nat /\ node'.nonces.nonce \in Nat /\ savedNonces \subseteq Identities \X Nat
  BY TypeStep DEF IInv, TypeOK, FlagsOK, StoreOK, Flash, Node, Nonces
<1>2. identity' = identity
  <2>1. ASSUME NEW id \in Identities, NEW c \in Classes, Restart(id, c) PROVE FALSE
    BY <2>1 DEF Restart, Boot, Refused, Resume, StartJoining
  <2>2. QED
    BY <2>1
       DEF Next, Write, SaveRestored, DiscardSession, StartRejoin, TryJoin,
           RemoveNonces, RemoveSession,
       StoreIdentity, SaveNonces, SaveSession, ReceiveClassC, NothingToDo, Observe, Transmit, SaveSent,
       DropSession, EndIteration, config
<1>3. \A p \in savedNonces : p[1] = identity => p[2] <= node.nonces.nonce
  BY DEF IInv, Inv, SavedNonces
<1>4. QED BY <1>1, <1>2, <1>3

\* No DevNonce that was saved is used for another join with the same keys, until
\* a join with other keys has removed the stored nonces.
THEOREM NoNonceReused == Spec => NonceNotReused
<1>1. IInv /\ [Next]_vars =>
        [(node'.nonces.nonce > node.nonces.nonce /\ step' = "activated") =>
           <<identity', node'.nonces.nonce>> \notin savedNonces]_vars
  BY JoinUsesNewNonce
<1>2. QED BY <1>1, Invariance, PTL DEF Spec, NonceNotReused

LEMMA UplinkUsesNewFrame ==
  ASSUME IInv, Next, step' = "sent", step # "sent", node' # node
  PROVE  <<node'.session.join, node'.session.frame>> \notin savedFrames
<1>1. PICK outcome \in {"ok", "failed", "lost"}, used \in BOOLEAN : Transmit(outcome, used)
  BY DEF Next, Write, Restart, Boot, Refused, Resume, StartJoining, SaveRestored,
     DiscardSession,
         StartRejoin, TryJoin, RemoveNonces, RemoveSession, StoreIdentity, SaveNonces, SaveSession,
         ReceiveClassC, NothingToDo, Observe, SaveSent, DropSession, EndIteration, WriteFails,
         IInv, TypeOK, FlagsOK, StoreOK, Flash, Node
<1>2. /\ joined /\ node.session \in Session
      /\ node'.session.join = node.session.join
      /\ node'.session.frame = node.session.frame + 1
  BY <1>1 DEF Transmit, IInv, TypeOK, FlagsOK, StoreOK, Flash, Node, Session
<1>3. \A p \in savedFrames : p[1] = node.session.join => p[2] <= node.session.frame
  BY <1>2 DEF IInv, Inv, SavedFrames
<1>4. QED
  BY <1>2, <1>3, SessionAssumption DEF Session

\* No frame counter that was saved is used for another uplink of the same session.
THEOREM NoFrameReused == Spec => FrameNotReused
<1>1. IInv /\ [Next]_vars =>
        [(step' = "sent" /\ step # "sent" /\ node' # node) =>
           <<node'.session.join, node'.session.frame>> \notin savedFrames]_vars
  BY UplinkUsesNewFrame
<1>2. QED BY <1>1, Invariance, PTL DEF Spec, FrameNotReused

-----------------------------------------------------------------------------
(* Restarts.                                                               *)

\* A session that is in use and settled is the stored one.
Kept ==
  (joined /\ healthy /\ ~Joining /\ step \notin {"sent", "lost"}) =>
    /\ Mine /\ flash.session # None
    /\ flash.session.join = node.session.join
    /\ flash.session.frame = node.session.frame

LEMMA KeptStep ==
  ASSUME IInv, Kept, [Next]_vars PROVE Kept'
<1> USE SessionAssumption DEF IInv, Inv, TypeOK, FlagsOK, StoreOK, Flash, Node, Phase, Unsaved, Bound, Kept, Joining,
        Mine, Session, Nonces, config, radio, announce, saved
<1>1. ASSUME NEW id \in Identities, NEW c \in Classes, Restart(id, c) PROVE Kept'
  <2>1. CASE Resume(id, c) /\ Restorable(id)
    <3>1. flash.identity = id /\ flash.session \in Session /\ flash' = flash /\ identity' = id
      BY <1>1, <2>1 DEF Restart, Boot, Restorable, HasNonces, HasSession
    <3>2. node' = [nonces |-> flash.nonces, session |-> [flash.session EXCEPT !.class = c]]
      BY <2>1 DEF Resume
    <3> QED BY <3>1, <3>2
  <2>2. CASE Refused(id) \/ StartJoining(id)
    BY <2>2 DEF Refused, StartJoining
  <2> QED BY ONLY <1>1, <2>1, <2>2 DEF Restart, Boot
<1>2. ASSUME NEW ok \in BOOLEAN, SaveRestored(ok) PROVE Kept'
  BY <1>2, ZenonT(60) DEF SaveRestored, WriteFails, Stored
<1>3. ASSUME NEW ok \in BOOLEAN, DiscardSession(ok) PROVE Kept'
  BY <1>3 DEF DiscardSession
<1>4. ASSUME NEW ok \in BOOLEAN, StartRejoin(ok) PROVE Kept'
  BY <1>4 DEF StartRejoin
<1>5. ASSUME NEW accepted \in BOOLEAN, TryJoin(accepted) PROVE Kept'
  BY <1>5 DEF TryJoin
<1>6. ASSUME NEW ok \in BOOLEAN, RemoveNonces(ok) PROVE Kept'
  BY <1>6 DEF RemoveNonces
<1>7. ASSUME NEW ok \in BOOLEAN, RemoveSession(ok) PROVE Kept'
  BY <1>7 DEF RemoveSession
<1>8. ASSUME NEW ok \in BOOLEAN, StoreIdentity(ok) PROVE Kept'
  <2>1. step' = "activated" \/ ~joined'
    BY <1>8 DEF StoreIdentity
  <2> QED BY <2>1
<1>9. ASSUME NEW ok \in BOOLEAN, SaveNonces(ok) PROVE Kept'
  <2>1. step' = "session" \/ ~joined'
    BY <1>9 DEF SaveNonces
  <2> QED BY <2>1
<1>10. ASSUME NEW ok \in BOOLEAN, SaveSession(ok) PROVE Kept'
  BY <1>10, ZenonT(60) DEF SaveSession, WriteFails, Stored
<1>11. ASSUME NEW ok \in BOOLEAN, NEW asked \in BOOLEAN, ReceiveClassC(ok, asked)
       PROVE Kept'
  BY <1>11 DEF ReceiveClassC, Stored
<1>12. ASSUME NothingToDo PROVE Kept'
  BY <1>12 DEF NothingToDo
<1>13. ASSUME Observe PROVE Kept'
  BY <1>13 DEF Observe
<1>14. ASSUME NEW outcome \in {"ok", "failed", "lost"}, NEW used \in BOOLEAN, Transmit(outcome, used)
       PROVE Kept'
  BY <1>14 DEF Transmit
<1>15. ASSUME NEW ok \in BOOLEAN, NEW info \in BOOLEAN, NEW asked \in BOOLEAN, SaveSent(ok, info, asked)
       PROVE Kept'
  BY <1>15 DEF SaveSent, Stored
<1>16. ASSUME NEW ok \in BOOLEAN, DropSession(ok) PROVE Kept'
  BY <1>16 DEF DropSession
<1>17. ASSUME EndIteration PROVE Kept'
  BY <1>17 DEF EndIteration
<1>18. CASE UNCHANGED vars
  BY <1>18 DEF vars
<1>19. QED
  BY <1>1, <1>2, <1>3, <1>4, <1>5, <1>6, <1>7, <1>8, <1>9, <1>10, <1>11, <1>12,
     <1>13, <1>14, <1>15,
     <1>16, <1>17, <1>18 DEF Next, Write

LEMMA RestartResumes ==
  ASSUME IInv, Kept, Next, restarts' # restarts, identity' = identity,
         joined, healthy, ~Joining, step \notin {"sent", "lost"}
  PROVE  /\ joined' /\ node'.session.join = node.session.join
         /\ node'.session.frame = node.session.frame
<1>1. PICK id \in Identities, c \in Classes : Restart(id, c)
  BY DEF Next, Write, SaveRestored, DiscardSession, StartRejoin, TryJoin,
     RemoveNonces, RemoveSession,
         StoreIdentity, SaveNonces, SaveSession, ReceiveClassC, NothingToDo, Observe, Transmit, SaveSent,
         DropSession, EndIteration
<1>2. /\ flash.identity = identity /\ flash.session \in Session /\ flash.session # None
      /\ flash.session.join = node.session.join /\ flash.session.frame = node.session.frame
      /\ flash.nonces = node.nonces /\ flash.nonces # None
      /\ flash.nonces.keys = identity /\ flash.session.join = flash.nonces.join
  BY SessionAssumption
     DEF Kept, Joining, Unsaved, Mine, IInv, Inv, TypeOK, FlagsOK, StoreOK, Flash,
         Node, Bound, Numbered
<1>3. id = identity
  BY <1>1 DEF Restart, Boot
<1>4. Restorable(id) /\ Loaded(id).keys = id
  BY <1>2, <1>3 DEF Restorable, Loaded, HasNonces, HasSession
<1>5. /\ joined' = TRUE
      /\ node' = [nonces |-> flash.nonces, session |-> [flash.session EXCEPT !.class = c]]
  BY <1>1, <1>4 DEF Restart, Boot, Resume
<1> QED BY <1>2, <1>5 DEF Session

\* A joined device goes on with its session after a restart: the last save of
\* the session (persistSession) was of the counter it stands at, unless the
\* power was lost inside a join or an uplink, or a write had failed.
THEOREM SessionResumed == Spec => SessionSurvivesRestart
<1>1. Init => Kept
  BY DEF Init, Kept
<1>2. IInv /\ Kept /\ [Next]_vars => Kept'
  BY KeptStep
<1>3. Spec => []Kept
  BY <1>1, <1>2, Invariance, PTL DEF Spec
<1>4. IInv /\ Kept /\ [Next]_vars =>
        [(/\ restarts' # restarts /\ identity' = identity
          /\ running /\ joined /\ healthy /\ ~Joining /\ step \notin {"sent", "lost"})
           => (joined' /\ node'.session.join = node.session.join
                       /\ node'.session.frame = node.session.frame)]_vars
  BY RestartResumes
<1> QED BY <1>3, <1>4, Invariance, PTL DEF Spec, SessionSurvivesRestart
=============================================================================
