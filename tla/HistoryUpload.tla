---------------------------- MODULE HistoryUpload ----------------------------
(***************************************************************************)
(* History storage, lost-data retransmission and history queries, as       *)
(* core/Application.h drives them: processHistoryStorage,                  *)
(* processHistoryNetworkState, processHistoryRetransmission,               *)
(* processHistoryQuery and the downlinks handled by                        *)
(* applyHistoryQueryCommand, applyHistoryStorageCommand and                *)
(* applyHistoryRetransmissionCommand.                                      *)
(*                                                                         *)
(* All of them end in lora_.send, which calls the downlink handler before  *)
(* it returns; the handler of a query sends a reply and so enters          *)
(* lora_.send again.  "stack" holds the calls of lora_.send in progress,   *)
(* innermost first: each remembers what its caller does when it returns.   *)
(*                                                                         *)
(* The pacing intervals between packets are left out (a packet may come at *)
(* any time), and a record is its number and its time stamp.               *)
(***************************************************************************)
EXTENDS Integers, Sequences, FiniteSets

CONSTANTS
  Capacity,      \* records the ring keeps (64)
  PacketRecords, \* records in one packet (51 bytes for records of 25)
  Tolerance,     \* how far from a time point a record may be (report interval)
  Queries,       \* history queries the server sends
  SaveOutcomes,  \* how a write of the two marker keys can end
  NetworkTimes,  \* times the network can answer, right or wrong
  MaxRecords,    \* bound on the number of records stored
  MaxTime,       \* bound on the clock
  MaxDepth,      \* bound on the nesting of lora_.send
  MaxRestarts    \* bound on the number of restarts

ASSUME ParameterAssumption ==
  /\ Capacity \in Nat \ {0} /\ PacketRecords \in Nat \ {0}
  /\ Tolerance \in Nat /\ MaxRecords \in Nat /\ MaxTime \in Nat
  /\ MaxDepth \in Nat \ {0} /\ MaxRestarts \in Nat
  /\ NetworkTimes \subseteq 1 .. MaxTime

\* "both": the write succeeds.  "first": the first key is written, the second
\* is not (the write fails, or a restart comes between).  "none": it fails.
ASSUME OutcomeAssumption == "both" \in SaveOutcomes /\ SaveOutcomes \subseteq {"both", "first", "none"}

Times  == 0 .. MaxTime
Record == [number : 1 .. MaxRecords, time : Times]
Marker == [pending : BOOLEAN, lostAt : Times]

NoMarker == [pending |-> FALSE, lostAt |-> 0]

\* A call of lora_.send: who called, the records it carries, whether a reply
\* accepts its query (status 0), whether the uplink is already out.
Call == [from : {"query", "retransmission", "reply"}, records : Seq(Record),
         accepts : BOOLEAN, sent : BOOLEAN]

VARIABLES
  unix,         \* time(): seconds since power was applied, until the network sets it
  ring,         \* historyRing_, as persisted by historyStore_
  storage,      \* historySettings_.storageEnabled
  retransmit,   \* historySettings_.retransmissionEnabled
  marker,       \* historyRetransmissionState_
  flash,        \* what historyRetransmissionStore_ holds
  running,      \* Application::begin succeeded
  connected,    \* lora_.connected()
  wasConnected, \* historyWasConnected_
  observed,     \* historyNetworkStateInitialized_
  snapshotted,  \* retransmissionCursorInitialized_
  snapshot,     \* retransmissionSnapshot_
  next,         \* retransmissionCursor_
  queryActive,  \* historyQueryActive_
  queryRecords, \* historyQueryRecords_, up to historyQueryCount_
  queryCursor,  \* historyQueryCursor_
  stack         \* calls of lora_.send in progress

\* History variables: they record what happened and are never read by a guard
\* other than a bound.
VARIABLES
  stored,    \* number of records ever stored
  restarts,  \* number of restarts
  due,       \* records the running retransmission pass has to send
  forwarded, \* records it has sent
  clearing,  \* a clear of the marker was attempted since it was set
  selected,  \* records the last query selected
  uploaded,  \* records sent for it
  overlapped \* it arrived while a packet of an earlier query was in flight

settings == <<storage, retransmit>>
link     == <<connected, wasConnected, observed>>
pass     == <<snapshotted, snapshot, next, due, forwarded>>
query    == <<queryActive, queryRecords, queryCursor, selected, uploaded, overlapped>>
mark     == <<marker, flash, clearing>>
memory   == <<ring, stored>>
life     == <<running, restarts>>

vars == <<unix, ring, stored, storage, retransmit, marker, flash, clearing,
          running, restarts, connected, wasConnected, observed, snapshotted, snapshot,
          next, due, forwarded, queryActive, queryRecords, queryCursor, selected,
          uploaded, overlapped, stack>>

-----------------------------------------------------------------------------
(* The ring and the selections made from it.                               *)

\* HistoryRing::push
Pushed(records, record) ==
  IF Len(records) < Capacity THEN Append(records, record)
  ELSE Append(Tail(records), record)

\* Index of the first record that is not older than the marker.
FirstSince(records, t) ==
  LET late == {i \in 1 .. Len(records) : records[i].time >= t}
  IN  IF late = {} THEN Len(records) + 1 ELSE CHOOSE i \in late : \A j \in late : i <= j

Packet(records, cursor) ==
  SubSeq(records, cursor, IF cursor + PacketRecords - 1 < Len(records)
                          THEN cursor + PacketRecords - 1 ELSE Len(records))

\* The records at some positions, in the order of the ring.
Chosen(records, positions) ==
  [k \in 1 .. Cardinality(positions) |->
     records[CHOOSE i \in positions : Cardinality({j \in positions : j <= i}) = k]]

\* What a retransmission owes: each record that is not older than the marker or was
\* stored after such a record (the clock may have been set back in between).
Since(records, t) ==
  Chosen(records, {i \in 1 .. Len(records) : \E j \in 1 .. i : records[j].time >= t})

\* What was sent so far, of what is to be sent; one record too many is enough to
\* tell that it is wrong.
Noted(sent, records, all) == IF Len(sent) > Len(all) THEN sent ELSE sent \o records

Distance(s, t) == IF s >= t THEN s - t ELSE t - s

InRange(q) ==
  Chosen(ring, {i \in 1 .. Len(ring) : ring[i].time >= q.start /\ ring[i].time <= q.end})

\* The records with the time stamp closest to the point; of two time stamps
\* at the same distance the one found first in the ring.
NearPoint(q) ==
  LET near == {i \in 1 .. Len(ring) : Distance(ring[i].time, q.start) <= Tolerance}
      best == CHOOSE i \in near : \A j \in near :
                \/ Distance(ring[i].time, q.start) < Distance(ring[j].time, q.start)
                \/ /\ Distance(ring[i].time, q.start) = Distance(ring[j].time, q.start)
                   /\ i <= j
  IN  IF near = {} THEN <<>>
      ELSE Chosen(ring, {i \in 1 .. Len(ring) : ring[i].time = ring[best].time})

Selection(q) == IF q.kind = "point" THEN NearPoint(q) ELSE InRange(q)

-----------------------------------------------------------------------------
(* RetransmissionStateStore::save writes "pending", then "lost_at".        *)

Written(m, outcome) ==
  [pending |-> IF outcome = "none" THEN flash.pending ELSE m.pending,
   lostAt  |-> IF outcome = "both" THEN m.lostAt ELSE flash.lostAt]

\* The marker in RAM follows only a save that succeeded.
SaveMarker_RamFirst(m, outcome) ==
  /\ flash' = Written(m, outcome)
  /\ marker' = m
SaveMarker(m, outcome) ==
  /\ flash' = Written(m, outcome)
  /\ marker' = IF outcome = "both" THEN m ELSE marker

\* RetransmissionStateStore::load
Loaded == IF flash.pending THEN flash ELSE NoMarker
Loads  == flash.pending => flash.lostAt # 0

-----------------------------------------------------------------------------
Init ==
  /\ unix = 0
  /\ ring = <<>> /\ stored = 0
  /\ storage = TRUE /\ retransmit = TRUE
  /\ marker = NoMarker /\ flash = NoMarker /\ clearing = FALSE
  /\ running = TRUE /\ restarts = 0
  /\ connected \in BOOLEAN /\ wasConnected = FALSE /\ observed = FALSE
  /\ snapshotted = FALSE /\ snapshot = <<>> /\ next = 1
  /\ due = <<>> /\ forwarded = <<>>
  /\ queryActive = FALSE /\ queryRecords = <<>> /\ queryCursor = 1
  /\ selected = <<>> /\ uploaded = <<>> /\ overlapped = FALSE
  /\ stack = <<>>

AtLoop == running /\ stack = <<>>

\* The steps of the loop after processHistoryNetworkState: it has seen a join.
AtStep == AtLoop /\ observed /\ (connected => wasConnected)

Tick ==
  /\ running
  /\ unix < MaxTime
  /\ unix' = unix + 1
  /\ UNCHANGED <<memory, settings, mark, life, link, pass, query, stack>>

\* performNetworkTimeSync, as far as the clock: forward or back.
SetClock(t) ==
  /\ AtLoop /\ connected
  /\ unix' = t
  /\ UNCHANGED <<memory, settings, mark, life, link, pass, query, stack>>

\* processHistoryStorage with one sample present.
StoreSnapshot ==
  /\ AtStep /\ storage /\ unix > 0 /\ stored < MaxRecords
  /\ stored' = stored + 1
  /\ ring' = Pushed(ring, [number |-> stored + 1, time |-> unix])
  /\ UNCHANGED <<unix, settings, mark, life, link, pass, query, stack>>

\* The session is lost outside the uplinks modelled here, and joined again.
\* The join retry (60 s) comes long after the loop has seen the loss.
LinkLost ==
  /\ AtLoop /\ connected
  /\ connected' = FALSE
  /\ UNCHANGED <<unix, memory, settings, mark, life, wasConnected, observed, pass, query, stack>>

LinkJoined ==
  /\ AtLoop /\ ~connected /\ ~wasConnected /\ observed
  /\ connected' = TRUE
  /\ UNCHANGED <<unix, memory, settings, mark, life, wasConnected, observed, pass, query, stack>>

\* processHistoryNetworkState
ObserveLink(outcome) ==
  /\ AtLoop
  /\ observed' = TRUE
  /\ wasConnected' = connected
  /\ IF observed /\ wasConnected /\ ~connected /\ storage /\ retransmit /\ unix > 0
     THEN /\ SaveMarker([pending |-> TRUE, lostAt |-> unix], outcome)
          /\ snapshotted' = IF outcome = "both" THEN FALSE ELSE snapshotted
          /\ clearing' = IF outcome = "both" THEN FALSE ELSE clearing
     ELSE /\ outcome = "both"
          /\ snapshotted' = IF ~wasConnected /\ connected /\ marker.pending
                            THEN FALSE ELSE snapshotted
          /\ UNCHANGED <<marker, flash, clearing>>
  /\ UNCHANGED <<unix, memory, settings, life, connected, snapshot, next, due,
                 forwarded, query, stack>>

-----------------------------------------------------------------------------
(* Retransmission.                                                         *)

CanRetransmit == AtStep /\ storage /\ retransmit /\ marker.pending /\ connected

Snapshot == IF snapshotted THEN snapshot ELSE ring

First_Restart == FirstSince(Snapshot, marker.lostAt)
First == IF snapshotted THEN next ELSE FirstSince(ring, marker.lostAt)

TakeSnapshot ==
  /\ snapshot' = Snapshot
  /\ next' = First
  /\ IF snapshotted THEN UNCHANGED <<due, forwarded>>
     ELSE /\ due' = Since(ring, marker.lostAt)
          /\ forwarded' = <<>>

\* Nothing is left to send: the marker is cleared.
RetransmissionDone(outcome) ==
  /\ CanRetransmit
  /\ First > Len(Snapshot)
  /\ TakeSnapshot
  /\ SaveMarker(NoMarker, outcome)
  /\ snapshotted' = (outcome # "both")
  /\ clearing' = TRUE
  /\ UNCHANGED <<unix, memory, settings, life, link, query, stack>>

RetransmitPacket ==
  /\ CanRetransmit
  /\ First <= Len(Snapshot)
  /\ TakeSnapshot
  /\ snapshotted' = TRUE
  /\ stack' = <<[from |-> "retransmission", records |-> Packet(Snapshot, First),
                 accepts |-> FALSE, sent |-> FALSE]>>
  /\ UNCHANGED <<unix, memory, settings, mark, life, link, query>>

-----------------------------------------------------------------------------
(* Queries.                                                                *)

CanUpload == AtStep /\ queryActive /\ connected

UploadPacket ==
  /\ CanUpload
  /\ queryCursor <= Len(queryRecords)
  /\ stack' = <<[from |-> "query", records |-> Packet(queryRecords, queryCursor),
                 accepts |-> FALSE, sent |-> FALSE]>>
  /\ UNCHANGED <<unix, memory, settings, mark, life, link, pass, query>>

NothingToUpload ==
  /\ CanUpload
  /\ queryCursor > Len(queryRecords)
  /\ queryActive' = FALSE
  /\ UNCHANGED <<unix, memory, settings, mark, life, link, pass, queryRecords, queryCursor,
                 selected, uploaded, overlapped, stack>>

-----------------------------------------------------------------------------
(* lora_.send.                                                             *)

\* The uplink is out; its receive windows may bring downlinks.
SendSucceeds ==
  /\ running /\ stack # <<>> /\ connected
  /\ LET call == Head(stack) IN
       /\ ~call.sent
       /\ stack' = <<[call EXCEPT !.sent = TRUE]>> \o Tail(stack)
       /\ uploaded' = IF call.from = "query" THEN Noted(uploaded, call.records, selected) ELSE uploaded
       /\ forwarded' = IF call.from = "retransmission" THEN Noted(forwarded, call.records, due)
                       ELSE forwarded
  /\ UNCHANGED <<unix, memory, settings, marker, flash, clearing, life, link, snapshotted,
                 snapshot, next, due, queryActive, queryRecords, queryCursor, selected,
                 overlapped>>

\* It fails; the session may be found lost.
SendFails_MoveCursor(joined) ==
  /\ running /\ stack # <<>>
  /\ joined => connected
  /\ connected' = joined
  /\ stack' = Tail(stack)
  /\ LET call == Head(stack) IN
       /\ ~call.sent
       /\ IF call.accepts
          THEN queryActive' = FALSE /\ queryRecords' = <<>> /\ selected' = <<>> /\ uploaded' = <<>>
          ELSE UNCHANGED <<queryActive, queryRecords, selected, uploaded>>
       /\ queryCursor' = IF call.from = "query" THEN queryCursor + Len(call.records)
                         ELSE queryCursor
       /\ next' = IF call.from = "retransmission" THEN next + Len(call.records) ELSE next
  /\ UNCHANGED <<unix, memory, settings, mark, life, wasConnected, observed, snapshotted,
                 snapshot, due, forwarded, overlapped>>
SendFails(joined) ==
  /\ running /\ stack # <<>>
  /\ joined => connected
  /\ connected' = joined
  /\ stack' = Tail(stack)
  /\ LET call == Head(stack) IN
       /\ ~call.sent
       /\ IF call.accepts
          THEN queryActive' = FALSE /\ queryRecords' = <<>> /\ selected' = <<>> /\ uploaded' = <<>>
          ELSE UNCHANGED <<queryActive, queryRecords, selected, uploaded>>
  /\ UNCHANGED <<unix, memory, settings, mark, life, wasConnected, observed, pass,
                 queryCursor, overlapped>>

\* It returns true to processHistoryQuery.
QueryPacketSent ==
  /\ running /\ stack # <<>> /\ Head(stack).sent /\ Head(stack).from = "query"
  /\ stack' = Tail(stack)
  /\ LET cursor == queryCursor + Len(Head(stack).records) IN
       IF cursor > Len(queryRecords)
       THEN queryActive' = FALSE /\ queryRecords' = <<>> /\ queryCursor' = 1
       ELSE queryCursor' = cursor /\ UNCHANGED <<queryActive, queryRecords>>
  /\ UNCHANGED <<unix, memory, settings, mark, life, link, pass, selected, uploaded, overlapped>>

\* It returns true to processHistoryRetransmission.
RetransmissionPacketSent(outcome) ==
  /\ running /\ stack # <<>> /\ Head(stack).sent /\ Head(stack).from = "retransmission"
  /\ stack' = Tail(stack)
  /\ next' = next + Len(Head(stack).records)
  /\ IF next' > Len(snapshot)
     THEN /\ SaveMarker(NoMarker, outcome)
          /\ snapshotted' = IF outcome = "both" THEN FALSE ELSE snapshotted
          /\ clearing' = TRUE
     ELSE outcome = "both" /\ UNCHANGED <<marker, flash, snapshotted, clearing>>
  /\ UNCHANGED <<unix, memory, settings, life, link, snapshot, due, forwarded, query>>

\* It returns true to sendHistoryQueryReply.
ReplySent ==
  /\ running /\ stack # <<>> /\ Head(stack).sent /\ Head(stack).from = "reply"
  /\ stack' = Tail(stack)
  /\ queryActive' = (queryActive \/ Head(stack).accepts)
  /\ UNCHANGED <<unix, memory, settings, mark, life, link, pass, queryRecords, queryCursor,
                 selected, uploaded, overlapped>>

-----------------------------------------------------------------------------
(* Downlinks, between two calls (Class C) or in the receive windows of the *)
(* innermost one.                                                          *)

CanHear == running /\ IF stack = <<>> THEN connected ELSE Head(stack).sent

Reply(accepts) ==
  /\ Len(stack) < MaxDepth
  /\ stack' = <<[from |-> "reply", records |-> <<>>, accepts |-> accepts,
                 sent |-> FALSE]>> \o stack

\* applyHistoryQueryCommand
StopQuery ==
  /\ CanHear
  /\ queryActive' = FALSE /\ queryRecords' = <<>> /\ queryCursor' = 1
  /\ selected' = <<>> /\ uploaded' = <<>> /\ overlapped' = FALSE
  /\ UNCHANGED <<unix, memory, settings, mark, life, link, pass, stack>>

RefuseRange(q) ==
  /\ CanHear
  /\ q.kind = "range" /\ q.start > q.end
  /\ queryActive' = FALSE
  /\ Reply(FALSE)
  /\ UNCHANGED <<unix, memory, settings, mark, life, link, pass, queryRecords, queryCursor,
                 selected, uploaded, overlapped>>

AcceptQuery_KeepCursor(q) ==
  /\ CanHear
  /\ q.kind = "range" => q.start <= q.end
  /\ queryRecords' = Selection(q)
  /\ UNCHANGED queryCursor
  /\ queryActive' = (queryActive /\ Selection(q) # <<>>)
  /\ Reply(Selection(q) # <<>>)
  /\ selected' = Selection(q)
  /\ uploaded' = <<>>
  /\ overlapped' = (\E i \in 1 .. Len(stack) : stack[i].from = "query")
  /\ UNCHANGED <<unix, memory, settings, mark, life, link, pass>>
AcceptQuery(q) ==
  /\ CanHear
  /\ q.kind = "range" => q.start <= q.end
  /\ queryRecords' = Selection(q)
  /\ queryCursor' = 1
  /\ queryActive' = (queryActive /\ Selection(q) # <<>>)
  /\ Reply(Selection(q) # <<>>)
  /\ selected' = Selection(q)
  /\ uploaded' = <<>>
  /\ overlapped' = (\E i \in 1 .. Len(stack) : stack[i].from = "query")
  /\ UNCHANGED <<unix, memory, settings, mark, life, link, pass>>

\* Switching either setting off drops a pending marker.
DropMarker(enabled, outcome) ==
  IF ~enabled /\ marker.pending
  THEN /\ SaveMarker(NoMarker, outcome)
       /\ snapshotted' = IF outcome = "both" THEN FALSE ELSE snapshotted
       /\ clearing' = TRUE
  ELSE outcome = "both" /\ UNCHANGED <<marker, flash, snapshotted, clearing>>

ApplyHistoryStorage(enabled, outcome) ==
  /\ CanHear
  /\ storage' = enabled
  /\ DropMarker(enabled, outcome)
  /\ UNCHANGED <<unix, memory, retransmit, life, link, snapshot, next, due, forwarded,
                 query, stack>>

ApplyHistoryRetransmission(enabled, outcome) ==
  /\ CanHear
  /\ retransmit' = enabled
  /\ DropMarker(enabled, outcome)
  /\ UNCHANGED <<unix, memory, storage, life, link, snapshot, next, due, forwarded,
                 query, stack>>

-----------------------------------------------------------------------------
\* Power loss, which also loses the time, or a reboot, which keeps it, at any moment;
\* then Application::begin.
Restart ==
  /\ running /\ restarts < MaxRestarts
  /\ restarts' = restarts + 1
  /\ running' = Loads
  /\ marker' = Loaded
  /\ connected' \in BOOLEAN /\ wasConnected' = FALSE /\ observed' = FALSE
  /\ snapshotted' = FALSE /\ snapshot' = <<>> /\ next' = 1
  /\ due' = <<>> /\ forwarded' = <<>>
  /\ queryActive' = FALSE /\ queryRecords' = <<>> /\ queryCursor' = 1
  /\ selected' = <<>> /\ uploaded' = <<>> /\ overlapped' = FALSE
  /\ stack' = <<>>
  /\ unix' \in {0, unix}
  /\ UNCHANGED <<memory, settings, flash, clearing>>

Uplink ==
  \/ \E outcome \in SaveOutcomes : RetransmissionDone(outcome)
  \/ RetransmitPacket
  \/ UploadPacket
  \/ NothingToUpload

Radio ==
  \/ SendSucceeds
  \/ \E joined \in BOOLEAN : SendFails(joined)
  \/ QueryPacketSent
  \/ \E outcome \in SaveOutcomes : RetransmissionPacketSent(outcome)
  \/ ReplySent

Downlink ==
  \/ StopQuery
  \/ \E q \in Queries : RefuseRange(q) \/ AcceptQuery(q)
  \/ \E enabled \in BOOLEAN, outcome \in SaveOutcomes :
       ApplyHistoryStorage(enabled, outcome) \/ ApplyHistoryRetransmission(enabled, outcome)

Next ==
  \/ Tick \/ StoreSnapshot \/ \E t \in NetworkTimes : SetClock(t)
  \/ LinkLost \/ LinkJoined \/ \E outcome \in SaveOutcomes : ObserveLink(outcome)
  \/ Uplink \/ Radio \/ Downlink
  \/ Restart

Spec == Init /\ [][Next]_vars

(* The main loop keeps running, hearing at most one Class C downlink per   *)
(* iteration; it tries the retransmission and the query in turn, every     *)
(* lora_.send returns, and neither the flash nor the radio, for any of its *)
(* users, fails for ever.                                                  *)
Fairness ==
  /\ SF_vars(RetransmitPacket)
  /\ SF_vars(RetransmissionDone("both"))
  /\ SF_vars(UploadPacket \/ NothingToUpload)
  /\ WF_vars(\E joined \in BOOLEAN : SendFails(joined))
  /\ \A user \in {"query", "retransmission", "reply"} :
       SF_vars(SendSucceeds /\ Head(stack).from = user)
  /\ SF_vars(\E outcome \in SaveOutcomes : ObserveLink(outcome))
  /\ WF_vars(QueryPacketSent \/ ReplySent)
  /\ WF_vars(\E outcome \in SaveOutcomes : RetransmissionPacketSent(outcome))

FairSpec == Spec /\ Fairness

-----------------------------------------------------------------------------
(* Properties.                                                             *)

\* The state stays within the types the code declares.
TypeOK ==
  /\ unix \in Times
  /\ ring \in Seq(Record) /\ Len(ring) <= Capacity /\ stored \in 0 .. MaxRecords
  /\ storage \in BOOLEAN /\ retransmit \in BOOLEAN
  /\ marker \in Marker /\ flash \in Marker /\ ((running /\ marker.pending) => marker.lostAt # 0)
  /\ clearing \in BOOLEAN
  /\ running \in BOOLEAN /\ restarts \in 0 .. MaxRestarts
  /\ connected \in BOOLEAN /\ wasConnected \in BOOLEAN /\ observed \in BOOLEAN
  /\ snapshotted \in BOOLEAN /\ snapshot \in Seq(Record) /\ next \in Nat \ {0}
  /\ due \in Seq(Record) /\ forwarded \in Seq(Record)
  /\ queryActive \in BOOLEAN /\ queryRecords \in Seq(Record) /\ queryCursor \in Nat \ {0}
  /\ selected \in Seq(Record) /\ uploaded \in Seq(Record) /\ overlapped \in BOOLEAN
  /\ stack \in Seq(Call) /\ Len(stack) <= MaxDepth

\* When a retransmission clears the marker by itself, it has sent every record
\* of its snapshot that is not older than the marker, and every one stored after such a
\* record whatever its time stamp, once and in order and nothing else, whatever failed
\* sends, queries, switches, new records and changes of the clock came between its
\* packets.  (Records stored before any such record with a clock set back behind the
\* marker are not owed: the scan of processHistoryRetransmission passes them over.)
RetransmissionExact ==
  [][(marker.pending /\ ~marker'.pending /\ storage' /\ retransmit') =>
       forwarded' = due']_vars

\* A set marker survives a restart, also one in the middle of saving it,
\* until the code begins to clear it (RetransmissionStateStore).
MarkerSurvivesRestart ==
  [][(Restart /\ marker.pending /\ ~clearing) => (running' /\ marker' = marker)]_vars

\* A query that ends by itself has uploaded the records it selected, once and
\* in order, unless it arrived in the receive window of another query's packet.
QueryExact ==
  [][(queryActive /\ ~queryActive' /\ (QueryPacketSent \/ NothingToUpload)) =>
       (overlapped \/ uploaded = selected)]_vars

\* uc100-compatibility.md:75 says "Retransmission starts from the persisted
\* network-loss time marker": it can start after every restart.
StartsAgain == running

\* Once the link stays up, a pending retransmission finishes.
StableLinkForwards ==
  <>[]connected => ((marker.pending /\ storage /\ retransmit) ~>
                    ~(marker.pending /\ storage /\ retransmit))

\* Once the link stays up and no further query arrives, a running query ends.
StableLinkUploads ==
  (<>[]connected /\ <>[][~Downlink]_vars) => (queryActive ~> ~queryActive)
=============================================================================
