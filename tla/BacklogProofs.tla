--------------------------- MODULE BacklogProofs ---------------------------
(***************************************************************************)
(* Proofs about what waits for a connection.                               *)
(*                                                                         *)
(* EventBus, for every capacity of the ring: its contents, the accounting  *)
(* of the MQTT consumer, what a web reader sees, and the refinement of     *)
(* EventLog.                                                               *)
(*                                                                         *)
(* HistoryUpload, for every ring, packet size, depth of nested sends and   *)
(* every set of queries: what a completed retransmission has sent, what a  *)
(* completed query has uploaded, and that the loss marker is durable.      *)
(***************************************************************************)
EXTENDS EventBus, HistoryUpload,
        FiniteSetTheorems, SequenceTheorems, WellFoundedInduction, TLAPS

-----------------------------------------------------------------------------
(* The event bus: the invariant.                                           *)

\* The ring holds the last "count" events, each in its cell.
Filling == count = IF latest < RingSize THEN latest ELSE RingSize

Contents ==
  \A n \in 1 .. latest : n > latest - RingSize =>
    /\ records[Cell(n)] \in EventRecord
    /\ records[Cell(n)].sequence = n
    /\ records[Cell(n)].event = log[n]

EventsInv ==
  /\ EventTypeOK
  /\ Len(log) = latest
  /\ eventCursor <= latest
  /\ Filling
  /\ Contents
  /\ NothingSilentlyLost

-----------------------------------------------------------------------------
(* Arithmetic of the ring.                                                 *)

\* Two numbers less than a capacity apart fall into different cells.
LEMMA DifferentCells ==
  ASSUME NEW N \in Nat \ {0}, NEW a \in Nat, NEW b \in Nat, a < b, b < a + N
  PROVE  a % N # b % N
<1> SUFFICES ASSUME a % N = b % N PROVE FALSE
  OBVIOUS
<1>1. /\ a = N * (a \div N) + (a % N)
      /\ b = N * (b \div N) + (b % N)
      /\ (a \div N) \in Int /\ (b \div N) \in Int /\ (a % N) \in Int
  BY Z3
<1> DEFINE k == (b \div N) - (a \div N)
<1>2. b - a = N * k /\ k \in Int
  BY <1>1, Z3
<1>3. CASE k <= 0
  <2>1. N * k <= 0
    BY <1>2, <1>3, Z3
  <2>2. QED BY <1>2, <2>1
<1>4. CASE k >= 1
  <2>1. N * k >= N
    BY <1>2, <1>4, Z3
  <2>2. QED BY <1>2, <2>1
<1>5. QED BY <1>2, <1>3, <1>4

LEMMA CellType == \A n \in Int : Cell(n) \in Cells
  BY CapacityAssumption DEF Cell, Cells

\* Writing number latest+1 leaves the cells of the retained numbers alone.
LEMMA CellsKept ==
  ASSUME NEW l \in Nat, NEW n \in 1 .. l, n > (l + 1) - RingSize
  PROVE  Cell(n) # Cell(l + 1)
<1>1. /\ n - 1 \in Nat /\ l \in Nat /\ n - 1 < l /\ l < (n - 1) + RingSize
  BY CapacityAssumption
<1>2. (n - 1) % RingSize # l % RingSize
  BY <1>1, DifferentCells, CapacityAssumption
<1>3. QED BY <1>2 DEF Cell

\* While numbers are far from their wrap, a cursor is followed by its successor.
LEMMA FollowingIsNext == \A c \in 0 .. MaxEvents : Following(c) = c + 1
<1> SUFFICES ASSUME NEW c \in 0 .. MaxEvents PROVE Following(c) = c + 1
  OBVIOUS
<1>1. c + 1 \in Nat /\ c + 1 < Wrap
  BY BoundAssumption
<1>2. QED BY <1>1, BoundAssumption DEF Following

\* What the consumer finds after its cursor: the successor, or the oldest
\* retained record when the successor is overwritten.
LEMMA ReadingNext ==
  ASSUME EventsInv, HasNext(eventCursor)
  PROVE  LET t == Target(eventCursor) IN
         /\ t \in 1 .. latest /\ t > latest - RingSize
         /\ eventCursor < t
         /\ t = IF eventCursor + 1 < latest - RingSize + 1
                THEN latest - RingSize + 1 ELSE eventCursor + 1
         /\ MissedSince(eventCursor) = t - eventCursor - 1
         /\ records[Cell(t)].event = log[t]
<1>1. /\ eventCursor \in 0 .. MaxEvents /\ latest \in 0 .. MaxEvents /\ count \in 0 .. RingSize
      /\ eventCursor <= latest
  BY DEF EventsInv, EventTypeOK
<1>2. Following(eventCursor) = eventCursor + 1
  BY <1>1, FollowingIsNext
<1>3. count > 0 /\ Target(eventCursor) <= latest
  BY DEF HasNext
<1>4. OldestSequence = IF latest < RingSize THEN 1 ELSE latest - RingSize + 1
  BY <1>1, <1>3, CapacityAssumption, BoundAssumption
     DEF EventsInv, Filling, OldestSequence
<1>5. Target(eventCursor) = IF eventCursor + 1 < latest - RingSize + 1
                            THEN latest - RingSize + 1 ELSE eventCursor + 1
  BY <1>1, <1>2, <1>4, CapacityAssumption, BoundAssumption DEF Target
<1>6. MissedSince(eventCursor) = Target(eventCursor) - eventCursor - 1
  BY <1>1, <1>2, <1>3, <1>4, <1>5, CapacityAssumption, BoundAssumption
     DEF MissedSince
<1>7. /\ Target(eventCursor) \in 1 .. latest /\ Target(eventCursor) > latest - RingSize
      /\ eventCursor < Target(eventCursor)
  BY <1>1, <1>3, <1>5, CapacityAssumption, BoundAssumption
<1>8. records[Cell(Target(eventCursor))].event = log[Target(eventCursor)]
  BY <1>7 DEF EventsInv, Contents
<1>9. QED BY <1>5, <1>6, <1>7, <1>8

-----------------------------------------------------------------------------
(* The invariant.                                                          *)

LEMMA InitEventsInv == EventInit => EventsInv
<1> SUFFICES ASSUME EventInit PROVE EventsInv
  OBVIOUS
<1>1. EventTypeOK
  <2>1. 0 \in 0 .. RingSize /\ 0 \in 0 .. MaxEvents
    BY CapacityAssumption, BoundAssumption
  <2>2. records \in [Cells -> EventRecord \cup {NoRecord}] /\ log \in Seq(Events)
    BY DEF EventInit
  <2>3. QED BY <2>1, <2>2 DEF EventInit, EventTypeOK
<1>2. Len(log) = latest /\ eventCursor <= latest /\ Contents /\ NothingSilentlyLost
  BY DEF EventInit, Contents, NothingSilentlyLost
<1>3. Filling
  BY CapacityAssumption DEF EventInit, Filling
<1>4. QED BY <1>1, <1>2, <1>3 DEF EventsInv

LEMMA EmitStep == ASSUME EventsInv, NEW event \in Events, Emit(event) PROVE EventsInv'
<1>1. /\ latest \in 0 .. MaxEvents /\ latest < MaxEvents /\ latest' = latest + 1
      /\ count \in 0 .. RingSize /\ count' = Filled
      /\ records' = [records EXCEPT ![Cell(latest + 1)] =
                       [sequence |-> latest + 1, event |-> event]]
      /\ records \in [Cells -> EventRecord \cup {NoRecord}]
      /\ log' = Append(log, event) /\ log \in Seq(Events) /\ Len(log) = latest
      /\ UNCHANGED <<mqttConnected, consumer>>
  BY DEF EventsInv, EventTypeOK, Emit
<1> DEFINE r == [sequence |-> latest + 1, event |-> event]
<1>2. r \in EventRecord /\ r.sequence = latest + 1 /\ r.event = event
  BY <1>1, BoundAssumption DEF EventRecord
<1>3. Cell(latest + 1) \in Cells
  BY <1>1, CellType
<1>4. /\ log' \in Seq(Events) /\ Len(log') = latest'
      /\ log'[latest + 1] = event
      /\ \A n \in 1 .. latest : log'[n] = log[n]
  BY <1>1
<1>5. EventTypeOK'
  <2>1. records' \in [Cells -> EventRecord \cup {NoRecord}]
    BY <1>1, <1>2
  <2>2. latest' \in 0 .. MaxEvents /\ count' \in 0 .. RingSize
    BY <1>1, BoundAssumption, CapacityAssumption DEF Filled
  <2>3. UNCHANGED <<mqttConnected, eventCursor, eventMissed, message, publishes>>
    BY <1>1 DEF consumer
  <2>4. QED BY <1>4, <2>1, <2>2, <2>3 DEF EventsInv, EventTypeOK
<1>6. (eventCursor <= latest)' /\ NothingSilentlyLost'
  BY <1>1, BoundAssumption DEF EventsInv, EventTypeOK, NothingSilentlyLost, consumer
<1>7. Filling'
  BY <1>1, CapacityAssumption, BoundAssumption DEF EventsInv, Filling, Filled
<1>8. Contents'
  <2> SUFFICES ASSUME NEW n \in 1 .. latest', n > latest' - RingSize
               PROVE  /\ records'[Cell(n)] \in EventRecord
                      /\ records'[Cell(n)].sequence = n
                      /\ records'[Cell(n)].event = log'[n]
    BY DEF Contents, Cell
  <2>1. CASE n = latest + 1
    BY <1>1, <1>2, <1>3, <1>4, <2>1
  <2>2. CASE n # latest + 1
    <3>1. n \in 1 .. latest /\ n > (latest + 1) - RingSize /\ latest \in Nat
      <4>1. n > (latest + 1) - RingSize
        BY <1>1
      <4>2. latest \in Nat /\ n \in 1 .. latest
        BY <1>1, <2>2, BoundAssumption
      <4>3. QED BY <4>1, <4>2
    <3>2. Cell(n) # Cell(latest + 1) /\ Cell(n) \in Cells
      <4>1. Cell(n) # Cell(latest + 1)
        BY <3>1, CellsKept
      <4>2. QED BY <3>1, <4>1, CellType
    <3>3. records'[Cell(n)] = records[Cell(n)]
      BY <1>1, <3>2
    <3>4. n > latest - RingSize
      BY <1>1, <3>1, CapacityAssumption
    <3>5. QED BY <1>4, <3>1, <3>3, <3>4 DEF EventsInv, Contents
  <2>3. QED BY <2>1, <2>2
<1>9. QED BY <1>4, <1>5, <1>6, <1>7, <1>8 DEF EventsInv

LEMMA PublishStep == ASSUME EventsInv, PublishEvent PROVE EventsInv'
<1> DEFINE t == Target(eventCursor)
<1>1. /\ eventCursor' = t /\ publishes' = publishes + 1
      /\ eventMissed' = eventMissed + MissedSince(eventCursor)
      /\ message' = <<t, records[Cell(t)].event, MissedSince(eventCursor)>>
      /\ UNCHANGED <<records, count, latest, log, mqttConnected>>
  BY DEF PublishEvent, bus
<1>2. /\ t \in 1 .. latest /\ t > latest - RingSize /\ eventCursor < t
      /\ MissedSince(eventCursor) = t - eventCursor - 1
  BY ReadingNext DEF PublishEvent
<1>3. /\ eventCursor \in 0 .. MaxEvents /\ latest \in 0 .. MaxEvents
      /\ publishes \in 0 .. MaxEvents /\ eventMissed \in 0 .. MaxEvents
      /\ eventCursor = publishes + eventMissed
  BY DEF EventsInv, EventTypeOK, NothingSilentlyLost
<1>4. NothingSilentlyLost' /\ (eventCursor <= latest)'
  BY <1>1, <1>2, <1>3, BoundAssumption DEF NothingSilentlyLost
<1>5. EventTypeOK'
  <2>1. eventCursor' \in 0 .. MaxEvents /\ eventMissed' \in 0 .. MaxEvents
        /\ publishes' \in 0 .. MaxEvents
    BY <1>1, <1>2, <1>3, BoundAssumption
  <2>2. records[Cell(t)].event \in Events
    BY <1>2 DEF EventsInv, Contents, EventRecord
  <2>3. message' \in (1 .. MaxEvents) \X Events \X (0 .. MaxEvents)
    <3>1. t \in 1 .. MaxEvents /\ MissedSince(eventCursor) \in 0 .. MaxEvents
      BY <1>2, <1>3, BoundAssumption
    <3>2. QED BY <1>1, <2>2, <3>1
  <2>4. QED BY <1>1, <2>1, <2>3 DEF EventsInv, EventTypeOK
<1>6. Filling' /\ Contents' /\ (Len(log) = latest)'
  BY <1>1 DEF EventsInv, Filling, Contents, Cell
<1>7. QED BY <1>4, <1>5, <1>6 DEF EventsInv

LEMMA NextEventsInv == EventsInv /\ [EventNext]_eventVars => EventsInv'
<1> SUFFICES ASSUME EventsInv, [EventNext]_eventVars PROVE EventsInv'
  OBVIOUS
<1>1. ASSUME NEW event \in Events, Emit(event) PROVE EventsInv'
  BY <1>1, EmitStep
<1>2. CASE Disconnect \/ Connect
  <2>1. UNCHANGED <<bus, consumer>> /\ mqttConnected' \in BOOLEAN
    BY <1>2 DEF Disconnect, Connect
  <2>2. QED BY <2>1
       DEF EventsInv, EventTypeOK, Filling, Contents, Cell, NothingSilentlyLost,
           bus, consumer
<1>3. CASE PublishEvent
  BY <1>3, PublishStep
<1>4. CASE PublishFails \/ UNCHANGED eventVars
  <2>1. UNCHANGED eventVars
    BY <1>4 DEF PublishFails
  <2>2. QED BY <2>1
       DEF EventsInv, EventTypeOK, Filling, Contents, Cell, NothingSilentlyLost,
           eventVars
<1>5. QED BY <1>1, <1>2, <1>3, <1>4 DEF EventNext

\* Every reachable state satisfies the invariant.
THEOREM Invariance == EventSpec => []EventsInv
  BY InitEventsInv, NextEventsInv, PTL DEF EventSpec

\* Type correctness of the event bus and its consumer.
THEOREM EventsTypeCorrect == EventSpec => []EventTypeOK
  BY Invariance, PTL DEF EventsInv

\* The MQTT consumer accounts for every event: published or announced as
\* missed (eventCursor_, eventMissed_ and the messages of publishEvent).
THEOREM Accounting == EventSpec => []NothingSilentlyLost
  BY Invariance, PTL DEF EventsInv

-----------------------------------------------------------------------------
(* A web reader.                                                           *)

\* A retained number is readable, an overwritten one is not.
LEMMA ReadableNumbers ==
  ASSUME EventsInv, NEW n \in 1 .. latest
  PROVE  Readable(n) <=> n > latest - RingSize
<1>1. latest \in 0 .. MaxEvents /\ latest \in Nat /\ latest >= 1 /\ count \in 0 .. RingSize
  BY BoundAssumption DEF EventsInv, EventTypeOK
<1>2. OldestSequence = IF latest < RingSize THEN 1 ELSE latest - RingSize + 1
  BY <1>1, CapacityAssumption DEF EventsInv, Filling, OldestSequence
<1>3. /\ n >= OldestSequence <=> n > latest - RingSize
      /\ n # 0 /\ OldestSequence # 0 /\ n <= latest
  BY <1>1, <1>2, CapacityAssumption
<1>4. n > latest - RingSize => /\ records[Cell(n)] # NoRecord
                               /\ records[Cell(n)].sequence = n
  BY NoRecordAssumption DEF EventsInv, Contents
<1>5. QED BY <1>3, <1>4 DEF Readable

LEMMA WebReader == EventsInv => WebReaderSeesTheRest
<1> SUFFICES ASSUME EventsInv, NEW after \in 0 .. latest
             PROVE  /\ WebItems(after) = after + MissedSince(after) + 1 .. latest
                    /\ \A n \in WebItems(after) : records[Cell(n)].event = log[n]
  BY DEF WebReaderSeesTheRest
<1>1. /\ latest \in 0 .. MaxEvents /\ latest \in Nat /\ count \in 0 .. RingSize
      /\ after \in Nat /\ after <= latest /\ after \in 0 .. MaxEvents
  BY BoundAssumption DEF EventsInv, EventTypeOK
<1>2. Following(after) = after + 1
  BY <1>1, FollowingIsNext
<1>3. CASE after = latest
  <2>1. WebItems(after) = {}
    BY <1>1, <1>3 DEF WebItems
  <2>2. MissedSince(after) = 0
    BY <1>1, <1>2, <1>3, CapacityAssumption
       DEF MissedSince, OldestSequence, EventsInv, Filling
  <2>3. after + MissedSince(after) + 1 .. latest = {}
    BY <1>1, <1>3, <2>2
  <2>4. QED BY <2>1, <2>3
<1>4. CASE after < latest
  <2>1. OldestSequence = IF latest < RingSize THEN 1 ELSE latest - RingSize + 1
    BY <1>1, <1>4, CapacityAssumption DEF EventsInv, Filling, OldestSequence
  <2>2. MissedSince(after) = IF after + 1 < latest - RingSize + 1
                             THEN latest - RingSize - after ELSE 0
    BY <1>1, <1>2, <1>4, <2>1, CapacityAssumption
       DEF MissedSince, EventsInv, Filling
  <2>3. OldestSequence # 0 /\ ~(after >= latest)
    BY <1>1, <1>4, <2>1, CapacityAssumption
  <2>4. WebItems(after) = {n \in after + 1 .. latest : Readable(n)}
    BY <2>3 DEF WebItems
  <2>5. \A n \in after + 1 .. latest : n \in 1 .. latest
    BY <1>1
  <2>6. WebItems(after) = {n \in after + 1 .. latest : n > latest - RingSize}
    BY <2>4, <2>5, ReadableNumbers
  <2>7. {n \in after + 1 .. latest : n > latest - RingSize}
          = after + MissedSince(after) + 1 .. latest
    BY <1>1, <2>2, CapacityAssumption
  <2>8. \A n \in WebItems(after) : n \in 1 .. latest /\ n > latest - RingSize
    BY <2>5, <2>6
  <2>9. QED BY <2>6, <2>7, <2>8 DEF EventsInv, Contents
<1>5. QED BY <1>1, <1>3, <1>4

\* A reader of GET /api/events that polls with any cursor gets exactly the
\* retained events after it, and missed_before is the gap (missedSince and the
\* read loop over the ring).
THEOREM WebReading == EventSpec => []WebReaderSeesTheRest
  BY Invariance, WebReader, PTL

-----------------------------------------------------------------------------
(* Refinement.                                                             *)

LEMMA RefineStep == EventsInv /\ [EventNext]_eventVars => [Abstract!Next]_(Abstract!logVars)
<1> SUFFICES ASSUME EventsInv, [EventNext]_eventVars PROVE [Abstract!Next]_(Abstract!logVars)
  OBVIOUS
<1>1. ASSUME NEW event \in Events, Emit(event) PROVE Abstract!Next
  <2>1. Abstract!Append1(event)
    BY <1>1 DEF Emit, consumer, Abstract!Append1
  <2>2. QED BY <2>1 DEF Abstract!Next
<1>2. CASE PublishEvent
  <2> DEFINE t == Target(eventCursor)
  <2>1. /\ t \in 1 .. latest /\ eventCursor < t
        /\ t = IF eventCursor + 1 < latest - RingSize + 1
               THEN latest - RingSize + 1 ELSE eventCursor + 1
        /\ MissedSince(eventCursor) = t - eventCursor - 1
        /\ records[Cell(t)].event = log[t]
    BY <1>2, ReadingNext DEF PublishEvent
  <2>2. /\ eventCursor \in Nat /\ latest \in Nat /\ Len(log) = latest
    BY BoundAssumption DEF EventsInv, EventTypeOK
  <2>3. Abstract!Target = t
    BY <2>1, <2>2, CapacityAssumption DEF Abstract!Target, Abstract!Oldest
  <2>4. eventCursor < Len(log)
    BY <2>1, <2>2
  <2>5. /\ eventCursor' = t /\ log' = log
        /\ message' = <<t, log[t], t - eventCursor - 1>>
    BY <1>2, <2>1 DEF PublishEvent, bus
  <2>6. Abstract!Publish
    BY <2>3, <2>4, <2>5 DEF Abstract!Publish
  <2>7. QED BY <2>6 DEF Abstract!Next
<1>3. CASE Disconnect \/ Connect \/ PublishFails \/ UNCHANGED eventVars
  BY <1>3
     DEF Disconnect, Connect, PublishFails, eventVars, bus, consumer,
         Abstract!logVars
<1>4. QED BY <1>1, <1>2, <1>3 DEF EventNext

\* The ring and the consumer's cursor implement the log of EventLog.
THEOREM Refinement == EventSpec => ImplementsEventLog
<1>1. EventInit => Abstract!Init
  BY DEF EventInit, Abstract!Init
<1>2. QED BY <1>1, Invariance, RefineStep, PTL
     DEF EventSpec, ImplementsEventLog, Abstract!Spec

-----------------------------------------------------------------------------
(* The invariant.  A call of lora_.send carries records only if it is the   *)
(* outermost one: the others are replies in its receive windows.            *)

Outermost(calls) == calls[Len(calls)]
Flying(calls, user) == calls # <<>> /\ Outermost(calls).from = user

\* Where the cursor of a user will be when the uplink that is out returns.
Reached(calls, user, cursor) ==
  cursor + (IF Flying(calls, user) /\ Outermost(calls).sent THEN Len(Outermost(calls).records) ELSE 0)

Nested(calls) ==
  \A i \in 1 .. Len(calls) :
    /\ i < Len(calls) => calls[i].from = "reply"
    /\ i > 1 => calls[i].sent
    /\ calls[i].accepts => calls[i].from = "reply"

Carries(calls, user, rs, cursor) ==
  Flying(calls, user) =>
    cursor \in 1 .. Len(rs) /\ Outermost(calls).records = Packet(rs, cursor)

CallInv == stack \in Seq(Call) /\ Len(stack) <= MaxDepth /\ Nested(stack)

\* The ring keeps no more than its capacity.
RingInv ==
  /\ unix \in Times
  /\ ring \in Seq(Record) /\ Len(ring) <= Capacity /\ stored \in 0 .. MaxRecords

\* The marker is in flash until the code begins to clear it.
MarkInv ==
  /\ marker \in Marker /\ flash \in Marker
  /\ running /\ marker.pending => marker.lostAt # 0
  /\ marker.pending /\ ~clearing => flash = marker

\* A pass sends its snapshot from "first" on, and has sent what is before its cursor.
PassFrom(first) ==
  /\ first <= next /\ next <= Len(snapshot) + 1
  /\ due = SubSeq(snapshot, first, Len(snapshot))
  /\ Carries(stack, "retransmission", snapshot, next)
  /\ forwarded = SubSeq(snapshot, first, Reached(stack, "retransmission", next) - 1)

PassInv ==
  /\ snapshot \in Seq(Record) /\ next \in Nat \ {0}
  /\ due \in Seq(Record) /\ forwarded \in Seq(Record)
  /\ Flying(stack, "retransmission") /\ marker.pending => snapshotted
  /\ snapshotted => \E first \in 1 .. Len(snapshot) + 1 : PassFrom(first)

\* A query has uploaded what is before its cursor, or is over, or was emptied by a
\* stop or by a reply that failed.
Uploading ==
  /\ queryRecords = selected /\ queryCursor <= Len(selected) + 1
  /\ Carries(stack, "query", selected, queryCursor)
  /\ uploaded = SubSeq(selected, 1, Reached(stack, "query", queryCursor) - 1)
Finished == ~queryActive /\ \A i \in 1 .. Len(stack) : ~stack[i].accepts
Emptied ==
  /\ queryRecords = <<>> /\ selected = <<>> /\ uploaded = <<>>
  /\ Flying(stack, "query") => Outermost(stack).sent

QueryInv ==
  /\ queryRecords \in Seq(Record) /\ queryCursor \in Nat \ {0}
  /\ selected \in Seq(Record) /\ uploaded \in Seq(Record)
  /\ overlapped \/ Uploading \/ Finished \/ Emptied

\* The switches and flags.
FlagInv ==
  /\ storage \in BOOLEAN /\ retransmit \in BOOLEAN /\ clearing \in BOOLEAN
  /\ running \in BOOLEAN /\ restarts \in 0 .. MaxRestarts
  /\ connected \in BOOLEAN /\ wasConnected \in BOOLEAN /\ observed \in BOOLEAN
  /\ snapshotted \in BOOLEAN /\ queryActive \in BOOLEAN /\ overlapped \in BOOLEAN

HistoryInv == FlagInv /\ RingInv /\ MarkInv /\ CallInv /\ PassInv /\ QueryInv

\* A set of naturals has a least element.
LEMMA LeastNumber ==
  ASSUME NEW T, T \subseteq Nat, T # {}
  PROVE  \E m \in T : \A i \in T : m <= i
<1> DEFINE R == {p \in Nat \X Nat : p[1] < p[2]}
<1>1. OpToRel(<, Nat) = R
  BY DEF OpToRel
<1>2. IsWellFoundedOn(R, Nat)
  BY <1>1, NatLessThanWellFounded
<1> HIDE DEF R
<1>3. PICK m \in T : \A y \in T : ~(<<y, m>> \in R)
  BY <1>2, WFMin
<1>4. ASSUME NEW y \in T PROVE m <= y
  <2>1. m \in Nat /\ y \in Nat
    OBVIOUS
  <2>2. y < m => <<y, m>> \in R
    BY <2>1 DEF R
  <2> QED BY <1>3, <2>1, <2>2
<1> QED BY <1>4

-----------------------------------------------------------------------------
(* Sequences, and what is chosen from one.                                 *)

\* The elements of a finite set of positions are counted in their order.
LEMMA PositionOfRank ==
  ASSUME NEW n \in Nat, NEW P, P \subseteq 1 .. n
  PROVE  /\ Cardinality(P) \in Nat
         /\ \A k \in 1 .. Cardinality(P) :
              \E i \in P : Cardinality({j \in P : j <= i}) = k
<1> DEFINE c == Cardinality(P)
           upto(i) == {j \in P : j <= i}
           rank == [i \in P |-> Cardinality(upto(i))]
<1>1. IsFiniteSet(P) /\ c \in Nat
  <2>1. IsFiniteSet(1 .. n)
    BY FS_Interval
  <2>2. IsFiniteSet(P)
    BY <2>1, FS_Subset
  <2> QED BY <2>2, FS_CardinalityType
<1>2. ASSUME NEW i \in P
      PROVE  /\ IsFiniteSet(upto(i)) /\ Cardinality(upto(i)) \in 1 .. c
  <2>1. upto(i) \in SUBSET P /\ i \in upto(i)
    OBVIOUS
  <2>2. IsFiniteSet(upto(i)) /\ Cardinality(upto(i)) <= c
    BY <1>1, <2>1, FS_Subset
  <2>3. Cardinality(upto(i)) \in Nat
    BY <2>2, FS_CardinalityType
  <2>4. Cardinality(upto(i)) # 0
    BY <2>1, <2>2, FS_EmptySet
  <2> QED BY <1>1, <2>2, <2>3, <2>4
<1>3. ASSUME NEW a \in P, NEW b \in P, a < b
      PROVE Cardinality(upto(a)) # Cardinality(upto(b))
  <2>0. a \in Int /\ b \in Int /\ \A j \in P : j \in Int
    OBVIOUS
  <2>1. upto(a) \in SUBSET upto(b)
    <3>1. \A j \in P : j <= a => j <= b
      BY <1>3, <2>0
    <3> QED BY <3>1, Zenon
  <2>2. b \in upto(b) /\ b \notin upto(a)
    BY <1>3, <2>0
  <2>3. IsFiniteSet(upto(b))
    BY <1>2
  <2> HIDE DEF upto
  <2> QED BY <2>1, <2>2, <2>3, FS_Subset
<1>4. rank \in Injection(P, 1 .. c)
  <2>1. rank \in [P -> 1 .. c]
    BY <1>2
  <2>2. ASSUME NEW a \in P, NEW b \in P, rank[a] = rank[b] PROVE a = b
    <3>1. Cardinality(upto(a)) = Cardinality(upto(b))
      BY <2>2
    <3>2. ~(a < b) /\ ~(b < a)
      BY <1>3, <3>1
    <3>3. a \in Int /\ b \in Int
      OBVIOUS
    <3> QED BY <3>2, <3>3
  <2> HIDE DEF rank
  <2> QED BY <2>1, <2>2 DEF Injection, IsInjective
<1>5. IsFiniteSet(1 .. c) /\ Cardinality(1 .. c) = c
  BY <1>1, FS_Interval
<1>6. rank \in Surjection(P, 1 .. c)
  <2> HIDE DEF rank
  <2> QED BY <1>4, <1>5, FS_Injection
<1>7. \A k \in 1 .. c : \E i \in P : rank[i] = k
  BY <1>6 DEF Surjection
<1> QED BY <1>1, <1>7

\* What is chosen from a sequence is a sequence of its elements.
LEMMA ChosenType ==
  ASSUME NEW R, NEW s \in Seq(R), NEW P, P \subseteq 1 .. Len(s)
  PROVE  Chosen(s, P) \in Seq(R)
<1> DEFINE c == Cardinality(P)
           at(k) == CHOOSE i \in P : Cardinality({j \in P : j <= i}) = k
<1>1. Len(s) \in Nat
  OBVIOUS
<1>2. c \in Nat /\ \A k \in 1 .. c : \E i \in P : Cardinality({j \in P : j <= i}) = k
  BY <1>1, PositionOfRank
<1>3. \A k \in 1 .. c : at(k) \in P
  BY <1>2
<1> HIDE DEF at
<1>4. \A k \in 1 .. c : s[at(k)] \in R
  BY <1>3, ElementOfSeq
<1>5. Chosen(s, P) = [k \in 1 .. c |-> s[at(k)]]
  BY DEF Chosen, at
<1>6. [k \in 1 .. c |-> s[at(k)]] \in [1 .. c -> R]
  BY <1>4
<1> QED BY <1>2, <1>5, <1>6, SeqDef

\* The last positions give the end of the sequence.
LEMMA ChosenEnd ==
  ASSUME NEW R, NEW s \in Seq(R), NEW f \in 1 .. Len(s) + 1
  PROVE  Chosen(s, f .. Len(s)) = SubSeq(s, f, Len(s))
<1> DEFINE n == Len(s)
           P == f .. n
           at(k) == CHOOSE i \in P : Cardinality({j \in P : j <= i}) = k
           c == IF f > n THEN 0 ELSE n - f + 1
<1>1. n \in Nat /\ f \in Int
  OBVIOUS
<1>2. Cardinality(P) = c
  <2>1. n \in Int
    BY <1>1
  <2> QED BY <1>1, <2>1, FS_Interval, Zenon
<1>3. ASSUME NEW i \in P PROVE Cardinality({j \in P : j <= i}) = i - f + 1
  <2>1. {j \in P : j <= i} = f .. i
    BY <1>1
  <2>2. Cardinality(f .. i) = i - f + 1
    BY <1>1, FS_Interval
  <2> QED BY <2>1, <2>2
<1>4. ASSUME NEW k \in 1 .. c PROVE at(k) = f + k - 1
  <2>1. f + k - 1 \in P
    BY <1>1
  <2>2. \A i \in P : (Cardinality({j \in P : j <= i}) = k) <=> (i = f + k - 1)
    BY <1>1, <1>3, SMTT(60)
  <2>3. \E i \in P : Cardinality({j \in P : j <= i}) = k
    BY <2>1, <2>2
  <2>4. at(k) \in P /\ Cardinality({j \in P : j <= at(k)}) = k
    BY <2>3
  <2> QED BY <2>2, <2>4
<1>5. Chosen(s, P) = [k \in 1 .. c |-> s[at(k)]]
  BY <1>2 DEF Chosen
<1> HIDE DEF at
<1>6. Chosen(s, P) = [k \in 1 .. c |-> s[f + k - 1]]
  BY <1>4, <1>5
<1>7. \A i \in f .. n : s[i] \in R
  BY ElementOfSeq
<1>8. /\ SubSeq(s, f, n) \in Seq(R) /\ Len(SubSeq(s, f, n)) = c
      /\ \A i \in 1 .. n - f + 1 : SubSeq(s, f, n)[i] = s[f + i - 1]
  <2>1. /\ SubSeq(s, f, n) \in Seq(R)
        /\ Len(SubSeq(s, f, n)) = IF f <= n THEN n - f + 1 ELSE 0
        /\ \A i \in 1 .. n - f + 1 : SubSeq(s, f, n)[i] = s[f + i - 1]
    BY <1>1, <1>7, SubSeqProperties
  <2> QED BY <1>1, <2>1
<1>9. c \in Nat /\ c <= n - f + 1
  BY <1>1
<1>10. SubSeq(s, f, n) = [k \in 1 .. c |-> SubSeq(s, f, n)[k]]
  <2> HIDE DEF c
  <2> QED BY <1>8, <1>9, LenProperties
<1>11. \A k \in 1 .. c : SubSeq(s, f, n)[k] = s[f + k - 1]
  <2> HIDE DEF c
  <2> QED BY <1>1, <1>8, <1>9
<1> HIDE DEF c
<1> QED BY <1>6, <1>10, <1>11

\* The records that are not older than a time or follow such a record are those from the
\* first such record on, in whatever order their time stamps are.
LEMMA SinceIsEnd ==
  ASSUME NEW R, NEW s \in Seq(R), NEW t \in Int
  PROVE  /\ FirstSince(s, t) \in 1 .. Len(s) + 1
         /\ Since(s, t) = SubSeq(s, FirstSince(s, t), Len(s))
<1> DEFINE n == Len(s)
           late == {i \in 1 .. n : s[i].time >= t}
           owed == {i \in 1 .. n : \E j \in 1 .. i : s[j].time >= t}
           f == IF late = {} THEN n + 1 ELSE CHOOSE i \in late : \A j \in late : i <= j
<1>1. n \in Nat
  OBVIOUS
<1>2. f \in 1 .. n + 1 /\ owed = f .. n
  <2>1. CASE late = {}
    <3>1. owed = {}
      BY <1>1, <2>1
    <3> QED BY <1>1, <2>1, <3>1
  <2>2. CASE late # {}
    <3>1. PICK m \in late : \A j \in late : m <= j
      <4>1. late \subseteq Nat
        OBVIOUS
      <4> HIDE DEF late
      <4> QED BY <2>2, <4>1, LeastNumber
    <3>2. f \in late /\ \A j \in late : f <= j
      BY <2>2, <3>1
    <3> HIDE DEF f
    <3>3. f \in 1 .. n /\ s[f].time >= t
      BY <3>2
    <3>4. ASSUME NEW i \in f .. n PROVE i \in owed
      <4>1. i \in 1 .. n /\ f \in 1 .. i
        BY <1>1, <3>3
      <4> QED BY <3>3, <4>1
    <3>5. ASSUME NEW i \in owed PROVE i \in f .. n
      <4>1. PICK j \in 1 .. i : s[j].time >= t
        OBVIOUS
      <4>2. i \in 1 .. n /\ j \in late
        BY <1>1, <4>1
      <4>3. f <= j
        BY <3>2, <4>2
      <4> QED BY <1>1, <3>3, <4>2, <4>3
    <3>6. owed = f .. n
      <4> HIDE DEF owed
      <4> QED BY <3>4, <3>5
    <3> QED BY <1>1, <3>3, <3>6
  <2> QED BY <2>1, <2>2
<1>3. FirstSince(s, t) = f
  BY DEF FirstSince
<1>4. Since(s, t) = Chosen(s, owed)
  BY DEF Since
<1> HIDE DEF f, late, owed
<1> QED BY <1>2, <1>3, <1>4, ChosenEnd

\* A packet, and what it adds to what was sent.
LEMMA PacketFacts ==
  ASSUME NEW R, NEW s \in Seq(R), NEW c \in 1 .. Len(s)
  PROVE  /\ Packet(s, c) \in Seq(R) /\ Len(Packet(s, c)) \in 1 .. Len(s) - c + 1
         /\ Packet(s, c) = SubSeq(s, c, c + Len(Packet(s, c)) - 1)
<1> DEFINE e == IF c + PacketRecords - 1 < Len(s) THEN c + PacketRecords - 1 ELSE Len(s)
<1>1. e \in c .. Len(s)
  BY ParameterAssumption
<1>2. Packet(s, c) = SubSeq(s, c, e)
  BY DEF Packet
<1> HIDE DEF e
<1>3. \A i \in c .. e : s[i] \in R
  BY <1>1, ElementOfSeq
<1>4. SubSeq(s, c, e) \in Seq(R) /\ Len(SubSeq(s, c, e)) = e - c + 1
  <2>1. /\ SubSeq(s, c, e) \in Seq(R)
        /\ Len(SubSeq(s, c, e)) = IF c <= e THEN e - c + 1 ELSE 0
    BY <1>1, <1>3, SubSeqProperties
  <2> QED BY <1>1, <2>1
<1>5. Len(Packet(s, c)) = e - c + 1 /\ c + (e - c + 1) - 1 = e
  BY <1>1, <1>2, <1>4
<1> QED BY <1>1, <1>2, <1>4, <1>5

\* Sending the next packet continues what was sent.
LEMMA SentMore ==
  ASSUME NEW R, NEW s \in Seq(R), NEW f \in 1 .. Len(s) + 1, NEW c \in f .. Len(s)
  PROVE  /\ SubSeq(s, f, c - 1) \in Seq(R) /\ Len(SubSeq(s, f, c - 1)) = c - f
         /\ SubSeq(s, f, c - 1) \o Packet(s, c) = SubSeq(s, f, c + Len(Packet(s, c)) - 1)
<1> DEFINE l == Len(Packet(s, c))
<1>1. Len(s) \in Nat
  OBVIOUS
<1>2. l \in 1 .. Len(s) - c + 1 /\ Packet(s, c) = SubSeq(s, c, c + l - 1)
  BY <1>1, PacketFacts
<1> HIDE DEF l
<1>3. \A i \in f .. c - 1 : s[i] \in R
  BY <1>1, ElementOfSeq
<1>4. SubSeq(s, f, c - 1) \in Seq(R) /\ Len(SubSeq(s, f, c - 1)) = c - f
  <2>1. /\ SubSeq(s, f, c - 1) \in Seq(R)
        /\ Len(SubSeq(s, f, c - 1)) = IF f <= c - 1 THEN (c - 1) - f + 1 ELSE 0
    BY <1>1, <1>3, SubSeqProperties
  <2> QED BY <1>1, <2>1
<1>5. SubSeq(s, f, c - 1) \o SubSeq(s, (c - 1) + 1, c + l - 1) = SubSeq(s, f, c + l - 1)
  <2>1. c - 1 \in f - 1 .. Len(s) /\ c + l - 1 \in c - 1 .. Len(s)
    BY <1>1, <1>2
  <2> QED BY <1>1, <2>1, ConcatAdjacentSubSeq
<1>6. (c - 1) + 1 = c
  BY <1>1
<1> QED BY <1>2, <1>4, <1>5, <1>6 DEF l

-----------------------------------------------------------------------------
(* Calls of lora_.send that begin, go out and return.                      *)

\* The calls that carry records are the same.
SameCarrier(s, t) ==
  \A user \in {"query", "retransmission"} :
    /\ Flying(t, user) <=> Flying(s, user)
    /\ Flying(s, user) => Outermost(t) = Outermost(s)

\* The innermost call has sent its uplink.
Marked(s) == <<[Head(s) EXCEPT !.sent = TRUE]>> \o Tail(s)
ReplyCall(accepts) == [from |-> "reply", records |-> <<>>, accepts |-> accepts, sent |-> FALSE]

\* A call that is not empty has a first and a last element.
LEMMA FirstAndLast ==
  ASSUME NEW s \in Seq(Call), s # <<>>
  PROVE  /\ Len(s) \in Nat \ {0} /\ Head(s) = s[1] /\ s[1] \in Call /\ Outermost(s) \in Call
  BY SMT DEF Outermost

LEMMA SameLast ==
  ASSUME NEW s, NEW t, s # <<>>, t # <<>>, t[Len(t)] = s[Len(s)]
  PROVE  SameCarrier(s, t)
  BY Zenon DEF SameCarrier, Flying, Outermost

LEMMA NoCarrier ==
  ASSUME NEW s, NEW t, s = <<>> \/ s[Len(s)].from = "reply", t = <<>> \/ t[Len(t)].from = "reply"
  PROVE  SameCarrier(s, t)
<1>1. "reply" # "query" /\ "reply" # "retransmission"
  OBVIOUS
<1> QED BY <1>1, Zenon DEF SameCarrier, Flying, Outermost

LEMMA MarkedElements ==
  ASSUME NEW s \in Seq(Call), s # <<>>
  PROVE  /\ Marked(s) \in Seq(Call) /\ Marked(s) # <<>> /\ Len(Marked(s)) = Len(s)
         /\ Marked(s)[1] = [s[1] EXCEPT !.sent = TRUE]
         /\ \A i \in 2 .. Len(s) : Marked(s)[i] = s[i]
<1> DEFINE c == [s[1] EXCEPT !.sent = TRUE]
<1>1. Len(s) \in Nat \ {0} /\ Head(s) = s[1] /\ s[1] \in Call
  BY FirstAndLast
<1>2. c \in Call
  BY <1>1, Zenon DEF Call
<1> HIDE DEF c
<1>3. /\ <<c>> \in Seq(Call) /\ Len(<<c>>) = 1 /\ <<c>>[1] = c
      /\ Tail(s) \in Seq(Call) /\ Len(Tail(s)) = Len(s) - 1
      /\ \A i \in 1 .. Len(Tail(s)) : Tail(s)[i] = s[i + 1]
  BY <1>2, HeadTailProperties
<1>4. /\ <<c>> \o Tail(s) \in Seq(Call)
      /\ Len(<<c>> \o Tail(s)) = Len(<<c>>) + Len(Tail(s))
      /\ \A i \in 1 .. Len(<<c>>) + Len(Tail(s)) :
           (<<c>> \o Tail(s))[i] = IF i <= Len(<<c>>) THEN <<c>>[i] ELSE Tail(s)[i - Len(<<c>>)]
  BY <1>3, ConcatProperties
<1>5. Marked(s) = <<c>> \o Tail(s)
  BY <1>1 DEF Marked, c
<1> DEFINE m == Marked(s)
<1>6. m \in Seq(Call) /\ Len(m) = Len(s) /\ m[1] = c
  BY <1>1, <1>3, <1>4, <1>5
<1>7. m # <<>>
  BY <1>1, <1>6
<1>8. ASSUME NEW i \in 2 .. Len(s) PROVE m[i] = s[i]
  <2>1. i - 1 \in 1 .. Len(Tail(s)) /\ i \in 1 .. 1 + Len(Tail(s)) /\ ~(i <= 1) /\ (i - 1) + 1 = i
    BY <1>1, <1>3
  <2> QED BY <1>3, <1>4, <1>5, <2>1
<1> QED BY <1>6, <1>7, <1>8 DEF c

\* An uplink goes out: the stack is as before but for its innermost call.
LEMMA MarkedCalls ==
  ASSUME NEW s \in Seq(Call), s # <<>>, Nested(s)
  PROVE  /\ Marked(s) \in Seq(Call) /\ Len(Marked(s)) = Len(s) /\ Nested(Marked(s))
         /\ \A i \in 1 .. Len(s) : Marked(s)[i].accepts = s[i].accepts
         /\ Head(s).from = "reply" => SameCarrier(s, Marked(s))
         /\ Head(s).from # "reply" =>
              /\ Len(s) = 1
              /\ Outermost(s) = Head(s)
              /\ Outermost(Marked(s)) = [Head(s) EXCEPT !.sent = TRUE]
<1> DEFINE m == Marked(s)
<1>1. Len(s) \in Nat \ {0} /\ Head(s) = s[1] /\ s[1] \in Call
  BY FirstAndLast
<1>2. /\ m \in Seq(Call) /\ m # <<>> /\ Len(m) = Len(s)
      /\ m[1] = [s[1] EXCEPT !.sent = TRUE]
      /\ \A i \in 2 .. Len(s) : m[i] = s[i]
  BY MarkedElements
<1> HIDE DEF m
<1>3. m[1].from = s[1].from /\ m[1].accepts = s[1].accepts /\ m[1].records = s[1].records
  BY <1>1, <1>2, Zenon DEF Call
<1>4. \A i \in 1 .. Len(s) : i = 1 \/ i \in 2 .. Len(s)
  BY <1>1
<1>5. \A i \in 1 .. Len(s) : m[i].from = s[i].from /\ m[i].accepts = s[i].accepts
  BY <1>2, <1>3, <1>4, Zenon
<1>6. \A i \in 1 .. Len(s) : i > 1 => i \in 2 .. Len(s)
  BY <1>1
<1>7. Nested(m)
  BY <1>2, <1>5, <1>6, Zenon DEF Nested
<1>8. CASE Len(s) = 1
  <2>1. Outermost(s) = Head(s) /\ Outermost(m) = [Head(s) EXCEPT !.sent = TRUE]
    BY <1>1, <1>2, <1>8 DEF Outermost
  <2>2. s[Len(s)].from = s[1].from /\ m[Len(m)].from = s[1].from
    BY <1>2, <1>3, <1>8
  <2>3. Head(s).from = "reply" => SameCarrier(s, m)
    BY <1>1, <2>2, NoCarrier
  <2> QED BY <1>2, <1>5, <1>7, <1>8, <2>1, <2>3 DEF m
<1>9. CASE Len(s) # 1
  <2>1. Len(s) \in 2 .. Len(s) /\ 1 \in 1 .. Len(s) /\ 1 < Len(s)
    <3>1. PICK n \in Nat \ {0} : n = Len(s)
      BY <1>1
    <3>2. n # 1
      BY <1>9, <3>1
    <3>3. n \in 2 .. n /\ 1 \in 1 .. n /\ 1 < n
      BY <3>2
    <3> QED BY <3>1, <3>3
  <2>2. m[Len(m)] = s[Len(s)]
    BY <1>2, <2>1
  <2>3. SameCarrier(s, m)
    BY <1>2, <2>2, SameLast
  <2>4. Head(s).from = "reply"
    BY <1>1, <2>1, Zenon DEF Nested
  <2> QED BY <1>2, <1>5, <1>7, <2>3, <2>4 DEF m
<1> QED BY <1>8, <1>9

\* A call returns.
LEMMA ReturnedCalls ==
  ASSUME NEW s \in Seq(Call), s # <<>>, Nested(s)
  PROVE  /\ Tail(s) \in Seq(Call) /\ Len(Tail(s)) = Len(s) - 1 /\ Nested(Tail(s))
         /\ \A i \in 1 .. Len(Tail(s)) : \E j \in 1 .. Len(s) : Tail(s)[i] = s[j]
         /\ Head(s).from = "reply" => SameCarrier(s, Tail(s))
         /\ Head(s).from # "reply" => Tail(s) = <<>> /\ Len(s) = 1 /\ Outermost(s) = Head(s)
<1> DEFINE t == Tail(s)
<1>1. Len(s) \in Nat \ {0} /\ Head(s) = s[1] /\ s[1] \in Call
  BY FirstAndLast
<1>2. t \in Seq(Call) /\ Len(t) = Len(s) - 1 /\ \A i \in 1 .. Len(t) : t[i] = s[i + 1]
  BY HeadTailProperties
<1> HIDE DEF t
<1>3. \A i \in 1 .. Len(t) : /\ i + 1 \in 1 .. Len(s) /\ i + 1 > 1
                             /\ i < Len(t) => i + 1 < Len(s)
  BY <1>1, <1>2
<1>4. Nested(t)
  <2> SUFFICES ASSUME NEW i \in 1 .. Len(t)
               PROVE  /\ i < Len(t) => t[i].from = "reply"
                      /\ i > 1 => t[i].sent
                      /\ t[i].accepts => t[i].from = "reply"
    BY Zenon DEF Nested
  <2>1. PICK j \in 1 .. Len(s) : j = i + 1
    BY <1>3
  <2>2. t[i] = s[j] /\ j > 1 /\ (i < Len(t) => j < Len(s))
    BY <1>2, <1>3, <2>1
  <2>3. /\ j < Len(s) => s[j].from = "reply"
        /\ j > 1 => s[j].sent
        /\ s[j].accepts => s[j].from = "reply"
    BY <2>1, Zenon DEF Nested
  <2> QED BY <2>2, <2>3, Zenon
<1>5. \A i \in 1 .. Len(t) : \E j \in 1 .. Len(s) : t[i] = s[j]
  BY <1>2, <1>3, Zenon
<1>6. CASE Len(s) = 1
  <2>1. Len(t) = 0
    BY <1>2, <1>6
  <2>2. t = <<>>
    BY <1>2, <2>1
  <2>3. Outermost(s) = Head(s)
    BY <1>1, <1>6 DEF Outermost
  <2>4. Head(s).from = "reply" => SameCarrier(s, t)
    <3>1. s[Len(s)] = Head(s)
      BY <1>1, <1>6
    <3> QED BY <2>2, <3>1, NoCarrier
  <2> QED BY <1>2, <1>4, <1>5, <1>6, <2>2, <2>3, <2>4, Zenon DEF t
<1>7. CASE Len(s) # 1
  <2>1. 1 \in 1 .. Len(s) /\ 1 < Len(s) /\ Len(t) \in 1 .. Len(t) /\ Len(t) + 1 = Len(s)
    BY <1>1, <1>2, <1>7
  <2>2. t[Len(t)] = s[Len(s)]
    BY <1>2, <2>1
  <2>3. t # <<>>
    BY <1>2, <2>1
  <2>4. SameCarrier(s, t)
    BY <2>2, <2>3, SameLast
  <2>5. Head(s).from = "reply"
    BY <1>1, <2>1, Zenon DEF Nested
  <2> QED BY <1>2, <1>4, <1>5, <2>4, <2>5, Zenon DEF t
<1> QED BY <1>6, <1>7

\* A reply is sent in the receive windows of a call, or between two calls.
LEMMA PushedCalls ==
  ASSUME NEW s \in Seq(Call), Nested(s), s = <<>> \/ Head(s).sent, NEW a \in BOOLEAN
  PROVE  /\ <<ReplyCall(a)>> \o s \in Seq(Call) /\ Len(<<ReplyCall(a)>> \o s) = Len(s) + 1
         /\ Nested(<<ReplyCall(a)>> \o s)
         /\ \A i \in 1 .. Len(s) + 1 :
              \/ (<<ReplyCall(a)>> \o s)[i] = ReplyCall(a)
              \/ \E j \in 1 .. Len(s) : (<<ReplyCall(a)>> \o s)[i] = s[j]
         /\ SameCarrier(s, <<ReplyCall(a)>> \o s)
<1> DEFINE c == ReplyCall(a)
           t == <<c>> \o s
<1>1. c \in Call
  <2>1. <<>> \in Seq(Record)
    BY EmptySeq
  <2> QED BY <2>1, Zenon DEF ReplyCall, Call
<1>2. c.from = "reply" /\ c.accepts = a /\ c.sent = FALSE
  BY Zenon DEF ReplyCall
<1> HIDE DEF c
<1>3. <<c>> \in Seq(Call) /\ Len(<<c>>) = 1 /\ <<c>>[1] = c /\ Len(s) \in Nat
  BY <1>1
<1>4. /\ t \in Seq(Call)
      /\ Len(t) = Len(<<c>>) + Len(s)
      /\ \A i \in 1 .. Len(<<c>>) + Len(s) :
           t[i] = IF i <= Len(<<c>>) THEN <<c>>[i] ELSE s[i - Len(<<c>>)]
  BY <1>3, ConcatProperties
<1> HIDE DEF t
<1>5. Len(t) = Len(s) + 1
  BY <1>3, <1>4
<1>6. t[1] = c /\ \A i \in 2 .. Len(s) + 1 : i - 1 \in 1 .. Len(s) /\ t[i] = s[i - 1]
  <2>1. t[1] = c
    BY <1>3, <1>4
  <2>2. ASSUME NEW i \in 2 .. Len(s) + 1
        PROVE i - 1 \in 1 .. Len(s) /\ t[i] = s[i - 1]
    <3>1. i \in 1 .. 1 + Len(s) /\ ~(i <= 1) /\ i - 1 \in 1 .. Len(s)
      BY <1>3
    <3> QED BY <1>3, <1>4, <3>1
  <2> QED BY <2>1, <2>2
<1>7. \A i \in 1 .. Len(s) + 1 : i = 1 \/ i \in 2 .. Len(s) + 1
  BY <1>3
<1>8. Nested(t)
  <2> SUFFICES ASSUME NEW i \in 1 .. Len(s) + 1
               PROVE  /\ i < Len(t) => t[i].from = "reply"
                      /\ i > 1 => t[i].sent
                      /\ t[i].accepts => t[i].from = "reply"
    BY <1>5, Zenon DEF Nested
  <2>1. CASE i = 1
    <3>1. ~(i > 1)
      BY <2>1
    <3> QED BY <1>2, <1>6, <2>1, <3>1, Zenon
  <2>2. CASE i \in 2 .. Len(s) + 1
    <3>1. /\ i - 1 \in 1 .. Len(s) /\ t[i] = s[i - 1]
      BY <1>6, <2>2
    <3>2. /\ i < Len(t) => i - 1 < Len(s)
          /\ i - 1 = 1 \/ i - 1 > 1
      BY <1>3, <1>5, <2>2
    <3>3. s[i - 1].sent
      <4>1. s # <<>>
        BY <1>3, <3>1
      <4>2. Head(s) = s[1]
        BY <4>1, FirstAndLast
      <4>3. CASE i - 1 = 1
        BY <4>1, <4>2, <4>3, Zenon
      <4>4. CASE i - 1 > 1
        BY <3>1, <4>4, Zenon DEF Nested
      <4> QED BY <3>2, <4>3, <4>4
    <3>4. /\ i - 1 < Len(s) => s[i - 1].from = "reply"
          /\ s[i - 1].accepts => s[i - 1].from = "reply"
      BY <3>1, Zenon DEF Nested
    <3> QED BY <3>1, <3>2, <3>3, <3>4, Zenon
  <2> QED BY <1>7, <2>1, <2>2
<1>9. SameCarrier(s, t)
  <2>1. CASE s = <<>>
    <3>1. Len(t) = 1
      BY <1>5, <2>1
    <3>2. t[Len(t)].from = "reply"
      BY <1>2, <1>6, <3>1
    <3> QED BY <2>1, <3>2, NoCarrier
  <2>2. CASE s # <<>>
    <3>0. Len(s) \in Nat \ {0}
      BY <2>2, FirstAndLast
    <3>1. Len(s) + 1 \in 2 .. Len(s) + 1 /\ (Len(s) + 1) - 1 = Len(s)
      BY <3>0
    <3>2. t[Len(t)] = s[Len(s)]
      BY <1>5, <1>6, <3>1
    <3>3. t # <<>>
      BY <1>3, <1>4, <1>5
    <3> QED BY <2>2, <3>2, <3>3, SameLast
  <2> QED BY <2>1, <2>2
<1>10. \A i \in 1 .. Len(s) + 1 : t[i] = c \/ \E j \in 1 .. Len(s) : t[i] = s[j]
  BY <1>6, <1>7, Zenon
<1> QED BY <1>4, <1>5, <1>8, <1>9, <1>10 DEF t, c

-----------------------------------------------------------------------------
(* The ring, the marker and the calls, kept by every step.                 *)

\* Every part of the invariant holds at first.
LEMMA InitHistoryInv == Init => HistoryInv
<1> SUFFICES ASSUME Init PROVE HistoryInv
  OBVIOUS
<1>1. 0 \in Times /\ 0 \in 0 .. MaxRecords /\ 0 \in 0 .. MaxRestarts /\ 0 <= Capacity /\ 0 <= MaxDepth
  BY ParameterAssumption DEF Times
<1>2. /\ <<>> \in Seq(Record) /\ <<>> \in Seq(Call) /\ Len(<<>>) = 0 /\ 1 .. 0 = {}
      /\ SubSeq(<<>>, 1, 0) = <<>> /\ 1 \in Nat \ {0} /\ 1 <= 0 + 1 /\ 1 - 1 = 0 /\ 1 + 0 = 1
  BY EmptySeq, SubSeqEmpty
<1>3. NoMarker \in Marker /\ ~NoMarker.pending
  BY <1>1, Zenon DEF NoMarker, Marker
<1>4. FlagInv
  BY <1>1, Zenon DEF Init, FlagInv
<1>5. RingInv
  BY <1>1, <1>2, Zenon DEF Init, RingInv
<1>6. MarkInv
  BY <1>3, Zenon DEF Init, MarkInv
<1>7. CallInv
  BY <1>1, <1>2, Zenon DEF Init, CallInv, Nested
<1>8. PassInv
  BY <1>2, Zenon DEF Init, PassInv, Flying
<1>9. QueryInv
  <2>1. Finished
    BY <1>2, Zenon DEF Init, Finished
  <2> QED BY <1>2, <2>1, Zenon DEF Init, QueryInv
<1> QED BY <1>4, <1>5, <1>6, <1>7, <1>8, <1>9 DEF HistoryInv

\* A new record takes the place of the oldest one.
LEMMA PushedRing ==
  ASSUME RingInv, NEW r \in Record
  PROVE  Pushed(ring, r) \in Seq(Record) /\ Len(Pushed(ring, r)) <= Capacity
<1>1. ring \in Seq(Record) /\ Len(ring) <= Capacity
  BY DEF RingInv
<1>2. CASE Len(ring) < Capacity
  <2>1. Pushed(ring, r) = Append(ring, r)
    BY <1>2 DEF Pushed
  <2>2. Append(ring, r) \in Seq(Record) /\ Len(Append(ring, r)) = Len(ring) + 1
    BY <1>1, AppendProperties
  <2>3. Len(ring) + 1 <= Capacity
    BY <1>1, <1>2, ParameterAssumption
  <2> QED BY <2>1, <2>2, <2>3
<1>3. CASE ~(Len(ring) < Capacity)
  <2>1. Pushed(ring, r) = Append(Tail(ring), r)
    BY <1>3 DEF Pushed
  <2>2. Len(ring) = Capacity /\ Capacity \in Nat \ {0}
    BY <1>1, <1>3, ParameterAssumption
  <2>3. Tail(ring) \in Seq(Record) /\ Len(Tail(ring)) = Len(ring) - 1
    <3>1. ring # <<>>
      BY <2>2
    <3> QED BY <1>1, <3>1, HeadTailProperties
  <2>4. Append(Tail(ring), r) \in Seq(Record) /\ Len(Append(Tail(ring), r)) = Len(Tail(ring)) + 1
    BY <2>3, AppendProperties
  <2>5. Len(Tail(ring)) + 1 <= Capacity
    BY <2>2, <2>3
  <2> QED BY <2>1, <2>4, <2>5
<1> QED BY <1>2, <1>3

\* The ring stays within its capacity, and the clock within its bound.
LEMMA RingStep == HistoryInv /\ [Next]_vars => RingInv'
<1> SUFFICES ASSUME HistoryInv, [Next]_vars PROVE RingInv'
  OBVIOUS
<1>1. ASSUME UNCHANGED <<unix, ring, stored>> PROVE RingInv'
  BY <1>1, Zenon DEF HistoryInv, RingInv
<1>2. CASE Tick
  <2>1. unix' \in Times /\ ring' = ring /\ stored' = stored
    <3>1. unix < MaxTime /\ unix' = unix + 1 /\ ring' = ring /\ stored' = stored
      BY <1>2, Zenon DEF Tick, memory
    <3>2. unix \in Times
      BY Zenon DEF HistoryInv, RingInv
    <3> QED BY <3>1, <3>2, ParameterAssumption DEF Times
  <2> QED BY <2>1, Zenon DEF HistoryInv, RingInv
<1>3. CASE StoreSnapshot
  <2> DEFINE r == [number |-> stored + 1, time |-> unix]
  <2>1. stored + 1 \in 1 .. MaxRecords /\ stored' = stored + 1 /\ unix' = unix /\ unix \in Times
        /\ stored + 1 \in 0 .. MaxRecords
    <3>1. stored < MaxRecords /\ stored' = stored + 1 /\ unix' = unix
      BY <1>3, Zenon DEF StoreSnapshot
    <3>2. stored \in 0 .. MaxRecords /\ unix \in Times
      BY Zenon DEF HistoryInv, RingInv
    <3>3. stored + 1 \in 1 .. MaxRecords /\ stored + 1 \in 0 .. MaxRecords
      BY <3>1, <3>2, ParameterAssumption
    <3> QED BY <3>1, <3>2, <3>3
  <2>2. r \in Record
    BY <2>1, Zenon DEF Record
  <2>3. ring' = Pushed(ring, r)
    BY <1>3 DEF StoreSnapshot
  <2> HIDE DEF r
  <2> QED BY <2>1, <2>2, <2>3, PushedRing, Zenon DEF HistoryInv, RingInv
<1>4. CASE LinkLost
  BY <1>1, <1>4, Zenon DEF LinkLost, memory
<1>5. CASE LinkJoined
  BY <1>1, <1>5, Zenon DEF LinkJoined, memory
<1>6. ASSUME NEW outcome \in SaveOutcomes, ObserveLink(outcome) PROVE RingInv'
  BY <1>1, <1>6, Zenon DEF ObserveLink, memory
<1>7. ASSUME NEW outcome \in SaveOutcomes, RetransmissionDone(outcome)
      PROVE RingInv'
  BY <1>1, <1>7, Zenon DEF RetransmissionDone, memory
<1>8. CASE RetransmitPacket
  BY <1>1, <1>8, Zenon DEF RetransmitPacket, memory
<1>9. CASE UploadPacket
  BY <1>1, <1>9, Zenon DEF UploadPacket, memory
<1>10. CASE NothingToUpload
  BY <1>1, <1>10, Zenon DEF NothingToUpload, memory
<1>11. CASE SendSucceeds
  BY <1>1, <1>11, Zenon DEF SendSucceeds, memory
<1>12. ASSUME NEW joined \in BOOLEAN, SendFails(joined) PROVE RingInv'
  BY <1>1, <1>12, Zenon DEF SendFails, memory
<1>13. CASE QueryPacketSent
  BY <1>1, <1>13, Zenon DEF QueryPacketSent, memory
<1>14. ASSUME NEW outcome \in SaveOutcomes, RetransmissionPacketSent(outcome)
       PROVE RingInv'
  BY <1>1, <1>14, Zenon DEF RetransmissionPacketSent, memory
<1>15. CASE ReplySent
  BY <1>1, <1>15, Zenon DEF ReplySent, memory
<1>16. CASE StopQuery
  BY <1>1, <1>16, Zenon DEF StopQuery, memory
<1>17. ASSUME NEW q \in Queries, RefuseRange(q) PROVE RingInv'
  BY <1>1, <1>17, Zenon DEF RefuseRange, memory
<1>18. ASSUME NEW q \in Queries, AcceptQuery(q) PROVE RingInv'
  BY <1>1, <1>18, Zenon DEF AcceptQuery, memory
<1>19. ASSUME NEW enabled \in BOOLEAN, NEW outcome \in SaveOutcomes,
              ApplyHistoryStorage(enabled, outcome)
       PROVE RingInv'
  BY <1>1, <1>19, Zenon DEF ApplyHistoryStorage, memory
<1>20. ASSUME NEW enabled \in BOOLEAN, NEW outcome \in SaveOutcomes,
              ApplyHistoryRetransmission(enabled, outcome)
       PROVE RingInv'
  BY <1>1, <1>20, Zenon DEF ApplyHistoryRetransmission, memory
<1>21. CASE Restart
  <2>1. unix' \in {0, unix} /\ ring' = ring /\ stored' = stored
    BY <1>21, Zenon DEF Restart, memory
  <2>2. unix' \in Times
    <3>1. unix \in Times /\ 0 \in Times
      BY ParameterAssumption DEF HistoryInv, RingInv, Times
    <3> QED BY <2>1, <3>1, Zenon
  <2> QED BY <2>1, <2>2, Zenon DEF HistoryInv, RingInv
<1>22. CASE UNCHANGED vars
  BY <1>1, <1>22, Zenon DEF vars
<1>23. ASSUME NEW t \in NetworkTimes, SetClock(t) PROVE RingInv'
  <2>1. unix' = t /\ ring' = ring /\ stored' = stored
    BY <1>23, Zenon DEF SetClock, memory
  <2>2. t \in Times
    BY ParameterAssumption DEF Times
  <2> QED BY <2>1, <2>2, Zenon DEF HistoryInv, RingInv
<1> QED
  BY <1>2, <1>3, <1>4, <1>5, <1>6, <1>7, <1>8, <1>9, <1>10, <1>11, <1>12, <1>13,
     <1>14, <1>15, <1>16, <1>17, <1>18, <1>19, <1>20, <1>21, <1>22, <1>23, Zenon
     DEF Next, Uplink, Radio, Downlink

\* What a save of the marker does, whatever its outcome.
LEMMA SavedMarker ==
  ASSUME NEW m \in Marker, NEW outcome \in SaveOutcomes, SaveMarker(m, outcome),
         marker \in Marker, flash \in Marker
  PROVE  /\ marker' \in Marker /\ flash' \in Marker
         /\ outcome = "both" => marker' = m /\ flash' = m
         /\ outcome # "both" => marker' = marker
         /\ outcome # "both" /\ m.pending /\ flash.pending => flash' = flash
<1>1. outcome \in {"both", "first", "none"}
  BY OutcomeAssumption
<1>2. flash' = Written(m, outcome) /\ marker' = IF outcome = "both" THEN m ELSE marker
  BY DEF SaveMarker
<1>3. \A r \in Marker : r = [pending |-> r.pending, lostAt |-> r.lostAt]
  BY DEF Marker
<1>4. Written(m, outcome) \in Marker
  BY Zenon DEF Written, Marker
<1>5. outcome = "both" => Written(m, outcome) = m
  BY <1>3, Zenon DEF Written
<1>6. outcome # "both" /\ m.pending /\ flash.pending => Written(m, outcome) = flash
  <2> SUFFICES ASSUME outcome # "both", m.pending, flash.pending PROVE Written(m, outcome) = flash
    OBVIOUS
  <2>1. m.pending = TRUE /\ flash.pending = TRUE
    BY Zenon DEF Marker
  <2>2. Written(m, outcome) = [pending |-> flash.pending, lostAt |-> flash.lostAt]
    BY <2>1, Zenon DEF Written
  <2> QED BY <1>3, <2>2, Zenon
<1> QED BY <1>2, <1>4, <1>5, <1>6, Zenon

\* Clearing the marker keeps what is known of it.
LEMMA ClearedMarker ==
  ASSUME HistoryInv, NEW outcome \in SaveOutcomes, SaveMarker(NoMarker, outcome), clearing' = TRUE,
         UNCHANGED running
  PROVE  MarkInv'
<1>1. NoMarker \in Marker /\ ~NoMarker.pending
  <2>1. 0 \in Times
    BY ParameterAssumption DEF Times
  <2> QED BY <2>1, Zenon DEF NoMarker, Marker
<1>2. /\ marker' \in Marker /\ flash' \in Marker
      /\ outcome = "both" => marker' = NoMarker
      /\ outcome # "both" => marker' = marker
  BY <1>1, SavedMarker DEF HistoryInv, MarkInv
<1> QED BY <1>1, <1>2, Zenon DEF HistoryInv, MarkInv

\* Dropping the marker or not, as a switch does.
LEMMA DroppedMarker ==
  ASSUME HistoryInv, NEW outcome \in SaveOutcomes, NEW enabled \in BOOLEAN, DropMarker(enabled, outcome),
         UNCHANGED running
  PROVE  MarkInv'
<1>1. CASE ~enabled /\ marker.pending
  BY <1>1, ClearedMarker DEF DropMarker
<1>2. CASE ~(~enabled /\ marker.pending)
  BY <1>2, Zenon DEF DropMarker, HistoryInv, MarkInv
<1> QED BY <1>1, <1>2

\* What is set is in flash, unless it is being cleared.
LEMMA MarkStep == HistoryInv /\ [Next]_vars => MarkInv'
<1> SUFFICES ASSUME HistoryInv, [Next]_vars PROVE MarkInv'
  OBVIOUS
<1>1. ASSUME UNCHANGED <<marker, flash, clearing, running>> PROVE MarkInv'
  BY <1>1, Zenon DEF HistoryInv, MarkInv
<1>2. CASE Tick
  BY <1>1, <1>2, Zenon DEF Tick, life, mark
<1>3. CASE StoreSnapshot
  BY <1>1, <1>3, Zenon DEF StoreSnapshot, life, mark
<1>4. CASE LinkLost
  BY <1>1, <1>4, Zenon DEF LinkLost, life, mark
<1>5. CASE LinkJoined
  BY <1>1, <1>5, Zenon DEF LinkJoined, life, mark
<1>6. ASSUME NEW outcome \in SaveOutcomes, ObserveLink(outcome) PROVE MarkInv'
  <2>1. running' = running
    BY <1>6, Zenon DEF ObserveLink, life
  <2>2. CASE observed /\ wasConnected /\ ~connected /\ storage /\ retransmit /\ unix > 0
    <3> DEFINE m == [pending |-> TRUE, lostAt |-> unix]
    <3>1. /\ SaveMarker(m, outcome)
          /\ outcome = "both" => clearing' = FALSE
          /\ outcome # "both" => clearing' = clearing
      BY <1>6, <2>2, Zenon DEF ObserveLink
    <3>2. unix > 0 /\ unix \in Times
      BY <2>2, Zenon DEF HistoryInv, RingInv
    <3>3. unix # 0
      BY <3>2, ParameterAssumption DEF Times
    <3>4. m \in Marker /\ m.pending /\ m.lostAt # 0
      BY <3>2, <3>3, Zenon DEF Marker
    <3> HIDE DEF m
    <3>5. marker \in Marker /\ flash \in Marker
      BY Zenon DEF HistoryInv, MarkInv
    <3>6. /\ marker' \in Marker /\ flash' \in Marker
          /\ outcome = "both" => marker' = m /\ flash' = m
          /\ outcome # "both" => marker' = marker
          /\ outcome # "both" /\ m.pending /\ flash.pending => flash' = flash
      BY <1>6, <3>1, <3>4, <3>5, SavedMarker
    <3>7. CASE outcome = "both"
      BY <2>1, <3>1, <3>4, <3>6, <3>7, Zenon DEF MarkInv
    <3>8. CASE outcome # "both"
      <4>1. /\ running /\ marker.pending => marker.lostAt # 0
            /\ marker.pending /\ ~clearing => flash = marker
        BY Zenon DEF HistoryInv, MarkInv
      <4>2. marker' = marker /\ clearing' = clearing /\ (flash.pending => flash' = flash)
        BY <3>1, <3>4, <3>6, <3>8, Zenon
      <4>3. marker'.pending /\ ~clearing' => flash' = marker'
        BY <4>1, <4>2, Zenon
      <4> QED BY <2>1, <3>6, <4>1, <4>2, <4>3, Zenon DEF MarkInv
    <3> QED BY <3>7, <3>8
  <2>3. CASE ~(observed /\ wasConnected /\ ~connected /\ storage /\ retransmit /\ unix > 0)
    <3>1. UNCHANGED <<marker, flash, clearing>>
      BY <1>6, <2>3, Zenon DEF ObserveLink
    <3> QED BY <1>1, <2>1, <3>1
  <2> QED BY <2>2, <2>3
<1>7. ASSUME NEW outcome \in SaveOutcomes, RetransmissionDone(outcome)
      PROVE MarkInv'
  <2>1. SaveMarker(NoMarker, outcome) /\ clearing' = TRUE /\ UNCHANGED running
    BY <1>7, Zenon DEF RetransmissionDone, life
  <2> QED BY <1>7, <2>1, ClearedMarker
<1>8. CASE RetransmitPacket
  BY <1>1, <1>8, Zenon DEF RetransmitPacket, life, mark
<1>9. CASE UploadPacket
  BY <1>1, <1>9, Zenon DEF UploadPacket, life, mark
<1>10. CASE NothingToUpload
  BY <1>1, <1>10, Zenon DEF NothingToUpload, life, mark
<1>11. CASE SendSucceeds
  BY <1>1, <1>11, Zenon DEF SendSucceeds, life, mark
<1>12. ASSUME NEW joined \in BOOLEAN, SendFails(joined) PROVE MarkInv'
  BY <1>1, <1>12, Zenon DEF SendFails, life, mark
<1>13. CASE QueryPacketSent
  BY <1>1, <1>13, Zenon DEF QueryPacketSent, life, mark
<1>14. ASSUME NEW outcome \in SaveOutcomes, RetransmissionPacketSent(outcome)
       PROVE MarkInv'
  <2>1. running' = running
    BY <1>14, Zenon DEF RetransmissionPacketSent, life
  <2>2. CASE next' > Len(snapshot)
    <3>1. SaveMarker(NoMarker, outcome) /\ clearing' = TRUE
      BY <1>14, <2>2, Zenon DEF RetransmissionPacketSent
    <3> QED BY <1>14, <2>1, <3>1, ClearedMarker
  <2>3. CASE ~(next' > Len(snapshot))
    <3>1. UNCHANGED <<marker, flash, clearing>>
      BY <1>14, <2>3, Zenon DEF RetransmissionPacketSent
    <3> QED BY <1>1, <2>1, <3>1
  <2> QED BY <2>2, <2>3
<1>15. CASE ReplySent
  BY <1>1, <1>15, Zenon DEF ReplySent, life, mark
<1>16. CASE StopQuery
  BY <1>1, <1>16, Zenon DEF StopQuery, life, mark
<1>17. ASSUME NEW q \in Queries, RefuseRange(q) PROVE MarkInv'
  BY <1>1, <1>17, Zenon DEF RefuseRange, life, mark
<1>18. ASSUME NEW q \in Queries, AcceptQuery(q) PROVE MarkInv'
  BY <1>1, <1>18, Zenon DEF AcceptQuery, life, mark
<1>19. ASSUME NEW enabled \in BOOLEAN, NEW outcome \in SaveOutcomes,
              ApplyHistoryStorage(enabled, outcome)
       PROVE MarkInv'
  <2>1. DropMarker(enabled, outcome) /\ UNCHANGED running
    BY <1>19, Zenon DEF ApplyHistoryStorage, life
  <2> QED BY <1>19, <2>1, DroppedMarker
<1>20. ASSUME NEW enabled \in BOOLEAN, NEW outcome \in SaveOutcomes,
              ApplyHistoryRetransmission(enabled, outcome)
       PROVE MarkInv'
  <2>1. DropMarker(enabled, outcome) /\ UNCHANGED running
    BY <1>20, Zenon DEF ApplyHistoryRetransmission, life
  <2> QED BY <1>20, <2>1, DroppedMarker
<1>21. CASE Restart
  <2>1. running' = Loads /\ marker' = Loaded /\ flash' = flash /\ clearing' = clearing
    BY <1>21, Zenon DEF Restart
  <2>2. NoMarker \in Marker /\ ~NoMarker.pending
    <3>1. 0 \in Times
      BY ParameterAssumption DEF Times
    <3> QED BY <3>1, Zenon DEF NoMarker, Marker
  <2> QED BY <2>1, <2>2, Zenon DEF HistoryInv, MarkInv, Loads, Loaded
<1>22. CASE UNCHANGED vars
  BY <1>1, <1>22, Zenon DEF vars
<1>23. ASSUME NEW t \in NetworkTimes, SetClock(t) PROVE MarkInv'
  BY <1>1, <1>23, Zenon DEF SetClock, life, mark
<1> QED
  BY <1>2, <1>3, <1>4, <1>5, <1>6, <1>7, <1>8, <1>9, <1>10, <1>11, <1>12, <1>13,
     <1>14, <1>15, <1>16, <1>17, <1>18, <1>19, <1>20, <1>21, <1>22, <1>23, Zenon
     DEF Next, Uplink, Radio, Downlink

\* The flags stay flags.
LEMMA FlagStep == HistoryInv /\ [Next]_vars => FlagInv'
<1> SUFFICES ASSUME HistoryInv, [Next]_vars PROVE FlagInv'
  OBVIOUS
<1>1. ASSUME UNCHANGED <<storage, retransmit, clearing, running, restarts, connected,
                        wasConnected, observed, snapshotted, queryActive, overlapped>>
      PROVE FlagInv'
  BY <1>1, Zenon DEF HistoryInv, FlagInv
<1>2. CASE Tick
  BY <1>2, Zenon
     DEF HistoryInv, FlagInv, Tick, settings, mark, life, link, pass, query
<1>3. CASE StoreSnapshot
  BY <1>3, Zenon
     DEF HistoryInv, FlagInv, StoreSnapshot, settings, mark, life, link, pass, query
<1>4. CASE LinkLost
  BY <1>4, Zenon
     DEF HistoryInv, FlagInv, LinkLost, settings, mark, life, link, pass, query
<1>5. CASE LinkJoined
  BY <1>5, Zenon
     DEF HistoryInv, FlagInv, LinkJoined, settings, mark, life, link, pass, query
<1>6. ASSUME NEW outcome \in SaveOutcomes, ObserveLink(outcome) PROVE FlagInv'
  BY <1>6, Zenon
     DEF HistoryInv, FlagInv, ObserveLink, settings, mark, life, link, pass, query
<1>7. ASSUME NEW outcome \in SaveOutcomes, RetransmissionDone(outcome)
      PROVE FlagInv'
  BY <1>7, Zenon
     DEF HistoryInv, FlagInv, RetransmissionDone, settings, mark, life, link, pass,
         query
<1>8. CASE RetransmitPacket
  BY <1>8, Zenon
     DEF HistoryInv, FlagInv, RetransmitPacket, settings, mark, life, link, pass,
         query
<1>9. CASE UploadPacket
  BY <1>9, Zenon
     DEF HistoryInv, FlagInv, UploadPacket, settings, mark, life, link, pass, query
<1>10. CASE NothingToUpload
  BY <1>10, Zenon
     DEF HistoryInv, FlagInv, NothingToUpload, settings, mark, life, link, pass,
         query
<1>11. CASE SendSucceeds
  BY <1>11, Zenon
     DEF HistoryInv, FlagInv, SendSucceeds, settings, mark, life, link, pass, query
<1>12. ASSUME NEW joined \in BOOLEAN, SendFails(joined) PROVE FlagInv'
  <2>1. queryActive' \in BOOLEAN
    BY <1>12, Zenon DEF HistoryInv, FlagInv, SendFails
  <2> QED BY <1>12, <2>1, Zenon
       DEF HistoryInv, FlagInv, SendFails, settings, mark, life, link, pass, query
<1>13. CASE QueryPacketSent
  <2>1. queryActive' \in BOOLEAN
    BY <1>13, Zenon DEF HistoryInv, FlagInv, QueryPacketSent
  <2> QED BY <1>13, <2>1, Zenon
       DEF HistoryInv, FlagInv, QueryPacketSent, settings, mark, life, link, pass,
           query
<1>14. ASSUME NEW outcome \in SaveOutcomes, RetransmissionPacketSent(outcome)
       PROVE FlagInv'
  BY <1>14, Zenon
     DEF HistoryInv, FlagInv, RetransmissionPacketSent, settings, mark, life, link,
         pass, query
<1>15. CASE ReplySent
  BY <1>15, Zenon
     DEF HistoryInv, FlagInv, ReplySent, settings, mark, life, link, pass, query
<1>16. CASE StopQuery
  BY <1>16, Zenon
     DEF HistoryInv, FlagInv, StopQuery, settings, mark, life, link, pass, query
<1>17. ASSUME NEW q \in Queries, RefuseRange(q) PROVE FlagInv'
  BY <1>17, Zenon
     DEF HistoryInv, FlagInv, RefuseRange, settings, mark, life, link, pass, query
<1>18. ASSUME NEW q \in Queries, AcceptQuery(q) PROVE FlagInv'
  BY <1>18, Zenon
     DEF HistoryInv, FlagInv, AcceptQuery, settings, mark, life, link, pass, query
<1>19. ASSUME NEW enabled \in BOOLEAN, NEW outcome \in SaveOutcomes,
              ApplyHistoryStorage(enabled, outcome)
       PROVE FlagInv'
  <2>1. clearing' \in BOOLEAN /\ snapshotted' \in BOOLEAN
    <3>1. clearing \in BOOLEAN /\ snapshotted \in BOOLEAN
      BY Zenon DEF HistoryInv, FlagInv
    <3> QED BY <1>19, <3>1, Zenon DEF ApplyHistoryStorage, DropMarker
  <2> QED BY <1>19, <2>1, Zenon
       DEF HistoryInv, FlagInv, ApplyHistoryStorage, settings, mark, life, link,
           pass, query
<1>20. ASSUME NEW enabled \in BOOLEAN, NEW outcome \in SaveOutcomes,
              ApplyHistoryRetransmission(enabled, outcome)
       PROVE FlagInv'
  <2>1. clearing' \in BOOLEAN /\ snapshotted' \in BOOLEAN
    <3>1. clearing \in BOOLEAN /\ snapshotted \in BOOLEAN
      BY Zenon DEF HistoryInv, FlagInv
    <3> QED BY <1>20, <3>1, Zenon DEF ApplyHistoryRetransmission, DropMarker
  <2> QED BY <1>20, <2>1, Zenon
       DEF HistoryInv, FlagInv, ApplyHistoryRetransmission, settings, mark, life,
           link, pass, query
<1>21. CASE Restart
  <2>1. restarts' \in 0 .. MaxRestarts
    <3>1. restarts \in 0 .. MaxRestarts /\ restarts' = restarts + 1 /\ restarts < MaxRestarts
      BY <1>21, Zenon DEF HistoryInv, FlagInv, Restart
    <3> QED BY <3>1, ParameterAssumption
  <2>2. Loads \in BOOLEAN
    BY Zenon DEF Loads
  <2> QED BY <1>21, <2>1, <2>2, Zenon DEF HistoryInv, FlagInv, Restart, settings
<1>22. CASE UNCHANGED vars
  BY <1>1, <1>22, Zenon DEF vars
<1>23. ASSUME NEW t \in NetworkTimes, SetClock(t) PROVE FlagInv'
  BY <1>23, Zenon
     DEF HistoryInv, FlagInv, SetClock, settings, mark, life, link, pass, query
<1> QED
  BY <1>2, <1>3, <1>4, <1>5, <1>6, <1>7, <1>8, <1>9, <1>10, <1>11, <1>12, <1>13,
     <1>14, <1>15, <1>16, <1>17, <1>18, <1>19, <1>20, <1>21, <1>22, <1>23, Zenon
     DEF Next, Uplink, Radio, Downlink

\* What a pass takes as its snapshot, and where it begins or goes on.
LEMMA SnapshotFacts ==
  ASSUME HistoryInv
  PROVE  /\ Snapshot \in Seq(Record) /\ First \in Nat \ {0}
         /\ ~snapshotted =>
              /\ Snapshot = ring
              /\ First \in 1 .. Len(ring) + 1
              /\ Since(ring, marker.lostAt) = SubSeq(ring, First, Len(ring))
         /\ snapshotted => Snapshot = snapshot /\ First = next
<1>1. /\ ring \in Seq(Record) /\ snapshot \in Seq(Record) /\ next \in Nat \ {0}
      /\ marker \in Marker
  BY Zenon DEF HistoryInv, RingInv, PassInv, MarkInv
<1>2. CASE snapshotted
  BY <1>1, <1>2, Zenon DEF Snapshot, First
<1>3. CASE ~snapshotted
  <2>1. Snapshot = ring /\ First = FirstSince(ring, marker.lostAt)
    BY <1>3, Zenon DEF Snapshot, First
  <2>2. marker.lostAt \in Int
    <3>1. marker.lostAt \in Times
      BY <1>1, Zenon DEF Marker
    <3> QED BY <3>1 DEF Times
  <2>4. /\ FirstSince(ring, marker.lostAt) \in 1 .. Len(ring) + 1
        /\ Since(ring, marker.lostAt) = SubSeq(ring, FirstSince(ring, marker.lostAt), Len(ring))
    BY <1>1, <2>2, SinceIsEnd
  <2>5. First \in Nat \ {0}
    BY <1>1, <2>1, <2>4
  <2> QED BY <1>1, <1>3, <2>1, <2>4, <2>5, Zenon
<1> QED BY <1>2, <1>3

\* A first call, which carries a packet.
PacketCall(user, rs) ==
  [from |-> user, records |-> rs, accepts |-> FALSE, sent |-> FALSE]

LEMMA FirstCall ==
  ASSUME NEW user \in {"query", "retransmission"}, NEW rs \in Seq(Record)
  PROVE  /\ <<PacketCall(user, rs)>> \in Seq(Call) /\ Len(<<PacketCall(user, rs)>>) = 1
         /\ Nested(<<PacketCall(user, rs)>>)
         /\ <<PacketCall(user, rs)>> # <<>>
         /\ Outermost(<<PacketCall(user, rs)>>) = PacketCall(user, rs)
<1> DEFINE c == PacketCall(user, rs)
<1>1. c \in Call
  <2>1. user \in {"query", "retransmission", "reply"}
    OBVIOUS
  <2> QED BY <2>1, Zenon DEF PacketCall, Call
<1>2. ~c.accepts
  BY Zenon DEF PacketCall
<1> HIDE DEF c
<1>3. /\ <<c>> \in Seq(Call) /\ Len(<<c>>) = 1 /\ <<c>>[1] = c /\ <<c>> # <<>>
      /\ \A i \in 1 .. 1 : i = 1 /\ ~(i < 1) /\ ~(i > 1)
  BY <1>1
<1>4. Nested(<<c>>)
  BY <1>2, <1>3, Zenon DEF Nested
<1>5. Outermost(<<c>>) = c
  BY <1>3, Zenon DEF Outermost
<1> QED BY <1>3, <1>4, <1>5, Zenon DEF c

\* A call returns, whatever its result.
LEMMA ReturnStep ==
  ASSUME HistoryInv, stack # <<>>, stack' = Tail(stack)
  PROVE  CallInv'
<1>1. stack \in Seq(Call) /\ Len(stack) <= MaxDepth /\ Nested(stack)
  BY Zenon DEF HistoryInv, CallInv
<1>2. Tail(stack) \in Seq(Call) /\ Len(Tail(stack)) = Len(stack) - 1 /\ Nested(Tail(stack))
  BY <1>1, ReturnedCalls
<1>3. Len(Tail(stack)) <= MaxDepth
  BY <1>1, <1>2, ParameterAssumption
<1> QED BY <1>2, <1>3, Zenon DEF CallInv

\* A reply is sent.
LEMMA ReplyStep ==
  ASSUME HistoryInv, CanHear, NEW a \in BOOLEAN, Reply(a)
  PROVE  /\ CallInv' /\ stack' = <<ReplyCall(a)>> \o stack /\ SameCarrier(stack, stack')
         /\ \A i \in 1 .. Len(stack') :
              stack'[i] = ReplyCall(a) \/ \E j \in 1 .. Len(stack) : stack'[i] = stack[j]
<1>1. stack \in Seq(Call) /\ Nested(stack)
  BY Zenon DEF HistoryInv, CallInv
<1>2. stack = <<>> \/ Head(stack).sent
  BY Zenon DEF CanHear
<1>3. Len(stack) < MaxDepth /\ stack' = <<ReplyCall(a)>> \o stack
  BY Zenon DEF Reply, ReplyCall
<1> DEFINE t == <<ReplyCall(a)>> \o stack
<1>4. /\ t \in Seq(Call) /\ Len(t) = Len(stack) + 1 /\ Nested(t) /\ SameCarrier(stack, t)
      /\ \A i \in 1 .. Len(stack) + 1 :
           t[i] = ReplyCall(a) \/ \E j \in 1 .. Len(stack) : t[i] = stack[j]
  BY <1>1, <1>2, PushedCalls
<1> HIDE DEF t
<1>5. Len(t) <= MaxDepth
  <2>1. Len(stack) \in Nat /\ Len(stack) < MaxDepth
    BY <1>1, <1>3
  <2> QED BY <1>4, <2>1, ParameterAssumption
<1>6. stack' = t
  BY <1>3 DEF t
<1>7. CallInv'
  BY <1>4, <1>5, <1>6, Zenon DEF CallInv
<1> QED BY <1>3, <1>4, <1>6, <1>7, Zenon

\* Calls stay nested.
LEMMA CallStep == HistoryInv /\ [Next]_vars => CallInv'
<1> SUFFICES ASSUME HistoryInv, [Next]_vars PROVE CallInv'
  OBVIOUS
<1>1. ASSUME UNCHANGED <<stack>> PROVE CallInv'
  BY <1>1, Zenon DEF HistoryInv, CallInv
<1>2. CASE Tick
  BY <1>1, <1>2, Zenon DEF Tick
<1>3. CASE StoreSnapshot
  BY <1>1, <1>3, Zenon DEF StoreSnapshot
<1>4. CASE LinkLost
  BY <1>1, <1>4, Zenon DEF LinkLost
<1>5. CASE LinkJoined
  BY <1>1, <1>5, Zenon DEF LinkJoined
<1>6. ASSUME NEW outcome \in SaveOutcomes, ObserveLink(outcome) PROVE CallInv'
  BY <1>1, <1>6, Zenon DEF ObserveLink
<1>7. ASSUME NEW outcome \in SaveOutcomes, RetransmissionDone(outcome)
      PROVE CallInv'
  BY <1>1, <1>7, Zenon DEF RetransmissionDone
<1>8. CASE RetransmitPacket
  <2>1. stack' = <<PacketCall("retransmission", Packet(Snapshot, First))>>
    BY <1>8, Zenon DEF RetransmitPacket, PacketCall
  <2>2. Packet(Snapshot, First) \in Seq(Record)
    <3>1. Snapshot \in Seq(Record) /\ First \in Nat \ {0}
      BY SnapshotFacts
    <3>2. First <= Len(Snapshot)
      BY <1>8, Zenon DEF RetransmitPacket
    <3>3. First \in 1 .. Len(Snapshot)
      BY <3>1, <3>2
    <3> QED BY <3>1, <3>3, PacketFacts
  <2>3. 1 <= MaxDepth
    BY ParameterAssumption
  <2> QED BY <2>1, <2>2, <2>3, FirstCall, Zenon DEF CallInv
<1>9. CASE UploadPacket
  <2>1. stack' = <<PacketCall("query", Packet(queryRecords, queryCursor))>>
    BY <1>9, Zenon DEF UploadPacket, PacketCall
  <2>2. Packet(queryRecords, queryCursor) \in Seq(Record)
    <3>1. queryRecords \in Seq(Record) /\ queryCursor \in Nat \ {0}
      BY Zenon DEF HistoryInv, QueryInv
    <3>2. queryCursor <= Len(queryRecords)
      BY <1>9, Zenon DEF UploadPacket
    <3>3. queryCursor \in 1 .. Len(queryRecords)
      BY <3>1, <3>2
    <3> QED BY <3>1, <3>3, PacketFacts
  <2>3. 1 <= MaxDepth
    BY ParameterAssumption
  <2> QED BY <2>1, <2>2, <2>3, FirstCall, Zenon DEF CallInv
<1>10. CASE NothingToUpload
  BY <1>1, <1>10, Zenon DEF NothingToUpload
<1>11. CASE SendSucceeds
  <2>1. stack # <<>> /\ stack' = Marked(stack)
    BY <1>11, Zenon DEF SendSucceeds, Marked
  <2>2. stack \in Seq(Call) /\ Len(stack) <= MaxDepth /\ Nested(stack)
    BY Zenon DEF HistoryInv, CallInv
  <2>3. Marked(stack) \in Seq(Call) /\ Len(Marked(stack)) = Len(stack) /\ Nested(Marked(stack))
    BY <2>1, <2>2, MarkedCalls
  <2> QED BY <2>1, <2>2, <2>3, Zenon DEF CallInv
<1>12. ASSUME NEW joined \in BOOLEAN, SendFails(joined) PROVE CallInv'
  <2>1. stack # <<>> /\ stack' = Tail(stack)
    BY <1>12, Zenon DEF SendFails
  <2> QED BY <2>1, ReturnStep
<1>13. CASE QueryPacketSent
  <2>1. stack # <<>> /\ stack' = Tail(stack)
    BY <1>13, Zenon DEF QueryPacketSent
  <2> QED BY <2>1, ReturnStep
<1>14. ASSUME NEW outcome \in SaveOutcomes, RetransmissionPacketSent(outcome)
       PROVE CallInv'
  <2>1. stack # <<>> /\ stack' = Tail(stack)
    BY <1>14, Zenon DEF RetransmissionPacketSent
  <2> QED BY <2>1, ReturnStep
<1>15. CASE ReplySent
  <2>1. stack # <<>> /\ stack' = Tail(stack)
    BY <1>15, Zenon DEF ReplySent
  <2> QED BY <2>1, ReturnStep
<1>16. CASE StopQuery
  BY <1>1, <1>16, Zenon DEF StopQuery
<1>17. ASSUME NEW q \in Queries, RefuseRange(q) PROVE CallInv'
  <2>1. CanHear /\ Reply(FALSE)
    BY <1>17, Zenon DEF RefuseRange
  <2>2. FALSE \in BOOLEAN
    OBVIOUS
  <2> QED BY <2>1, <2>2, ReplyStep
<1>18. ASSUME NEW q \in Queries, AcceptQuery(q) PROVE CallInv'
  <2>1. CanHear /\ Reply(Selection(q) # <<>>)
    BY <1>18, Zenon DEF AcceptQuery
  <2>2. (Selection(q) # <<>>) \in BOOLEAN
    BY Zenon
  <2> QED BY <2>1, <2>2, ReplyStep
<1>19. ASSUME NEW enabled \in BOOLEAN, NEW outcome \in SaveOutcomes,
              ApplyHistoryStorage(enabled, outcome)
       PROVE CallInv'
  BY <1>1, <1>19, Zenon DEF ApplyHistoryStorage
<1>20. ASSUME NEW enabled \in BOOLEAN, NEW outcome \in SaveOutcomes,
              ApplyHistoryRetransmission(enabled, outcome)
       PROVE CallInv'
  BY <1>1, <1>20, Zenon DEF ApplyHistoryRetransmission
<1>21. CASE Restart
  <2>1. stack' = <<>>
    BY <1>21, Zenon DEF Restart
  <2>2. <<>> \in Seq(Call) /\ Len(<<>>) = 0 /\ 1 .. 0 = {} /\ 0 <= MaxDepth
    BY EmptySeq, ParameterAssumption
  <2> QED BY <2>1, <2>2, Zenon DEF CallInv, Nested
<1>22. CASE UNCHANGED vars
  BY <1>1, <1>22, Zenon DEF vars
<1>23. ASSUME NEW t \in NetworkTimes, SetClock(t) PROVE CallInv'
  BY <1>1, <1>23, Zenon DEF SetClock
<1> QED
  BY <1>2, <1>3, <1>4, <1>5, <1>6, <1>7, <1>8, <1>9, <1>10, <1>11, <1>12, <1>13,
     <1>14, <1>15, <1>16, <1>17, <1>18, <1>19, <1>20, <1>21, <1>22, <1>23, Zenon
     DEF Next, Uplink, Radio, Downlink

-----------------------------------------------------------------------------
(* The pass.                                                               *)

\* The calls of a user are the same, or one has returned that had not gone out.
SameUser(s, t, user) ==
  /\ Flying(t, user) => Flying(s, user) /\ Outermost(t) = Outermost(s)
  /\ Flying(s, user) /\ ~Flying(t, user) => ~Outermost(s).sent

LEMMA SameUserOfCarrier ==
  ASSUME NEW s, NEW t, SameCarrier(s, t), NEW user \in {"query", "retransmission"}
  PROVE  SameUser(s, t, user)
  BY Zenon DEF SameCarrier, SameUser

\* The cursor that counts, after such a step.
LEMMA SameReached ==
  ASSUME NEW s, NEW t, NEW user, SameUser(s, t, user), NEW c \in Nat
  PROVE  /\ Reached(t, user, c) = Reached(s, user, c)
         /\ \A rs : Carries(s, user, rs, c) => Carries(t, user, rs, c)
<1>1. CASE Flying(t, user)
  BY <1>1, Zenon DEF SameUser, Reached, Carries
<1>2. CASE ~Flying(t, user)
  <2>1. ~(Flying(s, user) /\ Outermost(s).sent)
    BY <1>2, Zenon DEF SameUser
  <2> QED BY <1>2, <2>1, Zenon DEF Reached, Carries
<1> QED BY <1>1, <1>2

\* A step that leaves the pass alone, or ends it.
LEMMA SamePass ==
  ASSUME HistoryInv, UNCHANGED <<snapshot, next, due, forwarded>>, snapshotted' => snapshotted,
         SameUser(stack, stack', "retransmission"),
         Flying(stack', "retransmission") /\ marker'.pending => snapshotted'
  PROVE  PassInv'
<1>1. /\ snapshot \in Seq(Record) /\ next \in Nat \ {0}
      /\ due \in Seq(Record) /\ forwarded \in Seq(Record)
      /\ snapshotted => \E first \in 1 .. Len(snapshot) + 1 : PassFrom(first)
  BY Zenon DEF HistoryInv, PassInv
<1>2. ASSUME NEW first \in 1 .. Len(snapshot) + 1, PassFrom(first)
      PROVE PassFrom(first)'
  <2>1. next \in Nat
    BY <1>1
  <2>2. /\ Reached(stack', "retransmission", next) = Reached(stack, "retransmission", next)
        /\ Carries(stack, "retransmission", snapshot, next) =>
             Carries(stack', "retransmission", snapshot, next)
    BY <2>1, SameReached, ZenonT(60)
  <2> QED BY <1>2, <2>2, Zenon DEF PassFrom
<1> QED BY <1>1, <1>2, Zenon DEF PassInv

\* A call that returns without having sent its uplink, or that carries nothing.
LEMMA ReturnedUser ==
  ASSUME HistoryInv, stack # <<>>, stack' = Tail(stack), NEW user \in {"query", "retransmission"},
         Head(stack).from # user \/ ~Head(stack).sent
  PROVE  SameUser(stack, stack', user)
<1>1. stack \in Seq(Call) /\ Nested(stack)
  BY Zenon DEF HistoryInv, CallInv
<1>2. CASE Head(stack).from = "reply"
  BY <1>1, <1>2, ReturnedCalls, SameUserOfCarrier
<1>3. CASE Head(stack).from # "reply"
  <2>1. stack' = <<>> /\ Outermost(stack) = Head(stack)
    BY <1>1, <1>3, ReturnedCalls
  <2> QED BY <2>1, Zenon DEF SameUser, Flying
<1> QED BY <1>2, <1>3

\* The uplink of a call of another user goes out.
LEMMA MarkedUser ==
  ASSUME HistoryInv, stack # <<>>, stack' = Marked(stack), NEW user \in {"query", "retransmission"},
         Head(stack).from # user
  PROVE  SameUser(stack, stack', user)
<1>1. stack \in Seq(Call) /\ Nested(stack)
  BY Zenon DEF HistoryInv, CallInv
<1>2. CASE Head(stack).from = "reply"
  BY <1>1, <1>2, MarkedCalls, SameUserOfCarrier
<1>3. CASE Head(stack).from # "reply"
  <2>1. Outermost(stack) = Head(stack) /\ Outermost(stack') = [Head(stack) EXCEPT !.sent = TRUE]
    BY <1>1, <1>3, MarkedCalls
  <2>2. Head(stack) \in Call
    BY <1>1, FirstAndLast
  <2>3. Outermost(stack').from = Head(stack).from
    BY <2>1, <2>2, Zenon DEF Call
  <2> QED BY <2>1, <2>3, Zenon DEF SameUser, Flying
<1> QED BY <1>2, <1>3

\* A pass begins, or goes on, between two calls.
LEMMA TakenSnapshot ==
  ASSUME HistoryInv, stack = <<>>, TakeSnapshot
  PROVE  /\ snapshot' \in Seq(Record) /\ next' \in Nat \ {0}
         /\ due' \in Seq(Record) /\ forwarded' \in Seq(Record)
         /\ \E first \in 1 .. Len(snapshot') + 1 :
              /\ first <= next' /\ next' <= Len(snapshot') + 1
              /\ due' = SubSeq(snapshot', first, Len(snapshot'))
              /\ forwarded' = SubSeq(snapshot', first, next' - 1)
<1>1. /\ Snapshot \in Seq(Record) /\ First \in Nat \ {0}
      /\ ~snapshotted =>
           /\ Snapshot = ring
           /\ First \in 1 .. Len(ring) + 1
           /\ Since(ring, marker.lostAt) = SubSeq(ring, First, Len(ring))
      /\ snapshotted => Snapshot = snapshot /\ First = next
  BY SnapshotFacts
<1>2. snapshot' = Snapshot /\ next' = First
  BY Zenon DEF TakeSnapshot
<1>3. CASE snapshotted
  <2>1. snapshot' = snapshot /\ next' = next /\ due' = due /\ forwarded' = forwarded
    BY <1>1, <1>2, <1>3, Zenon DEF TakeSnapshot
  <2>2. PICK first \in 1 .. Len(snapshot) + 1 : PassFrom(first)
    BY <1>3, Zenon DEF HistoryInv, PassInv
  <2>3. next \in Nat \ {0} /\ due \in Seq(Record) /\ forwarded \in Seq(Record)
    BY Zenon DEF HistoryInv, PassInv
  <2>4. Reached(stack, "retransmission", next) = next
    <3>1. ~Flying(stack, "retransmission")
      BY Zenon DEF Flying
    <3>2. Reached(stack, "retransmission", next) = next + 0
      BY <3>1, Zenon DEF Reached
    <3> QED BY <2>3, <3>2
  <2>5. /\ first <= next /\ next <= Len(snapshot) + 1
        /\ due = SubSeq(snapshot, first, Len(snapshot))
        /\ forwarded = SubSeq(snapshot, first, next - 1)
    BY <2>2, <2>4, Zenon DEF PassFrom
  <2> QED BY <1>1, <1>2, <2>1, <2>3, <2>5, Zenon
<1>4. CASE ~snapshotted
  <2>1. /\ snapshot' = ring /\ next' = First /\ ring \in Seq(Record)
        /\ due' = SubSeq(ring, First, Len(ring)) /\ forwarded' = <<>>
    BY <1>1, <1>2, <1>4, Zenon DEF TakeSnapshot
  <2>2. Len(ring) \in Nat /\ First \in 1 .. Len(ring) + 1
    BY <1>1, <1>4, <2>1
  <2>3. \A i \in First .. Len(ring) : ring[i] \in Record
    BY <2>1, <2>2, ElementOfSeq
  <2>4. SubSeq(ring, First, Len(ring)) \in Seq(Record)
    BY <2>1, <2>2, <2>3, SubSeqProperties
  <2>5. SubSeq(ring, First, First - 1) = <<>>
    <3>1. First - 1 < First /\ First - 1 \in Int /\ First \in Int
      BY <2>2
    <3> QED BY <2>1, <3>1, SubSeqEmpty
  <2>6. First <= First /\ First <= Len(ring) + 1
    BY <2>2
  <2>7. <<>> \in Seq(Record)
    BY EmptySeq
  <2> QED BY <1>1, <2>1, <2>2, <2>4, <2>5, <2>6, <2>7, Zenon
<1> QED BY <1>3, <1>4

\* A pass goes on where it was.
LEMMA PassStep == HistoryInv /\ [Next]_vars => PassInv'
<1> SUFFICES ASSUME HistoryInv, [Next]_vars PROVE PassInv'
  OBVIOUS
<1>1. ASSUME UNCHANGED <<snapshotted, snapshot, next, due, forwarded, stack, marker>>
      PROVE PassInv'
  BY <1>1, Zenon DEF HistoryInv, PassInv, PassFrom
<1>2. CASE Tick
  BY <1>1, <1>2, Zenon DEF Tick, mark, pass
<1>3. CASE StoreSnapshot
  BY <1>1, <1>3, Zenon DEF StoreSnapshot, mark, pass
<1>4. CASE LinkLost
  BY <1>1, <1>4, Zenon DEF LinkLost, mark, pass
<1>5. CASE LinkJoined
  BY <1>1, <1>5, Zenon DEF LinkJoined, mark, pass
<1>6. ASSUME NEW outcome \in SaveOutcomes, ObserveLink(outcome) PROVE PassInv'
  <2>1. stack = <<>> /\ stack' = <<>> /\ UNCHANGED <<snapshot, next, due, forwarded>>
    BY <1>6, Zenon DEF ObserveLink, AtLoop
  <2>2. snapshotted' => snapshotted
    BY <1>6, Zenon DEF ObserveLink
  <2>3. ~Flying(stack', "retransmission") /\ SameUser(stack, stack', "retransmission")
    BY <2>1, Zenon DEF Flying, SameUser
  <2> QED BY <2>1, <2>2, <2>3, SamePass
<1>7. ASSUME NEW outcome \in SaveOutcomes, RetransmissionDone(outcome)
      PROVE PassInv'
  <2>1. stack = <<>> /\ stack' = <<>> /\ TakeSnapshot
    BY <1>7, Zenon DEF RetransmissionDone, CanRetransmit, AtStep, AtLoop
  <2>2. ~Flying(stack', "retransmission")
    BY <2>1, Zenon DEF Flying
  <2>3. /\ snapshot' \in Seq(Record) /\ next' \in Nat \ {0}
        /\ due' \in Seq(Record) /\ forwarded' \in Seq(Record)
    BY <2>1, TakenSnapshot
  <2>4. PICK first \in 1 .. Len(snapshot') + 1 :
          /\ first <= next' /\ next' <= Len(snapshot') + 1
          /\ due' = SubSeq(snapshot', first, Len(snapshot'))
          /\ forwarded' = SubSeq(snapshot', first, next' - 1)
    BY <2>1, TakenSnapshot
  <2>5. Reached(stack', "retransmission", next') = next'
    <3>1. Reached(stack', "retransmission", next') = next' + 0
      BY <2>2, Zenon DEF Reached
    <3> QED BY <2>3, <3>1
  <2>6. PassFrom(first)'
    BY <2>2, <2>4, <2>5, Zenon DEF PassFrom, Carries
  <2> QED BY <2>2, <2>3, <2>6, Zenon DEF PassInv
<1>8. CASE RetransmitPacket
  <2> DEFINE c == PacketCall("retransmission", Packet(Snapshot, First))
  <2>1. stack = <<>> /\ stack' = <<c>> /\ TakeSnapshot /\ snapshotted' = TRUE
    BY <1>8, Zenon DEF RetransmitPacket, CanRetransmit, AtStep, AtLoop, PacketCall
  <2>2. /\ snapshot' \in Seq(Record) /\ next' \in Nat \ {0}
        /\ due' \in Seq(Record) /\ forwarded' \in Seq(Record)
    BY <2>1, TakenSnapshot
  <2>3. PICK first \in 1 .. Len(snapshot') + 1 :
          /\ first <= next' /\ next' <= Len(snapshot') + 1
          /\ due' = SubSeq(snapshot', first, Len(snapshot'))
          /\ forwarded' = SubSeq(snapshot', first, next' - 1)
    BY <2>1, TakenSnapshot
  <2>4. snapshot' = Snapshot /\ next' = First /\ First <= Len(Snapshot)
    BY <1>8, <2>1, Zenon DEF TakeSnapshot, RetransmitPacket
  <2>5. next' \in 1 .. Len(snapshot')
    BY <2>2, <2>4
  <2>6. Outermost(stack') = c
    <3>1. Len(<<c>>) = 1 /\ <<c>>[1] = c
      OBVIOUS
    <3> QED BY <2>1, <3>1, Zenon DEF Outermost
  <2>7. c.records = Packet(snapshot', next') /\ ~c.sent
    BY <2>4, Zenon DEF PacketCall
  <2> HIDE DEF c
  <2>8. Carries(stack', "retransmission", snapshot', next')
    BY <2>5, <2>6, <2>7, Zenon DEF Carries
  <2>9. Reached(stack', "retransmission", next') = next'
    <3>1. Reached(stack', "retransmission", next') = next' + 0
      BY <2>6, <2>7, Zenon DEF Reached
    <3> QED BY <2>2, <3>1
  <2>10. PassFrom(first)'
    BY <2>3, <2>8, <2>9, Zenon DEF PassFrom
  <2> QED BY <2>1, <2>2, <2>10, Zenon DEF PassInv
<1>9. CASE UploadPacket
  <2> DEFINE c == PacketCall("query", Packet(queryRecords, queryCursor))
  <2>1. /\ stack = <<>> /\ stack' = <<c>>
        /\ UNCHANGED <<snapshotted, snapshot, next, due, forwarded>>
    BY <1>9, Zenon DEF UploadPacket, CanUpload, AtStep, AtLoop, PacketCall, pass
  <2>2. Outermost(stack') = c
    <3>1. Len(<<c>>) = 1 /\ <<c>>[1] = c
      OBVIOUS
    <3> QED BY <2>1, <3>1, Zenon DEF Outermost
  <2>3. c.from = "query" /\ "query" # "retransmission"
    BY DEF PacketCall
  <2> HIDE DEF c
  <2>4. ~Flying(stack', "retransmission") /\ ~Flying(stack, "retransmission")
    BY <2>1, <2>2, <2>3, Zenon DEF Flying
  <2>5. SameUser(stack, stack', "retransmission")
    BY <2>4, Zenon DEF SameUser
  <2> QED BY <2>1, <2>4, <2>5, SamePass
<1>10. CASE NothingToUpload
  BY <1>1, <1>10, Zenon DEF NothingToUpload, mark, pass
<1>11. CASE SendSucceeds
  <2>1. /\ stack # <<>> /\ stack' = Marked(stack) /\ ~Head(stack).sent
        /\ UNCHANGED <<marker, snapshotted, snapshot, next, due>>
    BY <1>11, Zenon DEF SendSucceeds, Marked
  <2>2. stack \in Seq(Call) /\ Nested(stack)
    BY Zenon DEF HistoryInv, CallInv
  <2>3. CASE Head(stack).from # "retransmission"
    <3>1. forwarded' = forwarded
      BY <1>11, <2>3, Zenon DEF SendSucceeds
    <3>2. SameUser(stack, stack', "retransmission")
      BY <2>1, <2>3, MarkedUser
    <3>3. Flying(stack', "retransmission") /\ marker'.pending => snapshotted'
      BY <2>1, <3>2, Zenon DEF HistoryInv, PassInv, SameUser
    <3> QED BY <2>1, <3>1, <3>2, <3>3, SamePass
  <2>4. CASE Head(stack).from = "retransmission"
    <3> DEFINE c == Head(stack)
               rs == c.records
    <3>1. "retransmission" # "reply"
      OBVIOUS
    <3>2. /\ Outermost(stack) = c /\ Outermost(stack') = [c EXCEPT !.sent = TRUE]
          /\ Len(stack') = Len(stack) /\ Len(stack) = 1 /\ c \in Call
      BY <2>1, <2>2, <2>4, <3>1, MarkedCalls, FirstAndLast
    <3>3. stack' # <<>>
      BY <3>2
    <3>4. /\ rs \in Seq(Record)
          /\ Outermost(stack').records = rs /\ Outermost(stack').sent
          /\ Outermost(stack').from = c.from
      BY <3>2, Zenon DEF Call
    <3>5. forwarded' = Noted(forwarded, rs, due)
      BY <1>11, <2>4, Zenon DEF SendSucceeds
    <3> HIDE DEF c, rs
    <3>6. Flying(stack, "retransmission") /\ Flying(stack', "retransmission")
      BY <2>1, <2>4, <3>2, <3>3, <3>4, Zenon DEF Flying, c
    <3>7. /\ snapshot \in Seq(Record) /\ next \in Nat \ {0}
          /\ due \in Seq(Record) /\ forwarded \in Seq(Record)
          /\ marker.pending => snapshotted
      BY <3>6, Zenon DEF HistoryInv, PassInv
    <3>8. forwarded' \in Seq(Record)
      <4>1. forwarded \o rs \in Seq(Record)
        BY <3>4, <3>7, ConcatProperties
      <4> QED BY <3>5, <3>7, <4>1, Zenon DEF Noted
    <3>9. ASSUME NEW first \in 1 .. Len(snapshot) + 1, PassFrom(first)
          PROVE PassFrom(first)'
      <4>1. Reached(stack, "retransmission", next) = next
        <5>1. Reached(stack, "retransmission", next) = next + 0
          BY <2>1, <3>2, Zenon DEF Reached, c
        <5> QED BY <3>7, <5>1
      <4>2. /\ first <= next /\ due = SubSeq(snapshot, first, Len(snapshot))
            /\ next <= Len(snapshot) + 1
            /\ forwarded = SubSeq(snapshot, first, next - 1)
            /\ next \in 1 .. Len(snapshot) /\ Outermost(stack).records = Packet(snapshot, next)
        BY <3>6, <3>9, <4>1, Zenon DEF PassFrom, Carries
      <4>3. rs = Packet(snapshot, next)
        BY <3>2, <4>2, Zenon DEF rs
      <4>4. next \in first .. Len(snapshot)
        BY <4>2
      <4>5. /\ Len(forwarded) = next - first
            /\ forwarded \o Packet(snapshot, next) =
                 SubSeq(snapshot, first, next + Len(Packet(snapshot, next)) - 1)
        <5>1. first \in 1 .. Len(snapshot) + 1 /\ snapshot \in Seq(Record)
          BY <3>7
        <5>2. forwarded = SubSeq(snapshot, first, next - 1)
          BY <4>2
        <5>3. /\ SubSeq(snapshot, first, next - 1) \in Seq(Record)
              /\ Len(SubSeq(snapshot, first, next - 1)) = next - first
              /\ SubSeq(snapshot, first, next - 1) \o Packet(snapshot, next) =
                   SubSeq(snapshot, first, next + Len(Packet(snapshot, next)) - 1)
          BY <4>4, <5>1, SentMore, Zenon
        <5> QED BY <5>2, <5>3, Zenon
      <4>6. ~(Len(forwarded) > Len(due))
        <5>1. \A i \in first .. Len(snapshot) : snapshot[i] \in Record
          BY <3>7, ElementOfSeq
        <5>2. Len(due) = IF first <= Len(snapshot) THEN Len(snapshot) - first + 1 ELSE 0
          BY <3>7, <4>2, <5>1, SubSeqProperties
        <5> QED BY <3>7, <4>4, <4>5, <5>2
      <4>7. forwarded' = SubSeq(snapshot, first, next + Len(rs) - 1)
        BY <3>5, <4>3, <4>5, <4>6, Zenon DEF Noted
      <4>8. Reached(stack', "retransmission", next) = next + Len(rs)
        BY <3>4, <3>6, Zenon DEF Reached
      <4>9. Carries(stack', "retransmission", snapshot, next)
        BY <3>4, <4>2, <4>3, Zenon DEF Carries
      <4>10. snapshot' = snapshot /\ next' = next /\ due' = due
        BY <2>1, Zenon
      <4>11. forwarded' = SubSeq(snapshot', first, Reached(stack', "retransmission", next') - 1)
        <5>1. PICK n \in Nat : n = next + Len(rs)
          <6>1. Len(rs) \in Nat
            BY <3>4
          <6> QED BY <3>7, <6>1
        <5>2. Reached(stack', "retransmission", next') = n
          BY <4>8, <4>10, <5>1, Zenon
        <5>3. forwarded' = SubSeq(snapshot', first, n - 1)
          <6>1. next + Len(rs) - 1 = n - 1
            BY <3>4, <3>7, <5>1
          <6> QED BY <4>7, <4>10, <6>1, Zenon
        <5> QED BY <5>2, <5>3, Zenon
      <4>12. /\ first <= next' /\ next' <= Len(snapshot') + 1
             /\ due' = SubSeq(snapshot', first, Len(snapshot'))
             /\ Carries(stack', "retransmission", snapshot', next')
        BY <4>2, <4>9, <4>10
      <4> QED BY <4>11, <4>12, Zenon DEF PassFrom
    <3>10. snapshotted => \E first \in 1 .. Len(snapshot) + 1 : PassFrom(first)
      BY Zenon DEF HistoryInv, PassInv
    <3> QED BY <2>1, <3>7, <3>8, <3>9, <3>10, Zenon DEF PassInv
  <2> QED BY <2>3, <2>4
<1>12. ASSUME NEW joined \in BOOLEAN, SendFails(joined) PROVE PassInv'
  <2>1. /\ stack # <<>> /\ stack' = Tail(stack)
        /\ Head(stack).from # "retransmission" \/ ~Head(stack).sent
        /\ UNCHANGED <<marker, snapshotted, snapshot, next, due, forwarded>>
    BY <1>12, Zenon DEF SendFails, mark, pass
  <2>2. SameUser(stack, stack', "retransmission")
    BY <2>1, ReturnedUser
  <2>3. Flying(stack', "retransmission") /\ marker'.pending => snapshotted'
    BY <2>1, <2>2, Zenon DEF HistoryInv, PassInv, SameUser
  <2> QED BY <2>1, <2>2, <2>3, SamePass
<1>13. CASE QueryPacketSent
  <2>1. /\ stack # <<>> /\ stack' = Tail(stack)
        /\ Head(stack).from = "query"
        /\ UNCHANGED <<marker, snapshotted, snapshot, next, due, forwarded>>
    BY <1>13, Zenon DEF QueryPacketSent, mark, pass
  <2>2. SameUser(stack, stack', "retransmission")
    BY <2>1, ReturnedUser, "query" # "retransmission", "reply" # "retransmission"
  <2>3. Flying(stack', "retransmission") /\ marker'.pending => snapshotted'
    BY <2>1, <2>2, Zenon DEF HistoryInv, PassInv, SameUser
  <2> QED BY <2>1, <2>2, <2>3, SamePass
<1>14. ASSUME NEW outcome \in SaveOutcomes, RetransmissionPacketSent(outcome)
       PROVE PassInv'
  <2> DEFINE c == Head(stack)
             rs == c.records
  <2>1. /\ stack # <<>> /\ stack' = Tail(stack) /\ c.sent /\ c.from = "retransmission"
        /\ next' = next + Len(rs) /\ UNCHANGED <<snapshot, due, forwarded>>
    BY <1>14, Zenon DEF RetransmissionPacketSent
  <2>2. stack \in Seq(Call) /\ Nested(stack)
    BY Zenon DEF HistoryInv, CallInv
  <2>3. stack' = <<>> /\ Outermost(stack) = c /\ c \in Call
    <3>1. "retransmission" # "reply"
      OBVIOUS
    <3> QED BY <2>1, <2>2, <3>1, ReturnedCalls, FirstAndLast
  <2>4. snapshotted' => snapshotted
    BY <1>14, Zenon DEF RetransmissionPacketSent
  <2> HIDE DEF c, rs
  <2>5. Flying(stack, "retransmission") /\ ~Flying(stack', "retransmission")
    BY <2>1, <2>3, Zenon DEF Flying
  <2>6. /\ snapshot \in Seq(Record) /\ next \in Nat \ {0}
        /\ due \in Seq(Record) /\ forwarded \in Seq(Record)
    BY Zenon DEF HistoryInv, PassInv
  <2>7. rs \in Seq(Record)
    BY <2>3, Zenon DEF Call, rs
  <2>8. next' \in Nat \ {0}
    <3>1. Len(rs) \in Nat
      BY <2>7
    <3> QED BY <2>1, <2>6, <3>1
  <2>9. Reached(stack', "retransmission", next') = next'
    <3>1. Reached(stack', "retransmission", next') = next' + 0
      BY <2>5, Zenon DEF Reached
    <3> QED BY <2>8, <3>1
  <2>10. ASSUME NEW first \in 1 .. Len(snapshot) + 1, PassFrom(first)
         PROVE PassFrom(first)'
    <3>1. Reached(stack, "retransmission", next) = next + Len(rs)
      BY <2>1, <2>3, <2>5, Zenon DEF Reached, rs
    <3>2. /\ first <= next /\ due = SubSeq(snapshot, first, Len(snapshot))
          /\ forwarded = SubSeq(snapshot, first, next + Len(rs) - 1)
          /\ next \in 1 .. Len(snapshot) /\ rs = Packet(snapshot, next)
      <4>1. /\ first <= next /\ due = SubSeq(snapshot, first, Len(snapshot))
            /\ Carries(stack, "retransmission", snapshot, next)
            /\ forwarded = SubSeq(snapshot, first, Reached(stack, "retransmission", next) - 1)
        BY <2>10, Zenon DEF PassFrom
      <4>2. next \in 1 .. Len(snapshot) /\ c.records = Packet(snapshot, next)
        BY <2>3, <2>5, <4>1, Zenon DEF Carries
      <4> QED BY <3>1, <4>1, <4>2 DEF rs
    <3>3. Len(rs) \in 1 .. Len(snapshot) - next + 1
      BY <2>6, <3>2, PacketFacts
    <3>4. PICK n \in Nat : n = next + Len(rs)
      BY <2>6, <3>3
    <3>5. first <= n /\ n <= Len(snapshot) + 1
      <4>1. first \in Int /\ next \in Int /\ Len(snapshot) \in Nat
        BY <2>6
      <4> QED BY <3>2, <3>3, <3>4, <4>1
    <3>6. next' = n /\ snapshot' = snapshot /\ forwarded' = forwarded
      BY <2>1, <3>4
    <3>7. forwarded = SubSeq(snapshot, first, n - 1)
      BY <3>2, <3>4
    <3>8. /\ first <= next' /\ next' <= Len(snapshot') + 1
          /\ forwarded' = SubSeq(snapshot', first, next' - 1)
      BY <3>5, <3>6, <3>7
    <3> QED BY <2>1, <2>5, <2>9, <3>2, <3>8, Zenon DEF PassFrom, Carries
  <2>11. snapshotted => \E first \in 1 .. Len(snapshot) + 1 : PassFrom(first)
    BY Zenon DEF HistoryInv, PassInv
  <2> QED BY <2>1, <2>4, <2>5, <2>6, <2>8, <2>10, <2>11, Zenon DEF PassInv
<1>15. CASE ReplySent
  <2>1. /\ stack # <<>> /\ stack' = Tail(stack)
        /\ Head(stack).from = "reply"
        /\ UNCHANGED <<marker, snapshotted, snapshot, next, due, forwarded>>
    BY <1>15, Zenon DEF ReplySent, mark, pass
  <2>2. SameUser(stack, stack', "retransmission")
    BY <2>1, ReturnedUser, "query" # "retransmission", "reply" # "retransmission"
  <2>3. Flying(stack', "retransmission") /\ marker'.pending => snapshotted'
    BY <2>1, <2>2, Zenon DEF HistoryInv, PassInv, SameUser
  <2> QED BY <2>1, <2>2, <2>3, SamePass
<1>16. CASE StopQuery
  BY <1>1, <1>16, Zenon DEF StopQuery, mark, pass
<1>17. ASSUME NEW q \in Queries, RefuseRange(q) PROVE PassInv'
  <2>1. CanHear /\ Reply(FALSE) /\ UNCHANGED <<marker, snapshotted, snapshot, next, due, forwarded>>
    BY <1>17, Zenon DEF RefuseRange, mark, pass
  <2>2. (FALSE) \in BOOLEAN
    BY Zenon
  <2>3. SameUser(stack, stack', "retransmission")
    BY <2>1, <2>2, ReplyStep, SameUserOfCarrier
  <2>4. Flying(stack', "retransmission") /\ marker'.pending => snapshotted'
    BY <2>1, <2>3, Zenon DEF HistoryInv, PassInv, SameUser
  <2> QED BY <2>1, <2>3, <2>4, SamePass
<1>18. ASSUME NEW q \in Queries, AcceptQuery(q) PROVE PassInv'
  <2>1. CanHear /\ Reply(Selection(q) # <<>>) /\ UNCHANGED <<marker, snapshotted, snapshot, next, due, forwarded>>
    BY <1>18, Zenon DEF AcceptQuery, mark, pass
  <2>2. (Selection(q) # <<>>) \in BOOLEAN
    BY Zenon
  <2>3. SameUser(stack, stack', "retransmission")
    BY <2>1, <2>2, ReplyStep, SameUserOfCarrier
  <2>4. Flying(stack', "retransmission") /\ marker'.pending => snapshotted'
    BY <2>1, <2>3, Zenon DEF HistoryInv, PassInv, SameUser
  <2> QED BY <2>1, <2>3, <2>4, SamePass
<1>19. ASSUME NEW enabled \in BOOLEAN, NEW outcome \in SaveOutcomes,
              ApplyHistoryStorage(enabled, outcome)
       PROVE PassInv'
  <2>1. stack' = stack /\ UNCHANGED <<snapshot, next, due, forwarded>> /\ DropMarker(enabled, outcome)
    BY <1>19, Zenon DEF ApplyHistoryStorage
  <2>2. SameUser(stack, stack', "retransmission")
    BY <2>1, Zenon DEF SameUser
  <2>3. (snapshotted' => snapshotted) /\ (marker'.pending => marker.pending /\ snapshotted' = snapshotted)
    <3>1. ~NoMarker.pending
      BY Zenon DEF NoMarker
    <3>2. CASE ~enabled /\ marker.pending
      <4>1. /\ marker' = IF outcome = "both" THEN NoMarker ELSE marker
            /\ snapshotted' = IF outcome = "both" THEN FALSE ELSE snapshotted
        BY <2>1, <3>2, Zenon DEF DropMarker, SaveMarker
      <4> QED BY <3>1, <3>2, <4>1, Zenon
    <3>3. CASE ~(~enabled /\ marker.pending)
      BY <2>1, <3>3, Zenon DEF DropMarker
    <3> QED BY <3>2, <3>3
  <2>4. Flying(stack, "retransmission") /\ marker.pending => snapshotted
    BY Zenon DEF HistoryInv, PassInv
  <2> QED BY <2>1, <2>2, <2>3, <2>4, SamePass
<1>20. ASSUME NEW enabled \in BOOLEAN, NEW outcome \in SaveOutcomes,
              ApplyHistoryRetransmission(enabled, outcome)
       PROVE PassInv'
  <2>1. stack' = stack /\ UNCHANGED <<snapshot, next, due, forwarded>> /\ DropMarker(enabled, outcome)
    BY <1>20, Zenon DEF ApplyHistoryRetransmission
  <2>2. SameUser(stack, stack', "retransmission")
    BY <2>1, Zenon DEF SameUser
  <2>3. (snapshotted' => snapshotted) /\ (marker'.pending => marker.pending /\ snapshotted' = snapshotted)
    <3>1. ~NoMarker.pending
      BY Zenon DEF NoMarker
    <3>2. CASE ~enabled /\ marker.pending
      <4>1. /\ marker' = IF outcome = "both" THEN NoMarker ELSE marker
            /\ snapshotted' = IF outcome = "both" THEN FALSE ELSE snapshotted
        BY <2>1, <3>2, Zenon DEF DropMarker, SaveMarker
      <4> QED BY <3>1, <3>2, <4>1, Zenon
    <3>3. CASE ~(~enabled /\ marker.pending)
      BY <2>1, <3>3, Zenon DEF DropMarker
    <3> QED BY <3>2, <3>3
  <2>4. Flying(stack, "retransmission") /\ marker.pending => snapshotted
    BY Zenon DEF HistoryInv, PassInv
  <2> QED BY <2>1, <2>2, <2>3, <2>4, SamePass
<1>21. CASE Restart
  <2>1. /\ snapshotted' = FALSE /\ snapshot' = <<>> /\ next' = 1
        /\ due' = <<>> /\ forwarded' = <<>> /\ stack' = <<>>
    BY <1>21, Zenon DEF Restart
  <2>2. <<>> \in Seq(Record) /\ 1 \in Nat \ {0}
    BY EmptySeq
  <2> QED BY <2>1, <2>2, Zenon DEF PassInv, Flying
<1>22. CASE UNCHANGED vars
  BY <1>1, <1>22, Zenon DEF vars
<1>23. ASSUME NEW t \in NetworkTimes, SetClock(t) PROVE PassInv'
  BY <1>1, <1>23, Zenon DEF SetClock, mark, pass
<1> QED
  BY <1>2, <1>3, <1>4, <1>5, <1>6, <1>7, <1>8, <1>9, <1>10, <1>11, <1>12, <1>13,
     <1>14, <1>15, <1>16, <1>17, <1>18, <1>19, <1>20, <1>21, <1>22, <1>23, Zenon
     DEF Next, Uplink, Radio, Downlink

-----------------------------------------------------------------------------
(* The query.                                                              *)

\* In the receive windows of a call, the outermost one has gone out.
LEMMA OutermostSent ==
  ASSUME HistoryInv, stack # <<>>, Len(stack) > 1 \/ Head(stack).sent
  PROVE  Outermost(stack).sent
<1>1. stack \in Seq(Call) /\ Nested(stack)
  BY Zenon DEF HistoryInv, CallInv
<1>2. PICK n \in Nat \ {0} : n = Len(stack)
  BY <1>1, FirstAndLast
<1>3. Head(stack) = stack[1] /\ n \in 1 .. n /\ (n > 1 \/ n = 1)
  BY <1>1, <1>2, FirstAndLast
<1>4. CASE n > 1
  BY <1>1, <1>2, <1>3, <1>4, Zenon DEF Nested, Outermost
<1>5. CASE n = 1
  <2>1. Head(stack).sent
    BY <1>2, <1>5
  <2> QED BY <1>2, <1>3, <1>5, <2>1, Zenon DEF Outermost
<1> QED BY <1>3, <1>4, <1>5

Accepting(calls) == \E i \in 1 .. Len(calls) : calls[i].accepts

\* A step that leaves the query alone, or begins to upload it, or ends it.
LEMMA SameQuery ==
  ASSUME HistoryInv, UNCHANGED <<queryRecords, queryCursor, selected, uploaded, overlapped>>,
         SameUser(stack, stack', "query"),
         queryActive' => queryActive \/ Accepting(stack),
         Accepting(stack') => Accepting(stack),
         queryActive' \in BOOLEAN
  PROVE  QueryInv'
<1>1. /\ queryRecords \in Seq(Record) /\ queryCursor \in Nat \ {0}
      /\ selected \in Seq(Record) /\ uploaded \in Seq(Record)
      /\ overlapped \/ Uploading \/ Finished \/ Emptied
  BY Zenon DEF HistoryInv, QueryInv
<1>2. ASSUME Uploading PROVE Uploading'
  <2>1. queryCursor \in Nat
    BY <1>1
  <2>2. /\ Reached(stack', "query", queryCursor) = Reached(stack, "query", queryCursor)
        /\ Carries(stack, "query", selected, queryCursor) => Carries(stack', "query", selected, queryCursor)
    BY <2>1, SameReached, ZenonT(60)
  <2> QED BY <1>2, <2>2, Zenon DEF Uploading
<1>3. ASSUME Finished PROVE Finished'
  BY <1>3, Zenon DEF Finished, Accepting
<1>4. ASSUME Emptied PROVE Emptied'
  BY <1>4, Zenon DEF Emptied, SameUser
<1> QED BY <1>1, <1>2, <1>3, <1>4, Zenon DEF QueryInv

\* The calls that remain when one returns accept no more than before.
LEMMA ReturnedAccepting ==
  ASSUME HistoryInv, stack # <<>>, stack' = Tail(stack)
  PROVE  Accepting(stack') => Accepting(stack)
<1>1. \A i \in 1 .. Len(stack') : \E j \in 1 .. Len(stack) : stack'[i] = stack[j]
  BY ReturnedCalls DEF HistoryInv, CallInv
<1> QED BY <1>1, Zenon DEF Accepting

\* What a query selects is a sequence of records.
LEMMA SelectionType == ASSUME HistoryInv, NEW q PROVE Selection(q) \in Seq(Record)
<1>1. ring \in Seq(Record)
  BY Zenon DEF HistoryInv, RingInv
<1>2. \A P : P \subseteq 1 .. Len(ring) => Chosen(ring, P) \in Seq(Record)
  BY <1>1, ChosenType
<1>3. InRange(q) \in Seq(Record)
  <2> DEFINE P == {i \in 1 .. Len(ring) : ring[i].time >= q.start /\ ring[i].time <= q.end}
  <2>1. P \subseteq 1 .. Len(ring)
    OBVIOUS
  <2>2. InRange(q) = Chosen(ring, P)
    BY DEF InRange
  <2> HIDE DEF P
  <2> QED BY <1>2, <2>1, <2>2
<1>4. NearPoint(q) \in Seq(Record)
  <2> DEFINE near == {i \in 1 .. Len(ring) : Distance(ring[i].time, q.start) <= Tolerance}
             best == CHOOSE i \in near : \A j \in near :
                       \/ Distance(ring[i].time, q.start) < Distance(ring[j].time, q.start)
                       \/ /\ Distance(ring[i].time, q.start) = Distance(ring[j].time, q.start)
                          /\ i <= j
             P == {i \in 1 .. Len(ring) : ring[i].time = ring[best].time}
  <2>1. P \subseteq 1 .. Len(ring)
    OBVIOUS
  <2>2. NearPoint(q) = IF near = {} THEN <<>> ELSE Chosen(ring, P)
    BY DEF NearPoint
  <2> HIDE DEF P, near
  <2>3. <<>> \in Seq(Record)
    BY EmptySeq
  <2> QED BY <1>2, <2>1, <2>2, <2>3, Zenon
<1> QED BY <1>3, <1>4, Zenon DEF Selection

\* A query goes on where it was.
LEMMA QueryStep == HistoryInv /\ [Next]_vars => QueryInv'
<1> SUFFICES ASSUME HistoryInv, [Next]_vars PROVE QueryInv'
  OBVIOUS
<1>1. ASSUME UNCHANGED <<queryActive, queryRecords, queryCursor, selected, uploaded, overlapped, stack>>
      PROVE QueryInv'
  BY <1>1, Zenon DEF HistoryInv, QueryInv, Uploading, Finished, Emptied
<1>2. CASE Tick
  BY <1>1, <1>2, Zenon DEF Tick, query
<1>3. CASE StoreSnapshot
  BY <1>1, <1>3, Zenon DEF StoreSnapshot, query
<1>4. CASE LinkLost
  BY <1>1, <1>4, Zenon DEF LinkLost, query
<1>5. CASE LinkJoined
  BY <1>1, <1>5, Zenon DEF LinkJoined, query
<1>6. ASSUME NEW outcome \in SaveOutcomes, ObserveLink(outcome) PROVE QueryInv'
  BY <1>1, <1>6, Zenon DEF ObserveLink, query
<1>7. ASSUME NEW outcome \in SaveOutcomes, RetransmissionDone(outcome)
      PROVE QueryInv'
  BY <1>1, <1>7, Zenon DEF RetransmissionDone, query
<1>8. CASE RetransmitPacket
  <2> DEFINE c == PacketCall("retransmission", Packet(Snapshot, First))
  <2>1. /\ stack = <<>> /\ stack' = <<c>>
        /\ UNCHANGED <<queryActive, queryRecords, queryCursor, selected, uploaded, overlapped>>
    BY <1>8, Zenon
       DEF RetransmitPacket, CanRetransmit, AtStep, AtLoop, PacketCall, query
  <2>2. Len(stack') = 1 /\ stack'[1] = c
    BY <2>1
  <2>3. c.from # "query" /\ ~c.accepts
    BY DEF PacketCall
  <2> HIDE DEF c
  <2>4. SameUser(stack, stack', "query")
    BY <2>1, <2>2, <2>3, Zenon DEF SameUser, Flying, Outermost
  <2>5. ~Accepting(stack')
    <3>1. \A i \in 1 .. 1 : i = 1
      OBVIOUS
    <3> QED BY <2>2, <2>3, <3>1, Zenon DEF Accepting
  <2>6. queryActive \in BOOLEAN
    BY Zenon DEF HistoryInv, FlagInv
  <2> QED BY <2>1, <2>4, <2>5, <2>6, SameQuery
<1>9. CASE UploadPacket
  <2> DEFINE c == PacketCall("query", Packet(queryRecords, queryCursor))
  <2>1. /\ stack = <<>> /\ stack' = <<c>> /\ queryActive /\ queryCursor <= Len(queryRecords)
        /\ UNCHANGED <<queryActive, queryRecords, queryCursor, selected, uploaded, overlapped>>
    BY <1>9, Zenon DEF UploadPacket, CanUpload, AtStep, AtLoop, PacketCall, query
  <2>2. /\ queryRecords \in Seq(Record) /\ queryCursor \in Nat \ {0}
        /\ selected \in Seq(Record) /\ uploaded \in Seq(Record)
        /\ overlapped \/ Uploading \/ Finished \/ Emptied
    BY Zenon DEF HistoryInv, QueryInv
  <2>3. overlapped \/ Uploading
    <3>1. ~Finished
      BY <2>1, Zenon DEF Finished
    <3>2. ~Emptied
      <4>1. SUFFICES ASSUME queryRecords = <<>> PROVE FALSE
        BY Zenon DEF Emptied
      <4>2. queryCursor <= 0
        BY <2>1, <4>1
      <4> QED BY <2>2, <4>2
    <3> QED BY <2>2, <3>1, <3>2, Zenon
  <2>4. Outermost(stack') = c
    <3>1. Len(<<c>>) = 1 /\ <<c>>[1] = c
      OBVIOUS
    <3> QED BY <2>1, <3>1, Zenon DEF Outermost
  <2>5. c.records = Packet(queryRecords, queryCursor) /\ ~c.sent
    BY Zenon DEF PacketCall
  <2> HIDE DEF c
  <2>6. queryCursor \in 1 .. Len(queryRecords)
    BY <2>1, <2>2
  <2>7. ASSUME Uploading PROVE Uploading'
    <3>1. Carries(stack', "query", selected, queryCursor)
      BY <2>4, <2>5, <2>6, <2>7, Zenon DEF Carries, Uploading
    <3>2. Reached(stack', "query", queryCursor) = Reached(stack, "query", queryCursor)
      BY <2>1, <2>4, <2>5, Zenon DEF Reached, Flying
    <3> QED BY <2>1, <2>7, <3>1, <3>2, Zenon DEF Uploading
  <2> QED BY <2>1, <2>2, <2>3, <2>7, Zenon DEF QueryInv
<1>10. CASE NothingToUpload
  <2>1. /\ queryActive' = FALSE /\ stack' = stack
        /\ UNCHANGED <<queryRecords, queryCursor, selected, uploaded, overlapped>>
    BY <1>10, Zenon DEF NothingToUpload
  <2>2. SameUser(stack, stack', "query")
    BY <2>1, Zenon DEF SameUser
  <2> QED BY <2>1, <2>2, SameQuery
<1>11. CASE SendSucceeds
  <2>1. /\ stack # <<>> /\ stack' = Marked(stack) /\ ~Head(stack).sent
        /\ UNCHANGED <<queryActive, queryRecords, queryCursor, selected, overlapped>>
    BY <1>11, Zenon DEF SendSucceeds, Marked
  <2>2. stack \in Seq(Call) /\ Nested(stack)
    BY Zenon DEF HistoryInv, CallInv
  <2>3. Accepting(stack') => Accepting(stack)
    <3>1. Len(stack') = Len(stack) /\ \A i \in 1 .. Len(stack) : stack'[i].accepts = stack[i].accepts
      BY <2>1, <2>2, MarkedCalls
    <3> QED BY <3>1, Zenon DEF Accepting
  <2>4. CASE Head(stack).from # "query"
    <3>1. uploaded' = uploaded
      BY <1>11, <2>4, Zenon DEF SendSucceeds
    <3>2. SameUser(stack, stack', "query")
      BY <2>1, <2>4, MarkedUser
    <3>3. queryActive \in BOOLEAN
      BY Zenon DEF HistoryInv, FlagInv
    <3> QED BY <2>1, <2>3, <3>1, <3>2, <3>3, SameQuery
  <2>5. CASE Head(stack).from = "query"
    <3> DEFINE c == Head(stack)
               rs == c.records
    <3>1. "query" # "reply"
      OBVIOUS
    <3>2. /\ Outermost(stack) = c /\ Outermost(stack') = [c EXCEPT !.sent = TRUE]
          /\ Len(stack') = Len(stack) /\ Len(stack) = 1 /\ c \in Call
      BY <2>1, <2>2, <2>5, <3>1, MarkedCalls, FirstAndLast
    <3>3. stack' # <<>>
      BY <3>2
    <3>4. /\ rs \in Seq(Record)
          /\ Outermost(stack').records = rs /\ Outermost(stack').sent
          /\ Outermost(stack').from = c.from
      BY <3>2, Zenon DEF Call
    <3>5. uploaded' = Noted(uploaded, rs, selected)
      BY <1>11, <2>5, Zenon DEF SendSucceeds
    <3> HIDE DEF c, rs
    <3>6. Flying(stack, "query") /\ Flying(stack', "query")
      BY <2>1, <2>5, <3>2, <3>3, <3>4, Zenon DEF Flying, c
    <3>7. /\ queryRecords \in Seq(Record) /\ queryCursor \in Nat \ {0}
          /\ selected \in Seq(Record) /\ uploaded \in Seq(Record)
          /\ overlapped \/ Uploading \/ Finished \/ Emptied
      BY Zenon DEF HistoryInv, QueryInv
    <3>8. uploaded' \in Seq(Record)
      <4>1. uploaded \o rs \in Seq(Record)
        BY <3>4, <3>7, ConcatProperties
      <4> QED BY <3>5, <3>7, <4>1, Zenon DEF Noted
    <3>9. ASSUME Uploading PROVE Uploading'
      <4>1. Reached(stack, "query", queryCursor) = queryCursor
        <5>1. Reached(stack, "query", queryCursor) = queryCursor + 0
          BY <2>1, <3>2, Zenon DEF Reached, c
        <5> QED BY <3>7, <5>1
      <4>2. /\ queryRecords = selected /\ queryCursor <= Len(selected) + 1
            /\ uploaded = SubSeq(selected, 1, queryCursor - 1)
            /\ queryCursor \in 1 .. Len(selected) /\ Outermost(stack).records = Packet(selected, queryCursor)
        BY <3>6, <3>9, <4>1, Zenon DEF Uploading, Carries
      <4>3. rs = Packet(selected, queryCursor)
        BY <3>2, <4>2, Zenon DEF rs
      <4>4. 1 \in 1 .. Len(selected) + 1 /\ Len(selected) \in Nat
        BY <3>7
      <4>5. /\ Len(uploaded) = queryCursor - 1
            /\ uploaded \o Packet(selected, queryCursor) =
                 SubSeq(selected, 1, queryCursor + Len(Packet(selected, queryCursor)) - 1)
        <5>1. /\ Len(SubSeq(selected, 1, queryCursor - 1)) = queryCursor - 1
              /\ SubSeq(selected, 1, queryCursor - 1) \o Packet(selected, queryCursor) =
                   SubSeq(selected, 1, queryCursor + Len(Packet(selected, queryCursor)) - 1)
          BY <3>7, <4>2, <4>4, SentMore, ZenonT(60)
        <5> QED BY <4>2, <5>1, Zenon
      <4>6. ~(Len(uploaded) > Len(selected))
        BY <4>2, <4>4, <4>5
      <4>7. uploaded' = SubSeq(selected, 1, queryCursor + Len(rs) - 1)
        BY <3>5, <4>3, <4>5, <4>6, Zenon DEF Noted
      <4>8. Reached(stack', "query", queryCursor) = queryCursor + Len(rs)
        BY <3>4, <3>6, Zenon DEF Reached
      <4>9. Carries(stack', "query", selected, queryCursor)
        BY <3>4, <4>2, <4>3, Zenon DEF Carries
      <4>10. PICK n \in Nat : n = queryCursor + Len(rs)
        <5>1. Len(rs) \in Nat
          BY <3>4
        <5> QED BY <3>7, <5>1
      <4>11. queryCursor + Len(rs) - 1 = n - 1
        BY <3>4, <3>7, <4>10
      <4>12. uploaded' = SubSeq(selected, 1, Reached(stack', "query", queryCursor) - 1)
        BY <4>7, <4>8, <4>10, <4>11, Zenon
      <4> QED BY <2>1, <4>2, <4>9, <4>12, Zenon DEF Uploading
    <3>10. Finished => Finished'
      BY <2>1, <2>3, Zenon DEF Finished, Accepting
    <3>11. ~Emptied
      BY <2>1, <3>2, <3>6, Zenon DEF Emptied, c
    <3> QED BY <2>1, <3>7, <3>8, <3>9, <3>10, <3>11, Zenon DEF QueryInv
  <2> QED BY <2>4, <2>5
<1>12. ASSUME NEW joined \in BOOLEAN, SendFails(joined) PROVE QueryInv'
  <2>1. /\ stack # <<>> /\ stack' = Tail(stack) /\ ~Head(stack).sent
        /\ UNCHANGED <<queryCursor, overlapped>>
    BY <1>12, Zenon DEF SendFails
  <2>2. SameUser(stack, stack', "query")
    BY <2>1, ReturnedUser
  <2>3. CASE ~Head(stack).accepts
    <3>1. UNCHANGED <<queryActive, queryRecords, selected, uploaded>>
      BY <1>12, <2>3, Zenon DEF SendFails
    <3>2. queryActive \in BOOLEAN
      BY Zenon DEF HistoryInv, FlagInv
    <3> QED BY <2>1, <2>2, <3>1, <3>2, ReturnedAccepting, SameQuery
  <2>4. CASE Head(stack).accepts
    <3>1. queryActive' = FALSE /\ queryRecords' = <<>> /\ selected' = <<>> /\ uploaded' = <<>>
      BY <1>12, <2>4, Zenon DEF SendFails
    <3>2. stack \in Seq(Call) /\ Nested(stack)
      BY Zenon DEF HistoryInv, CallInv
    <3>3. Head(stack) = stack[1] /\ Len(stack) \in Nat \ {0}
      BY <2>1, <3>2, FirstAndLast
    <3>4. Head(stack).from = "reply"
      <4>1. 1 \in 1 .. Len(stack)
        BY <3>3
      <4> QED BY <2>4, <3>2, <3>3, <4>1, Zenon DEF Nested
    <3>5. Flying(stack, "query") => Outermost(stack).sent
      <4> SUFFICES ASSUME Flying(stack, "query") PROVE Outermost(stack).sent
        OBVIOUS
      <4>1. stack[Len(stack)].from = "query" /\ stack[1].from = "reply" /\ "reply" # "query"
        BY <3>3, <3>4 DEF Flying, Outermost
      <4>2. Len(stack) # 1
        BY <4>1
      <4>3. Len(stack) > 1
        <5>1. PICK n \in Nat \ {0} : n = Len(stack)
          BY <3>3
        <5>2. n # 1
          BY <4>2, <5>1
        <5>3. n > 1
          BY <5>2
        <5> QED BY <5>1, <5>3
      <4> QED BY <2>1, <4>3, OutermostSent
    <3>6. Emptied'
      BY <2>2, <3>1, <3>5, Zenon DEF Emptied, SameUser
    <3>7. <<>> \in Seq(Record) /\ queryCursor \in Nat \ {0}
      BY EmptySeq, Zenon DEF HistoryInv, QueryInv
    <3> QED BY <2>1, <3>1, <3>6, <3>7, Zenon DEF QueryInv
  <2> QED BY <2>3, <2>4
<1>13. CASE QueryPacketSent
  <2> DEFINE c == Head(stack)
             rs == c.records
             cursor == queryCursor + Len(rs)
  <2>1. /\ stack # <<>> /\ stack' = Tail(stack) /\ c.sent /\ c.from = "query"
        /\ UNCHANGED <<selected, uploaded, overlapped>>
        /\ cursor > Len(queryRecords) =>
             queryActive' = FALSE /\ queryRecords' = <<>> /\ queryCursor' = 1
        /\ ~(cursor > Len(queryRecords)) =>
             queryCursor' = cursor /\ queryActive' = queryActive /\ queryRecords' = queryRecords
    BY <1>13, Zenon DEF QueryPacketSent
  <2>2. stack \in Seq(Call) /\ Nested(stack)
    BY Zenon DEF HistoryInv, CallInv
  <2>3. stack' = <<>> /\ Outermost(stack) = c /\ c \in Call
    <3>1. "query" # "reply"
      OBVIOUS
    <3> QED BY <2>1, <2>2, <3>1, ReturnedCalls, FirstAndLast
  <2>4. rs \in Seq(Record)
    BY <2>3, Zenon DEF Call
  <2>5. /\ queryRecords \in Seq(Record) /\ queryCursor \in Nat \ {0}
        /\ selected \in Seq(Record) /\ uploaded \in Seq(Record)
        /\ overlapped \/ Uploading \/ Finished \/ Emptied
    BY Zenon DEF HistoryInv, QueryInv
  <2>6. cursor \in Nat \ {0}
    <3>1. Len(rs) \in Nat
      BY <2>4
    <3> QED BY <2>5, <3>1
  <2> HIDE DEF c, rs, cursor
  <2>7. Flying(stack, "query") /\ ~Flying(stack', "query")
    BY <2>1, <2>3, Zenon DEF Flying
  <2>8. Len(stack') = 0 /\ 1 .. 0 = {}
    BY <2>3
  <2>9. CASE cursor > Len(queryRecords)
    <3>1. queryActive' = FALSE /\ queryRecords' = <<>> /\ queryCursor' = 1
      BY <2>1, <2>9, Zenon
    <3>2. Finished'
      BY <2>8, <3>1, Zenon DEF Finished
    <3>3. <<>> \in Seq(Record) /\ 1 \in Nat \ {0}
      BY EmptySeq
    <3> QED BY <2>1, <2>5, <3>1, <3>2, <3>3, Zenon DEF QueryInv
  <2>10. CASE ~(cursor > Len(queryRecords))
    <3>1. queryCursor' = cursor /\ queryActive' = queryActive /\ queryRecords' = queryRecords
      BY <2>1, <2>10, Zenon
    <3>2. Finished => Finished'
      BY <2>8, <3>1, Zenon DEF Finished
    <3>3. ~Emptied
      <4> SUFFICES ASSUME queryRecords = <<>> PROVE FALSE
        BY Zenon DEF Emptied
      <4>1. Len(queryRecords) = 0
        OBVIOUS
      <4> QED BY <2>6, <2>10, <4>1
    <3>4. ASSUME Uploading PROVE Uploading'
      <4>1. /\ queryRecords = selected
            /\ uploaded = SubSeq(selected, 1, Reached(stack, "query", queryCursor) - 1)
        BY <3>4, Zenon DEF Uploading
      <4>2. Reached(stack, "query", queryCursor) = cursor
        BY <2>1, <2>3, <2>7, Zenon DEF Reached, cursor, rs
      <4>3. Reached(stack', "query", cursor) = cursor
        <5>1. Reached(stack', "query", cursor) = cursor + 0
          BY <2>7, Zenon DEF Reached
        <5> QED BY <2>6, <5>1
      <4>4. Carries(stack', "query", selected, cursor)
        BY <2>7, Zenon DEF Carries
      <4>5. cursor <= Len(selected) + 1
        <5>1. Len(selected) \in Nat /\ ~(cursor > Len(selected))
          BY <2>5, <2>10, <4>1
        <5> QED BY <2>6, <5>1
      <4> QED BY <2>1, <3>1, <4>1, <4>2, <4>3, <4>4, <4>5, Zenon DEF Uploading
    <3>5. overlapped' \/ Uploading' \/ Finished' \/ Emptied'
      BY <2>1, <2>5, <3>2, <3>3, <3>4, Zenon
    <3> QED BY <2>1, <2>5, <2>6, <3>1, <3>5, Zenon DEF QueryInv
  <2> QED BY <2>9, <2>10
<1>14. ASSUME NEW outcome \in SaveOutcomes, RetransmissionPacketSent(outcome)
       PROVE QueryInv'
  <2>1. /\ stack # <<>> /\ stack' = Tail(stack) /\ Head(stack).from = "retransmission"
        /\ UNCHANGED <<queryActive, queryRecords, queryCursor, selected, uploaded, overlapped>>
    BY <1>14, Zenon DEF RetransmissionPacketSent, query
  <2>2. SameUser(stack, stack', "query")
    BY <2>1, ReturnedUser, "retransmission" # "query"
  <2>3. queryActive \in BOOLEAN
    BY Zenon DEF HistoryInv, FlagInv
  <2> QED BY <2>1, <2>2, <2>3, ReturnedAccepting, SameQuery
<1>15. CASE ReplySent
  <2>1. /\ stack # <<>> /\ stack' = Tail(stack) /\ Head(stack).from = "reply"
        /\ queryActive' = (queryActive \/ Head(stack).accepts)
        /\ UNCHANGED <<queryRecords, queryCursor, selected, uploaded, overlapped>>
    BY <1>15, Zenon DEF ReplySent
  <2>2. SameUser(stack, stack', "query")
    BY <2>1, ReturnedUser, "reply" # "query"
  <2>3. Head(stack).accepts => Accepting(stack)
    <3>1. Head(stack) = stack[1] /\ 1 \in 1 .. Len(stack)
      BY <2>1, FirstAndLast DEF HistoryInv, CallInv
    <3> QED BY <3>1, Zenon DEF Accepting
  <2>4. queryActive' \in BOOLEAN
    BY <2>1, Zenon
  <2>5. queryActive' => queryActive \/ Accepting(stack)
    BY <2>1, <2>3, Zenon
  <2> QED BY <2>1, <2>2, <2>4, <2>5, ReturnedAccepting, SameQuery
<1>16. CASE StopQuery
  <2>1. /\ CanHear /\ stack' = stack
        /\ queryActive' = FALSE /\ queryRecords' = <<>> /\ queryCursor' = 1
        /\ selected' = <<>> /\ uploaded' = <<>>
    BY <1>16, Zenon DEF StopQuery
  <2>2. Flying(stack, "query") => Outermost(stack).sent
    <3> SUFFICES ASSUME stack # <<>> PROVE Outermost(stack).sent
      BY Zenon DEF Flying
    <3>1. Head(stack).sent
      BY <2>1, Zenon DEF CanHear
    <3> QED BY <3>1, OutermostSent
  <2>3. <<>> \in Seq(Record) /\ 1 \in Nat \ {0}
    BY EmptySeq
  <2>4. Emptied'
    BY <2>1, <2>2, Zenon DEF Emptied
  <2> QED BY <2>1, <2>3, <2>4, Zenon DEF QueryInv
<1>17. ASSUME NEW q \in Queries, RefuseRange(q) PROVE QueryInv'
  <2>1. /\ CanHear /\ Reply(FALSE) /\ queryActive' = FALSE
        /\ UNCHANGED <<queryRecords, queryCursor, selected, uploaded, overlapped>>
    BY <1>17, Zenon DEF RefuseRange
  <2>2. FALSE \in BOOLEAN
    OBVIOUS
  <2>3. SameUser(stack, stack', "query")
    BY <2>1, <2>2, ReplyStep, SameUserOfCarrier
  <2>4. Accepting(stack') => Accepting(stack)
    <3>1. \A i \in 1 .. Len(stack') :
            stack'[i] = ReplyCall(FALSE) \/ \E j \in 1 .. Len(stack) : stack'[i] = stack[j]
      BY <2>1, <2>2, ReplyStep
    <3>2. ~ReplyCall(FALSE).accepts
      BY Zenon DEF ReplyCall
    <3> QED BY <3>1, <3>2, Zenon DEF Accepting
  <2> QED BY <2>1, <2>3, <2>4, SameQuery
<1>18. ASSUME NEW q \in Queries, AcceptQuery(q) PROVE QueryInv'
  <2>1. /\ CanHear /\ Reply(Selection(q) # <<>>)
        /\ queryRecords' = Selection(q) /\ queryCursor' = 1
        /\ selected' = Selection(q) /\ uploaded' = <<>>
        /\ overlapped' = (\E i \in 1 .. Len(stack) : stack[i].from = "query")
    BY <1>18, Zenon DEF AcceptQuery
  <2>2. (Selection(q) # <<>>) \in BOOLEAN
    BY Zenon
  <2>3. SameUser(stack, stack', "query")
    BY <2>1, <2>2, ReplyStep, SameUserOfCarrier
  <2>4. Selection(q) \in Seq(Record) /\ <<>> \in Seq(Record) /\ 1 \in Nat \ {0}
    BY SelectionType, EmptySeq
  <2>5. ASSUME ~overlapped' PROVE Uploading'
    <3>1. ~Flying(stack, "query")
      <4> SUFFICES ASSUME stack # <<>> PROVE Outermost(stack).from # "query"
        BY Zenon DEF Flying
      <4>1. Len(stack) \in Nat \ {0}
        BY FirstAndLast DEF HistoryInv, CallInv
      <4>2. Len(stack) \in 1 .. Len(stack)
        BY <4>1
      <4> QED BY <2>1, <2>5, <4>2, Zenon DEF Outermost
    <3>2. ~Flying(stack', "query")
      BY <2>3, <3>1, Zenon DEF SameUser
    <3>3. Reached(stack', "query", 1) = 1 /\ Carries(stack', "query", selected', 1)
      <4>1. Reached(stack', "query", 1) = 1 + 0 /\ Carries(stack', "query", selected', 1)
        BY <3>2, Zenon DEF Reached, Carries
      <4> QED BY <4>1
    <3>4. SubSeq(Selection(q), 1, 0) = <<>> /\ 1 - 1 = 0 /\ 1 <= Len(Selection(q)) + 1
      BY <2>4, SubSeqEmpty
    <3> QED BY <2>1, <3>3, <3>4, Zenon DEF Uploading
  <2> QED BY <2>1, <2>4, <2>5, Zenon DEF QueryInv
<1>19. ASSUME NEW enabled \in BOOLEAN, NEW outcome \in SaveOutcomes,
              ApplyHistoryStorage(enabled, outcome)
       PROVE QueryInv'
  BY <1>1, <1>19, Zenon DEF ApplyHistoryStorage, query
<1>20. ASSUME NEW enabled \in BOOLEAN, NEW outcome \in SaveOutcomes,
              ApplyHistoryRetransmission(enabled, outcome)
       PROVE QueryInv'
  BY <1>1, <1>20, Zenon DEF ApplyHistoryRetransmission, query
<1>21. CASE Restart
  <2>1. /\ stack' = <<>> /\ queryRecords' = <<>> /\ queryCursor' = 1
        /\ selected' = <<>> /\ uploaded' = <<>>
    BY <1>21, Zenon DEF Restart
  <2>2. <<>> \in Seq(Record) /\ 1 \in Nat \ {0}
    BY EmptySeq
  <2>3. Emptied'
    BY <2>1, Zenon DEF Emptied, Flying
  <2> QED BY <2>1, <2>2, <2>3, Zenon DEF QueryInv
<1>22. CASE UNCHANGED vars
  BY <1>1, <1>22, Zenon DEF vars
<1>23. ASSUME NEW t \in NetworkTimes, SetClock(t) PROVE QueryInv'
  BY <1>1, <1>23, Zenon DEF SetClock, query
<1> QED
  BY <1>2, <1>3, <1>4, <1>5, <1>6, <1>7, <1>8, <1>9, <1>10, <1>11, <1>12, <1>13,
     <1>14, <1>15, <1>16, <1>17, <1>18, <1>19, <1>20, <1>21, <1>22, <1>23, Zenon
     DEF Next, Uplink, Radio, Downlink

-----------------------------------------------------------------------------
(* What follows.                                                           *)

\* Every step keeps the whole invariant.
LEMMA NextHistoryInv == HistoryInv /\ [Next]_vars => HistoryInv'
  BY RingStep, MarkStep, FlagStep, CallStep, PassStep, QueryStep, Zenon
     DEF HistoryInv

LEMMA SpecHistoryInv == Spec => []HistoryInv
  BY InitHistoryInv, NextHistoryInv, PTL DEF Spec

\* The state of the history functions stays within the types the code declares:
\* the ring within its capacity, the cursors positive, the marker valid while
\* the application runs.
THEOREM HistoryTypeCorrect == Spec => []TypeOK
<1>1. HistoryInv => TypeOK
  BY Zenon
     DEF HistoryInv, FlagInv, RingInv, MarkInv, CallInv, PassInv, QueryInv, TypeOK
<1> QED BY <1>1, SpecHistoryInv, PTL

\* A marker in flash outlives power loss at any moment, also one that tears the
\* save of the marker, as long as no clear of it was attempted.
THEOREM MarkerSurvives == Spec => MarkerSurvivesRestart
<1>1. HistoryInv /\ [Next]_vars =>
        [(Restart /\ marker.pending /\ ~clearing) => (running' /\ marker' = marker)]_vars
  <2> SUFFICES ASSUME HistoryInv, Restart, marker.pending, ~clearing
               PROVE  running' /\ marker' = marker
    OBVIOUS
  <2>1. running' = Loads /\ marker' = Loaded /\ running
    BY Zenon DEF Restart
  <2>2. flash = marker /\ marker.lostAt # 0
    BY <2>1, Zenon DEF HistoryInv, MarkInv
  <2> QED BY <2>1, <2>2, Zenon DEF Loads, Loaded
<1> QED BY <1>1, SpecHistoryInv, PTL DEF Spec, MarkerSurvivesRestart

\* A query that runs to its end has uploaded exactly what it selected.
THEOREM QueriesUploaded == Spec => QueryExact
<1>1. HistoryInv /\ [Next]_vars =>
        [(queryActive /\ ~queryActive' /\ (QueryPacketSent \/ NothingToUpload)) =>
           (overlapped \/ uploaded = selected)]_vars
  <2> SUFFICES ASSUME HistoryInv, queryActive, ~queryActive', QueryPacketSent \/ NothingToUpload, ~overlapped
               PROVE  uploaded = selected
    BY Zenon
  <2>1. /\ queryRecords \in Seq(Record) /\ queryCursor \in Nat \ {0} /\ selected \in Seq(Record)
        /\ Uploading \/ Emptied
    BY Zenon DEF HistoryInv, QueryInv, Finished
  <2>2. CASE Emptied
    BY <2>2, Zenon DEF Emptied
  <2>3. CASE Uploading
    <3>1. /\ queryRecords = selected
          /\ uploaded = SubSeq(selected, 1, Reached(stack, "query", queryCursor) - 1)
      BY <2>3, Zenon DEF Uploading
    <3>2. Reached(stack, "query", queryCursor) = Len(selected) + 1
      <4>1. CASE QueryPacketSent
        <5> DEFINE rs == Head(stack).records
        <5>1. /\ stack # <<>> /\ Head(stack).sent /\ Head(stack).from = "query"
              /\ queryCursor + Len(rs) > Len(selected)
          BY <3>1, <4>1, Zenon DEF QueryPacketSent
        <5>2. Outermost(stack) = Head(stack)
          <6>1. stack \in Seq(Call) /\ Nested(stack) /\ "query" # "reply"
            BY DEF HistoryInv, CallInv
          <6> QED BY <5>1, <6>1, ReturnedCalls
        <5> HIDE DEF rs
        <5>3. Flying(stack, "query")
          BY <5>1, <5>2, Zenon DEF Flying
        <5>4. Reached(stack, "query", queryCursor) = queryCursor + Len(rs)
          BY <5>1, <5>2, <5>3, Zenon DEF Reached, rs
        <5>5. queryCursor \in 1 .. Len(selected) /\ rs = Packet(selected, queryCursor)
          BY <2>3, <5>2, <5>3, Zenon DEF Uploading, Carries, rs
        <5>6. Len(rs) \in 1 .. Len(selected) - queryCursor + 1
          BY <2>1, <5>5, PacketFacts
        <5>7. queryCursor + Len(rs) = Len(selected) + 1
          BY <2>1, <5>1, <5>5, <5>6
        <5> QED BY <5>4, <5>7, Zenon
      <4>2. CASE NothingToUpload
        <5>1. stack = <<>> /\ queryCursor > Len(selected)
          BY <3>1, <4>2, Zenon DEF NothingToUpload, CanUpload, AtStep, AtLoop
        <5>2. queryCursor <= Len(selected) + 1
          BY <2>3, Zenon DEF Uploading
        <5>3. Reached(stack, "query", queryCursor) = queryCursor + 0
          BY <5>1, Zenon DEF Reached, Flying
        <5> QED BY <2>1, <5>1, <5>2, <5>3
      <4> QED BY <4>1, <4>2
    <3>3. (Len(selected) + 1) - 1 = Len(selected)
      BY <2>1
    <3>4. SubSeq(selected, 1, Len(selected)) = selected
      BY <2>1, SubSeqFull
    <3> QED BY <3>1, <3>2, <3>3, <3>4, Zenon
  <2> QED BY <2>1, <2>2, <2>3
<1> QED BY <1>1, SpecHistoryInv, PTL DEF Spec, QueryExact

\* A pass that clears the marker by itself has sent exactly what was due, also when the
\* clock was set back or lost and the ring is not in the order of its time stamps.
THEOREM PassesForwarded == Spec => RetransmissionExact
<1>1. HistoryInv /\ [Next]_vars =>
        [(marker.pending /\ ~marker'.pending /\ storage' /\ retransmit') => forwarded' = due']_vars
  <2> SUFFICES ASSUME HistoryInv, Next, marker.pending, ~marker'.pending, storage', retransmit'
               PROVE  forwarded' = due'
    BY Zenon DEF vars
  <2>1. ASSUME NEW outcome \in SaveOutcomes, RetransmissionDone(outcome)
        PROVE forwarded' = due'
    <3>1. stack = <<>> /\ TakeSnapshot /\ First > Len(Snapshot)
      BY <2>1, Zenon DEF RetransmissionDone, CanRetransmit, AtStep, AtLoop
    <3>2. /\ snapshot' \in Seq(Record) /\ next' \in Nat \ {0}
      BY <3>1, TakenSnapshot
    <3>3. PICK first \in 1 .. Len(snapshot') + 1 :
            /\ first <= next' /\ next' <= Len(snapshot') + 1
            /\ due' = SubSeq(snapshot', first, Len(snapshot'))
            /\ forwarded' = SubSeq(snapshot', first, next' - 1)
      BY <3>1, TakenSnapshot
    <3>4. next' > Len(snapshot')
      BY <3>1, Zenon DEF TakeSnapshot
    <3>5. next' - 1 = Len(snapshot')
      <4>1. PICK n \in Nat : n = next'
        BY <3>2
      <4>2. PICK l \in Nat : l = Len(snapshot')
        BY <3>2
      <4>3. n - 1 = l
        <5>1. n <= l + 1 /\ n > l
          BY <3>3, <3>4, <4>1, <4>2, Zenon
        <5> QED BY <5>1
      <4> QED BY <4>1, <4>2, <4>3, Zenon
    <3> QED BY <3>3, <3>5, Zenon
  <2>2. ASSUME NEW outcome \in SaveOutcomes, RetransmissionPacketSent(outcome)
        PROVE forwarded' = due'
    <3> DEFINE rs == Head(stack).records
    <3>1. /\ stack # <<>> /\ Head(stack).sent /\ Head(stack).from = "retransmission"
          /\ next' = next + Len(rs) /\ UNCHANGED <<due, forwarded>>
      BY <2>2, Zenon DEF RetransmissionPacketSent
    <3>2. next' > Len(snapshot)
      BY <2>2, Zenon DEF RetransmissionPacketSent
    <3>3. Outermost(stack) = Head(stack)
      <4>1. stack \in Seq(Call) /\ Nested(stack) /\ "retransmission" # "reply"
        BY DEF HistoryInv, CallInv
      <4> QED BY <3>1, <4>1, ReturnedCalls
    <3> HIDE DEF rs
    <3>4. Flying(stack, "retransmission")
      BY <3>1, <3>3, Zenon DEF Flying
    <3>5. /\ snapshot \in Seq(Record) /\ next \in Nat \ {0}
          /\ \E first \in 1 .. Len(snapshot) + 1 : PassFrom(first)
      BY <3>4, Zenon DEF HistoryInv, PassInv
    <3>6. PICK first \in 1 .. Len(snapshot) + 1 : PassFrom(first)
      BY <3>5
    <3>7. Reached(stack, "retransmission", next) = next + Len(rs)
      BY <3>1, <3>3, <3>4, Zenon DEF Reached, rs
    <3>8. /\ due = SubSeq(snapshot, first, Len(snapshot))
          /\ forwarded = SubSeq(snapshot, first, Reached(stack, "retransmission", next) - 1)
          /\ Carries(stack, "retransmission", snapshot, next)
      BY <3>6, Zenon DEF PassFrom
    <3>9. next \in 1 .. Len(snapshot) /\ rs = Packet(snapshot, next)
      BY <3>3, <3>4, <3>8, Zenon DEF Carries, rs
    <3>10. Len(rs) \in 1 .. Len(snapshot) - next + 1
      BY <3>5, <3>9, PacketFacts
    <3>11. PICK n \in Nat : n = next + Len(rs)
      BY <3>5, <3>10
    <3>12. n - 1 = Len(snapshot)
      <4>1. n > Len(snapshot)
        BY <3>1, <3>2, <3>11, Zenon
      <4> QED BY <3>5, <3>9, <3>10, <3>11, <4>1
    <3>13. forwarded = due
      BY <3>7, <3>8, <3>11, <3>12, Zenon
    <3> QED BY <3>1, <3>13, Zenon
  <2>3. CASE Restart
    BY <2>3, Zenon DEF Restart
  <2>4. ASSUME NEW outcome \in SaveOutcomes, ObserveLink(outcome) PROVE FALSE
    <3>1. CASE observed /\ wasConnected /\ ~connected /\ storage /\ retransmit /\ unix > 0
      <4>1. SaveMarker([pending |-> TRUE, lostAt |-> unix], outcome)
        BY <2>4, <3>1, Zenon DEF ObserveLink
      <4> QED BY <4>1, Zenon DEF SaveMarker
    <3>2. CASE ~(observed /\ wasConnected /\ ~connected /\ storage /\ retransmit /\ unix > 0)
      <4>1. marker' = marker
        BY <2>4, <3>2, Zenon DEF ObserveLink
      <4> QED BY <4>1, Zenon
    <3> QED BY <3>1, <3>2
  <2>5. ASSUME NEW enabled \in BOOLEAN, NEW outcome \in SaveOutcomes,
               ApplyHistoryStorage(enabled, outcome) \/ ApplyHistoryRetransmission(enabled, outcome)
        PROVE  FALSE
    <3>1. enabled /\ DropMarker(enabled, outcome)
      BY <2>5, Zenon DEF ApplyHistoryStorage, ApplyHistoryRetransmission
    <3> QED BY <3>1, Zenon DEF DropMarker
  <2>6. CASE UNCHANGED marker
    BY <2>6, Zenon
  <2> QED BY <2>1, <2>2, <2>3, <2>4, <2>5, <2>6, Zenon
          DEF Next, Uplink, Radio, Downlink, Tick, StoreSnapshot, SetClock, LinkLost, LinkJoined,
              RetransmitPacket, UploadPacket, NothingToUpload, SendSucceeds, SendFails,
              QueryPacketSent, ReplySent, StopQuery, RefuseRange, AcceptQuery, mark
<1> QED BY <1>1, SpecHistoryInv, PTL DEF Spec, RetransmissionExact
=============================================================================
