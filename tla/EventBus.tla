------------------------------ MODULE EventBus ------------------------------
(***************************************************************************)
(* The Core event bus, a ring of RingSize records (core/EventBus.h), and   *)
(* its MQTT consumer (services/MqttService.h): publishPendingEvents asks   *)
(* the bus for the record after its cursor and for the number of records   *)
(* overwritten meanwhile, publishes both in one message and moves its      *)
(* cursor only if the broker connection took the message.                  *)
(*                                                                         *)
(* One iteration of publishPendingEvents is one action: the loop may stop  *)
(* after any iteration, because any publish may fail.                      *)
(***************************************************************************)
EXTENDS Integers, Sequences

CONSTANTS
  Events,    \* what an event can say (source, type, severity, detail)
  RingSize,  \* size of the ring (32 in the code)
  NoRecord,  \* an entry that was never written
  Wrap,      \* modulus of sequence numbers (2^64)
  MaxEvents  \* bound on the number of events emitted

ASSUME CapacityAssumption == RingSize \in Nat \ {0}
ASSUME BoundAssumption == MaxEvents \in Nat /\ Wrap \in Nat /\ MaxEvents + 1 < Wrap

EventRecord == [sequence : 1 .. MaxEvents, event : Events]
Cells       == 0 .. RingSize - 1

ASSUME NoRecordAssumption == NoRecord \notin EventRecord

VARIABLES
  records,       \* records_
  count,         \* count_
  latest,        \* latestSequence_
  mqttConnected, \* the MQTT client has a broker connection
  eventCursor,   \* eventCursor_
  eventMissed,   \* eventMissed_
  message        \* the last event message handed to the broker, <<>> before

\* History variables: never read by an action.
VARIABLES
  log,           \* all events emitted
  publishes      \* number of event messages published

bus       == <<records, count, latest, log>>
consumer  == <<eventCursor, eventMissed, message, publishes>>
eventVars == <<records, count, latest, log, mqttConnected, eventCursor, eventMissed,
               message, publishes>>

-----------------------------------------------------------------------------
(* Reading the ring.                                                       *)

Cell(sequence) == (sequence - 1) % RingSize

OldestSequence == IF count = 0 THEN 0 ELSE latest - count + 1

\* Unsigned increment of a cursor.
Following(cursor) == (cursor + 1) % Wrap

MissedSince(cursor) ==
  IF count > 0 /\ Following(cursor) < OldestSequence
  THEN OldestSequence - Following(cursor) ELSE 0

Readable(sequence) ==
  /\ sequence # 0 /\ OldestSequence # 0
  /\ sequence >= OldestSequence /\ sequence <= latest
  /\ records[Cell(sequence)] # NoRecord
  /\ records[Cell(sequence)].sequence = sequence

Target_NoSkip(cursor) == Following(cursor)
Target(cursor) ==
  IF Following(cursor) < OldestSequence THEN OldestSequence ELSE Following(cursor)

HasNext(cursor) == count > 0 /\ Target(cursor) <= latest /\ Readable(Target(cursor))

\* Sequence numbers of the records GET /api/events?after=n returns.
WebItems_FromAfter(after) ==
  IF OldestSequence = 0 \/ after >= latest THEN {}
  ELSE {n \in after .. latest : Readable(n)}
WebItems(after) ==
  IF OldestSequence = 0 \/ after >= latest THEN {}
  ELSE {n \in after + 1 .. latest : Readable(n)}

-----------------------------------------------------------------------------
EventInit ==
  /\ records = [c \in Cells |-> NoRecord]
  /\ count = 0
  /\ latest = 0
  /\ mqttConnected = FALSE
  /\ eventCursor = 0
  /\ eventMissed = 0
  /\ message = <<>>
  /\ log = <<>>
  /\ publishes = 0

Filled == IF count < RingSize THEN count + 1 ELSE count

\* Any component emits an event.
Emit(event) ==
  /\ latest < MaxEvents
  /\ latest' = latest + 1
  /\ records' = [records EXCEPT ![Cell(latest + 1)] =
                   [sequence |-> latest + 1, event |-> event]]
  /\ count' = Filled
  /\ log' = Append(log, event)
  /\ UNCHANGED <<mqttConnected, consumer>>

\* The broker connection breaks, and is made again by connect().
Disconnect ==
  /\ mqttConnected
  /\ mqttConnected' = FALSE
  /\ UNCHANGED <<bus, consumer>>

Connect ==
  /\ ~mqttConnected
  /\ mqttConnected' = TRUE
  /\ UNCHANGED <<bus, consumer>>

\* One iteration of publishPendingEvents whose publish succeeds.
PublishEvent ==
  /\ mqttConnected
  /\ HasNext(eventCursor)
  /\ eventCursor' = Target(eventCursor)
  /\ eventMissed' = eventMissed + MissedSince(eventCursor)
  /\ message' = <<Target(eventCursor), records[Cell(Target(eventCursor))].event,
                  MissedSince(eventCursor)>>
  /\ publishes' = publishes + 1
  /\ UNCHANGED <<bus, mqttConnected>>

\* One iteration whose publish fails: the cursor stays.
PublishFails_MoveCursor ==
  /\ mqttConnected
  /\ HasNext(eventCursor)
  /\ eventCursor' = Target(eventCursor)
  /\ UNCHANGED <<bus, mqttConnected, eventMissed, message, publishes>>
PublishFails ==
  /\ mqttConnected
  /\ HasNext(eventCursor)
  /\ UNCHANGED eventVars

EventNext ==
  \/ \E event \in Events : Emit(event)
  \/ Disconnect
  \/ Connect
  \/ PublishEvent
  \/ PublishFails

EventSpec == EventInit /\ [][EventNext]_eventVars

(* MqttService::loop runs in every iteration of the main loop and connects *)
(* again every 5 seconds; neither connect() nor a publish fails for ever.  *)
FairEvents == EventSpec /\ SF_eventVars(PublishEvent) /\ WF_eventVars(Connect)

-----------------------------------------------------------------------------
(* Properties.                                                             *)

\* The state stays within the types the code declares.
EventTypeOK ==
  /\ records \in [Cells -> EventRecord \cup {NoRecord}]
  /\ count \in 0 .. RingSize
  /\ latest \in 0 .. MaxEvents
  /\ mqttConnected \in BOOLEAN
  /\ eventCursor \in 0 .. MaxEvents
  /\ eventMissed \in 0 .. MaxEvents
  /\ message = <<>> \/ message \in (1 .. MaxEvents) \X Events \X (0 .. MaxEvents)
  /\ log \in Seq(Events)
  /\ publishes \in 0 .. MaxEvents

\* Every event is accounted for once: the consumer's cursor is the number of
\* messages it published plus the losses it announced in missed_before.
NothingSilentlyLost == eventCursor = publishes + eventMissed

\* A web reader polling with any cursor gets exactly the retained events newer
\* than its cursor, and missed_before closes the gap before them.
WebReaderSeesTheRest ==
  \A after \in 0 .. latest :
    /\ WebItems(after) = after + MissedSince(after) + 1 .. latest
    /\ \A n \in WebItems(after) : records[Cell(n)].event = log[n]

\* The ring and its consumer implement the log of EventLog: overwriting the
\* ring never yields a wrong, repeated or reordered event, nor a wrong
\* missed_before.
Abstract == INSTANCE EventLog WITH cursor <- eventCursor, Capacity <- RingSize
ImplementsEventLog == Abstract!Spec

\* An event is published or announced as lost once the broker connection
\* works, however often it was interrupted.
EventsDrain == \A n \in 1 .. MaxEvents : (latest >= n) ~> (eventCursor >= n)
=============================================================================
