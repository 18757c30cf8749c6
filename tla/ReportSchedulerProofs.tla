------------------------ MODULE ReportSchedulerProofs ------------------------
(***************************************************************************)
(* Proofs about ReportScheduler, for every number of slots, every set of   *)
(* channels and readings, every record length and every clock modulus.     *)
(***************************************************************************)
EXTENDS ReportScheduler, TLAPS

(* What the scheduler's variables know of the running report: the cursor   *)
(* splits the slots into delivered ones and ones still to be sent, the     *)
(* pending packet covers the slots from the cursor to pendingNextCursor_,  *)
(* and reportSamples_ still holds the frozen readings it has not lost to a *)
(* clear.                                                                  *)
CursorShape ==
  /\ pending => reportInProgress
  /\ ~reportInProgress => cursor = 0
  /\ pending => \A s \in DOMAIN payload : cursor <= s /\ s < pendingNextCursor
  /\ pending => cursor <= pendingNextCursor
  /\ reportInProgress => \A s \in DOMAIN delivered : s < cursor

FrozenShape ==
  reportInProgress =>
    \A s \in Slots : /\ reportSamples[s] \in {NoSample, frozen[s]}
                     /\ s \notin cleared => reportSamples[s] = frozen[s]

Coverage ==
  /\ reportInProgress =>
       \A s \in Slots : (s < cursor /\ frozen[s] # NoSample /\ s \notin cleared)
                          => s \in DOMAIN delivered
  /\ pending =>
       \A s \in Slots : (cursor <= s /\ s < pendingNextCursor /\ frozen[s] # NoSample
                           /\ s \notin cleared)
                          => s \in DOMAIN payload

EpochShape ==
  /\ \A s \in DOMAIN completion : s \in Slots /\ Current(completion[s], s)
  /\ \A s \in Slots : samples[s] # NoSample => Current(samples[s], s)
  /\ reportInProgress =>
       \A s \in Slots : reportSamples[s] # NoSample => Current(reportSamples[s], s)

IInv ==
  /\ TypeOK
  /\ CursorShape
  /\ FrozenShape
  /\ Coverage
  /\ EpochShape
  /\ ReportIsSnapshot

-----------------------------------------------------------------------------
LEMMA LaterType == ASSUME NEW t \in Nat, NEW d \in Nat PROVE Later(t, d) \in Times
  BY ParameterAssumption DEF Later, Times

LEMMA InitIInv == Init => IInv
<1> SUFFICES ASSUME Init PROVE IInv
  OBVIOUS
<1> USE ParameterAssumption, RecordAssumption
<1>1. now \in Nat /\ interval \in Nat
  BY DEF Init, Times
<1>2. nextReportAt \in Times
  BY <1>1, LaterType DEF Init
<1>3. NoSamples \in Tables
  BY DEF NoSamples, Tables
<1>4. NoRecords \in Packets
  BY DEF NoRecords, Packets
<1>5. TypeOK
  <2>1. 0 \in Times /\ now \in Times
    BY DEF Init, Times
  <2>2. retryAt \in Times /\ sentAt \in Times
    BY <2>1 DEF Init
  <2>3. epoch \in [Slots -> Epochs]
    BY DEF Init, Epochs
  <2>4. age \in 0 .. Wrap
    BY DEF Init
  <2>5. cursor \in 0 .. NSlots /\ pendingNextCursor \in 0 .. NSlots
    BY DEF Init
  <2>6. QED BY <1>2, <1>3, <1>4, <2>1, <2>2, <2>3, <2>4, <2>5 DEF Init, TypeOK
<1>6. CursorShape /\ FrozenShape /\ Coverage /\ ReportIsSnapshot
  BY DEF Init, CursorShape, FrozenShape, Coverage, ReportIsSnapshot
<1>7. EpochShape
  BY DEF Init, EpochShape, NoSamples, NoRecords
<1>8. QED BY <1>5, <1>6, <1>7 DEF IInv

-----------------------------------------------------------------------------
(* Every step preserves the invariant.                                     *)

\* Steps that leave the report alone.
LEMMA Untouched ==
  ASSUME IInv, TypeOK',
         UNCHANGED <<completion, samples, reportSamples, cursor, pendingNextCursor,
                     reportInProgress, pending, payload, epoch, delivered,
                     frozen, cleared>>
  PROVE  IInv'
  BY DEF IInv, CursorShape, FrozenShape, Coverage, EpochShape, Current, ReportIsSnapshot

LEMMA ClockTypes ==
  ASSUME TypeOK PROVE Saturated(age) \in 0 .. Wrap
  BY ParameterAssumption DEF TypeOK, Saturated

LEMMA TickStep == IInv /\ Tick => IInv'
<1> SUFFICES ASSUME IInv, Tick PROVE IInv'
  OBVIOUS
<1>1. now' \in Times
  BY LaterType, ParameterAssumption DEF IInv, TypeOK, Times, Tick
<1>2. age' \in 0 .. Wrap
  BY ClockTypes DEF IInv, Tick
<1>3. TypeOK'
  BY <1>1, <1>2 DEF IInv, TypeOK, Tick, request, tables, report, packet, history
<1>4. QED BY <1>3, Untouched DEF Tick, tables, report, packet, history

LEMMA FinishPollStep ==
  ASSUME IInv, NEW s \in Slots, NEW ch \in Channels, NEW reading \in Readings,
         FinishPoll(s, ch, reading)
  PROVE  IInv'
<1> DEFINE new == [channel |-> ch, reading |-> reading, epoch |-> epoch[s], overtaken |-> 0]
<1>1. new \in Sample /\ new.epoch = epoch[s]
  BY ParameterAssumption DEF IInv, TypeOK, Sample, Epochs
<1>2. completion' = [r \in {s} |-> new]
  BY DEF FinishPoll
<1> HIDE DEF new
<1>3. completion' \in Packets
  BY <1>1, <1>2 DEF Packets
<1>4. TypeOK'
  BY <1>3 DEF IInv, TypeOK, FinishPoll, clock, tables, report, packet, request, history
<1>5. EpochShape'
  BY <1>1, <1>2 DEF IInv, EpochShape, Current, FinishPoll, tables, report
<1>6. CursorShape' /\ FrozenShape' /\ Coverage' /\ ReportIsSnapshot'
  BY DEF IInv, CursorShape, FrozenShape, Coverage, ReportIsSnapshot, FinishPoll,
         report, packet, history
<1>7. QED BY <1>4, <1>5, <1>6 DEF IInv

LEMMA CapturePollStep == IInv /\ CapturePoll => IInv'
<1> SUFFICES ASSUME IInv, CapturePoll PROVE IInv'
  OBVIOUS
<1>1. PICK P \in SUBSET Slots : completion \in [P -> Sample]
  BY DEF IInv, TypeOK, Packets
<1>2. samples' = [s \in Slots |-> IF s \in P THEN completion[s] ELSE samples[s]]
  BY <1>1 DEF CapturePoll
<1>3. samples' \in Tables
  BY <1>1, <1>2 DEF IInv, TypeOK, Tables
<1>4. completion' = NoRecords /\ NoRecords \in Packets /\ DOMAIN NoRecords = {}
  BY DEF CapturePoll, NoRecords, Packets
<1>5. TypeOK'
  BY <1>3, <1>4 DEF IInv, TypeOK, CapturePoll, clock, report, packet, request, history
<1>6. EpochShape'
  BY <1>1, <1>2, <1>4 DEF IInv, EpochShape, Current, CapturePoll, report
<1>7. CursorShape' /\ FrozenShape' /\ Coverage' /\ ReportIsSnapshot'
  BY DEF IInv, CursorShape, FrozenShape, Coverage, ReportIsSnapshot, CapturePoll,
         report, packet, history
<1>8. QED BY <1>5, <1>6, <1>7 DEF IInv

LEMMA RequestStep == IInv /\ RequestImmediateReport => IInv'
<1> SUFFICES ASSUME IInv, RequestImmediateReport PROVE IInv'
  OBVIOUS
<1>1. TypeOK'
  BY DEF IInv, TypeOK, RequestImmediateReport, Handled, clock, tables, report, packet, history
<1>2. QED BY <1>1, Untouched
          DEF RequestImmediateReport, tables, report, packet, history

LEMMA IntervalStep ==
  ASSUME IInv, NEW seconds \in Intervals, ApplyReportInterval(seconds) PROVE IInv'
<1>1. nextReportAt' \in Times
  BY LaterType, ParameterAssumption DEF IInv, TypeOK, Times, ApplyReportInterval
<1>2. TypeOK'
  BY <1>1, ParameterAssumption
     DEF IInv, TypeOK, ApplyReportInterval, Handled, tables, report, packet, request, history
<1>3. QED BY <1>2, Untouched DEF ApplyReportInterval, tables, report, packet, history

\* What clearSlot does to the tables, for both of its callers.
LEMMA ClearSlotsTypes ==
  ASSUME TypeOK, NEW S \in SUBSET Slots, \A s \in S : epoch[s] < MaxEpoch, ClearSlots(S)
  PROVE  /\ samples' \in Tables /\ reportSamples' \in Tables
         /\ epoch' \in [Slots -> Epochs]
         /\ cleared' \in SUBSET Slots
<1>1. samples' \in Tables /\ reportSamples' \in Tables
  BY DEF TypeOK, ClearSlots, Cleared, Tables
<1>2. \A s \in Slots : epoch[s] \in Epochs /\ (s \in S => epoch[s] + 1 \in Epochs)
  BY ParameterAssumption DEF TypeOK, Epochs
<1>3. epoch' \in [Slots -> Epochs]
  BY <1>2 DEF ClearSlots
<1>4. QED BY <1>1, <1>3 DEF TypeOK, ClearSlots

\* A poll that waits while its slot is cleared is overtaken by that clear.
LEMMA OvertakeType ==
  ASSUME TypeOK, NEW S \in SUBSET Slots, \A s \in S : epoch[s] < MaxEpoch, Overtake(S)
  PROVE  /\ completion' \in Packets /\ DOMAIN completion' = DOMAIN completion
         /\ DOMAIN completion \subseteq Slots
         /\ \A s \in DOMAIN completion \cap S : completion'[s].overtaken = epoch[s] + 1
         /\ \A s \in DOMAIN completion \ S : completion'[s] = completion[s]
<1>1. PICK P \in SUBSET Slots : completion \in [P -> Sample]
  BY DEF TypeOK, Packets
<1>2. \A s \in Slots : epoch[s] \in Epochs /\ (s \in S => epoch[s] + 1 \in Epochs)
  BY ParameterAssumption DEF TypeOK, Epochs
<1> DEFINE over(s) == [completion[s] EXCEPT !.overtaken = epoch[s] + 1]
<1>3. ASSUME NEW s \in P \cap S PROVE over(s) \in Sample /\ over(s).overtaken = epoch[s] + 1
  BY <1>1, <1>2 DEF Sample
<1> HIDE DEF over
<1>4. completion' = [s \in P |-> IF s \in S THEN over(s) ELSE completion[s]]
  BY <1>1 DEF Overtake, over
<1>5. completion' \in [P -> Sample]
  BY <1>1, <1>3, <1>4
<1> QED BY <1>1, <1>3, <1>4, <1>5 DEF Packets

LEMMA ClearSlotsEpochs ==
  ASSUME IInv, NEW S \in SUBSET Slots, ClearSlots(S), reportInProgress' => reportInProgress
  PROVE  /\ \A s \in Slots : samples'[s] # NoSample => Current(samples[s], s)'
         /\ reportInProgress' =>
              \A s \in Slots : reportSamples'[s] # NoSample => Current(reportSamples[s], s)'
  BY DEF IInv, EpochShape, ClearSlots, Cleared, Current

\* What waits after the clear is current again.
LEMMA OvertakenEpochs ==
  ASSUME IInv, NEW S \in SUBSET Slots, \A s \in S : epoch[s] < MaxEpoch,
         ClearSlots(S), Overtake(S)
  PROVE  \A s \in DOMAIN completion' : s \in Slots /\ Current(completion[s], s)'
<1>1. \A s \in Slots : epoch'[s] = IF s \in S THEN epoch[s] + 1 ELSE epoch[s]
  BY DEF ClearSlots
<1>2. SUFFICES ASSUME NEW s \in DOMAIN completion'
              PROVE  s \in Slots /\ Current(completion[s], s)'
  OBVIOUS
<1>3. s \in DOMAIN completion /\ s \in Slots
  BY OvertakeType DEF IInv
<1>4. CASE s \in S
  BY <1>1, <1>3, <1>4, OvertakeType DEF IInv, Current
<1>5. CASE s \notin S
  BY <1>1, <1>3, <1>5, OvertakeType DEF IInv, Current, EpochShape
<1> QED BY <1>3, <1>4, <1>5

LEMMA UpsertStep ==
  ASSUME IInv, NEW s \in Slots, UpsertModbusChannel(s) PROVE IInv'
<1>0. ClearSlots({s}) /\ Overtake({s}) /\ {s} \in SUBSET Slots /\ \A r \in {s} : epoch[r] < MaxEpoch
  BY DEF UpsertModbusChannel
<1>1. completion' \in Packets
  BY <1>0, OvertakeType DEF IInv
<1>2. TypeOK'
  BY <1>0, <1>1, ClearSlotsTypes
     DEF IInv, TypeOK, UpsertModbusChannel, Handled, clock, packet, request
<1>3. EpochShape'
  BY <1>0, ClearSlotsEpochs, OvertakenEpochs DEF UpsertModbusChannel, EpochShape
<1>4. CursorShape' /\ ReportIsSnapshot'
  BY DEF IInv, CursorShape, ReportIsSnapshot, UpsertModbusChannel, packet
<1>5. FrozenShape'
  BY <1>0 DEF IInv, FrozenShape, UpsertModbusChannel, ClearSlots, Cleared
<1>6. Coverage'
  BY <1>0 DEF IInv, Coverage, UpsertModbusChannel, ClearSlots, packet
<1>7. QED BY <1>2, <1>3, <1>4, <1>5, <1>6 DEF IInv

LEMMA RemoveStep ==
  ASSUME IInv, NEW s \in Slots, RemoveModbusChannel(s) PROVE IInv'
<1>0. ClearSlots({s}) /\ {s} \in SUBSET Slots /\ \A r \in {s} : epoch[r] < MaxEpoch
  BY DEF RemoveModbusChannel
<1>1. PICK P \in SUBSET Slots : completion \in [P -> Sample]
  BY DEF IInv, TypeOK, Packets
<1>2. completion' = [r \in P \ {s} |-> completion[r]]
  BY <1>1 DEF RemoveModbusChannel
<1>3. completion' \in Packets
  BY <1>1, <1>2 DEF Packets
<1>4. TypeOK'
  BY <1>0, <1>3, ClearSlotsTypes
     DEF IInv, TypeOK, RemoveModbusChannel, Handled, clock, packet, request
<1>5. \A r \in DOMAIN completion' : r \in Slots /\ Current(completion[r], r)'
  BY <1>0, <1>1, <1>2 DEF ClearSlots, IInv, EpochShape, Current
<1>6. EpochShape'
  BY <1>0, <1>5, ClearSlotsEpochs DEF RemoveModbusChannel, EpochShape
<1>7. CursorShape' /\ ReportIsSnapshot'
  BY DEF IInv, CursorShape, ReportIsSnapshot, RemoveModbusChannel, packet
<1>8. FrozenShape'
  BY <1>0 DEF IInv, FrozenShape, RemoveModbusChannel, ClearSlots, Cleared
<1>9. Coverage'
  BY <1>0 DEF IInv, Coverage, RemoveModbusChannel, ClearSlots, packet
<1>10. QED BY <1>4, <1>6, <1>7, <1>8, <1>9 DEF IInv

LEMMA TwoWayStep == IInv /\ EnterTwoWayPassThrough => IInv'
<1> SUFFICES ASSUME IInv, EnterTwoWayPassThrough PROVE IInv'
  OBVIOUS
<1>0. ClearSlots(Slots) /\ Overtake(Slots) /\ Slots \in SUBSET Slots
      /\ \A s \in Slots : epoch[s] < MaxEpoch
  BY DEF EnterTwoWayPassThrough
<1>1. TypeOK'
  <2>1. /\ samples' \in Tables /\ reportSamples' \in Tables
        /\ epoch' \in [Slots -> Epochs]
        /\ cleared' \in SUBSET Slots /\ completion' \in Packets
    BY <1>0, ClearSlotsTypes, OvertakeType DEF IInv
  <2>2. 0 \in 0 .. NSlots
    BY ParameterAssumption
  <2>3. QED
    BY <2>1, <2>2 DEF IInv, TypeOK, EnterTwoWayPassThrough, Handled, clock, packet, request
<1>2. EpochShape'
  BY <1>0, ClearSlotsEpochs, OvertakenEpochs DEF EnterTwoWayPassThrough, EpochShape
<1>3. CursorShape' /\ FrozenShape' /\ Coverage' /\ ReportIsSnapshot'
  BY DEF CursorShape, FrozenShape, Coverage, ReportIsSnapshot, EnterTwoWayPassThrough
<1>4. QED BY <1>1, <1>2, <1>3 DEF IInv

LEMMA ResendStep == IInv /\ ResendPacket => IInv'
<1> SUFFICES ASSUME IInv, ResendPacket PROVE IInv'
  OBVIOUS
<1>1. TypeOK'
  BY DEF IInv, TypeOK, ResendPacket, clock, tables, report, packet, request, history
<1>2. QED BY <1>1, Untouched DEF ResendPacket, tables, report, packet, history

\* The records taken from a table are samples of slots in the scanned range.
LEMMA RecordsType ==
  ASSUME NEW table \in Tables, NEW from \in 0 .. NSlots, NEW to \in 0 .. NSlots
  PROVE  /\ Records(table, from, to) \in Packets
         /\ \A s \in DOMAIN Records(table, from, to) :
              /\ s \in Slots /\ from <= s /\ s < to
              /\ Records(table, from, to)[s] = table[s]
              /\ table[s] # NoSample
         /\ \A s \in Slots : (from <= s /\ s < to /\ table[s] # NoSample)
              => s \in DOMAIN Records(table, from, to)
<1> DEFINE S == Occupied(table, from, to)
<1>1. /\ S \in SUBSET Slots
      /\ \A s \in S : from <= s /\ s < to /\ table[s] \in Sample /\ table[s] # NoSample
      /\ \A s \in Slots : (from <= s /\ s < to /\ table[s] # NoSample) => s \in S
  BY ParameterAssumption DEF Occupied, Slots, Tables
<1>2. Records(table, from, to) = [s \in S |-> table[s]]
  BY DEF Records
<1> HIDE DEF S
<1>3. [s \in S |-> table[s]] \in [S -> Sample]
  BY <1>1
<1>4. Records(table, from, to) \in Packets
  BY <1>1, <1>2, <1>3 DEF Packets
<1>5. QED BY <1>1, <1>2, <1>4

\* What StartReport establishes before a packet is filled.
LEMMA StartTypes ==
  ASSUME IInv, StartReport
  PROVE  /\ Table \in Tables /\ First \in 0 .. NSlots
         /\ immediate' \in BOOLEAN /\ asked' \in BOOLEAN
         /\ nextReportAt' \in Times /\ age' \in 0 .. Wrap
         /\ frozen' \in Tables /\ cleared' \in SUBSET Slots /\ delivered' \in Packets
<1>1. Table \in Tables /\ First \in 0 .. NSlots
  BY ParameterAssumption DEF IInv, TypeOK, Table, First
<1>2. Later(now, interval) \in Times
  <2>1. now \in Nat /\ interval \in Nat
    BY ParameterAssumption DEF IInv, TypeOK, Times
  <2>2. QED BY <2>1, LaterType
<1>3. NoRecords \in Packets
  BY DEF NoRecords, Packets
<1>4. CASE reportInProgress
  BY <1>1, <1>4 DEF IInv, TypeOK, StartReport, request, history
<1>5. CASE ~reportInProgress
  <2>1. nextReportAt' \in Times /\ age' \in 0 .. Wrap
    <3>1. 0 \in 0 .. Wrap
      BY ParameterAssumption
    <3>2. QED BY <1>2, <1>5, <3>1 DEF IInv, TypeOK, StartReport
  <2>2. immediate' \in BOOLEAN /\ asked' \in BOOLEAN
    BY <1>5 DEF StartReport
  <2>3. frozen' \in Tables /\ cleared' \in SUBSET Slots /\ delivered' \in Packets
    BY <1>3, <1>5 DEF IInv, TypeOK, StartReport
  <2>4. QED BY <1>1, <2>1, <2>2, <2>3
<1>6. QED BY <1>4, <1>5

\* At the start of a packet the table to scan agrees with the frozen readings,
\* nothing behind the cursor is missing, and its readings are current.
LEMMA StartShape ==
  ASSUME IInv, StartReport, ~pending
  PROVE  /\ \A s \in Slots : /\ Table[s] \in {NoSample, frozen'[s]}
                             /\ s \notin cleared' => Table[s] = frozen'[s]
                             /\ Table[s] # NoSample => Current(Table[s], s)
         /\ \A s \in DOMAIN delivered' : s < First /\ delivered'[s] = frozen'[s]
         /\ \A s \in Slots : (s < First /\ frozen'[s] # NoSample /\ s \notin cleared')
                               => s \in DOMAIN delivered'
<1>1. CASE reportInProgress
  BY <1>1 DEF IInv, StartReport, Table, First, history, CursorShape, FrozenShape,
              Coverage, EpochShape, ReportIsSnapshot
<1>2. CASE ~reportInProgress
  <2>1. Table = samples /\ First = 0 /\ frozen' = samples /\ cleared' = {}
        /\ delivered' = NoRecords
    BY <1>2 DEF Table, First, StartReport
  <2>2. DOMAIN NoRecords = {} /\ \A s \in Slots : ~(s < 0)
    BY DEF NoRecords, Slots
  <2>3. QED BY <2>1, <2>2 DEF IInv, EpochShape
<1>3. QED BY <1>1, <1>2

LEMMA BuildStep == IInv /\ BuildPacket => IInv'
<1> SUFFICES ASSUME IInv, BuildPacket PROVE IInv'
  OBVIOUS
<1>1. PICK to \in First .. NSlots :
        /\ payload' = Records(Table, First, to)
        /\ pendingNextCursor' = to
  BY DEF BuildPacket
<1>2. StartReport /\ ~pending /\ reportSamples' = Table /\ cursor' = First
      /\ pending' = TRUE /\ reportInProgress' = TRUE
      /\ samples' = samples /\ epoch' = epoch /\ completion' = completion
  BY DEF BuildPacket, tables
<1>3. Table \in Tables /\ First \in 0 .. NSlots /\ to \in 0 .. NSlots /\ First <= to
  BY <1>1, <1>2, StartTypes, ParameterAssumption
<1>4. TypeOK'
  <2>1. payload' \in Packets
    BY <1>1, <1>3, RecordsType
  <2>2. /\ immediate' \in BOOLEAN /\ asked' \in BOOLEAN
        /\ nextReportAt' \in Times /\ age' \in 0 .. Wrap
        /\ frozen' \in Tables /\ cleared' \in SUBSET Slots /\ delivered' \in Packets
    BY <1>2, StartTypes
  <2>3. /\ now' \in Times /\ retryAt' \in Times /\ sentAt' \in Times
        /\ interval' \in Intervals
        /\ phase' \in {"idle", "sending", "dispatching"}
    BY DEF IInv, TypeOK, BuildPacket
  <2>4. /\ samples' \in Tables /\ reportSamples' \in Tables
        /\ epoch' \in [Slots -> Epochs]
        /\ cursor' \in 0 .. NSlots /\ pendingNextCursor' \in 0 .. NSlots
        /\ pending' \in BOOLEAN /\ reportInProgress' \in BOOLEAN
        /\ completion' \in Packets
    BY <1>1, <1>2, <1>3 DEF IInv, TypeOK
  <2>5. QED BY <2>1, <2>2, <2>3, <2>4 DEF TypeOK
<1>5. /\ \A s \in DOMAIN payload' :
           s \in Slots /\ First <= s /\ s < to /\ payload'[s] = Table[s] /\ Table[s] # NoSample
      /\ \A s \in Slots : (First <= s /\ s < to /\ Table[s] # NoSample)
                            => s \in DOMAIN payload'
  BY <1>1, <1>3, RecordsType
<1>6. /\ \A s \in Slots : /\ Table[s] \in {NoSample, frozen'[s]}
                          /\ s \notin cleared' => Table[s] = frozen'[s]
                          /\ Table[s] # NoSample => Current(Table[s], s)
      /\ \A s \in DOMAIN delivered' : s < First /\ delivered'[s] = frozen'[s]
      /\ \A s \in Slots : (s < First /\ frozen'[s] # NoSample /\ s \notin cleared')
                            => s \in DOMAIN delivered'
  BY <1>2, StartShape
<1>7. CursorShape'
  BY <1>1, <1>2, <1>3, <1>5, <1>6 DEF CursorShape
<1>8. FrozenShape'
  BY <1>2, <1>6 DEF FrozenShape
<1>9. Coverage'
  BY <1>1, <1>2, <1>5, <1>6 DEF Coverage
<1>10. EpochShape'
  BY <1>2, <1>6 DEF IInv, EpochShape, Current
<1>11. ReportIsSnapshot'
  BY <1>5, <1>6 DEF ReportIsSnapshot
<1>12. QED BY <1>4, <1>7, <1>8, <1>9, <1>10, <1>11 DEF IInv

LEMMA EndStep == IInv /\ EndReport => IInv'
<1> SUFFICES ASSUME IInv, EndReport PROVE IInv'
  OBVIOUS
<1>1. StartReport /\ ~pending /\ ~pending' /\ ~reportInProgress' /\ cursor' = 0
      /\ reportSamples' = Table /\ samples' = samples /\ epoch' = epoch
      /\ completion' = completion
  BY DEF EndReport, tables
<1>2. TypeOK'
  <2>1. /\ Table \in Tables
        /\ immediate' \in BOOLEAN /\ asked' \in BOOLEAN
        /\ nextReportAt' \in Times /\ age' \in 0 .. Wrap
        /\ frozen' \in Tables /\ cleared' \in SUBSET Slots /\ delivered' \in Packets
    BY <1>1, StartTypes
  <2>2. 0 \in 0 .. NSlots
    BY ParameterAssumption
  <2>3. QED BY <1>1, <2>1, <2>2 DEF IInv, TypeOK, EndReport, tables, packet
<1>3. CursorShape' /\ FrozenShape' /\ Coverage' /\ ReportIsSnapshot'
  BY <1>1 DEF CursorShape, FrozenShape, Coverage, ReportIsSnapshot
<1>4. EpochShape'
  BY <1>1 DEF IInv, EpochShape, Current
<1>5. QED BY <1>2, <1>3, <1>4 DEF IInv

\* lora_.send confirmed the pending packet.
LEMMA WithPayloadType ==
  ASSUME TypeOK
  PROVE  /\ WithPayload \in Packets
         /\ DOMAIN WithPayload = DOMAIN delivered \cup DOMAIN payload
         /\ \A s \in DOMAIN payload : WithPayload[s] = payload[s]
         /\ \A s \in DOMAIN delivered \ DOMAIN payload : WithPayload[s] = delivered[s]
<1>1. PICK P \in SUBSET Slots, D \in SUBSET Slots :
        payload \in [P -> Sample] /\ delivered \in [D -> Sample]
  BY DEF TypeOK, Packets
<1>2. WithPayload \in [P \cup D -> Sample]
  BY <1>1 DEF WithPayload
<1>3. P \cup D \in SUBSET Slots
  OBVIOUS
<1>4. QED BY <1>1, <1>2, <1>3 DEF Packets, WithPayload

LEMMA SucceedStep == IInv /\ SendSucceeds => IInv'
<1> SUFFICES ASSUME IInv, SendSucceeds PROVE IInv'
  OBVIOUS
<1>0. /\ samples' = samples /\ epoch' = epoch /\ reportSamples' = reportSamples
      /\ completion' = completion /\ asked' = asked
      /\ frozen' = frozen /\ cleared' = cleared
      /\ payload' = payload /\ pendingNextCursor' = pendingNextCursor
  BY DEF SendSucceeds, tables, packet
<1>1. CASE ~pending
  <2>1. UNCHANGED <<pending, retryAt, cursor, reportInProgress, immediate, delivered>>
    BY <1>1 DEF SendSucceeds, MarkPacketSent
  <2>2. TypeOK'
    BY <1>0, <2>1 DEF IInv, TypeOK, SendSucceeds, clock
  <2>3. QED BY <1>0, <2>1, <2>2, Untouched
<1>2. CASE pending
  <2>1. /\ pending' = FALSE /\ retryAt' = sentAt
        /\ cursor' = IF pendingNextCursor >= NSlots THEN 0 ELSE pendingNextCursor
        /\ reportInProgress' = (pendingNextCursor < NSlots)
        /\ delivered' = WithPayload
    BY <1>2 DEF SendSucceeds, MarkPacketSent
  <2>2. delivered' \in Packets
    BY <2>1, WithPayloadType DEF IInv
  <2>3. cursor' \in 0 .. NSlots
    BY <2>1, ParameterAssumption DEF IInv, TypeOK
  <2>4. /\ pending' \in BOOLEAN /\ reportInProgress' \in BOOLEAN
        /\ immediate' \in BOOLEAN
    <3>1. (pendingNextCursor < NSlots) \in BOOLEAN
      OBVIOUS
    <3>2. pending' \in BOOLEAN /\ immediate' \in BOOLEAN
      BY <1>2, <2>1 DEF IInv, TypeOK, SendSucceeds, MarkPacketSent
    <3>3. reportInProgress' \in BOOLEAN
      BY <2>1, <3>1, Zenon
    <3>4. QED BY <3>2, <3>3
  <2>5. now' \in Times /\ nextReportAt' \in Times /\ retryAt' \in Times /\ sentAt' \in Times
    BY <2>1 DEF IInv, TypeOK, SendSucceeds, clock
  <2>6. /\ interval' \in Intervals /\ phase' \in {"idle", "sending", "dispatching"}
         /\ age' \in 0 .. Wrap
    BY DEF IInv, TypeOK, SendSucceeds, clock
  <2>7. TypeOK'
    BY <1>0, <2>2, <2>3, <2>4, <2>5, <2>6 DEF IInv, TypeOK
  <2>8. CASE pendingNextCursor >= NSlots
    <3>0. ~(pendingNextCursor < NSlots)
      BY <2>8, ParameterAssumption DEF IInv, TypeOK
    <3>1. ~reportInProgress' /\ cursor' = 0
      BY <2>1, <2>8, <3>0
    <3>2. CursorShape' /\ FrozenShape' /\ Coverage' /\ ReportIsSnapshot'
      BY <2>1, <3>1 DEF CursorShape, FrozenShape, Coverage, ReportIsSnapshot
    <3>3. EpochShape'
      BY <1>0, <3>1 DEF IInv, EpochShape, Current
    <3>4. QED BY <2>7, <3>2, <3>3 DEF IInv
  <2>9. CASE pendingNextCursor < NSlots
    <3>1. cursor' = pendingNextCursor /\ reportInProgress /\ cursor <= pendingNextCursor
      BY <1>2, <2>1, <2>9, ParameterAssumption DEF IInv, TypeOK, CursorShape
    <3>2. \A s \in DOMAIN delivered' : s < cursor' /\ delivered'[s] = frozen[s]
      <4> SUFFICES ASSUME NEW s \in DOMAIN delivered'
                   PROVE  s < cursor' /\ delivered'[s] = frozen[s]
        OBVIOUS
      <4>0. s \in Int
        BY <2>2 DEF Packets, Slots
      <4>1. CASE s \in DOMAIN payload
        BY <1>2, <2>1, <3>1, <4>1, WithPayloadType DEF IInv, CursorShape, ReportIsSnapshot
      <4>2. CASE s \in DOMAIN delivered \ DOMAIN payload
        <5>1. s < cursor /\ delivered'[s] = frozen[s]
          BY <2>1, <3>1, <4>2, WithPayloadType DEF IInv, CursorShape, ReportIsSnapshot
        <5>2. QED BY <3>1, <4>0, <5>1 DEF IInv, TypeOK
      <4>3. QED BY <2>1, <4>1, <4>2, WithPayloadType DEF IInv
    <3>3. \A s \in Slots : (s < cursor' /\ frozen[s] # NoSample /\ s \notin cleared)
                             => s \in DOMAIN delivered'
      <4> SUFFICES ASSUME NEW s \in Slots, s < cursor', frozen[s] # NoSample, s \notin cleared
                   PROVE  s \in DOMAIN delivered'
        OBVIOUS
      <4>1. CASE s < cursor
        BY <2>1, <3>1, <4>1, WithPayloadType DEF IInv, Coverage
      <4>2. CASE cursor <= s
        BY <1>2, <2>1, <3>1, <4>2, WithPayloadType DEF IInv, Coverage
      <4>3. QED BY <4>1, <4>2 DEF IInv, TypeOK, Slots
    <3>4. CursorShape' /\ Coverage' /\ ReportIsSnapshot'
      BY <1>0, <2>1, <2>9, <3>2, <3>3 DEF CursorShape, Coverage, ReportIsSnapshot
    <3>5. FrozenShape' /\ EpochShape'
      BY <1>0, <3>1 DEF IInv, FrozenShape, EpochShape, Current
    <3>6. QED BY <2>7, <3>4, <3>5 DEF IInv
  <2>10. QED BY <2>8, <2>9, ParameterAssumption DEF IInv, TypeOK
<1>3. QED BY <1>1, <1>2

LEMMA FailStep == IInv /\ SendFails => IInv'
<1> SUFFICES ASSUME IInv, SendFails PROVE IInv'
  OBVIOUS
<1>1. retryAt' \in Times
  <2>1. sentAt \in Nat
    BY ParameterAssumption DEF IInv, TypeOK, Times
  <2>2. QED BY <2>1, LaterType, ParameterAssumption DEF SendFails
<1>2. TypeOK'
  BY <1>1 DEF IInv, TypeOK, SendFails, clock, tables, report, packet, request, history
<1>3. QED BY <1>2, Untouched DEF SendFails, clock, tables, report, packet, history

LEMMA NextIInv == IInv /\ [Next]_vars => IInv'
<1> SUFFICES ASSUME IInv, [Next]_vars PROVE IInv'
  OBVIOUS
<1>1. CASE Tick
  BY <1>1, TickStep
<1>2. ASSUME NEW s \in Slots, NEW ch \in Channels, NEW reading \in Readings,
             FinishPoll(s, ch, reading)
      PROVE  IInv'
  BY <1>2, FinishPollStep
<1>3. CASE Downlink
  BY <1>3, RequestStep, IntervalStep, UpsertStep, RemoveStep, TwoWayStep DEF Downlink
<1>4. CASE ReportStep
  BY <1>4, ResendStep, BuildStep, EndStep DEF ReportStep
<1>5. CASE SendSucceeds
  BY <1>5, SucceedStep
<1>6. CASE SendFails
  BY <1>6, FailStep
<1>7. CASE UNCHANGED vars
  BY <1>7 DEF vars, IInv, TypeOK, CursorShape, FrozenShape, Coverage, EpochShape, Current,
              ReportIsSnapshot
<1>8. CASE CapturePoll
  BY <1>8, CapturePollStep
<1>9. QED BY <1>1, <1>2, <1>3, <1>4, <1>5, <1>6, <1>7, <1>8 DEF Next

-----------------------------------------------------------------------------
(* Results.                                                                *)

LEMMA Invariance == Spec => []IInv
  BY InitIInv, NextIInv, PTL DEF Spec

\* The scheduler's fields keep their types, for every instance.
THEOREM TypeCorrect == Spec => []TypeOK
<1>1. IInv => TypeOK
  BY DEF IInv
<1>2. QED BY <1>1, Invariance, PTL

\* Every record of a report is the reading frozen at its start, whatever polls
\* and downlinks come between its packets.
THEOREM Snapshot == Spec => []ReportIsSnapshot
<1>1. IInv => ReportIsSnapshot
  BY DEF IInv
<1>2. QED BY <1>1, Invariance, PTL

\* No slot of a running report is lost or sent twice, through retries, nested
\* downlinks and fragmentation at any record length.
THEOREM Accounting == Spec => []NothingLostOrRepeated
<1>1. IInv => NothingLostOrRepeated
  <2> SUFFICES ASSUME IInv, reportInProgress, NEW s \in Slots, frozen[s] # NoSample
      PROVE  LET sent    == s \in DOMAIN delivered
                 waiting == pending /\ s \in DOMAIN payload
                 ahead   == /\ reportSamples[s] = frozen[s]
                            /\ s >= (IF pending THEN pendingNextCursor ELSE cursor)
             IN  /\ s \notin cleared => sent \/ waiting \/ ahead
                 /\ ~(sent /\ waiting) /\ ~(sent /\ ahead) /\ ~(waiting /\ ahead)
    BY DEF NothingLostOrRepeated
  <2>0. s \in Int /\ cursor \in Int /\ pendingNextCursor \in Int
    BY DEF IInv, TypeOK, Slots
  <2>1. CASE pending
    BY <2>0, <2>1 DEF IInv, CursorShape, FrozenShape, Coverage
  <2>2. CASE ~pending
    BY <2>0, <2>2 DEF IInv, CursorShape, FrozenShape, Coverage
  <2>3. QED BY <2>1, <2>2
<1>2. QED BY <1>1, Invariance, PTL

\* A packet built after a slot was reconfigured or removed holds no reading of the slot
\* taken before, but for a poll that waited for its capture at that moment and that an
\* Upsert or the two-way mode left waiting.
THEOREM NoStaleReading == Spec => NoPacketFromClearedReading
<1>1. IInv /\ [Next]_vars => [(~pending /\ pending') =>
         \A s \in DOMAIN payload' : Current(payload'[s], s)]_vars
  <2> SUFFICES ASSUME IInv, Next, ~pending, pending'
               PROVE  \A s \in DOMAIN payload' : Current(payload'[s], s)
    OBVIOUS
  <2>1. BuildPacket
    BY DEF Next, Tick, FinishPoll, CapturePoll, Downlink, RequestImmediateReport,
           ApplyReportInterval, UpsertModbusChannel, RemoveModbusChannel,
           EnterTwoWayPassThrough, ReportStep, ResendPacket, EndReport, SendSucceeds,
           MarkPacketSent, SendFails, report
  <2>2. PICK to \in First .. NSlots : payload' = Records(Table, First, to)
    BY <2>1 DEF BuildPacket
  <2>3. Table \in Tables /\ First \in 0 .. NSlots /\ to \in 0 .. NSlots
    BY <2>1, <2>2, StartTypes, ParameterAssumption DEF BuildPacket
  <2>4. \A s \in Slots : Table[s] # NoSample => Current(Table[s], s)
    BY <2>1, StartShape DEF BuildPacket
  <2>5. QED BY <2>2, <2>3, <2>4, RecordsType
<1>2. QED BY <1>1, Invariance, PTL DEF Spec, NoPacketFromClearedReading

\* An enquiry stays requested until a report starts, through confirmed and failed packets,
\* aborted reports and every reconfiguration (immediateReportRequested_).
THEOREM RequestStands == Spec => []EnquiryKept
<1>1. Init => EnquiryKept
  BY DEF Init, EnquiryKept
<1>2. EnquiryKept /\ [Next]_vars => EnquiryKept'
  <2> SUFFICES ASSUME EnquiryKept, [Next]_vars PROVE EnquiryKept'
    OBVIOUS
  <2>1. CASE UNCHANGED <<immediate, asked>>
    BY <2>1 DEF EnquiryKept
  <2>2. CASE RequestImmediateReport
    BY <2>2 DEF RequestImmediateReport, EnquiryKept
  <2>3. CASE BuildPacket \/ EndReport
    BY <2>1, <2>3 DEF BuildPacket, EndReport, StartReport, request, EnquiryKept
  <2>4. CASE SendSucceeds
    BY <2>1, <2>4 DEF SendSucceeds, MarkPacketSent
  <2>5. CASE \/ Tick \/ CapturePoll \/ ResendPacket \/ SendFails \/ EnterTwoWayPassThrough
             \/ (\E s \in Slots, ch \in Channels, reading \in Readings : FinishPoll(s, ch, reading))
             \/ (\E s \in Slots : UpsertModbusChannel(s) \/ RemoveModbusChannel(s))
             \/ (\E seconds \in Intervals : ApplyReportInterval(seconds)) \/ UNCHANGED vars
    BY <2>1, <2>5 DEF Tick, CapturePoll, ResendPacket, SendFails, EnterTwoWayPassThrough,
       FinishPoll, UpsertModbusChannel, RemoveModbusChannel, ApplyReportInterval, request, vars
  <2> QED BY <2>2, <2>3, <2>4, <2>5 DEF Next, Downlink, ReportStep
<1> QED BY <1>1, <1>2, PTL DEF Spec

-----------------------------------------------------------------------------
(* The end of a report.                                                    *)

\* A packet of no record is empty, and one of a single record as long as it.
LEMMA LengthOfNone ==
  ASSUME NEW table, NEW from, NEW to, Occupied(table, from, to) = {}
  PROVE  PacketLength(table, from, to) = 0
<1> DEFINE S == Occupied(table, from, to)
<1>1. S = {} /\ S \in SUBSET S
  OBVIOUS
<1> HIDE DEF S
<1> QED BY <1>1 DEF PacketLength, MapThenSumSet, MapThenFoldSet, S

LEMMA LengthOfOne ==
  ASSUME NEW table, NEW from, NEW to, NEW a, Occupied(table, from, to) = {a},
         EncodedLength(table[a]) \in Nat
  PROVE  PacketLength(table, from, to) = EncodedLength(table[a])
<1> DEFINE S == Occupied(table, from, to)
           n == EncodedLength(table[a])
           step(it, s) == IF s = {} THEN 0
                          ELSE EncodedLength(table[CHOOSE x \in s : TRUE])
                                 + it[s \ {CHOOSE x \in s : TRUE}]
           sums == [s \in SUBSET S |-> IF s = {} THEN 0 ELSE n]
           iter == CHOOSE it : it = [s \in SUBSET S |-> step(it, s)]
<1>1. PacketLength(table, from, to) = iter[S]
  BY DEF PacketLength, MapThenSumSet, MapThenFoldSet
<1>2. S = {a}
  OBVIOUS
<1> HIDE DEF S
<1>3. SUBSET S = {{}, S} /\ S # {} /\ S \ {a} = {} /\ (CHOOSE x \in S : TRUE) = a
  BY <1>2
\* the recursion has a solution, so the one that is chosen obeys it
<1>4. step(sums, {}) = 0 /\ step(sums, S) = n + sums[{}]
  BY <1>3
<1>5. sums[{}] = 0 /\ sums[S] = n
  BY <1>3
<1>6. n \in Nat /\ n + 0 = n
  OBVIOUS
<1>7. sums = [s \in SUBSET S |-> step(sums, s)]
  <2>1. \A s \in SUBSET S : step(sums, s) = IF s = {} THEN 0 ELSE n
    <3> HIDE DEF step, n, sums
    <3> QED BY <1>3, <1>4, <1>5, <1>6
  <2> HIDE DEF step, n
  <2> QED BY <2>1
<1> HIDE DEF sums, n
<1>8. iter = [s \in SUBSET S |-> step(iter, s)]
  BY <1>7, Zenon
<1> HIDE DEF iter
<1>9. iter[{}] = step(iter, {}) /\ iter[S] = step(iter, S)
  <2> HIDE DEF step
  <2> QED BY <1>3, <1>8
<1>10. step(iter, {}) = 0 /\ step(iter, S) = n + iter[{}]
  BY <1>3 DEF n
<1> QED BY <1>1, <1>6, <1>9, <1>10 DEF n

\* Every record fits into an empty packet (the encoder refuses those of length 0).
LEMMA RecordFits ==
  ASSUME NEW sample \in Sample
  PROVE  EncodedLength(sample) \in Nat /\ EncodedLength(sample) <= PayloadLimit
  BY RecordAssumption, ParameterAssumption DEF EncodedLength, Sample

\* A scan that stops without a record has come to the last slot.
LEMMA EmptyScan ==
  ASSUME NEW table \in Tables, NEW from \in 0 .. NSlots, NEW to \in from .. NSlots,
         StopsAt(table, from, to), Occupied(table, from, to) = {}
  PROVE  to = NSlots
<1> SUFFICES ASSUME to < NSlots PROVE FALSE
  BY ParameterAssumption
<1>1. from \in Int /\ to \in Int /\ NSlots \in Int /\ to \in Slots /\ PayloadLimit \in Nat
  BY ParameterAssumption DEF Slots
<1>2. PacketLength(table, from, to + 1) > PayloadLimit
  BY DEF StopsAt
<1>3. \A s \in from .. (to + 1) - 1 : s \in from .. to - 1 \/ s = to
  BY <1>1
<1>4. Occupied(table, from, to + 1) \subseteq {to}
  BY <1>3 DEF Occupied
<1>5. CASE Occupied(table, from, to + 1) = {}
  BY <1>1, <1>2, <1>5, LengthOfNone
<1>6. CASE Occupied(table, from, to + 1) = {to}
  <2>1. table[to] # NoSample
    BY <1>6 DEF Occupied
  <2>2. table[to] \in Sample
    BY <1>1, <2>1 DEF Tables
  <2>3. EncodedLength(table[to]) \in Nat /\ EncodedLength(table[to]) <= PayloadLimit
    BY <2>2, RecordFits
  <2>4. PacketLength(table, from, to + 1) = EncodedLength(table[to])
    BY <1>6, <2>3, LengthOfOne
  <2> QED BY <1>1, <1>2, <2>3, <2>4
<1> QED BY <1>4, <1>5, <1>6

\* A report loses the frozen reading of a slot that is cleared while it runs.
ClearedShape == reportInProgress => \A s \in cleared : reportSamples[s] = NoSample

LEMMA ClearedStep == IInv /\ ClearedShape /\ [Next]_vars => ClearedShape'
<1> SUFFICES ASSUME IInv, ClearedShape, [Next]_vars PROVE ClearedShape'
  OBVIOUS
<1>1. CASE UNCHANGED <<reportSamples, cleared, reportInProgress>>
  BY <1>1 DEF ClearedShape
<1>2. CASE \/ Tick \/ RequestImmediateReport \/ ResendPacket \/ SendFails
           \/ (\E s \in Slots, ch \in Channels, reading \in Readings : FinishPoll(s, ch, reading))
           \/ CapturePoll \/ (\E seconds \in Intervals : ApplyReportInterval(seconds))
           \/ UNCHANGED vars
  BY <1>1, <1>2 DEF Tick, RequestImmediateReport, ResendPacket, SendFails, FinishPoll,
     CapturePoll, ApplyReportInterval, vars, report, history
<1>3. ASSUME NEW s \in Slots, UpsertModbusChannel(s) \/ RemoveModbusChannel(s)
      PROVE  ClearedShape'
  BY <1>3 DEF UpsertModbusChannel, RemoveModbusChannel, ClearSlots, Cleared, ClearedShape, IInv, TypeOK
<1>4. CASE EnterTwoWayPassThrough
  BY <1>4 DEF EnterTwoWayPassThrough, ClearedShape
<1>5. CASE BuildPacket
  BY <1>5 DEF BuildPacket, StartReport, Table, history, ClearedShape
<1>6. CASE EndReport
  BY <1>6 DEF EndReport, ClearedShape
<1>7. CASE SendSucceeds
  BY <1>7 DEF SendSucceeds, MarkPacketSent, ClearedShape, IInv, CursorShape
<1> QED BY <1>2, <1>3, <1>4, <1>5, <1>6, <1>7 DEF Next, Downlink, ReportStep

\* What a report has to show when it ends.
Complete ==
  \/ \A s \in Slots : (frozen[s] # NoSample /\ s \notin cleared') => s \in DOMAIN delivered'
  \/ \E s \in Slots \ cleared' : frozen[s] # NoSample /\ EncodedLength(frozen[s]) = 0

\* The last packet of a report is confirmed.
LEMMA SentComplete ==
  ASSUME IInv, SendSucceeds, reportInProgress, ~reportInProgress' PROVE Complete
<1>1. pending /\ ~(pendingNextCursor < NSlots) /\ delivered' = WithPayload /\ cleared' = cleared
  BY DEF SendSucceeds, MarkPacketSent
<1>2. DOMAIN delivered' = DOMAIN delivered \cup DOMAIN payload
  BY <1>1, WithPayloadType DEF IInv
<1> SUFFICES ASSUME NEW s \in Slots, frozen[s] # NoSample, s \notin cleared
             PROVE  s \in DOMAIN delivered \cup DOMAIN payload
  BY <1>1, <1>2 DEF Complete
<1>3. /\ s \in Int /\ s < NSlots /\ NSlots \in Int /\ cursor \in Int /\ pendingNextCursor \in Int
  BY ParameterAssumption DEF Slots, IInv, TypeOK
<1>4. s < pendingNextCursor
  BY <1>1, <1>3
<1>5. CASE s < cursor
  BY <1>5 DEF IInv, Coverage
<1>6. CASE cursor <= s
  BY <1>1, <1>4, <1>6 DEF IInv, Coverage
<1> QED BY <1>3, <1>5, <1>6

\* A scan finds nothing more, or a record the encoder refuses.
LEMMA EndComplete ==
  ASSUME IInv, ClearedShape, EndReport, reportInProgress PROVE Complete
<1>1. PICK to \in cursor .. NSlots :
        /\ StopsAt(reportSamples, cursor, to)
        /\ ~Encodable(reportSamples, cursor, to) \/ Occupied(reportSamples, cursor, to) = {}
  BY DEF EndReport, Table, First
<1>2. delivered' = delivered /\ cleared' = cleared
  BY DEF EndReport, StartReport, history
<1>3. reportSamples \in Tables /\ cursor \in 0 .. NSlots
  BY DEF IInv, TypeOK
<1>4. CASE Occupied(reportSamples, cursor, to) = {}
  <2>1. to = NSlots
    BY <1>1, <1>3, <1>4, EmptyScan
  <2> SUFFICES ASSUME NEW s \in Slots, frozen[s] # NoSample, s \notin cleared
               PROVE  s \in DOMAIN delivered
    BY <1>2 DEF Complete
  <2>2. reportSamples[s] # NoSample
    BY DEF IInv, FrozenShape
  <2>3. s \notin cursor .. NSlots - 1
    BY <1>4, <2>1, <2>2 DEF Occupied
  <2>4. s < cursor
    BY <1>3, <2>3, ParameterAssumption DEF Slots
  <2> QED BY <2>4 DEF IInv, Coverage
<1>5. CASE ~Encodable(reportSamples, cursor, to)
  <2>1. PICK s \in cursor .. to - 1 :
          reportSamples[s] # NoSample /\ ~(EncodedLength(reportSamples[s]) > 0)
    BY <1>5 DEF Encodable, Occupied
  <2>2. s \in Slots
    BY <1>1, <1>3, ParameterAssumption DEF Slots
  <2>3. reportSamples[s] = frozen[s] /\ s \notin cleared
    BY <2>1, <2>2 DEF IInv, FrozenShape, ClearedShape
  <2>4. reportSamples[s] \in Sample
    BY <1>3, <2>1, <2>2 DEF Tables
  <2>5. EncodedLength(reportSamples[s]) = 0
    BY <2>1, <2>4, RecordFits
  <2> QED BY <1>2, <2>1, <2>2, <2>3, <2>5 DEF Complete
<1> QED BY <1>1, <1>4, <1>5

\* A report that ends by itself has delivered every slot it froze and that was not cleared
\* meanwhile; only a record the encoder refuses cuts it short (preparePacket,
\* markPacketSent, abortReport).
THEOREM EndsComplete == Spec => ReportsEndComplete
<1>1. Init => ClearedShape
  BY DEF Init, ClearedShape
<1>2. IInv /\ ClearedShape /\ [Next]_vars =>
        [(reportInProgress /\ ~reportInProgress') =>
           \/ \A s \in Slots : (frozen[s] # NoSample /\ s \notin cleared')
                                 => s \in DOMAIN delivered'
           \/ \E s \in Slots \ cleared' :
                frozen[s] # NoSample /\ EncodedLength(frozen[s]) = 0]_vars
  <2> SUFFICES ASSUME IInv, ClearedShape, Next, reportInProgress, ~reportInProgress'
               PROVE  Complete
    BY DEF Complete
  <2>1. SendSucceeds \/ EndReport \/ EnterTwoWayPassThrough
    BY DEF Next, Tick, FinishPoll, CapturePoll, Downlink, RequestImmediateReport,
           ApplyReportInterval, UpsertModbusChannel, RemoveModbusChannel, ReportStep,
           ResendPacket, BuildPacket, SendFails, report
  <2>2. CASE EnterTwoWayPassThrough
    <3>1. Slots \subseteq cleared'
      BY <2>2 DEF EnterTwoWayPassThrough, ClearSlots
    <3> QED BY <3>1 DEF Complete
  <2> QED BY <2>1, <2>2, SentComplete, EndComplete
<1> QED BY <1>1, <1>2, ClearedStep, Invariance, PTL DEF Spec, ReportsEndComplete

-----------------------------------------------------------------------------
(* The period.                                                             *)

\* Reduction to the width of the clock, as an operator the proofs need not expand.
Reduced(n) == n % Wrap

LEMMA Reduction ==
  /\ \A n \in Int : Reduced(n) \in Times /\ \E q \in Int : n = Wrap * q + Reduced(n)
  /\ \A n \in Int : n >= 0 /\ n < Wrap => Reduced(n) = n
<1>1. Wrap \in Nat \ {0}
  BY ParameterAssumption
<1>2. ASSUME NEW n \in Int
      PROVE  /\ Reduced(n) \in Times /\ \E q \in Int : n = Wrap * q + Reduced(n)
             /\ n >= 0 /\ n < Wrap => Reduced(n) = n
  <2> DEFINE q == n \div Wrap
             r == n % Wrap
  <2>1. n = Wrap * q + r /\ q \in Int /\ r \in 0 .. Wrap - 1
    BY <1>1, Z3
  <2> HIDE DEF q, r
  <2>2. n >= 0 /\ n < Wrap => q = 0
    BY <1>1, <2>1, Z3
  <2>3. n >= 0 /\ n < Wrap => r = n
    <3>1. Wrap * 0 = 0
      BY <1>1
    <3> QED BY <2>1, <2>2, <3>1
  <2> QED BY <2>1, <2>3 DEF r, Reduced, Times
<1> QED BY <1>2

\* Numbers a multiple of the width apart reduce alike.
LEMMA ReducedAlike ==
  ASSUME NEW a \in Int, NEW b \in Int, NEW k \in Int, a = b + Wrap * k
  PROVE  Reduced(a) = Reduced(b)
<1>1. Wrap \in Nat \ {0}
  BY ParameterAssumption
<1>2. PICK p \in Int : a = Wrap * p + Reduced(a)
  BY Reduction
<1>3. PICK q \in Int : b = Wrap * q + Reduced(b)
  BY Reduction
<1> DEFINE ra == Reduced(a)
           rb == Reduced(b)
           d == q + k - p
<1>4. ra \in 0 .. Wrap - 1 /\ rb \in 0 .. Wrap - 1
  BY Reduction DEF Times
<1> HIDE DEF ra, rb
<1>5. a = Wrap * p + ra /\ b = Wrap * q + rb
  BY <1>2, <1>3 DEF ra, rb
<1>6. ra - rb = Wrap * d /\ d \in Int
  BY <1>1, <1>4, <1>5, Z3
<1> HIDE DEF d
<1>7. ra - rb < Wrap /\ ra - rb > -Wrap
  BY <1>1, <1>4
<1>8. d = 0
  BY <1>1, <1>4, <1>6, <1>7, Z3
<1>9. ra = rb
  BY <1>1, <1>4, <1>6, <1>8, Z3
<1> QED BY <1>9 DEF ra, rb

\* A reduced number may stand for the number in a difference.
LEMMA ReducedDifference ==
  ASSUME NEW a \in Int, NEW b \in Int
  PROVE  Reduced(Reduced(a) - b) = Reduced(a - b) /\ Reduced(b - Reduced(a)) = Reduced(b - a)
<1> DEFINE ra == Reduced(a)
<1>1. PICK q \in Int : a = Wrap * q + ra
  BY Reduction
<1>2. ra \in Int /\ Wrap \in Int /\ ra - b \in Int /\ a - b \in Int /\ b - ra \in Int /\ b - a \in Int
      /\ -q \in Int
  BY Reduction, ParameterAssumption DEF Times
<1> HIDE DEF ra
<1>3. ra - b = (a - b) + Wrap * (-q) /\ b - ra = (b - a) + Wrap * q
  BY <1>1, <1>2, Z3
<1>4. Reduced(ra - b) = Reduced(a - b)
  BY <1>2, <1>3, ReducedAlike
<1>5. Reduced(b - ra) = Reduced(b - a)
  BY <1>2, <1>3, ReducedAlike
<1> QED BY <1>4, <1>5 DEF ra

LEMMA ReducedNext ==
  ASSUME NEW a \in Int, NEW b \in Int, Reduced(a) = Reduced(b)
  PROVE  Reduced(a + 1) = Reduced(b + 1)
<1>1. PICK p \in Int : a = Wrap * p + Reduced(a)
  BY Reduction
<1>2. PICK q \in Int : b = Wrap * q + Reduced(b)
  BY Reduction
<1> DEFINE r == Reduced(a)
<1>3. a = Wrap * p + r /\ b = Wrap * q + r /\ r \in Int /\ Wrap \in Int
  BY <1>1, <1>2, Reduction, ParameterAssumption DEF Times
<1> HIDE DEF r
<1>4. a + 1 = (b + 1) + Wrap * (p - q) /\ a + 1 \in Int /\ b + 1 \in Int /\ p - q \in Int
  BY <1>3, Z3
<1> QED BY <1>4, ReducedAlike

\* The clock is as far from the deadline as the age of the deadline says.
ClockShape == age < Wrap => Reduced(now - nextReportAt) = Reduced(age - interval)

LEMMA ClockNumbers ==
  ASSUME TypeOK
  PROVE  /\ now \in Int /\ nextReportAt \in Int /\ interval \in Int /\ age \in Int
         /\ interval \in Nat /\ now \in Nat /\ Wrap \in Nat \ {0} /\ age >= 0 /\ age <= Wrap
  BY ParameterAssumption DEF TypeOK, Times

\* A new deadline.
LEMMA NewDeadline ==
  ASSUME TypeOK, NEW seconds \in Intervals
  PROVE  Reduced(now - Later(now, seconds)) = Reduced(0 - seconds)
<1>1. now \in Int /\ seconds \in Int /\ now + seconds \in Int
  BY ClockNumbers, ParameterAssumption
<1>2. Later(now, seconds) = Reduced(now + seconds)
  BY DEF Later, Reduced
<1>3. Reduced(now - Reduced(now + seconds)) = Reduced(now - (now + seconds))
  BY <1>1, ReducedDifference
<1>4. now - (now + seconds) = 0 - seconds
  BY <1>1
<1> QED BY <1>2, <1>3, <1>4

LEMMA ClockStep == IInv /\ ClockShape /\ [Next]_vars => ClockShape'
<1> SUFFICES ASSUME IInv, ClockShape, [Next]_vars PROVE ClockShape'
  OBVIOUS
<1>1. TypeOK
  BY DEF IInv
<1>2. CASE UNCHANGED <<now, nextReportAt, age, interval>>
  BY <1>2 DEF ClockShape
<1>3. CASE Tick
  <2> DEFINE a == now - nextReportAt
             b == age - interval
  <2>1. now' = Reduced(now + 1) /\ nextReportAt' = nextReportAt /\ interval' = interval
    BY <1>3 DEF Tick, Later, Reduced
  <2>2. ASSUME age' < Wrap PROVE age < Wrap /\ age' = age + 1
    BY <1>1, <1>3, <2>2, ClockNumbers DEF Tick, Saturated
  <2> SUFFICES ASSUME age' < Wrap PROVE Reduced(now' - nextReportAt) = Reduced(age' - interval)
    BY <2>1 DEF ClockShape
  <2>3. a \in Int /\ b \in Int /\ Reduced(a) = Reduced(b)
    BY <1>1, <2>2, ClockNumbers DEF ClockShape
  <2>4. Reduced(a + 1) = Reduced(b + 1)
    <3> HIDE DEF a, b
    <3> QED BY <2>3, ReducedNext
  <2>5. (now + 1) - nextReportAt = a + 1 /\ age' - interval = b + 1
        /\ now + 1 \in Int /\ nextReportAt \in Int
    BY <1>1, <2>2, ClockNumbers
  <2>6. Reduced(now' - nextReportAt) = Reduced((now + 1) - nextReportAt)
    BY <2>1, <2>5, ReducedDifference
  <2> QED BY <2>4, <2>5, <2>6
<1>4. ASSUME NEW seconds \in Intervals, ApplyReportInterval(seconds) PROVE ClockShape'
  BY <1>1, <1>4, NewDeadline DEF ApplyReportInterval, ClockShape
<1>5. CASE BuildPacket \/ EndReport
  <2>1. StartReport /\ now' = now /\ interval' = interval /\ interval \in Intervals
    BY <1>1, <1>5 DEF BuildPacket, EndReport, TypeOK
  <2>2. CASE UNCHANGED <<nextReportAt, age>>
    BY <1>2, <2>1, <2>2
  <2>3. CASE nextReportAt' = Later(now, interval) /\ age' = 0
    BY <1>1, <2>1, <2>3, NewDeadline DEF ClockShape
  <2> QED BY <2>1, <2>2, <2>3 DEF StartReport
<1>6. CASE \/ RequestImmediateReport \/ ResendPacket \/ SendFails \/ SendSucceeds
           \/ (\E s \in Slots, ch \in Channels, reading \in Readings : FinishPoll(s, ch, reading))
           \/ (\E s \in Slots : UpsertModbusChannel(s) \/ RemoveModbusChannel(s))
           \/ CapturePoll \/ EnterTwoWayPassThrough \/ UNCHANGED vars
  <2>1. UNCHANGED <<now, nextReportAt, age, interval>>
    BY <1>6 DEF RequestImmediateReport, ResendPacket, SendFails, SendSucceeds, FinishPoll,
       CapturePoll, UpsertModbusChannel, RemoveModbusChannel, EnterTwoWayPassThrough, vars, clock
  <2> QED BY <1>2, <2>1
<1> QED BY <1>3, <1>4, <1>5, <1>6 DEF Next, Downlink, ReportStep

\* The signed comparison agrees with the age, as the longest interval is at most half a
\* period of the clock.
LEMMA DueInTime == IInv /\ ClockShape => PeriodicReportOnTime
<1> SUFFICES ASSUME IInv, ClockShape, 2 * (age - interval) < Wrap
             PROVE  Due(now, nextReportAt) <=> age >= interval
  BY DEF PeriodicReportOnTime
<1>1. /\ age \in Int /\ interval \in Int /\ Wrap \in Nat \ {0} /\ age >= 0 /\ interval >= 0
      /\ age <= Wrap /\ 2 * interval <= Wrap
  BY ClockNumbers, IntervalAssumption DEF IInv, TypeOK
<1>2. age < Wrap
  BY <1>1
<1> DEFINE d == age - interval
           r == Reduced(d)
<1>3. Due(now, nextReportAt) <=> 2 * r < Wrap
  BY <1>2 DEF Due, Reduced, ClockShape
<1>4. d \in Int /\ r \in 0 .. Wrap - 1
  BY <1>1, Reduction DEF Times
<1>5. CASE age >= interval
  <2>1. d >= 0 /\ d < Wrap
    BY <1>1, <1>2, <1>5
  <2>2. r = d
    <3> HIDE DEF d
    <3> QED BY <1>4, <2>1, Reduction
  <2> QED BY <1>1, <1>3, <1>5, <2>2
<1>6. CASE age < interval
  <2>1. d < 0 /\ d + Wrap >= 0 /\ d + Wrap < Wrap /\ d + Wrap \in Int
    BY <1>1, <1>6
  <2>2. Reduced(d + Wrap) = d + Wrap
    <3> DEFINE e == d + Wrap
    <3>1. e \in Int /\ e >= 0 /\ e < Wrap
      BY <2>1
    <3> HIDE DEF e
    <3>2. Reduced(e) = e
      BY <3>1, Reduction
    <3> QED BY <3>2 DEF e
  <2>3. r = Reduced(d + Wrap)
    <3>1. d + Wrap = d + Wrap * 1
      BY <1>1, <1>4
    <3> HIDE DEF d
    <3>2. Reduced(d + Wrap) = Reduced(d)
      BY <1>4, <2>1, <3>1, ReducedAlike
    <3> QED BY <3>2
  <2>4. 2 * r >= Wrap
    BY <1>1, <2>2, <2>3
  <2> QED BY <1>1, <1>3, <1>4, <1>6, <2>4
<1> QED BY <1>1, <1>5, <1>6

\* A periodic report is due exactly when its interval has elapsed, also across the wrap of
\* millis(), for every interval up to half a period of the clock (the signed comparison of
\* preparePacket).
THEOREM OnTime == Spec => []PeriodicReportOnTime
<1>1. Init => ClockShape
  <2> SUFFICES ASSUME Init PROVE ClockShape
    OBVIOUS
  <2>1. TypeOK
    BY InitIInv DEF IInv
  <2>2. interval \in Intervals /\ nextReportAt = Later(now, interval) /\ age = 0
    BY DEF Init
  <2> QED BY <2>1, <2>2, NewDeadline DEF ClockShape
<1> QED BY <1>1, ClockStep, DueInTime, Invariance, PTL DEF Spec
=============================================================================
