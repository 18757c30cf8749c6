--------------------------- MODULE ReportScheduler ---------------------------
(***************************************************************************)
(* The FPort-85 periodic report: lorawan/FPort85ReportScheduler.h together *)
(* with the places of core/Application.h that drive it: the capture of a   *)
(* finished poll and the report step of the main loop                      *)
(* (captureModbusCompatibilitySample, processModbusCompatibilityReport)    *)
(* and the downlink handlers that reconfigure it.                          *)
(*                                                                         *)
(* The radio call is not atomic.  lora_.send transmits, opens the receive  *)
(* windows and calls the downlink handler before it returns, so every      *)
(* downlink action may fall between preparePacket and markPacketSent.      *)
(* "phase" says where the main loop stands: outside the report step        *)
(* ("idle"), inside lora_.send ("sending"), or inside a downlink handler   *)
(* that lora_.send called ("dispatching").  Outside the report step a      *)
(* downlink comes from the loop (Class C) or from the send of another      *)
(* uplink; the loop may send one between the end of a poll and its capture.*)
(*                                                                         *)
(* A packet is abstracted to the records it carries, a function from slots *)
(* to samples; the scheduler appends them in slot order.                   *)
(***************************************************************************)
EXTENDS Integers, FiniteSets, FiniteSetsExt

CONSTANTS
  NSlots,         \* number of compatibility slots (32 in the code)
  Channels,       \* channel configurations
  Readings,       \* what a poll can report: decoded values, or Failure
  Failure,        \* the reading of a poll that failed
  NoSample,       \* an empty entry of the sample tables
  ValueLength,    \* bytes of a successful record, per channel; 0: not encodable
  FailureLength,  \* bytes of a collection-exception record
  PayloadLimit,   \* bytes that fit in one packet (51)
  Wrap,           \* modulus of the millisecond clock (2^32)
  Intervals,      \* report intervals a downlink can configure
  RetryDelay,     \* kCompatibilityReportRetryMs
  MaxEpoch        \* bound on the number of times a slot is cleared

Slots  == 0 .. NSlots - 1
Epochs == 0 .. MaxEpoch
Times  == 0 .. Wrap - 1

\* Two stamps that are not in the code.  "epoch" is the number of clears of the slot
\* when the poll finished; "overtaken" is the number of the last clear that fell
\* between the end of the poll and its capture and left the poll waiting (0: none did).
Sample == [channel : Channels, reading : Readings, epoch : Epochs, overtaken : Epochs]

ASSUME ParameterAssumption ==
  /\ NSlots \in Nat \ {0}
  /\ Wrap \in Nat \ {0}
  /\ Intervals \subseteq Nat /\ Intervals # {}
  /\ RetryDelay \in Nat
  /\ MaxEpoch \in Nat
  /\ PayloadLimit \in Nat

\* The longest interval a downlink can configure is 18 hours, half a period of the clock 24 days.
ASSUME IntervalAssumption == \A seconds \in Intervals : 2 * seconds <= Wrap

ASSUME RecordAssumption ==
  /\ NoSample \notin Sample
  /\ ValueLength \in [Channels -> 0 .. PayloadLimit]
  /\ FailureLength \in 1 .. PayloadLimit

VARIABLES
  now,               \* millis()
  interval,          \* settings_
  completion,        \* completedPoll_ while pollCompletionPending_, by its slot
  samples,           \* samples_: latest reading of every slot
  reportSamples,     \* reportSamples_: the readings frozen for this report
  nextReportAt,      \* nextReportAtMs_
  retryAt,           \* retryAtMs_
  cursor,            \* cursor_: first slot not yet sent
  pendingNextCursor, \* pendingNextCursor_
  reportInProgress,  \* reportInProgress_
  pending,           \* pending_: a built packet is not confirmed yet
  immediate,         \* immediateReportRequested_
  payload,           \* pendingPayload_
  phase,             \* where the main loop stands
  sentAt             \* "now" captured by the report step before lora_.send

\* History variables: they record what happened and are never read by a guard.
VARIABLES
  epoch,     \* number of clears of each slot
  delivered, \* records confirmed so far in the current or last report
  frozen,    \* samples at the start of the current or last report
  cleared,   \* slots cleared since the start of the report
  asked,     \* an enquiry came after the start of the last report
  age        \* time since nextReportAt was set, counted up to Wrap

\* Groups of variables that change together.
clock   == <<now, age>>
request == <<immediate, asked>>
tables  == <<samples, epoch>>
report  == <<reportSamples, cursor, reportInProgress, pending>>
packet  == <<payload, pendingNextCursor>>
history == <<delivered, frozen, cleared>>

vars == <<now, interval, completion, samples, reportSamples, nextReportAt, retryAt, cursor,
          pendingNextCursor, reportInProgress, pending, immediate, payload,
          phase, sentAt, epoch, delivered, frozen, cleared, asked, age>>

-----------------------------------------------------------------------------
(* Unsigned 32-bit time: "static_cast<int32_t>(t - deadline) >= 0".        *)

Later(t, d) == (t + d) % Wrap

Due_Unsigned(t, deadline) == t >= deadline
Due(t, deadline) == 2 * ((t - deadline) % Wrap) < Wrap

NoSamples == [s \in Slots |-> NoSample]
NoRecords == [s \in {} |-> NoSample]

-----------------------------------------------------------------------------
(* Filling one packet (the scan loop of preparePacket).                    *)

EncodedLength(sample) ==
  IF sample.reading = Failure THEN FailureLength ELSE ValueLength[sample.channel]

Occupied(table, from, to) == {s \in from .. to - 1 : table[s] # NoSample}

PacketLength(table, from, to) ==
  MapThenSumSet(LAMBDA s : EncodedLength(table[s]), Occupied(table, from, to))

\* The scan stops at "to": what lies before it fits, one more record does not.
StopsAt(table, from, to) ==
  /\ PacketLength(table, from, to) <= PayloadLimit
  /\ to < NSlots => PacketLength(table, from, to + 1) > PayloadLimit

Encodable_WrongTable(table, from, to) ==
  \A s \in Occupied(samples, 0, NSlots) : EncodedLength(samples[s]) > 0
Encodable(table, from, to) ==
  \A s \in Occupied(table, from, to) : EncodedLength(table[s]) > 0

Records(table, from, to) == [s \in Occupied(table, from, to) |-> table[s]]

-----------------------------------------------------------------------------
(* begin(): the state the first iteration of the main loop finds.          *)

Init ==
  /\ now \in Times
  /\ interval \in Intervals
  /\ completion = NoRecords
  /\ samples = NoSamples
  /\ reportSamples = NoSamples
  /\ nextReportAt = Later(now, interval)
  /\ retryAt = 0
  /\ cursor = 0
  /\ pendingNextCursor = 0
  /\ reportInProgress = FALSE
  /\ pending = FALSE
  /\ immediate = FALSE
  /\ payload = NoRecords
  /\ phase = "idle"
  /\ sentAt = now
  /\ epoch = [s \in Slots |-> 0]
  /\ delivered = NoRecords
  /\ frozen = NoSamples
  /\ cleared = {}
  /\ asked = FALSE
  /\ age = 0

(* Time passes, also while lora_.send waits for the receive windows.       *)
Saturated(n) == IF n < Wrap THEN n + 1 ELSE Wrap

Tick ==
  /\ now' = Later(now, 1)
  /\ age' = Saturated(age)
  /\ UNCHANGED <<interval, completion, tables, report, packet, nextReportAt, retryAt,
                 request, phase, sentAt, history>>

-----------------------------------------------------------------------------
(* A poll.                                                                 *)

\* publishPollCompletion, in modbus_.loop: the poll waits for its capture later in the
\* same iteration.
FinishPoll(s, ch, reading) ==
  /\ phase = "idle"
  /\ completion = NoRecords
  /\ completion' = [r \in {s} |-> [channel |-> ch, reading |-> reading,
                                  epoch |-> epoch[s], overtaken |-> 0]]
  /\ UNCHANGED <<clock, interval, tables, report, packet, nextReportAt, retryAt,
                 request, phase, sentAt, history>>

\* captureModbusCompatibilitySample: the poll reaches recordPoll, whatever happened to
\* its channel meanwhile.
CapturePoll ==
  /\ phase = "idle"
  /\ completion # NoRecords
  /\ completion' = NoRecords
  /\ samples' = [s \in Slots |-> IF s \in DOMAIN completion THEN completion[s] ELSE samples[s]]
  /\ UNCHANGED <<clock, interval, epoch, report, packet, nextReportAt, retryAt,
                 request, phase, sentAt, history>>

-----------------------------------------------------------------------------
(* Downlink handlers.  They run from the loop or another uplink ("idle")   *)
(* or inside the lora_.send of the report ("sending" or "dispatching").    *)

Handled == phase' = IF phase = "idle" THEN "idle" ELSE "dispatching"

RequestImmediateReport ==
  /\ immediate' = TRUE
  /\ asked' = TRUE
  /\ Handled
  /\ UNCHANGED <<clock, interval, completion, tables, report, packet, nextReportAt, retryAt,
                 sentAt, history>>

ApplyReportInterval(seconds) ==
  /\ interval' = seconds
  /\ nextReportAt' = Later(now, seconds)
  /\ age' = 0
  /\ Handled
  /\ UNCHANGED <<now, completion, tables, report, packet, retryAt, request, sentAt,
                 history>>

\* clearSlot, for a set of slots.
Cleared(table, S) == [s \in Slots |-> IF s \in S THEN NoSample ELSE table[s]]

ClearSlots_SamplesOnly(S) ==
  /\ samples' = Cleared(samples, S)
  /\ UNCHANGED reportSamples
  /\ epoch' = [s \in Slots |-> IF s \in S THEN epoch[s] + 1 ELSE epoch[s]]
  /\ cleared' = cleared \cup S
ClearSlots(S) ==
  /\ samples' = Cleared(samples, S)
  /\ reportSamples' = Cleared(reportSamples, S)
  /\ epoch' = [s \in Slots |-> IF s \in S THEN epoch[s] + 1 ELSE epoch[s]]
  /\ cleared' = cleared \cup S

\* A waiting poll of these slots is left waiting; its stamp notes the clear.
Overtake(S) ==
  completion' = [s \in DOMAIN completion |->
                   IF s \in S THEN [completion[s] EXCEPT !.overtaken = epoch[s] + 1]
                   ELSE completion[s]]

\* Upsert and Remove both end in clearSlot; upsertChannel leaves a waiting poll of the
\* old configuration, removeChannel drops it.
UpsertModbusChannel(s) ==
  /\ epoch[s] < MaxEpoch
  /\ ClearSlots({s})
  /\ Overtake({s})
  /\ Handled
  /\ UNCHANGED <<clock, interval, cursor, reportInProgress, pending, packet,
                 nextReportAt, retryAt, request, sentAt, delivered, frozen>>

RemoveModbusChannel(s) ==
  /\ epoch[s] < MaxEpoch
  /\ ClearSlots({s})
  /\ completion' = [r \in DOMAIN completion \ {s} |-> completion[r]]
  /\ Handled
  /\ UNCHANGED <<clock, interval, cursor, reportInProgress, pending, packet,
                 nextReportAt, retryAt, request, sentAt, delivered, frozen>>

\* abortReport, then clearSlot of every slot; a waiting poll stays.
EnterTwoWayPassThrough ==
  /\ \A s \in Slots : epoch[s] < MaxEpoch
  /\ ClearSlots(Slots)
  /\ Overtake(Slots)
  /\ pending' = FALSE
  /\ reportInProgress' = FALSE
  /\ cursor' = 0
  /\ Handled
  /\ UNCHANGED <<clock, interval, packet, nextReportAt, retryAt, request,
                 sentAt, delivered, frozen>>

-----------------------------------------------------------------------------
(* processModbusCompatibilityReport up to lora_.send.  A finished poll has  *)
(* been captured before, in the same iteration.                            *)

AtReport == phase = "idle" /\ completion = NoRecords

\* A packet waits for its confirmation and its retry time has come.
ResendPacket ==
  /\ AtReport
  /\ pending
  /\ Due(now, retryAt)
  /\ phase' = "sending"
  /\ sentAt' = now
  /\ UNCHANGED <<clock, interval, completion, tables, report, packet, nextReportAt, retryAt,
                 request, history>>

\* No report is running and one is due: freeze the samples.
ReportDue == immediate \/ Due(now, nextReportAt)

Table_Live == samples
Table == IF reportInProgress THEN reportSamples ELSE samples

First_Restart == 0
First == IF reportInProgress THEN cursor ELSE 0

StartReport ==
  IF reportInProgress
  THEN UNCHANGED <<request, nextReportAt, age, history>>
  ELSE /\ ReportDue
       /\ immediate' = FALSE /\ asked' = FALSE
       /\ IF Due(now, nextReportAt)
          THEN nextReportAt' = Later(now, interval) /\ age' = 0
          ELSE UNCHANGED <<nextReportAt, age>>
       /\ frozen' = samples
       /\ cleared' = {}
       /\ delivered' = NoRecords

BuildPacket ==
  /\ AtReport
  /\ ~pending
  /\ StartReport
  /\ reportSamples' = Table
  /\ \E to \in First .. NSlots :
       /\ StopsAt(Table, First, to)
       /\ Encodable(Table, First, to)
       /\ Occupied(Table, First, to) # {}
       /\ payload' = Records(Table, First, to)
       /\ pendingNextCursor' = to
  /\ cursor' = First
  /\ reportInProgress' = TRUE
  /\ pending' = TRUE
  /\ retryAt' = now
  /\ phase' = "sending"
  /\ sentAt' = now
  /\ UNCHANGED <<now, interval, completion, tables>>

\* EmptyReport (nothing left to send), and EncodeError answered by abortReport.
EndReport ==
  /\ AtReport
  /\ ~pending
  /\ StartReport
  /\ reportSamples' = Table
  /\ \E to \in First .. NSlots :
       /\ StopsAt(Table, First, to)
       /\ ~Encodable(Table, First, to) \/ Occupied(Table, First, to) = {}
  /\ reportInProgress' = FALSE
  /\ cursor' = 0
  /\ UNCHANGED <<now, interval, completion, tables, pending, packet, retryAt, phase,
                 sentAt>>

-----------------------------------------------------------------------------
(* lora_.send returns.                                                     *)

WithPayload == [s \in DOMAIN delivered \cup DOMAIN payload |->
                  IF s \in DOMAIN payload THEN payload[s] ELSE delivered[s]]

\* It does nothing if a downlink aborted the report meanwhile.
MarkPacketSent_DropRequest ==
  IF pending
  THEN /\ pending' = FALSE
       /\ retryAt' = sentAt
       /\ cursor' = IF pendingNextCursor >= NSlots THEN 0 ELSE pendingNextCursor
       /\ reportInProgress' = (pendingNextCursor < NSlots)
       /\ immediate' = (immediate /\ pendingNextCursor < NSlots)
       /\ delivered' = WithPayload
  ELSE UNCHANGED <<pending, retryAt, cursor, reportInProgress, immediate, delivered>>
MarkPacketSent ==
  IF pending
  THEN /\ pending' = FALSE
       /\ retryAt' = sentAt
       /\ cursor' = IF pendingNextCursor >= NSlots THEN 0 ELSE pendingNextCursor
       /\ reportInProgress' = (pendingNextCursor < NSlots)
       /\ delivered' = WithPayload
       /\ UNCHANGED immediate
  ELSE UNCHANGED <<pending, retryAt, cursor, reportInProgress, immediate, delivered>>

SendSucceeds ==
  /\ phase \in {"sending", "dispatching"}
  /\ phase' = "idle"
  /\ MarkPacketSent
  /\ UNCHANGED <<clock, interval, completion, tables, reportSamples, packet, nextReportAt,
                 asked, sentAt, frozen, cleared>>

\* markPacketFailed.  A send that fails has not called the downlink handler.
SendFails ==
  /\ phase = "sending"
  /\ phase' = "idle"
  /\ retryAt' = Later(sentAt, RetryDelay)
  /\ UNCHANGED <<clock, interval, completion, tables, report, packet, nextReportAt,
                 request, sentAt, history>>

-----------------------------------------------------------------------------
Downlink ==
  \/ RequestImmediateReport
  \/ \E seconds \in Intervals : ApplyReportInterval(seconds)
  \/ \E s \in Slots : UpsertModbusChannel(s) \/ RemoveModbusChannel(s)
  \/ EnterTwoWayPassThrough

ReportStep == ResendPacket \/ BuildPacket \/ EndReport

Next ==
  \/ Tick
  \/ \E s \in Slots, ch \in Channels, reading \in Readings : FinishPoll(s, ch, reading)
  \/ CapturePoll
  \/ Downlink
  \/ ReportStep
  \/ SendSucceeds
  \/ SendFails

Spec == Init /\ [][Next]_vars

(* The main loop runs many times in half a period of the clock and         *)
(* lora_.send always returns (WF for a step that stays enabled, SF for the *)
(* report step, which the clock disables again after half a period, and    *)
(* for a capture, which is followed by it in the same iteration); and the  *)
(* radio link is not broken for ever (SF of SendSucceeds).                 *)
SomethingToSend ==
  IF pending THEN Due(now, retryAt) ELSE reportInProgress \/ ReportDue

CaptureInTime == CapturePoll /\ SomethingToSend

Fairness ==
  /\ WF_vars(Tick)
  /\ SF_vars(CaptureInTime)
  /\ SF_vars(ReportStep)
  /\ WF_vars(SendSucceeds \/ SendFails)
  /\ SF_vars(SendSucceeds)

FairSpec == Spec /\ Fairness

-----------------------------------------------------------------------------
(* Properties.                                                             *)

Tables  == [Slots -> Sample \cup {NoSample}]
Packets == UNION {[S -> Sample] : S \in SUBSET Slots}

\* The state stays within the types the code declares.
TypeOK ==
  /\ now \in Times /\ nextReportAt \in Times /\ retryAt \in Times /\ sentAt \in Times
  /\ interval \in Intervals
  /\ completion \in Packets
  /\ samples \in Tables /\ reportSamples \in Tables /\ frozen \in Tables
  /\ cursor \in 0 .. NSlots /\ pendingNextCursor \in 0 .. NSlots
  /\ reportInProgress \in BOOLEAN /\ pending \in BOOLEAN /\ immediate \in BOOLEAN
  /\ payload \in Packets /\ delivered \in Packets
  /\ phase \in {"idle", "sending", "dispatching"}
  /\ epoch \in [Slots -> Epochs]
  /\ cleared \in SUBSET Slots
  /\ asked \in BOOLEAN
  /\ age \in 0 .. Wrap

\* A report is one snapshot: whatever poll, downlink or failed send comes
\* between its packets, each record sent or about to be sent is the one the
\* slot held when the report started (the memcpy into reportSamples_).
ReportIsSnapshot ==
  /\ reportInProgress => \A s \in DOMAIN delivered : delivered[s] = frozen[s]
  /\ pending => \A s \in DOMAIN payload : payload[s] = frozen[s]

\* While a report runs, every slot it froze is in exactly one place: already
\* delivered, in the packet awaiting confirmation, or still ahead of the cursor
\* with its frozen reading.  Only a slot a downlink cleared may be missing.
NothingLostOrRepeated ==
  reportInProgress =>
    \A s \in Slots : frozen[s] # NoSample =>
      LET sent    == s \in DOMAIN delivered
          waiting == pending /\ s \in DOMAIN payload
          ahead   == /\ reportSamples[s] = frozen[s]
                     /\ s >= (IF pending THEN pendingNextCursor ELSE cursor)
      IN  /\ s \notin cleared => sent \/ waiting \/ ahead
          /\ ~(sent /\ waiting) /\ ~(sent /\ ahead) /\ ~(waiting /\ ahead)

\* A report that ends by itself has delivered every slot it froze, except the
\* slots cleared meanwhile; only a record the encoder refuses can cut it short
\* (markPacketSent at the last slot, EmptyReport, abortReport).
ReportsEndComplete ==
  [][(reportInProgress /\ ~reportInProgress') =>
       \/ \A s \in Slots : (frozen[s] # NoSample /\ s \notin cleared')
                             => s \in DOMAIN delivered'
       \/ \E s \in Slots \ cleared' :
            frozen[s] # NoSample /\ EncodedLength(frozen[s]) = 0]_vars

\* A reading whose poll finished after the last clear of its slot, or waited for its
\* capture when that clear came.
Current(sample, s) == sample.epoch = epoch[s] \/ sample.overtaken = epoch[s]

\* After a channel is reconfigured or removed (clearSlot) no packet is built from a
\* reading taken before, neither from samples_ nor from the running report, with one
\* exception: the one poll that had finished and not yet been captured when a downlink
\* in the send of another uplink came (Application.h:227-233), and only if the downlink
\* was an Upsert or set two-way pass-through (which leave pollCompletionPending_), and
\* only until the next clear.  A removed channel's waiting poll is dropped.
\* (A packet that was already built is resent as it is.)
NoPacketFromClearedReading ==
  [][(~pending /\ pending') => \A s \in DOMAIN payload' : Current(payload'[s], s)]_vars

\* The signed comparison of wrapping millisecond counters makes a periodic
\* report due exactly when its interval has elapsed, also across the wrap of
\* millis(), as long as the loop looks at it within half a period.
PeriodicReportOnTime ==
  2 * (age - interval) < Wrap => (Due(now, nextReportAt) <=> age >= interval)

\* An enquiry is not forgotten: as long as no report has started since it arrived, its
\* request stands, whatever packet, failure or reconfiguration comes between
\* (immediateReportRequested_, also when set in the receive window of a report).
EnquiryKept == asked => immediate

\* An enquiry (FF 28 FF) is answered: a report starts after it arrived, with the
\* readings of that later moment, and it ends.  Losing the request does not do, the
\* flag alone is nothing here; and the interval, which downlinks can put off again and
\* again, does not bring such a report in its place.
EnquiryAnswered ==
  /\ asked ~> ~asked
  /\ reportInProgress ~> ~reportInProgress
=============================================================================
