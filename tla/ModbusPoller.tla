---------------------------- MODULE ModbusPoller ----------------------------
(***************************************************************************)
(* The RS485 bus: ModbusComponent (components/Components.h) on top of the  *)
(* RTU master (modbus/ModbusRtuMaster.h), and the part of the main loop    *)
(* that takes its results (core/Application.h).                            *)
(*                                                                         *)
(* One iteration of the loop is: one branch of ModbusComponent::loop,      *)
(* which leaves at most one result; possibly one uplink, in whose receive  *)
(* windows a downlink may reconfigure the component; then the capture of a   *)
(* finished poll.  "phase" says where the iteration stands.                *)
(*                                                                         *)
(* A channel is its slot and the version of its configuration; a value is  *)
(* the channel it was read from or written to.  The pacing of polls is     *)
(* left out: a poll may start in any iteration.                            *)
(***************************************************************************)
EXTENDS Integers, Sequences, SequencesExt

CONSTANTS
  Slots,       \* compatibility slots (32)
  NoChannel,   \* an empty cache entry, request or result
  MaxRetries,  \* maxRetryTimes
  Modes,       \* pass-through modes a downlink can set
  MaxVersion,  \* bound on the number of configurations of a slot
  MaxWrites    \* bound on the number of writes accepted

Channel  == [slot : Slots, version : 1 .. MaxVersion]
AllModes == {"disabled", "active", "twoWay"}
Origins  == {"passThrough", "rule"}

ASSUME PollerAssumption ==
  /\ MaxRetries \in Nat /\ MaxVersion \in Nat /\ MaxWrites \in Nat
  /\ Modes \subseteq AllModes /\ Modes # {}
  /\ NoChannel \notin Channel

VARIABLES
  mode,          \* masterSettings_.passThroughMode
  channels,      \* channels_, in the order of polling
  cache,         \* cache_: the channel a valid value belongs to
  index,         \* pollChannelIndex_ + 1
  retries,       \* pollRetryCount_
  kind,          \* rtuMaster_.transactionKind(), "none" when none is active
  asked,         \* the channel the active read or write was sent for
  pendingWrite,  \* channel of pendingWrite_, if queued
  activeWrite,   \* channel of activeWrite_, while writeInFlight_
  pendingRaw,    \* origin of pendingRaw_, "none" if not queued
  rawInFlight,   \* origin of activeRaw_ while rawInFlight_, else "none"
  completion,    \* completedPoll_ while pollCompletionPending_
  phase,         \* "loop", "polled" (after modbus_.loop) or "sending"
  uplink,        \* what the iteration may send or is sending
  basicInfo,     \* compatibilityBasicInfoPending_
  twoWayFrame    \* twoWayFramePending_

\* History variables: never read by a guard other than a bound.
VARIABLES
  version,   \* number of configurations of each slot
  failures,  \* failed attempts since the last completed poll of a slot,
             \* up to MaxRetries
  writes,    \* writes accepted, ended and dropped
  request    \* the last raw request: "owed" a completion, or "done" until the
             \* iteration ends; "none" also when a reconfiguration dropped it

reads   == <<cache, index, retries>>
bus     == <<kind, asked>>
queues  == <<pendingWrite, activeWrite, pendingRaw, rawInFlight>>
sends   == <<uplink, basicInfo, twoWayFrame>>

vars == <<mode, channels, cache, index, retries, kind, asked, pendingWrite, activeWrite,
          pendingRaw, rawInFlight, completion, phase, uplink, basicInfo, twoWayFrame,
          version, failures, writes, request>>

-----------------------------------------------------------------------------
Nothing == [channel |-> NoChannel, success |-> FALSE, of |-> NoChannel]

\* "if (pollChannelIndex_ >= channels_.size()) pollChannelIndex_ = 0"
Wrapped(i, list) == IF i > Len(list) THEN 1 ELSE i

Positions(s)  == {i \in 1 .. Len(channels) : channels[i].slot = s}
Configured(s) == Positions(s) # {}
Position(s)   == CHOOSE i \in Positions(s) : TRUE

Init ==
  /\ mode \in Modes
  /\ channels = <<>>
  /\ cache = [s \in Slots |-> NoChannel]
  /\ index = 1 /\ retries = 0
  /\ kind = "none" /\ asked = NoChannel
  /\ pendingWrite = NoChannel /\ activeWrite = NoChannel
  /\ pendingRaw = "none" /\ rawInFlight = "none"
  /\ completion = Nothing
  /\ phase = "loop" /\ uplink = "none" /\ basicInfo = FALSE /\ twoWayFrame = FALSE
  /\ version = [s \in Slots |-> 0]
  /\ failures = [s \in Slots |-> 0]
  /\ writes = [accepted |-> 0, ended |-> 0, dropped |-> 0]
  /\ request = "none"

-----------------------------------------------------------------------------
(* ModbusComponent::loop, one branch per iteration.                        *)

\* An iteration whose Modbus branch leaves "free" may send an uplink.
Iteration(next) ==
  /\ phase = "loop"
  /\ phase' = "polled"
  /\ uplink' = next

\* finishPollAttempt.
Advanced_OnSuccess(ok) == IF ok THEN (Wrapped(index, channels) % Len(channels)) + 1 ELSE index
Advanced(ok) == (Wrapped(index, channels) % Len(channels)) + 1

Exhausted == retries >= MaxRetries

FinishPoll(channel, ok, from) ==
  IF ok \/ Exhausted
  THEN /\ cache' = [cache EXCEPT ![channel.slot] = IF ok THEN from ELSE NoChannel]
       /\ completion' = [channel |-> channel, success |-> ok, of |-> from]
       /\ retries' = 0
       /\ index' = Advanced(ok)
       /\ failures' = [failures EXCEPT ![channel.slot] = 0]
  ELSE /\ retries' = retries + 1
       /\ index' = Wrapped(index, channels)
       /\ failures' = [failures EXCEPT ![channel.slot] = IF @ < MaxRetries THEN @ + 1 ELSE @]
       /\ UNCHANGED <<cache, completion>>

\* What reads: no raw request and no write is waiting, and channels are in use.
StartRead(ok) ==
  /\ Iteration("free")
  /\ kind = "none" /\ pendingRaw = "none" /\ mode # "twoWay" /\ pendingWrite = NoChannel
  /\ channels # <<>>
  /\ LET channel == channels[Wrapped(index, channels)] IN
       IF ok
       THEN /\ kind' = "read" /\ asked' = channel
            /\ index' = Wrapped(index, channels)
            /\ UNCHANGED <<cache, retries, completion, failures>>
       ELSE FinishPoll(channel, FALSE, NoChannel) /\ UNCHANGED bus
  /\ UNCHANGED <<mode, channels, queues, basicInfo, twoWayFrame, version, writes, request>>

\* The answer, an exception or the timeout.  The poll is credited to the channel
\* at the poll index, whatever the request was sent for.
EndRead(ok) ==
  /\ Iteration("free")
  /\ kind = "read"
  /\ kind' = "none" /\ asked' = NoChannel
  /\ IF channels = <<>>
     THEN UNCHANGED <<reads, completion, failures>>
     ELSE FinishPoll(channels[Wrapped(index, channels)], ok, IF ok THEN asked ELSE NoChannel)
  /\ UNCHANGED <<mode, channels, queues, basicInfo, twoWayFrame, version, writes, request>>

StartWrite(ok) ==
  /\ Iteration("free")
  /\ kind = "none" /\ pendingRaw = "none" /\ mode # "twoWay" /\ pendingWrite # NoChannel
  /\ pendingWrite' = NoChannel
  /\ IF ok
     THEN kind' = "write" /\ asked' = pendingWrite /\ activeWrite' = pendingWrite /\ UNCHANGED writes
     ELSE writes' = [writes EXCEPT !.ended = @ + 1] /\ UNCHANGED <<bus, activeWrite>>
  /\ UNCHANGED <<mode, channels, reads, pendingRaw, rawInFlight, completion, basicInfo,
                 twoWayFrame, version, failures, request>>

\* A successful write updates a valid cache entry (applySuccessfulWriteToCache).
EndWrite(ok) ==
  /\ Iteration("free")
  /\ kind = "write"
  /\ kind' = "none" /\ asked' = NoChannel
  /\ activeWrite' = NoChannel
  /\ IF activeWrite = NoChannel THEN UNCHANGED <<cache, writes>>
     ELSE /\ writes' = [writes EXCEPT !.ended = @ + 1]
          /\ cache' = IF ok /\ cache[activeWrite.slot] # NoChannel
                      THEN [cache EXCEPT ![activeWrite.slot] = activeWrite] ELSE cache
  /\ UNCHANGED <<mode, channels, index, retries, pendingWrite, pendingRaw, rawInFlight,
                 completion, basicInfo, twoWayFrame, version, failures, request>>

\* A raw request has precedence over writes and polls; one that cannot be sent
\* is a failed completion.
StartRaw_NoCompletion(ok) ==
  /\ Iteration("free")
  /\ kind = "none" /\ pendingRaw # "none"
  /\ pendingRaw' = "none"
  /\ IF ok THEN kind' = "raw" /\ rawInFlight' = pendingRaw /\ UNCHANGED request
     ELSE rawInFlight' = "none" /\ request' = "none" /\ UNCHANGED kind
  /\ UNCHANGED <<mode, channels, reads, asked, pendingWrite, activeWrite, completion,
                 basicInfo, twoWayFrame, version, failures, writes>>
StartRaw(ok) ==
  /\ Iteration(IF ok THEN "free" ELSE "handled")
  /\ kind = "none" /\ pendingRaw # "none"
  /\ pendingRaw' = "none"
  /\ IF ok THEN kind' = "raw" /\ rawInFlight' = pendingRaw /\ UNCHANGED request
     ELSE rawInFlight' = "none" /\ request' = "done" /\ UNCHANGED kind
  /\ UNCHANGED <<mode, channels, reads, asked, pendingWrite, activeWrite, completion,
                 basicInfo, twoWayFrame, version, failures, writes>>

\* The loop sends a response to the server at once; the completion of a rule's
\* request only counts.
EndRaw(ok) ==
  /\ Iteration(IF ok /\ rawInFlight = "passThrough" THEN "response" ELSE "handled")
  /\ kind = "raw"
  /\ kind' = "none"
  /\ rawInFlight' = "none"
  /\ request' = "done"
  /\ UNCHANGED <<mode, channels, reads, asked, pendingWrite, activeWrite, pendingRaw, completion,
                 basicInfo, twoWayFrame, version, failures, writes>>

\* A frame of another master; processPassiveRs485Frame keeps one for the server.
ReceivePassiveFrame ==
  /\ Iteration("free")
  /\ kind = "none"
  /\ twoWayFrame' = (twoWayFrame \/ mode = "twoWay")
  /\ UNCHANGED <<mode, channels, reads, bus, queues, completion, basicInfo, version, failures,
                 writes, request>>

\* Nothing is due, or the bus or the passive collector is still busy.
NothingYet ==
  /\ Iteration("free")
  /\ UNCHANGED <<mode, channels, reads, bus, queues, completion, basicInfo, twoWayFrame,
                 version, failures, writes, request>>

-----------------------------------------------------------------------------
(* The rest of the iteration.                                              *)

Unsent ==
  \/ uplink = "response"
  \/ uplink = "free" /\ (basicInfo \/ (twoWayFrame /\ mode = "twoWay"))

\* processModbusPassThroughResponse, else processCompatibilityBasicInfo, else
\* processTwoWayPassThroughUplink: lora_.send, which opens the receive windows.
SendUplink ==
  /\ phase = "polled" /\ Unsent
  /\ phase' = "sending"
  /\ uplink' = IF uplink = "response" THEN "response"
               ELSE IF basicInfo THEN "basicInfo" ELSE "twoWay"
  /\ UNCHANGED <<mode, channels, reads, bus, queues, completion, basicInfo, twoWayFrame,
                 version, failures, writes, request>>

\* The link is down or the send fails; no downlink is handled.
UplinkFails ==
  /\ phase = "polled" /\ Unsent
  /\ uplink' = "handled"
  /\ UNCHANGED <<mode, channels, reads, bus, queues, completion, phase, basicInfo, twoWayFrame,
                 version, failures, writes, request>>

SendReturns ==
  /\ phase = "sending"
  /\ phase' = "polled"
  /\ uplink' = "handled"
  /\ basicInfo' = (basicInfo /\ uplink # "basicInfo")
  /\ twoWayFrame' = (twoWayFrame /\ uplink # "twoWay")
  /\ UNCHANGED <<mode, channels, reads, bus, queues, completion, version, failures, writes,
                 request>>

\* captureModbusCompatibilitySample, the end of the iteration for this module.
Capture ==
  /\ phase = "polled" /\ ~Unsent
  /\ phase' = "loop" /\ uplink' = "none"
  /\ completion' = Nothing
  /\ request' = IF request = "done" THEN "none" ELSE request
  /\ UNCHANGED <<mode, channels, reads, bus, queues, basicInfo, twoWayFrame, version, failures,
                 writes>>

\* LoRaWAN has joined: the device announces itself.
Join ==
  /\ phase = "loop"
  /\ basicInfo' = TRUE
  /\ UNCHANGED <<mode, channels, reads, bus, queues, completion, phase, uplink, twoWayFrame,
                 version, failures, writes, request>>

\* processCoreCommands: a channel write.
WritePoint(s) ==
  /\ phase = "loop"
  /\ writes.accepted < MaxWrites
  /\ mode # "twoWay" /\ pendingWrite = NoChannel /\ activeWrite = NoChannel
  /\ Configured(s)
  /\ pendingWrite' = channels[Position(s)]
  /\ writes' = [writes EXCEPT !.accepted = @ + 1]
  /\ UNCHANGED <<mode, channels, reads, bus, activeWrite, pendingRaw, rawInFlight, completion,
                 phase, sends, version, failures, request>>

\* A rule (from the loop) or a pass-through downlink queues a raw request.
QueueRaw(origin) ==
  /\ phase = "loop" \/ (phase = "sending" /\ origin = "passThrough")
  /\ origin = "passThrough" => mode # "disabled"
  /\ pendingRaw = "none" /\ rawInFlight = "none"
  /\ pendingRaw' = origin
  /\ request' = "owed"
  /\ UNCHANGED <<mode, channels, reads, bus, pendingWrite, activeWrite, rawInFlight, completion,
                 phase, sends, version, failures, writes>>

-----------------------------------------------------------------------------
(* Downlinks that reconfigure the component, from the loop (Class C) or in *)
(* the receive windows of an uplink.                                       *)

CanHear == phase \in {"loop", "sending"}

CancelTransaction_KeepBusy == UNCHANGED bus
CancelTransaction == kind' = "none" /\ asked' = NoChannel

\* clearPendingWrite
ClearQueues_KeepRaw ==
  /\ pendingWrite' = NoChannel /\ activeWrite' = NoChannel
  /\ UNCHANGED <<pendingRaw, rawInFlight>>
  /\ writes' = [writes EXCEPT !.dropped =
                  @ + (IF pendingWrite # NoChannel THEN 1 ELSE 0)
                    + (IF activeWrite # NoChannel THEN 1 ELSE 0)]
  /\ request' = IF request = "owed" THEN "none" ELSE request
ClearQueues ==
  /\ pendingWrite' = NoChannel /\ activeWrite' = NoChannel
  /\ pendingRaw' = "none" /\ rawInFlight' = "none"
  /\ writes' = [writes EXCEPT !.dropped =
                  @ + (IF pendingWrite # NoChannel THEN 1 ELSE 0)
                    + (IF activeWrite # NoChannel THEN 1 ELSE 0)]
  /\ request' = IF request = "owed" THEN "none" ELSE request

\* upsertChannel, with the clearSlot that follows it.
UpsertChannel(s) ==
  /\ CanHear
  /\ version[s] < MaxVersion
  /\ version' = [version EXCEPT ![s] = @ + 1]
  /\ CancelTransaction
  /\ retries' = IF kind = "none" THEN retries ELSE 0
  /\ ClearQueues
  /\ cache' = [cache EXCEPT ![s] = NoChannel]
  /\ LET channel == [slot |-> s, version |-> version[s] + 1] IN
       channels' = IF Configured(s) THEN [channels EXCEPT ![Position(s)] = channel]
                   ELSE Append(channels, channel)
  /\ UNCHANGED <<mode, index, completion, phase, sends, failures>>

\* SetName: upsertChannel with the same configuration, without clearSlot.
RenameChannel(s) ==
  /\ CanHear
  /\ Configured(s)
  /\ CancelTransaction
  /\ retries' = IF kind = "none" THEN retries ELSE 0
  /\ ClearQueues
  /\ cache' = [cache EXCEPT ![s] = NoChannel]
  /\ UNCHANGED <<mode, channels, index, completion, phase, sends, version, failures>>

\* removeChannel, with the clearSlot that follows it.
RemoveChannel_KeepRetries(s) ==
  /\ CanHear
  /\ Configured(s)
  /\ CancelTransaction
  /\ ClearQueues
  /\ retries' = IF kind = "none" THEN retries ELSE 0
  /\ channels' = RemoveAt(channels, Position(s))
  /\ index' = Wrapped(index, channels')
  /\ cache' = [cache EXCEPT ![s] = NoChannel]
  /\ completion' = IF completion.channel # NoChannel /\ completion.channel.slot = s
                   THEN Nothing ELSE completion
  /\ failures' = [failures EXCEPT ![s] = 0]
  /\ UNCHANGED <<mode, phase, sends, version>>
RemoveChannel(s) ==
  /\ CanHear
  /\ Configured(s)
  /\ CancelTransaction
  /\ ClearQueues
  /\ retries' = 0
  /\ channels' = RemoveAt(channels, Position(s))
  /\ index' = Wrapped(index, channels')
  /\ cache' = [cache EXCEPT ![s] = NoChannel]
  /\ completion' = IF completion.channel # NoChannel /\ completion.channel.slot = s
                   THEN Nothing ELSE completion
  /\ failures' = [failures EXCEPT ![s] = 0]
  /\ UNCHANGED <<mode, phase, sends, version>>

\* The serial settings, also when their save fails and the old ones return.
ApplyRs485Settings ==
  /\ CanHear
  /\ CancelTransaction
  /\ ClearQueues
  /\ retries' = 0
  /\ UNCHANGED <<mode, channels, cache, index, completion, phase, sends, version, failures>>

\* The master settings.  Two-way pass-through suspends the channels.
ApplyModbusMasterSettings(m) ==
  /\ CanHear
  /\ CancelTransaction
  /\ ClearQueues
  /\ retries' = 0
  /\ mode' = m
  /\ twoWayFrame' = (twoWayFrame /\ m = "twoWay")
  /\ UNCHANGED <<channels, cache, index, completion, phase, uplink, basicInfo, version, failures>>

-----------------------------------------------------------------------------
ModbusLoop ==
  \/ \E ok \in BOOLEAN : \/ StartRead(ok) \/ EndRead(ok) \/ StartWrite(ok) \/ EndWrite(ok)
                         \/ StartRaw(ok) \/ EndRaw(ok)
  \/ ReceivePassiveFrame
  \/ NothingYet

Reconfigure ==
  \/ \E s \in Slots : UpsertChannel(s) \/ RenameChannel(s) \/ RemoveChannel(s)
  \/ ApplyRs485Settings
  \/ \E m \in Modes : ApplyModbusMasterSettings(m)

Request ==
  \/ \E s \in Slots : WritePoint(s)
  \/ \E origin \in Origins : QueueRaw(origin)

Next ==
  \/ ModbusLoop
  \/ SendUplink \/ UplinkFails \/ SendReturns \/ Capture
  \/ Join
  \/ Request
  \/ Reconfigure

Spec == Init /\ [][Next]_vars

(* The main loop goes on; a transaction ends, by its answer or its timeout; *)
(* a poll starts when its interval is over, and no other master fills the  *)
(* bus for ever.                                                           *)
Fairness ==
  /\ WF_vars(Capture) /\ WF_vars(SendReturns) /\ WF_vars(SendUplink \/ UplinkFails)
  /\ SF_vars(\E ok \in BOOLEAN : StartRead(ok))
  /\ SF_vars(\E ok \in BOOLEAN : StartRaw(ok))
  /\ SF_vars(\E ok \in BOOLEAN : StartWrite(ok))
  /\ SF_vars(\E ok \in BOOLEAN : EndRead(ok) \/ EndWrite(ok) \/ EndRaw(ok))

FairSpec == Spec /\ Fairness

-----------------------------------------------------------------------------
(* Properties.                                                             *)

Value == Channel \cup {NoChannel}

\* The state stays within the types the code declares.
TypeOK ==
  /\ mode \in AllModes
  /\ channels \in Seq(Channel)
  /\ cache \in [Slots -> Value]
  /\ index \in Nat \ {0} /\ retries \in 0 .. MaxRetries
  /\ kind \in {"none", "read", "write", "raw"} /\ asked \in Value
  /\ pendingWrite \in Value /\ activeWrite \in Value
  /\ pendingRaw \in Origins \cup {"none"} /\ rawInFlight \in Origins \cup {"none"}
  /\ completion \in [channel : Value, success : BOOLEAN, of : Value]
  /\ phase \in {"loop", "polled", "sending"}
  /\ uplink \in {"none", "free", "handled", "response", "basicInfo", "twoWay"}
  /\ basicInfo \in BOOLEAN /\ twoWayFrame \in BOOLEAN
  /\ version \in [Slots -> 0 .. MaxVersion]
  /\ failures \in [Slots -> 0 .. MaxRetries]
  /\ writes \in [accepted : 0 .. MaxWrites, ended : Nat, dropped : Nat]
  /\ request \in {"none", "owed", "done"}

\* The component's flags agree with the transaction on the bus, whatever
\* cancelled it: a flag left behind would refuse every later request
\* (writePoint and queueRawRequestInternal refuse while one is in flight).
BusOwnership ==
  /\ (activeWrite # NoChannel) <=> (kind = "write")
  /\ (rawInFlight # "none") <=> (kind = "raw")

\* A raw request is queued or on the bus until its completion; none is queued
\* behind another.
RawAccounting ==
  /\ (request = "owed") <=> (pendingRaw # "none" \/ rawInFlight # "none")
  /\ pendingRaw = "none" \/ rawInFlight = "none"

\* A cached value was read from, or written to, the channel that is configured
\* for its slot now: no answer is credited to another channel, to an older
\* configuration of it, or to one that was removed (finishPollAttempt takes the
\* channel at the poll index, not the one the request was sent for).
ValueOfItsChannel ==
  /\ \A s \in Slots : cache[s] # NoChannel =>
       cache[s].slot = s /\ \E i \in 1 .. Len(channels) : channels[i] = cache[s]
  /\ completion.success => completion.of = completion.channel

\* Every write accepted from the command bus has one end: it is queued, on the
\* bus, ended there, or dropped by a reconfiguration; none is sent twice.
WriteAccounting ==
  writes.accepted = writes.ended + writes.dropped
                    + (IF pendingWrite # NoChannel THEN 1 ELSE 0)
                    + (IF activeWrite # NoChannel THEN 1 ELSE 0)

\* No request is lost, kept beyond its end or dropped unless a reconfiguration
\* cancels it.
RequestAccounting == BusOwnership /\ RawAccounting /\ WriteAccounting

\* A poll is reported as failed only after maxRetryTimes further attempts at the
\* same slot failed, also when other channels come, go and shift the poll index.
FailureAfterRetries ==
  [][(completion = Nothing /\ completion'.channel # NoChannel /\ ~completion'.success) =>
       failures[completion'.channel.slot] >= MaxRetries]_vars

\* A slave that never answers holds up no other channel: each is polled again and
\* again once nobody reconfigures the bus or uses it otherwise.
EveryChannelPolled ==
  <>[][~Reconfigure /\ ~Request]_vars =>
    \A s \in Slots : <>[](mode # "twoWay" /\ Configured(s))
                       => []<>(completion.channel # NoChannel /\ completion.channel.slot = s)

\* Once nobody reconfigures the bus, which drops what is queued, every raw
\* request ends with a completion, of its transaction or of the failure to start
\* it: none is lost in the queue, on the bus, or between the two.
RawServed ==
  <>[][~Reconfigure]_vars => <>[](request = "owed" => <>(request = "done"))
=============================================================================
