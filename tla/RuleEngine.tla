----------------------------- MODULE RuleEngine -----------------------------
(* The IF-THEN rules: the rule table and its copy in flash, the triggers,  *)
(* the slots of scheduled actions, and the replies to rule commands        *)
(* (Application.h, rules/RuleState.h, rules/RuleStore.h).  Whether a       *)
(* channel condition triggers or releases is what AlarmCondition leaves    *)
(* open; ChannelRule implements it.                                        *)
(*                                                                         *)
(* The radio listens for downlinks after each uplink, inside lora_.send,   *)
(* so commands arrive between loop iterations and also in the middle of    *)
(* executing an action or sending a reply.                                 *)
EXTENDS Integers, Sequences, FiniteSets, FiniteSetsExt

CONSTANTS
  RuleCount,         \* kRuleCount (16)
  ActionCount,       \* actions per rule (3)
  ConditionFrames,   \* condition frames: [kind, arg]
  ActionFrames,      \* action frames: [kind, delay, release]
  CommandFrames,     \* those of them that configuration commands bring
  Masks,             \* the sets of rules that status commands name
  NoFrame,           \* an empty StoredFrame
  Payloads,          \* server messages and bus frames
  Minutes,           \* local minutes, as localMinuteKey tells them apart
  Wrap,              \* millis() counts modulo 2^32
  MaxDelay,          \* the longest delay of an action (24 hours)
  StoredTables,      \* the rule tables flash may hold at the start
  MaxInputs          \* bound on the commands, triggers, clock changes and restarts together

Half  == Wrap \div 2
Rules == 1 .. RuleCount
FrameSlots == 0 .. ActionCount    \* kRuleFrameSlots: the condition, then the actions

\* What decodeExecutableAction makes of an action frame: "mute" is a server message of one
\* byte, which the decoder accepts and scheduleRuleActions refuses.
ActionKinds == {"none", "message", "mute", "upload", "raw", "alarm", "reboot", "unsupported"}
ConditionKinds == {"time", "channel", "rs485", "message", "restart"}

Frame == ConditionFrames \cup ActionFrames \cup {NoFrame}
FrameTables ==
  {f \in [FrameSlots -> Frame] : \A i \in FrameSlots :
     f[i] # NoFrame => f[i] \in (IF i = 0 THEN ConditionFrames ELSE ActionFrames)}
Record == [enabled : BOOLEAN, frames : FrameTables]

\* Delays of more than 24 hours are refused, which is less than half the range of millis().
ASSUME CountAssumption == RuleCount \in Nat \ {0} /\ ActionCount \in Nat \ {0}
ASSUME WrapAssumption ==
  /\ Wrap \in Nat /\ Half >= 1 /\ Wrap = 2 * Half
  /\ MaxDelay \in 0 .. Half - 1
ASSUME FrameAssumption ==
  /\ \A f \in ConditionFrames : f.kind \in ConditionKinds
  /\ ActionFrames \subseteq [kind : ActionKinds, delay : 0 .. MaxDelay, release : BOOLEAN]
  /\ CommandFrames \subseteq ConditionFrames \cup ActionFrames
  /\ StoredTables \subseteq [Rules -> Record]
ASSUME MaskAssumption == Masks \subseteq SUBSET Rules /\ {} \notin Masks
ASSUME BoundAssumption == MaxInputs \in Nat

VARIABLES
  rules,         \* ruleState_
  flash,         \* what the store returns after a restart
  slots,         \* scheduledRuleActions_: triggers first, then releases
  clock,         \* millis()
  minute,        \* local time, or NoTime before the clock is set
  lastMinute,    \* lastRuleMinuteKey_
  raised,        \* by rule: channelRuleRuntime_[].firedForActive
  bootPending,   \* ruleBootEvaluationPending_
  reboot,        \* rebootRequested_
  reply,         \* ruleReplyFrames_ and ruleReplyCursor_
  stage,         \* where the loop is: a pass over the slots, or inside lora_.send
  owed,          \* for the properties: the reply frames staged and not yet sent
  diverged,      \* for the properties: the rules whose rollback could not be saved
  counts         \* triggers, commands and restarts so far

vars == <<rules, flash, slots, clock, minute, lastMinute, raised, bootPending, reboot, reply,
          stage, owed, diverged, counts>>

timing   == <<clock, minute, lastMinute>>
exchange == <<reply, owed>>
tables   == <<rules, flash, diverged>>

-----------------------------------------------------------------------------
(* Slots and stages.                                                       *)

NoTime == 0
BaseSlots == RuleCount * ActionCount
Slots == 1 .. 2 * BaseSlots

IsRelease(s) == s > BaseSlots
RuleOf(s)    == (((s - 1) % BaseSlots) \div ActionCount) + 1
IndexOf(s)   == ((s - 1) % ActionCount) + 1

\* "left" counts the real milliseconds to the due time, for the properties only.
Idle == [action |-> "none", due |-> 0, left |-> 0]
Pending(s) == slots[s] # Idle

Bounded == counts.triggers + counts.commands + counts.restarts < MaxInputs

InLoop == [at |-> "loop", now |-> 0, slot |-> 0]

\* A downlink is handled between iterations or in the receive windows of an uplink.
CanHear == stage.at \in {"loop", "sending", "replying"}

\* static_cast<int32_t>(now - due) < 0
Before_Plain(now, due) == now < due
Before(now, due) == (now - due) % Wrap >= Half

-----------------------------------------------------------------------------
(* scheduleRuleActions.                                                    *)

\* RuleRecord::clear
Cleared == [enabled |-> FALSE, frames |-> [i \in FrameSlots |-> NoFrame]]

ActionOf(s) == rules[RuleOf(s)].frames[IndexOf(s)]

\* The slot is passed over.
Skipped(a, release) ==
  a = NoFrame \/ a.kind \in {"none", "unsupported"} \/ (release /\ a.kind # "alarm")

\* The slot is taken and given up: whatever it held is gone.
Refused(a, release, sampled) ==
  \/ a.kind = "alarm" /\ (~sampled \/ (release /\ ~a.release))
  \/ a.kind = "mute"

\* The slots after the triggers of the rules "triggered" and the releases of "released".
Scheduled(triggered, released, sampled) ==
  [s \in Slots |->
     LET a == ActionOf(s)
     IN  IF RuleOf(s) \notin (IF IsRelease(s) THEN released ELSE triggered)
              \/ Skipped(a, IsRelease(s))
         THEN slots[s]
         ELSE IF Refused(a, IsRelease(s), sampled) THEN Idle
         ELSE [action |-> a.kind, due |-> (clock + a.delay) % Wrap, left |-> a.delay]]

\* The enabled rules whose condition is of this kind and about this payload or channel.
Condition(r, kind) == LET f == rules[r].frames[0] IN f # NoFrame /\ f.kind = kind
Matching(kind, arg) ==
  {r \in Rules : rules[r].enabled /\ Condition(r, kind) /\ rules[r].frames[0].arg = arg}

\* cancelScheduledRuleActions
Cancelled_Triggers(ids) == [s \in Slots |-> IF RuleOf(s) \in ids /\ ~IsRelease(s) THEN Idle ELSE slots[s]]
Cancelled(ids) == [s \in Slots |-> IF RuleOf(s) \in ids THEN Idle ELSE slots[s]]

-----------------------------------------------------------------------------
(* Start.                                                                  *)

NoReply == [frames |-> <<>>, cursor |-> 0]
NothingOwed == [frames |-> <<>>, overlapped |-> FALSE]

Booted(table) ==
  /\ flash' = table /\ rules' = table
  /\ slots' = [s \in Slots |-> Idle]
  /\ clock' = 0
  /\ lastMinute' = [r \in Rules |-> NoTime]
  /\ raised' = [r \in Rules |-> FALSE]
  /\ bootPending' = TRUE /\ reboot' = FALSE
  /\ reply' = NoReply /\ owed' = NothingOwed
  /\ stage' = InLoop
  /\ diverged' = {}
  /\ counts' = [counts EXCEPT !.restarts = @ + 1]

Init ==
  /\ flash \in StoredTables /\ rules = flash
  /\ slots = [s \in Slots |-> Idle]
  /\ clock = 0
  /\ minute = NoTime
  /\ lastMinute = [r \in Rules |-> NoTime]
  /\ raised = [r \in Rules |-> FALSE]
  /\ bootPending = TRUE /\ reboot = FALSE
  /\ reply = NoReply /\ owed = NothingOwed
  /\ stage = InLoop
  /\ diverged = {}
  /\ counts = [commands |-> 0, triggers |-> 0, restarts |-> 0]

\* A power loss at any time, or the reboot that an action asked for.  The clock of the chip
\* goes on through a reboot and is lost with the power.
Restart ==
  /\ Bounded
  /\ Booted(flash)
  /\ minute' \in {minute, NoTime}

-----------------------------------------------------------------------------
(* Triggers.                                                               *)

Triggered ==
  /\ Bounded
  /\ counts' = [counts EXCEPT !.triggers = @ + 1]

\* handleLoRaDownlink: a text that some rule waits for.  (A text that none waits for is no
\* command either, and is refused.)
ServerMessage(p) ==
  /\ CanHear
  /\ Matching("message", p) # {}
  /\ Triggered
  /\ slots' = Scheduled(Matching("message", p), {}, FALSE)
  /\ UNCHANGED <<timing, tables, exchange, raised, bootPending, reboot, stage>>

\* processPassiveRs485Frame
PassiveFrame(p) ==
  /\ stage.at = "loop"
  /\ Matching("rs485", p) # {}
  /\ Triggered
  /\ slots' = Scheduled(Matching("rs485", p), {}, FALSE)
  /\ UNCHANGED <<timing, tables, exchange, raised, bootPending, reboot, stage>>

\* evaluateChannelRules: every enabled rule on the channel evaluates the sample.
Alarm == INSTANCE AlarmCondition WITH raised <- raised, event <- "none"

EvaluateChannelRules(channel) ==
  LET ids == Matching("channel", channel)
  IN  /\ stage.at = "loop"
      /\ ids # {}
      /\ Triggered
      /\ \E outcome \in [ids -> Alarm!Outcomes(TRUE) \cup Alarm!Outcomes(FALSE)] :
           LET with(event) == {r \in ids : outcome[r].event = event}
           IN  /\ \A r \in ids : outcome[r] \in Alarm!Outcomes(raised[r])
               /\ slots' = Scheduled(with("trigger"), with("release"), TRUE)
               /\ raised' = [r \in Rules |-> IF r \in ids THEN outcome[r].raised ELSE raised[r]]
      /\ UNCHANGED <<timing, tables, exchange, bootPending, reboot, stage>>

-----------------------------------------------------------------------------
(* processRuleExecution: the rules on a restart, the rules on the time,    *)
(* then one pass over the slots.                                           *)

Restarted == IF bootPending THEN {r \in Rules : rules[r].enabled /\ Condition(r, "restart")} ELSE {}

DueNow ==
  {r \in Rules : /\ minute # NoTime /\ rules[r].enabled /\ Condition(r, "time")
                 /\ minute \in rules[r].frames[0].arg /\ lastMinute[r] # minute}

ProcessRuleExecution ==
  /\ stage.at = "loop"
  /\ bootPending' = FALSE
  /\ slots' = Scheduled(Restarted \cup DueNow, {}, FALSE)
  /\ lastMinute' = [r \in Rules |-> IF r \in DueNow THEN minute ELSE lastMinute[r]]
  /\ stage' = [at |-> "pass", now |-> clock, slot |-> 1]
  /\ UNCHANGED <<clock, minute, tables, exchange, raised, reboot, counts>>

\* executeDueRuleActions: the slots in their order, all against the time the pass began.
DueSlots == {s \in Slots : s >= stage.slot /\ Pending(s) /\ ~Before(stage.now, slots[s].due)}

Advance(s) == stage' = [stage EXCEPT !.at = "pass", !.slot = s + 1]

ExecuteLocal(s) ==
  /\ slots' = [slots EXCEPT ![s] = Idle]
  /\ reboot' = (reboot \/ (rules[RuleOf(s)].enabled /\ slots[s].action = "reboot"))
  /\ Advance(s)

\* An alarm that cannot be encoded is dropped as well.
ExecuteAction ==
  /\ stage.at = "pass" /\ DueSlots # {}
  /\ LET s    == Min(DueSlots)
         send == rules[RuleOf(s)].enabled /\ slots[s].action \in {"message", "alarm"}
     IN  \/ (~send \/ slots[s].action = "alarm") /\ ExecuteLocal(s)
         \/ send /\ stage' = [stage EXCEPT !.at = "sending", !.slot = s] /\ UNCHANGED <<slots, reboot>>
  /\ UNCHANGED <<timing, tables, exchange, raised, bootPending, counts>>

SendReturns_Retry ==
  /\ stage.at = "sending"
  /\ slots' \in {slots, [slots EXCEPT ![stage.slot] = Idle]}
  /\ Advance(stage.slot)
  /\ UNCHANGED <<timing, tables, exchange, raised, bootPending, reboot, counts>>

\* lora_.send has returned, the packet sent or not: the slot is emptied, whatever a downlink
\* in its receive windows put there.
SendReturns ==
  /\ stage.at = "sending"
  /\ slots' = [slots EXCEPT ![stage.slot] = Idle]
  /\ Advance(stage.slot)
  /\ UNCHANGED <<timing, tables, exchange, raised, bootPending, reboot, counts>>

PassEnds ==
  /\ stage.at = "pass" /\ DueSlots = {}
  /\ stage' = InLoop
  /\ UNCHANGED <<timing, tables, exchange, slots, raised, bootPending, reboot, counts>>

-----------------------------------------------------------------------------
(* Rule commands.                                                          *)

Command ==
  /\ CanHear
  /\ Bounded
  /\ counts' = [counts EXCEPT !.commands = @ + 1]

Changed(record, operation) ==
  CASE operation = "enable"  -> [record EXCEPT !.enabled = TRUE]
    [] operation = "disable" -> [record EXCEPT !.enabled = FALSE]
    [] operation = "delete"  -> Cleared

\* A table with the rules "ids" changed.
With(table, ids, operation) ==
  [r \in Rules |-> IF r \in ids THEN Changed(rules[r], operation) ELSE table[r]]

Below(ids, r) == {id \in ids : id < r}

CancelUnlessEnabled(ids, operation) ==
  slots' = IF operation = "enable" THEN slots ELSE Cancelled(ids)

\* applyRuleStatusCommand: the rules of the mask are saved one by one.
ApplyRuleStatus(mask, operation) ==
  /\ Command
  /\ rules' = With(rules, mask, operation)
  /\ flash' = With(flash, mask, operation)
  /\ diverged' = diverged \ mask
  /\ CancelUnlessEnabled(mask, operation)
  /\ UNCHANGED <<timing, exchange, raised, bootPending, reboot, stage>>

RefuseRuleStatus_NoRollback(mask, operation, failed, unsaved) ==
  LET done == Below(mask, failed)
  IN  /\ Command
      /\ failed \in mask /\ unsaved \subseteq done
      /\ flash' = With(flash, done, operation)
      /\ diverged' = (diverged \ done) \cup {r \in unsaved : Changed(rules[r], operation) # rules[r]}
      /\ CancelUnlessEnabled(done, operation)
      /\ UNCHANGED <<rules, timing, exchange, raised, bootPending, reboot, stage>>

\* The save of one rule fails: the rules before it are put back, in RAM and, where that save
\* succeeds, in flash.  Their cancelled actions are not.
RefuseRuleStatus(mask, operation, failed, unsaved) ==
  LET done == Below(mask, failed)
  IN  /\ Command
      /\ failed \in mask /\ unsaved \subseteq done
      /\ flash' = [r \in Rules |-> IF r \in unsaved THEN Changed(rules[r], operation)
                                   ELSE IF r \in done THEN rules[r] ELSE flash[r]]
      /\ diverged' = (diverged \ done) \cup {r \in unsaved : Changed(rules[r], operation) # rules[r]}
      /\ CancelUnlessEnabled(done, operation)
      /\ UNCHANGED <<rules, timing, exchange, raised, bootPending, reboot, stage>>

\* The power is lost before rule "next" of the mask is saved.
InterruptRuleStatus(mask, operation, next) ==
  /\ CanHear /\ Bounded
  /\ next \in mask
  /\ Booted(With(flash, Below(mask, next), operation))
  /\ minute' = NoTime

\* applyRuleConfigurationCommand, with the acknowledgement it queues behind the replies that
\* are waiting.  With the queue full the command counts as refused although it is saved.
Acknowledged(q) == Len(q.frames) <= ActionCount

ConfigureRule(r, index, frame, enable) ==
  LET updated == [enabled |-> enable, frames |-> [rules[r].frames EXCEPT ![index] = frame]]
  IN  /\ Command
      /\ rules' = [rules EXCEPT ![r] = updated]
      /\ flash' = [flash EXCEPT ![r] = updated]
      /\ diverged' = diverged \ {r}
      /\ slots' = IF enable THEN slots ELSE Cancelled({r})
      /\ IF Acknowledged(reply)
         THEN /\ reply' = [reply EXCEPT !.frames = Append(@, frame)]
              /\ owed' = [owed EXCEPT !.frames = Append(@, frame)]
         ELSE UNCHANGED exchange
      /\ UNCHANGED <<timing, raised, bootPending, reboot, stage>>

\* stageRuleEnquiryReply: the frames of the rule replace whatever was waiting.
FramesOf(r) ==
  LET set    == {i \in FrameSlots : rules[r].frames[i] # NoFrame}
      nth(k) == CHOOSE i \in set : Cardinality({j \in set : j <= i}) = k
  IN  [k \in 1 .. Cardinality(set) |-> rules[r].frames[nth(k)]]

StageEnquiryReply(r) ==
  /\ Command
  /\ reply' = [frames |-> FramesOf(r), cursor |-> 0]
  /\ owed' = [frames |-> FramesOf(r), overlapped |-> FALSE]
  /\ stage' = IF stage.at = "replying" THEN [stage EXCEPT !.slot = 0] ELSE stage
  /\ UNCHANGED <<timing, tables, slots, raised, bootPending, reboot>>

-----------------------------------------------------------------------------
(* processRuleReply: one frame per loop iteration.                         *)

Waiting == SubSeq(reply.frames, reply.cursor + 1, Len(reply.frames))

\* In "slot", whether the queue is still the one the frame on the air was taken from.
SendReply ==
  /\ stage.at = "loop"
  /\ reply.cursor < Len(reply.frames)
  /\ stage' = [at |-> "replying", now |-> 0, slot |-> 1]
  /\ UNCHANGED <<timing, tables, exchange, slots, raised, bootPending, reboot, counts>>

Advanced(q) == IF q.cursor + 1 >= Len(q.frames) THEN NoReply ELSE [q EXCEPT !.cursor = @ + 1]

\* The frame was sent.  If an enquiry came in its receive windows the cursor moves in the
\* queue of the new reply, whose first frame is never sent.
ReplySent ==
  /\ stage.at = "replying"
  /\ reply' = Advanced(reply)
  /\ owed' = IF stage.slot = 0 \/ owed.frames = <<>> THEN [owed EXCEPT !.overlapped = TRUE]
             ELSE [owed EXCEPT !.frames = Tail(@)]
  /\ stage' = InLoop
  /\ UNCHANGED <<timing, tables, slots, raised, bootPending, reboot, counts>>

ReplyNotSent_Skip ==
  /\ stage.at = "replying"
  /\ reply' = Advanced(reply)
  /\ stage' = InLoop
  /\ UNCHANGED <<timing, tables, owed, slots, raised, bootPending, reboot, counts>>

ReplyNotSent ==
  /\ stage.at = "replying"
  /\ stage' = InLoop
  /\ UNCHANGED <<timing, tables, exchange, slots, raised, bootPending, reboot, counts>>

-----------------------------------------------------------------------------
(* Time.  The loop comes round before an action is overdue by half the     *)
(* range of millis(), and a pass with its sends is over before the longest *)
(* delay from now is half the range after its start: it sends at most the  *)
(* actions of all rules, each in seconds, and half the range is 24 days.   *)
(* Local time may be set to anything.                                      *)

Tick ==
  /\ \A s \in Slots : Pending(s) => (clock - slots[s].due) % Wrap # Half - 1
  /\ stage.at \in {"pass", "sending"} => (clock - stage.now) % Wrap < Half - MaxDelay
  /\ clock' = (clock + 1) % Wrap
  /\ slots' = [s \in Slots |-> IF slots[s].left = 0 THEN slots[s] ELSE [slots[s] EXCEPT !.left = @ - 1]]
  /\ UNCHANGED <<minute, lastMinute, tables, exchange, raised, bootPending, reboot, stage, counts>>

LocalTime ==
  /\ minute' \in Minutes \ {minute}
  /\ Triggered
  /\ UNCHANGED <<clock, lastMinute, tables, exchange, slots, raised, bootPending, reboot, stage>>

-----------------------------------------------------------------------------
Operations == {"enable", "disable", "delete"}

RuleCommand ==
  \/ \E mask \in Masks, operation \in Operations :
       \/ ApplyRuleStatus(mask, operation)
       \/ \E failed \in mask : \E unsaved \in SUBSET Below(mask, failed) :
            RefuseRuleStatus(mask, operation, failed, unsaved)
       \/ \E next \in mask : InterruptRuleStatus(mask, operation, next)
  \/ \E r \in Rules, frame \in CommandFrames, index \in FrameSlots, enable \in BOOLEAN :
       /\ (index = 0) <=> (frame \in ConditionFrames)
       /\ ConfigureRule(r, index, frame, enable)
  \/ \E r \in Rules : StageEnquiryReply(r)

Trigger == \E p \in Payloads : ServerMessage(p) \/ PassiveFrame(p) \/ EvaluateChannelRules(p)

Next ==
  \/ Trigger \/ ProcessRuleExecution \/ ExecuteAction \/ SendReturns \/ PassEnds
  \/ RuleCommand \/ SendReply \/ ReplySent \/ ReplyNotSent
  \/ Tick \/ LocalTime \/ Restart

Spec == Init /\ [][Next]_vars

(* The loop comes round to the rules again and again, every send returns,  *)
(* and time goes on.  Nothing is assumed of the link.                      *)
Fairness ==
  /\ SF_vars(ProcessRuleExecution)
  /\ WF_vars(ExecuteAction) /\ WF_vars(SendReturns) /\ WF_vars(PassEnds)
  /\ WF_vars(ReplySent \/ ReplyNotSent)
  /\ WF_vars(Tick)

FairSpec == Spec /\ Fairness

-----------------------------------------------------------------------------
(* Properties.                                                             *)

SlotState == [action : ActionKinds, due : 0 .. Wrap - 1, left : 0 .. MaxDelay]

\* The state stays within the types the code declares; the reply queue has four places.
TypeOK ==
  /\ rules \in [Rules -> Record] /\ flash \in [Rules -> Record]
  /\ slots \in [Slots -> SlotState]
  /\ clock \in 0 .. Wrap - 1 /\ minute \in Minutes \cup {NoTime}
  /\ lastMinute \in [Rules -> Minutes \cup {NoTime}]
  /\ raised \in [Rules -> BOOLEAN] /\ bootPending \in BOOLEAN /\ reboot \in BOOLEAN
  /\ Len(reply.frames) <= ActionCount + 1 /\ reply.cursor \in 0 .. ActionCount
  /\ stage.at \in {"loop", "pass", "sending", "replying"} /\ diverged \subseteq Rules

\* No action waits on behalf of a rule that is disabled or deleted, whichever command
\* disabled it, in full or in part, and whatever it was that had been triggered.
PendingOnlyIfEnabled == \A s \in Slots : Pending(s) => rules[RuleOf(s)].enabled

\* A restart changes no rule: flash holds what the gateway works with, also after a refused
\* status command, save where putting a rule back failed too.
RestartKeepsRules == \A r \in Rules \ diverged : flash[r] = rules[r]

\* What waits in the reply queue is what was asked for and not yet sent, in order, through
\* failed sends, further commands and acknowledgements; save after an enquiry that came
\* while the frame of an earlier reply was on the air.
RepliesInFull ==
  (stage.at # "replying" /\ ~owed.overlapped)
    => SubSeq(reply.frames, reply.cursor + 1, Len(reply.frames)) = owed.frames

\* No action is executed before its delay is over, also when millis() wraps; and none
\* vanishes unless it is executed, its rule is disabled, a new trigger takes its slot, the
\* gateway restarts, or a status command failed half way.
ActionsRunInTime ==
  [][\A s \in Slots :
       /\ (stage.at = "pass" /\ stage' = [stage EXCEPT !.at = "sending", !.slot = s])
            => slots[s].left = 0
       /\ (Pending(s) /\ slots'[s] = Idle) =>
            \/ ExecuteAction /\ slots[s].left = 0
            \/ SendReturns /\ s = stage.slot
            \/ ~rules'[RuleOf(s)].enabled
            \/ Trigger \/ ProcessRuleExecution
            \/ counts'.restarts # counts.restarts
            \/ rules' = rules /\ counts'.commands # counts.commands]_vars

\* rule-engine.md: rules execute without connectivity.  Once triggers stop coming every
\* scheduled action is over, also if no uplink ever succeeds.
ActionsEnd == []<>(\A s \in Slots : ~Pending(s))
=============================================================================
