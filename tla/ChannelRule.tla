----------------------------- MODULE ChannelRule -----------------------------
(* The channel condition of one rule (rules/RuleExecution.h): the record   *)
(* ChannelConditionRuntime and evaluateChannelCondition, called by         *)
(* Application::evaluateChannelRules with every successful sample of the   *)
(* channel.  The runtime belongs to the rule's number: it outlives         *)
(* disabling, rewriting and deleting the rule.  Time is the free-running   *)
(* 32-bit millis(), here a counter that wraps at Wrap.                     *)
EXTENDS Integers

CONSTANTS
  Plans,       \* the conditions that decodeChannelCondition accepts
  Samples,     \* decoded scalars: [kind : {"boolean", "number", "nan"}, value : Int]
  Wrap,        \* millis() counts modulo 2^32
  MaxUptime    \* bound on the milliseconds since the start

Half == Wrap \div 2

\* decodeChannelCondition refuses continue, lock and interval times over 24 hours.
Limit == Half - 1

Levels  == {"false", "true", "below", "above", "within"}
Changes == {"changeRecent", "changeInterval"}

Plan == [mode : Levels \cup Changes, continueMode : {0, 1}, continueTime : 0 .. Limit,
         lockTime : 0 .. Limit, minimum : Int, maximum : Int, changeInterval : 0 .. Limit]

ASSUME WrapAssumption == Wrap \in Nat /\ Half >= 1 /\ Wrap = 2 * Half
ASSUME PlanAssumption == Plans \subseteq Plan
ASSUME SampleAssumption == Samples \subseteq [kind : {"boolean", "number", "nan"}, value : Int]
ASSUME UptimeAssumption == MaxUptime \in Nat

VARIABLES
  plan,      \* the rule's condition frame, decoded
  enabled,   \* record->enabled
  runtime,   \* channelRuleRuntime_[id - 1]
  event,     \* what the last evaluation scheduled
  uptime,    \* real milliseconds since the start; millis() is uptime % Wrap
  history    \* for the properties: what the samples so far amount to

vars == <<plan, enabled, runtime, event, uptime, history>>

-----------------------------------------------------------------------------
(* Arithmetic of the wrapping clock.                                       *)

Millis == uptime % Wrap

Elapsed(now, then) == (now - then) % Wrap

Before_Plain(now, deadline) == now < deadline
\* static_cast<int32_t>(now - deadline) < 0
Before(now, deadline) == Elapsed(now, deadline) >= Half

Distance(a, b) == IF a >= b THEN a - b ELSE b - a

-----------------------------------------------------------------------------
(* evaluateChannelCondition.                                               *)

\* thresholdPredicate
Predicate(p, x) ==
  CASE p.mode = "false"  -> x.kind = "boolean" /\ x.value = 0
    [] p.mode = "true"   -> x.kind = "boolean" /\ x.value = 1
    [] p.mode = "below"  -> x.value < p.minimum
    [] p.mode = "above"  -> x.value > p.maximum
    [] p.mode = "within" -> p.minimum <= x.value /\ x.value <= p.maximum
    [] OTHER -> FALSE

Result(fire, next) == [fire |-> fire, next |-> next]

Inactive_KeepsFired(rt) == [rt EXCEPT !.active = FALSE]
Inactive(rt) == [rt EXCEPT !.active = FALSE, !.firedForActive = FALSE]

Locked(rt, p, now) == [rt EXCEPT !.lockedUntil = (now + p.lockTime) % Wrap]

Remember(rt, x, now) ==
  [rt EXCEPT !.havePrevious = TRUE, !.previousValue = x.value, !.previousAt = now]

\* Within the interval a sample is neither compared nor remembered.
Early(p, now, rt) ==
  p.mode = "changeInterval" /\ rt.havePrevious /\ Elapsed(now, rt.previousAt) < p.changeInterval

EvaluateChange(p, x, now, rt) ==
  LET fire  == rt.havePrevious /\ ~Before(now, rt.lockedUntil)
                 /\ Distance(x.value, rt.previousValue) >= p.maximum
      kept  == Remember(rt, x, now)
  IN  IF Early(p, now, rt) THEN Result(FALSE, rt)
      ELSE Result(fire, IF fire THEN Locked(kept, p, now) ELSE kept)

\* The condition is false: a short pulse triggers at its end.
EvaluateFalse(p, now, rt) ==
  LET pulse == /\ rt.active /\ ~rt.firedForActive
               /\ p.continueMode = 0 /\ Elapsed(now, rt.activeSince) < p.continueTime
  IN  Result(pulse, IF pulse THEN Locked(Inactive(rt), p, now) ELSE Inactive(rt))

\* The condition is true: it triggers at once or after it was held.
EvaluateTrue(p, now, rt) ==
  LET run  == IF rt.active THEN rt
              ELSE [rt EXCEPT !.active = TRUE, !.activeSince = now, !.firedForActive = FALSE]
      fire == /\ ~run.firedForActive
              /\ \/ p.continueTime = 0
                 \/ p.continueMode = 1 /\ Elapsed(now, run.activeSince) >= p.continueTime
  IN  Result(fire, IF fire THEN Locked([run EXCEPT !.firedForActive = TRUE], p, now) ELSE run)

EvaluateLevel_LockKeeps(p, x, now, rt) ==
  IF Before(now, rt.lockedUntil) THEN Result(FALSE, rt)
  ELSE IF Predicate(p, x) THEN EvaluateTrue(p, now, rt) ELSE EvaluateFalse(p, now, rt)

EvaluateLevel(p, x, now, rt) ==
  IF Before(now, rt.lockedUntil)
  THEN Result(FALSE, IF Predicate(p, x) THEN rt ELSE Inactive(rt))
  ELSE IF Predicate(p, x) THEN EvaluateTrue(p, now, rt) ELSE EvaluateFalse(p, now, rt)

EvaluateCondition(p, x, now, rt) ==
  IF x.kind = "nan" THEN Result(FALSE, rt)
  ELSE IF p.mode \in Changes THEN EvaluateChange(p, x, now, rt)
  ELSE EvaluateLevel(p, x, now, rt)

-----------------------------------------------------------------------------
(* What the samples amount to, in real time; the properties compare the    *)
(* runtime with it.  A sample counts from when the condition was last set  *)
(* or enabled ("fresh" once the runtime holds nothing older).              *)

None == -1

NoHistory(lockEnd) ==
  [fresh |-> FALSE, since |-> None, reported |-> FALSE, lockEnd |-> lockEnd,
   last |-> None, lastAt |-> None]

\* Half the range of millis() after a lock ended, or after the start if nothing ever
\* triggered, the signed comparison takes the lock to be still ahead.
Deaf(h) == Elapsed(uptime, h.lockEnd) >= Half /\ uptime >= h.lockEnd

UnlockedFor(h) == uptime >= h.lockEnd /\ ~Deaf(h)

Holds(p, x) == p.mode \in Levels /\ x.kind # "nan" /\ Predicate(p, x)

\* After this sample: since when the condition has held unlocked, whether it was reported,
\* where the last lock ends, and the value that later changes are measured from.
Noted(h, p, x, fire) ==
  [fresh    |-> h.fresh \/ ~Holds(p, x),
   since    |-> IF ~Holds(p, x) THEN None
                ELSE IF h.since = None /\ UnlockedFor(h) THEN uptime ELSE h.since,
   reported |-> Holds(p, x) /\ (h.reported \/ fire),
   lockEnd  |-> IF fire THEN uptime + p.lockTime ELSE h.lockEnd,
   last     |-> x.value,
   lastAt   |-> uptime]

-----------------------------------------------------------------------------
(* The rule.                                                               *)

FreshRuntime ==
  [active |-> FALSE, firedForActive |-> FALSE, activeSince |-> 0, lockedUntil |-> 0,
   havePrevious |-> FALSE, previousValue |-> 0, previousAt |-> 0]

Init ==
  /\ plan \in Plans
  /\ enabled \in BOOLEAN
  /\ runtime = FreshRuntime
  /\ event = "none"
  /\ uptime = 0
  /\ history = [NoHistory(0) EXCEPT !.fresh = TRUE]

\* evaluateChannelRules for this rule: a trigger, or the release of a condition that had
\* triggered and is not active any more.
Sample(x) ==
  /\ enabled
  /\ LET result   == EvaluateCondition(plan, x, Millis, runtime)
         released == runtime.firedForActive /\ ~result.next.active /\ plan.mode \notin Changes
     IN  /\ runtime' = result.next
         /\ event' = IF result.fire THEN "trigger" ELSE IF released THEN "release" ELSE "none"
         /\ history' = IF x.kind = "nan" \/ (plan.mode \in Changes /\ Early(plan, Millis, runtime))
                       THEN history ELSE Noted(history, plan, x, result.fire)
  /\ UNCHANGED <<plan, enabled, uptime>>

\* A rule command rewrites, enables, disables or deletes (here: disables) the record; the
\* runtime stays.
Configure(p, on) ==
  /\ <<p, on>> # <<plan, enabled>>
  /\ plan' = p
  /\ enabled' = on
  /\ event' = "none"
  /\ history' = NoHistory(history.lockEnd)
  /\ UNCHANGED <<runtime, uptime>>

Tick ==
  /\ uptime < MaxUptime
  /\ uptime' = uptime + 1
  /\ event' = "none"
  /\ UNCHANGED <<plan, enabled, runtime, history>>

Next ==
  \/ \E x \in Samples : Sample(x)
  \/ \E p \in Plans, on \in BOOLEAN : Configure(p, on)
  \/ Tick

Spec == Init /\ [][Next]_vars

-----------------------------------------------------------------------------
(* Properties.                                                             *)

Runtime ==
  [active : BOOLEAN, firedForActive : BOOLEAN, activeSince : 0 .. Wrap - 1,
   lockedUntil : 0 .. Wrap - 1, havePrevious : BOOLEAN, previousValue : Int,
   previousAt : 0 .. Wrap - 1]

\* The state stays within the types the code declares.
TypeOK ==
  /\ plan \in Plans /\ enabled \in BOOLEAN
  /\ runtime \in Runtime
  /\ event \in {"none", "trigger", "release"}
  /\ uptime \in 0 .. MaxUptime

\* The rules see what AlarmCondition promises, whatever was configured meanwhile.
Alarm == INSTANCE AlarmCondition WITH raised <- runtime.firedForActive

\* Triggers and releases of a rule alternate as AlarmCondition says.
ImplementsAlarmCondition == Alarm!Spec

Pulses(p) == p.continueMode = 0 /\ p.continueTime > 0

\* The samples justify a trigger now, measured in real time.
Justified ==
  IF plan.mode \in Changes
  THEN /\ history.lastAt # None /\ Distance(history'.last, history.last) >= plan.maximum
       /\ plan.mode = "changeInterval" => uptime - history.lastAt >= plan.changeInterval
  ELSE IF Pulses(plan)
  THEN /\ history.since # None /\ history'.since = None
       /\ uptime - history.since < Wrap => uptime - history.since < plan.continueTime
  ELSE history'.since # None /\ uptime - history'.since >= plan.continueTime

\* No false trigger: none before the lock time of the last one is over, none twice while a
\* condition goes on holding, and none that the samples since the rule was set do not
\* justify, also when millis() wraps.  (A condition that held for a whole turn of the clock
\* may pass for a short pulse.)
TriggersJustified ==
  [][event' = "trigger" =>
       /\ uptime >= history.lockEnd
       /\ ~history.reported
       /\ history.fresh => Justified]_vars

\* No missed trigger: a sample that shows the condition held for its time, outside a lock,
\* finds it reported within a turn of millis(), unless the comparison with the lock has
\* wrapped: then it is deaf for half a turn (FirstSampleTriggers).
ConditionsReported ==
  [][\A x \in Samples :
       (Sample(x) /\ history.fresh /\ plan.mode \in Levels /\ Holds(plan, x)
          /\ UnlockedFor(history) /\ ~Pulses(plan)
          /\ uptime - history'.since \in plan.continueTime .. Wrap - 1)
         => history'.reported]_vars

\* tests/rule_execution_test.cpp: the first sample for which an immediate condition holds
\* triggers it (testBooleanImmediateCondition), however long the gateway has been running.
FirstSampleTriggers ==
  [][\A x \in Samples :
       (Sample(x) /\ runtime = FreshRuntime /\ Holds(plan, x) /\ plan.continueTime = 0)
         => event' = "trigger"]_vars
=============================================================================
