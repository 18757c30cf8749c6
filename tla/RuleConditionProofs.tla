-------------------------- MODULE RuleConditionProofs --------------------------
(***************************************************************************)
(* Proofs about the two conditions that keep a memory.  Of ChannelRule:    *)
(* its types, and that it raises and releases its alarm as AlarmCondition  *)
(* says, for all plans, samples and widths of the clock.  Of TimedRule:    *)
(* that a rule runs once on each of its days, in every zone, that the      *)
(* calendar is right for every Unix time, and that local time is the       *)
(* clock on the wall that WallClock describes.                             *)
(***************************************************************************)
EXTENDS ChannelRule, TimedRule, TLAPS

\* A condition that has triggered is active: both flags fall together.
FiredIsActive(rt) == rt.firedForActive => rt.active

\* What an evaluation may do to the flag that AlarmCondition sees.
AlarmStep(p, rt, result) ==
  /\ FiredIsActive(result.next)
  /\ result.fire =>
       \/ result.next.firedForActive
       \/ ~rt.firedForActive
  /\ ~result.fire =>
       \/ result.next.firedForActive = rt.firedForActive
       \/ rt.firedForActive /\ ~result.next.firedForActive /\ ~result.next.active
            /\ p.mode \notin Changes
  /\ p.mode \in Changes => result.next.firedForActive = rt.firedForActive

Clock == 0 .. Wrap - 1

Sampled == [kind : {"boolean", "number", "nan"}, value : Int]

-----------------------------------------------------------------------------
\* millis() stays below the width of the clock.
LEMMA ClockType == \A n \in Int : n % Wrap \in Clock
  BY WrapAssumption DEF Clock, Half

\* The helpers of evaluateChannelCondition keep the type of the runtime.
LEMMA HelperTypes ==
  ASSUME NEW p \in Plan, NEW x \in Sampled, NEW now \in Clock, NEW rt \in Runtime
  PROVE  /\ Inactive(rt) \in Runtime /\ ~Inactive(rt).active /\ ~Inactive(rt).firedForActive
         /\ Locked(rt, p, now) \in Runtime
         /\ Locked(rt, p, now).active = rt.active
         /\ Locked(rt, p, now).firedForActive = rt.firedForActive
         /\ Remember(rt, x, now) \in Runtime
         /\ Remember(rt, x, now).active = rt.active
         /\ Remember(rt, x, now).firedForActive = rt.firedForActive
<1>1. Inactive(rt) \in Runtime /\ ~Inactive(rt).active /\ ~Inactive(rt).firedForActive
  BY DEF Inactive, Runtime
<1>2. /\ Locked(rt, p, now) \in Runtime
      /\ Locked(rt, p, now).active = rt.active
      /\ Locked(rt, p, now).firedForActive = rt.firedForActive
  <2>1. now + p.lockTime \in Int
    BY WrapAssumption DEF Plan, Clock, Limit, Half
  <2>2. (now + p.lockTime) % Wrap \in 0 .. Wrap - 1
    BY <2>1, ClockType DEF Clock
  <2> QED BY <2>2 DEF Locked, Runtime
<1>3. /\ Remember(rt, x, now) \in Runtime
      /\ Remember(rt, x, now).active = rt.active
      /\ Remember(rt, x, now).firedForActive = rt.firedForActive
  BY DEF Remember, Runtime, Sampled, Clock
<1> QED BY <1>1, <1>2, <1>3

\* A condition on changes: the alarm flag is not touched.
LEMMA ChangeStep ==
  ASSUME NEW p \in Plan, NEW x \in Sampled, NEW now \in Clock, NEW rt \in Runtime,
         FiredIsActive(rt), p.mode \in Changes
  PROVE  /\ EvaluateChange(p, x, now, rt).next \in Runtime
         /\ AlarmStep(p, rt, EvaluateChange(p, x, now, rt))
<1> DEFINE kept == Remember(rt, x, now)
           next == EvaluateChange(p, x, now, rt).next
<1>1. next = rt \/ next = kept \/ next = Locked(kept, p, now)
  BY DEF EvaluateChange, Result
<1>2. kept \in Runtime /\ kept.active = rt.active /\ kept.firedForActive = rt.firedForActive
  BY HelperTypes
<1>3. /\ Locked(kept, p, now) \in Runtime
      /\ Locked(kept, p, now).active = rt.active
      /\ Locked(kept, p, now).firedForActive = rt.firedForActive
  BY <1>2, HelperTypes
<1>4. next \in Runtime /\ next.active = rt.active /\ next.firedForActive = rt.firedForActive
  BY <1>1, <1>2, <1>3
<1>5. rt.firedForActive \in BOOLEAN
  BY DEF Runtime
<1> QED BY <1>4, <1>5 DEF AlarmStep, FiredIsActive

\* A condition on a level, false or in a lock: the alarm flag falls with "active".
LEMMA FalseStep ==
  ASSUME NEW p \in Plan, NEW now \in Clock, NEW rt \in Runtime,
         FiredIsActive(rt), p.mode \notin Changes
  PROVE  /\ EvaluateFalse(p, now, rt).next \in Runtime
         /\ AlarmStep(p, rt, EvaluateFalse(p, now, rt))
         /\ AlarmStep(p, rt, Result(FALSE, Inactive(rt)))
<1> DEFINE result == EvaluateFalse(p, now, rt)
<1>1. Inactive(rt) \in Runtime /\ ~Inactive(rt).active /\ ~Inactive(rt).firedForActive
  BY DEF Inactive, Runtime
<1>2. /\ Locked(Inactive(rt), p, now) \in Runtime
      /\ ~Locked(Inactive(rt), p, now).active
      /\ ~Locked(Inactive(rt), p, now).firedForActive
  <2>1. [kind |-> "nan", value |-> 0] \in Sampled
    BY DEF Sampled
  <2> QED BY <1>1, <2>1, HelperTypes
<1>3. result.next = Inactive(rt) \/ result.next = Locked(Inactive(rt), p, now)
  BY DEF EvaluateFalse, Result
<1>4. result.fire => ~rt.firedForActive
  BY DEF EvaluateFalse, Result
<1>5. rt.firedForActive \in BOOLEAN
  BY DEF Runtime
<1>6. /\ result.next \in Runtime
      /\ ~result.next.active
      /\ ~result.next.firedForActive
  BY <1>1, <1>2, <1>3
<1>7. result.next.firedForActive \in BOOLEAN
  BY <1>6 DEF Runtime
<1>8. Inactive(rt).firedForActive \in BOOLEAN
  BY <1>1 DEF Runtime
<1>9. AlarmStep(p, rt, result)
  BY <1>4, <1>5, <1>6, <1>7 DEF AlarmStep, FiredIsActive
<1>10. AlarmStep(p, rt, Result(FALSE, Inactive(rt)))
  BY <1>1, <1>5, <1>8 DEF AlarmStep, FiredIsActive, Result
<1> QED BY <1>6, <1>9, <1>10

\* A condition on a level that is true: the alarm flag rises with a trigger.
LEMMA TrueStep ==
  ASSUME NEW p \in Plan, NEW now \in Clock, NEW rt \in Runtime,
         FiredIsActive(rt), p.mode \notin Changes
  PROVE  /\ EvaluateTrue(p, now, rt).next \in Runtime
         /\ AlarmStep(p, rt, EvaluateTrue(p, now, rt))
<1> DEFINE run == IF rt.active THEN rt
                  ELSE [rt EXCEPT !.active = TRUE, !.activeSince = now, !.firedForActive = FALSE]
           marked == [run EXCEPT !.firedForActive = TRUE]
           result == EvaluateTrue(p, now, rt)
<1>1. run \in Runtime /\ run.active
  BY DEF Runtime, Clock
<1>2. run.firedForActive = rt.firedForActive
  BY DEF Runtime, FiredIsActive
<1>3. marked \in Runtime /\ marked.active /\ marked.firedForActive
  BY <1>1 DEF Runtime
<1>4. /\ Locked(marked, p, now) \in Runtime
      /\ Locked(marked, p, now).active
      /\ Locked(marked, p, now).firedForActive
  <2>1. [kind |-> "nan", value |-> 0] \in Sampled
    BY DEF Sampled
  <2> HIDE DEF marked
  <2> QED BY <1>3, <2>1, HelperTypes
<1>5. \/ result.fire /\ result.next = Locked(marked, p, now)
      \/ ~result.fire /\ result.next = run
  BY DEF EvaluateTrue, Result
<1> QED BY <1>1, <1>2, <1>4, <1>5 DEF AlarmStep, FiredIsActive

\* evaluateChannelCondition keeps the type of the runtime and the promise to the alarm.
LEMMA ConditionStep ==
  ASSUME NEW p \in Plan, NEW x \in Sampled, NEW now \in Clock, NEW rt \in Runtime,
         FiredIsActive(rt)
  PROVE  /\ EvaluateCondition(p, x, now, rt).next \in Runtime
         /\ AlarmStep(p, rt, EvaluateCondition(p, x, now, rt))
<1>1. AlarmStep(p, rt, Result(FALSE, rt))
  BY DEF AlarmStep, Result, FiredIsActive
<1>2. Result(FALSE, rt).next \in Runtime
  BY DEF Result
<1>3. CASE x.kind = "nan"
  BY <1>1, <1>2, <1>3 DEF EvaluateCondition
<1>4. CASE x.kind # "nan" /\ p.mode \in Changes
  BY <1>4, ChangeStep DEF EvaluateCondition
<1>5. CASE x.kind # "nan" /\ p.mode \notin Changes
  <2>1. EvaluateCondition(p, x, now, rt) = EvaluateLevel(p, x, now, rt)
    BY <1>5 DEF EvaluateCondition
  <2>2. Inactive(rt) \in Runtime /\ Result(FALSE, Inactive(rt)).next = Inactive(rt)
    BY DEF Inactive, Runtime, Result
  <2>3. \/ EvaluateLevel(p, x, now, rt) = Result(FALSE, rt)
        \/ EvaluateLevel(p, x, now, rt) = Result(FALSE, Inactive(rt))
        \/ EvaluateLevel(p, x, now, rt) = EvaluateTrue(p, now, rt)
        \/ EvaluateLevel(p, x, now, rt) = EvaluateFalse(p, now, rt)
    BY DEF EvaluateLevel
  <2> QED BY <1>1, <1>2, <1>5, <2>1, <2>2, <2>3, TrueStep, FalseStep
<1> QED BY <1>3, <1>4, <1>5

-----------------------------------------------------------------------------
\* The invariant: types, and the two flags of the runtime together.
IInv == TypeOK /\ FiredIsActive(runtime)

\* The result of the evaluation a sample causes.
ResultOf(x) == EvaluateCondition(plan, x, Millis, runtime)

\* The facts a sample gives about its evaluation.
LEMMA SampleFacts ==
  ASSUME IInv, NEW x \in Samples
  PROVE  /\ ResultOf(x).next \in Runtime
         /\ AlarmStep(plan, runtime, ResultOf(x))
<1>1. plan \in Plan /\ x \in Sampled
  BY PlanAssumption, SampleAssumption DEF IInv, TypeOK, Sampled
<1>2. Millis \in Clock
  BY ClockType, UptimeAssumption DEF IInv, TypeOK, Millis
<1> QED BY <1>1, <1>2, ConditionStep DEF IInv, TypeOK, ResultOf

\* Every run starts with nothing raised.
LEMMA InitIInv == Init => IInv
  BY UptimeAssumption, WrapAssumption
     DEF Init, IInv, TypeOK, FiredIsActive, FreshRuntime, Runtime, Half

\* Every step keeps the invariant.
LEMMA NextIInv == IInv /\ [Next]_vars => IInv'
<1> SUFFICES ASSUME IInv, [Next]_vars PROVE IInv'
  OBVIOUS
<1>1. ASSUME NEW x \in Samples, Sample(x) PROVE IInv'
  <2>1. runtime' = ResultOf(x).next
    BY <1>1 DEF Sample, ResultOf
  <2>2. runtime' \in Runtime /\ FiredIsActive(runtime')
    BY <2>1, SampleFacts DEF AlarmStep
  <2>3. event' \in {"none", "trigger", "release"}
    BY <1>1 DEF Sample
  <2> QED BY <1>1, <2>2, <2>3 DEF Sample, IInv, TypeOK, FiredIsActive
<1>2. ASSUME NEW p \in Plans, NEW on \in BOOLEAN, Configure(p, on) PROVE IInv'
  BY <1>2 DEF Configure, IInv, TypeOK, FiredIsActive
<1>3. CASE Tick
  BY <1>3, UptimeAssumption DEF Tick, IInv, TypeOK, FiredIsActive
<1>4. CASE UNCHANGED vars
  BY <1>4 DEF vars, IInv, TypeOK, FiredIsActive
<1> QED BY <1>1, <1>2, <1>3, <1>4 DEF Next

\* The runtime record holds what ChannelConditionRuntime declares.
THEOREM TypeCorrect == Spec => []TypeOK
<1>1. IInv => TypeOK
  BY DEF IInv
<1> QED BY <1>1, InitIInv, NextIInv, PTL DEF Spec

-----------------------------------------------------------------------------
\* The moves of the abstract alarm, one by one.
LEMMA AlarmMoves ==
  ASSUME runtime.firedForActive \in BOOLEAN, runtime'.firedForActive \in BOOLEAN,
         \/ event' = "trigger" /\ (runtime'.firedForActive \/ ~runtime.firedForActive)
         \/ event' = "release" /\ runtime.firedForActive /\ ~runtime'.firedForActive
         \/ event' = "none" /\ runtime'.firedForActive = runtime.firedForActive
  PROVE  Alarm!Next
<1> DEFINE outcome == [event |-> event', raised |-> runtime'.firedForActive]
<1>1. outcome \in Alarm!Outcomes(runtime.firedForActive)
  BY DEF Alarm!Outcomes
<1>2. event' = outcome.event /\ runtime'.firedForActive = outcome.raised
  OBVIOUS
<1> QED BY <1>1, <1>2 DEF Alarm!Next, Alarm!Evaluate

\* A step of the rule is an evaluation of the abstract alarm.
LEMMA StepRefines == IInv /\ [Next]_vars => [Alarm!Next]_(Alarm!vars)
<1> SUFFICES ASSUME IInv, [Next]_vars PROVE [Alarm!Next]_(Alarm!vars)
  OBVIOUS
<1> DEFINE raised == runtime.firedForActive
<1>1. raised \in BOOLEAN
  BY DEF IInv, TypeOK, Runtime
<1>2. ASSUME NEW x \in Samples, Sample(x) PROVE Alarm!Next
  <2> DEFINE result == ResultOf(x)
             released == raised /\ ~result.next.active /\ plan.mode \notin Changes
  <2>1. raised' = result.next.firedForActive
    BY <1>2 DEF Sample, ResultOf
  <2>2. event' = IF result.fire THEN "trigger" ELSE IF released THEN "release" ELSE "none"
    BY <1>2 DEF Sample, ResultOf
  <2>3. raised' \in BOOLEAN
    BY <2>1, SampleFacts DEF Runtime
  <2>4. AlarmStep(plan, runtime, result)
    BY SampleFacts
  <2>5. CASE result.fire
    <3>1. event' = "trigger" /\ (raised' \/ ~raised)
      BY <2>1, <2>2, <2>4, <2>5 DEF AlarmStep
    <3> QED BY <1>1, <2>3, <3>1, AlarmMoves
  <2>6. CASE ~result.fire /\ released
    <3>1. event' = "release" /\ raised /\ ~raised'
      BY <2>1, <2>2, <2>4, <2>6 DEF AlarmStep, FiredIsActive
    <3> QED BY <1>1, <2>3, <3>1, AlarmMoves
  <2>7. CASE ~result.fire /\ ~released
    <3>1. event' = "none" /\ raised' = raised
      BY <2>1, <2>2, <2>4, <2>7 DEF AlarmStep
    <3> QED BY <1>1, <2>3, <3>1, AlarmMoves
  <2> QED BY <2>5, <2>6, <2>7
<1>3. ASSUME NEW p \in Plans, NEW on \in BOOLEAN, Configure(p, on) PROVE Alarm!Next
  <2>1. event' = "none" /\ raised' = raised
    BY <1>3 DEF Configure
  <2> QED BY <1>1, <2>1, AlarmMoves
<1>4. CASE Tick
  <2>1. event' = "none" /\ raised' = raised
    BY <1>4 DEF Tick
  <2> QED BY <1>1, <2>1, AlarmMoves
<1>5. CASE UNCHANGED vars
  BY <1>5 DEF vars, Alarm!vars
<1> QED BY <1>2, <1>3, <1>4, <1>5 DEF Next

\* The triggers and releases of a rule alternate as AlarmCondition promises, for every plan
\* and every way of rewriting the rule in between.
THEOREM Refinement == Spec => ImplementsAlarmCondition
<1>1. Init => Alarm!Init
  BY DEF Init, FreshRuntime, Alarm!Init
<1> QED BY <1>1, InitIInv, NextIInv, StepRefines, PTL
     DEF Spec, ImplementsAlarmCondition, Alarm!Spec

-----------------------------------------------------------------------------
(* The clock in real time: millis() is the uptime reduced to its width.    *)

Reduced(n) == n % Wrap

\* Numbers a multiple of the width apart reduce alike.
LEMMA Congruent ==
  ASSUME NEW W \in Nat \ {0}, NEW a \in Int, NEW b \in Int, NEW k \in Int, a = b + W * k
  PROVE  a % W = b % W
<1> DEFINE qa == a \div W
           ra == a % W
           qb == b \div W
           rb == b % W
<1>1. /\ a = W * qa + ra /\ b = W * qb + rb
      /\ qa \in Int /\ qb \in Int /\ ra \in 0 .. W - 1 /\ rb \in 0 .. W - 1
  BY Z3
<1> HIDE DEF qa, ra, qb, rb
<1>2. ra - rb = W * (qb + k - qa)
  BY <1>1, Z3
<1> DEFINE d == qb + k - qa
<1>3. d \in Int /\ ra - rb = W * d /\ ra - rb < W /\ ra - rb > -W
  BY <1>1, <1>2
<1> HIDE DEF d
<1>4. d = 0
  BY <1>1, <1>3, Z3
<1>5. ra = rb
  BY <1>1, <1>3, <1>4, Z3
<1> QED BY <1>5 DEF ra, rb

LEMMA Division ==
  ASSUME NEW W \in Nat \ {0}, NEW n \in Int
  PROVE  \E q \in Int : n = (n % W) + W * q /\ (n % W) \in 0 .. W - 1
<1>1. /\ n = W * (n \div W) + (n % W)
      /\ (n \div W) \in Int /\ (n % W) \in 0 .. W - 1
  BY Z3
<1> DEFINE q == n \div W
           r == n % W
<1>2. n = W * q + r /\ q \in Int /\ r \in 0 .. W - 1
  BY <1>1
<1> HIDE DEF q, r
<1>3. n = r + W * q
  BY <1>2, Z3
<1> QED BY <1>2, <1>3 DEF r

LEMMA WrapWidth == Wrap \in Nat \ {0} /\ Half \in Nat /\ Half >= 1 /\ Wrap = Half + Half
<1>1. Wrap \in Nat /\ Wrap = 2 * Half /\ Half = Wrap \div 2 /\ Half >= 1
  BY WrapAssumption DEF Half
<1>2. \A w \in Nat : w \div 2 \in Int
  OBVIOUS
<1>3. Half \in Int
  BY <1>1, <1>2
<1> HIDE DEF Half
<1> QED BY <1>1, <1>3

\* Real differences and what the code computes of them.
LEMMA ElapsedReal ==
  ASSUME NEW a \in Nat, NEW b \in Nat
  PROVE  /\ Reduced(a) \in Clock
         /\ Elapsed(Reduced(a), Reduced(b)) = Reduced(a - b)
         /\ Reduced(Reduced(a) + b) = Reduced(a + b)
<1>1. Wrap \in Nat \ {0} /\ a \in Int /\ b \in Int
  BY WrapWidth
<1>2. PICK p \in Int : a = (a % Wrap) + Wrap * p /\ (a % Wrap) \in 0 .. Wrap - 1
  BY <1>1, Division
<1>3. PICK q \in Int : b = (b % Wrap) + Wrap * q /\ (b % Wrap) \in 0 .. Wrap - 1
  BY <1>1, Division
<1> DEFINE ra == a % Wrap
           rb == b % Wrap
<1>4. /\ a = ra + Wrap * p /\ b = rb + Wrap * q /\ ra \in 0 .. Wrap - 1 /\ rb \in 0 .. Wrap - 1
  BY <1>2, <1>3
<1> HIDE DEF ra, rb
<1>5. ra \in Int /\ rb \in Int
  BY <1>4
<1>6. (ra - rb) % Wrap = (a - b) % Wrap
  <2>1. ra - rb = (a - b) + Wrap * (q - p)
    BY <1>1, <1>4, <1>5, Z3
  <2>2. ra - rb \in Int /\ a - b \in Int /\ q - p \in Int
    BY <1>5
  <2> DEFINE x == ra - rb
             y == a - b
             k == q - p
  <2>3. x = y + Wrap * k /\ x \in Int /\ y \in Int /\ k \in Int
    BY <2>1, <2>2
  <2> HIDE DEF x, y, k
  <2>4. x % Wrap = y % Wrap
    BY <1>1, <2>3, Congruent
  <2> QED BY <2>4 DEF x, y
<1>7. (ra + b) % Wrap = (a + b) % Wrap
  <2>1. ra + b = (a + b) + Wrap * (-p)
    BY <1>1, <1>4, <1>5, Z3
  <2>2. ra + b \in Int /\ a + b \in Int /\ -p \in Int
    BY <1>5
  <2> DEFINE x == ra + b
             y == a + b
             k == -p
  <2>3. x = y + Wrap * k /\ x \in Int /\ y \in Int /\ k \in Int
    BY <2>1, <2>2
  <2> HIDE DEF x, y, k
  <2>4. x % Wrap = y % Wrap
    BY <1>1, <2>3, Congruent
  <2> QED BY <2>4 DEF x, y
<1> QED BY <1>4, <1>6, <1>7 DEF ra, rb, Elapsed, Reduced, Clock

LEMMA ReducedValue ==
  ASSUME NEW n \in Int
  PROVE  /\ Reduced(n) \in Clock
         /\ n >= 0 => Reduced(n) <= n
         /\ n >= 0 /\ n < Wrap => Reduced(n) = n
         /\ n < 0 /\ n >= -Limit => Reduced(n) >= Half
<1>1. Wrap \in Nat \ {0} /\ Half \in Nat /\ Half >= 1 /\ Wrap = Half + Half /\ Limit = Half - 1
  BY WrapWidth DEF Limit
<1>2. PICK q \in Int : n = (n % Wrap) + Wrap * q /\ (n % Wrap) \in 0 .. Wrap - 1
  BY <1>1, Division
<1> DEFINE r == n % Wrap
<1>3. n = r + Wrap * q /\ r \in Int /\ r >= 0 /\ r < Wrap
  BY <1>1, <1>2
<1> HIDE DEF r, Half, Limit
<1>4. n >= 0 => r <= n
  <2>1. n >= 0 => q >= 0
    BY <1>1, <1>3, Z3
  <2>2. q >= 0 => Wrap * q >= 0
    BY <1>1, Z3
  <2>3. Wrap * q \in Int
    BY <1>1
  <2> QED BY <1>3, <2>1, <2>2, <2>3
<1>5. n >= 0 /\ n < Wrap => r = n
  <2>1. n >= 0 /\ n < Wrap => q = 0
    BY <1>1, <1>3, Z3
  <2> QED BY <1>1, <1>3, <2>1
<1>6. n < 0 /\ n >= -Limit => r >= Half
  <2>1. n < 0 /\ n >= -Limit => n < 0 /\ n >= -Wrap
    BY <1>1
  <2>2. n < 0 /\ n >= -Wrap => q = -1
    BY <1>1, <1>3, Z3
  <2>3. n < 0 /\ n >= -Limit => n = r - Wrap
    BY <1>1, <1>3, <2>1, <2>2
  <2> QED BY <1>1, <1>3, <2>3
<1>7. r \in 0 .. Wrap - 1
  BY <1>2 DEF r
<1> QED BY <1>4, <1>5, <1>6, <1>7 DEF r, Reduced, Clock

-----------------------------------------------------------------------------
(* What the runtime remembers, and what the samples amount to.             *)

History ==
  [fresh : BOOLEAN, since : Nat \cup {None}, reported : BOOLEAN, lockEnd : Nat,
   last : Int, lastAt : Nat \cup {None}]

\* A level condition: active since the sample from which it has held unlocked.
LevelAgrees(p, rt, h) ==
  (h.fresh /\ p.mode \in Levels) =>
    /\ rt.active <=> h.since # None
    /\ rt.active => rt.activeSince = Reduced(h.since)
    /\ rt.firedForActive => h.reported

\* A condition on changes: the last sample that counted.
ChangeAgrees(p, rt, h) ==
  (h.fresh /\ p.mode \in Changes /\ rt.havePrevious) =>
    /\ h.lastAt # None
    /\ rt.previousAt = Reduced(h.lastAt)
    /\ rt.previousValue = h.last

Agrees(p, rt, h, time) ==
  /\ h \in History
  /\ h.since # None => h.since <= time
  /\ h.lastAt # None => h.lastAt <= time
  /\ h.lockEnd <= time + Limit
  /\ rt.lockedUntil = Reduced(h.lockEnd)
  /\ h.reported => rt.firedForActive /\ p.mode \in Levels
  /\ LevelAgrees(p, rt, h)
  /\ ChangeAgrees(p, rt, h)

Recorded == Agrees(plan, runtime, history, uptime)

\* The comparison with the end of the lock is that of real time, except where
\* it has wrapped.
LEMMA LockAgrees ==
  ASSUME IInv, Recorded
  PROVE  /\ UnlockedFor(history) <=> ~Before(Millis, runtime.lockedUntil)
         /\ ~Before(Millis, runtime.lockedUntil) => uptime >= history.lockEnd
<1> DEFINE e == history.lockEnd
           d == uptime - e
<1>1. uptime \in Nat /\ e \in Nat /\ e <= uptime + Limit /\ Half \in Nat /\ Limit = Half - 1
  BY UptimeAssumption, WrapWidth DEF IInv, TypeOK, Recorded, Agrees, History, Limit
<1>2. Elapsed(Millis, runtime.lockedUntil) = Reduced(d)
  BY <1>1, ElapsedReal DEF Recorded, Agrees, Millis, Reduced
<1>3. Elapsed(uptime, e) = Reduced(d)
  BY DEF Elapsed, Reduced
<1>4. d \in Int /\ (d < 0 => d >= -Limit)
  BY <1>1
<1>5. d < 0 => Reduced(d) >= Half
  BY <1>4, ReducedValue
<1>6. uptime >= e <=> ~(d < 0)
  BY <1>1
<1>7. Before(Millis, runtime.lockedUntil) <=> Reduced(d) >= Half
  BY <1>2 DEF Before
<1>8. UnlockedFor(history) <=> uptime >= e /\ ~(Reduced(d) >= Half /\ uptime >= e)
  BY <1>3 DEF UnlockedFor, Deaf
<1> HIDE DEF d, e
<1>9. UnlockedFor(history) <=> ~Before(Millis, runtime.lockedUntil)
  BY <1>5, <1>6, <1>7, <1>8
<1>10. ~Before(Millis, runtime.lockedUntil) => uptime >= e
  BY <1>5, <1>6, <1>7
<1> QED BY <1>9, <1>10 DEF e

\* The real time since an earlier moment is at least what the code measures,
\* and the same within a turn of the clock.
LEMMA SinceAgrees ==
  ASSUME IInv, NEW t \in Nat, t <= uptime
  PROVE  /\ Elapsed(Millis, Reduced(t)) \in Nat
         /\ Elapsed(Millis, Reduced(t)) <= uptime - t
         /\ uptime - t < Wrap => Elapsed(Millis, Reduced(t)) = uptime - t
<1>1. uptime \in Nat
  BY UptimeAssumption DEF IInv, TypeOK
<1>2. Elapsed(Millis, Reduced(t)) = Reduced(uptime - t)
  BY <1>1, ElapsedReal DEF Millis, Reduced
<1>3. uptime - t \in Int /\ uptime - t >= 0
  BY <1>1
<1> DEFINE d == uptime - t
<1>4. d \in Int /\ d >= 0
  BY <1>3
<1> HIDE DEF d
<1>5. /\ Reduced(d) \in Clock /\ Reduced(d) <= d
      /\ d < Wrap => Reduced(d) = d
  BY <1>4, ReducedValue
<1>6. Reduced(d) \in Nat
  BY <1>5, WrapWidth DEF Clock
<1> QED BY <1>2, <1>5, <1>6 DEF d

\* A new lock.
LEMMA LockSet ==
  ASSUME IInv, NEW rt \in Runtime
  PROVE  /\ Locked(rt, plan, Millis).lockedUntil = Reduced(uptime + plan.lockTime)
         /\ uptime + plan.lockTime \in Nat /\ uptime + plan.lockTime <= uptime + Limit
<1>1. uptime \in Nat /\ plan \in Plan /\ Limit \in Nat
  BY UptimeAssumption, PlanAssumption, WrapWidth DEF IInv, TypeOK, Limit
<1>2. plan.lockTime \in Nat /\ plan.lockTime <= Limit
  BY <1>1 DEF Plan
<1>3. Reduced(Reduced(uptime) + plan.lockTime) = Reduced(uptime + plan.lockTime)
  BY <1>1, <1>2, ElapsedReal
<1> QED BY <1>1, <1>2, <1>3 DEF Locked, Millis, Reduced, Runtime

LEMMA LockedFields ==
  ASSUME NEW rt \in Runtime, NEW p, NEW now
  PROVE  /\ Locked(rt, p, now).active = rt.active
         /\ Locked(rt, p, now).firedForActive = rt.firedForActive
         /\ Locked(rt, p, now).activeSince = rt.activeSince
         /\ Locked(rt, p, now).havePrevious = rt.havePrevious
         /\ Locked(rt, p, now).previousAt = rt.previousAt
         /\ Locked(rt, p, now).previousValue = rt.previousValue
  BY DEF Locked, Runtime

-----------------------------------------------------------------------------
(* One sample.                                                             *)

\* What a sample of a condition on changes has to show.
ChangeJustified(x) ==
  /\ uptime >= history.lockEnd
  /\ ~history.reported
  /\ history.fresh =>
       /\ history.lastAt # None /\ Distance(x.value, history.last) >= plan.maximum
       /\ plan.mode = "changeInterval" => uptime - history.lastAt >= plan.changeInterval

LEMMA ChangeSample ==
  ASSUME IInv, Recorded, NEW x \in Samples, x.kind # "nan", plan.mode \in Changes,
         ~Early(plan, Millis, runtime),
         NEW result, result = EvaluateChange(plan, x, Millis, runtime)
  PROVE  /\ Agrees(plan, result.next, Noted(history, plan, x, result.fire), uptime)
         /\ result.fire => ChangeJustified(x)
<1> DEFINE kept == Remember(runtime, x, Millis)
           h == Noted(history, plan, x, result.fire)
           fire == runtime.havePrevious /\ ~Before(Millis, runtime.lockedUntil)
                     /\ Distance(x.value, runtime.previousValue) >= plan.maximum
<1>1. /\ uptime \in Nat /\ plan \in Plan /\ x \in Sampled /\ runtime \in Runtime
      /\ history \in History /\ Millis \in Clock
  BY UptimeAssumption, PlanAssumption, SampleAssumption, ClockType
     DEF IInv, TypeOK, Sampled, Recorded, Agrees, Millis
<1>2. /\ result.fire = fire
      /\ result.next = IF fire THEN Locked(kept, plan, Millis) ELSE kept
  BY DEF EvaluateChange, Result
<1>3. /\ kept \in Runtime /\ kept.havePrevious /\ kept.previousValue = x.value /\ kept.previousAt = Millis
      /\ kept.lockedUntil = runtime.lockedUntil /\ kept.firedForActive = runtime.firedForActive
  BY <1>1, HelperTypes DEF Remember, Runtime
<1>4. plan.mode \notin Levels
  BY DEF Levels, Changes
<1>5. ~Holds(plan, x)
  BY <1>4 DEF Holds
<1>6. /\ h.fresh = TRUE /\ h.since = None /\ h.reported = FALSE
      /\ h.lockEnd = IF result.fire THEN uptime + plan.lockTime ELSE history.lockEnd
      /\ h.last = x.value /\ h.lastAt = uptime
  BY <1>5 DEF Noted
<1>7. /\ h = [fresh |-> h.fresh, since |-> h.since, reported |-> h.reported,
              lockEnd |-> h.lockEnd, last |-> h.last, lastAt |-> h.lastAt]
  BY DEF Noted
<1> HIDE DEF kept, h
<1>8. /\ Locked(kept, plan, Millis).lockedUntil = Reduced(uptime + plan.lockTime)
      /\ uptime + plan.lockTime \in Nat /\ uptime + plan.lockTime <= uptime + Limit
  BY <1>3, LockSet
<1>9. /\ Locked(kept, plan, Millis).havePrevious = kept.havePrevious
      /\ Locked(kept, plan, Millis).previousAt = kept.previousAt
      /\ Locked(kept, plan, Millis).previousValue = kept.previousValue
  <2>1. kept \in Runtime
    BY <1>3
  <2> QED BY <2>1, LockedFields
<1> HIDE DEF fire
<1>10. /\ result.next.lockedUntil = Reduced(h.lockEnd) /\ h.lockEnd \in Nat
       /\ h.lockEnd <= uptime + Limit
  <2>1. CASE fire
    BY <1>2, <1>6, <1>8, <2>1
  <2>2. CASE ~fire
    <3>1. history.lockEnd \in Nat /\ history.lockEnd <= uptime + Limit
          /\ runtime.lockedUntil = Reduced(history.lockEnd)
      BY DEF Recorded, Agrees, History
    <3> QED BY <1>2, <1>3, <1>6, <2>2, <3>1
  <2> QED BY <2>1, <2>2
<1>11. result.next.previousAt = Reduced(h.lastAt) /\ result.next.previousValue = h.last
  BY <1>2, <1>3, <1>6, <1>9 DEF Millis, Reduced
<1>12. h \in History
  <2>1. x.value \in Int
    BY <1>1 DEF Sampled
  <2> QED BY <1>1, <1>6, <1>7, <1>10, <2>1 DEF History
<1>13. h.lastAt # None /\ h.lastAt <= uptime
  BY <1>1, <1>6 DEF None
<1>14. Agrees(plan, result.next, h, uptime)
  BY <1>4, <1>6, <1>10, <1>11, <1>12, <1>13 DEF Agrees, LevelAgrees, ChangeAgrees
<1>15. ASSUME fire PROVE ChangeJustified(x)
  <2>1. /\ runtime.havePrevious /\ ~Before(Millis, runtime.lockedUntil)
        /\ Distance(x.value, runtime.previousValue) >= plan.maximum
    BY <1>15 DEF fire
  <2>2. uptime >= history.lockEnd
    BY <2>1, LockAgrees
  <2>3. ~history.reported
    BY <1>4 DEF Recorded, Agrees
  <2>4. ASSUME history.fresh
        PROVE  /\ history.lastAt # None /\ Distance(x.value, history.last) >= plan.maximum
               /\ plan.mode = "changeInterval" => uptime - history.lastAt >= plan.changeInterval
    <3>1. /\ history.lastAt # None /\ runtime.previousAt = Reduced(history.lastAt)
          /\ runtime.previousValue = history.last /\ history.lastAt \in Nat /\ history.lastAt <= uptime
      BY <2>1, <2>4 DEF Recorded, Agrees, ChangeAgrees, History
    <3>2. ASSUME plan.mode = "changeInterval"
          PROVE uptime - history.lastAt >= plan.changeInterval
      <4>1. ~(Elapsed(Millis, Reduced(history.lastAt)) < plan.changeInterval)
        BY <2>1, <3>1, <3>2 DEF Early
      <4>2. /\ Elapsed(Millis, Reduced(history.lastAt)) \in Nat
            /\ Elapsed(Millis, Reduced(history.lastAt)) <= uptime - history.lastAt
        BY <3>1, SinceAgrees
      <4>3. plan.changeInterval \in Int /\ uptime - history.lastAt \in Int
        BY <1>1, <3>1, WrapWidth DEF Plan, Limit
      <4> QED BY <4>1, <4>2, <4>3
    <3> QED BY <2>1, <3>1, <3>2
  <2> QED BY <2>2, <2>3, <2>4 DEF ChangeJustified
<1> QED BY <1>2, <1>14, <1>15 DEF h

\* The parts of the record that every sample of a level condition leaves right.
LEMMA LevelFrame ==
  ASSUME IInv, Recorded, NEW x \in Samples, plan.mode \in Levels,
         NEW fire \in BOOLEAN, NEW next \in Runtime
  PROVE  LET h == Noted(history, plan, x, fire)
         IN  /\ h \in History
             /\ (/\ fire => next.lockedUntil = Reduced(uptime + plan.lockTime)
                 /\ ~fire => next.lockedUntil = runtime.lockedUntil
                 /\ h.reported => next.firedForActive
                 /\ LevelAgrees(plan, next, h))
                => Agrees(plan, next, h, uptime)
<1> DEFINE h == Noted(history, plan, x, fire)
<1>1. /\ uptime \in Nat /\ plan \in Plan /\ x \in Sampled /\ history \in History
      /\ history.since # None => history.since <= uptime
      /\ history.lockEnd <= uptime + Limit
      /\ runtime.lockedUntil = Reduced(history.lockEnd)
  BY UptimeAssumption, PlanAssumption, SampleAssumption
     DEF IInv, TypeOK, Sampled, Recorded, Agrees
<1>2. uptime + plan.lockTime \in Nat /\ uptime + plan.lockTime <= uptime + Limit
  <2>1. runtime \in Runtime
    BY DEF IInv, TypeOK
  <2> QED BY <2>1, LockSet
<1>3. x.value \in Int
  BY <1>1 DEF Sampled
<1>4. h.fresh \in BOOLEAN /\ h.reported \in BOOLEAN
  <2>1. history.fresh \in BOOLEAN /\ history.reported \in BOOLEAN /\ Holds(plan, x) \in BOOLEAN
    BY <1>1 DEF History, Holds
  <2> QED BY <2>1, Zenon DEF Noted
<1>5. h.since \in Nat \cup {None} /\ (h.since # None => h.since <= uptime)
  <2>1. history.since \in Nat \cup {None} /\ (history.since # None => history.since <= uptime)
    BY <1>1 DEF History
  <2>2. h.since \in {None, uptime, history.since}
    BY DEF Noted
  <2> QED BY <1>1, <2>1, <2>2
<1>6. /\ h.lockEnd = IF fire THEN uptime + plan.lockTime ELSE history.lockEnd
      /\ h.last = x.value /\ h.lastAt = uptime
  BY DEF Noted
<1>7. h.lockEnd \in Nat /\ h.lockEnd <= uptime + Limit
  <2>1. history.lockEnd \in Nat
    BY <1>1 DEF History
  <2> QED BY <1>1, <1>2, <1>6, <2>1
<1>8. h = [fresh |-> h.fresh, since |-> h.since, reported |-> h.reported,
           lockEnd |-> h.lockEnd, last |-> h.last, lastAt |-> h.lastAt]
  BY DEF Noted
<1> HIDE DEF h
<1>9. h \in History
  BY <1>1, <1>3, <1>4, <1>5, <1>6, <1>7, <1>8 DEF History
<1>10. plan.mode \notin Changes
  BY DEF Levels, Changes
<1>11. ASSUME fire => next.lockedUntil = Reduced(uptime + plan.lockTime),
              ~fire => next.lockedUntil = runtime.lockedUntil,
              h.reported => next.firedForActive,
              LevelAgrees(plan, next, h)
       PROVE  Agrees(plan, next, h, uptime)
  <2>1. next.lockedUntil = Reduced(h.lockEnd)
    BY <1>1, <1>6, <1>11
  <2>2. ChangeAgrees(plan, next, h)
    BY <1>10 DEF ChangeAgrees
  <2>3. h.lastAt <= uptime
    BY <1>1, <1>6
  <2> QED BY <1>5, <1>7, <1>9, <1>11, <2>1, <2>2, <2>3 DEF Agrees
<1> QED BY <1>9, <1>11 DEF h

\* What a sample of a level condition has to show: its trigger is justified, and a
\* condition that held long enough is reported.
LevelJustified(next) ==
  /\ uptime >= history.lockEnd
  /\ ~history.reported
  /\ history.fresh =>
       IF Pulses(plan)
       THEN /\ history.since # None /\ next.since = None
            /\ uptime - history.since < Wrap => uptime - history.since < plan.continueTime
       ELSE next.since # None /\ uptime - next.since >= plan.continueTime

HeldReported(x, next) ==
  (/\ history.fresh /\ Holds(plan, x) /\ UnlockedFor(history) /\ ~Pulses(plan)
   /\ uptime - next.since \in plan.continueTime .. Wrap - 1)
    => next.reported

LevelOutcome(x, result) ==
  LET h == Noted(history, plan, x, result.fire)
  IN  /\ Agrees(plan, result.next, h, uptime)
      /\ result.fire => LevelJustified(h)
      /\ HeldReported(x, h)

\* In a lock: nothing triggers; a condition that fails drops the run.
LEMMA LockedSample ==
  ASSUME IInv, Recorded, NEW x \in Samples, x.kind # "nan", plan.mode \in Levels,
         Before(Millis, runtime.lockedUntil),
         NEW result, result = EvaluateLevel(plan, x, Millis, runtime)
  PROVE  LevelOutcome(x, result)
<1> DEFINE h == Noted(history, plan, x, FALSE)
<1>1. runtime \in Runtime /\ history \in History
  BY DEF IInv, TypeOK, Recorded, Agrees
<1>2. ~UnlockedFor(history)
  BY LockAgrees
<1>3. Holds(plan, x) <=> Predicate(plan, x)
  BY DEF Holds
<1>4. result.fire = FALSE
  BY DEF EvaluateLevel, Result
<1>5. HeldReported(x, h)
  BY <1>2 DEF HeldReported
<1>6. Agrees(plan, result.next, h, uptime)
  <2>1. CASE Holds(plan, x)
    <3>1. result.next = runtime
      BY <1>3, <2>1 DEF EvaluateLevel, Result
    <3>2. h.fresh = history.fresh /\ h.since = history.since /\ h.reported = history.reported
      <4>1. history.fresh \in BOOLEAN /\ history.reported \in BOOLEAN
        BY <1>1 DEF History
      <4>2. h.fresh = (history.fresh \/ ~Holds(plan, x))
            /\ h.reported = (Holds(plan, x) /\ (history.reported \/ FALSE))
            /\ h.since = history.since
        BY <1>2, <2>1 DEF Noted
      <4> QED BY <2>1, <4>1, <4>2, Zenon
    <3>3. h.reported => runtime.firedForActive
      BY <3>2 DEF Recorded, Agrees
    <3>4. LevelAgrees(plan, runtime, h)
      BY <3>2 DEF Recorded, Agrees, LevelAgrees
    <3> QED BY <1>1, <3>1, <3>3, <3>4, LevelFrame
  <2>2. CASE ~Holds(plan, x)
    <3>1. result.next = Inactive(runtime)
      BY <1>3, <2>2 DEF EvaluateLevel, Result
    <3>2. h.since = None /\ ~h.reported
      BY <2>2 DEF Noted
    <3>3. /\ Inactive(runtime) \in Runtime /\ ~Inactive(runtime).active /\ ~Inactive(runtime).firedForActive
          /\ Inactive(runtime).lockedUntil = runtime.lockedUntil
      BY <1>1 DEF Inactive, Runtime
    <3>4. LevelAgrees(plan, Inactive(runtime), h)
      BY <3>2, <3>3 DEF LevelAgrees
    <3> HIDE DEF h
    <3>5. Agrees(plan, Inactive(runtime), h, uptime)
      BY <3>2, <3>3, <3>4, LevelFrame DEF h
    <3> QED BY <3>1, <3>5
  <2> QED BY <2>1, <2>2
<1> QED BY <1>4, <1>5, <1>6 DEF LevelOutcome

\* Outside a lock and false: the end of a short pulse triggers.
LEMMA FalseSample ==
  ASSUME IInv, Recorded, NEW x \in Samples, x.kind # "nan", plan.mode \in Levels,
         ~Before(Millis, runtime.lockedUntil), ~Holds(plan, x),
         NEW result, result = EvaluateFalse(plan, Millis, runtime)
  PROVE  LevelOutcome(x, result)
<1> DEFINE h == Noted(history, plan, x, result.fire)
           elapsed == Elapsed(Millis, runtime.activeSince)
           pulse == /\ runtime.active /\ ~runtime.firedForActive
                    /\ plan.continueMode = 0 /\ elapsed < plan.continueTime
           quiet == Inactive(runtime)
<1>1. runtime \in Runtime /\ history \in History /\ plan \in Plan
  BY PlanAssumption DEF IInv, TypeOK, Recorded, Agrees
<1>2. result.fire = pulse /\ result.next = IF pulse THEN Locked(quiet, plan, Millis) ELSE quiet
  BY DEF EvaluateFalse, Result
<1>3. /\ quiet \in Runtime /\ ~quiet.active /\ ~quiet.firedForActive
      /\ quiet.lockedUntil = runtime.lockedUntil
  BY <1>1 DEF Inactive, Runtime
<1> HIDE DEF quiet
<1>4. h.since = None /\ ~h.reported
  BY DEF Noted
<1>5. result.fire \in BOOLEAN
  <2>1. runtime.active \in BOOLEAN
    BY <1>1 DEF Runtime
  <2> HIDE DEF elapsed
  <2> QED BY <1>2, <2>1
<1>6. HeldReported(x, h)
  BY DEF HeldReported
<1>7. Agrees(plan, result.next, h, uptime)
  <2> DEFINE locked == Locked(quiet, plan, Millis)
  <2>1. /\ locked.lockedUntil = Reduced(uptime + plan.lockTime)
        /\ ~locked.active /\ ~locked.firedForActive
    BY <1>3, LockSet, LockedFields
  <2>2. locked \in Runtime
    <3>1. [kind |-> "nan", value |-> 0] \in Sampled /\ Millis \in Clock
      BY ClockType, UptimeAssumption DEF Sampled, IInv, TypeOK, Millis
    <3> QED BY <1>1, <1>3, <3>1, HelperTypes
  <2> HIDE DEF locked, pulse, h
  <2>3. /\ result.next \in Runtime /\ ~result.next.active /\ ~result.next.firedForActive
        /\ result.fire => result.next.lockedUntil = Reduced(uptime + plan.lockTime)
        /\ ~result.fire => result.next.lockedUntil = runtime.lockedUntil
    <3>1. CASE pulse
      BY <1>2, <2>1, <2>2, <3>1 DEF locked
    <3>2. CASE ~pulse
      BY <1>2, <1>3, <3>2
    <3> QED BY <3>1, <3>2
  <2>4. LevelAgrees(plan, result.next, h)
    BY <1>4, <2>3 DEF LevelAgrees
  <2> QED BY <1>4, <1>5, <2>3, <2>4, LevelFrame DEF h
<1>8. ASSUME result.fire PROVE LevelJustified(h)
  <2>1. /\ runtime.active /\ ~runtime.firedForActive /\ plan.continueMode = 0
        /\ elapsed < plan.continueTime
    BY <1>2, <1>8
  <2>2. uptime >= history.lockEnd
    BY LockAgrees
  <2>3. ~history.reported
    BY <2>1 DEF Recorded, Agrees
  <2>4. elapsed \in Nat
    <3>1. runtime.activeSince \in Nat /\ uptime \in Nat
      BY <1>1, UptimeAssumption, WrapWidth DEF Runtime, IInv, TypeOK
    <3>2. Millis - runtime.activeSince \in Int
      BY <3>1, WrapWidth DEF Millis
    <3>3. Reduced(Millis - runtime.activeSince) \in Clock
      BY <3>2, ReducedValue
    <3> QED BY <3>3, WrapWidth DEF Elapsed, Reduced, Clock
  <2>5. Pulses(plan)
    <3>1. plan.continueTime \in Int
      BY <1>1, WrapWidth DEF Plan, Limit
    <3> HIDE DEF elapsed
    <3> QED BY <2>1, <2>4, <3>1 DEF Pulses
  <2>6. ASSUME history.fresh
        PROVE  /\ history.since # None
               /\ uptime - history.since < Wrap => uptime - history.since < plan.continueTime
    <3>1. /\ history.since # None /\ runtime.activeSince = Reduced(history.since)
          /\ history.since \in Nat /\ history.since <= uptime
      BY <1>1, <2>1, <2>6 DEF Recorded, Agrees, LevelAgrees, History
    <3>2. uptime - history.since < Wrap => elapsed = uptime - history.since
      BY <3>1, SinceAgrees
    <3> HIDE DEF elapsed
    <3> QED BY <2>1, <3>1, <3>2
  <2> HIDE DEF h
  <2> QED BY <1>4, <2>2, <2>3, <2>5, <2>6 DEF LevelJustified
<1> QED BY <1>6, <1>7, <1>8 DEF LevelOutcome

\* Outside a lock and true: it triggers at once or after it was held.
LEMMA TrueSample ==
  ASSUME IInv, Recorded, NEW x \in Samples, x.kind # "nan", plan.mode \in Levels,
         ~Before(Millis, runtime.lockedUntil), Holds(plan, x),
         NEW result, result = EvaluateTrue(plan, Millis, runtime)
  PROVE  LevelOutcome(x, result)
<1> DEFINE h == Noted(history, plan, x, result.fire)
           run == IF runtime.active THEN runtime
                  ELSE [runtime EXCEPT !.active = TRUE, !.activeSince = Millis, !.firedForActive = FALSE]
           marked == [run EXCEPT !.firedForActive = TRUE]
           elapsed == Elapsed(Millis, run.activeSince)
           held == \/ plan.continueTime = 0
                   \/ plan.continueMode = 1 /\ elapsed >= plan.continueTime
           fire == ~run.firedForActive /\ held
<1>1. /\ runtime \in Runtime /\ history \in History /\ plan \in Plan /\ uptime \in Nat
      /\ Millis \in Clock /\ Millis = Reduced(uptime)
      /\ runtime.firedForActive => runtime.active
  BY PlanAssumption, UptimeAssumption, ClockType
     DEF IInv, TypeOK, Recorded, Agrees, FiredIsActive, Millis, Reduced
<1>2. result.fire = fire /\ result.next = IF fire THEN Locked(marked, plan, Millis) ELSE run
  BY DEF EvaluateTrue, Result
<1>3. /\ run \in Runtime /\ run.active /\ run.lockedUntil = runtime.lockedUntil
      /\ run.firedForActive = runtime.firedForActive
      /\ run.activeSince = IF runtime.active THEN runtime.activeSince ELSE Reduced(uptime)
  BY <1>1 DEF Runtime, Clock
<1> HIDE DEF run
<1>4. /\ marked \in Runtime /\ marked.active /\ marked.firedForActive
      /\ marked.lockedUntil = run.lockedUntil /\ marked.activeSince = run.activeSince
  BY <1>3 DEF Runtime
<1> HIDE DEF marked
<1>5. fire \in BOOLEAN
  <2>1. run.firedForActive \in BOOLEAN
    BY <1>3 DEF Runtime
  <2> HIDE DEF held
  <2> QED BY <2>1
<1>6. UnlockedFor(history) /\ uptime >= history.lockEnd
  BY LockAgrees
<1>7. h.since = (IF history.since = None THEN uptime ELSE history.since)
  BY <1>6 DEF Noted
<1>8. h.fresh = history.fresh
  <2>1. history.fresh \in BOOLEAN
    BY <1>1 DEF History
  <2> QED BY <2>1, Zenon DEF Noted
<1>9. h.reported <=> history.reported \/ result.fire
  BY DEF Noted
<1> HIDE DEF h
\* the run the code remembers is the one the samples amount to
<1>10. h.since # None /\ h.since \in Nat /\ h.since <= uptime
  BY <1>1, <1>7 DEF None, Recorded, Agrees, History
<1>11. ASSUME history.fresh PROVE run.activeSince = Reduced(h.since)
  <2>1. runtime.active <=> history.since # None
    BY <1>11 DEF Recorded, Agrees, LevelAgrees
  <2>2. runtime.active => runtime.activeSince = Reduced(history.since)
    BY <1>11 DEF Recorded, Agrees, LevelAgrees
  <2> QED BY <1>3, <1>7, <2>1, <2>2
<1>12. /\ history.reported => runtime.firedForActive
       /\ history.fresh /\ runtime.firedForActive => history.reported
  BY DEF Recorded, Agrees, LevelAgrees
<1>13. ASSUME history.fresh
       PROVE  /\ elapsed \in Nat /\ elapsed <= uptime - h.since
              /\ uptime - h.since < Wrap => elapsed = uptime - h.since
  <2>1. elapsed = Elapsed(Millis, Reduced(h.since))
    BY <1>11, <1>13
  <2> QED BY <1>10, <2>1, SinceAgrees
<1>14. plan.continueTime \in Nat /\ plan.continueMode \in {0, 1}
  BY <1>1, WrapWidth DEF Plan, Limit
<1> HIDE DEF elapsed
<1>15. Agrees(plan, result.next, h, uptime)
  <2> DEFINE locked == Locked(marked, plan, Millis)
  <2>1. /\ locked.lockedUntil = Reduced(uptime + plan.lockTime)
        /\ locked.active /\ locked.firedForActive /\ locked.activeSince = run.activeSince
    BY <1>4, LockSet, LockedFields
  <2>2. locked \in Runtime
    <3>1. [kind |-> "nan", value |-> 0] \in Sampled
      BY DEF Sampled
    <3> QED BY <1>1, <1>4, <3>1, HelperTypes
  <2> HIDE DEF locked, fire
  <2>3. /\ result.next \in Runtime /\ result.next.active
        /\ result.next.activeSince = run.activeSince
        /\ result.fire => result.next.lockedUntil = Reduced(uptime + plan.lockTime)
        /\ ~result.fire => result.next.lockedUntil = runtime.lockedUntil
    <3>1. CASE fire
      BY <1>2, <2>1, <2>2, <3>1 DEF locked
    <3>2. CASE ~fire
      BY <1>2, <1>3, <3>2
    <3> QED BY <3>1, <3>2
  <2>4. /\ h.reported => result.next.firedForActive
        /\ history.fresh /\ result.next.firedForActive => h.reported
    <3>1. CASE fire
      BY <1>2, <1>9, <2>1, <3>1 DEF locked
    <3>2. CASE ~fire
      BY <1>2, <1>3, <1>9, <1>12, <3>2
    <3> QED BY <3>1, <3>2
  <2>5. LevelAgrees(plan, result.next, h)
    BY <1>8, <1>10, <1>11, <2>3, <2>4 DEF LevelAgrees
  <2>6. result.fire \in BOOLEAN
    BY <1>2, <1>5
  <2> QED BY <2>3, <2>4, <2>5, <2>6, LevelFrame DEF h
<1>16. ASSUME result.fire PROVE LevelJustified(h)
  <2>1. ~run.firedForActive /\ held
    BY <1>2, <1>16
  <2>2. ~history.reported
    BY <1>3, <1>12, <2>1
  <2>3. ~Pulses(plan)
    BY <1>14, <2>1 DEF Pulses
  <2>4. ASSUME history.fresh PROVE uptime - h.since >= plan.continueTime
    <3>1. CASE plan.continueTime = 0
      BY <1>1, <1>10, <3>1
    <3>2. CASE plan.continueTime # 0
      <4>1. elapsed >= plan.continueTime
        BY <2>1, <3>2
      <4> QED BY <1>1, <1>10, <1>13, <1>14, <2>4, <4>1
    <3> QED BY <3>1, <3>2
  <2> QED BY <1>6, <1>10, <2>2, <2>3, <2>4 DEF LevelJustified
<1>17. HeldReported(x, h)
  <2> SUFFICES ASSUME history.fresh, ~Pulses(plan),
                      uptime - h.since \in plan.continueTime .. Wrap - 1
               PROVE  h.reported
    BY DEF HeldReported
  <2>1. uptime - h.since >= plan.continueTime /\ uptime - h.since < Wrap
    BY <1>1, <1>10, <1>14, WrapWidth
  <2>2. elapsed >= plan.continueTime
    BY <1>13, <2>1
  <2>3. plan.continueTime = 0 \/ plan.continueMode = 1
    BY <1>14 DEF Pulses
  <2>4. held
    BY <2>2, <2>3
  <2> HIDE DEF held
  <2>5. CASE run.firedForActive
    BY <1>3, <1>9, <1>12, <2>5
  <2>6. CASE ~run.firedForActive
    BY <1>2, <1>9, <2>4, <2>6
  <2> QED BY <2>5, <2>6
<1> QED BY <1>15, <1>16, <1>17 DEF LevelOutcome, h

\* Every sample of a level condition.
LEMMA LevelSample ==
  ASSUME IInv, Recorded, NEW x \in Samples, x.kind # "nan", plan.mode \in Levels,
         NEW result, result = EvaluateLevel(plan, x, Millis, runtime)
  PROVE  LevelOutcome(x, result)
<1>1. Holds(plan, x) <=> Predicate(plan, x)
  BY DEF Holds
<1>2. CASE Before(Millis, runtime.lockedUntil)
  BY <1>2, LockedSample
<1>3. CASE ~Before(Millis, runtime.lockedUntil) /\ Holds(plan, x)
  <2>1. result = EvaluateTrue(plan, Millis, runtime)
    BY <1>1, <1>3 DEF EvaluateLevel
  <2> QED BY <1>3, <2>1, TrueSample
<1>4. CASE ~Before(Millis, runtime.lockedUntil) /\ ~Holds(plan, x)
  <2>1. result = EvaluateFalse(plan, Millis, runtime)
    BY <1>1, <1>4 DEF EvaluateLevel
  <2> QED BY <1>4, <2>1, FalseSample
<1> QED BY <1>2, <1>3, <1>4

-----------------------------------------------------------------------------
(* The rule.                                                               *)

\* What a step of the rule has to show.
TriggerJustified ==
  event' = "trigger" =>
    /\ uptime >= history.lockEnd
    /\ ~history.reported
    /\ history.fresh => Justified

HeldLevelReported(x) ==
  (Sample(x) /\ history.fresh /\ plan.mode \in Levels /\ Holds(plan, x)
     /\ UnlockedFor(history) /\ ~Pulses(plan)
     /\ uptime - history'.since \in plan.continueTime .. Wrap - 1)
    => history'.reported

LEMMA SampleRecorded ==
  ASSUME IInv, Recorded, NEW x \in Samples, Sample(x)
  PROVE  Recorded' /\ TriggerJustified /\ HeldLevelReported(x)
<1> DEFINE result == ResultOf(x)
           next == history'
<1>1. /\ plan' = plan /\ uptime' = uptime /\ runtime' = result.next
      /\ history' = IF x.kind = "nan" \/ (plan.mode \in Changes /\ Early(plan, Millis, runtime))
                    THEN history ELSE Noted(history, plan, x, result.fire)
  BY DEF Sample, ResultOf
<1>2. event' = "trigger" <=> result.fire
  BY DEF Sample, ResultOf
<1>3. plan.mode \in Levels \/ plan.mode \in Changes
  BY PlanAssumption DEF IInv, TypeOK, Plan
<1>4. ~(plan.mode \in Levels /\ plan.mode \in Changes)
  BY DEF Levels, Changes
<1>5. CASE x.kind = "nan" \/ (plan.mode \in Changes /\ Early(plan, Millis, runtime))
  <2>1. result = Result(FALSE, runtime)
    BY <1>5 DEF ResultOf, EvaluateCondition, EvaluateChange
  <2>2. ~result.fire /\ result.next = runtime
    BY <2>1 DEF Result
  <2>3. runtime' = runtime /\ history' = history
    BY <1>1, <1>5, <2>2
  <2>4. Recorded'
    BY <1>1, <2>3 DEF Recorded
  <2>5. TriggerJustified
    BY <1>2, <2>2 DEF TriggerJustified
  <2>6. HeldLevelReported(x)
    BY <1>4, <1>5 DEF HeldLevelReported, Holds
  <2> QED BY <2>4, <2>5, <2>6
<1>6. CASE x.kind # "nan" /\ plan.mode \in Changes /\ ~Early(plan, Millis, runtime)
  <2>1. result = EvaluateChange(plan, x, Millis, runtime)
    BY <1>6 DEF ResultOf, EvaluateCondition
  <2> HIDE DEF result
  <2>2. history' = Noted(history, plan, x, result.fire)
    BY <1>1, <1>6
  <2>3. /\ Agrees(plan, result.next, Noted(history, plan, x, result.fire), uptime)
        /\ result.fire => ChangeJustified(x)
    BY <1>6, <2>1, ChangeSample
  <2>4. Recorded'
    BY <1>1, <2>2, <2>3 DEF Recorded
  <2>5. history'.last = x.value
    BY <2>2 DEF Noted
  <2>6. TriggerJustified
    BY <1>2, <1>6, <2>3, <2>5 DEF TriggerJustified, ChangeJustified, Justified
  <2>7. HeldLevelReported(x)
    BY <1>4, <1>6 DEF HeldLevelReported
  <2> QED BY <2>4, <2>6, <2>7
<1>7. CASE x.kind # "nan" /\ plan.mode \in Levels
  <2>1. result = EvaluateLevel(plan, x, Millis, runtime)
    BY <1>4, <1>7 DEF ResultOf, EvaluateCondition
  <2> HIDE DEF result
  <2>2. history' = Noted(history, plan, x, result.fire)
    BY <1>1, <1>4, <1>7
  <2>3. LevelOutcome(x, result)
    BY <1>7, <2>1, LevelSample
  <2>4. /\ Agrees(plan, result.next, history', uptime)
        /\ result.fire => LevelJustified(history')
        /\ HeldReported(x, history')
    BY <2>2, <2>3 DEF LevelOutcome
  <2>5. Recorded'
    BY <1>1, <2>4 DEF Recorded
  <2>6. TriggerJustified
    BY <1>2, <1>4, <1>7, <2>4 DEF TriggerJustified, LevelJustified, Justified
  <2>7. HeldLevelReported(x)
    BY <2>4 DEF HeldReported, HeldLevelReported
  <2> QED BY <2>5, <2>6, <2>7
<1> QED BY <1>3, <1>5, <1>6, <1>7

LEMMA InitRecorded == Init => Recorded
<1> SUFFICES ASSUME Init PROVE Recorded
  OBVIOUS
<1>1. /\ runtime = FreshRuntime /\ uptime = 0
      /\ history = [fresh |-> TRUE, since |-> None, reported |-> FALSE, lockEnd |-> 0,
                    last |-> None, lastAt |-> None]
  BY DEF Init, NoHistory
<1>2. Reduced(0) = 0 /\ Limit \in Nat
  BY WrapWidth, ReducedValue DEF Limit
<1>3. history \in History
  BY <1>1 DEF History, None
<1> QED BY <1>1, <1>2, <1>3
        DEF Recorded, Agrees, LevelAgrees, ChangeAgrees, FreshRuntime

LEMMA ConfigureRecorded ==
  ASSUME IInv, Recorded, NEW p \in Plans, NEW on \in BOOLEAN, Configure(p, on)
  PROVE  Recorded' /\ TriggerJustified
<1>1. /\ runtime' = runtime /\ uptime' = uptime /\ event' = "none"
      /\ history' = [fresh |-> FALSE, since |-> None, reported |-> FALSE,
                     lockEnd |-> history.lockEnd, last |-> None, lastAt |-> None]
  BY DEF Configure, NoHistory
<1>2. /\ history.lockEnd \in Nat /\ history.lockEnd <= uptime + Limit
      /\ runtime.lockedUntil = Reduced(history.lockEnd)
  BY DEF Recorded, Agrees, History
<1>3. history' \in History
  BY <1>1, <1>2 DEF History, None
<1>4. Agrees(plan', runtime', history', uptime')
  BY <1>1, <1>2, <1>3 DEF Agrees, LevelAgrees, ChangeAgrees
<1> QED BY <1>1, <1>4 DEF Recorded, TriggerJustified

LEMMA TickRecorded ==
  ASSUME IInv, Recorded, Tick
  PROVE  Recorded' /\ TriggerJustified
<1>1. /\ runtime' = runtime /\ uptime' = uptime + 1 /\ event' = "none"
      /\ history' = history /\ plan' = plan
  BY DEF Tick
<1>2. /\ history \in History /\ uptime \in Nat /\ Limit \in Nat
      /\ history.since # None => history.since <= uptime
      /\ history.lastAt # None => history.lastAt <= uptime
      /\ history.lockEnd <= uptime + Limit
  BY UptimeAssumption, WrapWidth DEF IInv, TypeOK, Recorded, Agrees, Limit
<1>3. /\ history.since # None => history.since <= uptime + 1
      /\ history.lastAt # None => history.lastAt <= uptime + 1
      /\ history.lockEnd <= (uptime + 1) + Limit
  BY <1>2 DEF History, None
<1>4. Agrees(plan, runtime, history, uptime + 1)
  BY <1>2, <1>3 DEF Recorded, Agrees
<1> QED BY <1>1, <1>4 DEF Recorded, TriggerJustified

\* Every step keeps the record true, and triggers only what the samples justify.
LEMMA StepRecorded ==
  IInv /\ Recorded /\ [Next]_vars =>
    /\ Recorded'
    /\ [TriggerJustified]_vars
    /\ [\A x \in Samples : HeldLevelReported(x)]_vars
<1> SUFFICES ASSUME IInv, Recorded, [Next]_vars
             PROVE  /\ Recorded'
                    /\ TriggerJustified \/ UNCHANGED vars
                    /\ \A x \in Samples : HeldLevelReported(x)
  OBVIOUS
<1>1. \A x \in Samples : HeldLevelReported(x)
  <2> SUFFICES ASSUME NEW x \in Samples, Sample(x) PROVE HeldLevelReported(x)
    BY DEF HeldLevelReported
  <2> QED BY SampleRecorded
<1>2. CASE UNCHANGED vars
  BY <1>1, <1>2 DEF vars, Recorded
<1>3. CASE Next
  <2>1. ASSUME NEW x \in Samples, Sample(x) PROVE Recorded' /\ TriggerJustified
    BY <2>1, SampleRecorded
  <2>2. ASSUME NEW p \in Plans, NEW on \in BOOLEAN, Configure(p, on)
        PROVE  Recorded' /\ TriggerJustified
    BY <2>2, ConfigureRecorded
  <2>3. ASSUME Tick PROVE Recorded' /\ TriggerJustified
    BY <2>3, TickRecorded
  <2> QED BY <1>1, <1>3, <2>1, <2>2, <2>3 DEF Next
<1> QED BY <1>2, <1>3

\* No false trigger: a rule fires only outside the lock of its last trigger, once while its
\* condition holds, and only when the samples since it was set show it in real time, however
\* often millis() wraps in between.
THEOREM Triggers == Spec => TriggersJustified
<1>1. IInv /\ Recorded /\ [Next]_vars =>
        [event' = "trigger" =>
           /\ uptime >= history.lockEnd
           /\ ~history.reported
           /\ history.fresh => Justified]_vars
  BY StepRecorded DEF TriggerJustified
<1>2. IInv /\ Recorded /\ [Next]_vars => Recorded'
  BY StepRecorded
<1> QED BY <1>1, <1>2, InitIInv, InitRecorded, NextIInv, PTL
     DEF Spec, TriggersJustified

\* No missed trigger: the sample that shows a condition held for its time, outside a lock,
\* finds it reported within a turn of millis().
THEOREM Reported == Spec => ConditionsReported
<1>1. IInv /\ Recorded /\ [Next]_vars =>
        [\A x \in Samples :
           (Sample(x) /\ history.fresh /\ plan.mode \in Levels /\ Holds(plan, x)
              /\ UnlockedFor(history) /\ ~Pulses(plan)
              /\ uptime - history'.since \in plan.continueTime .. Wrap - 1)
             => history'.reported]_vars
  BY StepRecorded DEF HeldLevelReported
<1>2. IInv /\ Recorded /\ [Next]_vars => Recorded'
  BY StepRecorded
<1> QED BY <1>1, <1>2, InitIInv, InitRecorded, NextIInv, PTL
     DEF Spec, ConditionsReported

-----------------------------------------------------------------------------
(* The minute of the day: TimedRule, of which nothing is used above.       *)

\* The divisions of the calendar.  The numbers have names so that a proof sees
\* what it needs of them and no more.
Whole(n, k) == n \div k
Covers(n, k, q) == k * q <= n /\ n < k * q + k

Year == 365
FourYears == 1460
Century == 36524
FourCenturies == 146096
YearsOfEra == 400
Four == 4
Hundred == 100
DayMinutes == 1440

\* What each of the divisions gives.
LEMMA ByFour == \A n \in Int : Whole(n, Four) \in Int /\ Covers(n, Four, Whole(n, Four))
  BY Z3 DEF Whole, Covers, Four
LEMMA ByHundred == \A n \in Int : Whole(n, Hundred) \in Int /\ Covers(n, Hundred, Whole(n, Hundred))
  BY Z3 DEF Whole, Covers, Hundred
LEMMA ByYear == \A n \in Int : Whole(n, Year) \in Int /\ Covers(n, Year, Whole(n, Year))
  BY Z3 DEF Whole, Covers, Year
LEMMA ByFourYears ==
  \A n \in Int : Whole(n, FourYears) \in Int /\ Covers(n, FourYears, Whole(n, FourYears))
  BY Z3 DEF Whole, Covers, FourYears
LEMMA ByCentury ==
  \A n \in Int : Whole(n, Century) \in Int /\ Covers(n, Century, Whole(n, Century))
  BY Z3 DEF Whole, Covers, Century
LEMMA ByFourCenturies ==
  \A n \in Int : Whole(n, FourCenturies) \in Int /\ Covers(n, FourCenturies, Whole(n, FourCenturies))
  BY Z3 DEF Whole, Covers, FourCenturies
LEMMA ByEra ==
  \A n \in Int : /\ Whole(n, EraDays) \in Int
                 /\ n % EraDays \in Int
                 /\ n = EraDays * Whole(n, EraDays) + (n % EraDays)
                 /\ 0 <= n % EraDays /\ n % EraDays < EraDays
  BY Z3 DEF Whole, EraDays
LEMMA ByDay ==
  \A n \in Int : Whole(n, DayMinutes) \in Int /\ Covers(n, DayMinutes, Whole(n, DayMinutes))
  BY Z3 DEF Whole, Covers, DayMinutes

\* Divisions of day doe of an era into the year y of the era and its day doy.
Split(doe, a, b, c, t, y, q, h, doy) ==
  /\ Covers(doe, FourYears, a) /\ Covers(doe, Century, b) /\ Covers(doe, FourCenturies, c)
  /\ t = doe - a + b - c
  /\ Covers(t, Year, y) /\ Covers(y, Four, q) /\ Covers(y, Hundred, h)
  /\ doy = doe - (Year * y + q - h)

\* So many days are so many mean years of the calendar, up to a year.
NearMean(days, years) ==
  /\ EraDays * years <= YearsOfEra * days + 1000
  /\ YearsOfEra * days <= EraDays * years + 150000

\* The year of the era and its day are close to what the mean year gives.
LEMMA SplitFacts ==
  \A doe, a, b, c, t, y, q, h, doy \in Int :
    0 <= doe /\ doe < EraDays /\ Split(doe, a, b, c, t, y, q, h, doy)
      => NearMean(doe, y) /\ -60 <= doy
  BY Z3T(30)
     DEF NearMean, YearsOfEra, EraDays, Split, Covers, FourYears, Century,
         FourCenturies, Year, Four, Hundred

\* DateTimeFromEpoch, step by step.
EraYear(doe) ==
  Whole(doe - Whole(doe, FourYears) + Whole(doe, Century) - Whole(doe, FourCenturies), Year)
DayOfYear(doe) ==
  doe - (Year * EraYear(doe) + Whole(EraYear(doe), Four) - Whole(EraYear(doe), Hundred))
MarchMonth(doy) == (5 * doy + 2) \div 153
CivilMonth(mp) == IF mp < 10 THEN mp + 3 ELSE mp - 9
Days(minutes) == Whole(minutes, DayMinutes) + Epoch
MonthOf(minutes) == CivilMonth(MarchMonth(DayOfYear(Days(minutes) % EraDays)))
DayOf(minutes) ==
  DayOfYear(Days(minutes) % EraDays)
    - (153 * MarchMonth(DayOfYear(Days(minutes) % EraDays)) + 2) \div 5 + 1
YearOf(minutes) ==
  EraYear(Days(minutes) % EraDays) + Whole(Days(minutes), EraDays) * YearsOfEra
    + (IF MonthOf(minutes) <= 2 THEN 1 ELSE 0)

\* The two divisions of an era's days.
LEMMA EraSteps ==
  \A doe : YearInEra(doe) = EraYear(doe) /\ DayInYear(doe, EraYear(doe)) = DayOfYear(doe)
<1>1. \A doe : YearInEra(doe) = EraYear(doe)
  BY SMT DEF YearInEra, EraYear, Whole, FourYears, Century, FourCenturies, Year
<1>2. \A doe, y : DayInYear(doe, y) = doe - (Year * y + Whole(y, Four) - Whole(y, Hundred))
  BY SMT DEF DayInYear, Whole, Four, Hundred, Year
<1> QED BY <1>1, <1>2, SMT DEF DayOfYear

\* The fields of a date are those of its day.
LEMMA DateOfMinute ==
  ASSUME NEW minutes \in Int
  PROVE  DateTimeFromEpoch(minutes) =
           LocalDateTime(YearOf(minutes), MonthOf(minutes), DayOf(minutes), minutes % DayMinutes)
  BY EraSteps, SMT
     DEF DateTimeFromEpoch, YearOf, MonthOf, DayOf, Days, CivilMonth, MarchMonth,
         Whole, DayMinutes, YearsOfEra

LEMMA DateFields ==
  ASSUME NEW minutes \in Int
  PROVE  /\ DateTimeFromEpoch(minutes).year = YearOf(minutes)
         /\ DateTimeFromEpoch(minutes).month = MonthOf(minutes)
<1>1. \A y, mo, d, m : LocalDateTime(y, mo, d, m).year = y /\ LocalDateTime(y, mo, d, m).month = mo
  BY SMT DEF LocalDateTime
<1>2. PICK d, m : DateTimeFromEpoch(minutes) = LocalDateTime(YearOf(minutes), MonthOf(minutes), d, m)
  BY DateOfMinute, Zenon
<1> QED BY <1>1, <1>2, SMT

\* No day of a year has month 0.
LEMMA MonthIsAMonth ==
  \A doy \in Int : -60 <= doy => CivilMonth(MarchMonth(doy)) # 0
  BY Z3 DEF CivilMonth, MarchMonth

\* The same of a day of an era.
LEMMA EraFacts ==
  ASSUME NEW doe \in Int, 0 <= doe, doe < EraDays
  PROVE  /\ EraYear(doe) \in Int
         /\ DayOfYear(doe) \in Int
         /\ NearMean(doe, EraYear(doe))
         /\ -60 <= DayOfYear(doe)
<1>2. PICK a \in Int : a = Whole(doe, FourYears) /\ Covers(doe, FourYears, a)
  BY ByFourYears
<1>3. PICK b \in Int : b = Whole(doe, Century) /\ Covers(doe, Century, b)
  BY ByCentury
<1>4. PICK c \in Int : c = Whole(doe, FourCenturies) /\ Covers(doe, FourCenturies, c)
  BY ByFourCenturies
<1>5. PICK t \in Int : t = doe - a + b - c
  OBVIOUS
<1>6. PICK y \in Int : y = Whole(t, Year) /\ Covers(t, Year, y)
  BY ByYear
<1>7. PICK q \in Int : q = Whole(y, Four) /\ Covers(y, Four, q)
  BY ByFour
<1>8. PICK h \in Int : h = Whole(y, Hundred) /\ Covers(y, Hundred, h)
  BY ByHundred
<1>9. PICK doy \in Int : doy = doe - (Year * y + q - h)
  BY DEF Year
<1>10. Split(doe, a, b, c, t, y, q, h, doy)
  BY <1>2, <1>3, <1>4, <1>5, <1>6, <1>7, <1>8, <1>9 DEF Split
<1>11. NearMean(doe, y) /\ -60 <= doy
  BY <1>10, SplitFacts, Zenon
<1>12. EraYear(doe) = y
  BY <1>2, <1>3, <1>4, <1>5, <1>6 DEF EraYear
<1>13. DayOfYear(doe) = doy
  BY <1>7, <1>8, <1>9, <1>12 DEF DayOfYear
<1> QED BY <1>11, <1>12, <1>13

\* Years of a day, in all eras.
LEMMA YearsAndEras ==
  \A n, e, doe, y, s \in Int :
    n = EraDays * e + doe /\ NearMean(doe, y) /\ s \in {0, 1}
      => /\ EraDays * (y + e * YearsOfEra + s) <= YearsOfEra * n + 147097
         /\ YearsOfEra * n <= EraDays * (y + e * YearsOfEra + s) + 150000
  BY Z3T(30) DEF NearMean, EraDays, YearsOfEra

\* The year of a date follows its days.
Follows(minutes, year) ==
  /\ EraDays * year <= YearsOfEra * Days(minutes) + 147097
  /\ YearsOfEra * Days(minutes) <= EraDays * year + 150000

\* What the proof needs of the calendar.
LEMMA CalendarFacts ==
  ASSUME NEW minutes \in Int
  PROVE  /\ DateTimeFromEpoch(minutes).month # 0
         /\ DateTimeFromEpoch(minutes).year \in Int
         /\ Follows(minutes, DateTimeFromEpoch(minutes).year)
<1>1. PICK n \in Int : n = Days(minutes)
  BY ByDay DEF Days, Epoch
<1>2. PICK e \in Int : e = Whole(n, EraDays)
  BY ByEra
<1>3. PICK doe \in Int : doe = n % EraDays
  BY ByEra
<1>4. n = EraDays * e + doe /\ 0 <= doe /\ doe < EraDays
  BY <1>2, <1>3, ByEra
<1>5. /\ EraYear(doe) \in Int
      /\ DayOfYear(doe) \in Int
      /\ NearMean(doe, EraYear(doe))
      /\ -60 <= DayOfYear(doe)
  BY <1>4, EraFacts
<1>6. MonthOf(minutes) = CivilMonth(MarchMonth(DayOfYear(doe)))
  BY <1>1, <1>3 DEF MonthOf
<1>7. MonthOf(minutes) # 0
  BY <1>5, <1>6, MonthIsAMonth
<1>8. PICK y \in Int : y = EraYear(doe)
  BY <1>5
<1>9. PICK s \in {0, 1} : s = IF MonthOf(minutes) <= 2 THEN 1 ELSE 0
  OBVIOUS
<1>10. YearOf(minutes) = y + e * YearsOfEra + s
  BY <1>1, <1>2, <1>3, <1>8, <1>9 DEF YearOf
<1>11. YearOf(minutes) \in Int
  BY <1>10 DEF YearsOfEra
<1>12. Follows(minutes, YearOf(minutes))
  BY <1>1, <1>4, <1>5, <1>8, <1>10, YearsAndEras DEF Follows
<1> QED BY <1>7, <1>11, <1>12, DateFields

\* Instants of one life, as the clock shows them, are as many days apart.
LEMMA DayDifference ==
  \A m, n \in Int : m - n >= -120 /\ m - n <= LongestLife + 120
    => Whole(m, DayMinutes) - Whole(n, DayMinutes) >= -1
       /\ Whole(m, DayMinutes) - Whole(n, DayMinutes) <= 43801
  BY Z3T(30) DEF Whole, DayMinutes, LongestLife

\* ... and less than 128 years, so that the seven bits tell the years apart.
LEMMA YearDifference ==
  \A a, b, x, y \in Int :
    /\ EraDays * x <= YearsOfEra * a + 147097 /\ YearsOfEra * a <= EraDays * x + 150000
    /\ EraDays * y <= YearsOfEra * b + 147097 /\ YearsOfEra * b <= EraDays * y + 150000
    /\ a - b >= -1 /\ a - b <= 43801
    => x - y < 128 /\ y - x < 128
  BY Z3T(30) DEF EraDays, YearsOfEra

LEMMA SameYear ==
  \A x, y \in Int :
    x - y < 128 /\ y - x < 128 /\ (x - 2000) % 128 = (y - 2000) % 128 => x = y
  BY Z3T(30)

\* Minutes of one life that have one key are of one date.
LEMMA KeyGivesDate ==
  ASSUME NEW m \in Int, NEW n \in Int,
         m - n >= -120, m - n <= LongestLife + 120,
         MinuteKey(DateTimeFromEpoch(m)) = MinuteKey(DateTimeFromEpoch(n))
  PROVE  DateOf(DateTimeFromEpoch(m)) = DateOf(DateTimeFromEpoch(n))
<1>1. PICK x \in Int : x = DateTimeFromEpoch(m).year
  BY CalendarFacts
<1>2. PICK y \in Int : y = DateTimeFromEpoch(n).year
  BY CalendarFacts
<1>3. PICK a \in Int : a = Days(m)
  BY ByDay DEF Days, Epoch
<1>4. PICK b \in Int : b = Days(n)
  BY ByDay DEF Days, Epoch
<1>5. a - b >= -1 /\ a - b <= 43801
  <2>1. PICK v \in Int : v = Whole(m, DayMinutes)
    BY ByDay
  <2>2. PICK w \in Int : w = Whole(n, DayMinutes)
    BY ByDay
  <2>3. v - w >= -1 /\ v - w <= 43801
    BY <2>1, <2>2, DayDifference
  <2>4. a = v + Epoch /\ b = w + Epoch
    BY <1>3, <1>4, <2>1, <2>2 DEF Days
  <2> QED BY <2>3, <2>4, SMT DEF Epoch
<1>6. Follows(m, x)
  BY <1>1, CalendarFacts
<1>7. Follows(n, y)
  BY <1>2, CalendarFacts
<1>8. EraDays * x <= YearsOfEra * a + 147097 /\ YearsOfEra * a <= EraDays * x + 150000
  BY <1>3, <1>6 DEF Follows
<1>9. EraDays * y <= YearsOfEra * b + 147097 /\ YearsOfEra * b <= EraDays * y + 150000
  BY <1>4, <1>7 DEF Follows
<1>10. x - y < 128 /\ y - x < 128
  BY <1>5, <1>8, <1>9, YearDifference
<1>11. (x - 2000) % 128 = (y - 2000) % 128
  BY <1>1, <1>2 DEF MinuteKey
<1>12. x = y
  BY <1>10, <1>11, SameYear
<1> QED BY <1>1, <1>2, <1>12 DEF MinuteKey, DateOf

-----------------------------------------------------------------------------
\* The remembered key is that of the minute at which the clock last showed the
\* condition's, an instant of this behaviour.
Remembered(minutes) ==
  /\ minutes <= Standard(unix) + 120
  /\ Standard(until) <= minutes + LongestLife
  /\ DateTimeFromEpoch(minutes).minute = condition.minute
  /\ lastKey = MinuteKey(DateTimeFromEpoch(minutes))
  /\ shown = DateOf(DateTimeFromEpoch(minutes))
  /\ fired = [on |-> shown, times |-> 1]

Quiet == lastKey = NoKey /\ shown = NoDate /\ fired = [on |-> NoDate, times |-> 0]

TimedInv ==
  /\ zone \in Zones
  /\ unix \in Int /\ until \in Int
  /\ unix <= until /\ until <= unix + LongestLife
  /\ Quiet \/ \E minutes \in Int : Remembered(minutes)

\* The key of a minute is not the one that a rule starts with.
LEMMA KeyIsNone ==
  \A minutes \in Int : MinuteKey(DateTimeFromEpoch(minutes)) # NoKey
  BY CalendarFacts DEF MinuteKey, NoKey

\* A life has a length.
LEMMA LifeIsNat == LongestLife \in Nat
  BY SMT DEF LongestLife

\* A rule starts with no key.
LEMMA InitTimed == TimedInit => TimedInv
<1> SUFFICES ASSUME TimedInit PROVE TimedInv
  OBVIOUS
<1>1. PICK start \in Starts : unix = start.unix /\ until = start.unix + start.length
  BY DEF TimedInit
<1>2. start.unix \in Int /\ start.length \in Int /\ 0 <= start.length /\ start.length <= LongestLife
  BY TimeAssumption, LifeIsNat, SMT
<1>3. unix \in Int /\ until \in Int /\ unix <= until /\ until <= unix + LongestLife
  BY <1>1, <1>2, LifeIsNat, SMT
<1>4. zone \in Zones /\ Quiet
  BY DEF TimedInit, Quiet
<1> QED BY <1>3, <1>4 DEF TimedInv

\* An iteration of the loop, not earlier than the last one.
LEMMA PassTimed ==
  ASSUME TimedInv, NEW minutes \in Nat, Pass(minutes)
  PROVE  TimedInv'
<1>1. zone \in Zones /\ unix \in Int /\ until \in Int /\ unix <= until /\ until <= unix + LongestLife
  BY DEF TimedInv
<1>2. unix' = unix + minutes /\ unix' <= until /\ until' = until /\ zone' = zone
      /\ condition' = condition
  BY DEF Pass
<1>3. PICK o \in Int : o = zone.offset
  BY <1>1, TimeAssumption
<1>4. PICK b \in 0 .. 120 : b = IF daylight' THEN zone.bias ELSE 0
  <2>1. zone.bias \in 0 .. 120 /\ 0 \in 0 .. 120
    BY <1>1, TimeAssumption
  <2>2. (IF daylight' THEN zone.bias ELSE 0) \in 0 .. 120
    BY <2>1, Zenon
  <2> QED BY <2>2, Zenon
<1>5. PICK m \in Int : m = unix' + o + b
  BY <1>1, <1>2
<1>6. date' = DateTimeFromEpoch(m)
  <2>1. Standard(unix') = unix' + o
    BY <1>3 DEF Standard
  <2>2. date' = DateTimeFromEpoch(Standard(unix') + (IF daylight' THEN zone.bias ELSE 0))
    BY Zenon DEF Pass, Localized
  <2>3. date' = DateTimeFromEpoch(unix' + o + b)
    BY <1>4, <2>1, <2>2, Zenon
  <2> QED BY <1>5, <2>3, Zenon
<1>7. unix' \in Int /\ until' \in Int /\ unix' <= until' /\ until' <= unix' + LongestLife
  BY <1>1, <1>2, LifeIsNat, SMT
<1>8. m <= unix' + o + 120 /\ until' + o <= m + LongestLife
  <2>1. PICK u \in Int : u = unix'
    BY <1>7
  <2>2. PICK v \in Int : v = until'
    BY <1>7
  <2>3. m = u + o + b /\ v <= u + LongestLife
    BY <1>5, <1>7, <2>1, <2>2, Zenon
  <2>4. m <= u + o + 120 /\ v + o <= m + LongestLife
    BY <2>3, LifeIsNat, SMT
  <2> QED BY <2>1, <2>2, <2>4, Zenon
<1>9. CASE ~Matches(date')
  <2>1. lastKey' = lastKey /\ fired' = fired /\ shown' = shown
    BY <1>9 DEF Pass, Evaluate
  <2>2. CASE Quiet
    <3>1. Quiet'
      BY <2>1, <2>2 DEF Quiet, NoKey
    <3> QED BY <1>1, <1>2, <1>7, <3>1 DEF TimedInv
  <2>3. ASSUME NEW n \in Int, Remembered(n)
        PROVE  TimedInv'
    <3>1. Standard(unix) <= Standard(unix') /\ Standard(unix) \in Int /\ Standard(unix') \in Int
      BY <1>1, <1>2, <1>3 DEF Standard
    <3>2. Standard(unix)' = Standard(unix') /\ Standard(until)' = Standard(until)
      BY <1>2 DEF Standard
    <3>3. n <= Standard(unix)' + 120
      BY <2>3, <3>1, <3>2 DEF Remembered
    <3>4. (Standard(until) <= n + LongestLife)'
      BY <2>3, <3>2 DEF Remembered
    <3>5. Remembered(n)'
      BY <1>2, <2>1, <2>3, <3>3, <3>4, Zenon DEF Remembered, DateOf, MinuteKey
    <3> QED BY <1>1, <1>2, <1>7, <3>5 DEF TimedInv
  <2> QED BY <2>2, <2>3 DEF TimedInv
<1>10. CASE Matches(date')
  <2>1. /\ lastKey' = MinuteKey(date') /\ shown' = DateOf(date')
        /\ fired' = IF lastKey = MinuteKey(date') THEN fired
                    ELSE [on |-> DateOf(date'),
                          times |-> IF fired.on = DateOf(date') THEN fired.times + 1 ELSE 1]
    BY <1>10, Zenon DEF Pass, Evaluate
  <2>2. date'.minute = condition'.minute
    BY <1>2, <1>10 DEF Matches
  <2>3. fired' = [on |-> DateOf(date'), times |-> 1]
    <3>1. CASE Quiet
      <4>1. lastKey # MinuteKey(date')
        BY <1>6, <3>1, KeyIsNone DEF Quiet
      <4>2. fired.times + 1 = 1
        BY <3>1 DEF Quiet
      <4> QED BY <2>1, <4>1, <4>2
    <3>2. ASSUME NEW n \in Int, Remembered(n)
          PROVE  fired' = [on |-> DateOf(date'), times |-> 1]
      <4>1. m - n >= -120 /\ m - n <= LongestLife + 120
        <5>1. n <= unix + o + 120 /\ until + o <= n + LongestLife
          BY <1>3, <3>2 DEF Remembered, Standard
        <5> QED BY <1>1, <1>2, <1>3, <1>4, <1>5, <5>1, LifeIsNat, SMT
      <4>2. shown = DateOf(DateTimeFromEpoch(n)) /\ fired = [on |-> shown, times |-> 1]
            /\ lastKey = MinuteKey(DateTimeFromEpoch(n))
            /\ DateTimeFromEpoch(n).minute = date'.minute
        BY <1>2, <2>2, <3>2 DEF Remembered
      <4>3. CASE lastKey = MinuteKey(date')
        <5>1. DateOf(date') = DateOf(DateTimeFromEpoch(n))
          BY <1>6, <4>1, <4>2, <4>3, KeyGivesDate
        <5> QED BY <2>1, <4>2, <4>3, <5>1
      <4>4. CASE lastKey # MinuteKey(date')
        <5>1. DateOf(date') # DateOf(DateTimeFromEpoch(n))
          BY <4>2, <4>4 DEF DateOf, MinuteKey
        <5>2. fired.on # DateOf(date')
          BY <4>2, <5>1
        <5> QED BY <2>1, <4>4, <5>2
      <4> QED BY <4>3, <4>4
    <3> QED BY <3>1, <3>2 DEF TimedInv
  <2>4. m <= Standard(unix)' + 120 /\ (Standard(until) <= m + LongestLife)'
    BY <1>2, <1>3, <1>8 DEF Standard
  <2>5. DateTimeFromEpoch(m).minute = condition'.minute
    BY <1>6, <2>2
  <2>6. lastKey' = MinuteKey(DateTimeFromEpoch(m)) /\ shown' = DateOf(DateTimeFromEpoch(m))
    BY <1>6, <2>1
  <2>7. fired' = [on |-> shown', times |-> 1]
    BY <2>1, <2>3
  <2>8. Remembered(m)'
    BY <2>4, <2>5, <2>6, <2>7 DEF Remembered
  <2> QED BY <1>1, <1>2, <1>7, <2>8 DEF TimedInv
<1> QED BY <1>9, <1>10

\* Every step keeps the key of a minute of this life.
LEMMA NextTimed == TimedInv /\ [TimedNext]_timedVars => TimedInv'
<1> SUFFICES ASSUME TimedInv, [TimedNext]_timedVars PROVE TimedInv'
  OBVIOUS
<1>1. CASE Pass(0)
  BY <1>1, PassTimed
<1>2. CASE Pass(Step)
  BY <1>2, PassTimed, TimeAssumption
<1>3. CASE UNCHANGED timedVars
  BY <1>3
     DEF timedVars, TimedInv, Quiet, Remembered, Standard, DateOf, MinuteKey, NoKey
<1> QED BY <1>1, <1>2, <1>3 DEF TimedNext

\* A timed rule runs once on each day of its mask on which the clock shows its
\* minute: processRuleExecution remembers the key of the minute, and no other
\* minute that the clock can show in a life has that key, while a minute shown
\* twice, as daylight time ends, has it both times.
THEOREM OnceADay == TimedSpec => []TimedRuleOnceADay
<1>1. TimedInv => TimedRuleOnceADay
  BY DEF TimedInv, Quiet, Remembered, TimedRuleOnceADay
<1> QED BY InitTimed, NextTimed, <1>1, PTL DEF TimedSpec

-----------------------------------------------------------------------------
(* The calendar for every day.                                             *)

\* Day doe of an era, counted as the calendar does: centuries, periods of four

\* years, years, days.  Only a year that ends in a leap day has a day 365.
Digits(doe, b, q, w, u) ==
  /\ b \in 0 .. 3 /\ q \in 0 .. 24 /\ w \in 0 .. 3 /\ u \in 0 .. 365
  /\ u = 365 => w = 3 /\ (q < 24 \/ b = 3)
  /\ doe = 36524 * b + 1461 * q + 365 * w + u

\* The other divisions.
LEMMA DivisionOf ==
  ASSUME NEW n \in Int, NEW k \in {4, 100, 365, 400, 1460, 1461, 36524, 146096}
  PROVE  n \div k \in Int /\ k * (n \div k) <= n /\ n < k * (n \div k) + k
  BY Z3

\* Every day of an era has its digits.
LEMMA DigitsOf ==
  ASSUME NEW doe \in Int, 0 <= doe, doe <= 146096
  PROVE  \E b, q, w, u \in Int : Digits(doe, b, q, w, u)
<1>1. PICK b \in Int : /\ 0 <= b /\ b <= 3 /\ 36524 * b <= doe /\ doe <= 36524 * b + 36524
                       /\ b < 3 => doe < 36524 * b + 36524
  BY Z3
<1>2. PICK r \in Int : r = doe - 36524 * b /\ 0 <= r /\ r <= 36524 /\ (b < 3 => r < 36524)
  BY <1>1
<1>3. PICK q \in Int : 1461 * q <= r /\ r < 1461 * q + 1461
  <2>1. 1461 * (r \div 1461) <= r /\ r < 1461 * (r \div 1461) + 1461 /\ r \div 1461 \in Int
    BY DivisionOf
  <2> QED BY <2>1
<1>4. PICK s \in Int : s = r - 1461 * q /\ 0 <= s /\ s <= 1460
  BY <1>3
<1>5. 0 <= q /\ q <= 24 /\ (s = 1460 => q < 24 \/ b = 3)
  BY <1>2, <1>3, <1>4, Z3
<1>6. PICK w \in Int : /\ 0 <= w /\ w <= 3 /\ 365 * w <= s /\ s <= 365 * w + 365
                       /\ w < 3 => s < 365 * w + 365
  BY <1>4, Z3
<1>7. PICK u \in Int : u = s - 365 * w /\ 0 <= u /\ u <= 365 /\ (u = 365 => w = 3 /\ s = 1460)
  BY <1>4, <1>6, Z3
<1>8. doe = 36524 * b + 1461 * q + 365 * w + u
  BY <1>2, <1>4, <1>7
<1>9. Digits(doe, b, q, w, u)
  BY <1>1, <1>5, <1>6, <1>7, <1>8 DEF Digits
<1> QED BY <1>9

\* What the divisions by a century give, of the year and of the day.
LEMMA CenturyQuotient ==
  \A g, b, m \in Int :
    0 <= m /\ m <= 99 /\ 100 * g <= 100 * b + m /\ 100 * b + m < 100 * g + 100 => g = b
  BY Z3
LEMMA EraQuotient ==
  \A h, b, c, doe \in Int :
    /\ 36524 * h <= doe /\ doe < 36524 * h + 36524
    /\ 36524 * b <= doe /\ doe <= 36524 * b + 36524 /\ (b < 3 => doe < 36524 * b + 36524)
    /\ 0 <= b /\ b <= 3
    /\ (c = 0 /\ doe < 146096) \/ (c = 1 /\ doe = 146096)
    => h = b + c
  BY Z3

\* The divisions of DateTimeFromEpoch find the year and the day of the year.
LEMMA YearOfDigits ==
  ASSUME NEW doe \in Int, NEW b \in Int, NEW q \in Int, NEW w \in Int, NEW u \in Int,
         Digits(doe, b, q, w, u)
  PROVE  EraYear(doe) = 100 * b + 4 * q + w /\ DayOfYear(doe) = u
<1>1. /\ 0 <= b /\ b <= 3 /\ 0 <= q /\ q <= 24 /\ 0 <= w /\ w <= 3 /\ 0 <= u /\ u <= 365
      /\ u = 365 => w = 3 /\ (q < 24 \/ b = 3)
      /\ doe = 36524 * b + 1461 * q + 365 * w + u
  BY DEF Digits
<1>2. PICK c \in Int : /\ c = Whole(doe, FourCenturies) /\ 146096 * c <= doe
                       /\ doe < 146096 * c + 146096
  BY ByFourCenturies DEF Covers, FourCenturies
<1>3. PICK h \in Int : h = Whole(doe, Century) /\ 36524 * h <= doe /\ doe < 36524 * h + 36524
  BY ByCentury DEF Covers, Century
<1>4. h = b + c /\ (c = 0 \/ c = 1)
  <2>1. 36524 * b <= doe /\ doe <= 36524 * b + 36524 /\ (b < 3 => doe < 36524 * b + 36524)
    BY <1>1, SMT
  <2>2. (c = 0 /\ doe < 146096) \/ (c = 1 /\ doe = 146096)
    BY <1>1, <1>2, <2>1, SMT
  <2>3. 0 <= b /\ b <= 3 /\ 36524 * h <= doe /\ doe < 36524 * h + 36524
    BY <1>1, <1>3
  <2>4. h = b + c
    BY <2>1, <2>2, <2>3, EraQuotient
  <2> QED BY <2>2, <2>4
<1>5. PICK a \in Int : a = Whole(doe, FourYears) /\ 1460 * a <= doe /\ doe < 1460 * a + 1460
  BY ByFourYears DEF Covers, FourYears
<1>6. /\ a = 25 * b + q \/ a = 25 * b + q + 1
      /\ a = 25 * b + q => 365 * w + u <= 1459
      /\ a = 25 * b + q + 1 => 365 * w + u >= 1340
  BY <1>1, <1>5, Z3
<1>7. PICK t \in Int : t = doe - a + h - c
  OBVIOUS
<1>8. 365 * (100 * b + 4 * q + w) <= t /\ t < 365 * (100 * b + 4 * q + w) + 365
  BY <1>1, <1>4, <1>6, <1>7, Z3
<1>9. PICK y \in Int : y = Whole(t, Year) /\ 365 * y <= t /\ t < 365 * y + 365
  BY ByYear DEF Covers, Year
<1>10. y = 100 * b + 4 * q + w
  BY <1>8, <1>9, Z3
<1>11. EraYear(doe) = y
  BY <1>2, <1>3, <1>5, <1>7, <1>9 DEF EraYear
<1>12. PICK f \in Int : f = Whole(y, Four) /\ 4 * f <= y /\ y < 4 * f + 4
  BY ByFour DEF Covers, Four
<1>13. PICK g \in Int : g = Whole(y, Hundred) /\ 100 * g <= y /\ y < 100 * g + 100
  BY ByHundred DEF Covers, Hundred
<1>14. f = 25 * b + q /\ g = b
  <2>1. 0 <= 4 * q + w /\ 4 * q + w <= 99 /\ 0 <= w /\ w <= 3
    BY <1>1
  <2>2. g = b
    <3>1. PICK m \in Int : m = 4 * q + w
      OBVIOUS
    <3>2. 0 <= m /\ m <= 99 /\ 100 * g <= 100 * b + m /\ 100 * b + m < 100 * g + 100
      BY <1>10, <1>13, <2>1, <3>1
    <3> QED BY <3>2, CenturyQuotient
  <2>3. f = 25 * b + q
    BY <1>10, <1>12, <2>1
  <2> QED BY <2>2, <2>3
<1>15. DayOfYear(doe) = doe - (365 * y + f - g)
  BY <1>11, <1>12, <1>13 DEF DayOfYear, Year
<1>16. doe - (365 * y + f - g) = u
  BY <1>1, <1>10, <1>14, Z3
<1> QED BY <1>10, <1>11, <1>15, <1>16

\* The leap years, by the digits of the year before.
LEMMA LeapByFour ==
  \A n, w \in Int : 0 <= w /\ w <= 3 => ((4 * n + w + 1) % 4 = 0 <=> w = 3)
  BY Z3
LEMMA LeapByHundred ==
  \A n, m \in Int : 0 <= m /\ m <= 99 => ((100 * n + m + 1) % 100 = 0 <=> m = 99)
  BY Z3
LEMMA LeapByFourHundred ==
  \A n, m \in Int : 0 <= m /\ m <= 399 => ((400 * n + m + 1) % 400 = 0 <=> m = 399)
  BY Z3

\* The year with these digits, in era e, and whether it ends in a leap day.
YearWith(e, b, q, w) == 400 * e + 100 * b + 4 * q + w
LongYear(b, q, w) == w = 3 /\ (q < 24 \/ b = 3)

LEMMA LeapOfDigits ==
  ASSUME NEW e \in Int, NEW b \in Int, NEW q \in Int, NEW w \in Int,
         0 <= b, b <= 3, 0 <= q, q <= 24, 0 <= w, w <= 3
  PROVE  LeapYear(YearWith(e, b, q, w) + 1) <=> LongYear(b, q, w)
<1>1. PICK y \in Int : y = YearWith(e, b, q, w) + 1
  BY SMT DEF YearWith
<1>2. y % 4 = 0 <=> w = 3
  <2>1. PICK n \in Int : n = 100 * e + 25 * b + q
    BY SMT
  <2>2. y = 4 * n + w + 1
    BY <1>1, <2>1, SMT DEF YearWith
  <2> QED BY <2>2, LeapByFour, SMT
<1>3. y % 100 = 0 <=> w = 3 /\ q = 24
  <2>1. PICK n \in Int : n = 4 * e + b
    BY SMT
  <2>2. PICK m \in Int : m = 4 * q + w
    BY SMT
  <2>3. y = 100 * n + m + 1 /\ 0 <= m /\ m <= 99
    BY <1>1, <2>1, <2>2, SMT DEF YearWith
  <2>4. m = 99 <=> w = 3 /\ q = 24
    BY <2>2, SMT
  <2> QED BY <2>3, <2>4, LeapByHundred, SMT
<1>4. y % 400 = 0 <=> w = 3 /\ q = 24 /\ b = 3
  <2>1. PICK m \in Int : m = 100 * b + 4 * q + w
    BY SMT
  <2>2. y = 400 * e + m + 1 /\ 0 <= m /\ m <= 399
    BY <1>1, <2>1, SMT DEF YearWith
  <2>3. m = 399 <=> w = 3 /\ q = 24 /\ b = 3
    BY <2>1, SMT
  <2> QED BY <2>2, <2>3, LeapByFourHundred, SMT
<1>5. LeapYear(y) <=> LongYear(b, q, w)
  BY <1>2, <1>3, <1>4, SMT DEF LeapYear, LongYear
<1> QED BY <1>1, <1>5, SMT

\* The year from March on and its day, of a day counted from 1 March 0000.
MarchYear(z) == EraYear(z % EraDays) + YearsOfEra * Whole(z, EraDays)
MarchDay(z) == DayOfYear(z % EraDays)
LastDay(year) == IF LeapYear(year + 1) THEN 365 ELSE 364

\* A day is on one place in one era.
LEMMA EraUnique ==
  \A e, d, f, g \in Int :
    /\ EraDays * e + d = EraDays * f + g
    /\ 0 <= d /\ d < EraDays /\ 0 <= g /\ g < EraDays
    => e = f /\ d = g
  BY Z3 DEF EraDays

\* The digits keep to their ranges.
LEMMA DigitRanges ==
  ASSUME NEW doe \in Int, NEW b \in Int, NEW q \in Int, NEW w \in Int, NEW u \in Int,
         Digits(doe, b, q, w, u)
  PROVE  /\ 0 <= b /\ b <= 3 /\ 0 <= q /\ q <= 24 /\ 0 <= w /\ w <= 3
         /\ 0 <= doe /\ doe < EraDays
         /\ 0 <= u /\ u <= IF LongYear(b, q, w) THEN 365 ELSE 364
  BY SMT DEF Digits, LongYear, EraDays

\* The digits of a day give its year and its day.
LEMMA MarchOfDigits ==
  ASSUME NEW z \in Int, NEW e \in Int, NEW doe \in Int, NEW b \in Int, NEW q \in Int,
         NEW w \in Int, NEW u \in Int, z = EraDays * e + doe, Digits(doe, b, q, w, u)
  PROVE  /\ MarchYear(z) = YearWith(e, b, q, w)
         /\ MarchDay(z) = u
         /\ LastDay(MarchYear(z)) = IF LongYear(b, q, w) THEN 365 ELSE 364
<1>1. /\ 0 <= b /\ b <= 3 /\ 0 <= q /\ q <= 24 /\ 0 <= w /\ w <= 3
      /\ 0 <= doe /\ doe < EraDays
  BY DigitRanges, SMT
<1>2. PICK f \in Int : f = Whole(z, EraDays)
  BY ByEra, SMT
<1>3. PICK d \in Int : d = z % EraDays /\ z = EraDays * f + d /\ 0 <= d /\ d < EraDays
  BY <1>2, ByEra, SMT
<1>4. f = e /\ d = doe
  BY <1>1, <1>3, EraUnique, SMT
<1>5. EraYear(doe) = 100 * b + 4 * q + w /\ DayOfYear(doe) = u
  BY YearOfDigits, SMT
<1>6. MarchYear(z) = EraYear(doe) + YearsOfEra * e /\ MarchDay(z) = DayOfYear(doe)
  BY <1>2, <1>3, <1>4, SMT DEF MarchYear, MarchDay
<1>7. MarchYear(z) = YearWith(e, b, q, w) /\ MarchDay(z) = u
  BY <1>5, <1>6, SMT DEF YearsOfEra, YearWith
<1>8. LeapYear(YearWith(e, b, q, w) + 1) <=> LongYear(b, q, w)
  BY <1>1, LeapOfDigits, SMT
<1>9. LastDay(MarchYear(z)) = IF LongYear(b, q, w) THEN 365 ELSE 364
  BY <1>7, <1>8, SMT DEF LastDay
<1> QED BY <1>7, <1>9, SMT

\* The day after the last one of a year is the first one of the next.
Successor(e, doe, b, q, w, u, f, d, h, p, v, t) ==
  /\ EraDays * e + doe + 1 = EraDays * f + d /\ Digits(d, h, p, v, t)
  /\ IF u < (IF LongYear(b, q, w) THEN 365 ELSE 364)
     THEN YearWith(f, h, p, v) = YearWith(e, b, q, w) /\ t = u + 1
     ELSE YearWith(f, h, p, v) = YearWith(e, b, q, w) + 1 /\ t = 0

\* Every day has a successor in that sense.
LEMMA NextDigits ==
  ASSUME NEW e \in Int, NEW doe \in Int, NEW b \in Int, NEW q \in Int, NEW w \in Int,
         NEW u \in Int, Digits(doe, b, q, w, u)
  PROVE  \E f, d, h, p, v, t \in Int : Successor(e, doe, b, q, w, u, f, d, h, p, v, t)
<1>0. /\ 0 \in Int /\ doe + 1 \in Int /\ e + 1 \in Int /\ b + 1 \in Int
      /\ q + 1 \in Int /\ w + 1 \in Int /\ u + 1 \in Int
  BY SMT
<1>1. CASE u < (IF LongYear(b, q, w) THEN 365 ELSE 364)
  <2>1. Successor(e, doe, b, q, w, u, e, doe + 1, b, q, w, u + 1)
    BY <1>1, SMT DEF Successor, Digits, LongYear, YearWith, EraDays
  <2> QED BY <1>0, <2>1, Zenon
<1>2. CASE ~(u < (IF LongYear(b, q, w) THEN 365 ELSE 364))
  <2>1. CASE w < 3
    <3>1. Successor(e, doe, b, q, w, u, e, doe + 1, b, q, w + 1, 0)
      BY <1>2, <2>1, SMT DEF Successor, Digits, LongYear, YearWith, EraDays
    <3> QED BY <1>0, <3>1, Zenon
  <2>2. CASE w = 3 /\ q < 24
    <3>1. Successor(e, doe, b, q, w, u, e, doe + 1, b, q + 1, 0, 0)
      BY <1>2, <2>2, SMT DEF Successor, Digits, LongYear, YearWith, EraDays
    <3> QED BY <1>0, <3>1, Zenon
  <2>3. CASE w = 3 /\ q = 24 /\ b < 3
    <3>1. Successor(e, doe, b, q, w, u, e, doe + 1, b + 1, 0, 0, 0)
      BY <1>2, <2>3, SMT DEF Successor, Digits, LongYear, YearWith, EraDays
    <3> QED BY <1>0, <3>1, Zenon
  <2>4. CASE w = 3 /\ q = 24 /\ b = 3
    <3>1. Successor(e, doe, b, q, w, u, e + 1, 0, 0, 0, 0, 0)
      BY <1>2, <2>4, SMT DEF Successor, Digits, LongYear, YearWith, EraDays
    <3> QED BY <1>0, <3>1, Zenon
  <2> QED BY DigitRanges, <2>1, <2>2, <2>3, <2>4, SMT
<1> QED BY <1>1, <1>2, SMT

\* Years and days follow each other as in the calendar.
LEMMA NextMarchDay ==
  ASSUME NEW z \in Int
  PROVE  /\ MarchYear(z) \in Int /\ MarchDay(z) \in Int
         /\ 0 <= MarchDay(z) /\ MarchDay(z) <= LastDay(MarchYear(z))
         /\ IF MarchDay(z) < LastDay(MarchYear(z))
            THEN MarchYear(z + 1) = MarchYear(z) /\ MarchDay(z + 1) = MarchDay(z) + 1
            ELSE MarchYear(z + 1) = MarchYear(z) + 1 /\ MarchDay(z + 1) = 0
<1>1. PICK e \in Int : e = Whole(z, EraDays)
  BY ByEra, SMT
<1>2. PICK doe \in Int : doe = z % EraDays /\ z = EraDays * e + doe /\ 0 <= doe /\ doe < EraDays
  BY <1>1, ByEra, SMT
<1>3. PICK b, q, w, u \in Int : Digits(doe, b, q, w, u)
  <2>1. doe <= 146096
    BY <1>2, SMT DEF EraDays
  <2> QED BY <1>2, <2>1, DigitsOf, SMT
<1>4. /\ MarchYear(z) = YearWith(e, b, q, w)
      /\ MarchDay(z) = u
      /\ LastDay(MarchYear(z)) = IF LongYear(b, q, w) THEN 365 ELSE 364
  BY <1>2, <1>3, MarchOfDigits, SMT
<1>5. PICK f, d, h, p, v, t \in Int : Successor(e, doe, b, q, w, u, f, d, h, p, v, t)
  BY <1>3, NextDigits, Zenon
<1>6. z + 1 = EraDays * f + d /\ Digits(d, h, p, v, t)
  BY <1>2, <1>5, SMT DEF Successor
<1>7. MarchYear(z + 1) = YearWith(f, h, p, v) /\ MarchDay(z + 1) = t
  BY <1>6, MarchOfDigits, SMT
<1>8. 0 <= u /\ u <= LastDay(MarchYear(z)) /\ YearWith(e, b, q, w) \in Int
  BY <1>3, <1>4, DigitRanges, SMT DEF YearWith
<1> QED BY <1>4, <1>5, <1>7, <1>8, SMT DEF Successor

-----------------------------------------------------------------------------
(* The months of a year that begins in March.                              *)

\* The day of the year, from March on, on which a month begins.
FirstDay(m) == (153 * m + 2) \div 5

\* Those days, one by one.
LEMMA FirstDays ==
  /\ FirstDay(0) = 0 /\ FirstDay(1) = 31 /\ FirstDay(2) = 61 /\ FirstDay(3) = 92
  /\ FirstDay(4) = 122 /\ FirstDay(5) = 153 /\ FirstDay(6) = 184 /\ FirstDay(7) = 214
  /\ FirstDay(8) = 245 /\ FirstDay(9) = 275 /\ FirstDay(10) = 306 /\ FirstDay(11) = 337
  /\ FirstDay(12) = 367
  BY Z3 DEF FirstDay

\* The two divisions of DateTimeFromEpoch: a day lies in its month.
LEMMA MonthBounds ==
  \A u, m, f, g \in Int :
    /\ 5 * f <= 153 * m + 2 /\ 153 * m + 2 < 5 * f + 5
    /\ 5 * g <= 153 * (m + 1) + 2 /\ 153 * (m + 1) + 2 < 5 * g + 5
    => (153 * m <= 5 * u + 2 /\ 5 * u + 2 < 153 * m + 153 <=> f <= u /\ u < g)
  BY Z3

\* The two divisions by which a month is found and begins are inverse.
LEMMA MonthDivision ==
  \A u \in Int : MarchMonth(u) \in Int /\ Covers(5 * u + 2, 153, MarchMonth(u))
  BY Z3 DEF MarchMonth, Covers

LEMMA FirstDayDivision ==
  \A m \in Int : FirstDay(m) \in Int /\ Covers(153 * m + 2, 5, FirstDay(m))
  BY Z3 DEF FirstDay, Covers

LEMMA MonthUnique ==
  \A u, m, k \in Int : Covers(5 * u + 2, 153, m) /\ Covers(5 * u + 2, 153, k) => m = k
  BY Z3 DEF Covers

\* A day is of the month that has begun and not ended.
LEMMA MonthOfDay ==
  ASSUME NEW u \in Int, NEW m \in Int
  PROVE  MarchMonth(u) = m <=> FirstDay(m) <= u /\ u < FirstDay(m + 1)
<1>1. PICK f \in Int : f = FirstDay(m) /\ Covers(153 * m + 2, 5, f)
  BY FirstDayDivision
<1>2. PICK n \in Int : n = m + 1
  BY SMT
<1>3. PICK g \in Int : g = FirstDay(n) /\ Covers(153 * n + 2, 5, g)
  BY FirstDayDivision
<1>4. PICK k \in Int : k = MarchMonth(u) /\ Covers(5 * u + 2, 153, k)
  BY MonthDivision
<1>5. Covers(5 * u + 2, 153, m) <=> f <= u /\ u < g
  BY <1>1, <1>2, <1>3, MonthBounds, SMT DEF Covers
<1>6. Covers(5 * u + 2, 153, m) => k = m
  BY <1>4, MonthUnique
<1> QED BY <1>1, <1>2, <1>3, <1>4, <1>5, <1>6, SMT

\* Months have 30 or 31 days, but for the one that ends with the year.
LEMMA FirstDayGrows ==
  ASSUME NEW m \in Int
  PROVE  FirstDay(m) + 30 <= FirstDay(m + 1) /\ FirstDay(m + 1) <= FirstDay(m) + 31
<1>1. PICK f \in Int : f = FirstDay(m) /\ Covers(153 * m + 2, 5, f)
  BY FirstDayDivision
<1>2. PICK n \in Int : n = m + 1
  BY SMT
<1>3. PICK g \in Int : g = FirstDay(n) /\ Covers(153 * n + 2, 5, g)
  BY FirstDayDivision
<1>4. f + 30 <= g /\ g <= f + 31
  BY <1>1, <1>2, <1>3, SMT DEF Covers
<1> QED BY <1>1, <1>2, <1>3, <1>4, SMT

\* So a day of a year is in one of the twelve.
LEMMA MarchMonthRange ==
  ASSUME NEW u \in Int, 0 <= u, u <= 365
  PROVE  /\ MarchMonth(u) \in 0 .. 11 /\ FirstDay(MarchMonth(u)) <= u
         /\ MarchMonth(u) < 11 => u < FirstDay(MarchMonth(u) + 1)
<1>1. PICK m \in Int : m = MarchMonth(u) /\ Covers(5 * u + 2, 153, m)
  BY MonthDivision
<1>2. 0 <= m /\ m <= 11
  BY <1>1, SMT DEF Covers
<1>3. FirstDay(m) <= u /\ u < FirstDay(m + 1)
  BY <1>1, MonthOfDay, SMT
<1> QED BY <1>1, <1>2, <1>3, SMT

\* The months have the lengths of the calendar.
LEMMA MonthLengths ==
  ASSUME NEW m \in 0 .. 11, NEW year \in Int
  PROVE  /\ m < 11 => Wall!Length(year, CivilMonth(m)) = FirstDay(m + 1) - FirstDay(m)
         /\ m = 11 => Wall!Length(year, CivilMonth(m)) = IF LeapYear(year) THEN 29 ELSE 28
<1>1. Wall!Leap(year) <=> LeapYear(year)
  BY Z3 DEF Wall!Leap, LeapYear
<1>2. CASE m = 11
  BY <1>1, <1>2, SMT DEF CivilMonth, Wall!Length
<1>3. CASE m \in 0 .. 5
  BY <1>3, FirstDays, SMT DEF CivilMonth, Wall!Length
<1>4. CASE m \in 6 .. 10
  BY <1>4, FirstDays, SMT DEF CivilMonth, Wall!Length
<1> QED BY <1>2, <1>3, <1>4, SMT

-----------------------------------------------------------------------------
(* Dates.                                                                  *)

\* The fields of the date of a day counted from 1 March 0000.
DayMonth(z) == CivilMonth(MarchMonth(MarchDay(z)))
DayYear(z) == MarchYear(z) + (IF DayMonth(z) <= 2 THEN 1 ELSE 0)
DayOfMonth(z) == MarchDay(z) - FirstDay(MarchMonth(MarchDay(z))) + 1

\* DateTimeFromEpoch is made of these.
LEMMA DateByDay ==
  ASSUME NEW n \in Int
  PROVE  DateTimeFromEpoch(n) =
           LocalDateTime(DayYear(Days(n)), DayMonth(Days(n)), DayOfMonth(Days(n)), n % DayMinutes)
<1>1. /\ MonthOf(n) = DayMonth(Days(n))
      /\ DayOf(n) = DayOfMonth(Days(n))
  BY SMT DEF MonthOf, DayOf, DayMonth, DayOfMonth, MarchDay, FirstDay
<1>2. YearOf(n) = DayYear(Days(n))
  <2>1. PICK z \in Int : z = Days(n)
    BY ByDay, SMT DEF Days, Epoch
  <2>2. PICK e \in Int : e = Whole(z, EraDays)
    BY ByEra, SMT
  <2>3. YearsOfEra * e = e * YearsOfEra
    BY SMT DEF YearsOfEra
  <2> QED BY <1>1, <2>1, <2>2, <2>3, Zenon DEF YearOf, DayYear, MarchYear
<1> QED BY <1>1, <1>2, DateOfMinute, Zenon

LEMMA DateFieldsOf ==
  ASSUME NEW n \in Int
  PROVE  /\ DateTimeFromEpoch(n).year = DayYear(Days(n))
         /\ DateTimeFromEpoch(n).month = DayMonth(Days(n))
         /\ DateTimeFromEpoch(n).day = DayOfMonth(Days(n))
         /\ DateTimeFromEpoch(n).minute = n % DayMinutes
<1>1. \A y, mo, d, m :
        /\ LocalDateTime(y, mo, d, m).year = y /\ LocalDateTime(y, mo, d, m).month = mo
        /\ LocalDateTime(y, mo, d, m).day = d /\ LocalDateTime(y, mo, d, m).minute = m
  BY SMT DEF LocalDateTime
<1> QED BY <1>1, DateByDay, SMT

\* The day after a date is that of the calendar.
LEMMA NextDate ==
  ASSUME NEW z \in Int
  PROVE  /\ DayYear(z) \in Int /\ DayMonth(z) \in 1 .. 12 /\ DayOfMonth(z) \in Int
         /\ 1 <= DayOfMonth(z) /\ DayOfMonth(z) <= Wall!Length(DayYear(z), DayMonth(z))
         /\ IF DayOfMonth(z) < Wall!Length(DayYear(z), DayMonth(z))
            THEN /\ DayYear(z + 1) = DayYear(z) /\ DayMonth(z + 1) = DayMonth(z)
                 /\ DayOfMonth(z + 1) = DayOfMonth(z) + 1
            ELSE /\ DayOfMonth(z + 1) = 1
                 /\ IF DayMonth(z) < 12
                    THEN DayYear(z + 1) = DayYear(z) /\ DayMonth(z + 1) = DayMonth(z) + 1
                    ELSE DayYear(z + 1) = DayYear(z) + 1 /\ DayMonth(z + 1) = 1
<1>1. PICK u \in Int : u = MarchDay(z)
  BY NextMarchDay
<1>2. PICK y \in Int : y = MarchYear(z)
  BY NextMarchDay
<1>3. PICK last \in Int : last = LastDay(y) /\ (last = 365 \/ last = 364) /\ (last = 365 <=> LeapYear(y + 1))
  BY SMT DEF LastDay
<1>4. /\ 0 <= u /\ u <= last
      /\ u < last => MarchYear(z + 1) = y /\ MarchDay(z + 1) = u + 1
      /\ ~(u < last) => MarchYear(z + 1) = y + 1 /\ MarchDay(z + 1) = 0
  BY <1>1, <1>2, <1>3, NextMarchDay
<1>5. PICK m \in 0 .. 11 : /\ m = MarchMonth(u) /\ FirstDay(m) <= u
                           /\ m < 11 => u < FirstDay(m + 1)
  BY <1>3, <1>4, MarchMonthRange, SMT
<1>6. PICK f \in Int : f = FirstDay(m)
  BY FirstDayDivision
<1>7. PICK month \in 1 .. 12 : month = CivilMonth(m) /\ (month <= 2 <=> m >= 10) /\ (month = 12 <=> m = 9)
  BY SMT DEF CivilMonth
<1>8. PICK year \in Int : year = y + (IF month <= 2 THEN 1 ELSE 0)
  BY SMT
<1>9. DayMonth(z) = month /\ DayYear(z) = year /\ DayOfMonth(z) = u - f + 1
  BY <1>1, <1>2, <1>5, <1>6, <1>7, <1>8, SMT DEF DayMonth, DayYear, DayOfMonth
<1>10. PICK len \in Int : /\ len = Wall!Length(year, month)
                          /\ m < 11 => len = FirstDay(m + 1) - f
                          /\ m = 11 => len = IF LeapYear(year) THEN 29 ELSE 28
  BY <1>6, <1>7, MonthLengths, FirstDayDivision, SMT
<1>11. CASE u < last /\ MarchMonth(u + 1) = m
  <2>1. u - f + 1 < len
    <3>1. CASE m < 11
      <4>1. u + 1 < FirstDay(m + 1)
        BY <1>11, MonthOfDay, SMT
      <4> QED BY <1>6, <1>10, <3>1, <4>1, FirstDayDivision, SMT
    <3>2. CASE m = 11
      BY <1>3, <1>6, <1>7, <1>8, <1>10, <1>11, <3>2, FirstDays, SMT
    <3> QED BY <3>1, <3>2, SMT
  <2> QED
    BY <1>4, <1>5, <1>6, <1>7, <1>8, <1>9, <1>10, <1>11, <2>1, SMT
    DEF DayMonth, DayYear, DayOfMonth
<1>12. CASE u < last /\ MarchMonth(u + 1) # m
  <2>1. PICK v \in Int : v = u + 1
    BY SMT
  <2>2. m < 11
    <3>1. CASE m = 11
      <4>1. FirstDay(11) <= v /\ v < FirstDay(11 + 1)
        BY <1>3, <1>5, <1>12, <2>1, <3>1, FirstDays, SMT
      <4>2. MarchMonth(v) = 11
        BY <4>1, MonthOfDay, SMT
      <4> QED BY <1>12, <2>1, <3>1, <4>2, SMT
    <3> QED BY <3>1, SMT
  <2>3. PICK n \in 1 .. 11 : n = m + 1
    BY <2>2, SMT
  <2>4. PICK g \in Int : g = FirstDay(n)
    BY FirstDayDivision
  <2>5. v = g
    <3>1. f <= u /\ u < g
      BY <1>5, <1>6, <2>2, <2>3, <2>4, SMT
    <3>2. MarchMonth(v) # m
      BY <1>12, <2>1, SMT
    <3>3. ~(f <= v /\ v < g)
      BY <1>6, <2>3, <2>4, <3>2, MonthOfDay, SMT
    <3> QED BY <2>1, <3>1, <3>3, SMT
  <2>6. MarchMonth(v) = n
    <3>1. g + 30 <= FirstDay(n + 1) /\ FirstDay(n + 1) \in Int
      BY <2>4, FirstDayGrows, FirstDayDivision, SMT
    <3>2. FirstDay(n) <= v /\ v < FirstDay(n + 1)
      BY <2>4, <2>5, <3>1, SMT
    <3> QED BY <3>2, MonthOfDay, SMT
  <2>7. MarchYear(z + 1) = y /\ MarchDay(z + 1) = v
    BY <1>4, <1>12, <2>1, SMT
  <2>8. DayOfMonth(z + 1) = 1 /\ DayMonth(z + 1) = CivilMonth(n)
    BY <2>4, <2>5, <2>6, <2>7, SMT DEF DayOfMonth, DayMonth
  <2>9. IF month < 12 THEN CivilMonth(n) = month + 1 /\ (month + 1 <= 2 <=> month <= 2)
        ELSE CivilMonth(n) = 1 /\ month = 12
    BY <1>7, <2>2, <2>3, SMT DEF CivilMonth
  <2>10. IF month < 12 THEN DayYear(z + 1) = year ELSE DayYear(z + 1) = year + 1
    BY <1>7, <1>8, <2>7, <2>8, <2>9, SMT DEF DayYear
  <2>11. u - f + 1 = len
    BY <1>10, <2>1, <2>2, <2>3, <2>4, <2>5, SMT
  <2> QED BY <1>5, <1>6, <1>7, <1>8, <1>9, <1>10, <2>8, <2>9, <2>10, <2>11, SMT
<1>13. CASE ~(u < last)
  <2>1. u = last /\ (u = 364 \/ u = 365)
    BY <1>3, <1>4, <1>13, SMT
  <2>2. m = 11
    <3>1. FirstDay(11) <= u /\ u < FirstDay(11 + 1)
      BY <2>1, FirstDays, SMT
    <3> QED BY <1>5, <3>1, MonthOfDay, SMT
  <2>3. f = 337 /\ month = 2 /\ year = y + 1
    BY <1>6, <1>7, <1>8, <2>2, FirstDays, SMT DEF CivilMonth
  <2>4. u - f + 1 = len
    BY <1>3, <1>10, <2>1, <2>2, <2>3, SMT
  <2>5. MarchMonth(0) = 0
    <3>1. FirstDay(0) <= 0 /\ 0 < FirstDay(0 + 1)
      BY FirstDays, SMT
    <3> QED BY <3>1, MonthOfDay, SMT
  <2>6. MarchYear(z + 1) = y + 1 /\ MarchDay(z + 1) = 0
    BY <1>4, <1>13, SMT
  <2>7. DayMonth(z + 1) = 3 /\ DayOfMonth(z + 1) = 1 /\ DayYear(z + 1) = y + 1
    BY <2>5, <2>6, FirstDays, SMT DEF DayMonth, DayOfMonth, DayYear, CivilMonth
  <2> QED BY <1>5, <1>6, <1>7, <1>8, <1>9, <1>10, <2>3, <2>4, <2>7, SMT
<1> QED BY <1>11, <1>12, <1>13, SMT

\* DaysFromCivil, step by step: the day of a March year, and a date in it.
DayInEra(yoe, u) == Year * yoe + Whole(yoe, Four) - Whole(yoe, Hundred) + u
DaysOfMarch(y, u) == EraDays * Whole(y, YearsOfEra) + DayInEra(y % YearsOfEra, u) - Epoch
MonthFromMarch(month) == IF month > 2 THEN month - 3 ELSE month + 9
YearFromMarch(year, month) == IF month <= 2 THEN year - 1 ELSE year

\* DaysFromCivil is made of these.
LEMMA CivilSteps ==
  ASSUME NEW year \in Int, NEW month \in Int, NEW day \in Int
  PROVE  DaysFromCivil(year, month, day) =
           DaysOfMarch(YearFromMarch(year, month), FirstDay(MonthFromMarch(month)) + day - 1)
  BY SMTT(30)
  DEF DaysFromCivil, DaysOfMarch, DayInEra, YearFromMarch, MonthFromMarch, FirstDay, Whole,
      EraDays, YearsOfEra, Year, Four, Hundred, Epoch

\* A year is on one place in one era.
LEMMA ByYearsOfEra ==
  \A y, e, n \in Int : y = YearsOfEra * e + n /\ 0 <= n /\ n < YearsOfEra
                        => Whole(y, YearsOfEra) = e /\ y % YearsOfEra = n
  BY Z3 DEF Whole, YearsOfEra

\* The days of a March year are counted back from what MarchYear and MarchDay find.
LEMMA DaysOfMarchIs ==
  ASSUME NEW z \in Int
  PROVE  DaysOfMarch(MarchYear(z), MarchDay(z)) = z - Epoch
<1>1. PICK e \in Int : e = Whole(z, EraDays)
  BY ByEra, SMT
<1>2. PICK doe \in Int : doe = z % EraDays /\ z = EraDays * e + doe /\ 0 <= doe /\ doe < EraDays
  BY <1>1, ByEra, SMT
<1>3. PICK b, q, w, u \in Int : Digits(doe, b, q, w, u)
  <2>1. doe <= 146096
    BY <1>2, SMT DEF EraDays
  <2> QED BY <1>2, <2>1, DigitsOf, SMT
<1>4. EraYear(doe) = 100 * b + 4 * q + w /\ DayOfYear(doe) = u
  BY <1>3, YearOfDigits, SMT
<1>5. PICK n \in Int : n = EraYear(doe) /\ 0 <= n /\ n < YearsOfEra
  BY <1>3, <1>4, DigitRanges, SMT DEF YearsOfEra
<1>6. PICK y \in Int : y = MarchYear(z) /\ y = YearsOfEra * e + n
  <2>1. MarchYear(z) = n + YearsOfEra * e
    BY <1>1, <1>2, <1>5, Zenon DEF MarchYear
  <2> QED BY <2>1, SMT DEF YearsOfEra
<1>7. Whole(y, YearsOfEra) = e /\ y % YearsOfEra = n
  BY <1>5, <1>6, ByYearsOfEra, SMT
<1>8. PICK f \in Int : f = Whole(n, Four)
  BY ByFour
<1>9. PICK h \in Int : h = Whole(n, Hundred)
  BY ByHundred
<1>10. DayOfYear(doe) = doe - (Year * n + f - h)
  BY <1>5, <1>8, <1>9, Zenon DEF DayOfYear
<1>11. DayInEra(n, u) = doe
  <2>1. DayInEra(n, u) = Year * n + f - h + u
    BY <1>8, <1>9, Zenon DEF DayInEra
  <2> QED BY <1>4, <1>10, <2>1, SMT DEF Year
<1>12. MarchDay(z) = u
  BY <1>2, <1>4, SMT DEF MarchDay
<1> QED BY <1>2, <1>6, <1>7, <1>11, <1>12, SMT DEF DaysOfMarch, EraDays, Epoch

\* DaysFromCivil is the inverse of DateTimeFromEpoch.
LEMMA DaysOfDate ==
  ASSUME NEW z \in Int
  PROVE  DaysFromCivil(DayYear(z), DayMonth(z), DayOfMonth(z)) = z - Epoch
<1>1. PICK u \in Int : u = MarchDay(z) /\ 0 <= u /\ u <= 365
  BY NextMarchDay, SMT DEF LastDay
<1>2. PICK y \in Int : y = MarchYear(z)
  BY NextMarchDay
<1>3. PICK m \in 0 .. 11 : m = MarchMonth(u)
  BY <1>1, MarchMonthRange, SMT
<1>4. PICK f \in Int : f = FirstDay(m)
  BY FirstDayDivision
<1>5. PICK month \in Int : month = CivilMonth(m) /\ MonthFromMarch(month) = m
  BY SMT DEF CivilMonth, MonthFromMarch
<1>6. PICK year \in Int : year = y + (IF month <= 2 THEN 1 ELSE 0)
  BY SMT
<1>7. PICK day \in Int : day = u - f + 1
  BY SMT
<1>8. DayMonth(z) = month /\ DayYear(z) = year /\ DayOfMonth(z) = day
  BY <1>1, <1>2, <1>3, <1>4, <1>5, <1>6, <1>7, SMT DEF DayMonth, DayYear, DayOfMonth
<1>9. YearFromMarch(year, month) = y
  BY <1>6, SMT DEF YearFromMarch
<1>10. FirstDay(MonthFromMarch(month)) + day - 1 = u
  BY <1>4, <1>5, <1>7, SMT
<1>11. DaysFromCivil(year, month, day) = DaysOfMarch(y, u)
  BY <1>9, <1>10, CivilSteps, SMT
<1> QED BY <1>1, <1>2, <1>8, <1>11, DaysOfMarchIs, SMT

\* Day z as a date: its weekday, and all of its fields.
WeekdayOf(z) == ((z - Epoch + 3) % 7) + 1
DateRecord(y, mo, d, w, minute) ==
  [year |-> y, month |-> mo, day |-> d, weekday |-> w, minute |-> minute]
DateOfDay(z, minute) ==
  DateRecord(DayYear(z), DayMonth(z), DayOfMonth(z), WeekdayOf(z), minute)

\* The fields of a date.
LEMMA FieldsOfRecord ==
  \A y, mo, d, w, minute :
    LET r == DateRecord(y, mo, d, w, minute)
    IN  r.year = y /\ r.month = mo /\ r.day = d /\ r.weekday = w /\ r.minute = minute
  BY SMT DEF DateRecord

\* DateTimeFromEpoch gives the date of the day; weekdays follow each other.
LEMMA DateIs ==
  ASSUME NEW n \in Int
  PROVE  DateTimeFromEpoch(n) = DateOfDay(Days(n), n % 1440)
<1>1. PICK z \in Int : z = Days(n)
  BY ByDay, SMT DEF Days, Epoch
<1>2. IsoWeekday(DayYear(z), DayMonth(z), DayOfMonth(z)) = WeekdayOf(z)
  BY DaysOfDate, Zenon DEF IsoWeekday, WeekdayOf
<1>3. PICK m : m = n % 1440
  OBVIOUS
<1>4. DateTimeFromEpoch(n) = LocalDateTime(DayYear(z), DayMonth(z), DayOfMonth(z), m)
  BY <1>1, <1>3, DateByDay, SMT DEF DayMinutes
<1>5. DateTimeFromEpoch(n) = DateOfDay(z, m)
  BY <1>2, <1>4, Zenon DEF LocalDateTime, DateOfDay, DateRecord
<1> QED BY <1>1, <1>3, <1>5, SMT

LEMMA NextWeekday ==
  \A z \in Int :
    /\ WeekdayOf(z) \in 1 .. 7
    /\ (WeekdayOf(z) % 7) + 1 = WeekdayOf(z + 1)
    /\ WeekdayOf(z) = IF WeekdayOf(z + 1) = 1 THEN 7 ELSE WeekdayOf(z + 1) - 1
  BY Z3 DEF WeekdayOf, Epoch

\* Tomorrow and Yesterday, of a date given by its fields.
DayChanged(r, a, b) == [r EXCEPT !.day = a, !.weekday = b]
MonthChanged(r, c, a, b) == [r EXCEPT !.month = c, !.day = a, !.weekday = b]
YearChanged(r, e, c, a, b) == [r EXCEPT !.year = e, !.month = c, !.day = a, !.weekday = b]

\* What the wall clock changes in a date, field by field.
LEMMA DayChangedIs ==
  ASSUME NEW y, NEW mo, NEW d, NEW w, NEW minute, NEW a, NEW b
  PROVE  DayChanged(DateRecord(y, mo, d, w, minute), a, b) = DateRecord(y, mo, a, b, minute)
<1>1. [DateRecord(y, mo, d, w, minute) EXCEPT !.day = a] = DateRecord(y, mo, a, w, minute)
  BY SMT DEF DateRecord
<1>2. [DateRecord(y, mo, a, w, minute) EXCEPT !.weekday = b] = DateRecord(y, mo, a, b, minute)
  BY SMT DEF DateRecord
<1> QED BY <1>1, <1>2, Zenon DEF DayChanged

LEMMA MonthChangedIs ==
  ASSUME NEW y, NEW mo, NEW d, NEW w, NEW minute, NEW c, NEW a, NEW b
  PROVE  MonthChanged(DateRecord(y, mo, d, w, minute), c, a, b) = DateRecord(y, c, a, b, minute)
<1>1. [DateRecord(y, mo, d, w, minute) EXCEPT !.month = c] = DateRecord(y, c, d, w, minute)
  BY SMT DEF DateRecord
<1>2. [DateRecord(y, c, d, w, minute) EXCEPT !.day = a] = DateRecord(y, c, a, w, minute)
  BY SMT DEF DateRecord
<1>3. [DateRecord(y, c, a, w, minute) EXCEPT !.weekday = b] = DateRecord(y, c, a, b, minute)
  BY SMT DEF DateRecord
<1> QED BY <1>1, <1>2, <1>3, Zenon DEF MonthChanged

LEMMA YearChangedIs ==
  ASSUME NEW y, NEW mo, NEW d, NEW w, NEW minute, NEW e, NEW c, NEW a, NEW b
  PROVE  YearChanged(DateRecord(y, mo, d, w, minute), e, c, a, b) =
           DateRecord(e, c, a, b, minute)
<1>1. [DateRecord(y, mo, d, w, minute) EXCEPT !.year = e] = DateRecord(e, mo, d, w, minute)
  BY SMT DEF DateRecord
<1>2. [DateRecord(e, mo, d, w, minute) EXCEPT !.month = c] = DateRecord(e, c, d, w, minute)
  BY SMT DEF DateRecord
<1>3. [DateRecord(e, c, d, w, minute) EXCEPT !.day = a] = DateRecord(e, c, a, w, minute)
  BY SMT DEF DateRecord
<1>4. [DateRecord(e, c, a, w, minute) EXCEPT !.weekday = b] = DateRecord(e, c, a, b, minute)
  BY SMT DEF DateRecord
<1> QED BY <1>1, <1>2, <1>3, <1>4, Zenon DEF YearChanged

\* The wall clock's next and last day of a date, field by field.
LEMMA TomorrowFields ==
  ASSUME NEW y \in Int, NEW mo \in Int, NEW d \in Int, NEW w \in Int, NEW minute \in Int,
         NEW len \in Int, len = Wall!Length(y, mo)
  PROVE  Wall!Tomorrow(DateRecord(y, mo, d, w, minute)) =
           IF d < len THEN DateRecord(y, mo, d + 1, (w % 7) + 1, minute)
           ELSE IF mo < 12 THEN DateRecord(y, mo + 1, 1, (w % 7) + 1, minute)
           ELSE DateRecord(y + 1, 1, 1, (w % 7) + 1, minute)
<1>1. PICK r : r = DateRecord(y, mo, d, w, minute)
  OBVIOUS
<1>2. r.year = y /\ r.month = mo /\ r.day = d /\ r.weekday = w /\ r.minute = minute
  BY <1>1, FieldsOfRecord, SMT
<1>3. Wall!Tomorrow(r) =
        IF d < len THEN DayChanged(r, d + 1, (w % 7) + 1)
        ELSE IF mo < 12 THEN MonthChanged(r, mo + 1, 1, (w % 7) + 1)
        ELSE YearChanged(r, y + 1, 1, 1, (w % 7) + 1)
  BY <1>2, Zenon DEF Wall!Tomorrow, DayChanged, MonthChanged, YearChanged
<1>4. /\ DayChanged(r, d + 1, (w % 7) + 1) = DateRecord(y, mo, d + 1, (w % 7) + 1, minute)
      /\ MonthChanged(r, mo + 1, 1, (w % 7) + 1) =
           DateRecord(y, mo + 1, 1, (w % 7) + 1, minute)
      /\ YearChanged(r, y + 1, 1, 1, (w % 7) + 1) =
           DateRecord(y + 1, 1, 1, (w % 7) + 1, minute)
  BY <1>1, DayChangedIs, MonthChangedIs, YearChangedIs, SMT
<1> QED BY <1>1, <1>3, <1>4, Zenon

LEMMA YesterdayFields ==
  ASSUME NEW y \in Int, NEW mo \in Int, NEW d \in Int, NEW w \in Int, NEW minute \in Int,
         NEW len \in Int, len = Wall!Length(y, mo - 1)
  PROVE  Wall!Yesterday(DateRecord(y, mo, d, w, minute)) =
           LET weekday == IF w = 1 THEN 7 ELSE w - 1
           IN  IF d > 1 THEN DateRecord(y, mo, d - 1, weekday, minute)
               ELSE IF mo > 1 THEN DateRecord(y, mo - 1, len, weekday, minute)
               ELSE DateRecord(y - 1, 12, 31, weekday, minute)
<1>1. PICK r : r = DateRecord(y, mo, d, w, minute)
  OBVIOUS
<1>2. r.year = y /\ r.month = mo /\ r.day = d /\ r.weekday = w /\ r.minute = minute
  BY <1>1, FieldsOfRecord, SMT
<1>3. PICK before : before = IF w = 1 THEN 7 ELSE w - 1
  OBVIOUS
<1>4. Wall!Yesterday(r) =
        IF d > 1 THEN DayChanged(r, d - 1, before)
        ELSE IF mo > 1 THEN MonthChanged(r, mo - 1, len, before)
        ELSE YearChanged(r, y - 1, 12, 31, before)
  BY <1>2, <1>3, Zenon DEF Wall!Yesterday, DayChanged, MonthChanged, YearChanged
<1>5. /\ DayChanged(r, d - 1, before) = DateRecord(y, mo, d - 1, before, minute)
      /\ MonthChanged(r, mo - 1, len, before) = DateRecord(y, mo - 1, len, before, minute)
      /\ YearChanged(r, y - 1, 12, 31, before) = DateRecord(y - 1, 12, 31, before, minute)
  BY <1>1, DayChangedIs, MonthChangedIs, YearChangedIs, SMT
<1> QED BY <1>1, <1>3, <1>4, <1>5, Zenon

\* The dates of a day and of the next one, field by field.
DayFields(z, y, mo, d, w) ==
  y = DayYear(z) /\ mo = DayMonth(z) /\ d = DayOfMonth(z) /\ w = WeekdayOf(z)
DayAfter(y, mo, d, w, len, yy, mm, dd, ww) ==
  /\ mo \in 1 .. 12 /\ 1 <= d /\ d <= len
  /\ IF d < len THEN yy = y /\ mm = mo /\ dd = d + 1
     ELSE dd = 1 /\ IF mo < 12 THEN yy = y /\ mm = mo + 1 ELSE yy = y + 1 /\ mm = 1
  /\ ww = (w % 7) + 1 /\ w = IF ww = 1 THEN 7 ELSE ww - 1

\* A day and the next one follow each other as dates do.
LEMMA TwoDays ==
  ASSUME NEW z \in Int
  PROVE  \E y, mo, d, w, len, yy, mm, dd, ww \in Int :
           /\ DayFields(z, y, mo, d, w) /\ DayFields(z + 1, yy, mm, dd, ww)
           /\ len = Wall!Length(y, mo)
           /\ DayAfter(y, mo, d, w, len, yy, mm, dd, ww)
<1>0. \A x \in Int : /\ DayYear(x) \in Int /\ DayMonth(x) \in Int /\ DayOfMonth(x) \in Int
                     /\ WeekdayOf(x) \in Int
  <2> SUFFICES ASSUME NEW x \in Int
               PROVE  /\ DayYear(x) \in Int /\ DayMonth(x) \in Int /\ DayOfMonth(x) \in Int
                      /\ WeekdayOf(x) \in Int
    OBVIOUS
  <2>1. DayYear(x) \in Int /\ DayMonth(x) \in 1 .. 12 /\ DayOfMonth(x) \in Int
    BY NextDate, Zenon
  <2>2. WeekdayOf(x) \in 1 .. 7
    BY NextWeekday, Zenon
  <2> QED BY <2>1, <2>2, SMT
<1>1. PICK y, mo, d, w \in Int : DayFields(z, y, mo, d, w)
  BY <1>0, Zenon DEF DayFields
<1>2. PICK p \in Int : p = z + 1
  BY SMT
<1>3. PICK yy, mm, dd, ww \in Int : DayFields(p, yy, mm, dd, ww)
  BY <1>0, <1>2, Zenon DEF DayFields
<1>4. PICK len \in Int : len = Wall!Length(y, mo)
  BY SMT DEF Wall!Length
<1>5. DayAfter(y, mo, d, w, len, yy, mm, dd, ww)
  <2>1. /\ mo \in 1 .. 12 /\ 1 <= d /\ d <= len
        /\ IF d < len THEN yy = y /\ mm = mo /\ dd = d + 1
           ELSE dd = 1 /\ IF mo < 12 THEN yy = y /\ mm = mo + 1 ELSE yy = y + 1 /\ mm = 1
    BY <1>1, <1>2, <1>3, <1>4, NextDate, Zenon DEF DayFields
  <2>2. ww = (w % 7) + 1 /\ w = IF ww = 1 THEN 7 ELSE ww - 1
    BY <1>1, <1>2, <1>3, NextWeekday, SMT DEF DayFields
  <2> QED BY <2>1, <2>2, Zenon DEF DayAfter
<1> QED BY <1>1, <1>2, <1>3, <1>4, <1>5, Zenon

\* The wall clock turns a day into the next one, and back.
LEMMA TomorrowIs ==
  ASSUME NEW z \in Int, NEW minute \in Int
  PROVE  Wall!Tomorrow(DateOfDay(z, minute)) = DateOfDay(z + 1, minute)
<1>1. PICK y, mo, d, w, len, yy, mm, dd, ww \in Int :
           /\ DayFields(z, y, mo, d, w) /\ DayFields(z + 1, yy, mm, dd, ww)
           /\ len = Wall!Length(y, mo)
           /\ DayAfter(y, mo, d, w, len, yy, mm, dd, ww)
  BY TwoDays, Zenon
<1>2. /\ DateOfDay(z, minute) = DateRecord(y, mo, d, w, minute)
      /\ DateOfDay(z + 1, minute) = DateRecord(yy, mm, dd, ww, minute)
  BY <1>1, Zenon DEF DateOfDay, DayFields
<1>3. Wall!Tomorrow(DateRecord(y, mo, d, w, minute)) = DateRecord(yy, mm, dd, ww, minute)
  BY <1>1, TomorrowFields, SMT DEF DayAfter
<1> QED BY <1>2, <1>3, Zenon

LEMMA YesterdayIs ==
  ASSUME NEW z \in Int, NEW minute \in Int
  PROVE  Wall!Yesterday(DateOfDay(z + 1, minute)) = DateOfDay(z, minute)
<1>1. PICK y, mo, d, w, len, yy, mm, dd, ww \in Int :
           /\ DayFields(z, y, mo, d, w) /\ DayFields(z + 1, yy, mm, dd, ww)
           /\ len = Wall!Length(y, mo)
           /\ DayAfter(y, mo, d, w, len, yy, mm, dd, ww)
  BY TwoDays, Zenon
<1>2. /\ DateOfDay(z, minute) = DateRecord(y, mo, d, w, minute)
      /\ DateOfDay(z + 1, minute) = DateRecord(yy, mm, dd, ww, minute)
  BY <1>1, Zenon DEF DateOfDay, DayFields
<1>3. PICK before \in Int : before = Wall!Length(yy, mm - 1)
  BY SMT DEF Wall!Length
<1>4. Wall!Yesterday(DateRecord(yy, mm, dd, ww, minute)) =
        IF dd > 1 THEN DateRecord(yy, mm, dd - 1, w, minute)
        ELSE IF mm > 1 THEN DateRecord(yy, mm - 1, before, w, minute)
        ELSE DateRecord(yy - 1, 12, 31, w, minute)
  BY <1>1, <1>3, YesterdayFields, SMT DEF DayAfter
<1>5. /\ dd > 1 => yy = y /\ mm = mo /\ dd - 1 = d
      /\ ~(dd > 1) /\ mm > 1 => yy = y /\ mm - 1 = mo /\ before = d
      /\ ~(dd > 1) /\ ~(mm > 1) => yy - 1 = y /\ mo = 12 /\ d = len
  <2>1. /\ dd > 1 => yy = y /\ mm = mo /\ dd - 1 = d
        /\ ~(dd > 1) /\ mm > 1 => yy = y /\ mm - 1 = mo /\ len = d
        /\ ~(dd > 1) /\ ~(mm > 1) => yy - 1 = y /\ mo = 12 /\ d = len
    BY <1>1, SMT DEF DayAfter
  <2>2. yy = y /\ mm - 1 = mo => before = len
    BY <1>1, <1>3, Zenon
  <2> QED BY <2>1, <2>2, SMT
<1>6. mo = 12 => len = 31
  BY <1>1, SMT DEF Wall!Length
<1>7. Wall!Yesterday(DateRecord(yy, mm, dd, ww, minute)) = DateRecord(y, mo, d, w, minute)
  BY <1>4, <1>5, <1>6, SMT
<1> QED BY <1>2, <1>7, Zenon

\* It sets the minute of a day.
LEMMA MinuteSet ==
  \A z, a, b : [DateOfDay(z, a) EXCEPT !.minute = b] = DateOfDay(z, b)
  BY SMT DEF DateOfDay, DateRecord

\* The arithmetic on the Unix time is a calendar, for every minute.
LEMMA MovedIs ==
  ASSUME NEW n \in Int, NEW k \in Int, -1440 < k, k < 1440
  PROVE  Wall!Moved(DateTimeFromEpoch(n), k) = DateTimeFromEpoch(n + k)
<1>1. PICK z \in Int : z = Days(n)
  BY ByDay, SMT DEF Days, Epoch
<1>3. PICK p \in Int : p = n + k
  BY SMT
<1>a. PICK x \in Int : x = Days(p)
  BY ByDay, SMT DEF Days, Epoch
<1>2. PICK m \in Int : m = n % 1440
  BY SMT
<1>4. PICK r \in Int : r = p % 1440
  BY SMT
<1>5. /\ m + k >= 1440 => x = z + 1 /\ r = m + k - 1440
      /\ m + k < 0 => z = x + 1 /\ r = m + k + 1440
      /\ 0 <= m + k /\ m + k < 1440 => x = z /\ r = m + k
  <2>1. PICK v \in Int : v = Whole(n, DayMinutes)
    BY ByDay, SMT
  <2>2. PICK v2 \in Int : v2 = Whole(p, DayMinutes)
    BY ByDay, SMT
  <2>3. /\ m + k >= 1440 => v2 = v + 1 /\ r = m + k - 1440
        /\ m + k < 0 => v2 = v - 1 /\ r = m + k + 1440
        /\ 0 <= m + k /\ m + k < 1440 => v2 = v /\ r = m + k
    BY <1>2, <1>3, <1>4, <2>1, <2>2, SMT DEF Whole, DayMinutes
  <2> QED BY <1>1, <1>a, <2>1, <2>2, <2>3, SMT DEF Days, Epoch
<1>6. DateTimeFromEpoch(n) = DateOfDay(z, m) /\ DateTimeFromEpoch(p) = DateOfDay(x, r)
  BY <1>1, <1>a, <1>2, <1>4, DateIs, SMT
<1>7. DateOfDay(z, m).minute = m
  BY SMT DEF DateOfDay, DateRecord
<1>b. PICK date1 : date1 = DateOfDay(z, m)
  OBVIOUS
<1>8. CASE m + k >= 1440
  <2>1. Wall!Moved(date1, k) = [Wall!Tomorrow(date1) EXCEPT !.minute = r]
    BY <1>5, <1>7, <1>8, <1>b, SMT DEF Wall!Moved
  <2>2. Wall!Tomorrow(date1) = DateOfDay(x, m)
    BY <1>5, <1>b, <1>8, TomorrowIs, SMT
  <2> QED BY <1>3, <1>6, <1>b, <2>1, <2>2, MinuteSet, SMT
<1>9. CASE m + k < 0
  <2>1. Wall!Moved(date1, k) = [Wall!Yesterday(date1) EXCEPT !.minute = r]
    BY <1>5, <1>7, <1>9, <1>b, SMT DEF Wall!Moved
  <2>2. Wall!Yesterday(date1) = DateOfDay(x, m)
    BY <1>5, <1>9, <1>b, YesterdayIs, SMT
  <2> QED BY <1>3, <1>6, <1>b, <2>1, <2>2, MinuteSet, SMT
<1>10. CASE 0 <= m + k /\ m + k < 1440
  <2>1. Wall!Moved(date1, k) = [date1 EXCEPT !.minute = r]
    BY <1>5, <1>7, <1>10, <1>b, SMT DEF Wall!Moved
  <2> QED BY <1>3, <1>5, <1>6, <1>10, <1>b, <2>1, MinuteSet, SMT
<1> QED BY <1>8, <1>9, <1>10, SMT

\* The calendar of dateTimeFromEpoch is the one on the wall: it begins with
\* Thursday, 1 January 1970, and a step of less than a day, forward or back,
\* from any minute is the wall clock's; daysFromCivil gives back the day of
\* every date.  So the local date is right for every Unix time and not only for
\* the days that a run visits.
THEOREM CalendarIsRight ==
  /\ DateTimeFromEpoch(0) = [year |-> 1970, month |-> 1, day |-> 1, weekday |-> 4, minute |-> 0]
  /\ \A n \in Int, k \in Int : -1440 < k /\ k < 1440 =>
       DateTimeFromEpoch(n + k) = Wall!Moved(DateTimeFromEpoch(n), k)
  /\ \A n \in Int :
       LET d == DateTimeFromEpoch(n)
       IN  DaysFromCivil(d.year, d.month, d.day) * 1440 + d.minute = n
<1>1. DateTimeFromEpoch(0) = [year |-> 1970, month |-> 1, day |-> 1, weekday |-> 4, minute |-> 0]
  <2>1. YearInEra(135080) = 369 /\ DayInYear(135080, 369) = 306
    BY SMT DEF YearInEra, DayInYear
  <2>2. IsoWeekday(1970, 1, 1) = 4
    BY SMT DEF IsoWeekday, DaysFromCivil, EraDays, Epoch
  <2> QED BY <2>1, <2>2, SMT DEF DateTimeFromEpoch, LocalDateTime, EraDays, Epoch
<1>2. ASSUME NEW n \in Int, NEW k \in Int, -1440 < k, k < 1440
      PROVE  DateTimeFromEpoch(n + k) = Wall!Moved(DateTimeFromEpoch(n), k)
  BY <1>2, MovedIs, SMT
<1>3. ASSUME NEW n \in Int
      PROVE  LET d == DateTimeFromEpoch(n)
             IN  DaysFromCivil(d.year, d.month, d.day) * 1440 + d.minute = n
  <2>1. PICK z \in Int : z = Days(n)
    BY ByDay, SMT DEF Days, Epoch
  <2>2. PICK d : d = DateTimeFromEpoch(n)
    OBVIOUS
  <2>3. /\ d.year = DayYear(z) /\ d.month = DayMonth(z) /\ d.day = DayOfMonth(z)
        /\ d.minute = n % 1440
    BY <2>1, <2>2, DateFieldsOf, SMT DEF DayMinutes
  <2>4. DaysFromCivil(d.year, d.month, d.day) = z - Epoch
    BY <2>3, DaysOfDate, SMT
  <2>5. (z - Epoch) * 1440 + (n % 1440) = n
    BY <2>1, SMT DEF Days, Whole, DayMinutes, Epoch
  <2>6. DaysFromCivil(d.year, d.month, d.day) * 1440 + d.minute = n
    BY <2>3, <2>4, <2>5, SMT
  <2> QED BY <2>2, <2>6, SMT
<1> QED BY <1>1, <1>2, <1>3, SMT

\* The fields of every date fit the types of LocalDateTime and none of the unsigned
\* differences of dateTimeFromEpoch goes below zero: the year of the era and the day
\* of the year are in their ranges, and every date is one of the calendar.  So
\* integers stand for the code's unsigned numbers and uint8_t fields.
THEOREM DatesFit ==
  /\ \A doe \in Int : 0 <= doe /\ doe < EraDays =>
       LET yoe == YearInEra(doe)
       IN  0 <= yoe /\ yoe <= 399 /\ 0 <= DayInYear(doe, yoe) /\ DayInYear(doe, yoe) <= 365
  /\ \A n \in Int :
       LET d == DateTimeFromEpoch(n)
       IN  /\ d.month \in 1 .. 12 /\ 1 <= d.day /\ d.day <= Wall!Length(d.year, d.month)
           /\ d.weekday \in 1 .. 7 /\ 0 <= d.minute /\ d.minute < 1440
<1>1. ASSUME NEW doe \in Int, 0 <= doe, doe < EraDays
      PROVE  LET yoe == YearInEra(doe)
             IN  0 <= yoe /\ yoe <= 399 /\ 0 <= DayInYear(doe, yoe) /\ DayInYear(doe, yoe) <= 365
  <2>1. doe <= 146096
    BY <1>1, SMT DEF EraDays
  <2>2. PICK b, q, w, u \in Int : Digits(doe, b, q, w, u)
    BY <1>1, <2>1, DigitsOf, SMT
  <2>3. YearInEra(doe) = 100 * b + 4 * q + w /\ DayInYear(doe, EraYear(doe)) = u
    BY <2>2, EraSteps, YearOfDigits, SMT
  <2>4. YearInEra(doe) = EraYear(doe)
    BY EraSteps
  <2>5. 0 <= b /\ b <= 3 /\ 0 <= q /\ q <= 24 /\ 0 <= w /\ w <= 3 /\ 0 <= u /\ u <= 365
    BY <2>2, SMT DEF Digits
  <2> QED BY <2>3, <2>4, <2>5, SMT
<1>2. ASSUME NEW n \in Int
      PROVE  LET d == DateTimeFromEpoch(n)
             IN  /\ d.month \in 1 .. 12 /\ 1 <= d.day /\ d.day <= Wall!Length(d.year, d.month)
                 /\ d.weekday \in 1 .. 7 /\ 0 <= d.minute /\ d.minute < 1440
  <2>1. PICK z \in Int : z = Days(n)
    BY ByDay, SMT DEF Days, Epoch
  <2>2. PICK m \in Int : m = n % 1440 /\ 0 <= m /\ m < 1440
    BY SMT
  <2>3. DateTimeFromEpoch(n) =
          DateRecord(DayYear(z), DayMonth(z), DayOfMonth(z), WeekdayOf(z), m)
    BY <2>1, <2>2, DateIs, SMT DEF DateOfDay
  <2>4. PICK d : d = DateTimeFromEpoch(n)
    OBVIOUS
  <2>5. /\ d.year = DayYear(z) /\ d.month = DayMonth(z) /\ d.day = DayOfMonth(z)
        /\ d.weekday = WeekdayOf(z) /\ d.minute = m
    BY <2>3, <2>4, FieldsOfRecord, SMT
  <2>6. /\ DayMonth(z) \in 1 .. 12 /\ 1 <= DayOfMonth(z)
        /\ DayOfMonth(z) <= Wall!Length(DayYear(z), DayMonth(z))
    BY NextDate, Zenon
  <2>7. WeekdayOf(z) \in 1 .. 7
    BY NextWeekday, Zenon
  <2> QED BY <2>2, <2>4, <2>5, <2>6, <2>7, SMT
<1> QED BY <1>1, <1>2, SMT

\* Every year has its digits.
LEMMA YearDigits ==
  ASSUME NEW y \in Int
  PROVE  \E e, b, q, w \in Int :
           /\ y = YearWith(e, b, q, w)
           /\ 0 <= b /\ b <= 3 /\ 0 <= q /\ q <= 24 /\ 0 <= w /\ w <= 3
<1>1. PICK e \in Int : 400 * e <= y /\ y < 400 * e + 400
  <2>1. y \div 400 \in Int /\ 400 * (y \div 400) <= y /\ y < 400 * (y \div 400) + 400
    BY Z3
  <2> QED BY <2>1, SMT
<1>2. PICK n \in Int : n = y - 400 * e /\ 0 <= n /\ n < 400
  BY <1>1, SMT
<1>3. PICK b \in Int : 100 * b <= n /\ n < 100 * b + 100
  <2>1. PICK b \in Int : b = Whole(n, Hundred) /\ Covers(n, Hundred, b)
    BY ByHundred
  <2>2. 100 * b <= n /\ n < 100 * b + 100
    BY <2>1, SMT DEF Covers, Hundred
  <2> QED BY <2>2, SMT
<1>4. PICK m \in Int : m = n - 100 * b /\ 0 <= m /\ m < 100
  BY <1>3, SMT
<1>5. PICK q \in Int : 4 * q <= m /\ m < 4 * q + 4
  <2>1. PICK q \in Int : q = Whole(m, Four) /\ Covers(m, Four, q)
    BY ByFour
  <2>2. 4 * q <= m /\ m < 4 * q + 4
    BY <2>1, SMT DEF Covers, Four
  <2> QED BY <2>2, SMT
<1>6. PICK w \in Int : w = m - 4 * q /\ 0 <= w /\ w < 4
  BY <1>5, SMT
<1>7. y = YearWith(e, b, q, w)
  BY <1>2, <1>4, <1>6, SMT DEF YearWith
<1>8. 0 <= b /\ b <= 3 /\ 0 <= q /\ q <= 24 /\ w <= 3
  BY <1>2, <1>3, <1>4, <1>5, <1>6, SMT
<1> QED BY <1>6, <1>7, <1>8, Zenon

\* The days before a year that begins in March, by its digits.
LEMMA MarchOfYear ==
  ASSUME NEW e \in Int, NEW b \in Int, NEW q \in Int, NEW w \in Int, NEW u \in Int,
         0 <= b, b <= 3, 0 <= q, q <= 24, 0 <= w, w <= 3
  PROVE  DaysOfMarch(YearWith(e, b, q, w), u) =
           EraDays * e + 36524 * b + 1461 * q + 365 * w + u - Epoch
<1>1. PICK n \in Int : n = 100 * b + 4 * q + w
  BY SMT
<1>2. PICK y \in Int : y = YearWith(e, b, q, w)
  BY SMT DEF YearWith
<1>3. Whole(y, YearsOfEra) = e /\ y % YearsOfEra = n
  <2>1. y = YearsOfEra * e + n /\ 0 <= n /\ n < YearsOfEra
    BY <1>1, <1>2, SMT DEF YearWith, YearsOfEra
  <2> QED BY <2>1, ByYearsOfEra, SMT
<1>4. Whole(n, Four) = 25 * b + q
  BY <1>1, SMT DEF Whole, Four
<1>5. Whole(n, Hundred) = b
  BY <1>1, SMT DEF Whole, Hundred
<1>6. DayInEra(n, u) = Year * n + (25 * b + q) - b + u
  BY <1>4, <1>5, SMT DEF DayInEra, Year
<1>7. PICK d \in Int : d = DayInEra(n, u)
  BY <1>1, <1>6, SMT DEF Year
<1>8. DaysOfMarch(y, u) = EraDays * e + d - Epoch
  BY <1>3, <1>7, Zenon DEF DaysOfMarch
<1>9. d = 36524 * b + 1461 * q + 365 * w + u
  BY <1>1, <1>6, <1>7, SMT DEF Year
<1> QED BY <1>2, <1>8, <1>9, SMT DEF EraDays, Epoch

\* A year that ends in a leap day is a day longer.
LEMMA NextMarch ==
  ASSUME NEW y \in Int
  PROVE  DaysOfMarch(y + 1, 0) = DaysOfMarch(y, 0) + (IF LeapYear(y + 1) THEN 366 ELSE 365)
<1>1. PICK e, b, q, w \in Int :
           /\ y = YearWith(e, b, q, w)
           /\ 0 <= b /\ b <= 3 /\ 0 <= q /\ q <= 24 /\ 0 <= w /\ w <= 3
  BY YearDigits
<1>2. LeapYear(y + 1) <=> LongYear(b, q, w)
  BY <1>1, LeapOfDigits, SMT
<1>3. PICK ee, bb, qq, ww \in Int :
           /\ 0 <= bb /\ bb <= 3 /\ 0 <= qq /\ qq <= 24 /\ 0 <= ww /\ ww <= 3
           /\ IF w < 3 THEN ee = e /\ bb = b /\ qq = q /\ ww = w + 1
              ELSE IF q < 24 THEN ee = e /\ bb = b /\ qq = q + 1 /\ ww = 0
              ELSE IF b < 3 THEN ee = e /\ bb = b + 1 /\ qq = 0 /\ ww = 0
              ELSE ee = e + 1 /\ bb = 0 /\ qq = 0 /\ ww = 0
  BY <1>1, SMT
<1>4. y + 1 = YearWith(ee, bb, qq, ww)
  BY <1>1, <1>3, SMT DEF YearWith
<1>5. DaysOfMarch(y, 0) = EraDays * e + 36524 * b + 1461 * q + 365 * w + 0 - Epoch
  BY <1>1, MarchOfYear, SMT
<1>6. DaysOfMarch(y + 1, 0) = EraDays * ee + 36524 * bb + 1461 * qq + 365 * ww + 0 - Epoch
  BY <1>3, <1>4, MarchOfYear, SMT
<1>7. (IF LeapYear(y + 1) THEN 366 ELSE 365) = IF w = 3 /\ (q < 24 \/ b = 3) THEN 366 ELSE 365
  BY <1>2, Zenon DEF LongYear
<1>8. EraDays * ee + 36524 * bb + 1461 * qq + 365 * ww + 0 - Epoch =
        EraDays * e + 36524 * b + 1461 * q + 365 * w + 0 - Epoch
          + (IF w = 3 /\ (q < 24 \/ b = 3) THEN 366 ELSE 365)
  BY <1>1, <1>3, SMT DEF EraDays, Epoch
<1> QED BY <1>5, <1>6, <1>7, <1>8, SMT

\* The days before a month, and those before a day of it.
LEMMA CivilType == \A y, m, d \in Int : DaysFromCivil(y, m, d) \in Int
  BY SMT DEF DaysFromCivil, EraDays, Epoch

LEMMA DayInMonth ==
  ASSUME NEW y \in Int, NEW m \in Int, NEW d \in Int
  PROVE  DaysFromCivil(y, m, d) = DaysFromCivil(y, m, 1) + d - 1
  BY SMT DEF DaysFromCivil, EraDays, Epoch

\* The days of a year that begins in March are counted from its first.
LEMMA MarchDays ==
  ASSUME NEW y \in Int, NEW u \in Int
  PROVE  DaysOfMarch(y, 0) \in Int /\ DaysOfMarch(y, u) = DaysOfMarch(y, 0) + u
<1>1. PICK n \in Int : n = y % YearsOfEra
  BY SMT DEF YearsOfEra
<1>2. PICK e \in Int : e = Whole(y, YearsOfEra)
  BY SMT DEF YearsOfEra, Whole
<1>3. PICK f \in Int : f = Whole(n, Four)
  BY ByFour
<1>4. PICK h \in Int : h = Whole(n, Hundred)
  BY ByHundred
<1>5. \A x \in Int : DaysOfMarch(y, x) = EraDays * e + (Year * n + f - h + x) - Epoch
  BY <1>1, <1>2, <1>3, <1>4, Zenon DEF DaysOfMarch, DayInEra
<1> QED BY <1>5, SMT DEF EraDays, Year, Epoch

\* The months follow each other.
LEMMA NextMonth ==
  ASSUME NEW y \in Int, NEW m \in 1 .. 12
  PROVE  /\ Wall!Length(y, m) \in 28 .. 31
         /\ DaysFromCivil(y, m, 1) + Wall!Length(y, m) =
              IF m < 12 THEN DaysFromCivil(y, m + 1, 1) ELSE DaysFromCivil(y + 1, 1, 1)
<1>1. Wall!Length(y, m) \in 28 .. 31
  BY SMT DEF Wall!Length
<1>2. \A x \in Int : DaysOfMarch(x, 0) \in Int
  BY MarchDays
<1>3. \A x, k \in Int : DaysFromCivil(x, k, 1) =
        DaysOfMarch(YearFromMarch(x, k), 0) + FirstDay(MonthFromMarch(k))
  <2> SUFFICES ASSUME NEW x \in Int, NEW k \in Int
               PROVE  DaysFromCivil(x, k, 1) =
                        DaysOfMarch(YearFromMarch(x, k), 0) + FirstDay(MonthFromMarch(k))
    OBVIOUS
  <2>1. PICK a \in Int : a = YearFromMarch(x, k)
    BY SMT DEF YearFromMarch
  <2>2. PICK j \in Int : j = MonthFromMarch(k)
    BY SMT DEF MonthFromMarch
  <2>3. PICK f \in Int : f = FirstDay(j)
    BY FirstDayDivision
  <2>4. DaysFromCivil(x, k, 1) = DaysOfMarch(a, f + 1 - 1)
    BY <2>1, <2>2, <2>3, CivilSteps, SMT
  <2>5. DaysOfMarch(a, f + 1 - 1) = DaysOfMarch(a, 0) + f
    BY <2>3, MarchDays, SMT
  <2> QED BY <2>1, <2>2, <2>3, <2>4, <2>5, Zenon
<1>4. CASE m > 2 /\ m < 12
  <2>1. PICK j \in 0 .. 8 : j = m - 3
    BY <1>4, SMT
  <2>2. DaysFromCivil(y, m, 1) = DaysOfMarch(y, 0) + FirstDay(j)
    BY <1>3, <1>4, <2>1, SMT DEF YearFromMarch, MonthFromMarch
  <2>3. DaysFromCivil(y, m + 1, 1) = DaysOfMarch(y, 0) + FirstDay(j + 1)
    BY <1>3, <1>4, <2>1, SMT DEF YearFromMarch, MonthFromMarch
  <2>4. Wall!Length(y, m) = FirstDay(j + 1) - FirstDay(j)
    BY <1>4, <2>1, FirstDays, SMT DEF Wall!Length
  <2> QED BY <1>1, <1>2, <1>4, <2>1, <2>2, <2>3, <2>4, FirstDayDivision, SMT
<1>5. CASE m = 12
  <2>1. DaysFromCivil(y, 12, 1) = DaysOfMarch(y, 0) + FirstDay(9)
    BY <1>3, SMT DEF YearFromMarch, MonthFromMarch
  <2>2. DaysFromCivil(y + 1, 1, 1) = DaysOfMarch(y, 0) + FirstDay(10)
    BY <1>3, SMT DEF YearFromMarch, MonthFromMarch
  <2> QED BY <1>1, <1>2, <1>5, <2>1, <2>2, FirstDays, SMT DEF Wall!Length
<1>6. CASE m = 1
  <2>1. DaysFromCivil(y, 1, 1) = DaysOfMarch(y - 1, 0) + FirstDay(10)
    BY <1>3, SMT DEF YearFromMarch, MonthFromMarch
  <2>2. DaysFromCivil(y, 2, 1) = DaysOfMarch(y - 1, 0) + FirstDay(11)
    BY <1>3, SMT DEF YearFromMarch, MonthFromMarch
  <2> QED BY <1>1, <1>2, <1>6, <2>1, <2>2, FirstDays, SMT DEF Wall!Length
<1>7. CASE m = 2
  <2>1. DaysFromCivil(y, 2, 1) = DaysOfMarch(y - 1, 0) + FirstDay(11)
    BY <1>3, SMT DEF YearFromMarch, MonthFromMarch
  <2>2. DaysFromCivil(y, 3, 1) = DaysOfMarch(y, 0) + FirstDay(0)
    BY <1>3, SMT DEF YearFromMarch, MonthFromMarch
  <2>3. PICK p \in Int : p = y - 1 /\ y = p + 1
    BY SMT
  <2>4. DaysOfMarch(y, 0) = DaysOfMarch(p, 0) + (IF LeapYear(y) THEN 366 ELSE 365)
    BY <2>3, NextMarch, SMT
  <2>5. Wall!Leap(y) <=> LeapYear(y)
    BY Z3 DEF Wall!Leap, LeapYear
  <2>6. Wall!Length(y, 2) = IF LeapYear(y) THEN 29 ELSE 28
    BY <2>5, SMT DEF Wall!Length
  <2> QED BY <1>2, <1>7, <2>1, <2>2, <2>3, <2>4, <2>6, FirstDays, SMT
<1> QED BY <1>4, <1>5, <1>6, <1>7, SMT

\* The days before each month of a year, and before the next year.
MonthStart(y, m) == IF m = 13 THEN DaysFromCivil(y + 1, 1, 1) ELSE DaysFromCivil(y, m, 1)

\* Months follow each other without a gap.
LEMMA MonthStarts ==
  ASSUME NEW y \in Int, NEW m \in 1 .. 12
  PROVE  /\ MonthStart(y, m) \in Int /\ Wall!Length(y, m) \in 28 .. 31
         /\ MonthStart(y, m) = DaysFromCivil(y, m, 1)
         /\ MonthStart(y, m + 1) = MonthStart(y, m) + Wall!Length(y, m)
<1>1. PICK a \in Int : a = DaysFromCivil(y, m, 1)
  <2>1. DaysFromCivil(y, m, 1) \in Int
    BY CivilType, SMT
  <2> QED BY <2>1, Zenon
<1>2. PICK len \in 28 .. 31 : len = Wall!Length(y, m)
  BY NextMonth
<1>3. PICK b \in Int : b = IF m < 12 THEN DaysFromCivil(y, m + 1, 1) ELSE DaysFromCivil(y + 1, 1, 1)
  <2>1. DaysFromCivil(y, m + 1, 1) \in Int /\ DaysFromCivil(y + 1, 1, 1) \in Int
    BY CivilType, SMT
  <2> QED BY <2>1, Zenon
<1>4. a + len = b
  BY <1>1, <1>2, <1>3, NextMonth, Zenon
<1>5. MonthStart(y, m) = a
  BY <1>1, SMT DEF MonthStart
<1>6. MonthStart(y, m + 1) = b
  BY <1>3, SMT DEF MonthStart
<1> QED BY <1>1, <1>2, <1>4, <1>5, <1>6, SMT

\* Types of these.
LEMMA MonthTypes ==
  \A y \in Int : \A m \in 1 .. 13 : MonthStart(y, m) \in Int
<1> SUFFICES ASSUME NEW y \in Int, NEW m \in 1 .. 13
             PROVE  MonthStart(y, m) \in Int
  OBVIOUS
<1>1. PICK a \in Int : a = DaysFromCivil(y, m, 1)
  <2>1. DaysFromCivil(y, m, 1) \in Int
    BY CivilType, SMT
  <2> QED BY <2>1, Zenon
<1>2. PICK b \in Int : b = DaysFromCivil(y + 1, 1, 1)
  <2>1. y + 1 \in Int /\ 1 \in Int
    BY SMT
  <2> QED BY <2>1, CivilType, Zenon
<1> QED BY <1>1, <1>2, SMT DEF MonthStart

LEMMA LengthTypes ==
  \A y \in Int : \A m \in 1 .. 12 :
    Wall!Length(y, m) \in Int /\ 28 <= Wall!Length(y, m) /\ Wall!Length(y, m) <= 31
  BY SMT DEF Wall!Length

\* A later month begins when an earlier one has ended.
LEMMA MonthAfter ==
  ASSUME NEW y \in Int, NEW m \in 1 .. 12, NEW n \in 2 .. 13, n = m + 1
  PROVE  MonthStart(y, m) + 28 <= MonthStart(y, n)
<1>1. PICK a \in Int : a = MonthStart(y, m)
  BY MonthStarts
<1>2. PICK len \in Int : len = Wall!Length(y, m) /\ 28 <= len
  BY LengthTypes
<1>3. MonthStart(y, n) = a + len
  BY <1>1, <1>2, MonthStarts, Zenon
<1> QED BY <1>1, <1>2, <1>3, SMT

LEMMA MonthsGrow ==
  ASSUME NEW y \in Int, NEW m \in 1 .. 12, NEW n \in 2 .. 13, m < n
  PROVE  MonthStart(y, m) + Wall!Length(y, m) + (IF n = m + 1 THEN 0 ELSE 28) <= MonthStart(y, n)
<1>1. PICK s1, s2, s3, s4, s5, s6 \in Int :
        /\ s1 = MonthStart(y, 1) /\ s2 = MonthStart(y, 2) /\ s3 = MonthStart(y, 3)
        /\ s4 = MonthStart(y, 4) /\ s5 = MonthStart(y, 5) /\ s6 = MonthStart(y, 6)
  <2>1. /\ MonthStart(y, 1) \in Int
        /\ MonthStart(y, 2) \in Int
        /\ MonthStart(y, 3) \in Int
        /\ MonthStart(y, 4) \in Int
        /\ MonthStart(y, 5) \in Int
        /\ MonthStart(y, 6) \in Int
    BY MonthTypes, SMT
  <2> QED BY <2>1, Zenon
<1>2. PICK s7, s8, s9, s10, s11, s12 \in Int :
        /\ s7 = MonthStart(y, 7) /\ s8 = MonthStart(y, 8) /\ s9 = MonthStart(y, 9)
        /\ s10 = MonthStart(y, 10) /\ s11 = MonthStart(y, 11) /\ s12 = MonthStart(y, 12)
  <2>1. /\ MonthStart(y, 7) \in Int
        /\ MonthStart(y, 8) \in Int
        /\ MonthStart(y, 9) \in Int
        /\ MonthStart(y, 10) \in Int
        /\ MonthStart(y, 11) \in Int
        /\ MonthStart(y, 12) \in Int
    BY MonthTypes, SMT
  <2> QED BY <2>1, Zenon
<1>3. PICK s13 \in Int : s13 = MonthStart(y, 13)
  BY MonthTypes, SMT
<1>4. /\ s1 + 28 <= s2 /\ s2 + 28 <= s3 /\ s3 + 28 <= s4 /\ s4 + 28 <= s5 /\ s5 + 28 <= s6
      /\ s6 + 28 <= s7 /\ s7 + 28 <= s8 /\ s8 + 28 <= s9 /\ s9 + 28 <= s10
      /\ s10 + 28 <= s11 /\ s11 + 28 <= s12 /\ s12 + 28 <= s13
  BY <1>1, <1>2, <1>3, MonthAfter, SMT
<1>5. \A i \in 2 .. 13, j \in 2 .. 13 : i < j => MonthStart(y, i) + 28 <= MonthStart(y, j)
  <2> SUFFICES ASSUME NEW i \in 2 .. 13, NEW j \in 2 .. 13, i < j
               PROVE  MonthStart(y, i) + 28 <= MonthStart(y, j)
    OBVIOUS
  <2>1. PICK a \in Int : a = MonthStart(y, i)
    BY <1>1, <1>2, <1>3, SMT
  <2>2. PICK b \in Int : b = MonthStart(y, j)
    BY <1>1, <1>2, <1>3, SMT
  <2>3. /\ i = 2 => a = s2
        /\ i = 3 => a = s3
        /\ i = 4 => a = s4
        /\ i = 5 => a = s5
        /\ i = 6 => a = s6
        /\ i = 7 => a = s7
        /\ i = 8 => a = s8
        /\ i = 9 => a = s9
        /\ i = 10 => a = s10
        /\ i = 11 => a = s11
        /\ i = 12 => a = s12
        /\ i = 13 => a = s13
    BY <1>1, <1>2, <1>3, <2>1, Zenon
  <2>4. /\ j = 2 => b = s2
        /\ j = 3 => b = s3
        /\ j = 4 => b = s4
        /\ j = 5 => b = s5
        /\ j = 6 => b = s6
        /\ j = 7 => b = s7
        /\ j = 8 => b = s8
        /\ j = 9 => b = s9
        /\ j = 10 => b = s10
        /\ j = 11 => b = s11
        /\ j = 12 => b = s12
        /\ j = 13 => b = s13
    BY <1>1, <1>2, <1>3, <2>2, Zenon
  <2>5. a + 28 <= b
    BY <1>4, <2>3, <2>4, SMT
  <2> QED BY <2>1, <2>2, <2>5, Zenon
<1>6. PICK k \in 2 .. 13 : k = m + 1
  BY SMT
<1>7. PICK a, b, c \in Int : a = MonthStart(y, m) /\ b = MonthStart(y, k) /\ c = MonthStart(y, n)
  <2>1. k \in 1 .. 13 /\ m \in 1 .. 13 /\ n \in 1 .. 13
    BY <1>6, SMT
  <2> QED BY <2>1, MonthTypes, Zenon
<1>8. PICK len \in Int : len = Wall!Length(y, m) /\ b = a + len
  <2>1. PICK len \in Int : len = Wall!Length(y, m)
    BY LengthTypes
  <2>2. b = a + len
    BY <1>6, <1>7, <2>1, MonthStarts, Zenon
  <2> QED BY <2>1, <2>2
<1>9. k < n => b + 28 <= c
  BY <1>5, <1>7, Zenon
<1>10. k = n => b = c
  BY <1>7, Zenon
<1>11. a + len + (IF n = m + 1 THEN 0 ELSE 28) <= c
  BY <1>6, <1>8, <1>9, <1>10, SMT
<1> QED BY <1>7, <1>8, <1>11, Zenon

\* Two dates of one year with the same day are one date.
LEMMA OneDate ==
  ASSUME NEW y \in Int, NEW m \in 1 .. 12, NEW n \in 1 .. 12, NEW c \in Int, NEW d \in Int,
         1 <= c, c <= Wall!Length(y, m), 1 <= d, d <= Wall!Length(y, n),
         DaysFromCivil(y, m, c) = DaysFromCivil(y, n, d)
  PROVE  m = n /\ c = d
<1>1. PICK a, b \in Int : a = MonthStart(y, m) /\ b = MonthStart(y, n)
  BY MonthStarts
<1>2. PICK k, l \in Int : k = Wall!Length(y, m) /\ l = Wall!Length(y, n)
  BY LengthTypes, Zenon
<1>3. a + c - 1 = b + d - 1
  <2>1. a = DaysFromCivil(y, m, 1) /\ b = DaysFromCivil(y, n, 1)
    BY <1>1, MonthStarts, Zenon
  <2>2. m \in Int /\ n \in Int
    BY SMT
  <2>3. DaysFromCivil(y, m, c) = a + c - 1 /\ DaysFromCivil(y, n, d) = b + d - 1
    BY <2>1, <2>2, DayInMonth, SMT
  <2> QED BY <2>3, Zenon
<1>4. CASE m < n
  <2>1. a + k <= b
    <3>1. a + k + (IF n = m + 1 THEN 0 ELSE 28) <= b
      BY <1>1, <1>2, <1>4, MonthsGrow, SMT
    <3> QED BY <1>1, <1>2, <3>1, SMT
  <2> QED BY <1>2, <1>3, <2>1, SMT
<1>5. CASE n < m
  <2>1. b + l <= a
    <3>1. b + l + (IF m = n + 1 THEN 0 ELSE 28) <= a
      BY <1>1, <1>2, <1>5, MonthsGrow, SMT
    <3> QED BY <1>1, <1>2, <3>1, SMT
  <2> QED BY <1>2, <1>3, <2>1, SMT
<1>6. CASE m = n
  <2>1. a = b
    BY <1>1, <1>6
  <2> QED BY <1>3, <1>6, <2>1, SMT
<1> QED BY <1>4, <1>5, <1>6, SMT

\* What a valid transition is made of.
LEMMA TransitionFields ==
  ASSUME NEW t, ValidTransition(t)
  PROVE  t.month \in 1 .. 12 /\ t.week \in 1 .. 5 /\ t.weekday \in 1 .. 7
  BY SMT DEF ValidTransition
LEMMA TransitionMinute ==
  ASSUME NEW t, ValidTransition(t)
  PROVE  t.minute \in Int /\ 0 <= t.minute /\ t.minute <= 1439
  BY SMT DEF ValidTransition

\* The code and the wall clock agree on the lengths of months.
LEMMA DaysInMonthIs ==
  ASSUME NEW y \in Int, NEW m \in 1 .. 12
  PROVE  DaysInMonth(y, m) = Wall!Length(y, m)
<1>1. Wall!Leap(y) <=> LeapYear(y)
  BY Z3 DEF Wall!Leap, LeapYear
<1>2. CASE m = 2
  BY <1>1, <1>2, SMT DEF DaysInMonth, Wall!Length
<1>3. CASE m # 2
  BY <1>3, SMT DEF DaysInMonth, Wall!Length
<1> QED BY <1>2, <1>3

\* The week-th such weekday of a month, of which c days precede the first; and the last one.
LEMMA WeekOfMonth ==
  \A c, d, week, weekday \in Int :
    /\ 1 <= d /\ d <= 31 /\ 1 <= week /\ week <= 4 /\ 1 <= weekday /\ weekday <= 7
    => (d = 1 + ((7 + weekday - (((c + 3) % 7) + 1)) % 7) + (week - 1) * 7
        <=> ((c + d + 2) % 7) + 1 = weekday /\ (d - 1) \div 7 + 1 = week)
  BY Z3

\* The last of the seven days with a weekday is within seven days of the end.
LEMMA LastOfMonth ==
  \A c, d, len, weekday \in Int :
    /\ 1 <= d /\ d <= len /\ 28 <= len /\ len <= 31 /\ 1 <= weekday /\ weekday <= 7
    => (d = len - ((7 + (((c + len + 2) % 7) + 1) - weekday) % 7)
        <=> ((c + d + 2) % 7) + 1 = weekday /\ d + 7 > len)
  BY Z3

\* transitionDayOfMonth finds the day that the settings name.
LEMMA TransitionDayIs ==
  ASSUME NEW y \in Int, NEW t, ValidTransition(t)
  PROVE  /\ TransitionDayOfMonth(y, t) \in Int
         /\ 1 <= TransitionDayOfMonth(y, t)
         /\ TransitionDayOfMonth(y, t) <= Wall!Length(y, t.month)
         /\ \A d \in Int : 1 <= d /\ d <= Wall!Length(y, t.month) =>
              (d = TransitionDayOfMonth(y, t) <=>
                 /\ IsoWeekday(y, t.month, d) = t.weekday
                 /\ IF t.week < 5 THEN (d - 1) \div 7 + 1 = t.week
                    ELSE d + 7 > Wall!Length(y, t.month))
<1>1. PICK month \in 1 .. 12 : month = t.month
  BY TransitionFields, Zenon
<1>2. PICK week \in 1 .. 5 : week = t.week
  BY TransitionFields, Zenon
<1>3. PICK weekday \in 1 .. 7 : weekday = t.weekday
  BY TransitionFields, Zenon
<1>4. PICK len \in Int : len = Wall!Length(y, month) /\ 28 <= len /\ len <= 31
  BY LengthTypes
<1>5. PICK c \in Int : c = DaysFromCivil(y, month, 1)
  <2>1. DaysFromCivil(y, month, 1) \in Int
    BY CivilType, SMT
  <2> QED BY <2>1, Zenon
<1>6. \A d \in Int : IsoWeekday(y, month, d) = ((c + d + 2) % 7) + 1
  <2> SUFFICES ASSUME NEW d \in Int PROVE IsoWeekday(y, month, d) = ((c + d + 2) % 7) + 1
    OBVIOUS
  <2>1. DaysFromCivil(y, month, d) = c + d - 1
    BY <1>5, DayInMonth, SMT
  <2> QED BY <2>1, SMT DEF IsoWeekday
<1>7. IsoWeekday(y, month, 1) = ((c + 3) % 7) + 1
  BY <1>6, SMT
<1>8. TransitionDayOfMonth(y, t) =
        IF week < 5 THEN 1 + ((7 + weekday - (((c + 3) % 7) + 1)) % 7) + (week - 1) * 7
        ELSE len - ((7 + (((c + len + 2) % 7) + 1) - weekday) % 7)
  <2>1. DaysInMonth(y, month) = len
    BY <1>4, DaysInMonthIs
  <2>2. IsoWeekday(y, month, len) = ((c + len + 2) % 7) + 1
    BY <1>6
  <2> QED BY <1>1, <1>2, <1>3, <1>7, <2>1, <2>2, Zenon DEF TransitionDayOfMonth
<1>9. PICK day \in Int : day = TransitionDayOfMonth(y, t) /\ 1 <= day /\ day <= len
  <2>1. CASE week < 5
    <3>1. PICK day \in Int : day = 1 + ((7 + weekday - (((c + 3) % 7) + 1)) % 7) + (week - 1) * 7
      BY SMT
    <3>2. 1 <= day /\ day <= len
      BY <1>4, <2>1, <3>1, SMT
    <3> QED BY <1>8, <2>1, <3>1, <3>2, Zenon
  <2>2. CASE ~(week < 5)
    <3>1. PICK day \in Int : day = len - ((7 + (((c + len + 2) % 7) + 1) - weekday) % 7)
      BY SMT
    <3>2. 1 <= day /\ day <= len
      BY <1>4, <3>1, SMT
    <3> QED BY <1>8, <2>2, <3>1, <3>2, Zenon
  <2> QED BY <2>1, <2>2
<1>10. ASSUME NEW d \in Int, 1 <= d, d <= len
       PROVE  d = day <=> /\ ((c + d + 2) % 7) + 1 = weekday
                          /\ IF week < 5 THEN (d - 1) \div 7 + 1 = week ELSE d + 7 > len
  <2>1. CASE week < 5
    <3>1. day = 1 + ((7 + weekday - (((c + 3) % 7) + 1)) % 7) + (week - 1) * 7
      BY <1>8, <1>9, <2>1, Zenon
    <3>2. d <= 31 /\ week \in Int /\ 1 <= week /\ week <= 4 /\ weekday \in Int
          /\ 1 <= weekday /\ weekday <= 7
      BY <1>4, <1>10, <2>1, SMT
    <3>3. d = day <=> ((c + d + 2) % 7) + 1 = weekday /\ (d - 1) \div 7 + 1 = week
      BY <1>10, <3>1, <3>2, WeekOfMonth, SMT
    <3> QED BY <2>1, <3>3, Zenon
  <2>2. CASE ~(week < 5)
    <3>1. day = len - ((7 + (((c + len + 2) % 7) + 1) - weekday) % 7)
      BY <1>8, <1>9, <2>2, Zenon
    <3>2. weekday \in Int /\ 1 <= weekday /\ weekday <= 7
      BY SMT
    <3>3. d = day <=> ((c + d + 2) % 7) + 1 = weekday /\ d + 7 > len
      BY <1>4, <1>10, <3>1, <3>2, LastOfMonth, SMT
    <3> QED BY <2>2, <3>3, Zenon
  <2> QED BY <2>1, <2>2
<1>11. \A d \in Int : 1 <= d /\ d <= len =>
         (d = TransitionDayOfMonth(y, t) <=>
            /\ IsoWeekday(y, t.month, d) = t.weekday
            /\ IF t.week < 5 THEN (d - 1) \div 7 + 1 = t.week ELSE d + 7 > len)
  BY <1>1, <1>2, <1>3, <1>6, <1>9, <1>10, Zenon
<1> QED BY <1>1, <1>4, <1>9, <1>11, Zenon

\* A minute, and what the clock shows at it.
ShownAt(x, y, month, d, minute) ==
  /\ month \in 1 .. 12 /\ 1 <= d /\ d <= Wall!Length(y, month)
  /\ 0 <= minute /\ minute <= 1439
  /\ x = 1440 * DaysFromCivil(y, month, d) + minute

\* Every minute is shown so.
LEMMA WhatIsShown ==
  ASSUME NEW x \in Int
  PROVE  \E y, month, d, minute \in Int :
           /\ DateTimeFromEpoch(x) = DateRecord(y, month, d, IsoWeekday(y, month, d), minute)
           /\ ShownAt(x, y, month, d, minute)
           /\ y = DayYear(Days(x))
<1>1. PICK z \in Int : z = Days(x)
  BY ByDay, SMT DEF Days, Epoch
<1>2. PICK minute \in Int : minute = x % 1440 /\ 0 <= minute /\ minute <= 1439
  BY SMT
<1>3. PICK y, month, d \in Int : y = DayYear(z) /\ month = DayMonth(z) /\ d = DayOfMonth(z)
  <2>1. DayYear(z) \in Int /\ DayMonth(z) \in 1 .. 12 /\ DayOfMonth(z) \in Int
    BY NextDate, Zenon
  <2>2. DayMonth(z) \in Int
    BY <2>1, SMT
  <2> QED BY <2>1, <2>2, Zenon
<1>4. month \in 1 .. 12 /\ 1 <= d /\ d <= Wall!Length(y, month)
  BY <1>3, NextDate, Zenon
<1>5. PICK days \in Int : days = DaysFromCivil(y, month, d)
  BY CivilType
<1>6. days = z - Epoch
  BY <1>3, <1>5, DaysOfDate, Zenon
<1>7. x = 1440 * days + minute
  BY <1>1, <1>2, <1>6, SMT DEF Days, Whole, DayMinutes, Epoch
<1>8. IsoWeekday(y, month, d) = WeekdayOf(z)
  BY <1>5, <1>6, Zenon DEF IsoWeekday, WeekdayOf
<1>9. DateTimeFromEpoch(x) = DateRecord(y, month, d, IsoWeekday(y, month, d), minute)
  <2>1. DateTimeFromEpoch(x) = DateOfDay(z, minute)
    BY <1>1, <1>2, DateIs, SMT
  <2> QED BY <1>3, <1>8, <2>1, Zenon DEF DateOfDay
<1>10. ShownAt(x, y, month, d, minute)
  BY <1>2, <1>4, <1>5, <1>7, SMT DEF ShownAt
<1> QED BY <1>1, <1>3, <1>9, <1>10, Zenon

\* The clock shows a transition at the minute that LocalTransition gives.
LEMMA AtIs ==
  ASSUME NEW x \in Int, NEW t, ValidTransition(t), NEW y \in Int, y = DateTimeFromEpoch(x).year
  PROVE  Wall!At(DateTimeFromEpoch(x), t) <=> x = LocalTransition(y, t)
<1>1. PICK v, month, d, minute \in Int :
           /\ DateTimeFromEpoch(x) = DateRecord(v, month, d, IsoWeekday(v, month, d), minute)
           /\ ShownAt(x, v, month, d, minute)
  BY WhatIsShown, Zenon
<1>2. PICK r : r = DateTimeFromEpoch(x)
  OBVIOUS
<1>3. /\ r.year = v /\ r.month = month /\ r.day = d
      /\ r.weekday = IsoWeekday(v, month, d) /\ r.minute = minute
  BY <1>1, <1>2, FieldsOfRecord, SMT
<1>4. v = y
  BY <1>2, <1>3
<1>5. PICK tm \in 1 .. 12 : tm = t.month
  BY TransitionFields, Zenon
<1>6. PICK ti \in Int : ti = t.minute
  <2>1. t.minute \in Int
    BY TransitionMinute, SMT
  <2> QED BY <2>1
<1>6a. 0 <= ti /\ ti <= 1439
  BY <1>6, TransitionMinute, SMT
<1>7. PICK td \in Int : td = TransitionDayOfMonth(y, t) /\ 1 <= td /\ td <= Wall!Length(y, tm)
  BY <1>5, TransitionDayIs, Zenon
<1>8. PICK a, b \in Int : a = DaysFromCivil(y, month, d) /\ b = DaysFromCivil(y, tm, td)
  <2>1. tm \in Int
    BY SMT
  <2> QED BY <2>1, CivilType, Zenon
<1>9. x = 1440 * a + minute /\ 0 <= minute /\ minute <= 1439
  BY <1>1, <1>4, <1>8, SMT DEF ShownAt
<1>10. LocalTransition(y, t) = b * 1440 + ti
  BY <1>5, <1>6, <1>7, <1>8, SMT DEF LocalTransition
<1>11. month \in 1 .. 12 /\ 1 <= d /\ d <= Wall!Length(y, month)
  BY <1>1, <1>4, SMT DEF ShownAt
<1>12. Wall!At(r, t) <=>
        /\ month = tm /\ IsoWeekday(y, month, d) = t.weekday /\ minute = ti
        /\ IF t.week < 5 THEN (d - 1) \div 7 + 1 = t.week ELSE d + 7 > Wall!Length(y, month)
  BY <1>3, <1>4, <1>5, <1>6, Zenon DEF Wall!At
<1>13. month = tm => (d = td <=>
          /\ IsoWeekday(y, month, d) = t.weekday
          /\ IF t.week < 5 THEN (d - 1) \div 7 + 1 = t.week ELSE d + 7 > Wall!Length(y, month))
  <2> SUFFICES ASSUME month = tm
               PROVE  d = td <=>
                        /\ IsoWeekday(y, month, d) = t.weekday
                        /\ IF t.week < 5 THEN (d - 1) \div 7 + 1 = t.week
                           ELSE d + 7 > Wall!Length(y, month)
    OBVIOUS
  <2>1. month = t.month
    BY <1>5
  <2>2. 1 <= d /\ d <= Wall!Length(y, t.month)
    BY <1>11, <2>1, Zenon
  <2>3. d = TransitionDayOfMonth(y, t) <=>
          /\ IsoWeekday(y, t.month, d) = t.weekday
          /\ IF t.week < 5 THEN (d - 1) \div 7 + 1 = t.week
             ELSE d + 7 > Wall!Length(y, t.month)
    BY <2>2, TransitionDayIs, Zenon
  <2> QED BY <1>7, <2>1, <2>3, Zenon
<1>14. Wall!At(r, t) <=> month = tm /\ d = td /\ minute = ti
  BY <1>12, <1>13, Zenon
<1>15. a = b <=> month = tm /\ d = td
  <2>1. a = b => month = tm /\ d = td
    BY <1>7, <1>8, <1>11, OneDate, Zenon
  <2> QED BY <1>8, <2>1, Zenon
<1>16. x = b * 1440 + ti <=> a = b /\ minute = ti
  BY <1>6a, <1>9, SMT
<1>17. PICK lt : lt = LocalTransition(y, t)
  OBVIOUS
<1>18. x = lt <=> a = b /\ minute = ti
  BY <1>10, <1>16, <1>17, SMT
<1> QED BY <1>2, <1>14, <1>15, <1>17, <1>18, Zenon

\* A minute lies in its year, and a transition in its month.
LEMMA YearBounds ==
  ASSUME NEW x \in Int, NEW y \in Int, y = DateTimeFromEpoch(x).year
  PROVE  1440 * MonthStart(y, 1) <= x /\ x < 1440 * MonthStart(y, 13)
<1>1. PICK v, month, d, minute \in Int :
           /\ DateTimeFromEpoch(x) = DateRecord(v, month, d, IsoWeekday(v, month, d), minute)
           /\ ShownAt(x, v, month, d, minute)
  BY WhatIsShown, Zenon
<1>2. v = y
  BY <1>1, FieldsOfRecord, SMT
<1>3. PICK mo \in 1 .. 12 : mo = month
  BY <1>1, SMT DEF ShownAt
<1>4. PICK first, this, next \in Int :
        first = MonthStart(y, 1) /\ this = MonthStart(y, mo) /\ next = MonthStart(y, 13)
  <2>1. 1 \in 1 .. 13 /\ mo \in 1 .. 13 /\ 13 \in 1 .. 13
    BY SMT
  <2> QED BY <2>1, MonthTypes, Zenon
<1>5. PICK len \in Int : len = Wall!Length(y, mo)
  BY LengthTypes
<1>6. this + len <= next
  <2>1. this + len + (IF 13 = mo + 1 THEN 0 ELSE 28) <= next
    BY <1>4, <1>5, MonthsGrow, SMT
  <2> QED BY <1>4, <1>5, <2>1, SMT
<1>7. first <= this
  <2>1. CASE mo = 1
    BY <1>4, <2>1, SMT
  <2>2. CASE mo # 1
    <3>1. PICK k \in Int : k = Wall!Length(y, 1) /\ 28 <= k
      <4>1. 1 \in 1 .. 12
        BY SMT
      <4> QED BY <4>1, LengthTypes, Zenon
    <3>2. first + k + (IF mo = 1 + 1 THEN 0 ELSE 28) <= this
      BY <1>4, <2>2, <3>1, MonthsGrow, SMT
    <3> QED BY <1>4, <3>1, <3>2, SMT
  <2> QED BY <2>1, <2>2
<1>8. x = 1440 * (this + d - 1) + minute /\ 1 <= d /\ d <= len /\ 0 <= minute /\ minute <= 1439
  <2>1. DaysFromCivil(y, mo, 1) = this
    BY <1>4, MonthStarts, Zenon
  <2>2. DaysFromCivil(y, mo, d) = DaysFromCivil(y, mo, 1) + d - 1
    BY DayInMonth, SMT
  <2>3. DaysFromCivil(y, mo, d) = this + d - 1
    BY <2>1, <2>2, Zenon
  <2> QED BY <1>1, <1>2, <1>3, <1>5, <2>3, SMT DEF ShownAt
<1>9. 1440 * first <= x /\ x < 1440 * next
  BY <1>6, <1>7, <1>8, SMT
<1> QED BY <1>4, <1>9, SMT

\* A transition lies in its month.
LEMMA TransitionBounds ==
  ASSUME NEW y \in Int, NEW t, ValidTransition(t)
  PROVE  /\ LocalTransition(y, t) \in Int
         /\ 1440 * MonthStart(y, t.month) + t.minute <= LocalTransition(y, t)
         /\ LocalTransition(y, t) < 1440 * MonthStart(y, t.month + 1)
<1>1. PICK tm \in 1 .. 12 : tm = t.month
  BY TransitionFields, Zenon
<1>2. PICK ti \in Int : ti = t.minute /\ 0 <= ti /\ ti <= 1439
  BY TransitionMinute, SMT
<1>3. PICK len \in Int : len = Wall!Length(y, tm)
  BY LengthTypes
<1>4. PICK td \in Int : td = TransitionDayOfMonth(y, t) /\ 1 <= td /\ td <= len
  BY <1>1, <1>3, TransitionDayIs, Zenon
<1>5. PICK a \in Int : a = MonthStart(y, tm) /\ a = DaysFromCivil(y, tm, 1)
  BY MonthStarts
<1>6. MonthStart(y, tm + 1) = a + len
  BY <1>3, <1>5, MonthStarts, Zenon
<1>7. DaysFromCivil(y, tm, td) = a + td - 1
  BY <1>5, DayInMonth, SMT
<1>8. LocalTransition(y, t) = (a + td - 1) * 1440 + ti
  BY <1>1, <1>2, <1>4, <1>7, SMT DEF LocalTransition
<1> QED BY <1>1, <1>2, <1>4, <1>5, <1>6, <1>8, SMT

\* In less than a day there is at most one new year.
LEMMA NextYear ==
  ASSUME NEW x \in Int, NEW p \in Int, x <= p, p < x + 1440,
         NEW y \in Int, NEW v \in Int,
         y = DateTimeFromEpoch(x).year, v = DateTimeFromEpoch(p).year
  PROVE  v = y \/ v = y + 1
<1>1. PICK z, u \in Int : z = Days(x) /\ u = Days(p) /\ (u = z \/ u = z + 1)
  <2>1. PICK a, b \in Int : a = Whole(x, DayMinutes) /\ b = Whole(p, DayMinutes)
    BY ByDay, SMT
  <2>2. b = a \/ b = a + 1
    BY <2>1, SMT DEF Whole, DayMinutes
  <2>3. Days(x) = a + Epoch /\ Days(p) = b + Epoch
    BY <2>1, SMT DEF Days
  <2>4. Days(x) \in Int /\ Days(p) \in Int /\ (Days(p) = Days(x) \/ Days(p) = Days(x) + 1)
    BY <2>2, <2>3, SMT DEF Epoch
  <2> QED BY <2>4, SMT
<1>2. y = DayYear(z) /\ v = DayYear(u)
  BY <1>1, DateFieldsOf, SMT
<1>3. DayYear(z + 1) = DayYear(z) \/ DayYear(z + 1) = DayYear(z) + 1
  BY <1>1, NextDate, SMT
<1> QED BY <1>1, <1>2, <1>3, SMT

\* The minutes at which the clock of a behaviour stops.
OnGrid(x) == \E q \in Int : x = Step * q

\* The grid of the clock: steps divide the day, and sums stay on it.
LEMMA StepIs == Step \in Nat \ {0} /\ Step \in Int /\ 1 <= Step /\ Step <= 1439
  BY TimeAssumption, ZoneAssumption, SMT

LEMMA GridOf ==
  ASSUME NEW x \in Int, x % Step = 0
  PROVE  OnGrid(x)
<1>1. PICK n : n = Step
  OBVIOUS
<1>2. n \in Nat \ {0}
  BY <1>1, StepIs
<1>3. PICK q \in Int : x = (x % n) + n * q
  <2>1. /\ x = n * (x \div n) + (x % n)
        /\ (x \div n) \in Int /\ (x % n) \in 0 .. n - 1
    BY <1>2, Z3
  <2>2. PICK q \in Int : q = x \div n
    BY <2>1
  <2>3. PICK r \in Int : r = x % n
    BY <2>1, SMT
  <2>4. x = r + n * q
    BY <1>2, <2>1, <2>2, <2>3, SMT
  <2> QED BY <2>2, <2>3, <2>4
<1>4. x % n = 0
  BY <1>1
<1>5. x = n * q
  BY <1>2, <1>3, <1>4, SMT
<1> QED BY <1>1, <1>5 DEF OnGrid

LEMMA GridSum ==
  ASSUME NEW x \in Int, NEW y \in Int, OnGrid(x), OnGrid(y)
  PROVE  OnGrid(x + y) /\ OnGrid(x - y)
<1>1. PICK n \in Int : n = Step
  BY StepIs
<1>2. PICK q \in Int : x = n * q
  BY <1>1 DEF OnGrid
<1>3. PICK r \in Int : y = n * r
  BY <1>1 DEF OnGrid
<1>4. PICK s, d \in Int : s = q + r /\ d = q - r
  BY SMT
<1>5. x + y = n * s /\ x - y = n * d
  BY <1>2, <1>3, <1>4, Z3
<1> QED BY <1>1, <1>4, <1>5 DEF OnGrid

LEMMA GridDays ==
  ASSUME NEW a \in Int
  PROVE  OnGrid(1440 * a)
<1>1. PICK n \in Int : n = Step
  BY StepIs
<1>2. OnGrid(1440)
  BY GridOf, ZoneAssumption, SMT
<1>3. PICK q \in Int : 1440 = n * q
  BY <1>1, <1>2, SMT DEF OnGrid
<1>4. PICK s \in Int : s = q * a
  BY SMT
<1>5. 1440 * a = n * s
  BY <1>3, <1>4, Z3
<1> QED BY <1>1, <1>5, SMT DEF OnGrid

LEMMA GridGap ==
  ASSUME NEW x \in Int, NEW y \in Int, OnGrid(x), OnGrid(y), x < y
  PROVE  x + Step <= y
<1>1. PICK n \in Int : n = Step /\ 1 <= n
  BY StepIs
<1>2. PICK q \in Int : x = n * q
  BY <1>1 DEF OnGrid
<1>3. PICK r \in Int : y = n * r
  BY <1>1 DEF OnGrid
<1>4. q < r
  BY <1>1, <1>2, <1>3, Z3
<1>5. PICK k \in Int : k = r - q /\ 1 <= k
  BY <1>4, SMT
<1>6. y = x + n * k
  BY <1>2, <1>3, <1>5, Z3
<1>7. n <= n * k
  BY <1>1, <1>5, Z3
<1> QED BY <1>1, <1>6, <1>7, SMT

\* Daylight time, from its two transitions in the year, in standard time.
ActiveAt(x, S, E) == IF S < E THEN x >= S /\ x < E ELSE x >= S \/ x < E

\* The two transitions of a zone with daylight time.
LEMMA ZoneFacts ==
  ASSUME NEW z \in Zones, z.enabled
  PROVE  /\ ValidTransition(z.start) /\ ValidTransition(z.end)
         /\ z.bias \in Int /\ 0 <= z.bias /\ z.bias <= 120
         /\ z.bias % Step = 0 /\ z.start.minute % Step = 0 /\ z.end.minute % Step = 0
<1>1. z.bias \in 0 .. 120
  BY TimeAssumption, Zenon
<1>2. /\ ValidTransition(z.start) /\ ValidTransition(z.end)
      /\ z.bias % Step = 0 /\ z.start.minute % Step = 0 /\ z.end.minute % Step = 0
  BY ZoneAssumption, SMT
<1> QED BY <1>1, <1>2, SMT

\* A transition lies on the grid.
LEMMA TransitionOnGrid ==
  ASSUME NEW y \in Int, NEW t, ValidTransition(t), t.minute % Step = 0
  PROVE  OnGrid(LocalTransition(y, t))
<1>1. PICK tm \in Int : tm = t.month
  <2>1. t.month \in Int
    BY TransitionFields, SMT
  <2> QED BY <2>1
<1>2. PICK ti \in Int : ti = t.minute
  <2>1. t.minute \in Int
    BY TransitionMinute, SMT
  <2> QED BY <2>1
<1>3. PICK td \in Int : td = TransitionDayOfMonth(y, t)
  BY TransitionDayIs
<1>4. PICK a \in Int : a = DaysFromCivil(y, tm, td)
  BY CivilType
<1>5. LocalTransition(y, t) = 1440 * a + ti
  BY <1>1, <1>2, <1>3, <1>4, SMT DEF LocalTransition
<1>6. OnGrid(1440 * a) /\ OnGrid(ti)
  BY <1>2, GridDays, GridOf
<1>7. PICK b \in Int : b = 1440 * a
  BY SMT
<1>8. OnGrid(b + ti)
  BY <1>6, <1>7, GridSum
<1> QED BY <1>5, <1>7, <1>8, SMT

YearStart(y) == 1440 * MonthStart(y, 1)

\* The two transitions of a year, both in standard time: the end of daylight time
\* is not before the new year, and one is before the other.
EndsInYear(z, y)  == YearStart(y) <= LocalTransition(y, z.end) - z.bias
StartsFirst(z, y) == LocalTransition(y, z.start) < LocalTransition(y, z.end) - z.bias
EndsFirst(z, y)   == LocalTransition(y, z.end) - z.bias < LocalTransition(y, z.start)

\* dstActiveForStandardLocalSeconds looks up the transitions of the year in standard
\* time and tells the hemispheres apart by their order: the settings are regular if
\* both are the same in every year.
North(z) == \A y \in Int : StartsFirst(z, y)
Regular(z) ==
  z.enabled => /\ \A y \in Int : EndsInYear(z, y)
               /\ North(z) \/ \A y \in Int : EndsFirst(z, y)

\* Settings that are regular whatever the calendar does: standard and daylight time
\* begin in different months, and daylight time does not end so early on the first of
\* a month that by standard time it is still the month of its start or last year.
InDifferentMonths(z) ==
  /\ z.start.month # z.end.month
  /\ z.end.minute >= z.bias \/ z.end.month \notin {1, z.start.month + 1}

\* The transitions in a year.
LEMMA YearFacts ==
  ASSUME NEW z \in Zones, z.enabled, NEW y \in Int
  PROVE  \E S, L, A, B \in Int :
           /\ S = LocalTransition(y, z.start) /\ L = LocalTransition(y, z.end)
           /\ A = YearStart(y) /\ B = YearStart(y + 1)
           /\ OnGrid(S) /\ OnGrid(L - z.bias) /\ OnGrid(A) /\ OnGrid(B)
           /\ A <= S /\ S < B /\ L < B /\ A + DayMinutes <= B
           /\ InDifferentMonths(z) =>
                /\ A <= L - z.bias
                /\ IF z.start.month < z.end.month THEN S < L - z.bias ELSE L - z.bias < S
<1>1. PICK k \in Int : k = z.bias /\ 0 <= k /\ k <= 120
  BY ZoneFacts, SMT
<1>0. ValidTransition(z.start) /\ ValidTransition(z.end)
  BY ZoneFacts, SMT
<1>2. PICK m \in 1 .. 12 : m = z.start.month
  BY <1>0, TransitionFields
<1>3. PICK n \in 1 .. 12 : n = z.end.month
  BY <1>0, TransitionFields
<1>4. PICK i \in Int : i = z.end.minute /\ 0 <= i
  BY <1>0, TransitionMinute, SMT
<1>5. PICK j \in Int : j = z.start.minute /\ 0 <= j
  BY <1>0, TransitionMinute, SMT
<1>6. InDifferentMonths(z) => m # n /\ (i >= k \/ n \notin {1, m + 1})
  BY <1>1, <1>2, <1>3, <1>4, SMT DEF InDifferentMonths
<1>7. PICK S \in Int : S = LocalTransition(y, z.start)
  BY <1>0, TransitionBounds
<1>8. PICK L \in Int : L = LocalTransition(y, z.end)
  BY <1>0, TransitionBounds
<1>9. PICK mm, nn \in 2 .. 13 : mm = m + 1 /\ nn = n + 1
  BY SMT
<1>10. PICK sm, sn, smm, snn, first, last \in Int :
         /\ sm = MonthStart(y, m) /\ sn = MonthStart(y, n)
         /\ smm = MonthStart(y, mm) /\ snn = MonthStart(y, nn)
         /\ first = MonthStart(y, 1) /\ last = MonthStart(y, 13)
  <2>1. m \in 1 .. 13 /\ n \in 1 .. 13 /\ mm \in 1 .. 13 /\ nn \in 1 .. 13 /\ 1 \in 1 .. 13
        /\ 13 \in 1 .. 13
    BY SMT
  <2> QED BY <2>1, MonthTypes, Zenon
<1>11. 1440 * sm <= S /\ S < 1440 * smm
  <2>1. /\ 1440 * MonthStart(y, m) + j <= S /\ S < 1440 * MonthStart(y, m + 1)
    BY <1>2, <1>5, <1>7, <1>0, TransitionBounds, SMT
  <2> QED BY <1>5, <1>9, <1>10, <2>1, SMT
<1>12. 1440 * sn + i <= L /\ L < 1440 * snn
  <2>1. /\ 1440 * MonthStart(y, n) + i <= L /\ L < 1440 * MonthStart(y, n + 1)
    BY <1>3, <1>4, <1>8, <1>0, TransitionBounds, SMT
  <2> QED BY <1>9, <1>10, <2>1, SMT
<1>13. ASSUME NEW a \in 1 .. 12, NEW b \in 2 .. 13, a < b
       PROVE  /\ MonthStart(y, a) + 28 <= MonthStart(y, b)
              /\ ~(b = a + 1) => MonthStart(y, a + 1) + 28 <= MonthStart(y, b)
  <2>1. PICK c \in 2 .. 13 : c = a + 1
    BY SMT
  <2>2. PICK sa, sb, sc \in Int :
          sa = MonthStart(y, a) /\ sb = MonthStart(y, b) /\ sc = MonthStart(y, c)
    <3>1. a \in 1 .. 13 /\ b \in 1 .. 13 /\ c \in 1 .. 13
      BY SMT
    <3> QED BY <3>1, MonthTypes, Zenon
  <2>3. PICK len \in Int : len = Wall!Length(y, a) /\ 28 <= len
    BY LengthTypes
  <2>4. sc = sa + len
    BY <2>1, <2>2, <2>3, MonthStarts, Zenon
  <2>5. sa + len + (IF b = a + 1 THEN 0 ELSE 28) <= sb
    BY <1>13, <2>2, <2>3, MonthsGrow, SMT
  <2>6. sa + 28 <= sb /\ (~(b = c) => sc + 28 <= sb)
    BY <2>1, <2>3, <2>4, <2>5, SMT
  <2> QED BY <2>1, <2>2, <2>6, Zenon
<1>14. /\ first + 28 <= last
       /\ m = 1 => first = sm
       /\ ~(m = 1) => first + 28 <= sm
       /\ n = 1 => first = sn
       /\ ~(n = 1) => first + 28 <= sn
       /\ mm = 13 => smm = last
       /\ ~(mm = 13) => smm + 28 <= last
       /\ nn = 13 => snn = last
       /\ ~(nn = 13) => snn + 28 <= last
  <2>1. first + 28 <= last
    BY <1>10, <1>13, SMT
  <2>2. (m = 1 => first = sm) /\ (n = 1 => first = sn)
    BY <1>10, Zenon
  <2>3. ~(m = 1) => first + 28 <= sm
    BY <1>10, <1>13, SMT
  <2>4. ~(n = 1) => first + 28 <= sn
    BY <1>10, <1>13, SMT
  <2>5. (mm = 13 => smm = last) /\ (nn = 13 => snn = last)
    BY <1>10, Zenon
  <2>6. ~(mm = 13) => smm + 28 <= last
    BY <1>9, <1>10, <1>13, SMT
  <2>7. ~(nn = 13) => snn + 28 <= last
    BY <1>9, <1>10, <1>13, SMT
  <2> QED BY <2>1, <2>2, <2>3, <2>4, <2>5, <2>6, <2>7, Zenon
<1>15. /\ m < n /\ ~(n = mm) => smm + 28 <= sn
       /\ m < n /\ n = mm => smm = sn
  BY <1>9, <1>10, <1>13, SMT
<1>16. n < m => snn <= sm
  <2>1. CASE m = nn
    BY <1>10, <2>1, SMT
  <2>2. CASE n < m /\ ~(m = nn)
    BY <1>9, <1>10, <1>13, <2>2, SMT
  <2> QED BY <2>1, <2>2, SMT
<1>17. PICK A, B \in Int : A = 1440 * first /\ B = 1440 * last
  BY SMT
<1>18. A = YearStart(y) /\ B = YearStart(y + 1)
  <2>1. MonthStart(y, 13) = MonthStart(y + 1, 1)
    BY SMT DEF MonthStart
  <2>2. YearStart(y) = 1440 * first /\ YearStart(y + 1) = 1440 * last
    BY <1>10, <2>1, SMT DEF YearStart
  <2> QED BY <1>17, <2>2, SMT
<1>19. A <= S /\ S < B /\ L < B /\ A + DayMinutes <= B
  BY <1>11, <1>12, <1>14, <1>17, SMT DEF DayMinutes
<1>20. InDifferentMonths(z) => A <= L - k
  BY <1>1, <1>4, <1>6, <1>12, <1>14, <1>17, SMT
<1>23. OnGrid(S) /\ OnGrid(L - z.bias) /\ OnGrid(A) /\ OnGrid(B)
  <2>1. z.bias % Step = 0 /\ z.start.minute % Step = 0 /\ z.end.minute % Step = 0
    BY ZoneFacts, SMT
  <2>2. OnGrid(S) /\ OnGrid(L)
    BY <1>0, <1>7, <1>8, <2>1, TransitionOnGrid, Zenon
  <2>3. OnGrid(z.bias)
    BY <1>1, <2>1, GridOf, Zenon
  <2>4. OnGrid(L - z.bias)
    BY <1>1, <2>2, <2>3, GridSum, Zenon
  <2>5. OnGrid(A) /\ OnGrid(B)
    BY <1>17, GridDays, SMT
  <2> QED BY <2>2, <2>4, <2>5
<1>24. z.bias = k
  BY <1>1
<1>25. CASE ~InDifferentMonths(z)
  BY <1>7, <1>8, <1>18, <1>19, <1>23, <1>25, Zenon
<1>21. CASE InDifferentMonths(z) /\ m < n
  <2>1. S < L - k
    BY <1>1, <1>4, <1>6, <1>9, <1>11, <1>12, <1>15, <1>21, SMT
  <2> QED BY <1>24, <1>2, <1>3, <1>7, <1>8, <1>18, <1>19, <1>20, <1>21, <1>23, <2>1,
       Zenon
<1>22. CASE InDifferentMonths(z) /\ ~(m < n)
  <2>1. L - k < S
    BY <1>1, <1>6, <1>11, <1>12, <1>16, <1>22, SMT
  <2> QED BY <1>24, <1>2, <1>3, <1>7, <1>8, <1>18, <1>19, <1>20, <1>22, <1>23, <2>1,
       Zenon
<1> QED BY <1>21, <1>22, <1>25, Zenon

\* Of settings that are regular.
LEMMA RegularYear ==
  ASSUME NEW z \in Zones, z.enabled, Regular(z), NEW y \in Int
  PROVE  \E S, L, A, B \in Int :
           /\ S = LocalTransition(y, z.start) /\ L = LocalTransition(y, z.end)
           /\ A = YearStart(y) /\ B = YearStart(y + 1)
           /\ OnGrid(S) /\ OnGrid(L - z.bias) /\ OnGrid(A) /\ OnGrid(B)
           /\ A <= S /\ S < B /\ A <= L - z.bias /\ L < B /\ A + DayMinutes <= B
           /\ IF North(z) THEN S < L - z.bias ELSE L - z.bias < S
<1>1. PICK S, L, A, B \in Int :
           /\ S = LocalTransition(y, z.start) /\ L = LocalTransition(y, z.end)
           /\ A = YearStart(y) /\ B = YearStart(y + 1)
           /\ OnGrid(S) /\ OnGrid(L - z.bias) /\ OnGrid(A) /\ OnGrid(B)
           /\ A <= S /\ S < B /\ L < B /\ A + DayMinutes <= B
  BY YearFacts, Zenon
<1>2. A <= L - z.bias
  BY <1>1, Zenon DEF Regular, EndsInYear
<1>3. IF North(z) THEN S < L - z.bias ELSE L - z.bias < S
  BY <1>1, Zenon DEF Regular, North, StartsFirst, EndsFirst
<1> QED BY <1>1, <1>2, <1>3, Zenon

\* dstActiveForStandardLocalSeconds, of a given zone.
Active(z, x) ==
  LET year == DateTimeFromEpoch(x).year
  IN  z.enabled /\ ActiveAt(x, LocalTransition(year, z.start), LocalTransition(year, z.end) - z.bias)

\* The year of a minute is a number.
LEMMA YearType ==
  ASSUME NEW x \in Int
  PROVE  DateTimeFromEpoch(x).year \in Int
<1>1. PICK y, month, d, minute \in Int :
           /\ DateTimeFromEpoch(x) = DateRecord(y, month, d, IsoWeekday(y, month, d), minute)
           /\ ShownAt(x, y, month, d, minute)
  BY WhatIsShown, Zenon
<1> QED BY <1>1, FieldsOfRecord, SMT

\* Years that follow each other on one day share their new year.
LEMMA YearsOf ==
  ASSUME NEW z \in Zones, z.enabled, Regular(z), NEW x \in Int
  PROVE  \E y, S, L, A, B \in Int :
           /\ y = DateTimeFromEpoch(x).year
           /\ S = LocalTransition(y, z.start) /\ L = LocalTransition(y, z.end)
           /\ A = YearStart(y) /\ B = YearStart(y + 1) /\ A <= x /\ x < B
           /\ OnGrid(S) /\ OnGrid(L - z.bias) /\ OnGrid(A) /\ OnGrid(B)
           /\ A <= S /\ S < B /\ A <= L - z.bias /\ L < B /\ A + DayMinutes <= B
           /\ IF North(z) THEN S < L - z.bias ELSE L - z.bias < S
<1>1. PICK y \in Int : y = DateTimeFromEpoch(x).year
  BY YearType
<1>2. PICK S, L, A, B \in Int :
           /\ S = LocalTransition(y, z.start) /\ L = LocalTransition(y, z.end)
           /\ A = YearStart(y) /\ B = YearStart(y + 1)
           /\ OnGrid(S) /\ OnGrid(L - z.bias) /\ OnGrid(A) /\ OnGrid(B)
           /\ A <= S /\ S < B /\ A <= L - z.bias /\ L < B /\ A + DayMinutes <= B
           /\ IF North(z) THEN S < L - z.bias ELSE L - z.bias < S
  BY RegularYear, Zenon
<1>3. A <= x /\ x < B
  <2>1. 1440 * MonthStart(y, 1) <= x /\ x < 1440 * MonthStart(y, 13)
    BY <1>1, YearBounds
  <2>2. MonthStart(y, 13) = MonthStart(y + 1, 1)
    BY SMT DEF MonthStart
  <2> QED BY <1>2, <2>1, <2>2, SMT DEF YearStart
<1> QED BY <1>1, <1>2, <1>3, Zenon

\* Daylight time begins and ends at the minute at which the clock shows a transition.
LEMMA Turn ==
  ASSUME NEW z \in Zones, z.enabled, Regular(z), NEW x \in Int, OnGrid(x)
  PROVE  /\ ~Active(z, x) => (Active(z, x + Step) <=> Wall!At(DateTimeFromEpoch(x + Step), z.start))
         /\ Active(z, x) =>
              (~Active(z, x + Step) <=> Wall!At(DateTimeFromEpoch(x + Step + z.bias), z.end))
<1>1. PICK k \in Int : k = z.bias /\ 0 <= k /\ k <= 120
  BY ZoneFacts, SMT
<1>2. PICK n \in Int : n = Step /\ 1 <= n /\ n < 1440
  BY StepIs, SMT
<1>0. PICK p \in Int : p = x + Step
  BY StepIs, SMT
<1>3. PICK q \in Int : q = p + k
  BY SMT
<1>4. PICK y, Sy, Ly, Ay, By \in Int :
           /\ y = DateTimeFromEpoch(x).year
           /\ Sy = LocalTransition(y, z.start) /\ Ly = LocalTransition(y, z.end)
           /\ Ay = YearStart(y) /\ By = YearStart(y + 1) /\ Ay <= x /\ x < By
           /\ OnGrid(Sy) /\ OnGrid(Ly - z.bias) /\ OnGrid(Ay) /\ OnGrid(By)
           /\ Ay <= Sy /\ Sy < By /\ Ay <= Ly - z.bias /\ Ly < By /\ Ay + DayMinutes <= By
           /\ IF North(z) THEN Sy < Ly - z.bias ELSE Ly - z.bias < Sy
  BY YearsOf, Zenon
<1>5. PICK v, Sv, Lv, Av, Bv \in Int :
           /\ v = DateTimeFromEpoch(p).year
           /\ Sv = LocalTransition(v, z.start) /\ Lv = LocalTransition(v, z.end)
           /\ Av = YearStart(v) /\ Bv = YearStart(v + 1) /\ Av <= p /\ p < Bv
           /\ OnGrid(Sv) /\ OnGrid(Lv - z.bias) /\ OnGrid(Av) /\ OnGrid(Bv)
           /\ Av <= Sv /\ Sv < Bv /\ Av <= Lv - z.bias /\ Lv < Bv /\ Av + DayMinutes <= Bv
           /\ IF North(z) THEN Sv < Lv - z.bias ELSE Lv - z.bias < Sv
  BY YearsOf, Zenon
<1>6. PICK u, Su, Lu, Au, Bu \in Int :
           /\ u = DateTimeFromEpoch(q).year
           /\ Su = LocalTransition(u, z.start) /\ Lu = LocalTransition(u, z.end)
           /\ Au = YearStart(u) /\ Bu = YearStart(u + 1) /\ Au <= q /\ q < Bu
           /\ OnGrid(Su) /\ OnGrid(Lu - z.bias) /\ OnGrid(Au) /\ OnGrid(Bu)
           /\ Au <= Su /\ Su < Bu /\ Au <= Lu - z.bias /\ Lu < Bu /\ Au + DayMinutes <= Bu
           /\ IF North(z) THEN Su < Lu - z.bias ELSE Lu - z.bias < Su
  BY YearsOf, Zenon
<1>7. v = y \/ v = y + 1
  <2>1. x <= p /\ p < x + 1440
    BY <1>0, <1>2, SMT
  <2> QED BY <1>4, <1>5, <2>1, NextYear, SMT
<1>8. u = v \/ u = v + 1
  <2>1. p <= q /\ q < p + 1440
    BY <1>1, <1>3, SMT
  <2> QED BY <1>5, <1>6, <2>1, NextYear, SMT
<1>9. \/ Av = Ay /\ Bv = By /\ Sv = Sy /\ Lv = Ly
      \/ Av = By
  BY <1>4, <1>5, <1>7, Zenon
<1>10. \/ Au = Av /\ Lu = Lv
       \/ Au = Bv
  BY <1>5, <1>6, <1>8, Zenon
<1>11. PICK Ey, Ev, Eu \in Int : Ey = Ly - k /\ Ev = Lv - k /\ Eu = Lu - k
  BY SMT
<1>12. OnGrid(Sy) /\ OnGrid(Ey) /\ OnGrid(By)
  BY <1>1, <1>4, <1>11, SMT
<1>13. x < Sy => p <= Sy
  BY <1>0, <1>12, GridGap, Zenon
<1>14. x < Ey => p <= Ey
  BY <1>0, <1>12, GridGap, Zenon
<1>15. x < By => p <= By
  BY <1>0, <1>12, GridGap, Zenon
<1>16. Sy < By => Sy + n <= By
  BY <1>2, <1>12, GridGap, SMT
<1>17. Ey < By => Ey + n <= By
  BY <1>2, <1>12, GridGap, SMT
<1>18. PICK north \in BOOLEAN : north <=> North(z)
  BY Zenon
<1>19. IF north THEN Sy < Ly - k /\ Sv < Lv - k ELSE Ly - k < Sy /\ Lv - k < Sv
  BY <1>1, <1>4, <1>5, <1>18, Zenon
<1>20. /\ Ay <= Sy /\ Sy < By /\ Ay <= Ly - k /\ Ly < By
       /\ Av <= Sv /\ Sv < Bv /\ Av <= Lv - k /\ Lv < Bv /\ Av + 1440 <= Bv /\ Au <= Lu - k
  BY <1>1, <1>4, <1>5, <1>6, SMT DEF DayMinutes
<1>21. /\ ~ActiveAt(x, Sy, Ly - k) => (ActiveAt(p, Sv, Lv - k) <=> p = Sv)
       /\ ActiveAt(x, Sy, Ly - k) => (~ActiveAt(p, Sv, Lv - k) <=> p + k = Lu)
  <2>1. p = x + n /\ Ay <= x /\ x < By /\ Av <= p /\ p < Bv /\ Au <= p + k
    BY <1>0, <1>2, <1>3, <1>4, <1>5, <1>6, SMT
  <2>2. x < Ly - k => p <= Ly - k
    BY <1>11, <1>14, Zenon
  <2>3. Ly - k < By => Ly - k + n <= By
    BY <1>11, <1>17, SMT
  <2>4. 0 <= k /\ k <= 120 /\ 1 <= n
    BY <1>1, <1>2, SMT
  <2>5. CASE north
    <3>1. Sy < Ly - k /\ Sv < Lv - k
      BY <1>19, <2>5, Zenon
    <3> QED
      BY <1>9, <1>10, <1>13, <1>15, <1>16, <1>20, <2>1, <2>2, <2>3, <2>4, <3>1,
         SMTT(60)
      DEF ActiveAt
  <2>6. CASE ~north
    <3>1. Ly - k < Sy /\ Lv - k < Sv
      BY <1>19, <2>6, Zenon
    <3> QED
      BY <1>9, <1>10, <1>13, <1>15, <1>16, <1>20, <2>1, <2>2, <2>3, <2>4, <3>1,
         SMTT(60)
      DEF ActiveAt
  <2> QED BY <2>5, <2>6, Zenon
<1>22. Active(z, x) <=> ActiveAt(x, Sy, Ly - k)
  <2>1. k = z.bias
    BY <1>1
  <2> QED BY <1>4, <2>1, Zenon DEF Active
<1>23. Active(z, p) <=> ActiveAt(p, Sv, Lv - k)
  <2>1. k = z.bias
    BY <1>1
  <2> QED BY <1>5, <2>1, Zenon DEF Active
<1>24. ValidTransition(z.start) /\ ValidTransition(z.end)
  BY ZoneFacts, SMT
<1>25. Wall!At(DateTimeFromEpoch(p), z.start) <=> p = Sv
  BY <1>5, <1>24, AtIs, Zenon
<1>26. Wall!At(DateTimeFromEpoch(q), z.end) <=> q = Lu
  BY <1>6, <1>24, AtIs, Zenon
<1>27. q = p + z.bias /\ q = p + k
  BY <1>1, <1>3, SMT
<1> QED BY <1>0, <1>21, <1>22, <1>23, <1>25, <1>26, <1>27, Zenon

\* What local time shows is that of the minute, which lies on the grid.
RegularZones == {z \in Zones : Regular(z)}

LocalTime ==
  /\ unix \in Int /\ OnGrid(unix) /\ zone \in RegularZones
  /\ daylight = DstActive(Standard(unix))
  /\ date = DateTimeFromEpoch(Standard(unix) + (IF daylight THEN zone.bias ELSE 0))

\* Types of a zone, and that it lies on the grid.
LEMMA ZoneNumbers ==
  ASSUME NEW z \in Zones
  PROVE  /\ z.offset \in Int /\ -720 <= z.offset /\ z.offset <= 840
         /\ z.bias \in Int /\ 0 <= z.bias /\ z.bias <= 120
<1>1. PICK k : k = z.bias
  OBVIOUS
<1>2. k \in 0 .. 120
  BY <1>1, TimeAssumption, Zenon
<1>3. k \in Int /\ 0 <= k /\ k <= 120
  BY <1>2, SMT
<1>4. PICK o : o = z.offset
  OBVIOUS
<1>6. o \in Int /\ -720 <= o /\ o <= 840
  BY <1>4, TimeAssumption, ZoneAssumption, SMT
<1> QED BY <1>1, <1>3, <1>4, <1>6, SMT

LEMMA ZoneGrid ==
  ASSUME NEW z \in Zones
  PROVE  z.offset \in Int /\ OnGrid(z.offset) /\ z.enabled \in BOOLEAN
<1>1. z.offset % Step = 0 /\ z.offset \in Int
  BY ZoneNumbers, ZoneAssumption, SMT
<1>2. z.enabled \in BOOLEAN
  BY ZoneAssumption, SMT
<1> QED BY <1>1, <1>2, GridOf

\* DstActive says of the current settings what Active does.
LEMMA ActiveIs ==
  \A x : DstActive(x) \in BOOLEAN /\ (DstActive(x) <=> Active(zone, x))
  BY Zenon DEF DstActive, Active, ActiveAt

\* The first date is that of the wall clock.
LEMMA InitLocal == TimedInit /\ Regular(zone) => LocalTime /\ Wall!Init
<1> SUFFICES ASSUME TimedInit, Regular(zone) PROVE LocalTime /\ Wall!Init
  OBVIOUS
<1>1. PICK start \in Starts : unix = start.unix
  BY Zenon DEF TimedInit
<1>2. PICK u \in Int : u = start.unix /\ u = unix
  BY <1>1, TimeAssumption, Zenon
<1>3. OnGrid(u) /\ start.date = DateTimeFromEpoch(u)
  <2>1. u % Step = 0 /\ start.date = DateTimeFromEpoch(u)
    <3>1. start.unix % Step = 0 /\ start.date = DateTimeFromEpoch(start.unix)
      BY ZoneAssumption, SMT
    <3> QED BY <1>2, <3>1
  <2> QED BY <2>1, GridOf, Zenon
<1>4. PICK z \in Zones : z = zone
  BY Zenon DEF TimedInit
<1>5. /\ daylight = DstActive(Standard(unix))
      /\ date = DateTimeFromEpoch(Standard(unix) + (IF daylight THEN zone.bias ELSE 0))
  BY Zenon DEF TimedInit
<1>6. daylight \in BOOLEAN
  BY <1>5, ActiveIs, Zenon
<1>7. PICK m \in Int : m = z.offset + (IF daylight THEN z.bias ELSE 0) /\ -1440 < m /\ m < 1440
  <2>1. CASE daylight
    <3>1. z.offset + z.bias \in Int /\ -1440 < z.offset + z.bias /\ z.offset + z.bias < 1440
      BY ZoneNumbers, SMT
    <3> QED BY <2>1, <3>1, SMT
  <2>2. CASE ~daylight
    <3>1. z.offset + 0 \in Int /\ -1440 < z.offset + 0 /\ z.offset + 0 < 1440
      BY ZoneNumbers, SMT
    <3> QED BY <2>2, <3>1, SMT
  <2> QED BY <2>1, <2>2
<1>8. Standard(unix) + (IF daylight THEN z.bias ELSE 0) = u + m
  <2>1. Standard(unix) = u + z.offset
    BY <1>2, <1>4, Zenon DEF Standard
  <2>2. CASE daylight
    BY <1>7, <2>1, <2>2, ZoneNumbers, SMT
  <2>3. CASE ~daylight
    BY <1>7, <2>1, <2>3, ZoneNumbers, SMT
  <2> QED BY <2>2, <2>3
<1>9. date = DateTimeFromEpoch(u + m)
  BY <1>4, <1>5, <1>8, Zenon
<1>10. Wall!Moved(DateTimeFromEpoch(u), m) = DateTimeFromEpoch(u + m)
  BY <1>7, MovedIs
<1>11. date = Wall!Moved(start.date, zone.offset + (IF daylight THEN zone.bias ELSE 0))
  <2>1. m = zone.offset + (IF daylight THEN zone.bias ELSE 0)
    BY <1>4, <1>7, SMT
  <2> QED BY <1>3, <1>9, <1>10, <2>1, Zenon
<1>12. Wall!Init
  BY <1>4, <1>6, <1>11, Zenon DEF Wall!Init
<1>13. LocalTime
  BY <1>2, <1>3, <1>4, <1>5, Zenon DEF LocalTime, RegularZones
<1> QED BY <1>12, <1>13

\* Any other iteration in a minute shows the same.
LEMMA SameMinute == LocalTime /\ Pass(0) => LocalTime' /\ UNCHANGED <<zone, date, daylight>>
<1> SUFFICES ASSUME LocalTime, Pass(0) PROVE LocalTime' /\ UNCHANGED <<zone, date, daylight>>
  OBVIOUS
<1>1. PICK u \in Int : u = unix /\ OnGrid(u)
  BY Zenon DEF LocalTime
<1>2. unix' = u
  BY <1>1, SMT DEF Pass
<1>3. zone' = zone /\ zone \in RegularZones
  BY Zenon DEF Pass, LocalTime
<1>4. /\ daylight' = DstActive(Standard(u))
      /\ date' = DateTimeFromEpoch(Standard(u) + (IF daylight' THEN zone.bias ELSE 0))
  BY <1>2, Zenon DEF Pass, Localized
<1>5. daylight' = daylight /\ date' = date
  BY <1>1, <1>4, Zenon DEF LocalTime
<1>6. /\ daylight' = DstActive(Standard(unix))'
      /\ date' = DateTimeFromEpoch(Standard(unix) + (IF daylight THEN zone.bias ELSE 0))'
  <2>1. Standard(unix)' = Standard(u)
    BY <1>2, <1>3, Zenon DEF Standard
  <2>2. DstActive(Standard(unix))' = DstActive(Standard(u))
    BY <1>3, <2>1, Zenon DEF DstActive
  <2> QED BY <1>3, <1>4, <2>1, <2>2, Zenon
<1>7. LocalTime'
  BY <1>1, <1>2, <1>3, <1>6, Zenon DEF LocalTime
<1> QED BY <1>3, <1>5, <1>7, Zenon

\* The next minute of the grid is a tick of the wall clock.
LEMMA NextMinute == LocalTime /\ Pass(Step) => LocalTime' /\ Wall!Tick
<1> SUFFICES ASSUME LocalTime, Pass(Step) PROVE LocalTime' /\ Wall!Tick
  OBVIOUS
<1>1. PICK u \in Int : u = unix /\ OnGrid(u)
  BY Zenon DEF LocalTime
<1>2. PICK z \in Zones : z = zone /\ zone' = z /\ Regular(z)
  BY Zenon DEF Pass, LocalTime, RegularZones
<1>3. PICK n \in Int : n = Step /\ 1 <= n /\ n <= 1439
  BY StepIs
<1>4. PICK w \in Int : w = u + n /\ unix' = w
  <2>1. unix' = unix + Step
    BY Zenon DEF Pass
  <2> QED BY <1>1, <1>3, <2>1, SMT
<1>5. OnGrid(w)
  <2>1. OnGrid(n)
    <3>1. n % Step = 0
      BY <1>3, SMT
    <3> QED BY <3>1, GridOf
  <2> QED BY <1>1, <1>4, <2>1, GridSum, Zenon
<1>6. PICK x \in Int : x = Standard(u) /\ x = u + z.offset /\ OnGrid(x)
  <2>1. Standard(u) = u + z.offset
    BY <1>2, Zenon DEF Standard
  <2>2. u + z.offset \in Int /\ OnGrid(u + z.offset)
    <3>1. z.offset \in Int /\ OnGrid(z.offset)
      BY ZoneGrid
    <3>2. u + z.offset \in Int
      BY <3>1, SMT
    <3> QED BY <1>1, <3>1, <3>2, GridSum
  <2> QED BY <2>1, <2>2, Zenon
<1>7. PICK p \in Int : p = x + n /\ p = Standard(w)
  <2>1. Standard(w) = w + z.offset
    BY <1>2, Zenon DEF Standard
  <2>2. w + z.offset = x + n
    BY <1>4, <1>6, ZoneNumbers, SMT
  <2> QED BY <2>1, <2>2, SMT
<1>8. PICK k \in Int : k = z.bias /\ 0 <= k /\ k <= 120
  BY ZoneNumbers
<1>9. /\ daylight' = DstActive(p)
      /\ date' = DateTimeFromEpoch(p + (IF daylight' THEN k ELSE 0))
  <2>1. /\ daylight' = DstActive(Standard(w))
        /\ date' = DateTimeFromEpoch(Standard(w) + (IF daylight' THEN zone.bias ELSE 0))
    BY <1>4, Zenon DEF Pass, Localized
  <2>2. zone.bias = k
    BY <1>2, <1>8
  <2> QED BY <1>7, <2>1, <2>2, Zenon
<1>10. /\ daylight = DstActive(x)
       /\ date = DateTimeFromEpoch(x + (IF daylight THEN k ELSE 0))
  <2>2. zone.bias = k
    BY <1>2, <1>8
  <2> QED BY <1>1, <1>6, <2>2, Zenon DEF LocalTime
<1>11. /\ daylight \in BOOLEAN /\ (daylight <=> Active(z, x))
       /\ daylight' \in BOOLEAN /\ (daylight' <=> Active(z, p))
  BY <1>2, <1>9, <1>10, ActiveIs, Zenon
<1>12. LocalTime'
  <2>1. Standard(unix)' = p
    <3>1. Standard(unix)' = w + z.offset
      BY <1>2, <1>4, Zenon DEF Standard
    <3>2. Standard(w) = w + z.offset
      BY <1>2, Zenon DEF Standard
    <3> QED BY <1>7, <3>1, <3>2, Zenon
  <2>2. DstActive(Standard(unix))' = DstActive(p)
    BY <1>2, <2>1, Zenon DEF DstActive
  <2>3. zone.bias' = k
    BY <1>2, <1>8
  <2>4. zone' \in RegularZones
    BY <1>2, Zenon DEF RegularZones
  <2> QED BY <1>2, <1>4, <1>5, <1>9, <2>1, <2>2, <2>3, <2>4, Zenon DEF LocalTime
<1>13. PICK pk \in Int : pk = p + k
  BY SMT
<1>14. z.enabled =>
         /\ ~daylight => (daylight' <=> Wall!At(DateTimeFromEpoch(p), z.start))
         /\ daylight => (~daylight' <=> Wall!At(DateTimeFromEpoch(pk), z.end))
  <2> SUFFICES ASSUME z.enabled
               PROVE  /\ ~daylight => (daylight' <=> Wall!At(DateTimeFromEpoch(p), z.start))
                      /\ daylight => (~daylight' <=> Wall!At(DateTimeFromEpoch(pk), z.end))
    OBVIOUS
  <2>1. /\ ~Active(z, x) =>
             (Active(z, x + Step) <=> Wall!At(DateTimeFromEpoch(x + Step), z.start))
        /\ Active(z, x) =>
             (~Active(z, x + Step) <=> Wall!At(DateTimeFromEpoch(x + Step + z.bias), z.end))
    BY <1>2, <1>6, Turn, Zenon
  <2>2. x + Step = p /\ x + Step + z.bias = pk
    BY <1>3, <1>7, <1>8, <1>13, SMT
  <2> QED BY <1>11, <2>1, <2>2, Zenon
<1>15. ~z.enabled => ~daylight /\ ~daylight'
  BY <1>11, Zenon DEF Active
<1>16. zone.enabled \in BOOLEAN /\ zone.enabled = z.enabled /\ zone.start = z.start
       /\ zone.end = z.end /\ zone.bias = k
  BY <1>2, <1>8, ZoneGrid, Zenon
<1>17. CASE daylight
  <2>1. date = DateTimeFromEpoch(x + k)
    BY <1>10, <1>17, Zenon
  <2>2. Wall!Moved(date, Step) = DateTimeFromEpoch(pk)
    <3>1. PICK xk \in Int : xk = x + k
      BY SMT
    <3>2. Wall!Moved(DateTimeFromEpoch(xk), n) = DateTimeFromEpoch(xk + n)
      BY <1>3, MovedIs, SMT
    <3>3. xk + n = pk
      BY <1>7, <1>13, <3>1, SMT
    <3> QED BY <1>3, <2>1, <3>1, <3>2, <3>3, SMT
  <2>3. Wall!Moved(DateTimeFromEpoch(pk), -zone.bias) = DateTimeFromEpoch(p)
    <3>1. PICK j \in Int : j = -k /\ -1440 < j /\ j < 1440
      BY <1>8, SMT
    <3>2. Wall!Moved(DateTimeFromEpoch(pk), j) = DateTimeFromEpoch(pk + j)
      BY <3>1, MovedIs
    <3>3. pk + j = p
      BY <1>13, <3>1, SMT
    <3> QED BY <1>16, <3>1, <3>2, <3>3, SMT
  <2>4. z.enabled
    BY <1>15, <1>17, Zenon
  <2>5. CASE daylight'
    <3>1. date' = DateTimeFromEpoch(pk)
      BY <1>9, <1>13, <2>5, Zenon
    <3>2. ~Wall!At(DateTimeFromEpoch(pk), zone.end)
      BY <1>14, <1>16, <1>17, <2>4, <2>5, Zenon
    <3> QED BY <1>2, <1>11, <1>12, <1>17, <2>2, <2>5, <3>1, <3>2, Zenon
         DEF Wall!Tick
  <2>6. CASE ~daylight'
    <3>1. date' = DateTimeFromEpoch(p)
      <4>1. date' = DateTimeFromEpoch(p + 0)
        BY <1>9, <2>6, Zenon
      <4>2. p + 0 = p
        BY SMT
      <4> QED BY <4>1, <4>2
    <3>2. Wall!At(DateTimeFromEpoch(pk), zone.end)
      BY <1>14, <1>16, <1>17, <2>4, <2>6, Zenon
    <3> QED BY <1>2, <1>11, <1>12, <1>17, <2>2, <2>3, <2>6, <3>1, <3>2, Zenon
         DEF Wall!Tick
  <2> QED BY <2>5, <2>6
<1>18. CASE ~daylight
  <2>1. date = DateTimeFromEpoch(x)
    <3>1. date = DateTimeFromEpoch(x + 0)
      BY <1>10, <1>18, Zenon
    <3>2. x + 0 = x
      BY SMT
    <3> QED BY <3>1, <3>2
  <2>2. Wall!Moved(date, Step) = DateTimeFromEpoch(p)
    <3>1. Wall!Moved(DateTimeFromEpoch(x), n) = DateTimeFromEpoch(x + n)
      BY <1>3, MovedIs, SMT
    <3> QED BY <1>3, <1>7, <2>1, <3>1, SMT
  <2>3. Wall!Moved(DateTimeFromEpoch(p), zone.bias) = DateTimeFromEpoch(pk)
    <3>1. Wall!Moved(DateTimeFromEpoch(p), k) = DateTimeFromEpoch(p + k)
      BY <1>8, MovedIs, SMT
    <3> QED BY <1>13, <1>16, <3>1, SMT
  <2>4. CASE daylight'
    <3>1. date' = DateTimeFromEpoch(pk)
      BY <1>9, <1>13, <2>4, Zenon
    <3>2. zone.enabled /\ Wall!At(DateTimeFromEpoch(p), zone.start)
      BY <1>14, <1>15, <1>16, <1>18, <2>4, Zenon
    <3> QED BY <1>2, <1>11, <1>12, <1>18, <2>2, <2>3, <2>4, <3>1, <3>2, Zenon
         DEF Wall!Tick
  <2>5. CASE ~daylight'
    <3>1. date' = DateTimeFromEpoch(p)
      <4>1. date' = DateTimeFromEpoch(p + 0)
        BY <1>9, <2>5, Zenon
      <4>2. p + 0 = p
        BY SMT
      <4> QED BY <4>1, <4>2
    <3>2. ~(zone.enabled /\ Wall!At(DateTimeFromEpoch(p), zone.start))
      BY <1>14, <1>16, <1>18, <2>5, Zenon
    <3> QED BY <1>2, <1>11, <1>12, <1>18, <2>2, <2>5, <3>1, <3>2, Zenon
         DEF Wall!Tick
  <2> QED BY <2>4, <2>5
<1> QED BY <1>11, <1>17, <1>18

\* What does not pass changes nothing.
LEMMA StutterLocal ==
  LocalTime /\ UNCHANGED timedVars => LocalTime' /\ UNCHANGED <<zone, date, daylight>>
<1> SUFFICES ASSUME LocalTime, UNCHANGED timedVars
             PROVE  LocalTime' /\ UNCHANGED <<zone, date, daylight>>
  OBVIOUS
<1>1. unix' = unix /\ zone' = zone /\ date' = date /\ daylight' = daylight
  BY Zenon DEF timedVars
<1> QED BY <1>1, Zenon DEF LocalTime, DstActive, Standard

\* Every step of the rule is a step of the wall clock or leaves it alone.
LEMMA StepRefinesWall ==
  LocalTime /\ [TimedNext]_timedVars => LocalTime' /\ [Wall!Tick]_<<zone, date, daylight>>
  BY SameMinute, NextMinute, StutterLocal, Zenon DEF TimedNext

\* Settings with the two transitions in different months, as all zones known to us
\* have them, are regular (dstActiveForStandardLocalSeconds).
THEOREM DifferentMonthsAreRegular ==
  ASSUME NEW z \in Zones, z.enabled => InDifferentMonths(z)
  PROVE  Regular(z)
<1> SUFFICES ASSUME z.enabled
             PROVE  /\ \A y \in Int : EndsInYear(z, y)
                    /\ North(z) \/ \A y \in Int : EndsFirst(z, y)
  BY DEF Regular
<1>1. ASSUME NEW y \in Int
      PROVE  /\ EndsInYear(z, y)
             /\ IF z.start.month < z.end.month THEN StartsFirst(z, y) ELSE EndsFirst(z, y)
  BY YearFacts, Zenon DEF EndsInYear, StartsFirst, EndsFirst
<1> QED BY <1>1, Zenon DEF North

\* Local time is a wall clock, from every start and in every regular zone that
\* validDstSettings accepts (in any other there is a year in which the transitions
\* change their order, or fall on one minute, or daylight time ends in the year before,
\* and there the code is wrong):
\* the date that localDateTime computes with dateTimeFromEpoch goes on by Step
\* minutes as a calendar does, into the next day, month and year; the bias that
\* dstActiveForStandardLocalSeconds finds anew at each minute, from the two
\* transitions of the year it falls in, moves the date forward once as the clock
\* shows the start and back once as it shows the end, and stays in between.
THEOREM LocalTimeIsAWallClock == TimedSpec /\ Regular(zone) => ImplementsWallClock
<1>1. TimedInit /\ Regular(zone) => LocalTime /\ Wall!Init
  BY InitLocal
<1>2. LocalTime /\ [TimedNext]_timedVars => LocalTime' /\ [Wall!Tick]_<<zone, date, daylight>>
  BY StepRefinesWall
<1> QED BY <1>1, <1>2, PTL DEF TimedSpec, ImplementsWallClock, Wall!Spec
=============================================================================
