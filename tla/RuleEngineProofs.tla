--------------------------- MODULE RuleEngineProofs ---------------------------
(***************************************************************************)
(* Proofs about RuleEngine for every number of rules and actions, every    *)
(* set of frames and every width of millis().                              *)
(***************************************************************************)
EXTENDS RuleEngine, FiniteSetTheorems, SequenceTheorems, WellFoundedInduction, TLAPS

\* The two copies of the rule table.
TableInv ==
  /\ rules \in [Rules -> Record] /\ flash \in [Rules -> Record]
  /\ diverged \subseteq Rules
  /\ RestartKeepsRules

\* Reduction to the range of millis(), as an operator the proofs need not expand.
Mod(n) == n % Wrap

\* How a slot's due time and the real time until then agree at time c.
Timed(v, c) == IF v.left = 0 THEN Mod(c - v.due) < Half ELSE v.due = Mod(c + v.left)

\* What a slot that is not empty holds.
Filled(v, c) == v \in SlotState /\ v.action # "none" /\ Timed(v, c)

SlotInv ==
  /\ clock \in 0 .. Wrap - 1
  /\ DOMAIN slots = Slots
  /\ slots = [s \in Slots |-> slots[s]]
  /\ \A s \in Slots : Pending(s) => Filled(slots[s], clock) /\ rules[RuleOf(s)].enabled

\* A pass began a short time ago.
StageInv ==
  /\ stage \in [at : {"loop", "pass", "sending", "replying"}, now : 0 .. Wrap - 1, slot : Nat]
  /\ stage.at \in {"pass", "sending"} => Mod(clock - stage.now) <= Half - MaxDelay

\* The reply queue, and what it owes to the commands.
ReplyInv ==
  /\ reply \in [frames : Seq(Frame), cursor : 0 .. ActionCount]
  /\ owed \in [frames : Seq(Frame), overlapped : BOOLEAN]
  /\ Len(reply.frames) <= ActionCount + 1
  /\ reply.cursor <= Len(reply.frames)
  /\ ~owed.overlapped => Waiting = owed.frames

OtherInv ==
  /\ minute \in Minutes \cup {NoTime}
  /\ lastMinute \in [Rules -> Minutes \cup {NoTime}]
  /\ raised \in [Rules -> BOOLEAN] /\ bootPending \in BOOLEAN /\ reboot \in BOOLEAN
  /\ counts \in [commands : Nat, triggers : Nat, restarts : Nat]

IInv == TableInv /\ SlotInv /\ StageInv /\ ReplyInv /\ OtherInv

-----------------------------------------------------------------------------
(* Arithmetic.                                                             *)

LEMMA Widths ==
  /\ Half \in Nat /\ Half >= 1 /\ Wrap \in Nat /\ Wrap = Half + Half
  /\ MaxDelay \in Nat /\ MaxDelay < Half
<1>1. Wrap \in Nat /\ Wrap = 2 * Half /\ Half = Wrap \div 2 /\ Half >= 1
  BY WrapAssumption DEF Half
<1>2. Half \in Int
  <2>1. \A w \in Nat : w \div 2 \in Int
    OBVIOUS
  <2> QED BY <1>1, <2>1
<1>3. MaxDelay \in 0 .. Half - 1
  BY WrapAssumption
<1> HIDE DEF Half
<1> QED BY <1>1, <1>2, <1>3

LEMMA Reduced ==
  ASSUME NEW W \in Nat \ {0}, NEW n \in Int
  PROVE  /\ n % W \in 0 .. W - 1
         /\ n >= 0 /\ n < W => n % W = n
         /\ n >= W /\ n < 2 * W => n % W = n - W
         /\ n < 0 /\ n >= -W => n % W = n + W
<1>1. /\ n = W * (n \div W) + (n % W)
      /\ (n \div W) \in Int /\ (n % W) \in 0 .. W - 1
  BY Z3
<1> DEFINE q == n \div W
           r == n % W
<1>2. n = W * q + r /\ q \in Int /\ r \in 0 .. W - 1
  BY <1>1
<1> HIDE DEF q, r
<1>3. CASE n >= 0 /\ n < W
  <2>1. q = 0
    BY <1>2, <1>3, Z3
  <2> QED BY <1>2, <1>3, <2>1 DEF r
<1>4. CASE n >= W /\ n < 2 * W
  <2>1. q = 1
    BY <1>2, <1>4, Z3
  <2> QED BY <1>2, <1>4, <2>1 DEF r
<1>5. CASE n < 0 /\ n >= -W
  <2>1. q = -1
    BY <1>2, <1>5, Z3
  <2> QED BY <1>2, <1>5, <2>1 DEF r
<1> QED BY <1>1, <1>3, <1>4, <1>5

LEMMA ModIs ==
  \A n \in Int :
    /\ Mod(n) \in 0 .. Wrap - 1
    /\ n >= 0 /\ n < Wrap => Mod(n) = n
    /\ n >= Wrap /\ n < 2 * Wrap => Mod(n) = n - Wrap
    /\ n < 0 /\ n >= -Wrap => Mod(n) = n + Wrap
<1> SUFFICES ASSUME NEW n \in Int
             PROVE  /\ Mod(n) \in 0 .. Wrap - 1
                    /\ n >= 0 /\ n < Wrap => Mod(n) = n
                    /\ n >= Wrap /\ n < 2 * Wrap => Mod(n) = n - Wrap
                    /\ n < 0 /\ n >= -Wrap => Mod(n) = n + Wrap
  OBVIOUS
<1>1. Wrap \in Nat \ {0}
  BY Widths
<1> QED BY <1>1, Reduced, Zenon DEF Mod

\* Time since n at c, and one millisecond later.
LEMMA Elapsed ==
  ASSUME NEW c \in 0 .. Wrap - 1, NEW n \in 0 .. Wrap - 1
  PROVE  /\ Mod(c - n) = IF c >= n THEN c - n ELSE c - n + Wrap
         /\ Mod(c + 1) \in 0 .. Wrap - 1
         /\ Mod(Mod(c + 1) - n) = IF Mod(c - n) = Wrap - 1 THEN 0 ELSE Mod(c - n) + 1
<1>1. Wrap \in Nat \ {0} /\ c \in Int /\ n \in Int
  BY Widths
<1>2. ASSUME NEW x \in 0 .. Wrap - 1 PROVE Mod(x - n) = IF x >= n THEN x - n ELSE x - n + Wrap
  <2>1. x - n \in Int /\ x \in Int
    BY <1>1
  <2> QED BY <1>1, <2>1, ModIs
<1>3. Mod(c + 1) = IF c + 1 = Wrap THEN 0 ELSE c + 1
  <2>1. c + 1 \in Int
    BY <1>1
  <2> QED BY <1>1, <2>1, ModIs
<1>4. Mod(c + 1) \in 0 .. Wrap - 1
  BY <1>1, <1>3
<1>5. Mod(Mod(c + 1) - n) = IF Mod(c + 1) >= n THEN Mod(c + 1) - n ELSE Mod(c + 1) - n + Wrap
  BY <1>2, <1>4
<1>6. Mod(c - n) = IF c >= n THEN c - n ELSE c - n + Wrap
  BY <1>2
<1> QED BY <1>1, <1>3, <1>4, <1>5, <1>6

\* A due time ahead of c, and seen one millisecond later.
LEMMA Ahead ==
  ASSUME NEW c \in 0 .. Wrap - 1, NEW l \in 1 .. MaxDelay
  PROVE  /\ Mod(c + l) = Mod(Mod(c + 1) + (l - 1))
         /\ l = 1 => Mod(c + l) = Mod(c + 1)
         /\ Mod(c + l) = IF c + l < Wrap THEN c + l ELSE c + l - Wrap
<1>1. /\ Wrap \in Nat \ {0} /\ c \in Int /\ l \in Int /\ MaxDelay \in Int
      /\ c < Wrap /\ c >= 0 /\ l >= 1 /\ l < Wrap
  BY Widths
<1>2. \A n \in Int : n >= 0 /\ n < 2 * Wrap => Mod(n) = IF n < Wrap THEN n ELSE n - Wrap
  BY <1>1, ModIs
<1>3. Mod(c + 1) = IF c + 1 < Wrap THEN c + 1 ELSE c + 1 - Wrap
  BY <1>1, <1>2
<1>4. Mod(c + l) = IF c + l < Wrap THEN c + l ELSE c + l - Wrap
  BY <1>1, <1>2
<1> DEFINE m == Mod(c + 1) + (l - 1)
<1>5. m \in Int /\ m >= 0 /\ m < 2 * Wrap
  BY <1>1, <1>3
<1>6. m = IF c + 1 < Wrap THEN c + l ELSE c + l - Wrap
  BY <1>1, <1>3
<1> HIDE DEF m
<1>7. Mod(m) = IF m < Wrap THEN m ELSE m - Wrap
  BY <1>2, <1>5
<1>8. Mod(m) = Mod(c + l)
  BY <1>1, <1>4, <1>6, <1>7
<1> QED BY <1>4, <1>8 DEF m

\* A slot belongs to a rule and to one of its actions.
LEMMA SlotRule ==
  ASSUME NEW s \in Slots
  PROVE  RuleOf(s) \in Rules /\ IndexOf(s) \in 1 .. ActionCount
<1>1. /\ RuleCount \in Nat /\ RuleCount >= 1 /\ ActionCount \in Nat /\ ActionCount >= 1
      /\ s \in Int
  BY CountAssumption DEF Slots
<1> DEFINE B == RuleCount * ActionCount
           x == (s - 1) % B
           q == x \div ActionCount
<1>2. B \in Nat /\ B >= 1
  BY <1>1, Z3
<1>3. x \in 0 .. B - 1
  <2> HIDE DEF B
  <2> QED BY <1>1, <1>2, Reduced
<1>4. q >= 0 /\ q < RuleCount /\ q \in Int
  <2> HIDE DEF x
  <2>1. x = ActionCount * q + (x % ActionCount) /\ (x % ActionCount) \in 0 .. ActionCount - 1
        /\ q \in Int
    BY <1>1, <1>3, Z3
  <2> DEFINE r == x % ActionCount
  <2>2. x = ActionCount * q + r /\ r \in Int /\ r >= 0 /\ r < ActionCount
    BY <1>1, <2>1
  <2> HIDE DEF q, r
  <2>3. x >= 0 /\ x < RuleCount * ActionCount /\ x \in Int
    BY <1>1, <1>2, <1>3
  <2>4. q >= 0
    BY <1>1, <2>1, <2>2, <2>3, Z3
  <2>5. q < RuleCount
    <3>1. CASE q >= RuleCount
      <4>1. ActionCount * q >= ActionCount * RuleCount
        BY <1>1, <2>1, <3>1, Z3
      <4>2. ActionCount * RuleCount = RuleCount * ActionCount
        BY <1>1, Z3
      <4> QED BY <1>1, <2>1, <2>2, <2>3, <4>1, <4>2, Z3
    <3> QED BY <1>1, <2>1, <3>1
  <2> QED BY <2>1, <2>4, <2>5
<1>5. RuleOf(s) = q + 1
  BY DEF RuleOf, BaseSlots
<1>6. RuleOf(s) \in Rules
  <2> HIDE DEF q
  <2> QED BY <1>1, <1>4, <1>5 DEF Rules
<1>7. IndexOf(s) \in 1 .. ActionCount
  <2>1. (s - 1) % ActionCount \in 0 .. ActionCount - 1
    BY <1>1, Reduced
  <2> QED BY <1>1, <2>1 DEF IndexOf
<1> QED BY <1>6, <1>7

\* A set of naturals has its minimum.
LEMMA MinIsLeast ==
  ASSUME NEW T, T \subseteq Nat, T # {}
  PROVE  Min(T) \in T /\ \A i \in T : Min(T) <= i
<1> DEFINE R == {p \in Nat \X Nat : p[1] < p[2]}
<1>1. OpToRel(<, Nat) = R
  BY DEF OpToRel
<1>2. IsWellFoundedOn(R, Nat)
  BY <1>1, NatLessThanWellFounded
<1> HIDE DEF R
<1>3. PICK m \in T : \A y \in T : ~(<<y, m>> \in R)
  BY <1>2, WFMin
<1>4. ASSUME NEW y \in T PROVE m <= y
  <2>1. m \in Nat /\ y \in Nat
    OBVIOUS
  <2>2. ~(y < m)
    <3>1. y < m => <<y, m>> \in R
      BY <2>1 DEF R
    <3> QED BY <1>3, <3>1
  <2> QED BY <2>1, <2>2
<1> QED BY <1>3, <1>4 DEF Min

LEMMA MinIsMember == ASSUME NEW T, T \subseteq Nat, T # {} PROVE Min(T) \in T
  BY MinIsLeast

-----------------------------------------------------------------------------
(* Slots.                                                                  *)

\* A slot value that scheduleRuleActions makes of an action.
Fresh(v) == v \in SlotState /\ v.action # "none" /\ v.due = Mod(clock + v.left)

LEMMA IdleType == Idle \in SlotState
  BY Widths DEF Idle, SlotState, ActionKinds

LEMMA FreshIsFilled ==
  ASSUME clock \in 0 .. Wrap - 1, NEW v, Fresh(v)
  PROVE  Filled(v, clock)
<1>1. CASE v.left = 0
  <2>1. clock + 0 = clock /\ clock \in Int
    BY Widths
  <2>2. Mod(clock) = clock
    BY <2>1, Widths, ModIs
  <2>3. v.due = clock
    BY <1>1, <2>1, <2>2 DEF Fresh
  <2>4. Mod(clock - v.due) = 0
    BY <2>3, Elapsed
  <2> QED BY <1>1, <2>4, Widths DEF Fresh, Filled, Timed
<1>2. CASE v.left # 0
  BY <1>2 DEF Fresh, Filled, Timed
<1> QED BY <1>1, <1>2

\* A step in which no time passes may empty slots and fill them anew, as long
\* as the rules they belong to are enabled.
LEMMA SlotsChanged ==
  ASSUME SlotInv, clock' = clock,
         DOMAIN slots' = Slots, slots' = [s \in Slots |-> slots'[s]],
         \A s \in Slots : slots'[s] = slots[s] \/ slots'[s] = Idle \/ Fresh(slots'[s]),
         \A s \in Slots : slots'[s] # Idle => rules'[RuleOf(s)].enabled
  PROVE  SlotInv'
<1>1. ASSUME NEW s \in Slots, slots'[s] # Idle
      PROVE  Filled(slots'[s], clock)
  <2>1. CASE slots'[s] = slots[s]
    BY <1>1, <2>1 DEF SlotInv, Pending
  <2>2. CASE Fresh(slots'[s])
    BY <2>2, FreshIsFilled DEF SlotInv
  <2> QED BY <1>1, <2>1, <2>2
<1>2. \A s \in Slots : Pending(s)' => Filled(slots[s], clock)' /\ (rules[RuleOf(s)].enabled)'
  BY <1>1 DEF Pending, Filled, Timed, Mod, SlotState, ActionKinds, Idle, RuleOf, BaseSlots
<1>3. (clock \in 0 .. Wrap - 1)'
  BY DEF SlotInv
<1> QED BY <1>2, <1>3 DEF SlotInv, Slots, BaseSlots

\* What scheduleRuleActions does to the slots.
LEMMA Scheduling ==
  ASSUME TableInv, SlotInv, NEW triggered, NEW released, NEW sampled,
         slots' = Scheduled(triggered, released, sampled)
  PROVE  /\ DOMAIN slots' = Slots /\ slots' = [s \in Slots |-> slots'[s]]
         /\ \A s \in Slots :
              \/ slots'[s] = slots[s] \/ slots'[s] = Idle
              \/ Fresh(slots'[s]) /\ RuleOf(s) \in triggered \cup released
<1>1. /\ DOMAIN slots' = Slots /\ slots' = [s \in Slots |-> slots'[s]]
  BY DEF Scheduled
<1>2. ASSUME NEW s \in Slots, slots'[s] # slots[s], slots'[s] # Idle
      PROVE  Fresh(slots'[s]) /\ RuleOf(s) \in triggered \cup released
  <2> DEFINE a == ActionOf(s)
             v == [action |-> a.kind, due |-> (clock + a.delay) % Wrap, left |-> a.delay]
  <2>1. /\ RuleOf(s) \in (IF IsRelease(s) THEN released ELSE triggered)
        /\ ~Skipped(a, IsRelease(s))
        /\ slots'[s] = v
    BY <1>2 DEF Scheduled
  <2>2. RuleOf(s) \in Rules /\ IndexOf(s) \in 1 .. ActionCount
    BY SlotRule
  <2>3. IndexOf(s) \in FrameSlots /\ IndexOf(s) # 0
    BY <2>2, CountAssumption DEF FrameSlots
  <2>4. a # NoFrame /\ a.kind # "none"
    BY <2>1 DEF Skipped
  <2>5. rules[RuleOf(s)].frames \in FrameTables
    BY <2>2 DEF TableInv, Record
  <2>6. a \in ActionFrames
    BY <2>3, <2>4, <2>5 DEF FrameTables, ActionOf
  <2>7. a.kind \in ActionKinds /\ a.delay \in 0 .. MaxDelay
    BY <2>6, FrameAssumption
  <2> HIDE DEF a
  <2>8. v.due = Mod(clock + v.left)
    BY DEF Mod
  <2>9. v.due \in 0 .. Wrap - 1
    <3>1. clock + v.left \in Int
      BY <2>7, Widths DEF SlotInv
    <3> QED BY <2>8, <3>1, ModIs
  <2>10. v \in SlotState
    BY <2>7, <2>9 DEF SlotState
  <2> QED BY <2>1, <2>4, <2>8, <2>10 DEF Fresh
<1> QED BY <1>1, <1>2

LEMMA SchedulingEnabled ==
  ASSUME TableInv, SlotInv, NEW triggered, NEW released, NEW sampled,
         slots' = Scheduled(triggered, released, sampled), clock' = clock, rules' = rules,
         \A r \in triggered \cup released : rules[r].enabled
  PROVE  SlotInv'
<1>1. /\ DOMAIN slots' = Slots /\ slots' = [s \in Slots |-> slots'[s]]
      /\ \A s \in Slots :
           \/ slots'[s] = slots[s] \/ slots'[s] = Idle
           \/ Fresh(slots'[s]) /\ RuleOf(s) \in triggered \cup released
  BY Scheduling
<1>2. ASSUME NEW s \in Slots, slots'[s] # Idle PROVE rules'[RuleOf(s)].enabled
  BY <1>1, <1>2 DEF SlotInv, Pending
<1> QED BY <1>1, <1>2, SlotsChanged

\* A step in which no time passes and no slot is filled.
LEMMA SlotsEmptied ==
  ASSUME SlotInv, clock' = clock, slots' = [s \in Slots |-> slots'[s]], DOMAIN slots' = Slots,
         \A s \in Slots : slots'[s] = slots[s] \/ slots'[s] = Idle,
         \A s \in Slots : slots'[s] # Idle /\ rules[RuleOf(s)].enabled => rules'[RuleOf(s)].enabled
  PROVE  SlotInv'
<1>1. ASSUME NEW s \in Slots, slots'[s] # Idle PROVE rules'[RuleOf(s)].enabled
  BY <1>1 DEF SlotInv, Pending
<1> QED BY <1>1, SlotsChanged

LEMMA SlotsKept ==
  ASSUME SlotInv, clock' = clock, slots' = slots, rules' = rules
  PROVE  SlotInv'
  BY SlotsEmptied DEF SlotInv

\* A millisecond passes.
LEMMA TickSlots == ASSUME SlotInv, Tick PROVE SlotInv'
<1>1. /\ clock \in 0 .. Wrap - 1 /\ clock' = Mod(clock + 1)
      /\ \A s \in Slots : Pending(s) => Mod(clock - slots[s].due) # Half - 1
      /\ slots' = [s \in Slots |-> IF slots[s].left = 0 THEN slots[s]
                                    ELSE [slots[s] EXCEPT !.left = @ - 1]]
      /\ rules' = rules
  BY DEF SlotInv, Tick, Mod, tables
<1>2. clock' \in 0 .. Wrap - 1
  BY <1>1, Elapsed
<1>3. ASSUME NEW s \in Slots, slots'[s] # Idle
      PROVE  Filled(slots'[s], clock') /\ rules'[RuleOf(s)].enabled
  <2>1. slots[s] # Idle
    BY <1>1, <1>3 DEF Idle
  <2>2. Filled(slots[s], clock) /\ rules'[RuleOf(s)].enabled
    BY <1>1, <2>1 DEF SlotInv, Pending
  <2> DEFINE l == slots[s].left
             d == slots[s].due
  <2>3. /\ slots[s] \in SlotState /\ slots[s].action # "none"
        /\ l \in 0 .. MaxDelay /\ d \in 0 .. Wrap - 1
        /\ IF l = 0 THEN Mod(clock - d) < Half ELSE d = Mod(clock + l)
    BY <2>2 DEF Filled, Timed, SlotState
  <2>4. CASE l = 0
    <3>1. slots'[s] = slots[s]
      BY <1>1, <2>4
    <3>2. Mod(clock - d) < Half /\ Mod(clock - d) # Half - 1
      BY <1>1, <2>1, <2>3, <2>4 DEF Pending
    <3>3. Mod(clock' - d) = IF Mod(clock - d) = Wrap - 1 THEN 0 ELSE Mod(clock - d) + 1
      BY <1>1, <2>3, Elapsed
    <3>4. Mod(clock - d) \in Int
      <4>1. clock - d \in Int
        BY <1>1, <2>3, Widths
      <4> QED BY <4>1, ModIs, Widths
    <3>5. Mod(clock' - d) < Half
      <4> HIDE DEF d
      <4> QED BY <3>2, <3>3, <3>4, Widths
    <3> QED BY <2>2, <2>3, <2>4, <3>1, <3>5 DEF Filled, Timed
  <2>5. CASE l # 0
    <3>1. slots'[s] = [slots[s] EXCEPT !.left = l - 1]
      BY <1>1, <2>5
    <3>2. /\ slots'[s] \in SlotState /\ slots'[s].action # "none"
          /\ slots'[s].left = l - 1 /\ slots'[s].due = d
      <4>1. l - 1 \in 0 .. MaxDelay
        BY <2>3, <2>5, Widths
      <4> QED BY <2>3, <3>1, <4>1 DEF SlotState
    <3>3. d = Mod(clock + l) /\ l \in 1 .. MaxDelay
      BY <2>3, <2>5, Widths
    <3> HIDE DEF l, d
    <3>4. d = Mod(clock' + (l - 1)) /\ (l = 1 => d = clock')
      BY <1>1, <3>3, Ahead
    <3>5. l = 1 => Mod(clock' - d) = 0
      BY <1>2, <3>4, Elapsed
    <3>6. l = 1 \/ l - 1 # 0
      BY <3>3
    <3>7. Timed(slots'[s], clock')
      BY <3>2, <3>3, <3>4, <3>5, <3>6, Widths DEF Timed
    <3> QED BY <2>2, <3>2, <3>7 DEF Filled
  <2> QED BY <2>4, <2>5
<1>4. DOMAIN slots' = Slots /\ slots' = [s \in Slots |-> slots'[s]]
  BY <1>1
<1>5. \A s \in Slots : Pending(s)' => Filled(slots[s], clock)' /\ (rules[RuleOf(s)].enabled)'
  BY <1>3 DEF Pending, Filled, Timed, Mod, SlotState, ActionKinds, Idle, RuleOf, BaseSlots
<1> QED BY <1>2, <1>4, <1>5 DEF SlotInv, Slots, BaseSlots

-----------------------------------------------------------------------------
(* The rule table.                                                         *)

LEMMA ChangedType ==
  ASSUME NEW record \in Record, NEW operation \in Operations
  PROVE  /\ Changed(record, operation) \in Record
         /\ Changed(record, operation).enabled = (operation = "enable")
<1>1. Cleared \in Record
  <2>1. [i \in FrameSlots |-> NoFrame] \in FrameTables
    BY DEF FrameTables, Frame
  <2> QED BY <2>1 DEF Cleared, Record
<1> QED BY <1>1 DEF Changed, Operations, Record, Cleared

LEMMA WithType ==
  ASSUME NEW table \in [Rules -> Record], rules \in [Rules -> Record], NEW ids,
         NEW operation \in Operations
  PROVE  With(table, ids, operation) \in [Rules -> Record]
  BY ChangedType DEF With

\* The parts of the invariant at a start.
LEMMA BootedInv ==
  ASSUME TableInv, OtherInv, NEW table \in [Rules -> Record], Booted(table)
  PROVE  TableInv' /\ SlotInv' /\ StageInv' /\ ReplyInv'
<1> USE DEF Booted
<1>1. TableInv'
  BY DEF TableInv, RestartKeepsRules, Rules, Record, FrameTables, Frame, FrameSlots
<1>2. SlotInv'
  <2>1. 0 \in 0 .. Wrap - 1
    BY Widths
  <2> QED BY <2>1 DEF SlotInv, Pending, Slots, BaseSlots, Idle
<1>3. StageInv'
  <2>1. 0 \in 0 .. Wrap - 1
    BY Widths
  <2> QED BY <2>1 DEF StageInv, InLoop
<1>4. ReplyInv'
  <2>1. NoReply.frames = <<>> /\ NoReply.cursor = 0 /\ NothingOwed.frames = <<>>
    BY DEF NoReply, NothingOwed
  <2>2. NoReply \in [frames : Seq(Frame), cursor : 0 .. ActionCount]
    BY CountAssumption DEF NoReply
  <2>3. NothingOwed \in [frames : Seq(Frame), overlapped : BOOLEAN]
    BY DEF NothingOwed
  <2>4. SubSeq(<<>>, 0 + 1, Len(<<>>)) = <<>>
    OBVIOUS
  <2>5. (~owed.overlapped => Waiting = owed.frames)'
    BY <2>1, <2>4 DEF Waiting
  <2> QED BY <2>1, <2>2, <2>3, <2>5, CountAssumption DEF ReplyInv, Frame
<1> QED BY <1>1, <1>2, <1>3, <1>4

LEMMA TableKept == TableInv /\ UNCHANGED tables => TableInv'
  BY DEF TableInv, RestartKeepsRules, tables, Rules, Record, FrameTables, Frame, FrameSlots

\* The steps that leave both copies of the rules alone.
LEMMA TablesUntouched ==
  \/ Trigger \/ ProcessRuleExecution \/ ExecuteAction \/ SendReturns \/ PassEnds
  \/ SendReply \/ ReplySent \/ ReplyNotSent \/ Tick \/ LocalTime \/ UNCHANGED vars
  \/ (\E r \in Rules : StageEnquiryReply(r))
  => UNCHANGED tables
  BY DEF Trigger, ServerMessage, PassiveFrame, EvaluateChannelRules, ProcessRuleExecution,
     ExecuteAction, SendReturns, PassEnds, SendReply, ReplySent, ReplyNotSent, Tick, LocalTime,
     StageEnquiryReply, tables, vars

LEMMA ApplyTables ==
  ASSUME TableInv, NEW mask, mask \subseteq Rules, NEW operation \in Operations,
         ApplyRuleStatus(mask, operation)
  PROVE  TableInv'
<1>1. /\ rules' = With(rules, mask, operation) /\ flash' = With(flash, mask, operation)
      /\ diverged' = diverged \ mask
  BY DEF ApplyRuleStatus
<1>2. rules' \in [Rules -> Record] /\ flash' \in [Rules -> Record] /\ diverged' \subseteq Rules
  BY <1>1, WithType DEF TableInv
<1>3. ASSUME NEW r \in Rules \ diverged' PROVE flash'[r] = rules'[r]
  BY <1>1 DEF With, TableInv, RestartKeepsRules
<1> QED BY <1>2, <1>3 DEF TableInv, RestartKeepsRules, Rules, Record, FrameTables, Frame, FrameSlots

LEMMA RefuseTables ==
  ASSUME TableInv, NEW mask, mask \subseteq Rules, NEW operation \in Operations,
         NEW failed, NEW unsaved, RefuseRuleStatus(mask, operation, failed, unsaved)
  PROVE  TableInv'
<1> DEFINE done == Below(mask, failed)
<1>1. /\ unsaved \subseteq done /\ done \subseteq Rules /\ rules' = rules
      /\ flash' = [r \in Rules |-> IF r \in unsaved THEN Changed(rules[r], operation)
                                    ELSE IF r \in done THEN rules[r] ELSE flash[r]]
      /\ diverged' = (diverged \ done) \cup {r \in unsaved : Changed(rules[r], operation) # rules[r]}
  BY DEF RefuseRuleStatus, Below
<1> HIDE DEF done
<1>2. flash' \in [Rules -> Record]
  <2>1. ASSUME NEW r \in Rules PROVE rules[r] \in Record /\ Changed(rules[r], operation) \in Record
    BY ChangedType DEF TableInv
  <2> QED BY <1>1, <2>1 DEF TableInv
<1>3. diverged' \subseteq Rules
  BY <1>1 DEF TableInv
<1>4. ASSUME NEW r \in Rules \ diverged' PROVE flash'[r] = rules'[r]
  BY <1>1 DEF TableInv, RestartKeepsRules
<1> QED
  BY <1>1, <1>2, <1>3, <1>4
  DEF TableInv, RestartKeepsRules, Rules, Record, FrameTables, Frame, FrameSlots

LEMMA ConfigureTables ==
  ASSUME TableInv, NEW r \in Rules, NEW index \in FrameSlots, NEW frame \in CommandFrames,
         NEW enable \in BOOLEAN, (index = 0) <=> (frame \in ConditionFrames),
         ConfigureRule(r, index, frame, enable)
  PROVE  TableInv'
<1> DEFINE updated == [enabled |-> enable, frames |-> [rules[r].frames EXCEPT ![index] = frame]]
<1>1. /\ rules' = [rules EXCEPT ![r] = updated] /\ flash' = [flash EXCEPT ![r] = updated]
      /\ diverged' = diverged \ {r}
  BY DEF ConfigureRule
<1>2. rules[r].frames \in FrameTables
  BY DEF TableInv, Record
<1>3. frame \in ConditionFrames \cup ActionFrames
  BY FrameAssumption
<1>4. [rules[r].frames EXCEPT ![index] = frame] \in FrameTables
  BY <1>2, <1>3 DEF FrameTables, Frame
<1>5. updated \in Record
  BY <1>4 DEF Record
<1> HIDE DEF updated
<1>6. rules' \in [Rules -> Record] /\ flash' \in [Rules -> Record] /\ diverged' \subseteq Rules
  BY <1>1, <1>5 DEF TableInv
<1>7. ASSUME NEW q \in Rules \ diverged' PROVE flash'[q] = rules'[q]
  BY <1>1 DEF TableInv, RestartKeepsRules
<1> QED BY <1>6, <1>7 DEF TableInv, RestartKeepsRules, Rules, Record, FrameTables, Frame, FrameSlots

\* A start in the middle of a status command finds a table that is well formed.
LEMMA InterruptBoots ==
  ASSUME TableInv, NEW mask, NEW operation \in Operations, NEW next,
         InterruptRuleStatus(mask, operation, next)
  PROVE  \E table \in [Rules -> Record] : Booted(table)
<1>1. With(flash, Below(mask, next), operation) \in [Rules -> Record]
  BY WithType DEF TableInv
<1> QED BY <1>1 DEF InterruptRuleStatus

LEMMA RestartBoots == TableInv /\ Restart => \E table \in [Rules -> Record] : Booted(table)
  BY DEF Restart, TableInv

\* The actions of Next, with what their parameters are.
LEMMA NextCases ==
  ASSUME Next
  PROVE  \/ \E p \in Payloads : ServerMessage(p) \/ PassiveFrame(p) \/ EvaluateChannelRules(p)
         \/ ProcessRuleExecution \/ ExecuteAction \/ SendReturns \/ PassEnds
         \/ SendReply \/ ReplySent \/ ReplyNotSent \/ Tick \/ LocalTime
         \/ \E r \in Rules : StageEnquiryReply(r)
         \/ \E mask \in SUBSET Rules, operation \in Operations :
               \/ ApplyRuleStatus(mask, operation)
               \/ \E failed, unsaved : RefuseRuleStatus(mask, operation, failed, unsaved)
               \/ \E next : InterruptRuleStatus(mask, operation, next)
         \/ \E r \in Rules, frame \in CommandFrames, index \in FrameSlots, enable \in BOOLEAN :
               /\ (index = 0) <=> (frame \in ConditionFrames)
               /\ ConfigureRule(r, index, frame, enable)
         \/ Restart
<1>1. Masks \subseteq SUBSET Rules
  BY MaskAssumption
<1>2. ASSUME RuleCommand
      PROVE  \/ \E r \in Rules : StageEnquiryReply(r)
             \/ \E mask \in SUBSET Rules, operation \in Operations :
                   \/ ApplyRuleStatus(mask, operation)
                   \/ \E failed, unsaved : RefuseRuleStatus(mask, operation, failed, unsaved)
                   \/ \E next : InterruptRuleStatus(mask, operation, next)
             \/ \E r \in Rules, frame \in CommandFrames, index \in FrameSlots, enable \in BOOLEAN :
                   /\ (index = 0) <=> (frame \in ConditionFrames)
                   /\ ConfigureRule(r, index, frame, enable)
  BY <1>1, <1>2, Zenon DEF RuleCommand
<1> QED BY <1>2, Zenon DEF Next, Trigger

LEMMA TableStep == ASSUME TableInv, OtherInv, [Next]_vars PROVE TableInv'
<1>1. CASE UNCHANGED tables
  BY <1>1, TableKept
<1>2. ASSUME NEW mask \in SUBSET Rules, NEW operation \in Operations, ApplyRuleStatus(mask, operation)
      PROVE  TableInv'
  BY <1>2, ApplyTables
<1>3. ASSUME NEW mask \in SUBSET Rules, NEW operation \in Operations, NEW failed, NEW unsaved,
             RefuseRuleStatus(mask, operation, failed, unsaved)
      PROVE  TableInv'
  BY <1>3, RefuseTables
<1>4. ASSUME NEW r \in Rules, NEW frame \in CommandFrames, NEW index \in FrameSlots,
             NEW enable \in BOOLEAN, (index = 0) <=> (frame \in ConditionFrames),
             ConfigureRule(r, index, frame, enable)
      PROVE  TableInv'
  BY <1>4, ConfigureTables
<1>5. ASSUME NEW table \in [Rules -> Record], Booted(table) PROVE TableInv'
  BY <1>5, BootedInv
<1>6. ASSUME Restart \/ \E mask \in SUBSET Rules, operation \in Operations :
                          \E next : InterruptRuleStatus(mask, operation, next)
      PROVE  TableInv'
  BY <1>5, <1>6, RestartBoots, InterruptBoots
<1> QED BY <1>1, <1>2, <1>3, <1>4, <1>6, NextCases, TablesUntouched, Zenon DEF Trigger

-----------------------------------------------------------------------------
(* The slots.                                                              *)

\* The three triggers and the evaluation of restarts and times, and what they
\* have in common.
LEMMA TriggerSlots ==
  ASSUME TableInv, SlotInv, NEW p \in Payloads,
         ServerMessage(p) \/ PassiveFrame(p) \/ EvaluateChannelRules(p)
  PROVE  SlotInv'
<1>1. \A kind, arg : \A r \in Matching(kind, arg) : rules[r].enabled
  BY DEF Matching
<1>2. CASE ServerMessage(p)
  <2> DEFINE ids == Matching("message", p)
  <2>1. slots' = Scheduled(ids, {}, FALSE) /\ clock' = clock /\ rules' = rules
    BY <1>2 DEF ServerMessage, timing, tables
  <2>2. \A r \in ids \cup {} : rules[r].enabled
    BY <1>1
  <2> HIDE DEF ids
  <2> QED BY <2>1, <2>2, SchedulingEnabled
<1>3. CASE PassiveFrame(p)
  <2> DEFINE ids == Matching("rs485", p)
  <2>1. slots' = Scheduled(ids, {}, FALSE) /\ clock' = clock /\ rules' = rules
    BY <1>3 DEF PassiveFrame, timing, tables
  <2>2. \A r \in ids \cup {} : rules[r].enabled
    BY <1>1
  <2> HIDE DEF ids
  <2> QED BY <2>1, <2>2, SchedulingEnabled
<1>4. CASE EvaluateChannelRules(p)
  <2> DEFINE ids == Matching("channel", p)
  <2>1. PICK outcome : slots' = Scheduled({r \in ids : outcome[r].event = "trigger"},
                                          {r \in ids : outcome[r].event = "release"}, TRUE)
    BY <1>4 DEF EvaluateChannelRules
  <2>2. clock' = clock /\ rules' = rules
    BY <1>4 DEF EvaluateChannelRules, timing, tables
  <2>3. \A r \in {r \in ids : outcome[r].event = "trigger"} \cup {r \in ids : outcome[r].event = "release"} :
          rules[r].enabled
    BY <1>1
  <2> HIDE DEF ids
  <2> QED BY <2>1, <2>2, <2>3, SchedulingEnabled
<1> QED BY <1>2, <1>3, <1>4

LEMMA ProcessSlots == ASSUME TableInv, SlotInv, ProcessRuleExecution PROVE SlotInv'
<1>1. \A r \in (Restarted \cup DueNow) \cup {} : rules[r].enabled
  BY DEF Restarted, DueNow
<1>2. /\ slots' = Scheduled(Restarted \cup DueNow, {}, FALSE)
      /\ clock' = clock /\ rules' = rules
  BY DEF ProcessRuleExecution, tables
<1> HIDE DEF Restarted, DueNow
<1> QED BY <1>1, <1>2, SchedulingEnabled

\* Executing a slot, or the end of its send, empties it.
LEMMA ExecuteSlots == ASSUME SlotInv, ExecuteAction \/ SendReturns PROVE SlotInv'
<1>1. clock' = clock /\ rules' = rules
  BY DEF ExecuteAction, SendReturns, timing, tables
<1>2. slots' = slots \/ \E k : slots' = [slots EXCEPT ![k] = Idle]
  BY DEF ExecuteAction, ExecuteLocal, SendReturns
<1>3. /\ DOMAIN slots' = Slots /\ slots' = [s \in Slots |-> slots'[s]]
      /\ \A s \in Slots : slots'[s] = slots[s] \/ slots'[s] = Idle
  BY <1>2 DEF SlotInv
<1> QED BY <1>1, <1>3, SlotsEmptied

LEMMA CommandSlots ==
  ASSUME TableInv, SlotInv, NEW mask \in SUBSET Rules, NEW operation \in Operations,
         \/ ApplyRuleStatus(mask, operation)
         \/ \E failed, unsaved : RefuseRuleStatus(mask, operation, failed, unsaved)
  PROVE  SlotInv'
<1>1. CASE ApplyRuleStatus(mask, operation)
  <2>1. /\ clock' = clock /\ rules' = With(rules, mask, operation)
        /\ slots' = IF operation = "enable" THEN slots ELSE Cancelled(mask)
    BY <1>1 DEF ApplyRuleStatus, timing, CancelUnlessEnabled
  <2>2. /\ DOMAIN slots' = Slots /\ slots' = [s \in Slots |-> slots'[s]]
        /\ \A s \in Slots : slots'[s] = slots[s] \/ slots'[s] = Idle
    BY <2>1 DEF SlotInv, Cancelled
  <2>3. ASSUME NEW s \in Slots, slots'[s] # Idle, rules[RuleOf(s)].enabled
        PROVE  rules'[RuleOf(s)].enabled
    <3>1. RuleOf(s) \in Rules /\ rules[RuleOf(s)] \in Record
      BY SlotRule DEF TableInv
    <3>2. CASE operation = "enable"
      <4>1. Changed(rules[RuleOf(s)], operation).enabled
        BY <3>1, <3>2, ChangedType
      <4> QED BY <2>1, <2>3, <3>1, <4>1 DEF With
    <3>3. CASE operation # "enable"
      <4>1. RuleOf(s) \notin mask
        BY <2>1, <2>3, <3>3 DEF Cancelled
      <4> QED BY <2>1, <2>3, <3>1, <4>1 DEF With
    <3> QED BY <3>2, <3>3
  <2> QED BY <2>1, <2>2, <2>3, SlotsEmptied
<1>2. ASSUME NEW failed, NEW unsaved, RefuseRuleStatus(mask, operation, failed, unsaved)
      PROVE  SlotInv'
  <2>1. /\ clock' = clock /\ rules' = rules
        /\ slots' = IF operation = "enable" THEN slots ELSE Cancelled(Below(mask, failed))
    BY <1>2 DEF RefuseRuleStatus, timing, CancelUnlessEnabled
  <2>2. /\ DOMAIN slots' = Slots /\ slots' = [s \in Slots |-> slots'[s]]
        /\ \A s \in Slots : slots'[s] = slots[s] \/ slots'[s] = Idle
    BY <2>1 DEF SlotInv, Cancelled
  <2> QED BY <2>1, <2>2, SlotsEmptied
<1> QED BY <1>1, <1>2

LEMMA ConfigureSlots ==
  ASSUME TableInv, SlotInv, NEW r \in Rules, NEW index, NEW frame, NEW enable \in BOOLEAN,
         ConfigureRule(r, index, frame, enable)
  PROVE  SlotInv'
<1>1. /\ clock' = clock
      /\ rules' = [rules EXCEPT ![r] = [enabled |-> enable,
                                        frames |-> [rules[r].frames EXCEPT ![index] = frame]]]
      /\ slots' = IF enable THEN slots ELSE Cancelled({r})
  BY DEF ConfigureRule, timing
<1>2. /\ DOMAIN slots' = Slots /\ slots' = [s \in Slots |-> slots'[s]]
      /\ \A s \in Slots : slots'[s] = slots[s] \/ slots'[s] = Idle
  BY <1>1 DEF SlotInv, Cancelled
<1>3. ASSUME NEW s \in Slots, slots'[s] # Idle, rules[RuleOf(s)].enabled
      PROVE  rules'[RuleOf(s)].enabled
  <2>1. RuleOf(s) \in Rules
    BY SlotRule
  <2>2. CASE RuleOf(s) = r
    <3>1. enable
      BY <1>1, <1>3, <2>2 DEF Cancelled
    <3>2. rules'[r].enabled = enable
      BY <1>1 DEF TableInv
    <3> QED BY <2>2, <3>1, <3>2
  <2>3. CASE RuleOf(s) # r
    <3>1. rules'[RuleOf(s)] = rules[RuleOf(s)]
      BY <1>1, <2>1, <2>3 DEF TableInv
    <3> QED BY <1>3, <3>1
  <2> QED BY <2>2, <2>3
<1> QED BY <1>1, <1>2, <1>3, SlotsEmptied

LEMMA SlotStep == ASSUME TableInv, OtherInv, SlotInv, [Next]_vars PROVE SlotInv'
<1>1. CASE PassEnds \/ SendReply \/ ReplySent \/ ReplyNotSent \/ LocalTime \/ UNCHANGED vars
           \/ \E r \in Rules : StageEnquiryReply(r)
  <2>1. clock' = clock /\ slots' = slots /\ rules' = rules
    BY <1>1 DEF PassEnds, SendReply, ReplySent, ReplyNotSent, LocalTime, StageEnquiryReply,
       timing, tables, vars
  <2> QED BY <2>1, SlotsKept
<1>2. ASSUME NEW table \in [Rules -> Record], Booted(table) PROVE SlotInv'
  BY <1>2, BootedInv
<1>3. ASSUME Restart \/ \E mask \in SUBSET Rules, operation \in Operations :
                          \E next : InterruptRuleStatus(mask, operation, next)
      PROVE  SlotInv'
  BY <1>2, <1>3, RestartBoots, InterruptBoots
<1>4. ASSUME NEW mask \in SUBSET Rules, NEW operation \in Operations,
             \/ ApplyRuleStatus(mask, operation)
             \/ \E failed, unsaved : RefuseRuleStatus(mask, operation, failed, unsaved)
      PROVE  SlotInv'
  BY <1>4, CommandSlots
<1>5. ASSUME NEW r \in Rules, NEW frame \in CommandFrames, NEW index \in FrameSlots,
             NEW enable \in BOOLEAN, ConfigureRule(r, index, frame, enable)
      PROVE  SlotInv'
  BY <1>5, ConfigureSlots
<1>6. ASSUME NEW p \in Payloads, ServerMessage(p) \/ PassiveFrame(p) \/ EvaluateChannelRules(p)
      PROVE  SlotInv'
  BY <1>6, TriggerSlots
<1> QED
  BY <1>1, <1>3, <1>4, <1>5, <1>6, ProcessSlots, ExecuteSlots, TickSlots, NextCases, Zenon

-----------------------------------------------------------------------------
(* The stage of the loop.                                                  *)

\* The slot executed next is one that is due.
LEMMA NextDue ==
  ASSUME DueSlots # {}
  PROVE  Min(DueSlots) \in DueSlots /\ Min(DueSlots) \in Nat
<1>1. DueSlots \subseteq Nat
  BY DEF DueSlots, Slots
<1> HIDE DEF DueSlots
<1> QED BY <1>1, MinIsMember

StageTypes == [at : {"loop", "pass", "sending", "replying"}, now : 0 .. Wrap - 1, slot : Nat]

LEMMA StageStep == ASSUME TableInv, OtherInv, SlotInv, StageInv, [Next]_vars PROVE StageInv'
<1> USE DEF StageInv
<1>1. ASSUME UNCHANGED <<stage, clock>> PROVE StageInv'
  BY <1>1 DEF Mod
<1>2. CASE ProcessRuleExecution
  <2>1. stage' = [at |-> "pass", now |-> clock, slot |-> 1] /\ clock' = clock /\ clock \in 0 .. Wrap - 1
    BY <1>2 DEF ProcessRuleExecution, SlotInv
  <2>2. Mod(clock' - clock) = 0 /\ 0 <= Half - MaxDelay
    BY <2>1, Elapsed, Widths
  <2> QED BY <2>1, <2>2
<1>3. ASSUME NEW k \in Nat, NEW where \in {"pass", "sending"},
             stage.at \in {"pass", "sending"}, clock' = clock,
             stage' = [stage EXCEPT !.at = where, !.slot = k]
      PROVE  StageInv'
  <2>1. stage'.now = stage.now /\ stage'.at = where
    BY <1>3
  <2>2. stage' \in StageTypes
    BY <1>3 DEF StageTypes
  <2>3. Mod(clock' - stage'.now) <= Half - MaxDelay
    BY <1>3, <2>1
  <2> QED BY <2>2, <2>3 DEF StageTypes
<1>4. CASE ExecuteAction
  <2> DEFINE s == Min(DueSlots)
  <2>1. s \in Nat /\ s + 1 \in Nat
    BY <1>4, NextDue DEF ExecuteAction
  <2>2. stage.at = "pass" /\ clock' = clock
    BY <1>4 DEF ExecuteAction, timing
  <2>3. \/ stage' = [stage EXCEPT !.at = "pass", !.slot = s + 1]
        \/ stage' = [stage EXCEPT !.at = "sending", !.slot = s]
    BY <1>4 DEF ExecuteAction, ExecuteLocal, Advance
  <2> HIDE DEF s
  <2> QED BY <1>3, <2>1, <2>2, <2>3
<1>5. CASE SendReturns
  <2>1. /\ stage.at = "sending" /\ clock' = clock /\ stage.slot + 1 \in Nat
        /\ stage' = [stage EXCEPT !.at = "pass", !.slot = stage.slot + 1]
    BY <1>5 DEF SendReturns, Advance, timing
  <2> QED BY <1>3, <2>1
<1>6. CASE PassEnds \/ SendReply \/ ReplySent \/ ReplyNotSent
  <2>1. stage' = InLoop \/ stage' = [at |-> "replying", now |-> 0, slot |-> 1]
    BY <1>6 DEF PassEnds, SendReply, ReplySent, ReplyNotSent
  <2> QED BY <2>1, Widths DEF InLoop
<1>7. ASSUME NEW r \in Rules, StageEnquiryReply(r) PROVE StageInv'
  <2>1. CASE stage.at = "replying"
    <3>1. stage' = [stage EXCEPT !.slot = 0]
      BY <1>7, <2>1 DEF StageEnquiryReply
    <3> QED BY <2>1, <3>1
  <2>2. CASE stage.at # "replying"
    BY <1>1, <1>7, <2>2 DEF StageEnquiryReply, timing
  <2> QED BY <2>1, <2>2
<1>8. CASE Tick
  <2>1. /\ clock \in 0 .. Wrap - 1 /\ clock' = Mod(clock + 1) /\ stage' = stage
        /\ stage.at \in {"pass", "sending"} => Mod(clock - stage.now) < Half - MaxDelay
    BY <1>8 DEF Tick, SlotInv, Mod
  <2> DEFINE n == stage.now
  <2>2. n \in 0 .. Wrap - 1
    OBVIOUS
  <2>3. Mod(clock' - n) = IF Mod(clock - n) = Wrap - 1 THEN 0 ELSE Mod(clock - n) + 1
    BY <2>1, <2>2, Elapsed
  <2>4. Mod(clock - n) \in Int
    <3>1. clock - n \in Int
      BY <2>1, <2>2, Widths
    <3> QED BY <3>1, ModIs, Widths
  <2>5. Mod(clock - n) < Half - MaxDelay => Mod(clock' - n) <= Half - MaxDelay
    <3> HIDE DEF n
    <3> QED BY <2>3, <2>4, Widths
  <2> QED BY <2>1, <2>5
<1>9. ASSUME NEW table \in [Rules -> Record], Booted(table) PROVE StageInv'
  <2>1. StageInv'
    BY <1>9, BootedInv
  <2> QED BY <2>1
<1>10. ASSUME Restart \/ \E mask \in SUBSET Rules, operation \in Operations :
                           \E next : InterruptRuleStatus(mask, operation, next)
       PROVE  StageInv'
  <2> HIDE DEF StageInv
  <2> QED BY <1>9, <1>10, RestartBoots, InterruptBoots
<1>11. ASSUME NEW mask \in SUBSET Rules, NEW operation \in Operations,
              \/ ApplyRuleStatus(mask, operation)
              \/ \E failed, unsaved : RefuseRuleStatus(mask, operation, failed, unsaved)
       PROVE  StageInv'
  <2>1. UNCHANGED <<stage, clock>>
    BY <1>11 DEF ApplyRuleStatus, RefuseRuleStatus, timing
  <2> QED BY <1>1, <2>1
<1>12. ASSUME NEW r \in Rules, NEW frame \in CommandFrames, NEW index \in FrameSlots,
              NEW enable \in BOOLEAN, ConfigureRule(r, index, frame, enable)
       PROVE  StageInv'
  <2>1. UNCHANGED <<stage, clock>>
    BY <1>12 DEF ConfigureRule, timing
  <2> QED BY <1>1, <2>1
<1>13. ASSUME NEW p \in Payloads, ServerMessage(p) \/ PassiveFrame(p) \/ EvaluateChannelRules(p)
       PROVE  StageInv'
  <2>1. UNCHANGED <<stage, clock>>
    BY <1>13 DEF ServerMessage, PassiveFrame, EvaluateChannelRules, timing
  <2> QED BY <1>1, <2>1
<1>14. CASE LocalTime \/ UNCHANGED vars
  <2>1. UNCHANGED <<stage, clock>>
    BY <1>14 DEF LocalTime, vars
  <2> QED BY <1>1, <2>1
<1> HIDE DEF StageInv
<1> QED
  BY <1>2, <1>4, <1>5, <1>6, <1>7, <1>8, <1>10, <1>11, <1>12, <1>13, <1>14, NextCases, Zenon

-----------------------------------------------------------------------------
(* The rest.                                                               *)

LEMMA OtherStep == ASSUME OtherInv, [Next]_vars PROVE OtherInv'
<1>1. minute' \in Minutes \cup {NoTime}
  BY ZenonT(60) DEF OtherInv, vars, Next, Trigger, ServerMessage, PassiveFrame, EvaluateChannelRules,
     ProcessRuleExecution, ExecuteAction, SendReturns, PassEnds, RuleCommand, ApplyRuleStatus,
     RefuseRuleStatus, InterruptRuleStatus, ConfigureRule, StageEnquiryReply, SendReply,
     ReplySent, ReplyNotSent, Tick, LocalTime, Restart, timing
<1>2. bootPending' \in BOOLEAN /\ reboot' \in BOOLEAN
  <2>1. bootPending' = bootPending \/ bootPending' = FALSE \/ bootPending' = TRUE
    BY DEF vars, Next, Trigger, ServerMessage, PassiveFrame, EvaluateChannelRules,
       ProcessRuleExecution, ExecuteAction, SendReturns, PassEnds, RuleCommand,
       ApplyRuleStatus, RefuseRuleStatus, InterruptRuleStatus, ConfigureRule, StageEnquiryReply,
       SendReply, ReplySent, ReplyNotSent, Tick, LocalTime, Restart, Booted
  <2>2. reboot' = reboot \/ reboot' = FALSE \/ ExecuteAction
    BY ZenonT(60) DEF vars, Next, Trigger, ServerMessage, PassiveFrame, EvaluateChannelRules,
       ProcessRuleExecution, SendReturns, PassEnds, RuleCommand,
       ApplyRuleStatus, RefuseRuleStatus, InterruptRuleStatus, ConfigureRule, StageEnquiryReply,
       SendReply, ReplySent, ReplyNotSent, Tick, LocalTime, Restart, Booted
  <2>3. ASSUME ExecuteAction PROVE reboot' \in BOOLEAN
    <3>1. reboot' = reboot \/ \E s : ExecuteLocal(s)
      BY <2>3 DEF ExecuteAction
    <3>2. ASSUME NEW s, ExecuteLocal(s) PROVE reboot' \in BOOLEAN
      BY <3>2, Zenon DEF ExecuteLocal
    <3> QED BY <3>1, <3>2 DEF OtherInv
  <2> QED BY <2>1, <2>2, <2>3 DEF OtherInv
<1>3. lastMinute' \in [Rules -> Minutes \cup {NoTime}]
  BY ZenonT(60) DEF OtherInv, vars, Next, Trigger, ServerMessage, PassiveFrame, EvaluateChannelRules,
     ProcessRuleExecution, ExecuteAction, SendReturns, PassEnds, RuleCommand, ApplyRuleStatus,
     RefuseRuleStatus, InterruptRuleStatus, ConfigureRule, StageEnquiryReply, SendReply,
     ReplySent, ReplyNotSent, Tick, LocalTime, Restart, Booted, timing
<1>4. counts' \in [commands : Nat, triggers : Nat, restarts : Nat]
  <2>1. \/ counts' = counts \/ Triggered \/ Command
        \/ counts' = [counts EXCEPT !.restarts = @ + 1]
    BY ZenonT(60) DEF vars, Next, Trigger, ServerMessage, PassiveFrame, EvaluateChannelRules,
       ProcessRuleExecution, ExecuteAction, SendReturns, PassEnds, RuleCommand,
       ApplyRuleStatus, RefuseRuleStatus, InterruptRuleStatus, ConfigureRule, StageEnquiryReply,
       SendReply, ReplySent, ReplyNotSent, Tick, LocalTime, Restart, Booted
  <2> QED BY <2>1 DEF OtherInv, Triggered, Command
<1>5. raised' \in [Rules -> BOOLEAN]
  <2>1. ASSUME NEW p \in Payloads, EvaluateChannelRules(p) PROVE raised' \in [Rules -> BOOLEAN]
    <3> DEFINE ids == Matching("channel", p)
    <3>1. PICK outcome \in [ids -> Alarm!Outcomes(TRUE) \cup Alarm!Outcomes(FALSE)] :
            raised' = [r \in Rules |-> IF r \in ids THEN outcome[r].raised ELSE raised[r]]
      BY <2>1 DEF EvaluateChannelRules
    <3>2. \A o \in Alarm!Outcomes(TRUE) \cup Alarm!Outcomes(FALSE) : o.raised \in BOOLEAN
      <4>1. ASSUME NEW b \in BOOLEAN, NEW o \in Alarm!Outcomes(b) PROVE o.raised \in BOOLEAN
        <5>1. \E e, x : o = [event |-> e, raised |-> x] /\ x \in BOOLEAN
          BY Zenon DEF Alarm!Outcomes
        <5> QED BY <5>1
      <4> QED BY <4>1
    <3> HIDE DEF ids
    <3> QED BY <3>1, <3>2 DEF OtherInv
  <2>2. (\A p \in Payloads : ~EvaluateChannelRules(p)) => raised' \in [Rules -> BOOLEAN]
    BY ZenonT(60) DEF OtherInv, vars, Next, Trigger, ServerMessage, PassiveFrame,
       ProcessRuleExecution, ExecuteAction, SendReturns, PassEnds, RuleCommand, ApplyRuleStatus,
       RefuseRuleStatus, InterruptRuleStatus, ConfigureRule, StageEnquiryReply, SendReply,
       ReplySent, ReplyNotSent, Tick, LocalTime, Restart, Booted
  <2> QED BY <2>1, <2>2
<1> QED BY <1>1, <1>2, <1>3, <1>4, <1>5 DEF OtherInv, NoTime, Rules

-----------------------------------------------------------------------------
(* The reply queue.                                                        *)

\* In a set of naturals below a bound there is a k-th element for every k up
\* to its size.
LEMMA NthExists ==
  ASSUME NEW n \in Nat, NEW S, S \subseteq 0 .. n, NEW k \in 1 .. Cardinality(S)
  PROVE  \E i \in S : Cardinality({j \in S : j <= i}) = k
<1> DEFINE upto(i) == {j \in S : j <= i}
           T == {i \in Nat : i <= n /\ Cardinality(upto(i)) >= k}
           m == Min(T)
<1>1. IsFiniteSet(S) /\ Cardinality(S) \in Nat
  <2>1. IsFiniteSet(0 .. n)
    BY FS_Interval
  <2>2. IsFiniteSet(S)
    BY <2>1, FS_Subset
  <2> QED BY <2>2, FS_CardinalityType
<1>2. \A i : IsFiniteSet(upto(i)) /\ Cardinality(upto(i)) \in Nat
  <2> SUFFICES ASSUME NEW i PROVE IsFiniteSet(upto(i)) /\ Cardinality(upto(i)) \in Nat
    OBVIOUS
  <2>1. upto(i) \subseteq S
    OBVIOUS
  <2> HIDE DEF upto
  <2> QED BY <1>1, <2>1, FS_Subset, FS_CardinalityType
<1>3. k \in Nat /\ k >= 1
  BY <1>1
<1>4. n \in T
  <2>1. upto(n) = S
    <3>1. \A j \in S : j <= n
      OBVIOUS
    <3> QED BY <3>1
  <2> QED BY <1>1, <2>1
<1>5. m \in T
  <2>1. T \subseteq Nat /\ T # {}
    BY <1>4
  <2> HIDE DEF T
  <2> QED BY <2>1, MinIsMember
<1>6. m \in Nat /\ m <= n /\ Cardinality(upto(m)) >= k
  BY <1>5
<1>7. \A i \in T : m <= i
  <2>1. T \subseteq Nat
    OBVIOUS
  <2> HIDE DEF T
  <2> QED BY <1>5, <2>1, MinIsLeast
<1>8. S \subseteq Int /\ \A j \in S : j >= 0
  OBVIOUS
<1> HIDE DEF m
<1>12. Cardinality(upto(m - 1)) < k
  <2>1. CASE m = 0
    <3>1. \A j \in S : ~(j <= m - 1)
      BY <1>8, <2>1
    <3>2. upto(m - 1) = {}
      BY <3>1
    <3> QED BY <1>3, <3>2, FS_EmptySet
  <2>2. CASE m # 0
    <3>1. m - 1 \in Nat /\ m - 1 <= n /\ ~(m <= m - 1)
      BY <1>6, <2>2
    <3>2. m - 1 \notin T
      BY <1>7, <3>1
    <3>3. ~(Cardinality(upto(m - 1)) >= k)
      BY <3>1, <3>2
    <3>4. Cardinality(upto(m - 1)) \in Nat
      BY <1>2
    <3> HIDE DEF upto
    <3> QED BY <1>3, <3>3, <3>4
  <2> QED BY <2>1, <2>2
<1>13. upto(m) = (IF m \in S THEN upto(m - 1) \cup {m} ELSE upto(m - 1))
  <2>1. \A j \in S : j <= m <=> j <= m - 1 \/ j = m
    BY <1>6, <1>8
  <2> QED BY <1>6, <2>1
<1>9. m \in S
  <2>1. Cardinality(upto(m)) \in Nat /\ Cardinality(upto(m - 1)) \in Nat
    BY <1>2
  <2> HIDE DEF upto
  <2> QED BY <1>3, <1>6, <1>12, <1>13, <2>1
<1>10. Cardinality(upto(m)) = Cardinality(upto(m - 1)) + 1
  <2>1. m \notin upto(m - 1)
    <3>1. ~(m <= m - 1)
      BY <1>6
    <3> QED BY <3>1
  <2>2. upto(m) = upto(m - 1) \cup {m}
    BY <1>9, <1>13
  <2>3. IsFiniteSet(upto(m - 1))
    BY <1>2
  <2> HIDE DEF upto
  <2> QED BY <2>1, <2>2, <2>3, FS_AddElement
<1>11. Cardinality(upto(m)) = k
  <2>1. Cardinality(upto(m)) \in Nat /\ Cardinality(upto(m - 1)) \in Nat
    BY <1>2
  <2> HIDE DEF upto
  <2> QED BY <1>3, <1>6, <1>12, <1>10, <2>1
<1> QED BY <1>9, <1>11

\* An enquiry finds at most one frame per slot of the rule.
LEMMA FramesOfType ==
  ASSUME TableInv, NEW r \in Rules
  PROVE  FramesOf(r) \in Seq(Frame) /\ Len(FramesOf(r)) \in 0 .. ActionCount + 1
<1> DEFINE set == {i \in FrameSlots : rules[r].frames[i] # NoFrame}
           nth(k) == CHOOSE i \in set : Cardinality({j \in set : j <= i}) = k
           c == Cardinality(set)
<1>1. set \subseteq 0 .. ActionCount /\ ActionCount \in Nat
  BY CountAssumption DEF FrameSlots
<1>2. c \in 0 .. ActionCount + 1
  <2>1. IsFiniteSet(0 .. ActionCount) /\ Cardinality(0 .. ActionCount) = ActionCount + 1
    <3>1. 0 \in Int /\ ActionCount \in Int /\ ~(0 > ActionCount) /\ ActionCount - 0 + 1 = ActionCount + 1
      BY <1>1
    <3> QED BY <3>1, FS_Interval
  <2> HIDE DEF set
  <2>2. IsFiniteSet(set) /\ c <= ActionCount + 1
    BY <1>1, <2>1, FS_Subset
  <2>3. c \in Nat
    BY <2>2, FS_CardinalityType
  <2> QED BY <1>1, <2>2, <2>3
<1>3. ASSUME NEW k \in 1 .. c PROVE nth(k) \in FrameSlots
  <2>1. \E i \in set : Cardinality({j \in set : j <= i}) = k
    <3> HIDE DEF set
    <3> QED BY <1>1, NthExists, ZenonT(60)
  <2>2. nth(k) \in set
    <3> HIDE DEF set
    <3> QED BY <2>1
  <2> QED BY <2>2
<1>4. \A i \in FrameSlots : rules[r].frames[i] \in Frame
  BY DEF TableInv, Record, FrameTables
<1>5. FramesOf(r) = [k \in 1 .. c |-> rules[r].frames[nth(k)]]
  BY DEF FramesOf
<1> HIDE DEF set, nth, c
<1>6. \A k \in 1 .. c : rules[r].frames[nth(k)] \in Frame
  BY <1>3, <1>4
<1>7. c \in Nat
  BY <1>1, <1>2
<1>8. FramesOf(r) \in Seq(Frame) /\ Len(FramesOf(r)) = c
  BY <1>5, <1>6, <1>7, IsASeq, LenProperties
<1> QED BY <1>2, <1>8

\* A frame is queued behind those that wait, and the first of them is done with.
LEMMA WaitingAppended ==
  ASSUME NEW S, NEW q \in Seq(S), NEW x \in S, NEW c \in 0 .. Len(q)
  PROVE  SubSeq(Append(q, x), c + 1, Len(Append(q, x))) = Append(SubSeq(q, c + 1, Len(q)), x)
<1> DEFINE n == Len(q)
           a == Append(q, x)
           u == SubSeq(a, c + 1, n + 1)
           w == SubSeq(q, c + 1, n)
<1>1. n \in Nat /\ c \in Nat /\ c <= n
  BY LenProperties
<1>2. /\ a \in Seq(S) /\ Len(a) = n + 1
      /\ \A i \in 1 .. n : a[i] = q[i]
      /\ a[n + 1] = x
  BY AppendProperties
<1>3. \A i \in c + 1 .. n : q[i] \in S
  <2>1. \A i \in 1 .. n : q[i] \in S
    BY ElementOfSeq
  <2> QED BY <1>1, <2>1
<1>4. \A i \in c + 1 .. n + 1 : a[i] \in S
  <2>1. \A i \in 1 .. n + 1 : a[i] \in S
    BY <1>2, ElementOfSeq
  <2> QED BY <1>1, <2>1
<1> HIDE DEF n, a
<1>5. /\ w \in Seq(S)
      /\ Len(w) = n - c
      /\ \A i \in 1 .. n - c : w[i] = q[c + i]
  <2>1. c + 1 \in Int /\ n \in Int
    BY <1>1
  <2>2. /\ w \in Seq(S)
        /\ Len(w) = IF c + 1 <= n THEN n - (c + 1) + 1 ELSE 0
        /\ \A i \in 1 .. n - (c + 1) + 1 : w[i] = q[(c + 1) + i - 1]
    BY <1>3, <2>1, SubSeqProperties
  <2> HIDE DEF w
  <2>3. n - (c + 1) + 1 = n - c
    BY <1>1
  <2>4. \A i \in 1 .. n - c : (c + 1) + i - 1 = c + i
    BY <1>1
  <2> QED BY <1>1, <2>2, <2>3, <2>4
<1>6. /\ u \in Seq(S)
      /\ Len(u) = n - c + 1
      /\ \A i \in 1 .. n - c + 1 : u[i] = a[c + i]
  <2>1. c + 1 \in Int /\ n + 1 \in Int
    BY <1>1
  <2>2. /\ u \in Seq(S)
        /\ Len(u) = IF c + 1 <= n + 1 THEN (n + 1) - (c + 1) + 1 ELSE 0
        /\ \A i \in 1 .. (n + 1) - (c + 1) + 1 : u[i] = a[(c + 1) + i - 1]
    BY <1>4, <2>1, SubSeqProperties
  <2> HIDE DEF u
  <2>3. (n + 1) - (c + 1) + 1 = n - c + 1
    BY <1>1
  <2>4. \A i \in 1 .. n - c + 1 : (c + 1) + i - 1 = c + i
    BY <1>1
  <2> QED BY <1>1, <2>2, <2>3, <2>4
<1> HIDE DEF u, w
<1>7. /\ Append(w, x) \in Seq(S) /\ Len(Append(w, x)) = n - c + 1
      /\ \A i \in 1 .. n - c : Append(w, x)[i] = w[i]
      /\ Append(w, x)[n - c + 1] = x
  BY <1>5, AppendProperties
<1>8. ASSUME NEW i \in 1 .. n - c + 1 PROVE u[i] = Append(w, x)[i]
  <2>1. CASE i = n - c + 1
    <3>1. c + i = n + 1
      BY <1>1, <2>1
    <3> QED BY <1>2, <1>6, <1>7, <2>1, <3>1
  <2>2. CASE i # n - c + 1
    <3>1. i \in 1 .. n - c /\ c + i \in 1 .. n
      BY <1>1, <2>2
    <3> QED BY <1>2, <1>5, <1>6, <1>7, <3>1
  <2> QED BY <2>1, <2>2
<1>9. u = Append(w, x)
  BY <1>6, <1>7, <1>8, SeqEqual
<1> QED BY <1>2, <1>9 DEF u, w, n, a

LEMMA WaitingTail ==
  ASSUME NEW S, NEW q \in Seq(S), NEW c \in 0 .. Len(q), SubSeq(q, c + 1, Len(q)) # <<>>
  PROVE  /\ c + 1 <= Len(q)
         /\ Tail(SubSeq(q, c + 1, Len(q))) = SubSeq(q, (c + 1) + 1, Len(q))
<1>1. Len(q) \in Nat
  BY LenProperties
<1>2. c + 1 <= Len(q)
  <2>1. Len(q) < c + 1 => SubSeq(q, c + 1, Len(q)) = <<>>
    BY <1>1, SubSeqEmpty
  <2> QED BY <1>1, <2>1
<1>3. c + 1 \in 1 .. Len(q) /\ Len(q) \in (c + 1) .. Len(q)
  BY <1>1, <1>2
<1> QED BY <1>2, <1>3, HeadTailOfSubSeq

\* An acknowledgement of a configuration command.
LEMMA ConfigureReply ==
  ASSUME ReplyInv, NEW r \in Rules, NEW index, NEW frame \in CommandFrames, NEW enable,
         ConfigureRule(r, index, frame, enable)
  PROVE  ReplyInv'
<1>1. frame \in Frame
  BY FrameAssumption DEF Frame
<1>2. CASE ~Acknowledged(reply)
  BY <1>2 DEF ConfigureRule, exchange, ReplyInv, Waiting, Frame
<1>3. CASE Acknowledged(reply)
  <2> DEFINE q == reply.frames
             c == reply.cursor
  <2>1. /\ reply' = [reply EXCEPT !.frames = Append(q, frame)]
        /\ owed' = [owed EXCEPT !.frames = Append(owed.frames, frame)]
    BY <1>3 DEF ConfigureRule
  <2>2. /\ q \in Seq(Frame) /\ c \in 0 .. ActionCount /\ c <= Len(q) /\ Len(q) <= ActionCount
        /\ Len(q) \in Nat /\ ActionCount \in Nat
    BY <1>3, CountAssumption, LenProperties DEF ReplyInv, Acknowledged
  <2>3. Append(q, frame) \in Seq(Frame) /\ Len(Append(q, frame)) = Len(q) + 1
    BY <1>1, <2>2, AppendProperties
  <2>4. /\ reply'.frames = Append(q, frame) /\ reply'.cursor = c
        /\ reply' \in [frames : Seq(Frame), cursor : 0 .. ActionCount]
    BY <2>1, <2>2, <2>3 DEF ReplyInv
  <2>5. /\ owed' \in [frames : Seq(Frame), overlapped : BOOLEAN]
        /\ owed'.frames = Append(owed.frames, frame) /\ owed'.overlapped = owed.overlapped
    BY <1>1, <2>1, AppendProperties DEF ReplyInv
  <2>6. Len(reply'.frames) <= ActionCount + 1 /\ reply'.cursor <= Len(reply'.frames)
    BY <2>2, <2>3, <2>4
  <2>7. c \in 0 .. Len(q)
    BY <2>2
  <2>8. SubSeq(Append(q, frame), c + 1, Len(Append(q, frame))) = Append(SubSeq(q, c + 1, Len(q)), frame)
    BY <1>1, <2>2, <2>7, WaitingAppended
  <2>9. ~owed'.overlapped => SubSeq(reply'.frames, reply'.cursor + 1, Len(reply'.frames)) = owed'.frames
    BY <2>4, <2>5, <2>8 DEF ReplyInv, Waiting
  <2> QED BY <2>4, <2>5, <2>6, <2>9 DEF ReplyInv, Waiting, Frame
<1> QED BY <1>2, <1>3

LEMMA EnquiryReply == ASSUME TableInv, ReplyInv, NEW r \in Rules, StageEnquiryReply(r) PROVE ReplyInv'
<1> DEFINE q == FramesOf(r)
<1>1. reply' = [frames |-> q, cursor |-> 0] /\ owed' = [frames |-> q, overlapped |-> FALSE]
  BY DEF StageEnquiryReply
<1>2. q \in Seq(Frame) /\ Len(q) \in 0 .. ActionCount + 1 /\ ActionCount \in Nat
  BY FramesOfType, CountAssumption
<1> HIDE DEF q
<1>3. SubSeq(q, 0 + 1, Len(q)) = q
  BY <1>2, SubSeqFull
<1>4. reply' \in [frames : Seq(Frame), cursor : 0 .. ActionCount] /\ owed' \in [frames : Seq(Frame), overlapped : BOOLEAN]
  BY <1>1, <1>2
<1>5. Len(reply'.frames) <= ActionCount + 1 /\ reply'.cursor <= Len(reply'.frames)
  BY <1>1, <1>2
<1>6. SubSeq(reply'.frames, reply'.cursor + 1, Len(reply'.frames)) = owed'.frames
  BY <1>1, <1>3
<1> QED BY <1>4, <1>5, <1>6 DEF ReplyInv, Waiting, Frame

\* The frame that was sent is the first of those that wait.
LEMMA SentReply == ASSUME ReplyInv, ReplySent PROVE ReplyInv'
<1> DEFINE q == reply.frames
           c == reply.cursor
<1>1. /\ q \in Seq(Frame) /\ c \in 0 .. ActionCount /\ c <= Len(q) /\ Len(q) <= ActionCount + 1
      /\ Len(q) \in Nat /\ ActionCount \in Nat /\ c \in 0 .. Len(q)
  BY CountAssumption, LenProperties DEF ReplyInv
<1>2. reply' = IF c + 1 >= Len(q) THEN NoReply ELSE [reply EXCEPT !.cursor = c + 1]
  BY DEF ReplySent, Advanced
<1>3. owed' = IF stage.slot = 0 \/ owed.frames = <<>> THEN [owed EXCEPT !.overlapped = TRUE]
              ELSE [owed EXCEPT !.frames = Tail(owed.frames)]
  BY DEF ReplySent
<1>4. /\ reply' \in [frames : Seq(Frame), cursor : 0 .. ActionCount]
      /\ Len(reply'.frames) <= ActionCount + 1 /\ reply'.cursor <= Len(reply'.frames)
  <2>1. CASE c + 1 >= Len(q)
    <3>1. NoReply \in [frames : Seq(Frame), cursor : 0 .. ActionCount]
          /\ Len(NoReply.frames) = 0 /\ NoReply.cursor = 0
      BY <1>1, EmptySeq DEF NoReply
    <3> QED BY <1>1, <1>2, <2>1, <3>1
  <2>2. CASE ~(c + 1 >= Len(q))
    <3>1. c + 1 \in 0 .. ActionCount /\ c + 1 <= Len(q)
      BY <1>1, <2>2
    <3> QED BY <1>1, <1>2, <2>2, <3>1 DEF ReplyInv
  <2> QED BY <2>1, <2>2
<1>5. owed' \in [frames : Seq(Frame), overlapped : BOOLEAN]
  <2>1. CASE stage.slot = 0 \/ owed.frames = <<>>
    BY <1>3, <2>1 DEF ReplyInv
  <2>2. CASE ~(stage.slot = 0 \/ owed.frames = <<>>)
    <3>1. Tail(owed.frames) \in Seq(Frame)
      BY <2>2, HeadTailProperties DEF ReplyInv
    <3> QED BY <1>3, <2>2, <3>1 DEF ReplyInv
  <2> QED BY <2>1, <2>2
<1>6. ASSUME ~owed'.overlapped
      PROVE  SubSeq(reply'.frames, reply'.cursor + 1, Len(reply'.frames)) = owed'.frames
  <2>1. ~(stage.slot = 0 \/ owed.frames = <<>>)
    BY <1>3, <1>6 DEF ReplyInv
  <2>2. owed'.frames = Tail(owed.frames) /\ owed.overlapped = owed'.overlapped
    BY <1>3, <2>1 DEF ReplyInv
  <2>3. SubSeq(q, c + 1, Len(q)) = owed.frames
    BY <1>6, <2>2 DEF ReplyInv, Waiting
  <2>4. c + 1 <= Len(q) /\ owed'.frames = SubSeq(q, (c + 1) + 1, Len(q))
    BY <1>1, <2>1, <2>2, <2>3, WaitingTail
  <2>5. CASE c + 1 >= Len(q)
    <3>1. SubSeq(q, (c + 1) + 1, Len(q)) = <<>>
      BY <1>1, <2>5, SubSeqEmpty
    <3>2. reply'.frames = <<>> /\ reply'.cursor = 0
      BY <1>2, <2>5 DEF NoReply
    <3>3. SubSeq(<<>>, 0 + 1, Len(<<>>)) = <<>>
      OBVIOUS
    <3> QED BY <2>4, <3>1, <3>2, <3>3
  <2>6. CASE ~(c + 1 >= Len(q))
    <3>1. reply'.frames = q /\ reply'.cursor = c + 1
      BY <1>2, <2>6 DEF ReplyInv
    <3> QED BY <2>4, <3>1
  <2> QED BY <2>5, <2>6
<1> QED BY <1>4, <1>5, <1>6 DEF ReplyInv, Waiting, Frame

LEMMA ReplyStep == ASSUME TableInv, OtherInv, ReplyInv, [Next]_vars PROVE ReplyInv'
<1>1. ASSUME UNCHANGED exchange PROVE ReplyInv'
  BY <1>1 DEF exchange, ReplyInv, Waiting, Frame
<1>2. ASSUME \/ \E p \in Payloads : ServerMessage(p) \/ PassiveFrame(p) \/ EvaluateChannelRules(p)
             \/ ProcessRuleExecution \/ ExecuteAction \/ SendReturns \/ PassEnds
             \/ SendReply \/ ReplyNotSent \/ Tick \/ LocalTime \/ UNCHANGED vars
      PROVE  UNCHANGED exchange
  BY <1>2 DEF ServerMessage, PassiveFrame, EvaluateChannelRules, ProcessRuleExecution,
     ExecuteAction, SendReturns, PassEnds, SendReply, ReplyNotSent, Tick, LocalTime, exchange, vars
<1>3. ASSUME NEW table \in [Rules -> Record], Booted(table) PROVE ReplyInv'
  BY <1>3, BootedInv
<1>4. ASSUME Restart \/ \E mask \in SUBSET Rules, operation \in Operations :
                          \E next : InterruptRuleStatus(mask, operation, next)
      PROVE  ReplyInv'
  BY <1>3, <1>4, RestartBoots, InterruptBoots
<1>5. ASSUME NEW mask \in SUBSET Rules, NEW operation \in Operations,
             \/ ApplyRuleStatus(mask, operation)
             \/ \E failed, unsaved : RefuseRuleStatus(mask, operation, failed, unsaved)
      PROVE  UNCHANGED exchange
  BY <1>5 DEF ApplyRuleStatus, RefuseRuleStatus
<1>6. ASSUME NEW r \in Rules, NEW frame \in CommandFrames, NEW index \in FrameSlots,
             NEW enable \in BOOLEAN, ConfigureRule(r, index, frame, enable)
      PROVE  ReplyInv'
  BY <1>6, ConfigureReply
<1> QED BY <1>1, <1>2, <1>4, <1>5, <1>6, EnquiryReply, SentReply, NextCases, Zenon

-----------------------------------------------------------------------------
(* The invariant.                                                          *)

LEMMA InitIInv == Init => IInv
<1> SUFFICES ASSUME Init PROVE IInv
  OBVIOUS
<1> USE DEF Init
<1>1. TableInv
  BY FrameAssumption DEF TableInv, RestartKeepsRules
<1>2. SlotInv
  <2>1. 0 \in 0 .. Wrap - 1
    BY Widths
  <2> QED BY <2>1 DEF SlotInv, Pending, Idle
<1>3. StageInv
  <2>1. 0 \in 0 .. Wrap - 1
    BY Widths
  <2> QED BY <2>1 DEF StageInv, InLoop
<1>4. ReplyInv
  <2>1. NoReply.frames = <<>> /\ NoReply.cursor = 0 /\ NothingOwed.frames = <<>>
    BY DEF NoReply, NothingOwed
  <2>2. NoReply \in [frames : Seq(Frame), cursor : 0 .. ActionCount]
    BY CountAssumption DEF NoReply
  <2>3. NothingOwed \in [frames : Seq(Frame), overlapped : BOOLEAN]
    BY DEF NothingOwed
  <2>4. SubSeq(<<>>, 0 + 1, Len(<<>>)) = <<>>
    OBVIOUS
  <2>5. Waiting = owed.frames
    BY <2>1, <2>4 DEF Waiting
  <2> QED BY <2>1, <2>2, <2>3, <2>5, CountAssumption DEF ReplyInv
<1>5. OtherInv
  BY DEF OtherInv
<1> QED BY <1>1, <1>2, <1>3, <1>4, <1>5 DEF IInv

LEMMA NextIInv == IInv /\ [Next]_vars => IInv'
<1> SUFFICES ASSUME IInv, [Next]_vars PROVE IInv'
  OBVIOUS
<1>1. TableInv /\ SlotInv /\ StageInv /\ ReplyInv /\ OtherInv
  BY DEF IInv
<1>2. TableInv'
  BY <1>1, TableStep
<1>3. SlotInv'
  BY <1>1, SlotStep
<1>4. StageInv'
  BY <1>1, StageStep
<1>5. ReplyInv'
  BY <1>1, ReplyStep
<1>6. OtherInv'
  BY <1>1, OtherStep
<1> QED BY <1>2, <1>3, <1>4, <1>5, <1>6 DEF IInv

LEMMA Inductive == Spec => []IInv
  BY InitIInv, NextIInv, PTL DEF Spec

\* The rules, both copies, the slots and the reply queue stay within what the
\* code declares: in particular no delay grows beyond its width and no reply
\* beyond the four places of its queue, whatever commands arrive.
THEOREM TypeCorrect == Spec => []TypeOK
<1>1. IInv => TypeOK
  <2> SUFFICES ASSUME IInv PROVE TypeOK
    OBVIOUS
  <2>1. slots \in [Slots -> SlotState]
    <3>1. \A s \in Slots : slots[s] \in SlotState
      BY IdleType DEF IInv, SlotInv, Pending, Filled
    <3> QED BY <3>1 DEF IInv, SlotInv
  <2> QED BY <2>1 DEF IInv, TableInv, SlotInv, StageInv, ReplyInv, OtherInv, TypeOK
<1> QED BY <1>1, Inductive, PTL

\* No scheduled action belongs to a rule that is disabled or deleted, although
\* a status command that fails half way has put the rules back and not their
\* actions (applyRuleStatusCommand, cancelScheduledRuleActions).
THEOREM PendingEnabled == Spec => []PendingOnlyIfEnabled
<1>1. IInv => PendingOnlyIfEnabled
  BY DEF IInv, SlotInv, PendingOnlyIfEnabled
<1> QED BY <1>1, Inductive, PTL

\* Flash and RAM hold the same rules after any command, refused or not, and
\* after a power loss in the middle of one (RuleStore::save), except for those
\* whose rollback failed as well.
THEOREM RestartKeeps == Spec => []RestartKeepsRules
<1>1. IInv => RestartKeepsRules
  BY DEF IInv, TableInv
<1> QED BY <1>1, Inductive, PTL

\* The reply queue holds exactly what was asked for and not sent, in order,
\* through failed sends, further enquiries and acknowledgements
\* (stageRuleEnquiryReply, processRuleReply).
THEOREM Replies == Spec => []RepliesInFull
<1>1. IInv => RepliesInFull
  BY DEF IInv, ReplyInv, Waiting, RepliesInFull
<1> QED BY <1>1, Inductive, PTL

-----------------------------------------------------------------------------
(* The time of an action.                                                  *)

\* What a pass finds due was due when the pass began, so that nothing of its
\* delay is left: the delay and the time since then together are at most half
\* the range of millis().
LEMMA DueIsOver ==
  ASSUME SlotInv, StageInv, stage.at = "pass", NEW s \in DueSlots
  PROVE  slots[s].left = 0
<1> SUFFICES ASSUME slots[s].left # 0 PROVE FALSE
  OBVIOUS
<1> DEFINE l == slots[s].left
           d == slots[s].due
           n == stage.now
<1>1. s \in Slots /\ Pending(s) /\ ~((n - d) % Wrap >= Half)
  BY DEF DueSlots, Before
<1>2. l \in 1 .. MaxDelay /\ d \in 0 .. Wrap - 1 /\ d = Mod(clock + l)
  BY <1>1, Widths DEF SlotInv, Filled, Timed, SlotState
<1>3. /\ clock \in 0 .. Wrap - 1 /\ n \in 0 .. Wrap - 1
      /\ Mod(clock - n) <= Half - MaxDelay
  BY DEF SlotInv, StageInv
<1>4. ~(Mod(n - d) >= Half)
  BY <1>1 DEF Mod
<1> DEFINE c == clock
<1>5. c \in 0 .. Wrap - 1
  BY <1>3
<1> HIDE DEF l, d, n, c
<1>6. Mod(c - n) <= Half - MaxDelay /\ d = Mod(c + l)
  BY <1>2, <1>3 DEF c
<1>7. Mod(c - n) = IF c >= n THEN c - n ELSE c - n + Wrap
  BY <1>3, <1>5, Elapsed
<1>8. Mod(n - d) = IF n >= d THEN n - d ELSE n - d + Wrap
  BY <1>2, <1>3, Elapsed
<1>9. Mod(c + l) = IF c + l < Wrap THEN c + l ELSE c + l - Wrap
  BY <1>2, <1>5, Ahead
<1> QED BY <1>2, <1>3, <1>4, <1>5, <1>6, <1>7, <1>8, <1>9, Widths

\* An action that is sent is due.
LEMMA SentInTime ==
  ASSUME IInv, [Next]_vars, NEW s \in Slots,
         stage.at = "pass", stage' = [stage EXCEPT !.at = "sending", !.slot = s]
  PROVE  slots[s].left = 0
<1>1. stage'.at = "sending" /\ stage'.slot = s /\ stage' # stage
  BY DEF IInv, StageInv
<1>2. CASE ExecuteAction
  <2> DEFINE k == Min(DueSlots)
  <2>1. k \in DueSlots
    BY <1>2, NextDue DEF ExecuteAction
  <2>2. \/ stage' = [stage EXCEPT !.at = "pass", !.slot = k + 1]
        \/ stage' = [stage EXCEPT !.at = "sending", !.slot = k]
    BY <1>2 DEF ExecuteAction, ExecuteLocal, Advance
  <2> HIDE DEF k
  <2>3. s = k
    BY <1>1, <2>2 DEF IInv, StageInv
  <2> QED BY <2>1, <2>3, DueIsOver DEF IInv
<1>3. CASE \/ \E p \in Payloads : ServerMessage(p) \/ PassiveFrame(p) \/ EvaluateChannelRules(p)
           \/ ProcessRuleExecution \/ SendReturns \/ PassEnds
           \/ SendReply \/ ReplySent \/ ReplyNotSent \/ Tick \/ LocalTime \/ UNCHANGED vars
  <2>1. stage' = stage \/ stage.at # "pass" \/ stage' = InLoop
    BY <1>3 DEF ServerMessage, PassiveFrame, EvaluateChannelRules, ProcessRuleExecution,
       SendReturns, PassEnds, SendReply, ReplySent, ReplyNotSent, Tick, LocalTime, vars
  <2> QED BY <1>1, <2>1 DEF InLoop
<1>4. ASSUME NEW r \in Rules, StageEnquiryReply(r) PROVE FALSE
  BY <1>4 DEF StageEnquiryReply, Command, CanHear
<1>5. ASSUME NEW mask \in SUBSET Rules, NEW operation \in Operations,
             \/ ApplyRuleStatus(mask, operation)
             \/ \E failed, unsaved : RefuseRuleStatus(mask, operation, failed, unsaved)
             \/ \E next : InterruptRuleStatus(mask, operation, next)
      PROVE  FALSE
  BY <1>5 DEF ApplyRuleStatus, RefuseRuleStatus, InterruptRuleStatus, Command, CanHear
<1>6. ASSUME NEW r \in Rules, NEW frame \in CommandFrames, NEW index \in FrameSlots,
             NEW enable \in BOOLEAN, ConfigureRule(r, index, frame, enable)
      PROVE  FALSE
  BY <1>6 DEF ConfigureRule, Command, CanHear
<1>7. ~Restart
  BY <1>1 DEF Restart, Booted, InLoop
<1> QED BY <1>2, <1>3, <1>4, <1>5, <1>6, <1>7, NextCases, Zenon

\* How a slot may be emptied.
LEMMA EmptiedBy ==
  ASSUME IInv, [Next]_vars, NEW s \in Slots, Pending(s), slots'[s] = Idle
  PROVE  \/ ExecuteAction /\ slots[s].left = 0
         \/ SendReturns /\ s = stage.slot
         \/ ~rules'[RuleOf(s)].enabled
         \/ Trigger \/ ProcessRuleExecution
         \/ counts'.restarts # counts.restarts
         \/ rules' = rules /\ counts'.commands # counts.commands
<1>1. slots'[s] # slots[s] /\ RuleOf(s) \in Rules
  BY SlotRule DEF Pending
<1>2. CASE ExecuteAction
  <2> DEFINE k == Min(DueSlots)
  <2>1. k \in DueSlots /\ stage.at = "pass"
    BY <1>2, NextDue DEF ExecuteAction
  <2>2. slots' = slots \/ slots' = [slots EXCEPT ![k] = Idle]
    BY <1>2 DEF ExecuteAction, ExecuteLocal
  <2> HIDE DEF k
  <2>3. s = k
    BY <1>1, <2>2 DEF IInv, SlotInv
  <2> QED BY <1>2, <2>1, <2>3, DueIsOver DEF IInv
<1>3. CASE SendReturns
  BY <1>1, <1>3 DEF SendReturns, IInv, SlotInv
<1>4. CASE \/ PassEnds \/ SendReply \/ ReplySent \/ ReplyNotSent \/ LocalTime \/ UNCHANGED vars
           \/ \E r \in Rules : StageEnquiryReply(r)
  <2>1. slots' = slots
    BY <1>4 DEF PassEnds, SendReply, ReplySent, ReplyNotSent, LocalTime, StageEnquiryReply, vars
  <2> QED BY <1>1, <2>1
<1>5. CASE Tick
  <2>1. slots'[s] = IF slots[s].left = 0 THEN slots[s] ELSE [slots[s] EXCEPT !.left = slots[s].left - 1]
    BY <1>5 DEF Tick
  <2>2. slots[s] \in SlotState /\ slots[s].action # "none"
    BY DEF IInv, SlotInv, Filled
  <2>3. slots'[s].action = slots[s].action
    BY <2>1, <2>2 DEF SlotState
  <2> QED BY <2>2, <2>3 DEF Idle
<1>6. ASSUME NEW mask \in SUBSET Rules, NEW operation \in Operations, ApplyRuleStatus(mask, operation)
      PROVE  ~rules'[RuleOf(s)].enabled
  <2>1. /\ rules' = With(rules, mask, operation)
        /\ slots' = IF operation = "enable" THEN slots ELSE Cancelled(mask)
    BY <1>6 DEF ApplyRuleStatus, CancelUnlessEnabled
  <2>2. operation # "enable" /\ RuleOf(s) \in mask
    BY <1>1, <2>1 DEF Cancelled
  <2>3. rules'[RuleOf(s)] = Changed(rules[RuleOf(s)], operation)
    BY <1>1, <2>1, <2>2 DEF With
  <2>4. Changed(rules[RuleOf(s)], operation).enabled = (operation = "enable")
    BY <1>1, ChangedType DEF IInv, TableInv
  <2> QED BY <2>2, <2>3, <2>4
<1>7. ASSUME NEW mask \in SUBSET Rules, NEW operation \in Operations, NEW failed, NEW unsaved,
             RefuseRuleStatus(mask, operation, failed, unsaved)
      PROVE  rules' = rules /\ counts'.commands # counts.commands
  <2>1. rules' = rules /\ counts' = [counts EXCEPT !.commands = counts.commands + 1]
    BY <1>7 DEF RefuseRuleStatus, Command
  <2>2. counts'.commands = counts.commands + 1 /\ counts.commands \in Nat
    BY <2>1 DEF IInv, OtherInv
  <2> QED BY <2>1, <2>2
<1>8. ASSUME NEW r \in Rules, NEW frame, NEW index, NEW enable \in BOOLEAN,
             ConfigureRule(r, index, frame, enable)
      PROVE  ~rules'[RuleOf(s)].enabled
  <2>1. /\ rules' = [rules EXCEPT ![r] = [enabled |-> enable,
                                          frames |-> [rules[r].frames EXCEPT ![index] = frame]]]
        /\ slots' = IF enable THEN slots ELSE Cancelled({r})
    BY <1>8 DEF ConfigureRule
  <2>2. ~enable /\ RuleOf(s) = r
    BY <1>1, <2>1 DEF Cancelled
  <2>3. rules'[r].enabled = enable
    BY <2>1 DEF IInv, TableInv
  <2> QED BY <2>2, <2>3
<1>9. ASSUME NEW table, Booted(table) PROVE counts'.restarts # counts.restarts
  <2>1. counts' = [counts EXCEPT !.restarts = counts.restarts + 1]
    BY <1>9 DEF Booted
  <2>2. counts'.restarts = counts.restarts + 1 /\ counts.restarts \in Nat
    BY <2>1 DEF IInv, OtherInv
  <2> QED BY <2>2
<1>10. ASSUME Restart \/ \E mask \in SUBSET Rules, operation \in Operations :
                           \E next : InterruptRuleStatus(mask, operation, next)
       PROVE  counts'.restarts # counts.restarts
  BY <1>9, <1>10 DEF Restart, InterruptRuleStatus
<1> QED
  BY <1>2, <1>3, <1>4, <1>5, <1>6, <1>7, <1>8, <1>10, NextCases, Zenon DEF Trigger

\* No action is executed early, although due times are compared as signed
\* 32-bit differences against the time the pass began; and an action that
\* waits vanishes only for a reason (executeDueRuleActions,
\* cancelScheduledRuleActions, scheduleRuleActions).
THEOREM InTime == Spec => ActionsRunInTime
<1> DEFINE Step == \A s \in Slots :
       /\ (stage.at = "pass" /\ stage' = [stage EXCEPT !.at = "sending", !.slot = s])
            => slots[s].left = 0
       /\ (Pending(s) /\ slots'[s] = Idle) =>
            \/ ExecuteAction /\ slots[s].left = 0
            \/ SendReturns /\ s = stage.slot
            \/ ~rules'[RuleOf(s)].enabled
            \/ Trigger \/ ProcessRuleExecution
            \/ counts'.restarts # counts.restarts
            \/ rules' = rules /\ counts'.commands # counts.commands
<1>1. IInv /\ [Next]_vars => Step
  BY SentInTime, EmptiedBy, Zenon
<1>2. IInv /\ [Next]_vars => [Step]_vars
  BY <1>1
<1>3. ActionsRunInTime <=> [][Step]_vars
  BY PTL DEF ActionsRunInTime
<1> HIDE DEF Step
<1> QED BY <1>2, <1>3, Inductive, PTL DEF Spec
=============================================================================
