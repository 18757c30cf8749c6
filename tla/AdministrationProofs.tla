------------------------- MODULE AdministrationProofs -------------------------
(***************************************************************************)
(* Proofs about what an administrator relies on: HistoryStore for every    *)
(* modulus of the generation and every set of rings (the invariant of the  *)
(* two keys and the refinement of DurableRing), WebAccess for every set of *)
(* browsers and all deadlines that are short for the clock, and            *)
(* Configuration for all sets of values of the settings, whatever writes   *)
(* fail or are cut off.                                                    *)
(***************************************************************************)
EXTENDS HistoryStore, Configuration, WebAccess, TLAPS

-----------------------------------------------------------------------------
(* The stored history.                                                     *)

StoreIInv == TypeOK /\ Usable

-----------------------------------------------------------------------------
(* Arithmetic of the generation.                                           *)

LEMMA FollowingIs ==
  ASSUME NEW g \in Generations
  PROVE  /\ Following(g) = IF g + 1 = Wrap THEN 0 ELSE g + 1
         /\ Following(g) \in Generations
<1>1. Half \in Nat /\ Wrap \in Nat /\ Wrap >= 4 /\ g \in Nat /\ g < Wrap
  BY StoreAssumption DEF Generations, Wrap
<1>2. CASE g + 1 = Wrap
  BY <1>1, <1>2 DEF Following, Generations
<1>3. CASE g + 1 # Wrap
  BY <1>1, <1>3 DEF Following, Generations
<1>4. QED BY <1>2, <1>3

LEMMA KeyOfType == \A g \in Generations : KeyOf(g) \in Keys
  BY StoreAssumption DEF KeyOf, Keys, Generations, Wrap

\* Two successive generations go to different keys, at the wrap too.
LEMMA OtherTarget ==
  ASSUME NEW g \in Generations
  PROVE  KeyOf(Following(g)) = 1 - KeyOf(g)
  BY FollowingIs, StoreAssumption DEF KeyOf, Generations, Wrap

\* A generation is newer than the one before it, and not the other way round.
LEMMA FollowingIsNewer ==
  ASSUME NEW g \in Generations
  PROVE  Newer(Following(g), g) /\ ~Newer(g, Following(g))
<1>1. Half \in Nat /\ Half >= 2 /\ Wrap \in Nat /\ Wrap = Half + Half /\ g \in Nat /\ g < Wrap
  BY StoreAssumption DEF Generations, Wrap
<1>2. CASE g + 1 = Wrap
  <2>1. Following(g) = 0
    BY <1>2, FollowingIs
  <2>2. (0 - g) % Wrap = 1 /\ (g - 0) % Wrap = Wrap - 1
    BY <1>1, <1>2
  <2>3. QED BY <1>1, <2>1, <2>2 DEF Newer
<1>3. CASE g + 1 # Wrap
  <2>1. Following(g) = g + 1
    BY <1>3, FollowingIs
  <2>2. (g + 1) - g = 1 /\ g - (g + 1) = -1
    BY <1>1
  <2>3. 1 % Wrap = 1 /\ (-1) % Wrap = Wrap - 1
    BY <1>1
  <2>4. QED BY <1>1, <2>1, <2>2, <2>3 DEF Newer
<1>4. QED BY <1>2, <1>3

-----------------------------------------------------------------------------
(* Writing and loading.                                                    *)

k == KeyOf(generation)

\* What holds of the keys of the next state when no save has succeeded: the
\* key in force is as it was, and the other one fits the generation.
Kept ==
  /\ slots' \in [Keys -> Images \cup {Absent, Torn}]
  /\ slots'[k] = slots[k]
  /\ LET other == slots'[1 - k]
     IN  \/ other \in {Absent, Torn}
         \/ /\ other \in Images
            /\ other.generation = Following(generation)
            /\ other.ring \in attempts
         \/ /\ other \in Images
            /\ InForce
            /\ Following(other.generation) = generation
  /\ Fresh /\ slots'[1] = Torn => attempts # {}

LEMMA KeysOf ==
  ASSUME TypeOK
  PROVE  k \in Keys /\ 1 - k \in Keys /\ 1 - k # k /\ Target = 1 - k /\ Keys = {k, 1 - k}
<1>1. generation \in Generations
  BY DEF TypeOK
<1>2. k \in Keys /\ Target = 1 - k
  BY <1>1, KeyOfType, OtherTarget DEF k, Target
<1>3. QED BY <1>2 DEF Keys

LEMMA ImageType ==
  ASSUME TypeOK, NEW r \in Rings
  PROVE  /\ Image(r) \in Images
         /\ Image(r).generation = Following(generation)
         /\ Image(r).ring = r
<1>1. Following(generation) \in Generations
  BY FollowingIs DEF TypeOK
<1>2. QED BY <1>1 DEF Image, Images

LEMMA WriteKeeps ==
  ASSUME StoreIInv, running,
         \/ slots' = slots
         \/ /\ saving # Nothing
            /\ \E remains \in Remains(saving) : slots' = [slots EXCEPT ![Target] = remains]
  PROVE  Kept
<1>1. /\ k \in Keys /\ 1 - k \in Keys /\ 1 - k # k /\ Target = 1 - k
      /\ slots \in [Keys -> Images \cup {Absent, Torn}]
  BY KeysOf DEF StoreIInv, TypeOK
<1>2. CASE slots' = slots
  BY <1>1, <1>2 DEF StoreIInv, Usable, OtherKey, Kept, Fresh, k
<1>3. CASE /\ saving # Nothing
           /\ \E remains \in Remains(saving) : slots' = [slots EXCEPT ![Target] = remains]
  <2>1. saving \in Rings /\ saving \in attempts /\ attempts # {}
    BY <1>3 DEF StoreIInv, TypeOK, Usable
  <2>2. PICK remains \in Remains(saving) : slots' = [slots EXCEPT ![Target] = remains]
    BY <1>3
  <2>3. /\ Image(saving) \in Images
        /\ Image(saving).generation = Following(generation)
        /\ Image(saving).ring = saving
    BY <2>1, ImageType DEF StoreIInv
  <2>4. remains \in {slots[1 - k], Torn, Image(saving)}
    BY <1>1, <2>2 DEF Remains
  <2>5. /\ slots' \in [Keys -> Images \cup {Absent, Torn}]
        /\ slots'[k] = slots[k]
        /\ slots'[1 - k] = remains
    BY <1>1, <2>2, <2>3, <2>4
  <2>6. CASE remains = slots[1 - k]
    BY <1>1, <2>1, <2>5, <2>6 DEF StoreIInv, Usable, OtherKey, Kept, k
  <2>7. CASE remains = Torn
    BY <2>1, <2>5, <2>7 DEF Kept
  <2>8. CASE remains = Image(saving)
    BY <2>1, <2>3, <2>5, <2>8 DEF Kept
  <2>9. QED BY <2>4, <2>6, <2>7, <2>8
<1>4. QED BY <1>2, <1>3

\* What a restart of a running gateway does, from the keys that were kept.
LEMMA LoadResult ==
  ASSUME StoreIInv, running, Kept, Load
  PROVE  /\ slots' \in [Keys -> Images \cup {Absent, Torn}]
         /\ generation' \in Generations
         /\ \/ /\ running' = TRUE
               /\ attempts' = {}
               /\ ring' \in {ring} \cup attempts
               /\ (InForce \/ Fresh)'
               /\ OtherKey'
            \/ /\ running' = FALSE
               /\ ring = Empty /\ ring' = Empty
               /\ attempts # {} /\ attempts' = attempts
               /\ \A key \in Keys : slots'[key] \notin Images
               /\ \E key \in Keys : slots'[key] # Absent
<1>1. /\ k \in Keys /\ 1 - k \in Keys /\ 1 - k # k /\ Keys = {k, 1 - k}
      /\ generation \in Generations /\ ring \in Rings
      /\ slots' \in [Keys -> Images \cup {Absent, Torn}]
      /\ 1 - (1 - k) = k
  BY KeysOf DEF StoreIInv, TypeOK, Kept, Keys
<1>2. Absent \notin Images /\ Torn \notin Images /\ Absent # Torn
  BY StoreAssumption
<1> DEFINE other == slots'[1 - k]
<1>3. CASE InForce
  <2>1. /\ slots'[k] = [generation |-> generation, ring |-> ring]
        /\ slots'[k] \in Images
        /\ slots'[k].generation = generation /\ slots'[k].ring = ring
        /\ slots'[k] # Absent
    BY <1>1, <1>2, <1>3 DEF InForce, Kept, k, Images
  <2>2. CASE other \in {Absent, Torn}
    <3>1. /\ generation' = generation /\ ring' = ring
          /\ attempts' = {} /\ running' = TRUE
      BY <1>1, <1>2, <2>1, <2>2 DEF Load, Chosen, Valid
    <3>2. InForce' /\ OtherKey'
      BY <1>1, <2>1, <2>2, <3>1 DEF InForce, OtherKey, k
    <3>3. QED BY <1>1, <3>1, <3>2
  <2>3. CASE /\ other \in Images
             /\ other.generation = Following(generation)
             /\ other.ring \in attempts
    <3>1. Newer(Following(generation), generation) /\ ~Newer(generation, Following(generation))
      BY <1>1, FollowingIsNewer
    <3>2. ~Chosen(k)
      BY <1>1, <2>1, <2>3, <3>1 DEF Chosen, Valid, Keys
    <3>3. /\ generation' = Following(generation) /\ ring' = other.ring
          /\ attempts' = {} /\ running' = TRUE
      BY <1>1, <2>1, <2>3, <3>2 DEF Load, Valid
    <3>4. KeyOf(generation') = 1 - k /\ generation' \in Generations
      BY <1>1, <3>3, OtherTarget, FollowingIs DEF k
    <3>5. InForce'
      BY <1>1, <2>3, <3>3, <3>4 DEF InForce, Images
    <3>6. OtherKey'
      BY <1>1, <2>1, <3>3, <3>4, <3>5 DEF OtherKey
    <3>7. QED BY <1>1, <2>3, <3>3, <3>4, <3>5, <3>6
  <2>4. CASE other \in Images /\ Following(other.generation) = generation
    <3>1. other.generation \in Generations
      BY <2>4 DEF Images
    <3>2. Newer(generation, other.generation) /\ ~Newer(other.generation, generation)
      BY <2>4, <3>1, FollowingIsNewer
    <3>3. ~Chosen(1 - k)
      BY <1>1, <2>1, <2>4, <3>2 DEF Chosen, Valid, Keys
    <3>4. /\ generation' = generation /\ ring' = ring
          /\ attempts' = {} /\ running' = TRUE
      BY <1>1, <2>1, <2>4, <3>3 DEF Load, Valid
    <3>5. InForce' /\ OtherKey'
      BY <1>1, <2>1, <2>4, <3>4 DEF InForce, OtherKey, k
    <3>6. QED BY <1>1, <3>4, <3>5
  <2>5. QED BY <2>2, <2>3, <2>4 DEF Kept
<1>4. CASE Fresh /\ ~InForce
  <2>1. generation = 0 /\ ring = Empty /\ k = 0 /\ 1 - k = 1 /\ slots'[0] = Absent
    BY <1>4 DEF Fresh, Kept, k, KeyOf
  <2>2. CASE other \in {Absent, Torn}
    <3>1. \A key \in Keys : slots'[key] \notin Images
      BY <1>1, <1>2, <2>1, <2>2
    <3>2. /\ ring' = Empty /\ generation' = 0
          /\ running' = (\A key \in Keys : slots'[key] = Absent)
          /\ attempts' = IF running' THEN {} ELSE attempts
      BY <3>1 DEF Load, Chosen, Valid
    <3>3. CASE other = Absent
      <4>1. running' = TRUE /\ attempts' = {}
        BY <1>1, <2>1, <3>2, <3>3
      <4>2. slots'[1] = Absent /\ KeyOf(0) = 0
        BY <2>1, <3>3 DEF KeyOf
      <4>3. Fresh' /\ OtherKey'
        BY <1>2, <2>1, <3>2, <4>1, <4>2 DEF Fresh, OtherKey
      <4>4. QED BY <1>1, <2>1, <3>2, <4>1, <4>3
    <3>4. CASE other = Torn
      <4>1. running' = FALSE
        BY <1>1, <1>2, <3>2, <3>4
      <4>2. attempts # {} /\ \E key \in Keys : slots'[key] # Absent
        BY <1>1, <1>2, <1>4, <2>1, <3>4 DEF Kept
      <4>3. generation' \in Generations
        BY <1>1, <2>1, <3>2
      <4>4. QED BY <1>1, <2>1, <3>1, <3>2, <4>1, <4>2, <4>3
    <3>5. QED BY <2>2, <3>3, <3>4
  <2>3. CASE /\ other \in Images
             /\ other.generation = Following(generation)
             /\ other.ring \in attempts
    <3>1. /\ generation' = Following(generation) /\ ring' = other.ring
          /\ attempts' = {} /\ running' = TRUE
      BY <1>1, <1>2, <2>1, <2>3 DEF Load, Chosen, Valid
    <3>2. KeyOf(generation') = 1 - k /\ generation' \in Generations
      BY <1>1, <3>1, OtherTarget, FollowingIs DEF k
    <3>3. InForce'
      BY <1>1, <2>3, <3>1, <3>2 DEF InForce, Images
    <3>4. OtherKey'
      BY <1>1, <2>1, <3>2 DEF OtherKey
    <3>5. QED BY <1>1, <2>3, <3>1, <3>2, <3>3, <3>4
  <2>4. QED BY <1>4, <2>2, <2>3 DEF Kept
<1>5. QED BY <1>3, <1>4 DEF StoreIInv, Usable

-----------------------------------------------------------------------------
(* The invariant.                                                          *)

LEMMA Initially == Init => StoreIInv
<1> SUFFICES ASSUME Init PROVE StoreIInv
  OBVIOUS
<1>1. Empty \in Rings /\ 0 \in Generations /\ Half \in Nat /\ Absent # Torn
  BY StoreAssumption DEF Generations, Wrap
<1>2. TypeOK
  BY <1>1 DEF Init, TypeOK, Keys
<1>3. KeyOf(0) = 0
  BY DEF KeyOf
<1>4. Usable
  BY <1>1, <1>3 DEF Init, Usable, Fresh, OtherKey, Keys
<1>5. QED BY <1>2, <1>4 DEF StoreIInv

\* A restart that loads what was kept; of a refused store nothing changes.
LEMMA LoadKeeps ==
  ASSUME StoreIInv, running, Kept, Load, saving' = Nothing
  PROVE  StoreIInv'
<1>1. ring' \in Rings /\ attempts' \in SUBSET Rings
  BY LoadResult, StoreAssumption DEF StoreIInv, TypeOK
<1>2. TypeOK'
  BY <1>1, LoadResult DEF TypeOK
<1>3. Usable'
  BY LoadResult DEF Usable, Refused
<1>4. QED BY <1>2, <1>3 DEF StoreIInv

LEMMA RefusedStays ==
  ASSUME StoreIInv, ~running, Restart
  PROVE  /\ UNCHANGED <<ring, attempts, running>>
         /\ StoreIInv'
<1>1. /\ slots' = slots /\ saving' = Nothing /\ saving = Nothing
      /\ ring = Empty /\ attempts # {}
      /\ \A key \in Keys : slots[key] \notin Images
      /\ \E key \in Keys : slots[key] # Absent
  BY DEF StoreIInv, Usable, Refused, Restart
<1>2. ring' = Empty /\ generation' = 0 /\ running' = FALSE /\ attempts' = attempts
  BY <1>1 DEF Restart, Load, Chosen, Valid
<1>3. running = FALSE
  BY DEF StoreIInv, TypeOK
<1>4. TypeOK'
  <2>1. 0 \in Generations
    BY StoreAssumption DEF Generations, Wrap
  <2>2. QED BY <1>1, <1>2, <1>3, <2>1 DEF StoreIInv, TypeOK
<1>5. Usable'
  BY <1>1, <1>2 DEF Usable, Refused
<1>6. QED BY <1>1, <1>2, <1>3, <1>4, <1>5 DEF StoreIInv

LEMMA SaveSucceedsKeeps ==
  ASSUME StoreIInv, SaveSucceeds
  PROVE  running = TRUE /\ saving \in attempts /\ StoreIInv'
<1>1. running = TRUE /\ saving \in attempts /\ saving \in Rings
  BY DEF SaveSucceeds, StoreIInv, Usable, Refused, TypeOK
<1>2. /\ k \in Keys /\ 1 - k \in Keys /\ 1 - k # k /\ Target = 1 - k
      /\ 1 - (1 - k) = k
      /\ slots \in [Keys -> Images \cup {Absent, Torn}]
      /\ generation \in Generations
  BY KeysOf DEF StoreIInv, TypeOK, Keys
<1>3. /\ generation' = Following(generation) /\ generation' \in Generations
      /\ KeyOf(generation') = 1 - k
      /\ ring' = saving /\ saving' = Nothing /\ attempts' = {} /\ running' = TRUE
  BY <1>1, <1>2, FollowingIs, OtherTarget DEF SaveSucceeds, k
<1>4. /\ Image(saving) \in Images
      /\ Image(saving) = [generation |-> generation', ring |-> ring']
  BY <1>1, <1>3, ImageType DEF StoreIInv, Image
<1>5. /\ slots' \in [Keys -> Images \cup {Absent, Torn}]
      /\ slots'[1 - k] = Image(saving)
      /\ slots'[k] = slots[k]
  BY <1>2, <1>4 DEF SaveSucceeds
<1>6. TypeOK'
  BY <1>1, <1>3, <1>5 DEF TypeOK
<1>7. InForce'
  BY <1>3, <1>4, <1>5 DEF InForce
<1>8. OtherKey'
  <2>1. slots'[1 - KeyOf(generation')] = slots[k]
    BY <1>2, <1>3, <1>5
  <2>2. CASE InForce
    <3>1. /\ slots[k] = [generation |-> generation, ring |-> ring]
          /\ slots[k] \in Images /\ slots[k].generation = generation
      BY <1>2, <2>2 DEF InForce, k, Images, StoreIInv, TypeOK
    <3>2. QED BY <1>3, <1>7, <2>1, <3>1 DEF OtherKey
  <2>3. CASE Fresh
    <3>1. slots[k] = Absent
      BY <2>3 DEF Fresh, k, KeyOf
    <3>2. QED BY <2>1, <3>1 DEF OtherKey
  <2>4. QED BY <1>1, <2>2, <2>3 DEF StoreIInv, Usable
<1>9. QED BY <1>1, <1>3, <1>6, <1>7, <1>8 DEF StoreIInv, Usable

LEMMA FactoryResetKeeps ==
  ASSUME StoreIInv, FactoryReset
  PROVE  running = TRUE /\ ring' = Empty /\ attempts' = {} /\ running' = TRUE /\ StoreIInv'
<1>1. Absent \notin Images /\ Absent # Torn /\ Empty \in Rings /\ 0 \in Generations
  BY StoreAssumption DEF Generations, Wrap
<1>2. slots' = [key \in Keys |-> Absent] /\ saving' = Nothing /\ running = TRUE
  BY DEF FactoryReset, StoreIInv, TypeOK
<1>3. ring' = Empty /\ generation' = 0 /\ running' = TRUE /\ attempts' = {}
  BY <1>1, <1>2 DEF FactoryReset, Load, Chosen, Valid
<1>4. slots'[0] = Absent /\ slots'[1] = Absent /\ KeyOf(0) = 0
  BY <1>2 DEF Keys, KeyOf
<1>5. TypeOK'
  BY <1>1, <1>2, <1>3 DEF TypeOK
<1>6. Fresh' /\ OtherKey'
  BY <1>1, <1>3, <1>4 DEF Fresh, OtherKey
<1>7. QED BY <1>2, <1>3, <1>5, <1>6 DEF StoreIInv, Usable

LEMMA SaveFailsKeeps ==
  ASSUME StoreIInv, SaveFails
  PROVE  StoreIInv'
<1>1. running /\ saving # Nothing /\ saving' = Nothing
  BY DEF SaveFails, StoreIInv, Usable, Refused
<1>2. UNCHANGED <<generation, ring, running, attempts>>
  BY DEF SaveFails
<1>3. Kept
  BY <1>1, WriteKeeps DEF SaveFails
<1>4. TypeOK'
  BY <1>1, <1>2, <1>3 DEF StoreIInv, TypeOK, Kept
<1>5. (InForce \/ Fresh)'
  <2>1. InForce => InForce'
    BY <1>2, <1>3 DEF InForce, Kept, k
  <2>2. KeyOf(0) = 0
    BY DEF KeyOf
  <2>3. Fresh => Fresh'
    BY <1>2, <1>3, <2>2 DEF Fresh, Kept, k
  <2>4. QED BY <1>1, <2>1, <2>3 DEF StoreIInv, Usable
<1>6. OtherKey'
  <2>1. InForce => InForce'
    BY <1>2, <1>3 DEF InForce, Kept, k
  <2>2. QED BY <1>2, <1>3, <2>1 DEF OtherKey, Kept, k
<1>7. saving' = Nothing /\ running'
  BY <1>1, <1>2
<1>8. QED BY <1>4, <1>5, <1>6, <1>7 DEF StoreIInv, Usable

LEMMA NextKeeps == StoreIInv /\ [Next]_vars => StoreIInv'
<1> SUFFICES ASSUME StoreIInv, [Next]_vars PROVE StoreIInv'
  OBVIOUS
<1>1. ASSUME NEW r \in Rings, BeginSave(r) PROVE StoreIInv'
  BY <1>1 DEF BeginSave, StoreIInv, TypeOK, Usable, InForce, Fresh, OtherKey
<1>2. CASE SaveSucceeds
  BY <1>2, SaveSucceedsKeeps
<1>3. CASE SaveFails
  BY <1>3, SaveFailsKeeps
<1>4. CASE Restart
  <2>1. CASE running
    BY <1>4, <2>1, WriteKeeps, LoadKeeps DEF Restart
  <2>2. CASE ~running
    BY <1>4, <2>2, RefusedStays
  <2>3. QED BY <2>1, <2>2
<1>5. CASE FactoryReset
  BY <1>5, FactoryResetKeeps
<1>6. CASE UNCHANGED vars
  BY <1>6 DEF vars, StoreIInv, TypeOK, Usable, Refused, InForce, Fresh, OtherKey
<1>7. QED BY <1>1, <1>2, <1>3, <1>4, <1>5, <1>6 DEF Next

\* The variables keep their types (state of PersistentHistoryStore).
THEOREM TypeCorrect == Spec => []TypeOK
<1>1. StoreIInv => TypeOK
  BY DEF StoreIInv
<1>2. QED BY Initially, NextKeeps, <1>1, PTL DEF Spec

\* The two keys always tell what a restart has to know: the image in force is
\* the ring saved last, whatever writes were cut off and wherever the
\* generation stands (PersistentHistoryStore::load and save).
THEOREM AlwaysUsable == Spec => []Usable
<1>1. StoreIInv => Usable
  BY DEF StoreIInv
<1>2. QED BY Initially, NextKeeps, <1>1, PTL DEF Spec

-----------------------------------------------------------------------------
(* The refinement.                                                         *)

LEMMA StepsMap == StoreIInv /\ [Next]_vars => [D!Next]_(D!vars)
<1> SUFFICES ASSUME StoreIInv, [Next]_vars PROVE [D!Next]_(D!vars)
  OBVIOUS
<1>1. ASSUME NEW r \in Rings, BeginSave(r) PROVE D!Next
  BY <1>1 DEF BeginSave, D!Next, D!Attempt
<1>2. CASE SaveSucceeds
  <2>1. D!Acknowledge(saving) /\ saving \in Rings
    BY <1>2, SaveSucceedsKeeps DEF SaveSucceeds, D!Acknowledge, StoreIInv, TypeOK
  <2>2. QED BY <2>1 DEF D!Next
<1>3. CASE SaveFails
  BY <1>3 DEF SaveFails, D!vars
<1>4. CASE Restart
  <2>1. CASE running
    <3>1. Kept /\ Load
      BY <1>4, <2>1, WriteKeeps DEF Restart
    <3>2. CASE running' = TRUE /\ attempts' = {} /\ ring' \in {ring} \cup attempts
      <4>1. D!Restart(ring') /\ ring' \in Rings
        BY <2>1, <3>2 DEF D!Restart, StoreIInv, TypeOK
      <4>2. QED BY <4>1 DEF D!Next
    <3>3. CASE /\ running' = FALSE /\ ring = Empty /\ ring' = Empty
               /\ attempts # {} /\ attempts' = attempts
      BY <3>3 DEF D!Next, D!Refuse
    <3>4. QED BY <2>1, <3>1, <3>2, <3>3, LoadResult
  <2>2. CASE ~running
    BY <1>4, <2>2, RefusedStays DEF D!vars
  <2>3. QED BY <2>1, <2>2
<1>5. CASE FactoryReset
  BY <1>5, FactoryResetKeeps DEF D!Next, D!Forget
<1>6. CASE UNCHANGED vars
  BY <1>6 DEF vars, D!vars
<1>7. QED BY <1>1, <1>2, <1>3, <1>4, <1>5, <1>6 DEF Next

\* A restart brings back the ring saved last, or one whose save was tried
\* since, whole (PersistentHistoryStore).
THEOREM Durable == Spec => ImplementsDurableRing
<1>1. Init => D!Init
  BY DEF Init, D!Init
<1>2. QED BY <1>1, Initially, NextKeeps, StepsMap, PTL DEF Spec, D!Spec, ImplementsDurableRing

-----------------------------------------------------------------------------
(* The access to the Web UI.                                               *)

\* The time d before t on the clock, for d less than a turn.
Before(t, d) == IF t >= d THEN t - d ELSE t - d + Turn

\* The session's times are as long ago as the history variables say, and at its
\* last request it was not too old.
SessionTimes ==
  /\ now \in Time /\ age \in 0 .. Horizon /\ idle \in 0 .. Horizon
  /\ session # Nobody =>
       /\ age < Turn => created = Before(now, age)
       /\ ~forgotten =>
            idle < Turn /\ lastActivity = Before(now, idle) /\ age - idle <= MaxLifetime

\* The lock in force was set by the last of the lockouts, lockAge ago.
LockTimes ==
  /\ now \in Time /\ lockAge \in 0 .. Horizon /\ lockUntil \in Time
  /\ batches \in 0 .. MaxTier + 1 /\ tier = Lesser(batches, MaxTier)
  /\ batches > 0 =>
       LET length == LockLength(batches - 1)
       IN  lockAge < length + HalfTurn =>
             lockUntil = IF lockAge <= length THEN Later(now, length - lockAge)
                         ELSE Before(now, lockAge - length)

-----------------------------------------------------------------------------
(* Arithmetic of the clock.                                                *)

LEMMA Reduced ==
  ASSUME NEW W \in Nat \ {0}, NEW n \in Int
  PROVE  /\ n >= 0 /\ n < W => n % W = n
         /\ n >= W /\ n < 2 * W => n % W = n - W
         /\ n < 0 /\ n >= -W => n % W = n + W
<1>1. /\ n = W * (n \div W) + (n % W)
      /\ (n \div W) \in Int /\ (n % W) \in 0 .. W - 1
  BY Z3
<1> DEFINE q == n \div W
           r == n % W
<1>2. n = W * q + r /\ q \in Int /\ r \in 0 .. W - 1
  BY <1>1
<1> HIDE DEF q, r
<1>3. CASE n >= 0 /\ n < W
  <2>1. q = 0
    BY <1>2, <1>3, Z3
  <2> QED BY <1>2, <1>3, <2>1 DEF r
<1>4. CASE n >= W /\ n < 2 * W
  <2>1. q = 1
    BY <1>2, <1>4, Z3
  <2> QED BY <1>2, <1>4, <2>1 DEF r
<1>5. CASE n < 0 /\ n >= -W
  <2>1. q = -1
    BY <1>2, <1>5, Z3
  <2> QED BY <1>2, <1>5, <2>1 DEF r
<1> QED BY <1>3, <1>4, <1>5

LEMMA ClockFacts ==
         /\ Turn \in Nat \ {0} /\ HalfTurn \in Nat /\ HalfTurn >= 1 /\ Turn = 2 * HalfTurn
         /\ \A t \in Time, d \in 0 .. Turn - 1 :
              /\ Before(t, d) \in Time
              /\ (t - Before(t, d)) % Turn = d
              /\ Later(t, d) = (IF t + d < Turn THEN t + d ELSE t + d - Turn)
              /\ Later(t, d) \in Time
<1>1. Turn \in Nat \ {0} /\ HalfTurn \in Nat /\ HalfTurn >= 1 /\ Turn = 2 * HalfTurn
  BY DeadlineAssumption DEF Turn
<1> HIDE DEF Turn
<1>2. ASSUME NEW t \in Time, NEW d \in 0 .. Turn - 1
      PROVE  /\ Before(t, d) \in Time
             /\ (t - Before(t, d)) % Turn = d
             /\ Later(t, d) = (IF t + d < Turn THEN t + d ELSE t + d - Turn)
             /\ Later(t, d) \in Time
  <2>1. t \in 0 .. Turn - 1 /\ t \in Int /\ d \in Int
    BY <1>1 DEF Time
  <2>2. Before(t, d) \in Time /\ Before(t, d) \in Int
    BY <1>1, <2>1 DEF Before, Time
  <2>3. /\ t - Before(t, d) \in Int
        /\ t - Before(t, d) = d \/ (t - Before(t, d) = d - Turn /\ d > t)
    BY <1>1, <2>1, <2>2 DEF Before
  <2>4. (t - Before(t, d)) % Turn = d
    <3>1. CASE t - Before(t, d) = d
      <4>1. d \in Int /\ d >= 0 /\ d < Turn
        BY <1>1, <2>1
      <4>2. d % Turn = d
        BY <1>1, <4>1, Reduced
      <4> QED BY <3>1, <4>2
    <3>2. CASE t - Before(t, d) = d - Turn /\ d > t
      <4>1. d - Turn < 0 /\ d - Turn >= -Turn /\ d - Turn \in Int /\ d - Turn + Turn = d
        BY <1>1, <2>1
      <4>2. (d - Turn) % Turn = d - Turn + Turn
        BY <1>1, <4>1, Reduced
      <4> QED BY <3>2, <4>1, <4>2
    <3> QED BY <2>3, <3>1, <3>2
  <2>5. Later(t, d) = (IF t + d < Turn THEN t + d ELSE t + d - Turn)
    <3> DEFINE n == t + d
    <3>1. n \in Int /\ n >= 0 /\ n < 2 * Turn /\ n = t + d
      BY <1>1, <2>1
    <3> DEFINE r == n % Turn
    <3>2. Later(t, d) = r
      BY DEF Later
    <3> HIDE DEF n
    <3>3. n >= 0 /\ n < Turn => r = n
      BY <1>1, <3>1, Reduced
    <3>4. n >= Turn /\ n < 2 * Turn => r = n - Turn
      BY <1>1, <3>1, Reduced
    <3> HIDE DEF r
    <3>5. r = (IF n < Turn THEN n ELSE n - Turn)
      BY <1>1, <3>1, <3>3, <3>4
    <3> QED BY <1>1, <2>1, <3>1, <3>2, <3>5
  <2>6. Later(t, d) \in Time
    BY <1>1, <2>1, <2>5 DEF Time
  <2> QED BY <2>2, <2>4, <2>5, <2>6
<1> QED BY <1>1, <1>2

-----------------------------------------------------------------------------
(* What the invariants say of a request.                                   *)

LEMMA AcceptedInTime ==
  ASSUME SessionTimes, NEW b \in Browsers, Accepts(b), ~forgotten
  PROVE  session # Nobody /\ age <= MaxLifetime /\ idle <= IdleTimeout
<1>1. session # Nobody
  BY DeadlineAssumption DEF Accepts
<1>2. /\ (now - created) % Turn \in Nat => (now - created) % Turn <= MaxLifetime
      /\ (now - lastActivity) % Turn \in Nat => (now - lastActivity) % Turn <= IdleTimeout
  BY DeadlineAssumption DEF Accepts, Expired
<1>3. /\ now \in Time /\ age \in Nat /\ idle \in Nat /\ MaxLifetime \in Nat /\ IdleTimeout \in Nat
      /\ Turn \in Nat \ {0} /\ MaxLifetime + IdleTimeout < Turn
  BY ClockFacts, DeadlineAssumption DEF SessionTimes
<1>4. /\ age < Turn => created = Before(now, age)
      /\ idle < Turn /\ lastActivity = Before(now, idle) /\ age - idle <= MaxLifetime
  BY <1>1 DEF SessionTimes
<1> HIDE DEF Turn
<1>5. (now - lastActivity) % Turn = idle
  BY <1>3, <1>4, ClockFacts
<1>6. idle <= IdleTimeout
  BY <1>2, <1>3, <1>5
<1>7. age < Turn
  BY <1>3, <1>4, <1>6
<1>8. (now - created) % Turn = age
  BY <1>3, <1>4, <1>7, ClockFacts
<1> QED BY <1>1, <1>2, <1>3, <1>6, <1>8

\* How long a lock lasts, and the exponent the code computes for it.
LEMMA LengthFacts ==
  ASSUME NEW n \in 1 .. MaxTier + 1
  PROVE  /\ LockLength(n - 1) \in Nat /\ LockLength(n - 1) < HalfTurn
         /\ LockLength(n - 1) = Lesser(InitialLock * 2 ^ (n - 1), MaximumLock)
<1>1. MaxTier \in Nat /\ n - 1 \in 0 .. MaxTier
  BY DeadlineAssumption
<1>2. Lesser(n - 1, MaxTier) = n - 1
  BY <1>1 DEF Lesser
<1>3. LockLength(n - 1) \in Nat /\ LockLength(n - 1) < HalfTurn
  BY <1>1, DeadlineAssumption
<1>4. LockLength(n - 1) = Lesser(InitialLock * 2 ^ (n - 1), MaximumLock)
  BY <1>2, Zenon DEF LockLength
<1> QED BY <1>3, <1>4

\* While the lock lasts logins wait for what is left of it; then they are allowed
\* for half a turn.
LEMMA LockInTime ==
  ASSUME LockTimes
  PROVE  LockoutKept
<1> SUFFICES ASSUME batches > 0, lockUntil # 0,
                    lockAge < LockLength(batches - 1) + HalfTurn
             PROVE  RetryAfter = (IF lockAge < LockLength(batches - 1)
                                  THEN LockLength(batches - 1) - lockAge ELSE 0)
  <2>1. batches > 0 => batches \in 1 .. MaxTier + 1
    BY DeadlineAssumption DEF LockTimes
  <2>2. batches > 0 =>
          Lesser(InitialLock * 2 ^ (batches - 1), MaximumLock) = LockLength(batches - 1)
    BY <2>1, LengthFacts
  <2> QED BY <2>2 DEF LockoutKept
<1> DEFINE length == LockLength(batches - 1)
<1>1. /\ batches \in 1 .. MaxTier + 1 /\ lockAge \in Nat /\ now \in Time /\ lockUntil \in Time
  BY DeadlineAssumption DEF LockTimes
<1>2. length \in Nat /\ length < HalfTurn
  BY <1>1, LengthFacts
<1>3. lockAge < length + HalfTurn
  OBVIOUS
<1>4. lockUntil = IF lockAge <= length THEN Later(now, length - lockAge)
                  ELSE Before(now, lockAge - length)
  BY <1>1 DEF LockTimes
<1>5. Turn \in Nat \ {0} /\ HalfTurn \in Nat /\ HalfTurn >= 1 /\ Turn = 2 * HalfTurn
  BY ClockFacts
<1> HIDE DEF length, Turn
<1>6. CASE lockAge < length
  <2> DEFINE left == length - lockAge
  <2>1. left \in 1 .. HalfTurn - 1 /\ left \in 0 .. Turn - 1 /\ Turn - left \in 0 .. Turn - 1
    BY <1>1, <1>2, <1>5, <1>6
  <2>2. lockUntil = Later(now, left)
    BY <1>1, <1>2, <1>4, <1>6
  <2> HIDE DEF left
  <2>3. lockUntil = IF now + left < Turn THEN now + left ELSE now + left - Turn
    BY <1>1, <2>1, <2>2, ClockFacts
  <2>4. now \in 0 .. Turn - 1
    BY <1>1 DEF Time
  <2>5. Before(lockUntil, left) = now /\ Before(now, Turn - left) = lockUntil
    BY <1>5, <2>1, <2>3, <2>4 DEF Before
  <2>6. (lockUntil - now) % Turn = left
    BY <1>1, <2>1, <2>5, ClockFacts
  <2>7. (now - lockUntil) % Turn = Turn - left
    BY <1>1, <2>1, <2>5, ClockFacts
  <2>8. Turn - left > HalfTurn
    BY <1>5, <2>1
  <2>9. ~Allowed
    BY <1>5, <2>1, <2>7, <2>8 DEF Allowed
  <2> QED BY <1>6, <2>6, <2>9 DEF RetryAfter, left, length
<1>7. CASE ~(lockAge < length)
  <2> DEFINE past == lockAge - length
  <2>1. past \in 0 .. HalfTurn - 1 /\ past \in 0 .. Turn - 1
    BY <1>1, <1>2, <1>3, <1>5, <1>7
  <2>2. lockUntil = Before(now, past)
    <3>1. CASE lockAge = length
      <4>1. length - lockAge = 0 /\ lockAge <= length /\ past = 0
        BY <1>1, <1>2, <3>1
      <4>2. lockUntil = Later(now, 0)
        BY <1>4, <4>1
      <4>3. now \in 0 .. Turn - 1 /\ 0 \in 0 .. Turn - 1
        BY <1>1, <1>5 DEF Time
      <4>4. Later(now, 0) = IF now + 0 < Turn THEN now + 0 ELSE now + 0 - Turn
        BY <1>1, <4>3, ClockFacts
      <4> QED BY <1>5, <4>1, <4>2, <4>3, <4>4 DEF Before
    <3>2. CASE lockAge # length
      <4>1. ~(lockAge <= length)
        BY <1>1, <1>2, <1>7, <3>2
      <4> QED BY <1>4, <4>1
    <3> QED BY <3>1, <3>2
  <2> HIDE DEF past
  <2>3. (now - lockUntil) % Turn = past
    BY <1>1, <2>1, <2>2, ClockFacts
  <2>4. Allowed
    BY <1>5, <2>1, <2>3 DEF Allowed
  <2> QED BY <1>7, <2>4 DEF RetryAfter, length
<1> QED BY <1>6, <1>7 DEF length

-----------------------------------------------------------------------------
(* Every step keeps the times.                                             *)

LEMMA NoTimeBefore ==
  ASSUME NEW t \in Time
  PROVE  Before(t, 0) = t
<1>1. Turn \in Nat \ {0} /\ t \in 0 .. Turn - 1
  BY ClockFacts DEF Time
<1> QED BY <1>1 DEF Before

\* A new session, or none, begins now.
LEMMA FreshSession ==
  ASSUME now' \in Time, age' = 0, idle' = 0,
         session' = Nobody \/ (created' = now' /\ lastActivity' = now')
  PROVE  SessionTimes'
<1>1. Turn \in Nat \ {0} /\ Horizon \in Nat /\ MaxLifetime \in Nat
  BY ClockFacts, DeadlineAssumption
<1>3. Before(now', 0) = now'
  BY NoTimeBefore
<1>4. age' \in 0 .. Horizon /\ idle' \in 0 .. Horizon /\ idle' < Turn /\ age' - idle' <= MaxLifetime
  BY <1>1
<1> QED BY <1>3, <1>4 DEF SessionTimes

LEMMA RequestKeepsSession ==
  ASSUME SessionTimes, NEW b \in Browsers, Request(b)
  PROVE  SessionTimes'
<1>1. now' = now /\ now \in Time
  BY DEF Request, SessionTimes
<1>2. CASE CreateSession(b) \/ InvalidateSession
  BY <1>1, <1>2, FreshSession DEF CreateSession, InvalidateSession
<1>3. CASE /\ lastActivity' = now /\ idle' = 0
           /\ UNCHANGED <<session, created, age, forgotten>>
  <2>1. ~forgotten => age <= MaxLifetime
    BY AcceptedInTime DEF Request
  <2>2. Turn \in Nat \ {0} /\ Horizon \in Nat /\ age \in 0 .. Horizon
    BY ClockFacts, DeadlineAssumption DEF SessionTimes
  <2>4. Before(now, 0) = now
    BY <1>1, NoTimeBefore
  <2>5. idle' \in 0 .. Horizon /\ idle' < Turn /\ age' - idle' = age
    BY <1>3, <2>2
  <2>6. ~forgotten' => idle' < Turn /\ lastActivity' = Before(now', idle') /\ age' - idle' <= MaxLifetime
    BY <1>1, <1>3, <2>1, <2>4, <2>5
  <2>7. session' # Nobody /\ age' < Turn => created' = Before(now', age')
    BY <1>1, <1>3 DEF SessionTimes
  <2> QED BY <1>1, <1>3, <2>2, <2>5, <2>6, <2>7 DEF SessionTimes
<1> QED BY <1>2, <1>3 DEF Request

\* A tick makes everything one older, also across the wrap.
LEMMA OneOlder ==
  ASSUME NEW t \in Time, NEW d \in Nat, d + 1 < Turn
  PROVE  Before(Later(t, 1), d + 1) = Before(t, d)
<1>1. Turn \in Nat \ {0} /\ HalfTurn \in Nat /\ HalfTurn >= 1 /\ Turn = 2 * HalfTurn
  BY ClockFacts
<1>2. t \in 0 .. Turn - 1
  BY DEF Time
<1> HIDE DEF Turn
<1>3. 1 \in 0 .. Turn - 1
  BY <1>1
<1>4. Later(t, 1) = IF t + 1 < Turn THEN t + 1 ELSE t + 1 - Turn
  BY <1>3, ClockFacts
<1> QED BY <1>1, <1>2, <1>4 DEF Before

LEMMA TickKeepsSession ==
  ASSUME SessionTimes, Tick
  PROVE  SessionTimes'
<1>1. /\ Turn \in Nat \ {0} /\ Turn = 2 * HalfTurn /\ HalfTurn \in Nat /\ HalfTurn >= 1
      /\ Horizon \in Nat /\ Turn <= Horizon /\ MaxLifetime \in Nat
      /\ now \in Time /\ age \in 0 .. Horizon /\ idle \in 0 .. Horizon
  BY ClockFacts, DeadlineAssumption DEF SessionTimes
<1>2. /\ now' = Later(now, 1)
      /\ UNCHANGED <<session, created, lastActivity>>
      /\ session = Nobody => age' = 0 /\ idle' = 0
      /\ session # Nobody => age' = Lesser(age + 1, Horizon) /\ idle' = Lesser(idle + 1, Horizon)
      /\ ~forgotten' => ~forgotten /\ ~(idle' >= Turn)
  BY DEF Tick
<1> HIDE DEF Turn
<1>3. now' \in Time
  <2>1. 1 \in 0 .. Turn - 1
    BY <1>1
  <2> QED BY <1>1, <1>2, <2>1, ClockFacts
<1>4. CASE session = Nobody
  BY <1>2, <1>3, <1>4, FreshSession
<1>5. CASE session # Nobody
  <2>1. /\ age' \in 0 .. Horizon /\ idle' \in 0 .. Horizon
        /\ age' < Turn => age' = age + 1
        /\ idle' < Turn => idle' = idle + 1
        /\ age' <= age + 1
    BY <1>1, <1>2, <1>5 DEF Lesser
  <2>2. age' < Turn => created' = Before(now', age')
    <3> SUFFICES ASSUME age' < Turn PROVE created' = Before(now', age')
      OBVIOUS
    <3>1. age' = age + 1 /\ age \in Nat /\ age + 1 < Turn /\ age < Turn
      BY <1>1, <2>1
    <3>2. created = Before(now, age)
      BY <1>5, <3>1 DEF SessionTimes
    <3> QED BY <1>1, <1>2, <3>1, <3>2, OneOlder
  <2>3. idle' < Turn /\ age - idle <= MaxLifetime => age' - idle' <= MaxLifetime
    <3>1. \A a, i, b, j, m \in Int : b <= a + 1 /\ j = i + 1 /\ a - i <= m => b - j <= m
      OBVIOUS
    <3>2. age' \in Int /\ age \in Int /\ idle' \in Int /\ idle \in Int /\ MaxLifetime \in Int
      BY <1>1, <2>1
    <3>3. age' <= age + 1
      BY <2>1
    <3>4. idle' < Turn => idle' = idle + 1
      BY <2>1
    <3> QED BY <3>1, <3>2, <3>3, <3>4
  <2>4. ~forgotten' =>
          idle' < Turn /\ lastActivity' = Before(now', idle') /\ age' - idle' <= MaxLifetime
    <3> SUFFICES ASSUME ~forgotten'
                 PROVE  idle' < Turn /\ lastActivity' = Before(now', idle')
                        /\ age' - idle' <= MaxLifetime
      OBVIOUS
    <3>1. ~forgotten /\ ~(idle' >= Turn)
      BY <1>2
    <3>2. idle' < Turn /\ idle' = idle + 1 /\ idle \in Nat /\ idle + 1 < Turn
      BY <1>1, <2>1, <3>1
    <3>3. age - idle <= MaxLifetime
      BY <1>5, <3>1 DEF SessionTimes
    <3>4. lastActivity' = Before(now', idle')
      <4>1. lastActivity = Before(now, idle)
        BY <1>5, <3>1 DEF SessionTimes
      <4> QED BY <1>1, <1>2, <3>2, <4>1, OneOlder
    <3>5. age' - idle' <= MaxLifetime
      BY <2>3, <3>2, <3>3, Zenon
    <3> QED BY <3>2, <3>4, <3>5
  <2> QED BY <1>3, <2>1, <2>2, <2>4 DEF SessionTimes
<1> QED BY <1>4, <1>5

LEMMA TickKeepsLock ==
  ASSUME LockTimes, Tick
  PROVE  LockTimes'
<1>1. /\ Turn \in Nat \ {0} /\ Turn = 2 * HalfTurn /\ HalfTurn \in Nat /\ HalfTurn >= 1
      /\ Horizon \in Nat /\ Turn <= Horizon
      /\ now \in Time /\ lockAge \in 0 .. Horizon /\ batches \in 0 .. MaxTier + 1
  BY ClockFacts, DeadlineAssumption DEF LockTimes
<1>2. /\ now' = Later(now, 1)
      /\ lockAge' = IF batches = 0 THEN 0 ELSE Lesser(lockAge + 1, Horizon)
      /\ UNCHANGED <<tier, lockUntil, batches>>
  BY DEF Tick
<1> HIDE DEF Turn
<1>3. now' \in Time
  <2>1. 1 \in 0 .. Turn - 1
    BY <1>1
  <2> QED BY <1>1, <1>2, <2>1, ClockFacts
<1>4. lockAge' \in 0 .. Horizon
  BY <1>1, <1>2 DEF Lesser
<1>5. ASSUME batches > 0, lockAge' < LockLength(batches - 1) + HalfTurn
      PROVE  lockUntil = IF lockAge' <= LockLength(batches - 1)
                         THEN Later(now', LockLength(batches - 1) - lockAge')
                         ELSE Before(now', lockAge' - LockLength(batches - 1))
  <2> DEFINE length == LockLength(batches - 1)
  <2>1. length \in Nat /\ length < HalfTurn
    BY <1>1, <1>5, LengthFacts, DeadlineAssumption
  <2>2. lockAge' < length + HalfTurn
    BY <1>5
  <2>3. /\ lockAge < length + HalfTurn =>
             lockUntil = IF lockAge <= length THEN Later(now, length - lockAge)
                         ELSE Before(now, lockAge - length)
    BY <1>5 DEF LockTimes
  <2> HIDE DEF length
  <2>4. lockAge' = lockAge + 1 /\ lockAge \in Nat /\ lockAge < length + HalfTurn
    BY <1>1, <1>2, <1>5, <2>1, <2>2 DEF Lesser
  <2>5. now \in 0 .. Turn - 1 /\ now' = IF now + 1 < Turn THEN now + 1 ELSE now + 1 - Turn
    <3>1. 1 \in 0 .. Turn - 1
      BY <1>1
    <3>2. now' = IF now + 1 < Turn THEN now + 1 ELSE now + 1 - Turn
      BY <1>1, <1>2, <3>1, ClockFacts
    <3> QED BY <1>1, <3>2 DEF Time
  <2>6. CASE lockAge < length
    <3> DEFINE left == length - lockAge
    <3>1. /\ left \in 0 .. Turn - 1 /\ left - 1 \in 0 .. Turn - 1
          /\ left - 1 = length - lockAge' /\ lockAge <= length /\ lockAge' <= length
      BY <1>1, <2>1, <2>4, <2>6
    <3>2. lockUntil = Later(now, left)
      BY <2>3, <2>4, <3>1
    <3> HIDE DEF left
    <3>3. lockUntil = IF now + left < Turn THEN now + left ELSE now + left - Turn
      BY <1>1, <3>1, <3>2, ClockFacts
    <3> DEFINE less == left - 1
    <3>4. less \in 0 .. Turn - 1 /\ less = length - lockAge'
      BY <3>1
    <3>5. Later(now', less) = IF now' + less < Turn THEN now' + less ELSE now' + less - Turn
      BY <1>3, <3>4, ClockFacts
    <3>6. lockUntil = Later(now', less)
      BY <1>1, <2>5, <3>1, <3>3, <3>5
    <3> QED BY <3>1, <3>4, <3>6 DEF length
  <2>7. CASE ~(lockAge < length)
    <3> DEFINE past == lockAge - length
    <3>1. /\ past \in 0 .. Turn - 1 /\ past \in Nat /\ past + 1 < Turn
          /\ past + 1 = lockAge' - length /\ ~(lockAge' <= length)
      BY <1>1, <2>1, <2>2, <2>4, <2>7
    <3>2. lockUntil = Before(now, past)
      <4>1. CASE lockAge = length
        <5>1. length - lockAge = 0 /\ lockAge <= length /\ past = 0
          BY <2>1, <2>4, <4>1
        <5>2. lockUntil = Later(now, 0)
          BY <2>3, <2>4, <5>1
        <5>3. 0 \in 0 .. Turn - 1
          BY <1>1
        <5>4. Later(now, 0) = IF now + 0 < Turn THEN now + 0 ELSE now + 0 - Turn
          BY <1>1, <5>3, ClockFacts
        <5> QED BY <1>1, <2>5, <5>1, <5>2, <5>4 DEF Before
      <4>2. CASE lockAge # length
        <5>1. ~(lockAge <= length)
          BY <2>1, <2>4, <2>7, <4>2
        <5> QED BY <2>3, <2>4, <5>1
      <4> QED BY <4>1, <4>2
    <3> HIDE DEF past
    <3>3. Before(now', past + 1) = lockUntil
      BY <1>1, <1>2, <3>1, <3>2, OneOlder
    <3> QED BY <3>1, <3>3 DEF length
  <2> QED BY <2>6, <2>7
<1>6. batches' = batches /\ lockUntil' = lockUntil /\ tier' = tier
  BY <1>2
<1>7. lockUntil \in Time /\ tier = Lesser(batches, MaxTier)
  BY DEF LockTimes
<1> QED BY <1>1, <1>3, <1>4, <1>5, <1>6, <1>7 DEF LockTimes

\* The lock begins now and is as long as the tier before says.
LEMMA FailLoginStep ==
  ASSUME LockTimes, FailLogin
  PROVE  LockTimes'
<1>1. /\ now \in Time /\ now' = now /\ lockAge \in 0 .. Horizon /\ lockUntil \in Time
      /\ batches \in 0 .. MaxTier + 1 /\ tier = Lesser(batches, MaxTier)
      /\ MaxTier \in Nat /\ Horizon \in Nat
  BY DeadlineAssumption DEF FailLogin, LockTimes
<1>2. CASE UNCHANGED <<tier, lockUntil, lockAge, batches>>
  BY <1>1, <1>2 DEF LockTimes
<1>3. CASE /\ tier' = Lesser(tier + 1, MaxTier) /\ lockUntil' = Later(now, LockLength(tier))
           /\ lockAge' = 0 /\ batches' = Lesser(batches + 1, MaxTier + 1)
  <2>1. /\ tier = batches' - 1 /\ batches' \in 1 .. MaxTier + 1
        /\ tier' = Lesser(batches', MaxTier)
    BY <1>1, <1>3 DEF Lesser
  <2> DEFINE length == LockLength(batches' - 1)
  <2>2. length \in Nat /\ length < HalfTurn
    BY <2>1, LengthFacts
  <2>3. /\ Turn \in Nat \ {0} /\ HalfTurn \in Nat /\ Turn = 2 * HalfTurn
    BY ClockFacts
  <2> HIDE DEF length
  <2>4. length \in 0 .. Turn - 1 /\ length - 0 = length /\ 0 <= length
    BY <2>2, <2>3
  <2>5. lockUntil' = Later(now, length)
    BY <1>3, <2>1 DEF length
  <2>6. lockUntil' \in Time
    BY <1>1, <2>4, <2>5, ClockFacts
  <2>7. lockAge' <= length /\ lockUntil' = Later(now', length - lockAge')
    BY <1>1, <1>3, <2>4, <2>5
  <2> QED BY <1>1, <1>3, <2>1, <2>6, <2>7 DEF LockTimes, length
<1> QED BY <1>2, <1>3 DEF FailLogin

LEMMA FreshLock ==
  ASSUME now' \in Time, lockAge' = 0, lockUntil' = 0, tier' = 0, batches' = 0
  PROVE  LockTimes'
<1>1. MaxTier \in Nat /\ Horizon \in Nat /\ 0 \in Time
  BY ClockFacts, DeadlineAssumption DEF Time
<1>2. Lesser(0, MaxTier) = 0
  BY <1>1 DEF Lesser
<1> QED BY <1>1, <1>2 DEF LockTimes

-----------------------------------------------------------------------------
(* The theorems.                                                           *)

AccessIInv == SessionTimes /\ LockTimes

LEMMA InitStep == AccessInit => AccessIInv
<1> SUFFICES ASSUME AccessInit PROVE AccessIInv
  OBVIOUS
<1>1. MaxTier \in Nat /\ Horizon \in Nat /\ 0 \in Time
  BY ClockFacts, DeadlineAssumption DEF Time
<1>2. SessionTimes
  BY <1>1 DEF AccessInit, SessionTimes
<1>3. LockTimes
  <2>1. Lesser(0, MaxTier) = 0
    BY <1>1 DEF Lesser
  <2> QED BY <1>1, <2>1 DEF AccessInit, LockTimes
<1> QED BY <1>2, <1>3 DEF AccessIInv

LEMMA NextStep == AccessIInv /\ [AccessNext]_accessVars => AccessIInv'
<1> SUFFICES ASSUME SessionTimes, LockTimes, [AccessNext]_accessVars PROVE SessionTimes' /\ LockTimes'
  BY DEF AccessIInv
<1>1. now \in Time
  BY DEF SessionTimes
<1>2. ASSUME UNCHANGED <<now, throttleVars>> PROVE LockTimes'
  BY <1>2 DEF LockTimes, throttleVars
<1>3. ASSUME UNCHANGED <<now, sessionVars>> PROVE SessionTimes'
  BY <1>3 DEF SessionTimes, sessionVars
<1>4. CASE FailLogin
  BY <1>3, <1>4, FailLoginStep DEF FailLogin
<1>5. ASSUME NEW b \in Browsers, Login(b)
      PROVE  SessionTimes' /\ LockTimes'
  BY <1>1, <1>5, FreshSession, FreshLock DEF Login, CreateSession
<1>6. ASSUME NEW b \in Browsers, Request(b)
      PROVE  SessionTimes' /\ LockTimes'
  BY <1>2, <1>6, RequestKeepsSession DEF Request
<1>7. CASE RefusedRequest
  BY <1>1, <1>2, <1>7, FreshSession DEF RefusedRequest, InvalidateSession
<1>8. CASE PowerCycle
  <2>1. now' \in Time
    BY <1>8, ClockFacts DEF PowerCycle, Time
  <2> QED BY <1>8, <2>1, FreshSession, FreshLock DEF PowerCycle, InvalidateSession
<1>9. CASE Tick
  BY <1>9, TickKeepsSession, TickKeepsLock
<1>10. CASE UNCHANGED accessVars
  BY <1>2, <1>3, <1>10 DEF accessVars
<1> QED BY <1>4, <1>5, <1>6, <1>7, <1>8, <1>9, <1>10 DEF AccessNext

\* No request is served to a session that is too old or was idle for too long,
\* for every pair of limits that fit into a turn of millis()
\* (WebSessionPolicy::expired).
THEOREM Sessions == AccessSpec => []SessionInTime
<1>1. AccessInit => AccessIInv
  BY InitStep
<1>2. AccessIInv /\ [AccessNext]_accessVars => AccessIInv'
  BY NextStep
<1>3. AccessIInv => SessionInTime
  BY AcceptedInTime DEF AccessIInv, SessionInTime
<1> QED BY <1>1, <1>2, <1>3, PTL DEF AccessSpec

\* The lockouts double up to the maximum and hold until they are over, for all
\* lengths below half a turn of millis() (LoginThrottle::allowed, recordFailure).
THEOREM Lockouts == AccessSpec => []LockoutKept
<1>1. AccessInit => AccessIInv
  BY InitStep
<1>2. AccessIInv /\ [AccessNext]_accessVars => AccessIInv'
  BY NextStep
<1>3. AccessIInv => LockoutKept
  BY LockInTime DEF AccessIInv
<1> QED BY <1>1, <1>2, <1>3, PTL DEF AccessSpec
-----------------------------------------------------------------------------
(* The stored configuration.                                               *)

Values ==
  [components |-> Modes, network |-> Networks \cup {None}, appKey |-> AppKeys \cup {None},
   enabled |-> BOOLEAN, host |-> Hosts \cup {None}, tls |-> BOOLEAN,
   ca |-> Certificates \cup {None}]

Typed(c) == DOMAIN c = Settings /\ \A s \in Settings : c[s] \in Values[s]

\* The place of a setting in the order of the writes.
Place ==
  [components |-> 2, network |-> 3, appKey |-> 4, enabled |-> 5, host |-> 6, tls |-> 7, ca |-> 8]

FlashTypes ==
  /\ DOMAIN flash = {"schema"} \cup Settings
  /\ flash.schema \in 0 .. Current
  /\ \A s \in Settings : flash[s] \in Values[s] \cup {None}

WritingTypes ==
  \/ writing = Idle
  \/ /\ writing =
          [kind |-> writing.kind, target |-> writing.target, next |-> writing.next]
     /\ writing.kind \in {"begin", "web", "restore"}
     /\ Typed(writing.target) /\ ValidConfig(writing.target)
     /\ writing.next \in 1 .. 9

ConfigTypes == FlashTypes /\ Typed(config) /\ WritingTypes

\* Where a save can be under way, and what its first write has done.
Stages ==
  /\ phase = "running" => flash.schema = Current
  /\ writing.kind = "begin" => phase = "starting"
  /\ phase = "starting" => writing.kind = "begin"
  /\ writing.kind \in {"web", "restore"} => phase = "running"
  /\ writing.next > 1 /\ flash.schema # Current => "schema" \in failed

\* A setting of a later schema is not there yet, or has its default: raising
\* the schema does not bring up anything old.
Stale ==
  \A s \in Settings \ {"appKey"} :
    flash.schema < Since[s] =>
      /\ flash[s] \in {None, Default[s]}
      /\ writing.target[s] = Default[s]

\* The schema could not be written: the save goes on, and the start fails.
Lost ==
  /\ "schema" \in failed /\ flash.schema # Current
  /\ phase = "stopped" \/ writing.next > 1

\* load would read the new value of what the save has passed, and the old one
\* of what it has not, except where a write failed.
HeldSetting(s) ==
  IF Place[s] < writing.next THEN Reading[s] = writing.target[s]
  ELSE Reading[s] = saved[s] \/ (s = "appKey" /\ saved.appKey = None)

Held == Lost \/ \A s \in Settings \ failed : HeldSetting(s)

ConfigIInv == ConfigTypes /\ Stages /\ Stale /\ Held

-----------------------------------------------------------------------------
LEMMA SettingNames ==
  /\ Settings = {"components", "network", "appKey", "enabled", "host", "tls", "ca"}
  /\ Len(Order) = 8
  BY DEF Settings, Default, Order

\* What load reads of a setting.
LEMMA ReadingOf ==
  /\ DOMAIN Reading = Settings
  /\ \A s \in Settings :
       Reading[s] = IF flash.schema >= Since[s] /\ flash[s] # None THEN flash[s] ELSE Default[s]
  BY DEF Reading

LEMMA DefaultFacts ==
  /\ Typed(Default) /\ ValidConfig(Default)
  /\ \A s \in Settings : Since[s] \in 1 .. Current /\ Place[s] \in 2 .. 8
  /\ \A s \in Settings : None \in Values[s] => Default[s] = None
<1>1. Typed(Default)
  <2>1. \A s \in {"enabled", "tls"} : Default[s] \in Values[s]
    <3>1. Values["enabled"] = BOOLEAN /\ Values["tls"] = BOOLEAN
      BY DEF Values
    <3>2. Default["enabled"] = FALSE /\ Default["tls"] = FALSE
      BY DEF Default
    <3>3. FALSE \in BOOLEAN
      OBVIOUS
    <3>4. QED BY <3>1, <3>2, <3>3, Zenon
  <2>2. Default["components"] \in Values["components"]
    BY ConfigAssumption DEF Default, Values
  <2>3. \A s \in {"network", "appKey", "host", "ca"} : Default[s] \in Values[s]
    BY DEF Default, Values
  <2>4. QED BY <2>1, <2>2, <2>3, SettingNames DEF Typed, Settings
<1>2. ValidConfig(Default)
  BY DEF ValidConfig, Default
<1>3. \A s \in Settings : Since[s] \in 1 .. Current /\ Place[s] \in 2 .. 8
  BY SettingNames DEF Since, Place, Current
<1>4. \A s \in Settings : None \in Values[s] => Default[s] = None
  <2>1. \A s \in {"enabled", "tls"} : None \notin Values[s]
    BY ConfigAssumption DEF Values
  <2>2. None \notin Values["components"]
    BY ConfigAssumption DEF Values
  <2>3. \A s \in {"network", "appKey", "host", "ca"} : Default[s] = None
    BY DEF Default
  <2>4. QED BY <2>1, <2>2, <2>3, SettingNames
<1>5. QED BY <1>1, <1>2, <1>3, <1>4

\* The configurations importConfig lets pass.
LEMMA ConfigsAre ==
  \A c \in Configs : Typed(c) /\ ValidConfig(c)
  BY SettingNames DEF Configs, Typed, Values

LEMMA ReadingTyped ==
  ASSUME FlashTypes
  PROVE  Typed(Reading)
  BY ReadingOf, DefaultFacts DEF FlashTypes, Typed

LEMMA Places ==
  \A i \in 1 .. 8 :
    \/ i = 1 /\ Order[i] = "schema"
    \/ i > 1 /\ Order[i] \in Settings /\ Order[i] # "schema" /\ Place[Order[i]] = i
  BY SettingNames DEF Order, Place

LEMMA PlaceDiffers == \A s, t \in Settings : Place[s] = Place[t] => s = t
  BY SettingNames DEF Place

LEMMA ConfigInitially == ConfigInit => ConfigIInv
<1> SUFFICES ASSUME ConfigInit PROVE ConfigIInv
  OBVIOUS
<1>1. PICK schema \in 0 .. Current, c \in Configs :
         LET known == {s \in Settings : schema > 0 /\ schema >= Since[s]}
         IN  /\ saved = [s \in Settings |-> IF s \in known THEN c[s] ELSE Default[s]]
             /\ flash = [key \in {"schema"} \cup Settings |->
                           IF key = "schema" THEN schema
                           ELSE IF key \in known THEN c[key] ELSE None]
  BY DEF ConfigInit
<1> DEFINE known == {s \in Settings : schema > 0 /\ schema >= Since[s]}
<1>2. /\ "schema" \notin Settings /\ DOMAIN flash = {"schema"} \cup Settings
      /\ flash.schema = schema
      /\ \A s \in Settings : flash[s] = IF s \in known THEN c[s] ELSE None
      /\ \A s \in Settings : saved[s] = IF s \in known THEN c[s] ELSE Default[s]
  BY <1>1, SettingNames
<1>3. Typed(c)
  BY ConfigsAre
<1>4. \A s \in Settings : s \in known <=> schema >= Since[s]
  BY DefaultFacts DEF Current
<1>5. \A s \in Settings : flash[s] \in Values[s] \cup {None}
  BY <1>2, <1>3 DEF Typed
<1>6. writing = Idle /\ config = Default /\ phase = "stopped" /\ failed = {}
  BY DEF ConfigInit
<1>7. writing.next = 1 /\ writing.target = Default /\ writing.kind = "none"
  BY <1>6 DEF Idle
<1>8. ConfigTypes
  BY <1>2, <1>5, <1>6, DefaultFacts DEF ConfigTypes, FlashTypes, WritingTypes
<1>9. Stages
  BY <1>6, <1>7 DEF Stages
<1>10. Stale
  BY <1>2, <1>4, <1>7, DefaultFacts DEF Stale
<1>11. \A s \in Settings : Reading[s] = saved[s]
  BY <1>2, <1>3, <1>4, ReadingOf, DefaultFacts DEF Typed
<1>12. Held
  BY <1>7, <1>11, DefaultFacts DEF Held, HeldSetting
<1>13. QED BY <1>8, <1>9, <1>10, <1>12 DEF ConfigIInv

\* What the start reads, repairs and saves.
LEMMA StartUpIs ==
  ASSUME ConfigTypes, StartUp
  PROVE  /\ Typed(config') /\ ValidConfig(config')
         /\ \A s \in Settings \ {"appKey"} :
              config'[s] = IF Loadable THEN Reading[s] ELSE Default[s]
         /\ Loadable /\ Reading.appKey # None => config'.appKey = Reading.appKey
         /\ \/ phase' = "running" /\ writing' = Idle /\ flash.schema = Current
            \/ /\ phase' = "starting"
               /\ writing' = [kind |-> "begin", target |-> config', next |-> 1]
<1> DEFINE loaded == IF Loadable THEN Reading ELSE Default
<1>1. PICK key \in (IF loaded.appKey = None THEN AppKeys ELSE {loaded.appKey}) :
         config' = [loaded EXCEPT !.appKey = key]
  BY DEF StartUp
<1>2. Typed(Reading)
  BY ReadingTyped DEF ConfigTypes
<1>3. Typed(loaded) /\ ValidConfig(loaded)
  BY <1>2, DefaultFacts DEF Loadable
<1>4. key \in Values["appKey"]
  <2>1. Values["appKey"] = AppKeys \cup {None}
    BY DEF Values
  <2>2. loaded["appKey"] \in Values["appKey"]
    BY <1>3, SettingNames DEF Typed
  <2>3. QED BY <1>1, <2>1, <2>2
<1>5. /\ DOMAIN config' = Settings /\ config'["appKey"] = key
      /\ \A s \in Settings \ {"appKey"} : config'[s] = loaded[s]
  BY <1>1, <1>3, SettingNames DEF Typed
<1>6. Typed(config')
  BY <1>3, <1>4, <1>5 DEF Typed
<1>7. ValidConfig(config')
  BY <1>3, <1>5, SettingNames DEF ValidConfig
<1>8. Loadable /\ Reading.appKey # None => config'.appKey = Reading.appKey
  BY <1>1, <1>5
<1>9. \/ phase' = "running" /\ writing' = Idle /\ flash.schema = Current
      \/ /\ phase' = "starting"
         /\ writing' = [kind |-> "begin", target |-> config', next |-> 1]
  BY DEF StartUp, Begin
<1>10. QED BY <1>5, <1>6, <1>7, <1>8, <1>9

\* A start leaves nothing of the saves before it.
LEMMA StartUpKeeps ==
  ASSUME ConfigIInv, StartUp
  PROVE  ConfigIInv'
<1>1. /\ Typed(config') /\ ValidConfig(config')
      /\ \A s \in Settings \ {"appKey"} :
           config'[s] = IF Loadable THEN Reading[s] ELSE Default[s]
      /\ \/ phase' = "running" /\ writing' = Idle /\ flash.schema = Current
         \/ /\ phase' = "starting"
            /\ writing' = [kind |-> "begin", target |-> config', next |-> 1]
  BY StartUpIs DEF ConfigIInv
<1>2. flash' = flash /\ saved' = Reading /\ failed' = {}
  BY DEF StartUp
<1>3. WritingTypes'
  BY <1>1, <1>2 DEF WritingTypes, Typed, ValidConfig
<1>4. ConfigTypes'
  BY <1>1, <1>2, <1>3 DEF ConfigIInv, ConfigTypes, FlashTypes, Typed
<1>5. writing'.next = 1
  BY <1>1 DEF Idle
<1>6. Stages'
  BY <1>1, <1>2, <1>5 DEF Stages, Idle
<1>7. Stale'
  <2> SUFFICES ASSUME NEW s \in Settings \ {"appKey"}, flash.schema < Since[s]
               PROVE  flash[s] \in {None, Default[s]} /\ writing'.target[s] = Default[s]
    BY <1>2 DEF Stale
  <2>1. flash[s] \in {None, Default[s]}
    BY DEF ConfigIInv, Stale
  <2>2. Reading[s] = Default[s]
    BY <2>1, ReadingOf
  <2>3. config'[s] = Default[s]
    BY <1>1, <2>2
  <2>4. writing'.target = Default \/ writing'.target = config'
    BY <1>1 DEF Idle
  <2>5. QED BY <2>1, <2>3, <2>4
<1>8. Reading' = Reading
  BY <1>2 DEF Reading
<1>9. Held'
  BY <1>2, <1>5, <1>8, DefaultFacts DEF Held, HeldSetting
<1>10. QED BY <1>4, <1>6, <1>7, <1>9 DEF ConfigIInv

\* A save that is under way, and its next key.
LEMMA NextKey ==
  ASSUME ConfigIInv, Saving
  PROVE  /\ writing.kind \in {"begin", "web", "restore"}
         /\ Typed(writing.target) /\ ValidConfig(writing.target)
         /\ writing =
              [kind |-> writing.kind, target |-> writing.target, next |-> writing.next]
         /\ writing.next \in 1 .. 8 /\ phase # "stopped"
         /\ \/ writing.next = 1 /\ Key = "schema"
            \/ /\ writing.next > 1 /\ Key \in Settings /\ Key # "schema"
               /\ Place[Key] = writing.next
<1>1. /\ writing.kind \in {"begin", "web", "restore"}
      /\ Typed(writing.target) /\ ValidConfig(writing.target)
      /\ writing =
           [kind |-> writing.kind, target |-> writing.target, next |-> writing.next]
      /\ writing.next \in 1 .. 9
  BY DEF ConfigIInv, ConfigTypes, WritingTypes, Saving
<1>2. writing.next \in 1 .. 8
  BY <1>1, SettingNames DEF Saving
<1>3. phase # "stopped"
  BY <1>1 DEF ConfigIInv, Stages
<1>4. QED BY <1>1, <1>2, <1>3, Places DEF Key

\* The schema is written first: what it brings up has its default.
LEMMA SchemaPutKeeps ==
  ASSUME ConfigIInv, Put, Key = "schema"
  PROVE  Stale' /\ Held'
<1>1. /\ writing.next = 1 /\ phase # "stopped"
      /\ writing.kind \in {"begin", "web", "restore"}
      /\ writing = [kind |-> writing.kind, target |-> writing.target, next |-> writing.next]
  BY NextKey DEF Put
<1>2. /\ flash' = [flash EXCEPT !["schema"] = Current]
      /\ writing' = [writing EXCEPT !.next = @ + 1]
      /\ failed' = failed \ {"schema"} /\ saved' = saved /\ phase' = phase
  BY DEF Put
<1>3. /\ flash'.schema = Current /\ writing'.next = 2 /\ writing'.target = writing.target
      /\ \A s \in Settings : flash'[s] = flash[s]
  BY <1>1, <1>2, SettingNames DEF ConfigIInv, ConfigTypes, FlashTypes
<1>4. \A s \in Settings : ~(flash'.schema < Since[s]) /\ flash'.schema >= Since[s]
  BY <1>3, DefaultFacts DEF Current
<1>5. Stale'
  BY <1>4 DEF Stale
<1>6. \A s \in Settings \ failed : HeldSetting(s)
  BY <1>1 DEF ConfigIInv, Held, Lost
<1>7. \A s \in Settings : Reading'[s] = IF flash[s] # None THEN flash[s] ELSE Default[s]
  BY <1>3, <1>4 DEF Reading
<1>8. \A s \in Settings \ {"appKey"} : Reading'[s] = Reading[s]
  <2> SUFFICES ASSUME NEW s \in Settings \ {"appKey"}
               PROVE  Reading'[s] = Reading[s]
    OBVIOUS
  <2>1. CASE flash.schema >= Since[s]
    BY <1>7, <2>1, ReadingOf
  <2>2. CASE ~(flash.schema >= Since[s])
    <3>1. flash.schema < Since[s]
      BY <2>2, DefaultFacts DEF ConfigIInv, ConfigTypes, FlashTypes, Current
    <3>2. flash[s] \in {None, Default[s]}
      BY <3>1 DEF ConfigIInv, Stale
    <3>3. QED BY <1>7, <2>2, <3>2, ReadingOf
  <2>3. QED BY <2>1, <2>2
<1>9. /\ "appKey" \in Settings /\ Default["appKey"] = None
      /\ \/ Reading'["appKey"] = Reading["appKey"]
         \/ Reading["appKey"] = None
  BY <1>7, ReadingOf, SettingNames DEF Default
<1>10. ASSUME NEW s \in Settings \ failed'
       PROVE  HeldSetting(s)'
  <2>1. s \in Settings \ failed /\ Place[s] \in 2 .. 8
    BY <1>2, SettingNames, DefaultFacts
  <2>2. Reading[s] = saved[s] \/ (s = "appKey" /\ saved.appKey = None)
    BY <1>1, <1>6, <2>1 DEF HeldSetting
  <2>3. Reading'[s] = saved'[s] \/ (s = "appKey" /\ saved'.appKey = None)
    BY <1>2, <1>8, <1>9, <2>2
  <2>4. ~(Place[s] < writing'.next)
    BY <1>3, <2>1
  <2>5. QED BY <2>3, <2>4 DEF HeldSetting
<1>11. QED BY <1>5, <1>10 DEF Held

\* Every later write is of one setting, which load then reads as written.
LEMMA SettingPutKeeps ==
  ASSUME ConfigIInv, Put, Key # "schema"
  PROVE  Stale' /\ Held'
<1> DEFINE key == Key
<1> HIDE DEF key
<1>1. /\ writing.next \in 2 .. 8 /\ key \in Settings /\ key # "schema"
      /\ Place[key] = writing.next
      /\ writing = [kind |-> writing.kind, target |-> writing.target, next |-> writing.next]
      /\ Typed(writing.target)
  BY NextKey DEF Put, key
<1>2. /\ flash' = [flash EXCEPT ![key] = writing.target[key]]
      /\ writing' = [writing EXCEPT !.next = @ + 1]
      /\ failed' = failed \ {key} /\ saved' = saved /\ phase' = phase
  BY DEF Put, key
<1>3. /\ writing'.next = writing.next + 1 /\ writing'.target = writing.target
      /\ flash'.schema = flash.schema /\ flash'[key] = writing.target[key]
      /\ \A s \in Settings \ {key} : flash'[s] = flash[s]
  BY <1>1, <1>2, SettingNames DEF ConfigIInv, ConfigTypes, FlashTypes
<1>4. Stale'
  <2> SUFFICES ASSUME NEW s \in Settings \ {"appKey"}, flash.schema < Since[s]
               PROVE  /\ flash'[s] \in {None, Default[s]}
                      /\ writing.target[s] = Default[s]
    BY <1>3 DEF Stale
  <2>1. /\ flash[s] \in {None, Default[s]}
        /\ writing.target[s] = Default[s]
    BY DEF ConfigIInv, Stale
  <2>2. QED BY <1>3, <2>1
<1>5. CASE Lost
  BY <1>1, <1>2, <1>3, <1>4, <1>5 DEF Held, Lost
<1>6. CASE ~Lost
  <2>1. flash.schema = Current
    BY <1>1, <1>6 DEF ConfigIInv, Stages, Lost
  <2>2. \A s \in Settings \ failed : HeldSetting(s)
    BY <1>6 DEF ConfigIInv, Held
  <2>3. \A s \in Settings \ {key} : Reading'[s] = Reading[s]
    BY <1>3 DEF Reading
  <2>4. Reading'[key] = writing.target[key]
    <3>1. flash'.schema >= Since[key]
      BY <1>1, <1>3, <2>1, DefaultFacts DEF Current
    <3>2. writing.target[key] = None => Default[key] = None
      BY <1>1, DefaultFacts DEF Typed
    <3>3. Reading'[key] = IF flash'[key] # None THEN flash'[key] ELSE Default[key]
      BY <1>1, <3>1 DEF Reading
    <3>4. QED BY <1>3, <3>2, <3>3
  <2>5. ASSUME NEW s \in Settings \ failed'
        PROVE  HeldSetting(s)'
    <3>1. CASE s = key
      <4>1. Place[s] < writing'.next
        BY <1>1, <1>3, <3>1
      <4>2. QED BY <1>3, <2>4, <3>1, <4>1 DEF HeldSetting
    <3>2. CASE s # key
      <4>1. HeldSetting(s)
        BY <1>2, <2>2, <3>2
      <4>2. Place[s] < writing'.next <=> Place[s] < writing.next
        <5>1. Place[s] # writing.next /\ Place[s] \in 2 .. 8
          BY <1>1, <3>2, PlaceDiffers, DefaultFacts
        <5>2. QED BY <1>1, <1>3, <5>1
      <4>3. QED BY <1>2, <1>3, <2>3, <3>2, <4>1, <4>2 DEF HeldSetting
    <3>3. QED BY <3>1, <3>2
  <2>6. QED BY <1>4, <2>5 DEF Held
<1>7. QED BY <1>5, <1>6

LEMMA PutKeeps ==
  ASSUME ConfigIInv, Put
  PROVE  ConfigIInv'
<1> DEFINE key == Key
           value == IF key = "schema" THEN Current ELSE writing.target[key]
<1> HIDE DEF key
<1>1. /\ writing.kind \in {"begin", "web", "restore"}
      /\ Typed(writing.target) /\ ValidConfig(writing.target)
      /\ writing =
           [kind |-> writing.kind, target |-> writing.target, next |-> writing.next]
      /\ writing.next \in 1 .. 8
      /\ \/ writing.next = 1 /\ key = "schema"
         \/ writing.next > 1 /\ key \in Settings /\ key # "schema"
  BY NextKey DEF Put, key
<1>2. /\ flash' = [flash EXCEPT ![key] = value]
      /\ writing' = [writing EXCEPT !.next = @ + 1]
      /\ failed' = failed \ {key} /\ config' = config /\ phase' = phase
  BY DEF Put, key
<1>3. writing' =
        [kind |-> writing.kind, target |-> writing.target, next |-> writing.next + 1]
  BY <1>1, <1>2
<1>4. WritingTypes'
  BY <1>1, <1>3 DEF WritingTypes, Typed, ValidConfig
<1>5. /\ DOMAIN flash' = {"schema"} \cup Settings
      /\ flash'[key] = value
      /\ \A s \in ({"schema"} \cup Settings) \ {key} : flash'[s] = flash[s]
  BY <1>1, <1>2 DEF ConfigIInv, ConfigTypes, FlashTypes
<1>6. FlashTypes'
  <2>1. flash'.schema \in 0 .. Current
    BY <1>5 DEF ConfigIInv, ConfigTypes, FlashTypes, Current
  <2>2. \A s \in Settings : flash'[s] \in Values[s] \cup {None}
    BY <1>1, <1>5, SettingNames DEF ConfigIInv, ConfigTypes, FlashTypes, Typed
  <2>3. QED BY <1>5, <2>1, <2>2 DEF FlashTypes
<1>7. ConfigTypes'
  BY <1>2, <1>4, <1>6 DEF ConfigIInv, ConfigTypes, Typed
<1>8. Stages'
  BY <1>1, <1>2, <1>3, <1>5, SettingNames DEF ConfigIInv, Stages
<1>9. Stale' /\ Held'
  BY SchemaPutKeeps, SettingPutKeeps
<1>10. QED BY <1>7, <1>8, <1>9 DEF ConfigIInv

LEMMA PutFailsKeeps ==
  ASSUME ConfigIInv, PutFails
  PROVE  ConfigIInv'
<1> DEFINE key == Key
<1> HIDE DEF key
<1>1. /\ writing.kind \in {"begin", "web", "restore"}
      /\ Typed(writing.target) /\ ValidConfig(writing.target)
      /\ writing =
           [kind |-> writing.kind, target |-> writing.target, next |-> writing.next]
      /\ writing.next \in 1 .. 8 /\ phase # "stopped"
      /\ \/ writing.next = 1 /\ key = "schema"
         \/ /\ writing.next > 1 /\ key \in Settings /\ key # "schema"
            /\ Place[key] = writing.next
  BY NextKey DEF PutFails, key
<1>2. /\ writing' = [writing EXCEPT !.next = @ + 1]
      /\ failed' = failed \cup {key} /\ UNCHANGED <<flash, config, phase, saved>>
  BY DEF PutFails, key
<1>3. writing' =
        [kind |-> writing.kind, target |-> writing.target, next |-> writing.next + 1]
  BY <1>1, <1>2
<1>4. WritingTypes'
  BY <1>1, <1>3 DEF WritingTypes, Typed, ValidConfig
<1>5. ConfigTypes'
  BY <1>2, <1>4 DEF ConfigIInv, ConfigTypes, FlashTypes, Typed
<1>6. Stages'
  BY <1>1, <1>2, <1>3 DEF ConfigIInv, Stages
<1>7. Stale'
  BY <1>2, <1>3 DEF ConfigIInv, Stale
<1>8. Reading' = Reading
  BY <1>2 DEF Reading
<1>9. Held'
  <2>1. CASE Lost \/ (key = "schema" /\ flash.schema # Current)
    BY <1>1, <1>2, <1>3, <2>1 DEF Held, Lost
  <2>2. CASE ~Lost /\ ~(key = "schema" /\ flash.schema # Current)
    <3>1. ASSUME NEW s \in Settings \ failed'
          PROVE  HeldSetting(s)'
      <4>1. s \in Settings \ failed /\ s # key
        BY <1>2
      <4>2. HeldSetting(s)
        BY <2>2, <4>1 DEF ConfigIInv, Held
      <4>3. Place[s] \in 2 .. 8 /\ Place[s] # writing.next
        BY <1>1, <4>1, PlaceDiffers, DefaultFacts
      <4>4. Place[s] < writing'.next <=> Place[s] < writing.next
        BY <1>1, <1>3, <4>3
      <4>5. QED BY <1>2, <1>3, <1>8, <4>2, <4>4 DEF HeldSetting
    <3>2. QED BY <3>1 DEF Held
  <2>3. QED BY <2>1, <2>2
<1>10. QED BY <1>5, <1>6, <1>7, <1>9 DEF ConfigIInv

LEMMA EndSaveKeeps ==
  ASSUME ConfigIInv, EndSave
  PROVE  ConfigIInv'
<1>1. /\ writing.kind \in {"begin", "web", "restore"}
      /\ Typed(writing.target) /\ writing.next \in 1 .. 9
  BY DEF ConfigIInv, ConfigTypes, WritingTypes, EndSave
<1>2. writing.next = 9
  BY <1>1, SettingNames DEF EndSave, Saving
<1>3. writing' = Idle /\ flash' = flash /\ failed' = failed
  BY DEF EndSave
<1>4. /\ writing'.kind = "none" /\ writing'.next = 1 /\ writing'.target = Default
  BY <1>3 DEF Idle
<1>5. Reading' = Reading
  BY <1>3 DEF Reading
<1>6. config' = config \/ config' = writing.target
  BY DEF EndSave
<1>7. ConfigTypes'
  BY <1>1, <1>3, <1>6 DEF ConfigIInv, ConfigTypes, FlashTypes, WritingTypes, Typed
<1>8. Stale'
  BY <1>3, <1>4 DEF ConfigIInv, Stale
<1>9. CASE flash.schema = Current
  <2>1. phase' = "running" /\ saved' = writing.target
    BY <1>9 DEF EndSave
  <2>2. Stages'
    BY <1>3, <1>4, <1>9, <2>1 DEF Stages
  <2>3. \A s \in Settings \ failed : HeldSetting(s)
    BY <1>9 DEF ConfigIInv, Held, Lost
  <2>4. \A s \in Settings \ failed : Reading[s] = writing.target[s]
    BY <1>2, <2>3, DefaultFacts DEF HeldSetting
  <2>5. \A s \in Settings \ failed' : HeldSetting(s)'
    BY <1>3, <1>4, <1>5, <2>1, <2>4, DefaultFacts DEF HeldSetting
  <2>6. QED BY <1>7, <1>8, <2>2, <2>5 DEF ConfigIInv, Held
<1>10. CASE flash.schema # Current
  <2>1. /\ phase = "starting" /\ "schema" \in failed
    BY <1>1, <1>2, <1>10 DEF ConfigIInv, Stages
  <2>2. phase' = "stopped"
    BY <1>10, <2>1 DEF EndSave
  <2>3. Stages' /\ Held'
    BY <1>3, <1>4, <1>10, <2>1, <2>2 DEF Stages, Held, Lost
  <2>4. QED BY <1>7, <1>8, <2>3 DEF ConfigIInv
<1>11. QED BY <1>9, <1>10

\* A save that begins while none is under way, with the schema in the flash.
LEMMA BeginKeeps ==
  ASSUME ConfigIInv, Ready, NEW kind \in {"web", "restore"}, NEW c,
         Typed(c), ValidConfig(c), Begin(kind, c), Typed(config'),
         UNCHANGED <<flash, phase, saved, failed>>
  PROVE  ConfigIInv'
<1>1. /\ writing' = [kind |-> kind, target |-> c, next |-> 1]
      /\ phase = "running" /\ writing.next = 1 /\ flash.schema = Current
  BY DEF Begin, Ready, ConfigIInv, Stages, Idle
<1>2. WritingTypes'
  BY <1>1 DEF WritingTypes, Typed, ValidConfig
<1>3. ConfigTypes'
  BY <1>2 DEF ConfigIInv, ConfigTypes, FlashTypes
<1>4. Stages'
  BY <1>1 DEF Stages
<1>5. \A s \in Settings : ~(flash.schema < Since[s])
  BY <1>1, DefaultFacts DEF Current
<1>6. Stale'
  BY <1>5 DEF Stale
<1>7. \A s \in Settings \ failed : HeldSetting(s)
  BY <1>1 DEF ConfigIInv, Held, Lost
<1>8. Reading' = Reading
  BY DEF Reading
<1>9. \A s \in Settings \ failed' : HeldSetting(s)'
  BY <1>1, <1>7, <1>8, DefaultFacts DEF HeldSetting
<1>10. QED BY <1>3, <1>4, <1>6, <1>9 DEF ConfigIInv, Held

\* What the forms of the Web UI may set.
LEMMA FormsAreTyped ==
  ASSUME Typed(config)
  PROVE  /\ \A mode \in Modes : Typed([config EXCEPT !.components = mode])
         /\ \A network \in Networks : Typed([config EXCEPT !.network = network])
         /\ \A enabled, tls \in BOOLEAN, host \in Hosts \cup {None},
              ca \in Certificates \cup {None} :
              Typed([config EXCEPT !.enabled = enabled, !.host = host, !.tls = tls, !.ca = ca])
<1>1. /\ Values["components"] = Modes /\ Values["network"] = Networks \cup {None}
      /\ Values["host"] = Hosts \cup {None} /\ Values["ca"] = Certificates \cup {None}
      /\ Values["enabled"] = BOOLEAN /\ Values["tls"] = BOOLEAN
  BY DEF Values
<1>2. \A mode \in Modes : Typed([config EXCEPT !.components = mode])
  BY <1>1, SettingNames DEF Typed
<1>3. \A network \in Networks : Typed([config EXCEPT !.network = network])
  BY <1>1, SettingNames DEF Typed
<1>4. ASSUME NEW enabled \in Values["enabled"], NEW tls \in Values["tls"],
             NEW host \in Hosts \cup {None}, NEW ca \in Certificates \cup {None}
      PROVE  Typed([config EXCEPT !.enabled = enabled, !.host = host, !.tls = tls, !.ca = ca])
  BY <1>1, SettingNames DEF Typed
<1>5. QED BY <1>1, <1>2, <1>3, <1>4, Zenon

LEMMA FormKeeps ==
  ASSUME ConfigIInv, HandleComponentConfig \/ HandleNetworkConfig \/ HandleMqttConfig
  PROVE  ConfigIInv'
<1>1. Ready
  BY DEF HandleComponentConfig, HandleNetworkConfig, HandleMqttConfig
<1>2. \E c : Typed(c) /\ Change(c)
  BY FormsAreTyped DEF ConfigIInv, ConfigTypes, HandleComponentConfig, HandleNetworkConfig,
     HandleMqttConfig
<1>3. PICK c : Typed(c) /\ Change(c)
  BY <1>2
<1>4. QED BY <1>1, <1>3, BeginKeeps DEF Change

LEMMA RestoreKeeps ==
  ASSUME ConfigIInv, HandleBackupRestore
  PROVE  ConfigIInv'
<1>1. PICK c \in Configs : Begin("restore", c)
  BY DEF HandleBackupRestore
<1>2. Ready /\ UNCHANGED <<flash, config, phase, saved, failed>>
  BY DEF HandleBackupRestore
<1>3. Typed(config')
  BY <1>2 DEF ConfigIInv, ConfigTypes, Typed
<1>4. QED BY <1>1, <1>2, <1>3, ConfigsAre, BeginKeeps

LEMMA ClearKeeps ==
  ASSUME ConfigIInv, ClearConfig
  PROVE  ConfigIInv'
<1>1. /\ flash' = [key \in DOMAIN flash |-> IF key = "schema" THEN 0 ELSE None]
      /\ phase' = "stopped" /\ saved' = Default /\ failed' = {}
      /\ config' = config /\ writing' = writing /\ writing = Idle
  BY DEF ClearConfig, Ready
<1>2. /\ DOMAIN flash' = {"schema"} \cup Settings /\ flash'.schema = 0
      /\ \A s \in Settings : flash'[s] = None
  BY <1>1, SettingNames DEF ConfigIInv, ConfigTypes, FlashTypes
<1>3. ConfigTypes'
  BY <1>1, <1>2 DEF ConfigIInv, ConfigTypes, FlashTypes, Typed, WritingTypes, Current
<1>4. writing'.kind = "none" /\ writing'.next = 1 /\ writing'.target = Default
  BY <1>1 DEF Idle
<1>5. Stages'
  BY <1>1, <1>4 DEF Stages
<1>6. Stale'
  BY <1>2, <1>4 DEF Stale
<1>7. \A s \in Settings : Reading'[s] = Default[s]
  BY <1>2 DEF Reading
<1>8. \A s \in Settings \ failed' : HeldSetting(s)'
  BY <1>1, <1>4, <1>7, DefaultFacts DEF HeldSetting
<1>9. QED BY <1>3, <1>5, <1>6, <1>8 DEF ConfigIInv, Held

LEMMA ConfigNextKeeps == ConfigIInv /\ [ConfigNext]_configVars => ConfigIInv'
<1> SUFFICES ASSUME ConfigIInv, [ConfigNext]_configVars
             PROVE  ConfigIInv'
  OBVIOUS
<1>1. CASE StartUp
  BY <1>1, StartUpKeeps
<1>2. CASE Put
  BY <1>2, PutKeeps
<1>3. CASE Failure
  BY <1>3, PutFailsKeeps DEF Failure
<1>4. CASE EndSave
  BY <1>4, EndSaveKeeps
<1>5. CASE HandleComponentConfig \/ HandleNetworkConfig \/ HandleMqttConfig
  BY <1>5, FormKeeps
<1>6. CASE HandleBackupRestore
  BY <1>6, RestoreKeeps
<1>7. CASE ClearConfig
  BY <1>7, ClearKeeps
<1>8. CASE UNCHANGED configVars
  BY <1>8
  DEF configVars, ConfigIInv, ConfigTypes, FlashTypes, WritingTypes, Typed, ValidConfig,
      Stages, Stale, Held, Lost, HeldSetting, Reading
<1>9. QED BY <1>1, <1>2, <1>3, <1>4, <1>5, <1>6, <1>7, <1>8 DEF ConfigNext

\* load refuses what an interrupted save has left only if it had begun to turn
\* MQTT on, or TLS, without a host or a certificate, or nothing could be lost.
LEMMA RefusalIsExpected ==
  ASSUME ConfigIInv, failed = {}, ~ValidConfig(Reading)
  PROVE  MayBeLost
<1>1. \A s \in Settings : HeldSetting(s)
  BY DEF ConfigIInv, Held, Lost
<1>2. \A s \in Settings \ {"appKey"} :
        Reading[s] = IF Place[s] < writing.next THEN writing.target[s] ELSE saved[s]
  BY <1>1 DEF HeldSetting
<1>3. /\ Place["enabled"] = 5 /\ Place["host"] = 6 /\ Place["tls"] = 7 /\ Place["ca"] = 8
      /\ {"enabled", "host", "tls", "ca"} \subseteq Settings \ {"appKey"}
  BY SettingNames DEF Place
<1>4. /\ Reading.enabled = IF 5 < writing.next THEN writing.target.enabled ELSE saved.enabled
      /\ Reading.host = IF 6 < writing.next THEN writing.target.host ELSE saved.host
      /\ Reading.tls = IF 7 < writing.next THEN writing.target.tls ELSE saved.tls
      /\ Reading.ca = IF 8 < writing.next THEN writing.target.ca ELSE saved.ca
  BY <1>2, <1>3
<1>5. \/ writing = Idle /\ writing.next = 1
      \/ writing # Idle /\ writing.next \in 1 .. 9 /\ ValidConfig(writing.target)
  BY DEF ConfigIInv, ConfigTypes, WritingTypes, Idle
<1>6. CASE writing.next \in 1 .. 5
  BY <1>4, <1>6 DEF ValidConfig, MayBeLost
<1>7. CASE writing.next = 6
  BY <1>4, <1>5, <1>7 DEF ValidConfig, MayBeLost
<1>8. CASE writing.next = 7
  BY <1>4, <1>5, <1>8 DEF ValidConfig, MayBeLost
<1>9. CASE writing.next = 8
  BY <1>4, <1>5, <1>9 DEF ValidConfig, MayBeLost
<1>10. CASE writing.next = 9
  BY <1>4, <1>5, <1>10 DEF ValidConfig
<1>11. QED BY <1>5, <1>6, <1>7, <1>8, <1>9, <1>10

SettingsComeBack ==
  StartUp /\ failed = {} =>
    \/ \A s \in Settings :
         \/ config'[s] \in Expected(s)
         \/ s = "appKey" /\ None \in Expected(s)
    \/ MayBeLost /\ \A s \in Settings \ {"appKey"} : config'[s] = Default[s]

LEMMA StartUpBringsBack == ConfigIInv => SettingsComeBack
<1> SUFFICES ASSUME ConfigIInv, StartUp, failed = {}
             PROVE  \/ \A s \in Settings :
                         \/ config'[s] \in Expected(s)
                         \/ s = "appKey" /\ None \in Expected(s)
                    \/ MayBeLost /\ \A s \in Settings \ {"appKey"} : config'[s] = Default[s]
  BY DEF SettingsComeBack
<1>1. /\ \A s \in Settings \ {"appKey"} :
           config'[s] = IF Loadable THEN Reading[s] ELSE Default[s]
      /\ Loadable /\ Reading.appKey # None => config'.appKey = Reading.appKey
  BY StartUpIs DEF ConfigIInv
<1>2. \A s \in Settings : HeldSetting(s)
  BY DEF ConfigIInv, Held, Lost
<1>3. writing = Idle => \A s \in Settings : ~(Place[s] < writing.next)
  BY DefaultFacts DEF Idle
<1>4. \A s \in Settings :
        Reading[s] \in Expected(s) \/ (s = "appKey" /\ None \in Expected(s))
  BY <1>2, <1>3 DEF HeldSetting, Expected
<1>5. CASE Loadable
  <2>1. ASSUME NEW s \in Settings
        PROVE  config'[s] \in Expected(s) \/ (s = "appKey" /\ None \in Expected(s))
    <3>1. CASE s # "appKey"
      BY <1>1, <1>4, <1>5, <3>1
    <3>2. CASE s = "appKey" /\ Reading.appKey # None
      BY <1>1, <1>4, <1>5, <3>2
    <3>3. CASE s = "appKey" /\ Reading.appKey = None
      BY <1>4, <3>3
    <3>4. QED BY <3>1, <3>2, <3>3
  <2>2. QED BY <2>1
<1>6. CASE flash.schema \notin 1 .. Current
  <2>1. flash.schema = 0
    BY <1>6 DEF ConfigIInv, ConfigTypes, FlashTypes, Current
  <2>2. \A s \in Settings : Reading[s] = Default[s]
    BY <2>1, ReadingOf, DefaultFacts
  <2>3. ~Loadable /\ Default["appKey"] = None /\ "appKey" \in Settings
    BY <1>6, SettingNames DEF Loadable, Default
  <2>4. ASSUME NEW s \in Settings
        PROVE  config'[s] \in Expected(s) \/ (s = "appKey" /\ None \in Expected(s))
    BY <1>1, <1>4, <2>2, <2>3
  <2>5. QED BY <2>4
<1>7. CASE flash.schema \in 1 .. Current /\ ~ValidConfig(Reading)
  <2>1. ~Loadable
    BY <1>7 DEF Loadable
  <2>2. MayBeLost
    BY <1>7, RefusalIsExpected
  <2>3. QED BY <1>1, <2>1, <2>2
<1>8. QED BY <1>5, <1>6, <1>7 DEF Loadable

\* The configuration after any start: each setting as saved or as it was being
\* saved, also when the power failed between two writes of a save or of a
\* migration, several times over; and what a failed write leaves does not reach
\* past the save that writes the key again.
THEOREM SettingsBack == ConfigSpec => SettingsSurvive
<1>1. ConfigIInv /\ [ConfigNext]_configVars => [SettingsComeBack]_configVars
  BY StartUpBringsBack
<1>2. QED
  BY <1>1, ConfigInitially, ConfigNextKeeps, PTL
  DEF ConfigSpec, SettingsSurvive, SettingsComeBack
=============================================================================
