----------------------------- MODULE HistoryStore -----------------------------
(***************************************************************************)
(* The persistent history: history/PersistentHistoryStore.h with the image *)
(* of history/HistoryImageCodec.h, the step of the loop that saves a       *)
(* snapshot (processHistoryStorage), the load in Application::begin and    *)
(* the clear of a factory reset.                                           *)
(*                                                                         *)
(* Two flash keys hold images with a generation.  A write is not atomic: a *)
(* power loss, and a putBytes that fails, may leave the old value, the new *)
(* one, or a value whose length or CRC is wrong (Torn).                    *)
(***************************************************************************)
EXTENDS Integers

CONSTANTS
  Rings,    \* contents of the history ring
  Empty,    \* the ring without records
  Half,     \* half the modulus of the generation (2^31)
  Absent,   \* a key that was never written
  Torn,     \* a value the decoder refuses
  Nothing   \* no save is running

Wrap        == 2 * Half
Generations == 0 .. Wrap - 1
Keys        == {0, 1}        \* "ring_a" and "ring_b"
Images      == [generation : Generations, ring : Rings]

ASSUME StoreAssumption ==
  /\ Half \in Nat /\ Half >= 2
  /\ Empty \in Rings
  /\ Nothing \notin Rings
  /\ Absent \notin Images /\ Torn \notin Images /\ Absent # Torn

VARIABLES
  slots,       \* the two keys
  generation,  \* generation_
  ring,        \* historyRing_
  saving,      \* the ring being written, or Nothing
  running,     \* FALSE: begin has failed and the loop does not run
  attempts     \* history variable: see DurableRing

vars == <<slots, generation, ring, saving, running, attempts>>

-----------------------------------------------------------------------------
(* save.                                                                   *)

Following(g) == (g + 1) % Wrap

\* The key of a generation: the write goes to the one that is not in force.
KeyOf_Same(g) == 0
KeyOf(g) == g % 2

Target == KeyOf(Following(generation))
Image(r) == [generation |-> Following(generation), ring |-> r]

\* What a write that is cut off or fails may leave behind.
Remains(r) == {slots[Target], Torn, Image(r)}

BeginSave(r) ==
  /\ running
  /\ saving = Nothing
  /\ r # Empty
  /\ saving' = r
  /\ attempts' = attempts \cup {r}
  /\ UNCHANGED <<slots, generation, ring, running>>

SaveSucceeds ==
  /\ saving # Nothing
  /\ slots' = [slots EXCEPT ![Target] = Image(saving)]
  /\ generation' = Following(generation)
  /\ ring' = saving
  /\ saving' = Nothing
  /\ attempts' = {}
  /\ UNCHANGED running

SaveFails ==
  /\ saving # Nothing
  /\ \E remains \in Remains(saving) : slots' = [slots EXCEPT ![Target] = remains]
  /\ saving' = Nothing
  /\ UNCHANGED <<generation, ring, running, attempts>>

-----------------------------------------------------------------------------
(* load.                                                                   *)

Valid(key) == slots'[key] \in Images

Newer(a, b) == LET d == (a - b) % Wrap IN d # 0 /\ d < Half

\* The image in force: the newer one of two, the valid one of one.
Chosen(key) ==
  /\ Valid(key)
  /\ LET other == 1 - key
     IN  Valid(other) =>
           IF key = 0
           THEN Newer(slots'[0].generation, slots'[1].generation)
           ELSE ~Newer(slots'[0].generation, slots'[1].generation)

\* load on the keys of the next state.
Load ==
  \/ \E key \in Keys :
       /\ Chosen(key)
       /\ ring' = slots'[key].ring
       /\ generation' = slots'[key].generation
       /\ attempts' = {}
       /\ running' = TRUE
  \/ /\ \A key \in Keys : ~Valid(key)
     /\ ring' = Empty
     /\ generation' = 0
     /\ running' = (\A key \in Keys : slots'[key] = Absent)
     /\ attempts' = IF running' THEN {} ELSE attempts

\* A restart at any time, also in the middle of a write.
Restart ==
  /\ \/ saving = Nothing /\ slots' = slots
     \/ /\ saving # Nothing
        /\ \E remains \in Remains(saving) : slots' = [slots EXCEPT ![Target] = remains]
  /\ saving' = Nothing
  /\ Load

\* clear, followed by the restart of performFactoryReset.
FactoryReset ==
  /\ running
  /\ saving = Nothing
  /\ slots' = [key \in Keys |-> Absent]
  /\ saving' = Nothing
  /\ Load

-----------------------------------------------------------------------------
Init ==
  /\ slots = [key \in Keys |-> Absent]
  /\ generation = 0
  /\ ring = Empty
  /\ saving = Nothing
  /\ running = TRUE
  /\ attempts = {}

Next ==
  \/ \E r \in Rings : BeginSave(r)
  \/ SaveSucceeds
  \/ SaveFails
  \/ Restart
  \/ FactoryReset

Spec == Init /\ [][Next]_vars

-----------------------------------------------------------------------------
(* Properties.                                                             *)

TypeOK ==
  /\ slots \in [Keys -> Images \cup {Absent, Torn}]
  /\ generation \in Generations
  /\ ring \in Rings
  /\ saving \in Rings \cup {Nothing}
  /\ running \in BOOLEAN
  /\ attempts \in SUBSET Rings

\* What makes the two keys enough.  The image in force is the saved ring; the
\* other key holds the generation before it, or something that was tried since.
InForce == slots[KeyOf(generation)] = [generation |-> generation, ring |-> ring]

Fresh ==
  /\ generation = 0 /\ ring = Empty
  /\ slots[0] = Absent
  /\ slots[1] = Torn => attempts # {}

OtherKey ==
  LET other == slots[1 - KeyOf(generation)]
  IN  \/ other \in {Absent, Torn}
      \/ /\ other \in Images
         /\ other.generation = Following(generation)
         /\ other.ring \in attempts
      \/ /\ other \in Images
         /\ InForce
         /\ Following(other.generation) = generation

Refused ==
  /\ ring = Empty /\ saving = Nothing /\ attempts # {}
  /\ \A key \in Keys : slots[key] \notin Images
  /\ \E key \in Keys : slots[key] # Absent

\* The keys always tell what a restart has to know (load and save of
\* PersistentHistoryStore); the store is refused only when no save has ever
\* succeeded and one was cut off.
Usable ==
  IF running
  THEN /\ InForce \/ Fresh
       /\ OtherKey
       /\ saving # Nothing => saving \in attempts
  ELSE Refused

\* Whatever saves fail or are cut off by a restart, and however often the
\* generation wraps, the history that comes back is the last one saved or one
\* whose save was tried since (PersistentHistoryStore::load and save).
D == INSTANCE DurableRing
ImplementsDurableRing == D!Spec
=============================================================================
