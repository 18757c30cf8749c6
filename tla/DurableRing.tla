----------------------------- MODULE DurableRing -----------------------------
(***************************************************************************)
(* What the persistent history promises: the ring that was saved last is   *)
(* the ring a restart brings back, unless a later save was tried and did   *)
(* not return success; then it is that ring or the tried one, whole.       *)
(***************************************************************************)
CONSTANTS
  Rings,  \* contents of the history ring
  Empty   \* the ring without records

VARIABLES
  ring,      \* the records of the running gateway
  attempts,  \* rings whose save was tried since "ring" was saved or loaded
  running    \* FALSE: the store is refused at start-up

Init == ring = Empty /\ attempts = {} /\ running = TRUE

Attempt(r) ==
  /\ running
  /\ attempts' = attempts \cup {r}
  /\ UNCHANGED <<ring, running>>

Acknowledge(r) ==
  /\ running
  /\ r \in attempts
  /\ ring' = r
  /\ attempts' = {}
  /\ UNCHANGED running

Restart(r) ==
  /\ running
  /\ r \in {ring} \cup attempts
  /\ ring' = r
  /\ attempts' = {}
  /\ UNCHANGED running

\* Only a store in which no save has succeeded may be refused.
Refuse ==
  /\ ring = Empty
  /\ attempts # {}
  /\ running' = FALSE
  /\ UNCHANGED <<ring, attempts>>

Forget ==
  /\ running
  /\ ring' = Empty
  /\ attempts' = {}
  /\ UNCHANGED running

Next ==
  \/ \E r \in Rings : Attempt(r) \/ Acknowledge(r) \/ Restart(r)
  \/ Refuse
  \/ Forget

vars == <<ring, attempts, running>>
Spec == Init /\ [][Next]_vars
=============================================================================
