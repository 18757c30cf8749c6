------------------------------ MODULE EventLog ------------------------------
(***************************************************************************)
(* What the Core event bus promises its consumers: an append-only log of   *)
(* which the last Capacity events are retained.  A consumer reads it in    *)
(* order from a cursor of its own, skips the events that are no longer     *)
(* retained, and is told exactly how many it skipped.                      *)
(***************************************************************************)
EXTENDS Integers, Sequences

CONSTANTS
  Events,   \* what an event can say
  Capacity  \* number of events retained

VARIABLES
  log,     \* all events emitted since boot
  cursor,  \* number of the last event the consumer has accounted for
  message  \* the last message the consumer published, <<>> before the first

logVars == <<log, cursor, message>>

\* Number of the oldest event that is still retained.
Oldest == IF Len(log) > Capacity THEN Len(log) - Capacity + 1 ELSE 1

Target == IF cursor + 1 < Oldest THEN Oldest ELSE cursor + 1

Init ==
  /\ log = <<>>
  /\ cursor = 0
  /\ message = <<>>

Append1(event) ==
  /\ log' = Append(log, event)
  /\ UNCHANGED <<cursor, message>>

Publish ==
  /\ cursor < Len(log)
  /\ cursor' = Target
  /\ message' = <<Target, log[Target], Target - cursor - 1>>
  /\ UNCHANGED log

Next == Publish \/ \E event \in Events : Append1(event)

Spec == Init /\ [][Next]_logVars
=============================================================================
