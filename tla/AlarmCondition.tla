--------------------------- MODULE AlarmCondition ---------------------------
(* What the channel condition of a rule promises to the rest of the        *)
(* firmware.  A condition is raised or not, and each evaluation gives one  *)
(* event.  Only a trigger raises it, and it falls only with a release: no  *)
(* raised condition is forgotten and no release comes unasked.  Disabling  *)
(* or rewriting the rule changes nothing here, for the runtime state is    *)
(* kept per rule number; so a condition on changes, which raises nothing,  *)
(* may be set while the one before it is still raised.                     *)
-----------------------------------------------------------------------------
VARIABLES raised, event

vars == <<raised, event>>

\* What evaluateChannelRules asks scheduleRuleActions for.
Events == {"none", "trigger", "release"}

\* The outcomes of an evaluation, by whether the condition was raised.
Outcomes(isRaised) ==
  {[event |-> "none", raised |-> isRaised], [event |-> "trigger", raised |-> TRUE]}
    \cup IF isRaised THEN {[event |-> "release", raised |-> FALSE]}
                     ELSE {[event |-> "trigger", raised |-> FALSE]}

Init == raised = FALSE /\ event = "none"

Evaluate ==
  \E outcome \in Outcomes(raised) : event' = outcome.event /\ raised' = outcome.raised

Next == Evaluate

Spec == Init /\ [][Next]_vars
=============================================================================
