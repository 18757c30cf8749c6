--------------------------- MODULE MCHistoryUpload ---------------------------
(* Small instances of HistoryUpload. *)
EXTENDS HistoryUpload

\* A range with everything, one the code refuses, and a point with no record near
\* it in some states.
MCQueries == {[kind |-> "range", start |-> 1, end |-> 9],
              [kind |-> "range", start |-> 2, end |-> 1],
              [kind |-> "point", start |-> 2, end |-> 0]}

\* A restart forgets all queries, so they are explored before it: none comes later.
QueriesFirst ==
  restarts' > 0 => \A i \in 1 .. Len(stack') : stack'[i].from = "retransmission"
MCSpec == Init /\ [][Next /\ QueriesFirst]_vars

MCRange == {[kind |-> "range", start |-> 1, end |-> 9]}
=============================================================================
