--------------------------- MODULE MCModbusPoller ---------------------------
(***************************************************************************)
(* A small instance of ModbusPoller, the component and its transactions,   *)
(* and one of ModbusRtu, the frames on the line.  The first takes results  *)
(* for granted that the second is about; a behaviour moves one of them,    *)
(* which "focus" names.                                                    *)
(***************************************************************************)
EXTENDS ModbusPoller, ModbusRtu

CONSTANTS s1, s2

Read(slave, count) ==
  [kind |-> "read", slave |-> slave, function |-> "read",
   address |-> 1, count |-> count, value |-> 1]
Write(function, value) ==
  [kind |-> "write", slave |-> 1, function |-> function,
   address |-> 1, count |-> 0, value |-> value]

MCRequests ==
  {Read(1, 1), Read(1, 2), Read(2, 1), [Read(1, 1) EXCEPT !.kind = "raw"],
   Write("single", 1), Write("single", 2), Write("multiple", 1), Write("multiple", 2)}

VARIABLE focus

MCInit ==
  /\ focus \in {"component", "line"}
  /\ Init /\ LineInit
  /\ focus = "line" => mode = "active"

\* All requests are sent and answered.
LineIsQuiet == Len(sent) = 2 /\ active = 0 /\ talking = Silent /\ UNCHANGED lineVars

MCNext ==
  /\ UNCHANGED focus
  /\ \/ focus = "component" /\ Next /\ UNCHANGED lineVars
     \/ focus = "line" /\ (LineNext \/ LineIsQuiet) /\ UNCHANGED vars

Component(A) == focus = "component" /\ A

\* The fairness of ModbusPoller, in its own behaviours.
MCSpec ==
  /\ MCInit /\ [][MCNext]_<<focus, vars, lineVars>>
  /\ WF_vars(Component(Capture)) /\ WF_vars(Component(SendReturns))
  /\ WF_vars(Component(SendUplink \/ UplinkFails))
  /\ SF_vars(Component(\E ok \in BOOLEAN : StartRead(ok)))
  /\ SF_vars(Component(\E ok \in BOOLEAN : StartRaw(ok)))
  /\ SF_vars(Component(\E ok \in BOOLEAN : StartWrite(ok)))
  /\ SF_vars(Component(\E ok \in BOOLEAN : EndRead(ok) \/ EndWrite(ok) \/ EndRaw(ok)))
=============================================================================
