--------------------------- MODULE MCAdministration ---------------------------
(***************************************************************************)
(* Small instances of what an administrator relies on: the stored history  *)
(* (HistoryStore), the stored configuration (Configuration) and the access *)
(* to the Web UI (WebAccess).  They have no state in common, so a          *)
(* behaviour moves one of them, which "focus" names.                       *)
(***************************************************************************)
EXTENDS HistoryStore, Configuration, WebAccess

VARIABLES focus

MCInit ==
  /\ focus \in {"history", "settings", "access"}
  /\ Init /\ ConfigInit /\ AccessInit
  /\ focus # "settings" => flash.schema = 0

MCNext ==
  /\ UNCHANGED focus
  /\ \/ focus = "history" /\ Next /\ UNCHANGED <<configVars, accessVars>>
     \/ focus = "settings" /\ ConfigNext /\ UNCHANGED <<vars, accessVars>>
     \/ focus = "access" /\ AccessNext /\ UNCHANGED <<vars, configVars>>

MCSpec == MCInit /\ [][MCNext]_<<focus, vars, configVars, accessVars>>
=============================================================================
