--------------------------- MODULE MCRuleConditions ---------------------------
(***************************************************************************)
(* The two kinds of condition that keep a memory: of a channel's samples   *)
(* (ChannelRule) and of the minute of the day (TimedRule).  Each belongs   *)
(* to a rule of its own; a behaviour moves one, which "focus" names.       *)
(***************************************************************************)
EXTENDS MCChannelRule, TimedRule

\* 1 January of a leap year, of a century that is none and of one that is.
Start(minutes, days, year, weekday) ==
  [unix |-> minutes, length |-> days * 1440,
   date |-> [year |-> year, month |-> 1, day |-> 1, weekday |-> weekday, minute |-> 0]]
MCStarts ==
  {Start(28401120, 397, 2024, 1), Start(68374080, 70, 2100, 5), Start(15778080, 70, 2000, 6)}

\* Central Europe, New York, Lord Howe Island (half an hour, southern), Asuncion
\* (back across midnight) and India (none).
Sunday(month, week, minute) ==
  [month |-> month, week |-> week, weekday |-> 7, minute |-> minute]
Zone(offset, bias, start, end) ==
  [offset |-> offset, enabled |-> bias > 0, bias |-> bias, start |-> start, end |-> end]
MCZones ==
  {Zone(60, 60, Sunday(3, 5, 120), Sunday(10, 5, 180)),
   Zone(-300, 60, Sunday(3, 2, 120), Sunday(11, 1, 120)),
   Zone(630, 30, Sunday(10, 1, 120), Sunday(4, 1, 120)),
   Zone(-240, 60, Sunday(10, 1, 0), Sunday(3, 4, 0)),
   Zone(330, 0, Sunday(3, 5, 120), Sunday(10, 5, 180))}

\* Minutes that a zone above shows twice, or not at all, on one of the days.
MCConditions ==
  {[mode |-> "weekdays", days |-> {1, 7}, minute |-> 150],
   [mode |-> "days", days |-> {23, 29, 31}, minute |-> 1410]}

VARIABLE focus

MCInit ==
  /\ focus \in {"channel", "time"}
  /\ Init
  /\ TimedInit
  /\ focus = "channel" =>
       /\ zone.bias = 0
       /\ unix = 28401120
       /\ condition.mode = "days"
  /\ focus = "time" => plan = Condition("above", 0, 0, 0) /\ enabled

MCNext ==
  /\ UNCHANGED focus
  /\ \/ focus = "channel" /\ Next /\ UNCHANGED timedVars
     \/ focus = "time" /\ TimedNext /\ UNCHANGED vars

MCSpec == MCInit /\ [][MCNext]_<<focus, vars, timedVars>>
=============================================================================
