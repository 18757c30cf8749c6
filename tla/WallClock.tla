------------------------------ MODULE WallClock ------------------------------
(***************************************************************************)
(* What local time promises: a clock on the wall that runs on by Step      *)
(* minutes, turns the leaf of a calendar at midnight, and is put forward   *)
(* and back at the two transitions of the zone, each read off that clock   *)
(* and that calendar.                                                      *)
(***************************************************************************)
EXTENDS Integers

CONSTANTS
  Zones,   \* settings: offset, enabled, bias, start and end of daylight time
  Starts,  \* instants whose date is known: unix and the date at UTC
  Step     \* minutes the clock moves at a time

VARIABLES
  zone,      \* the settings in force
  date,      \* year, month, day, weekday (Monday = 1), minute of the day
  daylight   \* the clock is put forward

Leap(year) == year % 4 = 0 /\ (year % 100 # 0 \/ year % 400 = 0)

Length(year, month) ==
  IF month = 2 THEN IF Leap(year) THEN 29 ELSE 28
  ELSE IF month \in {4, 6, 9, 11} THEN 30 ELSE 31

Tomorrow(d) ==
  LET weekday == (d.weekday % 7) + 1
  IN  IF d.day < Length(d.year, d.month)
      THEN [d EXCEPT !.day = @ + 1, !.weekday = weekday]
      ELSE IF d.month < 12
      THEN [d EXCEPT !.month = @ + 1, !.day = 1, !.weekday = weekday]
      ELSE [d EXCEPT !.year = @ + 1, !.month = 1, !.day = 1, !.weekday = weekday]

Yesterday(d) ==
  LET weekday == IF d.weekday = 1 THEN 7 ELSE d.weekday - 1
  IN  IF d.day > 1
      THEN [d EXCEPT !.day = @ - 1, !.weekday = weekday]
      ELSE IF d.month > 1
      THEN [d EXCEPT !.month = @ - 1, !.day = Length(d.year, d.month - 1), !.weekday = weekday]
      ELSE [d EXCEPT !.year = @ - 1, !.month = 12, !.day = 31, !.weekday = weekday]

\* The clock moved by less than a day.
Moved(d, minutes) ==
  LET m == d.minute + minutes
  IN  IF m >= 1440 THEN [Tomorrow(d) EXCEPT !.minute = m - 1440]
      ELSE IF m < 0 THEN [Yesterday(d) EXCEPT !.minute = m + 1440]
      ELSE [d EXCEPT !.minute = m]

\* It is the minute of transition t: on the week-th such weekday of the month,
\* or on the last one.
At(d, t) ==
  /\ d.month = t.month /\ d.weekday = t.weekday /\ d.minute = t.minute
  /\ IF t.week < 5 THEN (d.day - 1) \div 7 + 1 = t.week
     ELSE d.day + 7 > Length(d.year, d.month)

Init ==
  /\ zone \in Zones
  /\ daylight \in BOOLEAN
  /\ \E start \in Starts :
       date = Moved(start.date, zone.offset + (IF daylight THEN zone.bias ELSE 0))

Tick ==
  LET moved == Moved(date, Step)
      forward == zone.enabled /\ ~daylight /\ At(moved, zone.start)
      back == daylight /\ At(moved, zone.end)
  IN  /\ date' = IF forward THEN Moved(moved, zone.bias)
                 ELSE IF back THEN Moved(moved, -zone.bias) ELSE moved
      /\ daylight' = IF daylight THEN ~back ELSE forward
      /\ UNCHANGED zone

Spec == Init /\ [][Tick]_<<zone, date, daylight>>
=============================================================================
