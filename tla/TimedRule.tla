------------------------------ MODULE TimedRule ------------------------------
(***************************************************************************)
(* A rule with a time condition (matchesTimeCondition in                   *)
(* rules/RuleExecution.h), its step in processRuleExecution, and local     *)
(* time as time/LocalTime.h computes it: calendar arithmetic on the Unix   *)
(* time, and daylight time from the two transitions of the year.           *)
(*                                                                         *)
(* Time counts in minutes: offsets, bias and transitions are whole minutes *)
(* and nothing looks at seconds.  The settings are valid, as the store and *)
(* the downlinks make sure; the bits of a frame's mask are a set.          *)
(***************************************************************************)
EXTENDS Integers

CONSTANTS
  Zones,       \* settings: offset, enabled, bias, start and end of daylight time
  Starts,      \* instants whose date is known: unix, the date at UTC, and how
               \* long the behaviour lasts (bound)
  Step,        \* minutes the clock moves at a time
  Conditions,  \* time conditions: mode, the days of the mask, minute of the day
  NoDate       \* no date

\* A behaviour lasts at most 120 years: the clock is a uint32_t of seconds, and
\* the seven bits of a year in localMinuteKey repeat after 128.
LongestLife == 43800 * 1440

ASSUME TimeAssumption ==
  /\ Step \in Nat
  /\ \A z \in Zones : z.offset \in Int /\ z.bias \in 0 .. 120
  /\ \A start \in Starts : start.unix \in Int /\ start.length \in 0 .. LongestLife

VARIABLES
  unix,       \* time(nullptr), in minutes
  until,      \* bound: the end of the behaviour
  zone,       \* timeSettings_
  condition,  \* the condition of the rule
  date,       \* local, of the last iteration
  daylight,   \* what dstActiveForStandardLocalSeconds said of it
  lastKey,    \* lastRuleMinuteKey_ of the rule
  fired,      \* history variable: the local date of the last trigger, and the
              \* number of triggers on it
  shown       \* history variable: the local date on which the clock last
              \* showed the condition's minute, on a day of the mask

timedVars == <<unix, until, zone, condition, date, daylight, lastKey, fired, shown>>

-----------------------------------------------------------------------------
(* The calendar.  Years begin in March, in eras of 400 years.              *)

\* The days of an era, and those from 1 March 0000 to 1 January 1970.
EraDays == 146097
Epoch == 719468

DaysFromCivil(year, month, day) ==
  LET y   == IF month <= 2 THEN year - 1 ELSE year
      yoe == y % 400
      doy == (153 * (IF month > 2 THEN month - 3 ELSE month + 9) + 2) \div 5 + day - 1
      doe == yoe * 365 + yoe \div 4 - yoe \div 100 + doy
  IN  (y \div 400) * EraDays + doe - Epoch

LeapYear(year) == (year % 4 = 0 /\ year % 100 # 0) \/ year % 400 = 0

DaysInMonth(year, month) ==
  IF month = 2 /\ LeapYear(year) THEN 29
  ELSE <<31, 28, 31, 30, 31, 30, 31, 31, 30, 31, 30, 31>>[month]

IsoWeekday(year, month, day) == ((DaysFromCivil(year, month, day) + 3) % 7) + 1

TransitionDayOfMonth(year, t) ==
  LET last == DaysInMonth(year, t.month)
  IN  IF t.week < 5
      THEN 1 + ((7 + t.weekday - IsoWeekday(year, t.month, 1)) % 7) + (t.week - 1) * 7
      ELSE last - ((7 + IsoWeekday(year, t.month, last) - t.weekday) % 7)

\* localSecondsForTransition
LocalTransition(year, t) ==
  DaysFromCivil(year, t.month, TransitionDayOfMonth(year, t)) * 1440 + t.minute

\* yoe and doy of dateTimeFromEpoch: the year of the era in which its day doe is,
\* and the day of that year
YearInEra(doe) == (doe - doe \div 1460 + doe \div 36524 - doe \div 146096) \div 365
DayInYear(doe, yoe) == doe - (365 * yoe + yoe \div 4 - yoe \div 100)

\* What localDateTime says: the hour and minute are one number.
LocalDateTime(year, month, day, minute) ==
  [year |-> year, month |-> month, day |-> day,
   weekday |-> IsoWeekday(year, month, day), minute |-> minute]

DateTimeFromEpoch(minutes) ==
  LET z   == minutes \div 1440 + Epoch
      doe == z % EraDays
      yoe == YearInEra(doe)
      mp  == (5 * DayInYear(doe, yoe) + 2) \div 153
      day == DayInYear(doe, yoe) - (153 * mp + 2) \div 5 + 1
      month == IF mp < 10 THEN mp + 3 ELSE mp - 9
      year  == yoe + (z \div EraDays) * 400 + (IF month <= 2 THEN 1 ELSE 0)
  IN  LocalDateTime(year, month, day, minutes % 1440)

\* validDstTransition
ValidTransition(t) ==
  /\ t.month \in 1 .. 12 /\ t.week \in 1 .. 5 /\ t.weekday \in 1 .. 7
  /\ t.minute \in Nat /\ t.minute <= 1439

\* The settings are valid, as validUtcOffsetMinutes and validDstSettings check, and
\* on the clock's steps; so are the starts, whose dates are true.
ASSUME ZoneAssumption ==
  /\ 0 < Step /\ Step < 1440 /\ 1440 % Step = 0
  /\ \A start \in Starts :
       start.unix % Step = 0 /\ start.date = DateTimeFromEpoch(start.unix)
  /\ \A z \in Zones :
       /\ -720 <= z.offset /\ z.offset <= 840 /\ z.offset % Step = 0 /\ z.bias % Step = 0
       /\ z.enabled \in BOOLEAN
       /\ z.enabled =>
            /\ ValidTransition(z.start) /\ z.start.minute % Step = 0
            /\ ValidTransition(z.end) /\ z.end.minute % Step = 0

\* dstActiveForStandardLocalSeconds
DstActive_EndUnshifted(standard) ==
  LET year  == DateTimeFromEpoch(standard).year
      start == LocalTransition(year, zone.start)
      end   == LocalTransition(year, zone.end)
  IN  /\ zone.enabled
      /\ IF start < end THEN standard >= start /\ standard < end
         ELSE standard >= start \/ standard < end
DstActive(standard) ==
  LET year  == DateTimeFromEpoch(standard).year
      start == LocalTransition(year, zone.start)
      end   == LocalTransition(year, zone.end) - zone.bias
  IN  /\ zone.enabled
      /\ IF start < end THEN standard >= start /\ standard < end
         ELSE standard >= start \/ standard < end

\* localDateTime, of the Unix time u.
Standard(u) == u + zone.offset
Localized(u) ==
  /\ daylight' = DstActive(Standard(u))
  /\ date' = DateTimeFromEpoch(Standard(u) + (IF daylight' THEN zone.bias ELSE 0))

-----------------------------------------------------------------------------
(* The rule.                                                               *)

Matches(local) ==
  /\ local.minute = condition.minute
  /\ (IF condition.mode = "weekdays" THEN local.weekday ELSE local.day) \in condition.days

MinuteKey_Daylight(local) ==
  <<(local.year - 2000) % 128, local.month, local.day,
    local.minute + (IF daylight' THEN 1440 ELSE 0)>>
MinuteKey(local) == <<(local.year - 2000) % 128, local.month, local.day, local.minute>>

NoKey == <<0, 0, 0, 0>>
DateOf(local) == <<local.year, local.month, local.day>>

TimedInit ==
  /\ \E start \in Starts : unix = start.unix /\ until = start.unix + start.length
  /\ zone \in Zones
  /\ condition \in Conditions
  /\ daylight = DstActive(Standard(unix))
  /\ date = DateTimeFromEpoch(Standard(unix) + (IF daylight THEN zone.bias ELSE 0))
  /\ lastKey = NoKey /\ fired = [on |-> NoDate, times |-> 0] /\ shown = NoDate

\* The rule in processRuleExecution.
Evaluate(local) ==
  IF Matches(local)
  THEN /\ lastKey' = MinuteKey(local)
       /\ fired' =
            IF lastKey = MinuteKey(local) THEN fired
            ELSE [on |-> DateOf(local),
                  times |-> IF fired.on = DateOf(local) THEN fired.times + 1 ELSE 1]
       /\ shown' = DateOf(local)
  ELSE UNCHANGED <<lastKey, fired, shown>>

\* Iterations of the loop: the first one in a minute, and any other.
Pass(minutes) ==
  /\ unix + minutes <= until
  /\ unix' = unix + minutes
  /\ Localized(unix')
  /\ Evaluate(date')
  /\ UNCHANGED <<until, zone, condition>>

\* The loop goes on after the bound.
TimedNext == Pass(0) \/ Pass(Step)

TimedSpec == TimedInit /\ [][TimedNext]_timedVars

-----------------------------------------------------------------------------
(* Properties.                                                             *)

\* The arithmetic on the Unix time is a wall clock with a calendar: across leap
\* days, centuries, ends of months and years, and both transitions, in zones on
\* both hemispheres.
Wall == INSTANCE WallClock
ImplementsWallClock == Wall!Spec

\* A timed rule runs on every day of its mask on which the clock shows its
\* minute, and once: also on the day on which the clock shows it twice.
TimedRuleOnceADay == shown # NoDate => fired = [on |-> shown, times |-> 1]
=============================================================================
