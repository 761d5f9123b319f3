-------------------------- MODULE DashboardCalendar --------------------------
(***************************************************************************)
(* The calendar windows of the operator's dashboard: an ISO week or a      *)
(* month, as days.  Day 0 is Monday, 1 January of the year 1; hours and    *)
(* the spelling of the calendar key are left out, the key is a pair        *)
(* <<year, week>> or <<year, month>>, and <<>> asks for the current one.   *)
(***************************************************************************)
EXTENDS Integers, Sequences

----------------------------------------------------------------------------
(* What the code takes from the package time.                              *)

LeapYear(y) == y % 4 = 0 /\ (y % 100 # 0 \/ y % 400 = 0)

FirstDay(y) ==
    LET past == y - 1
    IN  365 * past + (past \div 4) - (past \div 100) + (past \div 400)

MonthLength(y, m) ==
    IF m = 2 THEN IF LeapYear(y) THEN 29 ELSE 28
    ELSE IF m \in {4, 6, 9, 11} THEN 30 ELSE 31

DaysBefore(y) ==
    LET d[m \in 1..12] == IF m = 1 THEN 0 ELSE d[m - 1] + MonthLength(y, m - 1)
    IN  d

Date(y, m, day) == FirstDay(y) + DaysBefore(y)[m] + day - 1

YearOf(d) ==
    CHOOSE y \in (d \div 366)..((d \div 365) + 1) : FirstDay(y) <= d /\ d < FirstDay(y + 1)

MonthOf(d) ==
    CHOOSE m \in 1..12 :
        LET first == Date(YearOf(d), m, 1)
        IN  first <= d /\ d < first + MonthLength(YearOf(d), m)

\* Sunday is 0.
Weekday(d) == (d + 1) % 7

\* The week of a day is that of its Thursday.
ISOWeek(d) ==
    LET thursday == d - (d % 7) + 3
        year == YearOf(thursday)
    IN  <<year, ((thursday - FirstDay(year)) \div 7) + 1>>

----------------------------------------------------------------------------
isoWeekStart(year, week) ==
    LET januaryFourth == Date(year, 1, 4)
    IN  januaryFourth - ((Weekday(januaryFourth) + 6) % 7) + (week - 1) * 7

NoWindow == [start |-> 0, end |-> 0]

weekWindow(calendarKey, now) ==
    LET current == ISOWeek(now)
        key == IF calendarKey = <<>> THEN current ELSE calendarKey
        start == isoWeekStart(key[1], key[2])
    IN  IF ISOWeek(start) # key \/ start > isoWeekStart(current[1], current[2])
        THEN NoWindow
        ELSE [start |-> start, end |-> start + 7]

monthWindow(calendarKey, now) ==
    LET currentStart == Date(YearOf(now), MonthOf(now), 1)
        key == IF calendarKey = <<>> THEN <<YearOf(now), MonthOf(now)>> ELSE calendarKey
        start == Date(key[1], key[2], 1)
    IN  IF key[2] \notin 1..12 THEN NoWindow
        ELSE IF start > currentStart THEN NoWindow
        ELSE [start |-> start, end |-> start + MonthLength(key[1], key[2])]

\* NoWindow is an error: the period or the calendar key is invalid.
uiDashboardWindow(period, calendarKey, now) ==
    CASE period = "week"  -> weekWindow(calendarKey, now)
      [] period = "month" -> monthWindow(calendarKey, now)
      [] OTHER            -> NoWindow

\* One bucket for every day of the window.
buckets(window) == 0..(window.end - window.start - 1)
=============================================================================
