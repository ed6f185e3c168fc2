-------------------------- MODULE ScheduleCalendar --------------------------
(***************************************************************************)
(* The days a train runs (libs/gtfs/src/model/ScheduleCalendar.ts): a      *)
(* range of dates, the days of the week in it and the dates left out.      *)
(* Dates are numbered from a Sunday; 0 is a Sunday in a mask of days.      *)
(***************************************************************************)
EXTENDS Integers

Week == 0..6
DayOfWeek(date) == date % 7

Calendar == [runsFrom : Int, runsTo : Int, days : SUBSET Week, excludeDays : SUBSET Int]

Earliest(d, e) == IF d <= e THEN d ELSE e
Latest(d, e) == IF d >= e THEN d ELSE e

RunsOn(cal, date) ==
    /\ cal.runsFrom <= date /\ date <= cal.runsTo
    /\ DayOfWeek(date) \in cal.days
    /\ date \notin cal.excludeDays

\* The dates a calendar runs, which is what a passenger sees of it.
Runs(cal) == {date \in cal.runsFrom..cal.runsTo : RunsOn(cal, date)}

IsEmpty(cal) ==
    \A date \in cal.runsFrom..cal.runsTo :
        DayOfWeek(date) \in cal.days => date \in cal.excludeDays

\* Mutant: the last day both calendars reach is not looked at.
SharedDaysShort(cal, overlay) ==
    {date \in Latest(cal.runsFrom, overlay.runsFrom)..(Earliest(cal.runsTo, overlay.runsTo) - 1) :
        /\ DayOfWeek(date) \in cal.days \cap overlay.days
        /\ date \notin cal.excludeDays \cup overlay.excludeDays}

\* Mutant: every day of the overlay's range is excluded, run or not.
SharedDaysRange(cal, overlay) ==
    {date \in Latest(cal.runsFrom, overlay.runsFrom)..Earliest(cal.runsTo, overlay.runsTo) :
        DayOfWeek(date) \in cal.days /\ date \notin cal.excludeDays}

\* The days both run, the exclusions of either accounted for.
SharedDays(cal, overlay) ==
    {date \in Latest(cal.runsFrom, overlay.runsFrom)..Earliest(cal.runsTo, overlay.runsTo) :
        /\ DayOfWeek(date) \in cal.days \cap overlay.days
        /\ date \notin cal.excludeDays \cup overlay.excludeDays}

GetOverlap(cal, overlay) ==
    /\ cal.days \cap overlay.days # {}
    /\ SharedDays(cal, overlay) # {}

\* The days of a calendar in another range, without some days of the week.  An
\* exclusion outside the range is dropped.
Clone(cal, start, end, removeDays, excludeDays) ==
    [runsFrom |-> start,
     runsTo |-> end,
     days |-> cal.days \ removeDays,
     excludeDays |-> {date \in excludeDays : start <= date /\ date <= end}]

Intersect(cal, other) ==
    Clone(cal,
          Latest(cal.runsFrom, other.runsFrom),
          Earliest(cal.runsTo, other.runsTo),
          Week \ other.days,
          cal.excludeDays \cup other.excludeDays)

\* What is left of a calendar under another; where that is empty the code
\* answers null in its place.
AddExcludeDays(cal, overlay) ==
    Clone(cal, cal.runsFrom, cal.runsTo, {}, cal.excludeDays \cup SharedDays(cal, overlay))

\* The same days, each told a day later or a day earlier.
Shift(cal, by) ==
    [runsFrom |-> cal.runsFrom + by,
     runsTo |-> cal.runsTo + by,
     days |-> {(day + by) % 7 : day \in cal.days},
     excludeDays |-> {date + by : date \in cal.excludeDays}]

ShiftForward(cal) == Shift(cal, 1)
ShiftBackward(cal) == Shift(cal, -1)
=============================================================================
