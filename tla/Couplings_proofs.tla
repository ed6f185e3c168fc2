-------------------------- MODULE Couplings_proofs --------------------------
(***************************************************************************)
(* For any timetable and any associations: each day of a train is run by   *)
(* its schedules through every cut, and a published coupling is of two     *)
(* trips that leave together as its association says.                      *)
(***************************************************************************)
EXTENDS Couplings, SequenceTheorems, FiniteSetTheorems, TLAPS

-----------------------------------------------------------------------------
(* What the operations of a calendar do to the dates it runs: each is an      *)
(* operation on sets of dates                                                *)

\* A date is in Runs exactly when the calendar runs on it.
LEMMA RunsIsRunsOn ==
    ASSUME NEW cal \in Calendar, NEW date \in Int
    PROVE  date \in Runs(cal) <=> RunsOn(cal, date)
BY DEF Runs, RunsOn, Calendar

\* Every date a calendar runs is a date.
LEMMA RunsType ==
    ASSUME NEW cal \in Calendar
    PROVE  Runs(cal) \subseteq Int
BY DEF Runs, Calendar

\* Every date has a day of the week.
LEMMA DayOfWeekType ==
    ASSUME NEW date \in Int
    PROVE  DayOfWeek(date) \in Week
BY SMT DEF DayOfWeek, Week

\* A calendar is empty exactly when it runs on no date: what getOverlap and the
\* null of addExcludeDays are decided by.
LEMMA IsEmptyIsNoRuns ==
    ASSUME NEW cal \in Calendar
    PROVE  IsEmpty(cal) <=> Runs(cal) = {}
BY DEF IsEmpty, Runs, RunsOn, Calendar

\* The walk over the days both calendars reach finds the dates both run.
LEMMA SharedDaysAreRunByBoth ==
    ASSUME NEW cal \in Calendar, NEW overlay \in Calendar
    PROVE  SharedDays(cal, overlay) = Runs(cal) \cap Runs(overlay)
BY DEF SharedDays, Runs, RunsOn, Calendar, Latest, Earliest

\* The masks need not be compared first: getOverlap answers whether there is a
\* date both run.
LEMMA GetOverlapIsRunByBoth ==
    ASSUME NEW cal \in Calendar, NEW overlay \in Calendar
    PROVE  GetOverlap(cal, overlay) <=> Runs(cal) \cap Runs(overlay) # {}
<1>1. SharedDays(cal, overlay) # {} => cal.days \cap overlay.days # {}
    BY DEF SharedDays
<1> QED BY <1>1, SharedDaysAreRunByBoth DEF GetOverlap

\* A calendar cut to two dates is a calendar.
LEMMA CloneType ==
    ASSUME NEW cal \in Calendar, NEW start \in Int, NEW end \in Int,
           NEW removeDays, NEW excludeDays \in SUBSET Int
    PROVE  Clone(cal, start, end, removeDays, excludeDays) \in Calendar
BY DEF Clone, Calendar

\* A calendar under another runs on exactly the dates it ran that the other
\* does not: no date is lost and none is kept by both (addExcludeDays).
THEOREM AddExcludeDaysIsDifference ==
    ASSUME NEW cal \in Calendar, NEW overlay \in Calendar
    PROVE  /\ AddExcludeDays(cal, overlay) \in Calendar
           /\ Runs(AddExcludeDays(cal, overlay)) = Runs(cal) \ Runs(overlay)
<1> DEFINE left == AddExcludeDays(cal, overlay)
<1>1. SharedDays(cal, overlay) = Runs(cal) \cap Runs(overlay)
    BY SharedDaysAreRunByBoth
<1>2. cal.excludeDays \cup SharedDays(cal, overlay) \in SUBSET Int
    BY <1>1, RunsType DEF Calendar
<1>3. left \in Calendar
    BY <1>2, CloneType DEF AddExcludeDays, Calendar
<1>4. ASSUME NEW date \in Int
      PROVE  date \in Runs(left) <=> date \in Runs(cal) /\ date \notin Runs(overlay)
    BY <1>1 DEF AddExcludeDays, Clone, Runs, RunsOn, Calendar
<1> QED BY <1>3, <1>4, RunsType

\* The intersection of two calendars runs on the dates both run, also when their
\* ranges do not meet (intersect).
THEOREM IntersectIsIntersection ==
    ASSUME NEW cal \in Calendar, NEW other \in Calendar
    PROVE  /\ Intersect(cal, other) \in Calendar
           /\ Runs(Intersect(cal, other)) = Runs(cal) \cap Runs(other)
<1> DEFINE both == Intersect(cal, other)
<1>1. both \in Calendar
    BY CloneType DEF Intersect, Calendar, Latest, Earliest
<1>2. ASSUME NEW date \in Int
      PROVE  date \in Runs(both) <=> date \in Runs(cal) /\ date \in Runs(other)
    BY DayOfWeekType DEF Intersect, Clone, Runs, RunsOn, Calendar, Latest, Earliest
<1> QED BY <1>1, <1>2, RunsType

\* A shifted calendar is a calendar.
LEMMA ShiftType ==
    ASSUME NEW cal \in Calendar, NEW by \in Int
    PROVE  Shift(cal, by) \in Calendar
BY SMT DEF Shift, Calendar, Week

\* Days of the week follow dates around the end of the week.
LEMMA DayOfWeekShifts ==
    ASSUME NEW date \in Int, NEW by \in {1, -1}
    PROVE  /\ DayOfWeek(date + by) = (DayOfWeek(date) + by) % 7
           /\ \A day \in Week : (day + by) % 7 = DayOfWeek(date + by) => day = DayOfWeek(date)
BY SMT DEF DayOfWeek, Week

\* A calendar shifted by a day runs on the day after, or before, each date it ran,
\* and on no other: the mask, the range and the exclusions move together
\* (shiftForward, shiftBackward).
THEOREM ShiftMovesEveryDate ==
    ASSUME NEW cal \in Calendar, NEW by \in {1, -1}
    PROVE  Runs(Shift(cal, by)) = {date + by : date \in Runs(cal)}
<1>1. ASSUME NEW date \in Int
      PROVE  date + by \in Runs(Shift(cal, by)) <=> date \in Runs(cal)
    <2>1. DayOfWeek(date + by) \in Shift(cal, by).days <=> DayOfWeek(date) \in cal.days
        BY DayOfWeekShifts, DayOfWeekType DEF Shift, Calendar
    <2>2. date + by \in Shift(cal, by).excludeDays <=> date \in cal.excludeDays
        BY DEF Shift, Calendar
    <2> QED BY <2>1, <2>2 DEF Shift, Runs, RunsOn, Calendar
<1>2. Runs(Shift(cal, by)) \subseteq Int
    BY ShiftType, RunsType
<1>3. ASSUME NEW date \in Runs(Shift(cal, by))
      PROVE  date \in {d + by : d \in Runs(cal)}
    <2>1. date \in Int /\ date - by \in Int /\ (date - by) + by = date
        BY <1>2
    <2> QED BY <1>1, <2>1
<1>4. ASSUME NEW date \in Runs(cal)
      PROVE  date + by \in Runs(Shift(cal, by))
    BY <1>1, RunsType
<1> QED BY <1>3, <1>4

-----------------------------------------------------------------------------
(* Dates *)

\* An association shifts by a day at most.
LEMMA OffsetType ==
    ASSUME NEW a \in Association
    PROVE  Offset[a.dateIndicator] \in {-1, 0, 1}
BY DEF Association, Offset

\* A shifted calendar, date by date.
LEMMA ShiftedDays ==
    ASSUME NEW cal \in Calendar, NEW by \in {1, -1}
    PROVE  /\ Shift(cal, by) \in Calendar
           /\ \A date \in Int : date \in Runs(Shift(cal, by)) <=> date - by \in Runs(cal)
<1>1. Shift(cal, by) \in Calendar
    BY ShiftType
<1>2. Runs(Shift(cal, by)) = {date + by : date \in Runs(cal)}
    BY ShiftMovesEveryDate
<1>3. ASSUME NEW date \in Int
      PROVE  date \in {d + by : d \in Runs(cal)} <=> date - by \in Runs(cal)
    <2>1. Runs(cal) \subseteq Int
        BY RunsType
    <2>2. ASSUME NEW d \in Runs(cal), date = d + by
          PROVE  date - by \in Runs(cal)
        <3>1. d \in Int /\ date - by = d
            BY <2>1, <2>2
        <3> QED BY <3>1
    <2>3. (date - by) + by = date
        OBVIOUS
    <2> QED BY <2>2, <2>3
<1> QED BY <1>1, <1>2, <1>3

\* The days of the base told in those of the portion, one by one.
LEMMA InAssocDaysMoves ==
    ASSUME NEW a \in Association, NEW cal \in Calendar
    PROVE  /\ InAssocDays(a, cal) \in Calendar
           /\ \A date \in Int :
                 date \in Runs(InAssocDays(a, cal)) <=> date - Offset[a.dateIndicator] \in Runs(cal)
<1>1. a.dateIndicator \in {"S", "N", "P"}
    BY DEF Association, Offset
<1>2. CASE a.dateIndicator = "S"
    BY <1>2 DEF InAssocDays, Offset
<1>3. CASE a.dateIndicator = "N"
    <2>1. InAssocDays(a, cal) = Shift(cal, 1) /\ Offset[a.dateIndicator] = 1
        BY <1>3 DEF InAssocDays, Offset, ShiftForward
    <2>2. \A date \in Int : date - 1 = date - Offset[a.dateIndicator]
        BY <2>1
    <2> QED BY <2>1, <2>2, ShiftedDays
<1>4. CASE a.dateIndicator = "P"
    <2>1. InAssocDays(a, cal) = Shift(cal, -1) /\ Offset[a.dateIndicator] = -1
        BY <1>4 DEF InAssocDays, Offset, ShiftBackward
    <2>2. \A date \in Int : date - (-1) = date - Offset[a.dateIndicator]
        BY <2>1
    <2> QED BY <2>1, <2>2, ShiftedDays
<1> QED BY <1>1, <1>2, <1>3, <1>4

\* And those of the portion told in those of the base.
LEMMA InBaseDaysMoves ==
    ASSUME NEW a \in Association, NEW cal \in Calendar
    PROVE  /\ InBaseDays(a, cal) \in Calendar
           /\ \A date \in Int :
                 date \in Runs(InBaseDays(a, cal)) <=> date + Offset[a.dateIndicator] \in Runs(cal)
<1>1. a.dateIndicator \in {"S", "N", "P"}
    BY DEF Association, Offset
<1>2. CASE a.dateIndicator = "S"
    BY <1>2 DEF InBaseDays, Offset
<1>3. CASE a.dateIndicator = "N"
    <2>1. InBaseDays(a, cal) = Shift(cal, -1) /\ Offset[a.dateIndicator] = 1
        BY <1>3 DEF InBaseDays, Offset, ShiftBackward
    <2>2. \A date \in Int : date - (-1) = date + Offset[a.dateIndicator]
        BY <2>1
    <2> QED BY <2>1, <2>2, ShiftedDays
<1>4. CASE a.dateIndicator = "P"
    <2>1. InBaseDays(a, cal) = Shift(cal, 1) /\ Offset[a.dateIndicator] = -1
        BY <1>4 DEF InBaseDays, Offset, ShiftForward
    <2>2. \A date \in Int : date - 1 = date + Offset[a.dateIndicator]
        BY <2>1
    <2> QED BY <2>1, <2>2, ShiftedDays
<1> QED BY <1>1, <1>2, <1>3, <1>4

\* The days a portion is coupled are days of its own, days of the base and days of
\* the association (Association.apply).
LEMMA CoupledDaysAreOfAllThree ==
    ASSUME NEW a \in Association, NEW base \in Schedule, NEW assoc \in Schedule
    PROVE  /\ CoupledDays(a, base, assoc) \in Calendar
           /\ InAssocDays(a, CoupledDays(a, base, assoc)) \in Calendar
           /\ \A date \in Int :
                 date \in Runs(InAssocDays(a, CoupledDays(a, base, assoc))) <=>
                    /\ date \in Runs(assoc.calendar)
                    /\ date - Offset[a.dateIndicator] \in Runs(base.calendar)
                    /\ date - Offset[a.dateIndicator] \in Runs(a.calendar)
<1> DEFINE off == Offset[a.dateIndicator]
           inBase == InBaseDays(a, assoc.calendar)
           both == Intersect(base.calendar, inBase)
           coupled == CoupledDays(a, base, assoc)
<1>1. base.calendar \in Calendar /\ assoc.calendar \in Calendar /\ a.calendar \in Calendar
    BY DEF Schedule, Association
<1>2. off \in Int
    BY OffsetType
<1>3. inBase \in Calendar /\ \A date \in Int : date \in Runs(inBase) <=> date + off \in Runs(assoc.calendar)
    BY <1>1, InBaseDaysMoves
<1>4. both \in Calendar /\ Runs(both) = Runs(base.calendar) \cap Runs(inBase)
    BY <1>1, <1>3, IntersectIsIntersection
<1>5. coupled \in Calendar /\ Runs(coupled) = Runs(both) \cap Runs(a.calendar)
    BY <1>1, <1>4, IntersectIsIntersection DEF CoupledDays
<1>6. InAssocDays(a, coupled) \in Calendar
      /\ \A date \in Int : date \in Runs(InAssocDays(a, coupled)) <=> date - off \in Runs(coupled)
    BY <1>5, InAssocDaysMoves
<1>7. ASSUME NEW date \in Int
      PROVE  date - off \in Runs(coupled) <=>
                /\ date \in Runs(assoc.calendar)
                /\ date - off \in Runs(base.calendar)
                /\ date - off \in Runs(a.calendar)
    <2>1. date - off \in Int /\ (date - off) + off = date
        BY <1>2
    <2>2. date - off \in Runs(inBase) <=> date \in Runs(assoc.calendar)
        BY <2>1, <1>3
    <2> QED BY <2>2, <1>4, <1>5
<1> QED BY <1>5, <1>6, <1>7

-----------------------------------------------------------------------------
(* Schedules *)

\* Ids are natural numbers.
LEMMA ScheduleIds == \A s \in Schedule : s.id \in Nat
BY DEF Schedule

\* A schedule that is told on its own dates leaves on those of its calendar.
LEMMA DepartsAsTold ==
    ASSUME NEW s \in Schedule
    PROVE  /\ Departs(s) \subseteq Int
           /\ \A date \in Int : date \in Departs(s) <=> date - s.told \in Runs(s.calendar)
           /\ s.told = 0 => Departs(s) = Runs(s.calendar)
<1>1. s.calendar \in Calendar /\ s.told \in {0, 1}
    BY DEF Schedule
<1>2. Runs(s.calendar) \subseteq Int
    BY <1>1, RunsType
<1> QED BY <1>1, <1>2 DEF Departs

\* The schedule of the coupled days.
LEMMA AsDatedIsOfTheCoupledDays ==
    ASSUME NEW a \in Association, NEW base \in Schedule, NEW assoc \in Schedule, NEW id \in Nat
    PROVE  LET asDated == AsDated(a, base, assoc, id)
           IN /\ asDated \in Schedule
              /\ asDated.id = id /\ asDated.tuid = assoc.tuid /\ asDated.calls = assoc.calls
              /\ asDated.told = assoc.told /\ asDated.copy = assoc.copy
              /\ asDated.calendar = InAssocDays(a, CoupledDays(a, base, assoc))
<1>1. InAssocDays(a, CoupledDays(a, base, assoc)) \in Calendar
    BY CoupledDaysAreOfAllThree
<1> QED BY <1>1 DEF AsDated, Schedule

OfTheOtherDays(rest, a, base, assoc, id) ==
    /\ rest.id = id /\ rest.tuid = assoc.tuid
    /\ rest.told = assoc.told /\ rest.copy = assoc.copy
    /\ Runs(rest.calendar) =
          Runs(assoc.calendar) \ Runs(InAssocDays(a, CoupledDays(a, base, assoc)))

\* What is left is the schedule on the other days, and nothing where there are none.
LEMMA RemainderIsTheOtherDays ==
    ASSUME NEW a \in Association, NEW base \in Schedule, NEW assoc \in Schedule, NEW id \in Nat
    PROVE  \/ /\ Remainder(a, base, assoc, id) = << >>
              /\ Runs(assoc.calendar) \subseteq Runs(InAssocDays(a, CoupledDays(a, base, assoc)))
           \/ \E rest \in Schedule :
                 Remainder(a, base, assoc, id) = <<rest>> /\ OfTheOtherDays(rest, a, base, assoc, id)
<1> DEFINE coupled == InAssocDays(a, CoupledDays(a, base, assoc))
           left == AddExcludeDays(assoc.calendar, coupled)
           rest == [assoc EXCEPT !.calendar = left, !.id = id]
<1>1. assoc.calendar \in Calendar /\ coupled \in Calendar
    BY CoupledDaysAreOfAllThree DEF Schedule
<1>2. left \in Calendar /\ Runs(left) = Runs(assoc.calendar) \ Runs(coupled)
    BY <1>1, AddExcludeDaysIsDifference
<1>3. CASE IsEmpty(left)
    <2>1. Runs(left) = {}
        BY <1>2, <1>3, IsEmptyIsNoRuns
    <2>2. Remainder(a, base, assoc, id) = << >>
        BY <1>3 DEF Remainder
    <2> QED BY <2>1, <2>2, <1>2
<1>4. CASE ~IsEmpty(left)
    <2>1. Remainder(a, base, assoc, id) = <<rest>>
        BY <1>4 DEF Remainder
    <2>2. rest \in Schedule /\ rest.id = id /\ rest.tuid = assoc.tuid /\ rest.told = assoc.told
          /\ rest.copy = assoc.copy /\ rest.calendar = left
        BY <1>2 DEF Schedule
    <2>3. Runs(rest.calendar) = Runs(assoc.calendar) \ Runs(coupled)
        BY <2>2, <1>2
    <2>4. OfTheOtherDays(rest, a, base, assoc, id)
        BY <2>2, <2>3 DEF OfTheOtherDays
    <2> HIDE DEF rest, left
    <2> QED BY <2>1, <2>2, <2>4
<1> QED BY <1>3, <1>4

\* A schedule told on the day before still leaves when it did.
LEMMA CopyLeavesAsItDid ==
    ASSUME NEW s \in Schedule, s.told = 0, NEW id \in Nat
    PROVE  LET copy == CopyToPreviousServiceDay(s, id)
           IN /\ copy \in Schedule
              /\ copy.id = id /\ copy.tuid = s.tuid /\ copy.calls = s.calls /\ copy.copy = s.copy
              /\ copy.told = 1
              /\ Departs(copy) = Departs(s)
<1> DEFINE copy == CopyToPreviousServiceDay(s, id)
<1>1. s.calendar \in Calendar
    BY DEF Schedule
<1>2. ShiftBackward(s.calendar) \in Calendar
      /\ Runs(ShiftBackward(s.calendar)) = {date + (-1) : date \in Runs(s.calendar)}
    BY <1>1, ShiftType, ShiftMovesEveryDate DEF ShiftBackward
<1>3. copy \in Schedule
      /\ copy.id = id /\ copy.tuid = s.tuid /\ copy.calls = s.calls /\ copy.copy = s.copy
      /\ copy.told = 1 /\ copy.calendar = ShiftBackward(s.calendar)
    <2>1. copy = [s EXCEPT !.calendar = ShiftBackward(s.calendar), !.told = 1, !.id = id]
        BY DEF CopyToPreviousServiceDay
    <2> HIDE DEF copy
    <2>2. 1 \in 0..1 /\ ShiftBackward(s.calendar) \in Calendar
        BY <1>2
    <2>3. copy \in Schedule
        BY <2>1, <2>2 DEF Schedule
    <2>4. /\ copy.id = id /\ copy.tuid = s.tuid /\ copy.calls = s.calls /\ copy.copy = s.copy
          /\ copy.told = 1 /\ copy.calendar = ShiftBackward(s.calendar)
        BY <2>1 DEF Schedule
    <2> QED BY <2>3, <2>4
<1>4. Departs(copy) = Departs(s)
    <2>1. Departs(copy) \subseteq Int /\ Departs(s) \subseteq Int
        BY <1>3, DepartsAsTold
    <2>2. ASSUME NEW date \in Int
          PROVE  date \in Departs(copy) <=> date \in Departs(s)
        <3>1. date \in Departs(copy) <=> date - 1 \in Runs(copy.calendar)
            BY <1>3, DepartsAsTold
        <3>2. date \in Departs(s) <=> date \in Runs(s.calendar)
            BY DepartsAsTold
        <3>3. Runs(s.calendar) \subseteq Int
            BY <1>1, RunsType
        <3>4. date - 1 \in Runs(copy.calendar) <=> date \in Runs(s.calendar)
            BY <3>3, <1>2, <1>3
        <3> QED BY <3>1, <3>2, <3>4
    <2> QED BY <2>1, <2>2
<1> QED BY <1>3, <1>4

\* What moves at the end leaves when it did.
LEMMA ShiftedLeavesAsItDid ==
    ASSUME NEW s \in Schedule
    PROVE  /\ Shifted(s) \in Schedule
           /\ Shifted(s).id = s.id /\ Shifted(s).tuid = s.tuid
           /\ Shifted(s).calls = s.calls /\ Shifted(s).copy = s.copy
           /\ Shifted(s).told = s.told + DayShift(s)
           /\ Departs(Shifted(s)) = Departs(s)
<1>1. CASE IsLateNight(s)
    <2>1. s.told = 0 /\ s.id \in Nat
        BY <1>1 DEF IsLateNight, Schedule
    <2>2. Shifted(s) = CopyToPreviousServiceDay(s, s.id) /\ DayShift(s) = 1
        BY <1>1 DEF Shifted, DayShift
    <2> QED BY <2>1, <2>2, CopyLeavesAsItDid
<1>2. CASE ~IsLateNight(s)
    BY <1>2 DEF Shifted, DayShift, Schedule
<1> QED BY <1>1, <1>2

\* The copy leaves with the portion it was made of.
LEMMA CopiesLeaveAsThePortion ==
    ASSUME NEW a \in Association, NEW base \in Schedule, NEW asDated \in Schedule,
           asDated.told = 0, NEW id \in Nat
    PROVE  LET copies == Copies(a, base, asDated, id)
           IN \/ copies = << >> /\ ~NeedsCopy(a, base, asDated)
              \/ /\ Len(copies) = 1 /\ copies = <<copies[1]>> /\ NeedsCopy(a, base, asDated)
                 /\ copies[1] \in Schedule
                 /\ copies[1].id = id /\ copies[1].tuid = asDated.tuid /\ copies[1].calls = asDated.calls
                 /\ copies[1].told = 1 /\ copies[1].copy
                 /\ Departs(copies[1]) = Departs(asDated)
<1>1. CASE ~NeedsCopy(a, base, asDated)
    BY <1>1 DEF Copies
<1>2. CASE NeedsCopy(a, base, asDated)
    <2> DEFINE early == CopyToPreviousServiceDay(asDated, id)
               copy == [early EXCEPT !.copy = TRUE]
    <2>1. early \in Schedule /\ early.id = id /\ early.tuid = asDated.tuid
          /\ early.calls = asDated.calls /\ early.told = 1 /\ Departs(early) = Departs(asDated)
        BY CopyLeavesAsItDid
    <2>2. copy \in Schedule /\ copy.id = id /\ copy.tuid = asDated.tuid /\ copy.calls = asDated.calls
          /\ copy.told = 1 /\ copy.copy /\ copy.calendar = early.calendar
        BY <2>1 DEF Schedule
    <2>3. Departs(copy) = Departs(asDated)
        BY <2>1, <2>2 DEF Departs
    <2>4. Copies(a, base, asDated, id) = <<copy>>
        BY <1>2 DEF Copies
    <2> HIDE DEF copy
    <2>5. Len(<<copy>>) = 1 /\ <<copy>>[1] = copy
        OBVIOUS
    <2> QED BY <2>2, <2>3, <2>4, <2>5, <1>2
<1> QED BY <1>1, <1>2

-----------------------------------------------------------------------------
(* Lists *)

Distinct(list) == \A i, j \in DOMAIN list : list[i] = list[j] => i = j

\* What two lists make together holds the elements of both.
LEMMA ElementsOfConcat ==
    ASSUME NEW S, NEW s \in Seq(S), NEW t \in Seq(S)
    PROVE  s \o t \in Seq(S) /\ ToSet(s \o t) = ToSet(s) \cup ToSet(t)
<1>1. s \o t \in Seq(S) /\ Len(s \o t) = Len(s) + Len(t)
      /\ \A i \in 1..Len(s) + Len(t) : (s \o t)[i] = IF i <= Len(s) THEN s[i] ELSE t[i - Len(s)]
    BY ConcatProperties
<1>2. DOMAIN s = 1..Len(s) /\ DOMAIN t = 1..Len(t) /\ DOMAIN (s \o t) = 1..Len(s) + Len(t)
      /\ Len(s) \in Nat /\ Len(t) \in Nat
    BY <1>1
<1>3. ASSUME NEW e \in ToSet(s \o t)
      PROVE  e \in ToSet(s) \cup ToSet(t)
    <2>1. PICK i \in 1..Len(s) + Len(t) : (s \o t)[i] = e
        BY <1>2, <1>3 DEF ToSet
    <2>2. CASE i <= Len(s)
        BY <1>1, <1>2, <2>1, <2>2 DEF ToSet
    <2>3. CASE ~(i <= Len(s))
        <3>1. i - Len(s) \in DOMAIN t /\ t[i - Len(s)] = e
            BY <1>1, <1>2, <2>1, <2>3
        <3> QED BY <3>1 DEF ToSet
    <2> QED BY <2>2, <2>3
<1>4. ASSUME NEW e \in ToSet(s)
      PROVE  e \in ToSet(s \o t)
    <2>1. PICK i \in 1..Len(s) : s[i] = e
        BY <1>2, <1>4 DEF ToSet
    <2>2. i \in DOMAIN (s \o t) /\ (s \o t)[i] = e
        BY <1>1, <1>2, <2>1
    <2> QED BY <2>2 DEF ToSet
<1>5. ASSUME NEW e \in ToSet(t)
      PROVE  e \in ToSet(s \o t)
    <2>1. PICK i \in 1..Len(t) : t[i] = e
        BY <1>2, <1>5 DEF ToSet
    <2>2. i + Len(s) \in DOMAIN (s \o t) /\ (s \o t)[i + Len(s)] = e
        BY <1>1, <1>2, <2>1
    <2> QED BY <2>2 DEF ToSet
<1> QED BY <1>1, <1>3, <1>4, <1>5

\* A list of one holds it alone.
LEMMA ElementsOfOne ==
    ASSUME NEW S, NEW e \in S
    PROVE  <<e>> \in Seq(S) /\ ToSet(<<e>>) = {e} /\ <<e>>[1] = e /\ Len(<<e>>) = 1
BY DEF ToSet

\* The empty list holds nothing.
LEMMA ElementsOfNone ==
    ASSUME NEW S
    PROVE  << >> \in Seq(S) /\ ToSet(<< >>) = {}
BY DEF ToSet

\* A list that holds each of its elements once does so still with a new one at its end.
LEMMA DistinctAppended ==
    ASSUME NEW S, NEW list \in Seq(S), Distinct(list), NEW e \in S, e \notin ToSet(list)
    PROVE  /\ list \o <<e>> \in Seq(S) /\ Distinct(list \o <<e>>)
           /\ ToSet(list \o <<e>>) = ToSet(list) \cup {e}
<1> DEFINE one == <<e>>
           more == list \o one
           n == Len(list)
<1>1. one \in Seq(S) /\ Len(one) = 1 /\ one[1] = e /\ ToSet(one) = {e}
    BY ElementsOfOne
<1> HIDE DEF one
<1>2. more \in Seq(S) /\ ToSet(more) = ToSet(list) \cup {e}
    BY <1>1, ElementsOfConcat
<1>3. /\ Len(more) = n + 1 /\ n \in Nat
      /\ \A i \in 1..n + 1 : more[i] = IF i <= n THEN list[i] ELSE one[i - n]
    BY <1>1, ConcatProperties
<1>4. DOMAIN more = 1..n + 1 /\ DOMAIN list = 1..n
    BY <1>2, <1>3
<1> HIDE DEF more
<1>5. \A i \in 1..n : more[i] = list[i] /\ more[i] # e
    <2>1. \A i \in 1..n : more[i] = list[i]
        BY <1>3
    <2> QED BY <1>4, <2>1 DEF ToSet
<1>6. more[n + 1] = e
    BY <1>1, <1>3
<1>7. ASSUME NEW i \in 1..n + 1, NEW j \in 1..n + 1, more[i] = more[j]
      PROVE  i = j
    <2>1. i \in 1..n \/ i = n + 1
        BY <1>3
    <2>2. j \in 1..n \/ j = n + 1
        BY <1>3
    <2>3. CASE i \in 1..n /\ j \in 1..n
        BY <2>3, <1>4, <1>5, <1>7 DEF Distinct
    <2> QED BY <2>1, <2>2, <2>3, <1>5, <1>6, <1>7
<1>8. Distinct(more)
    BY <1>4, <1>7 DEF Distinct
<1> QED BY <1>2, <1>8 DEF more, one

\* What is left of it without its first does not hold that one.
LEMMA DistinctTail ==
    ASSUME NEW S, NEW list \in Seq(S), list # << >>, Distinct(list)
    PROVE  /\ Distinct(Tail(list)) /\ Head(list) \notin ToSet(Tail(list))
           /\ ToSet(Tail(list)) \subseteq ToSet(list) /\ Head(list) \in ToSet(list)
<1> DEFINE left == Tail(list)
           n == Len(list)
<1>1. /\ n \in Nat \ {0} /\ DOMAIN list = 1..n /\ Head(list) = list[1]
      /\ left \in Seq(S) /\ Len(left) = n - 1
      /\ \A i \in 1..Len(left) : left[i] = list[i + 1]
    BY HeadTailProperties
<1> HIDE DEF left
<1>2. DOMAIN left = 1..n - 1 /\ \A i \in 1..n - 1 : left[i] = list[i + 1] /\ i + 1 \in DOMAIN list
    BY <1>1
<1>3. Distinct(left)
    <2> SUFFICES ASSUME NEW i \in 1..n - 1, NEW j \in 1..n - 1, left[i] = left[j]
                 PROVE  i = j
        BY <1>2 DEF Distinct
    <2>1. list[i + 1] = list[j + 1] /\ i + 1 \in DOMAIN list /\ j + 1 \in DOMAIN list
        BY <1>2
    <2>2. i + 1 = j + 1
        BY <2>1 DEF Distinct
    <2> QED BY <2>2, <1>1
<1>4. Head(list) \notin ToSet(left)
    <2> SUFFICES ASSUME NEW i \in 1..n - 1, left[i] = Head(list)
                 PROVE  FALSE
        BY <1>2 DEF ToSet
    <2>1. list[i + 1] = list[1] /\ i + 1 \in DOMAIN list /\ 1 \in DOMAIN list
        BY <1>1, <1>2
    <2>2. i + 1 = 1
        BY <2>1 DEF Distinct
    <2> QED BY <2>2, <1>1
<1>5. ToSet(left) \subseteq ToSet(list)
    BY <1>2 DEF ToSet
<1>6. Head(list) \in ToSet(list)
    BY <1>1 DEF ToSet
<1> QED BY <1>3, <1>4, <1>5, <1>6 DEF left

\* A list that is empty or of one element.
LEMMA AtMostOne ==
    ASSUME NEW S, NEW list, list = << >> \/ \E e \in S : list = <<e>>
    PROVE  /\ list \in Seq(S)
           /\ list = << >> => Len(list) = 0 /\ ToSet(list) = {}
           /\ list # << >> => Len(list) = 1 /\ ToSet(list) = {list[1]}
<1>1. CASE list = << >>
    BY <1>1, ElementsOfNone
<1>2. CASE list # << >>
    <2>1. PICK e \in S : list = <<e>>
        BY <1>2
    <2> QED BY <1>2, <2>1, ElementsOfOne
<1> QED BY <1>1, <1>2

\* The list without the schedule that stood at a place.
LEMMA SplicedOut ==
    ASSUME NEW S, NEW list \in Seq(S), Distinct(list), NEW at \in DOMAIN list
    PROVE  LET left == Spliced(list, at, << >>)
           IN /\ left \in Seq(S) /\ Distinct(left)
              /\ ToSet(left) = ToSet(list) \ {list[at]}
<1> DEFINE n == Len(list)
           before == SubSeq(list, 1, at - 1)
           after == SubSeq(list, at + 1, n)
           left == Spliced(list, at, << >>)
<1>1. n \in Nat /\ DOMAIN list = 1..n /\ at \in 1..n
    OBVIOUS
<1>2. before \in Seq(S) /\ Len(before) = at - 1 /\ \A i \in 1..at - 1 : before[i] = list[i]
    BY <1>1, SubSeqProperties, SMTT(30)
<1>3. after \in Seq(S) /\ Len(after) = n - at /\ \A i \in 1..n - at : after[i] = list[at + i]
    BY <1>1, SubSeqProperties, SMTT(30)
<1>4. before \o << >> \in Seq(S) /\ before \o << >> = before
    BY <1>2
<1>5. left = before \o after
    BY <1>4 DEF Spliced
<1> HIDE DEF before, after, left
<1>6. /\ left \in Seq(S) /\ Len(left) = n - 1
      /\ \A i \in 1..n - 1 : left[i] = IF i < at THEN list[i] ELSE list[i + 1]
    <2> DEFINE b == Len(before)
    <2>a. left \in Seq(S) /\ Len(left) = b + Len(after)
          /\ \A i \in 1..b + Len(after) : left[i] = IF i <= b THEN before[i] ELSE after[i - b]
        BY <1>2, <1>3, <1>5, ConcatProperties
    <2>1. left \in Seq(S) /\ Len(left) = (at - 1) + (n - at)
          /\ \A i \in 1..(at - 1) + (n - at) :
                left[i] = IF i <= at - 1 THEN before[i] ELSE after[i - (at - 1)]
        BY <1>2, <1>3, <2>a
    <2>2. ASSUME NEW i \in 1..n - 1
          PROVE  left[i] = IF i < at THEN list[i] ELSE list[i + 1]
        <3>1. CASE i < at
            BY <1>1, <1>2, <2>1, <3>1
        <3>2. CASE ~(i < at)
            <4>1. i - (at - 1) \in 1..n - at /\ at + (i - (at - 1)) = i + 1
                BY <1>1, <3>2
            <4> QED BY <1>1, <1>3, <2>1, <3>2, <4>1, SMTT(30)
        <3> QED BY <3>1, <3>2
    <2> QED BY <1>1, <2>1, <2>2
<1>7. DOMAIN left = 1..n - 1
    BY <1>1, <1>6
<1>8. Distinct(left)
    <2> SUFFICES ASSUME NEW i \in 1..n - 1, NEW j \in 1..n - 1, left[i] = left[j]
                 PROVE  i = j
        BY <1>7 DEF Distinct
    <2>1. \A k, l \in 1..n : list[k] = list[l] => k = l
        BY <1>1 DEF Distinct
    <2>2. left[i] = list[IF i < at THEN i ELSE i + 1] /\ left[j] = list[IF j < at THEN j ELSE j + 1]
        BY <1>6
    <2>3. (IF i < at THEN i ELSE i + 1) \in 1..n /\ (IF j < at THEN j ELSE j + 1) \in 1..n
        BY <1>1
    <2>4. (IF i < at THEN i ELSE i + 1) = (IF j < at THEN j ELSE j + 1)
        BY <2>1, <2>2, <2>3
    <2> QED BY <1>1, <2>4
<1>9. ASSUME NEW e \in ToSet(left)
      PROVE  e \in ToSet(list) \ {list[at]}
    <2>1. PICK i \in 1..n - 1 : left[i] = e
        BY <1>7, <1>9 DEF ToSet
    <2>2. PICK j \in 1..n : e = list[j] /\ j # at
        BY <1>1, <1>6, <2>1
    <2> QED BY <1>1, <2>2 DEF ToSet, Distinct
<1>10. ASSUME NEW e \in ToSet(list) \ {list[at]}
       PROVE  e \in ToSet(left)
    <2>1. PICK j \in 1..n : e = list[j]
        BY <1>1, <1>10 DEF ToSet
    <2>2. j # at
        BY <2>1, <1>10
    <2>3. CASE j < at
        <3>1. j \in 1..n - 1 /\ left[j] = e
            BY <1>1, <1>6, <2>1, <2>3
        <3> QED BY <3>1, <1>7 DEF ToSet
    <2>4. CASE j > at
        <3>1. j - 1 \in 1..n - 1 /\ left[j - 1] = e
            BY <1>1, <1>6, <2>1, <2>4
        <3> QED BY <3>1, <1>7 DEF ToSet
    <2> QED BY <1>1, <2>2, <2>3, <2>4
<1> QED BY <1>6, <1>8, <1>9, <1>10 DEF left

\* The list with another schedule in its place.
LEMMA SplicedIn ==
    ASSUME NEW S, NEW list \in Seq(S), Distinct(list), NEW at \in DOMAIN list,
           NEW e \in S, e \notin ToSet(list)
    PROVE  LET left == Spliced(list, at, <<e>>)
           IN /\ left \in Seq(S) /\ Distinct(left)
              /\ ToSet(left) = (ToSet(list) \ {list[at]}) \cup {e}
<1> DEFINE n == Len(list)
           before == SubSeq(list, 1, at - 1)
           after == SubSeq(list, at + 1, n)
           left == Spliced(list, at, <<e>>)
<1>1. n \in Nat /\ DOMAIN list = 1..n /\ at \in 1..n
    OBVIOUS
<1>2. before \in Seq(S) /\ Len(before) = at - 1 /\ \A i \in 1..at - 1 : before[i] = list[i]
    BY <1>1, SubSeqProperties
<1>3. after \in Seq(S) /\ Len(after) = n - at /\ \A i \in 1..n - at : after[i] = list[at + i]
    BY <1>1, SubSeqProperties
<1>4. /\ before \o <<e>> \in Seq(S)
      /\ Len(before \o <<e>>) = at
      /\ \A i \in 1..at - 1 : (before \o <<e>>)[i] = list[i]
      /\ (before \o <<e>>)[at] = e
    <2> DEFINE b == Len(before)
               one == <<e>>
               joined == before \o one
    <2>1. one \in Seq(S) /\ Len(one) = 1 /\ one[1] = e
        BY ElementsOfOne
    <2> HIDE DEF before, one
    <2>2. /\ joined \in Seq(S)
          /\ Len(joined) = b + Len(one)
          /\ \A i \in 1..b + Len(one) : joined[i] = IF i <= b THEN before[i] ELSE one[i - b]
        BY <1>2, <2>1, ConcatProperties
    <2> HIDE DEF joined
    <2>3. b = at - 1 /\ b + Len(one) = at
        BY <1>1, <1>2, <2>1
    <2>4. joined[at] = e
        <3>1. at \in 1..b + Len(one) /\ ~(at <= b) /\ at - b = 1
            BY <1>1, <2>3
        <3>2. joined[at] = one[at - b]
            BY <2>2, <3>1
        <3> QED BY <2>1, <3>1, <3>2
    <2>5. \A i \in 1..at - 1 : joined[i] = list[i]
        BY <1>1, <1>2, <2>2, <2>3
    <2> QED BY <2>2, <2>3, <2>4, <2>5 DEF joined, one
<1> DEFINE upTo == before \o <<e>>
<1>5. left = upTo \o after
    BY DEF Spliced
<1> HIDE DEF before, after, left, upTo
<1>6. /\ left \in Seq(S) /\ Len(left) = n
      /\ \A i \in 1..n : left[i] = IF i = at THEN e ELSE list[i]
    <2>1. upTo \in Seq(S) /\ Len(upTo) = at /\ upTo[at] = e /\ \A i \in 1..at - 1 : upTo[i] = list[i]
        BY <1>4 DEF upTo
    <2> DEFINE b == Len(upTo)
    <2>a. left \in Seq(S) /\ Len(left) = b + Len(after)
          /\ \A i \in 1..b + Len(after) : left[i] = IF i <= b THEN upTo[i] ELSE after[i - b]
        BY <1>3, <1>5, <2>1, ConcatProperties
    <2>2. left \in Seq(S) /\ Len(left) = at + (n - at)
          /\ \A i \in 1..at + (n - at) : left[i] = IF i <= at THEN upTo[i] ELSE after[i - at]
        BY <1>3, <2>1, <2>a
    <2>3. ASSUME NEW i \in 1..n
          PROVE  left[i] = IF i = at THEN e ELSE list[i]
        <3>1. CASE i <= at
            BY <1>1, <2>1, <2>2, <3>1
        <3>2. CASE ~(i <= at)
            <4>1. i - at \in 1..n - at /\ at + (i - at) = i
                BY <1>1, <3>2
            <4> QED BY <1>1, <1>3, <2>2, <3>2, <4>1
        <3> QED BY <3>1, <3>2
    <2> QED BY <1>1, <2>2, <2>3
<1>7. DOMAIN left = 1..n
    BY <1>1, <1>6
<1>8. Distinct(left)
    <2>1. \A i \in 1..n : list[i] # e
        BY <1>1 DEF ToSet
    <2> QED BY <1>1, <1>6, <1>7, <2>1 DEF Distinct
<1>9. ASSUME NEW d \in ToSet(left)
      PROVE  d \in (ToSet(list) \ {list[at]}) \cup {e}
    <2>1. PICK i \in 1..n : left[i] = d
        BY <1>7, <1>9 DEF ToSet
    <2> QED BY <1>1, <1>6, <2>1 DEF ToSet, Distinct
<1>10. ASSUME NEW d \in (ToSet(list) \ {list[at]}) \cup {e}
       PROVE  d \in ToSet(left)
    <2>1. CASE d = e
        BY <2>1, <1>1, <1>6, <1>7 DEF ToSet
    <2>2. CASE d # e
        <3>1. PICK j \in 1..n : d = list[j] /\ j # at
            BY <1>1, <1>10, <2>2 DEF ToSet
        <3> QED BY <3>1, <1>6, <1>7 DEF ToSet
    <2> QED BY <2>1, <2>2
<1> QED BY <1>6, <1>8, <1>9, <1>10 DEF left

-----------------------------------------------------------------------------
(* The invariant *)

Standing == UNION {ToSet(schedules[t]) : t \in Trains}

\* Associations are applied one by one, and nothing else is done before the last.
Stages ==
    /\ applying => associations # << >>
    /\ associations # << >> => stage = "associating"
    /\ stage = "associating" => trips = {}

\* An id is of one schedule, and none has an id that is still to be given.
Ids ==
    /\ \A s \in All : s.id < nextId
    /\ \A s, u \in All : s.id = u.id => s = u

\* While there are associations to apply, a schedule stands in one place, on its own
\* dates, and what has been coupled stands nowhere.
Whole ==
    associations # << >> =>
        /\ \A t \in Trains : Distinct(schedules[t])
        /\ \A s \in Standing : s.told = 0 /\ ~s.copy
        /\ Standing \cap ToSet(associated) = {}

\* How the two of a link will stand to each other once what leaves in the night is
\* moved.
Closes(link, base, portion) ==
    /\ base.told = 0
    /\ IF portion.copy
         THEN portion.told = 1 /\ Offset[link.of.dateIndicator] + DayShift(base) = 1
         ELSE /\ portion.told = 0
              /\ duplicateOvernight /\ DayGap(link.of, base, portion) = 1 => IsLateNight(portion)

\* And how they do.
Closed(link, base, portion) ==
    LET apart == Offset[link.of.dateIndicator] - portion.told + base.told
    IN /\ portion.copy => apart = 0
       /\ duplicateOvernight /\ apart = 1 => portion.told = 1

LinkRecord == [from : Nat, to : Nat, location : Locations, of : Association]

\* A link is of two ids already given; where both are still there they are coupled.
LinksById ==
    stage \in {"associating", "resolving"} =>
        \A link \in links :
            /\ link \in LinkRecord
            /\ BaseEnd(link) < nextId /\ PortionEnd(link) < nextId
            /\ \A base, portion \in All :
                  base.id = BaseEnd(link) /\ portion.id = PortionEnd(link) =>
                      Coupled(link, base, portion) /\ Closes(link, base, portion)

\* One trip to an id.
TripIds == \A f, g \in trips : f.trip_id = g.trip_id => f = g

\* Once resolved, a link names two trips.
LinksByTrip ==
    /\ stage = "shifting" =>
        \A link \in links : \E f, g \in trips :
            /\ f.trip_id = BaseEnd(link) /\ g.trip_id = PortionEnd(link)
            /\ Coupled(link, f.schedule, g.schedule) /\ Closes(link, f.schedule, g.schedule)
    /\ stage = "published" =>
        \A link \in links : \E f, g \in trips :
            /\ f.trip_id = BaseEnd(link) /\ g.trip_id = PortionEnd(link)
            /\ Coupled(link, f.schedule, g.schedule) /\ Closed(link, f.schedule, g.schedule)

IInv ==
    /\ TypeOK /\ Stages /\ Ids /\ Whole
    /\ RunsAsTimetabled /\ LinksById /\ TripIds /\ LinksByTrip

-----------------------------------------------------------------------------
(* What a coupling does *)

\* What stands in a train's list is a schedule of that train.
LEMMA IndexType ==
    ASSUME TypeOK
    PROVE  /\ \A t \in Trains : schedules[t] \in Seq(Schedule) /\ ToSet(schedules[t]) \subseteq Schedule
           /\ Standing \subseteq Schedule
           /\ ToSet(associated) \subseteq Schedule
           /\ \A s \in Standing : s.tuid \in Trains /\ s \in ToSet(schedules[s.tuid])
           /\ \A t \in Trains : \A i \in DOMAIN schedules[t] :
                 schedules[t][i] \in Standing /\ schedules[t][i].tuid = t
           /\ All \subseteq Schedule
<1>1. \A s \in Seq(Schedule) : ToSet(s) \subseteq Schedule
    <2> SUFFICES ASSUME NEW s \in Seq(Schedule), NEW i \in DOMAIN s
                 PROVE  s[i] \in Schedule
        BY DEF ToSet
    <2> QED BY ElementOfSeq
<1>2. \A t \in Trains : schedules[t] \in Seq(Schedule)
    BY DEF TypeOK
<1>3. \A t \in Trains : ToSet(schedules[t]) \subseteq Schedule
    BY <1>1, <1>2
<1>4. ToSet(associated) \subseteq Schedule
    BY <1>1 DEF TypeOK
<1>5. Standing \subseteq Schedule
    BY <1>3 DEF Standing
<1>6. \A s \in Standing : s.tuid \in Trains /\ s \in ToSet(schedules[s.tuid])
    BY DEF Standing, TypeOK
<1>7. \A t \in Trains : \A i \in DOMAIN schedules[t] :
         schedules[t][i] \in Standing /\ schedules[t][i].tuid = t
    <2> SUFFICES ASSUME NEW t \in Trains, NEW i \in DOMAIN schedules[t]
                 PROVE  schedules[t][i] \in Standing /\ schedules[t][i].tuid = t
        OBVIOUS
    <2>1. schedules[t][i] \in ToSet(schedules[t])
        BY DEF ToSet
    <2> QED BY <2>1 DEF Standing, TypeOK
<1>8. All \subseteq Schedule
    <2>1. CASE stage = "associating"
        BY <2>1, <1>4, <1>5 DEF All, Standing
    <2>2. CASE stage # "associating"
        <3>1. \A trip \in trips : trip.schedule \in Schedule
            BY DEF TypeOK, Trip
        <3> QED BY <3>1, <2>2 DEF All
    <2> QED BY <2>1, <2>2
<1> QED BY <1>2, <1>3, <1>4, <1>5, <1>6, <1>7, <1>8

\* A schedule is cut into the days it is coupled, with at most one copy of them, and
\* at most one schedule of the days it is not; the link names the copy where there is
\* one.  All of them have ids of their own.
Cutting(a, base, assoc, dated, copies, rest) ==
    /\ associations # << >> /\ a = Head(associations) /\ a \in Association
    /\ base \in Standing /\ base.tuid = a.baseTUID
    /\ assoc \in Standing /\ assoc.tuid = a.assocTUID
    /\ CanApply(a, base, assoc)
    /\ dated = AsDated(a, base, assoc, nextId)
    /\ copies \subseteq Schedule /\ rest \subseteq Schedule
    /\ copies # {} <=> NeedsCopy(a, base, dated)
    /\ \A c, d \in copies : c = d
    /\ \A c \in copies :
          /\ c.id = nextId + 1 /\ c.tuid = dated.tuid /\ c.calls = dated.calls
          /\ c.told = 1 /\ c.copy /\ Departs(c) = Departs(dated)
    /\ \A r, u \in rest : r = u
    /\ \A r \in rest :
          /\ r.id > nextId /\ (copies # {} => r.id > nextId + 1)
          /\ r.id < nextId'
          /\ r.tuid = assoc.tuid /\ r.told = assoc.told /\ r.copy = assoc.copy
          /\ Runs(r.calendar) = Runs(assoc.calendar) \ Runs(dated.calendar)
    /\ rest = {} => Runs(assoc.calendar) \subseteq Runs(dated.calendar)
    /\ nextId' \in Nat /\ nextId' > nextId /\ (copies # {} => nextId' > nextId + 1)
    /\ Standing' = (Standing \ {assoc}) \cup rest
    /\ ToSet(associated)' = ToSet(associated) \cup {dated} \cup copies
    /\ schedules' \in [Trains -> Seq(Schedule)]
    /\ \A t \in Trains : Distinct(schedules[t])'
    /\ \A t \in Trains : \A s \in ToSet(schedules'[t]) : s.tuid = t
    /\ associated' \in Seq(Schedule)
    /\ Distinct(associated) => Distinct(associated)'
    /\ matches' = matches \ {assoc}
    /\ \E portion \in {dated} \cup copies :
          /\ links' = links \cup {LinkOf(a, base, portion)}
          /\ copies = {} => portion = dated
          /\ copies # {} => portion \in copies

\* A coupling cuts one schedule in up to three: the coupled days, a copy of them, and
\* the other days.
LEMMA CoupleCuts ==
    ASSUME TypeOK, Stages, Ids, Whole, Couple
    PROVE  \E a, base, assoc, dated, copies, rest : Cutting(a, base, assoc, dated, copies, rest)
<1> DEFINE a == Head(associations)
           list == schedules[a.assocTUID]
           bases == schedules[a.baseTUID]
<1>1. associations # << >> /\ stage = "associating" /\ a \in Association
    BY HeadTailProperties DEF Couple, Stages, TypeOK
<1>2. a.assocTUID \in Trains /\ a.baseTUID \in Trains
    BY <1>1 DEF Association
<1>a. PICK at \in FirstOf(list, matches) : \E from \in FirstOf(bases, BasesOf(a, list[at])) :
        LET base == bases[from]
            assoc == list[at]
            asDated == AsDated(a, base, assoc, nextId)
            copies == Copies(a, base, asDated, nextId + 1)
            remainder == Remainder(a, base, assoc, nextId + 1 + Len(copies))
        IN /\ CanApply(a, base, assoc)
           /\ links' = links \cup {LinkOf(a, base, IF copies = << >> THEN asDated ELSE copies[1])}
           /\ associated' = associated \o <<asDated>> \o copies
           /\ schedules' = [schedules EXCEPT ![assoc.tuid] = Spliced(list, at, remainder)]
           /\ nextId' = nextId + 1 + Len(copies) + Len(remainder)
           /\ matches' = matches \ {assoc}
    BY DEF Couple
<1>3. PICK from \in FirstOf(bases, BasesOf(a, list[at])) :
        LET base == bases[from]
            assoc == list[at]
            asDated == AsDated(a, base, assoc, nextId)
            copies == Copies(a, base, asDated, nextId + 1)
            remainder == Remainder(a, base, assoc, nextId + 1 + Len(copies))
        IN /\ CanApply(a, base, assoc)
           /\ links' = links \cup {LinkOf(a, base, IF copies = << >> THEN asDated ELSE copies[1])}
           /\ associated' = associated \o <<asDated>> \o copies
           /\ schedules' = [schedules EXCEPT ![assoc.tuid] = Spliced(list, at, remainder)]
           /\ nextId' = nextId + 1 + Len(copies) + Len(remainder)
           /\ matches' = matches \ {assoc}
    BY <1>a
<1> DEFINE base == bases[from]
           assoc == list[at]
           dated == AsDated(a, base, assoc, nextId)
           copies == Copies(a, base, dated, nextId + 1)
           remainder == Remainder(a, base, assoc, nextId + 1 + Len(copies))
<1>4. at \in DOMAIN list /\ from \in DOMAIN bases
    BY DEF FirstOf
<1>5. /\ base \in Standing /\ base \in Schedule /\ base.tuid = a.baseTUID
      /\ assoc \in Standing /\ assoc \in Schedule /\ assoc.tuid = a.assocTUID
    BY <1>2, <1>4, IndexType
<1>6. assoc.told = 0 /\ nextId \in Nat
    BY <1>1, <1>5 DEF Whole, TypeOK
<1>7. /\ dated \in Schedule
      /\ dated.id = nextId /\ dated.tuid = assoc.tuid /\ dated.calls = assoc.calls
      /\ dated.told = assoc.told /\ dated.copy = assoc.copy
      /\ dated.calendar = InAssocDays(a, CoupledDays(a, base, assoc))
    BY <1>1, <1>5, <1>6, AsDatedIsOfTheCoupledDays, ZenonT(40)
<1> HIDE DEF a, list, bases, base, assoc, dated, copies, remainder
<1>8. \/ copies = << >> /\ ~NeedsCopy(a, base, dated)
      \/ /\ Len(copies) = 1 /\ copies = <<copies[1]>> /\ NeedsCopy(a, base, dated)
         /\ copies[1] \in Schedule
         /\ copies[1].id = nextId + 1 /\ copies[1].tuid = dated.tuid /\ copies[1].calls = dated.calls
         /\ copies[1].told = 1 /\ copies[1].copy
         /\ Departs(copies[1]) = Departs(dated)
    BY <1>1, <1>5, <1>6, <1>7, CopiesLeaveAsThePortion DEF copies
<1>9. /\ copies \in Seq(Schedule)
      /\ copies = << >> => Len(copies) = 0 /\ ToSet(copies) = {}
      /\ copies # << >> => Len(copies) = 1 /\ ToSet(copies) = {copies[1]}
    BY <1>8, AtMostOne
<1>10. Len(copies) \in {0, 1}
    BY <1>9
<1>11. \/ remainder = << >> /\ Runs(assoc.calendar) \subseteq Runs(dated.calendar)
       \/ \E rest \in Schedule :
             /\ remainder = <<rest>>
             /\ rest.id = nextId + 1 + Len(copies) /\ rest.tuid = assoc.tuid
             /\ rest.told = assoc.told /\ rest.copy = assoc.copy
             /\ Runs(rest.calendar) = Runs(assoc.calendar) \ Runs(dated.calendar)
    <2> DEFINE id == nextId + 1 + Len(copies)
    <2>1. id \in Nat
        BY <1>6, <1>10
    <2>2. remainder = Remainder(a, base, assoc, id)
        BY DEF remainder
    <2> HIDE DEF id
    <2>3. \/ /\ Remainder(a, base, assoc, id) = << >>
             /\ Runs(assoc.calendar) \subseteq Runs(InAssocDays(a, CoupledDays(a, base, assoc)))
          \/ \E rest \in Schedule :
                Remainder(a, base, assoc, id) = <<rest>> /\ OfTheOtherDays(rest, a, base, assoc, id)
        BY <2>1, <1>1, <1>5, RemainderIsTheOtherDays
    <2> QED BY <2>2, <2>3, <1>7 DEF id, OfTheOtherDays
<1>12. \/ remainder = << >> /\ Runs(assoc.calendar) \subseteq Runs(dated.calendar)
       \/ /\ Len(remainder) = 1 /\ remainder = <<remainder[1]>>
          /\ remainder[1] \in Schedule
          /\ remainder[1].id = nextId + 1 + Len(copies) /\ remainder[1].tuid = assoc.tuid
          /\ remainder[1].told = assoc.told /\ remainder[1].copy = assoc.copy
          /\ Runs(remainder[1].calendar) = Runs(assoc.calendar) \ Runs(dated.calendar)
    <2>1. ASSUME NEW rest \in Schedule, remainder = <<rest>>
          PROVE  Len(remainder) = 1 /\ remainder = <<remainder[1]>> /\ remainder[1] = rest
        BY <2>1, ElementsOfOne
    <2> QED BY <2>1, <1>11
<1>13. /\ remainder \in Seq(Schedule)
       /\ remainder = << >> => Len(remainder) = 0 /\ ToSet(remainder) = {}
       /\ remainder # << >> => Len(remainder) = 1 /\ ToSet(remainder) = {remainder[1]}
    BY <1>12, AtMostOne
<1>14. Len(remainder) \in {0, 1}
    BY <1>13
<1> DEFINE spliced == Spliced(list, at, remainder)
<1>15. list \in Seq(Schedule) /\ Distinct(list) /\ list = schedules[a.assocTUID]
    BY <1>1, <1>2, IndexType DEF Whole, list
<1>16. spliced \in Seq(Schedule) /\ Distinct(spliced)
       /\ ToSet(spliced) = (ToSet(list) \ {assoc}) \cup ToSet(remainder)
    <2>1. CASE remainder = << >>
        BY <2>1, <1>4, <1>13, <1>15, SplicedOut DEF assoc
    <2>2. CASE remainder # << >>
        <3>1. remainder[1] \notin ToSet(list)
            <4>1. \A s \in ToSet(list) : s \in All
                BY <1>1, <1>2, <1>15 DEF All
            <4>2. remainder[1].id > nextId
                BY <1>6, <1>9, <1>12, <2>2
            <4>3. \A s \in ToSet(list) : s.id < nextId /\ s.id \in Nat
                BY <4>1, IndexType DEF Ids, Schedule
            <4> QED BY <4>2, <4>3, <1>6
        <3>2. remainder = <<remainder[1]>> /\ remainder[1] \in Schedule
            BY <1>12, <2>2
        <3>3. Spliced(list, at, <<remainder[1]>>) \in Seq(Schedule)
              /\ Distinct(Spliced(list, at, <<remainder[1]>>))
              /\ ToSet(Spliced(list, at, <<remainder[1]>>)) = (ToSet(list) \ {list[at]}) \cup {remainder[1]}
            BY <3>1, <3>2, <1>4, <1>15, SplicedIn
        <3> QED BY <3>2, <3>3, <2>2, <1>13 DEF assoc
    <2> QED BY <2>1, <2>2
<1> HIDE DEF spliced
<1>17. schedules' = [schedules EXCEPT ![a.assocTUID] = spliced]
    BY <1>3, <1>5 DEF spliced, remainder, copies, dated, assoc, base, list, bases, a
<1>18. schedules' \in [Trains -> Seq(Schedule)]
       /\ \A t \in Trains : schedules'[t] = IF t = a.assocTUID THEN spliced ELSE schedules[t]
    BY <1>2, <1>16, <1>17 DEF TypeOK
<1>19. \A t \in Trains : Distinct(schedules'[t])
    BY <1>1, <1>16, <1>18 DEF Whole
<1>20. \A t \in Trains : \A s \in ToSet(schedules'[t]) : s.tuid = t
    <2> SUFFICES ASSUME NEW t \in Trains, NEW s \in ToSet(schedules'[t])
                 PROVE  s.tuid = t
        OBVIOUS
    <2>1. CASE t = a.assocTUID
        BY <2>1, <1>2, <1>5, <1>12, <1>13, <1>15, <1>16, <1>18 DEF TypeOK
    <2>2. CASE t # a.assocTUID
        BY <2>2, <1>18 DEF TypeOK
    <2> QED BY <2>1, <2>2
<1>21. Standing' = (Standing \ {assoc}) \cup ToSet(remainder)
    <2>1. Standing' = UNION {ToSet(schedules'[t]) : t \in Trains}
        BY DEF Standing
    <2>2. ASSUME NEW s \in Standing'
          PROVE  s \in (Standing \ {assoc}) \cup ToSet(remainder)
        <3>1. PICK t \in Trains : s \in ToSet(schedules'[t])
            BY <2>1, <2>2
        <3>2. CASE t = a.assocTUID
            BY <3>1, <3>2, <1>15, <1>16, <1>18 DEF Standing
        <3>3. CASE t # a.assocTUID
            BY <3>1, <3>3, <1>5, <1>18, <1>20 DEF Standing
        <3> QED BY <3>2, <3>3
    <2>3. ASSUME NEW s \in Standing, s # assoc
          PROVE  s \in Standing'
        <3>1. PICK t \in Trains : s \in ToSet(schedules[t])
            BY <2>3 DEF Standing
        <3>2. CASE t = a.assocTUID
            BY <3>1, <3>2, <2>1, <2>3, <1>15, <1>16, <1>18
        <3>3. CASE t # a.assocTUID
            BY <3>1, <3>3, <2>1, <1>18
        <3> QED BY <3>2, <3>3
    <2>4. ToSet(remainder) \subseteq Standing'
        BY <2>1, <1>2, <1>16, <1>18
    <2> QED BY <2>2, <2>3, <2>4
<1>22. associated' \in Seq(Schedule)
       /\ ToSet(associated)' = ToSet(associated) \cup {dated} \cup ToSet(copies)
    <2>1. associated' = associated \o <<dated>> \o copies
        BY <1>3 DEF remainder, copies, dated, assoc, base, list, bases, a
    <2>2. associated \in Seq(Schedule)
        BY DEF TypeOK
    <2> DEFINE one == <<dated>>
               both == associated \o one
    <2>3. one \in Seq(Schedule) /\ ToSet(one) = {dated}
        BY <1>7, ElementsOfOne
    <2> HIDE DEF one
    <2>4. both \in Seq(Schedule) /\ ToSet(both) = ToSet(associated) \cup {dated}
        BY <2>2, <2>3, ElementsOfConcat
    <2>7. associated' = both \o copies
        BY <2>1 DEF one
    <2> HIDE DEF both
    <2>5. both \o copies \in Seq(Schedule)
          /\ ToSet(both \o copies) = ToSet(associated) \cup {dated} \cup ToSet(copies)
        BY <2>4, <1>9, ElementsOfConcat
    <2>6. ToSet(associated)' = ToSet(associated')
        BY DEF ToSet
    <2> QED BY <2>7, <2>5, <2>6
<1>23. nextId' = nextId + 1 + Len(copies) + Len(remainder)
    BY <1>3 DEF remainder, copies, dated, assoc, base, list, bases, a
<1>24. links' = links \cup {LinkOf(a, base, IF copies = << >> THEN dated ELSE copies[1])}
       /\ CanApply(a, base, assoc)
    BY <1>3 DEF remainder, copies, dated, assoc, base, list, bases, a
<1>25. matches' = matches \ {assoc}
    BY <1>3 DEF remainder, copies, dated, assoc, base, list, bases, a
<1>26. ASSUME Distinct(associated)
       PROVE  Distinct(associated)'
    <2>1. associated' = associated \o <<dated>> \o copies
        BY <1>3 DEF remainder, copies, dated, assoc, base, list, bases, a
    <2>2. associated \in Seq(Schedule)
        BY DEF TypeOK
    <2> DEFINE both == associated \o <<dated>>
    <2>3. \A s \in ToSet(associated) : s.id < nextId /\ s.id \in Nat
        <3>1. \A s \in ToSet(associated) : s \in All
            BY <1>1 DEF All
        <3>2. \A s \in ToSet(associated) : s \in Schedule
            BY <2>2 DEF ToSet
        <3> QED BY <3>1, <3>2, ScheduleIds DEF Ids
    <2>4. dated \notin ToSet(associated)
        BY <2>3, <1>6, <1>7
    <2>5. both \in Seq(Schedule) /\ Distinct(both) /\ ToSet(both) = ToSet(associated) \cup {dated}
        BY <1>7, <1>26, <2>2, <2>4, DistinctAppended
    <2>6. associated' = both \o copies
        BY <2>1
    <2> HIDE DEF both
    <2>7. CASE copies = << >>
        <3>1. both \o << >> = both
            BY <2>5, ConcatEmptySeq
        <3>2. associated' = both
            BY <2>6, <2>7, <3>1
        <3> QED BY <2>5, <3>2 DEF Distinct
    <2>8. CASE Len(copies) = 1 /\ copies = <<copies[1]>> /\ copies[1] \in Schedule /\ copies[1].id = nextId + 1
        <3> DEFINE copy == copies[1]
        <3>1. copy \in Schedule /\ copy.id = nextId + 1 /\ copies = <<copy>>
            BY <2>8
        <3> HIDE DEF copy
        <3>2. copy \notin ToSet(both)
            BY <2>3, <2>5, <3>1, <1>6, <1>7
        <3>3. Distinct(both \o <<copy>>)
            BY <2>5, <3>1, <3>2, DistinctAppended
        <3>4. associated' = both \o <<copy>>
            BY <2>6, <3>1
        <3> QED BY <3>3, <3>4 DEF Distinct
    <2> QED BY <2>7, <2>8, <1>8
<1>27. Cutting(a, base, assoc, dated, ToSet(copies), ToSet(remainder))
    <2>1. ToSet(copies) # {} <=> NeedsCopy(a, base, dated)
        <3>1. CASE copies = << >> /\ ~NeedsCopy(a, base, dated)
            BY <3>1, <1>9
        <3>2. CASE Len(copies) = 1 /\ NeedsCopy(a, base, dated)
            <4>1. ToSet(copies) = {copies[1]}
                BY <3>2, <1>9
            <4> QED BY <3>2, <4>1
        <3> QED BY <3>1, <3>2, <1>8
    <2>2. ToSet(copies) \subseteq Schedule /\ \A c, d \in ToSet(copies) : c = d
        BY <1>8, <1>9
    <2>3. \A c \in ToSet(copies) :
              /\ c.id = nextId + 1 /\ c.tuid = dated.tuid /\ c.calls = dated.calls
              /\ c.told = 1 /\ c.copy /\ Departs(c) = Departs(dated)
        BY <1>8, <1>9
    <2>4. ToSet(remainder) \subseteq Schedule /\ \A c, d \in ToSet(remainder) : c = d
        BY <1>12, <1>13
    <2>5. \A r \in ToSet(remainder) :
              /\ r.id > nextId /\ (ToSet(copies) # {} => r.id > nextId + 1)
              /\ r.id < nextId'
        <3> SUFFICES ASSUME NEW r \in ToSet(remainder)
                     PROVE  /\ r.id > nextId /\ (ToSet(copies) # {} => r.id > nextId + 1)
                            /\ r.id < nextId'
            OBVIOUS
        <3>1. r.id = nextId + 1 + Len(copies) /\ Len(remainder) = 1
            BY <1>12, <1>13
        <3>2. ToSet(copies) # {} => Len(copies) = 1
            BY <1>9, <1>9
        <3> QED BY <3>1, <3>2, <1>6, <1>9, <1>23
    <2>6. \A r \in ToSet(remainder) :
              /\ r.tuid = assoc.tuid /\ r.told = assoc.told /\ r.copy = assoc.copy
              /\ Runs(r.calendar) = Runs(assoc.calendar) \ Runs(dated.calendar)
        BY <1>12, <1>13
    <2>7. ToSet(remainder) = {} => Runs(assoc.calendar) \subseteq Runs(dated.calendar)
        BY <1>12, <1>13
    <2>8. nextId' \in Nat /\ nextId' > nextId /\ (ToSet(copies) # {} => nextId' > nextId + 1)
        <3>1. ToSet(copies) # {} => Len(copies) = 1
            BY <1>9, <1>9
        <3> QED BY <3>1, <1>6, <1>9, <1>13, <1>23
    <2>9. \E portion \in {dated} \cup ToSet(copies) :
              /\ links' = links \cup {LinkOf(a, base, portion)}
              /\ ToSet(copies) = {} => portion = dated
              /\ ToSet(copies) # {} => portion \in ToSet(copies)
        BY <1>9, <1>24
    <2>10. \A t \in Trains : Distinct(schedules[t])'
        BY <1>19 DEF Distinct
    <2>11. a = Head(associations)
        BY DEF a
    <2>12. dated = AsDated(a, base, assoc, nextId)
        BY DEF dated
    <2> QED
        BY <2>1, <2>2, <2>3, <2>4, <2>5, <2>6, <2>7, <2>8, <2>9, <2>10, <2>11, <2>12,
           <1>1, <1>5, <1>18, <1>20, <1>21, <1>22, <1>24, <1>25, <1>26 DEF Cutting
<1> QED BY <1>27

-----------------------------------------------------------------------------
(* Where the schedules are after a step *)

\* The steps that look, and cut nothing.
Looking ==
    /\ schedules' = schedules /\ associated' = associated /\ links' = links
    /\ nextId' = nextId /\ trips' = trips /\ stage' = stage
    /\ timetable' = timetable /\ duplicateOvernight' = duplicateOvernight

\* Looking for schedules changes nothing that is published.
LEMMA LooksOnly ==
    ASSUME FindMatches \/ EndAssociation \/ NoCoupling \/ UNCHANGED vars
    PROVE  Looking
BY DEF FindMatches, EndAssociation, NoCoupling, vars, input, Looking

\* The coupled go back to the index one by one.
LEMMA PutBackMoves ==
    ASSUME TypeOK, PutBack
    PROVE  /\ schedules' \in [Trains -> Seq(Schedule)]
           /\ \A t \in Trains : \A s \in ToSet(schedules'[t]) : s.tuid = t
           /\ associated' \in Seq(Schedule)
           /\ Standing' \cup ToSet(associated') = Standing \cup ToSet(associated)
           /\ Standing' = Standing \cup {Head(associated)} /\ Head(associated) \in Schedule
           /\ \A t \in Trains :
                 schedules'[t] = IF t = Head(associated).tuid THEN Append(schedules[t], Head(associated))
                                 ELSE schedules[t]
<1> DEFINE s == Head(associated)
           list == schedules[s.tuid]
<1>1. associated \in Seq(Schedule) /\ associated # << >>
    BY DEF TypeOK, PutBack
<1>2. s \in Schedule /\ Tail(associated) \in Seq(Schedule)
    BY <1>1, HeadTailProperties
<1>3. ToSet(associated) = {s} \cup ToSet(Tail(associated))
    <2>1. /\ Len(associated) \in Nat \ {0} /\ DOMAIN associated = 1..Len(associated)
          /\ Len(Tail(associated)) = Len(associated) - 1
          /\ \A i \in 1..Len(Tail(associated)) : Tail(associated)[i] = associated[i + 1]
          /\ DOMAIN Tail(associated) = 1..Len(Tail(associated))
          /\ associated[1] = s
        BY <1>1, <1>2, HeadTailProperties
    <2>2. ASSUME NEW e \in ToSet(associated)
          PROVE  e \in {s} \cup ToSet(Tail(associated))
        <3>1. PICK i \in 1..Len(associated) : associated[i] = e
            BY <2>1, <2>2 DEF ToSet
        <3>2. CASE i = 1
            BY <2>1, <3>1, <3>2
        <3>3. CASE i # 1
            <4>1. i - 1 \in 1..Len(Tail(associated)) /\ Tail(associated)[i - 1] = associated[(i - 1) + 1]
                BY <2>1, <3>1, <3>3
            <4>2. i - 1 \in DOMAIN Tail(associated) /\ Tail(associated)[i - 1] = e
                BY <2>1, <3>1, <4>1
            <4> QED BY <4>2 DEF ToSet
        <3> QED BY <3>2, <3>3
    <2>3. ASSUME NEW e \in ToSet(Tail(associated))
          PROVE  e \in ToSet(associated)
        <3>1. PICK i \in 1..Len(Tail(associated)) : Tail(associated)[i] = e
            BY <2>1, <2>3 DEF ToSet
        <3>2. i + 1 \in DOMAIN associated /\ associated[i + 1] = e
            BY <2>1, <3>1
        <3> QED BY <3>2 DEF ToSet
    <2>4. s \in ToSet(associated)
        BY <2>1 DEF ToSet
    <2> QED BY <2>2, <2>3, <2>4
<1>4. s.tuid \in Trains /\ list \in Seq(Schedule)
    BY <1>2 DEF Schedule, TypeOK
<1> HIDE DEF s, list
<1>5. Append(list, s) \in Seq(Schedule) /\ ToSet(Append(list, s)) = ToSet(list) \cup {s}
    <2>1. <<s>> \in Seq(Schedule) /\ ToSet(<<s>>) = {s}
        BY <1>2, ElementsOfOne
    <2>2. list \o <<s>> \in Seq(Schedule) /\ ToSet(list \o <<s>>) = ToSet(list) \cup ToSet(<<s>>)
        BY <1>4, <2>1, ElementsOfConcat
    <2>3. Append(list, s) = list \o <<s>>
        BY <1>2, <1>4, AppendProperties
    <2> QED BY <2>1, <2>2, <2>3
<1>6. schedules' = [schedules EXCEPT ![s.tuid] = Append(list, s)] /\ associated' = Tail(associated)
    BY DEF PutBack, s, list
<1>7. schedules' \in [Trains -> Seq(Schedule)]
      /\ \A t \in Trains : schedules'[t] = IF t = s.tuid THEN Append(list, s) ELSE schedules[t]
    BY <1>4, <1>5, <1>6 DEF TypeOK
<1>8. \A t \in Trains : ToSet(schedules'[t]) = IF t = s.tuid THEN ToSet(schedules[t]) \cup {s} ELSE ToSet(schedules[t])
    BY <1>5, <1>7 DEF list
<1>9. \A t \in Trains : \A u \in ToSet(schedules'[t]) : u.tuid = t
    BY <1>8 DEF TypeOK
<1>10. Standing' = Standing \cup {s}
    <2>1. Standing' = UNION {ToSet(schedules'[t]) : t \in Trains}
        BY DEF Standing
    <2> QED BY <2>1, <1>4, <1>8 DEF Standing
<1>11. \A t \in Trains : schedules'[t] = IF t = s.tuid THEN Append(schedules[t], s) ELSE schedules[t]
    BY <1>7 DEF list
<1> QED BY <1>2, <1>3, <1>6, <1>7, <1>9, <1>10, <1>11 DEF s

\* The trips are the schedules of the index, numbered.
LEMMA MergeNumbersAll ==
    ASSUME TypeOK, MergeSchedules
    PROVE  {trip.schedule : trip \in trips'} = Standing
<1>1. trips' = UNION {Numbered(schedules[t]) : t \in Trains}
    BY DEF MergeSchedules
<1>2. ASSUME NEW t \in Trains, NEW trip \in Numbered(schedules[t])
      PROVE  trip.schedule \in ToSet(schedules[t])
    <2>1. PICK i \in DOMAIN schedules[t] :
            trip = [trip_id |-> TripIdAt(schedules[t], i), schedule |-> schedules[t][i]]
        BY DEF Numbered
    <2>2. trip.schedule = schedules[t][i]
        BY <2>1
    <2> QED BY <2>2 DEF ToSet
<1>3. ASSUME NEW t \in Trains, NEW s \in ToSet(schedules[t])
      PROVE  \E trip \in Numbered(schedules[t]) : trip.schedule = s
    <2>1. PICK i \in DOMAIN schedules[t] : s = schedules[t][i]
        BY DEF ToSet
    <2> DEFINE trip == [trip_id |-> TripIdAt(schedules[t], i), schedule |-> schedules[t][i]]
    <2>2. trip \in Numbered(schedules[t])
        BY DEF Numbered
    <2>3. trip.schedule = s
        BY <2>1
    <2> HIDE DEF trip
    <2> QED BY <2>2, <2>3
<1> QED BY <1>1, <1>2, <1>3 DEF Standing

\* Looking, putting back, numbering and resolving lose no schedule and make none.
LEMMA AllStays ==
    ASSUME TypeOK, Looking \/ PutBack \/ MergeSchedules \/ ResolveLinks
    PROVE  All' = All
<1>1. CASE Looking
    BY <1>1 DEF Looking, All, ToSet
<1>2. CASE PutBack
    <2>1. stage = "associating" /\ stage' = "associating"
        BY <1>2 DEF PutBack
    <2>2. All = Standing \cup ToSet(associated)
        BY <2>1 DEF All, Standing
    <2>3. All' = Standing' \cup ToSet(associated')
        BY <2>1 DEF All, Standing, ToSet
    <2> QED BY <1>2, <2>2, <2>3, PutBackMoves
<1>3. CASE MergeSchedules
    <2>1. stage = "associating" /\ stage' = "resolving" /\ associated = << >>
        BY <1>3 DEF MergeSchedules
    <2>2. All = Standing
        BY <2>1, ElementsOfNone DEF All, Standing
    <2>3. All' = {trip.schedule : trip \in trips'}
        BY <2>1 DEF All
    <2> QED BY <1>3, <2>2, <2>3, MergeNumbersAll
<1>4. CASE ResolveLinks
    BY <1>4 DEF ResolveLinks, All
<1> QED BY <1>1, <1>2, <1>3, <1>4

\* A coupling takes one schedule away and puts its pieces there.
LEMMA AllIsCut ==
    ASSUME TypeOK, Stages, Whole, Couple, NEW a, NEW base, NEW assoc, NEW dated, NEW copies, NEW rest,
           Cutting(a, base, assoc, dated, copies, rest)
    PROVE  /\ All = Standing \cup ToSet(associated)
           /\ All' = (All \ {assoc}) \cup {dated} \cup copies \cup rest
           /\ stage = "associating" /\ stage' = "associating"
<1>1. stage = "associating" /\ stage' = "associating" /\ associations # << >>
    BY DEF Couple, Stages, Cutting
<1>2. All = Standing \cup ToSet(associated)
    BY <1>1 DEF All, Standing
<1>3. All' = Standing' \cup ToSet(associated)'
    BY <1>1 DEF All, Standing, ToSet
<1>4. assoc \in Standing /\ assoc \notin ToSet(associated)
    BY <1>1 DEF Cutting, Whole
<1>5. Standing' = (Standing \ {assoc}) \cup rest
      /\ ToSet(associated)' = ToSet(associated) \cup {dated} \cup copies
    BY DEF Cutting
<1> QED BY <1>1, <1>2, <1>3, <1>4, <1>5

\* The last step shifts every schedule in its place.
LEMMA AllIsShifted ==
    ASSUME TypeOK, ShiftLateNightServices
    PROVE  All' = {Shifted(s) : s \in All}
<1>1. stage = "shifting" /\ stage' = "published"
      /\ trips' = {[trip EXCEPT !.schedule = Shifted(trip.schedule)] : trip \in trips}
    BY DEF ShiftLateNightServices
<1>2. All = {trip.schedule : trip \in trips} /\ All' = {trip.schedule : trip \in trips'}
    BY <1>1 DEF All
<1> DEFINE Late(trip) == [trip EXCEPT !.schedule = Shifted(trip.schedule)]
<1>3. \A trip \in trips : Late(trip).schedule = Shifted(trip.schedule)
    BY DEF TypeOK, Trip
<1>4. trips' = {Late(trip) : trip \in trips}
    BY <1>1
<1> HIDE DEF Late
<1>5. ASSUME NEW s \in All'
      PROVE  \E u \in All : s = Shifted(u)
    <2>1. PICK late \in trips' : s = late.schedule
        BY <1>2
    <2>2. PICK trip \in trips : late = Late(trip)
        BY <1>4, <2>1
    <2>3. trip.schedule \in All /\ s = Shifted(trip.schedule)
        BY <1>2, <1>3, <2>1, <2>2
    <2> QED BY <2>3
<1>6. ASSUME NEW u \in All
      PROVE  Shifted(u) \in All'
    <2>1. PICK trip \in trips : u = trip.schedule
        BY <1>2
    <2>2. Late(trip) \in trips' /\ Late(trip).schedule = Shifted(u)
        BY <1>3, <1>4, <2>1
    <2>3. Late(trip).schedule \in All'
        BY <1>2, <2>2
    <2> QED BY <2>2, <2>3
<1> QED BY <1>5, <1>6

-----------------------------------------------------------------------------
(* Types, places and ids *)

\* A trip id is of its kind.
LEMMA TripIdAtType ==
    ASSUME NEW t \in Trains, NEW list \in Seq(Schedule), \A s \in ToSet(list) : s.tuid = t,
           NEW i \in DOMAIN list
    PROVE  TripIdAt(list, i) \in Trains \X Int \X Int \X Nat
<1>1. list[i] \in Schedule /\ list[i].tuid = t /\ i \in Nat
    BY ElementOfSeq DEF ToSet
<1>2. list[i].calendar.runsFrom \in Int /\ list[i].calendar.runsTo \in Int
    BY <1>1 DEF Schedule, Calendar
<1>3. IsFiniteSet({j \in 1..i : SameTripId(list[i], list[j])})
    <2>1. IsFiniteSet(1..i)
        BY <1>1, FS_Interval
    <2> QED BY <2>1, FS_Subset
<1>4. Cardinality({j \in 1..i : SameTripId(list[i], list[j])}) \in Nat
    BY <1>3, FS_CardinalityType
<1> QED BY <1>1, <1>2, <1>4 DEF TripIdAt

\* Numbered schedules are trips.
LEMMA NumberedType ==
    ASSUME TypeOK
    PROVE  UNION {Numbered(schedules[t]) : t \in Trains} \subseteq Trip
<1> SUFFICES ASSUME NEW t \in Trains, NEW trip \in Numbered(schedules[t])
             PROVE  trip \in Trip
    OBVIOUS
<1>1. schedules[t] \in Seq(Schedule) /\ \A s \in ToSet(schedules[t]) : s.tuid = t
    BY DEF TypeOK
<1>2. PICK i \in DOMAIN schedules[t] :
        trip = [trip_id |-> TripIdAt(schedules[t], i), schedule |-> schedules[t][i]]
    BY DEF Numbered
<1>3. TripIdAt(schedules[t], i) \in Trains \X Int \X Int \X Nat
    BY <1>1, TripIdAtType
<1>4. schedules[t][i] \in Schedule
    BY <1>1, ElementOfSeq
<1> QED BY <1>2, <1>3, <1>4 DEF Trip

\* Resolved, a link still says which association it is of.
LEMMA ResolvedKeepsItsAssociation ==
    ASSUME TypeOK, LinksById, ResolveLinks, NEW link \in links'
    PROVE  \E l \in links :
              /\ l \in LinkRecord
              /\ link = [l EXCEPT !.from = TripId(l.from), !.to = TripId(l.to)]
              /\ link.of = l.of /\ link.location = l.location
              /\ link.from = TripId(l.from) /\ link.to = TripId(l.to)
              /\ Cardinality(TripsOf(l.from)) = 1 /\ Cardinality(TripsOf(l.to)) = 1
<1>1. PICK l \in links :
        /\ link = [l EXCEPT !.from = TripId(l.from), !.to = TripId(l.to)]
        /\ Cardinality(TripsOf(l.from)) = 1 /\ Cardinality(TripsOf(l.to)) = 1
    BY DEF ResolveLinks
<1>2. l \in LinkRecord
    BY DEF LinksById, ResolveLinks
<1>3. link.of = l.of /\ link.location = l.location /\ link.from = TripId(l.from) /\ link.to = TripId(l.to)
    BY <1>1, <1>2 DEF LinkRecord
<1> QED BY <1>1, <1>2, <1>3

\* Every step keeps the types.
LEMMA TypeStep ==
    ASSUME IInv, [Next]_vars
    PROVE  TypeOK'
<1> USE DEF IInv
<1>1. CASE FindMatches
    <2>1. matches' \subseteq Schedule
        <3> DEFINE a == Head(associations)
        <3>a. a \in Association
            BY <1>1, HeadTailProperties DEF FindMatches, TypeOK
        <3>1. a \in Association /\ a.assocTUID \in Trains
            BY <3>a DEF Association
        <3>2. matches' \subseteq ToSet(schedules[a.assocTUID])
            BY <1>1 DEF FindMatches, FindSchedules
        <3> QED BY <3>1, <3>2, IndexType
    <2> QED BY <1>1, <2>1 DEF FindMatches, input, TypeOK, Trip
<1>2. CASE EndAssociation
    <2>1. associations # << >>
        BY <1>2 DEF EndAssociation, Stages
    <2>2. Tail(associations) \in Seq(Association)
        BY <2>1, HeadTailProperties DEF TypeOK
    <2> QED BY <1>2, <2>2 DEF EndAssociation, input, TypeOK, Trip
<1>3. CASE NoCoupling
    <2>1. matches' \subseteq matches
        BY <1>3 DEF NoCoupling
    <2> QED BY <1>3, <2>1 DEF NoCoupling, input, TypeOK, Trip
<1>4. CASE Couple
    <2>1. PICK a, base, assoc, dated, copies, rest : Cutting(a, base, assoc, dated, copies, rest)
        BY <1>4, CoupleCuts
    <2>2. PICK portion \in {dated} \cup copies : links' = links \cup {LinkOf(a, base, portion)}
        BY <2>1 DEF Cutting
    <2>3. a \in Association /\ a.type \in {Join, Split}
        BY <2>1 DEF Cutting, CanApply
    <2>4. LinkOf(a, base, portion).of = a
        BY DEF LinkOf
    <2>5. \A link \in links' : link.of \in Association /\ link.of.type \in {Join, Split}
        BY <2>2, <2>3, <2>4 DEF TypeOK
    <2>6. /\ schedules' \in [Trains -> Seq(Schedule)]
          /\ \A t \in Trains : \A s \in ToSet(schedules'[t]) : s.tuid = t
          /\ associated' \in Seq(Schedule) /\ nextId' \in Nat
        BY <2>1 DEF Cutting
    <2>7. matches' \subseteq matches
        BY <1>4 DEF Couple
    <2>8. /\ associations' = associations /\ applying' = applying /\ trips' = trips
          /\ stage' = stage /\ duplicateOvernight' = duplicateOvernight
        BY <1>4 DEF Couple, input
    <2> QED BY <2>5, <2>6, <2>7, <2>8 DEF TypeOK, Trip, ToSet
<1>5. CASE PutBack
    <2>1. /\ schedules' \in [Trains -> Seq(Schedule)]
          /\ \A t \in Trains : \A s \in ToSet(schedules'[t]) : s.tuid = t
          /\ associated' \in Seq(Schedule)
        BY <1>5, PutBackMoves
    <2> QED BY <1>5, <2>1 DEF PutBack, input, TypeOK, Trip, ToSet
<1>6. CASE MergeSchedules
    <2>1. trips' \subseteq Trip
        BY <1>6, NumberedType DEF MergeSchedules
    <2> QED BY <1>6, <2>1 DEF MergeSchedules, input, TypeOK, Trip
<1>7. CASE ResolveLinks
    <2>1. \A link \in links' : link.of \in Association /\ link.of.type \in {Join, Split}
        BY <1>7, ResolvedKeepsItsAssociation DEF TypeOK
    <2> QED BY <1>7, <2>1 DEF ResolveLinks, input, TypeOK, Trip
<1>8. CASE ShiftLateNightServices
    <2>1. trips' \subseteq Trip
        <3> SUFFICES ASSUME NEW late \in trips'
                     PROVE  late \in Trip
            OBVIOUS
        <3>1. PICK trip \in trips : late = [trip EXCEPT !.schedule = Shifted(trip.schedule)]
            BY <1>8 DEF ShiftLateNightServices
        <3>2. trip \in Trip
            BY DEF TypeOK
        <3>3. Shifted(trip.schedule) \in Schedule
            BY <3>2, ShiftedLeavesAsItDid DEF Trip
        <3> QED BY <3>1, <3>2, <3>3 DEF Trip
    <2> QED BY <1>8, <2>1 DEF ShiftLateNightServices, input, TypeOK, Trip
<1>9. CASE UNCHANGED vars
    BY <1>9 DEF vars, input, TypeOK, Trip
<1> QED BY <1>1, <1>2, <1>3, <1>4, <1>5, <1>6, <1>7, <1>8, <1>9 DEF Next

\* Every step keeps the order of the stages.
LEMMA StagesStep ==
    ASSUME IInv, [Next]_vars
    PROVE  Stages'
<1> USE DEF IInv, Stages
<1>1. CASE FindMatches
    BY <1>1 DEF FindMatches
<1>2. CASE EndAssociation
    BY <1>2 DEF EndAssociation
<1>3. CASE NoCoupling
    BY <1>3 DEF NoCoupling
<1>4. CASE Couple
    BY <1>4 DEF Couple
<1>5. CASE PutBack
    BY <1>5 DEF PutBack
<1>6. CASE MergeSchedules
    BY <1>6 DEF MergeSchedules
<1>7. CASE ResolveLinks
    BY <1>7 DEF ResolveLinks
<1>8. CASE ShiftLateNightServices
    BY <1>8 DEF ShiftLateNightServices
<1>9. CASE UNCHANGED vars
    BY <1>9 DEF vars
<1> QED BY <1>1, <1>2, <1>3, <1>4, <1>5, <1>6, <1>7, <1>8, <1>9 DEF Next

\* What is new after a coupling, with the ids it was given.
LEMMA NewIds ==
    ASSUME TypeOK, Ids, Whole, Stages, Couple,
           NEW a, NEW base, NEW assoc, NEW dated, NEW copies, NEW rest,
           Cutting(a, base, assoc, dated, copies, rest)
    PROVE  /\ dated \in Schedule /\ assoc \in Schedule /\ base \in Schedule
           /\ assoc.told = 0 /\ ~assoc.copy /\ base.told = 0 /\ ~base.copy
           /\ dated.id = nextId /\ dated.tuid = assoc.tuid /\ dated.calls = assoc.calls
           /\ dated.told = 0 /\ ~dated.copy
           /\ dated.calendar = InAssocDays(a, CoupledDays(a, base, assoc))
           /\ \A s \in {dated} \cup copies \cup rest : s.id >= nextId /\ s.id < nextId'
           /\ \A s, u \in {dated} \cup copies \cup rest : s.id = u.id => s = u
           /\ \A s \in All : s.id < nextId
<1>1. nextId \in Nat /\ associations # << >> /\ a \in Association /\ base \in Standing /\ assoc \in Standing
    BY DEF TypeOK, Cutting
<1>2. assoc \in Schedule /\ base \in Schedule
    BY <1>1, IndexType
<1>3. assoc.told = 0 /\ ~assoc.copy /\ base.told = 0 /\ ~base.copy
    BY <1>1 DEF Whole
<1>4. dated = AsDated(a, base, assoc, nextId)
    BY DEF Cutting
<1>5. /\ dated \in Schedule /\ dated.id = nextId /\ dated.tuid = assoc.tuid
      /\ dated.calls = assoc.calls /\ dated.told = assoc.told /\ dated.copy = assoc.copy
      /\ dated.calendar = InAssocDays(a, CoupledDays(a, base, assoc))
    <2>1. nextId \in Nat /\ a \in Association
        BY <1>1
    <2> DEFINE d == AsDated(a, base, assoc, nextId)
    <2>2. /\ d \in Schedule /\ d.id = nextId /\ d.tuid = assoc.tuid
          /\ d.calls = assoc.calls /\ d.told = assoc.told /\ d.copy = assoc.copy
          /\ d.calendar = InAssocDays(a, CoupledDays(a, base, assoc))
        BY <1>2, <2>1, AsDatedIsOfTheCoupledDays, ZenonT(30)
    <2>3. dated = d
        BY <1>4
    <2> HIDE DEF d
    <2> QED BY <2>2, <2>3
<1>6. nextId' \in Nat /\ nextId' > nextId /\ (copies # {} => nextId' > nextId + 1)
    BY DEF Cutting
<1>7. /\ \A c \in copies : c.id = nextId + 1
      /\ \A c, d \in copies : c = d
      /\ \A r, u \in rest : r = u
      /\ \A r \in rest : r.id > nextId /\ (copies # {} => r.id > nextId + 1) /\ r.id < nextId'
      /\ rest \subseteq Schedule
    BY DEF Cutting
<1>8. \A r \in rest : r.id \in Nat
    BY <1>7 DEF Schedule
<1>9. \A s \in {dated} \cup copies \cup rest : s.id >= nextId /\ s.id < nextId'
    BY <1>1, <1>5, <1>6, <1>7, <1>8
<1>10. ASSUME NEW s \in {dated} \cup copies \cup rest, NEW u \in {dated} \cup copies \cup rest, s.id = u.id
       PROVE  s = u
    <2>1. CASE s = dated /\ u = dated
        BY <2>1
    <2>2. CASE s \in copies /\ u \in copies
        BY <2>2, <1>7
    <2>3. CASE s \in rest /\ u \in rest
        BY <2>3, <1>7
    <2>4. CASE (s = dated /\ u \in copies \cup rest) \/ (u = dated /\ s \in copies \cup rest)
        BY <2>4, <1>1, <1>5, <1>7, <1>8, <1>10
    <2>5. CASE (s \in copies /\ u \in rest) \/ (u \in copies /\ s \in rest)
        BY <2>5, <1>1, <1>7, <1>8, <1>10
    <2> QED BY <2>1, <2>2, <2>3, <2>4, <2>5
<1> QED BY <1>2, <1>3, <1>5, <1>9, <1>10 DEF Ids

\* Every step keeps an id to one schedule.
LEMMA IdsStep ==
    ASSUME IInv, [Next]_vars
    PROVE  Ids'
<1> USE DEF IInv
<1>1. CASE Looking \/ PutBack \/ MergeSchedules \/ ResolveLinks
    <2>1. All' = All
        BY <1>1, AllStays
    <2>2. nextId' = nextId
        BY <1>1 DEF Looking, PutBack, MergeSchedules, ResolveLinks
    <2> QED BY <2>1, <2>2 DEF Ids
<1>2. CASE Couple
    <2>1. PICK a, base, assoc, dated, copies, rest : Cutting(a, base, assoc, dated, copies, rest)
        BY <1>2, CoupleCuts
    <2> DEFINE new == {dated} \cup copies \cup rest
    <2>2. All' \subseteq All \cup new
        BY <1>2, <2>1, AllIsCut
    <2>3. /\ \A s \in new : s.id >= nextId /\ s.id < nextId'
          /\ \A s, u \in new : s.id = u.id => s = u
          /\ \A s \in All : s.id < nextId
        BY <1>2, <2>1, NewIds
    <2>4. nextId \in Nat /\ nextId' \in Nat /\ nextId' > nextId
        BY <2>1 DEF Cutting, TypeOK
    <2>5. \A s \in All \cup new : s.id \in Nat
        <3>1. new \subseteq Schedule
            <4>1. dated \in Schedule
                BY <1>2, <2>1, NewIds
            <4> QED BY <4>1, <2>1 DEF Cutting
        <3> QED BY <3>1, IndexType, ScheduleIds
    <2> HIDE DEF new
    <2>6. \A s \in All' : s.id < nextId'
        BY <2>2, <2>3, <2>4, <2>5
    <2>7. ASSUME NEW s \in All', NEW u \in All', s.id = u.id
          PROVE  s = u
        <3>1. CASE s \in All /\ u \in All
            BY <3>1, <2>7 DEF Ids
        <3>2. CASE s \in new /\ u \in new
            BY <3>2, <2>3, <2>7
        <3>3. CASE (s \in All /\ u \in new) \/ (u \in All /\ s \in new)
            BY <3>3, <2>3, <2>4, <2>5, <2>7
        <3> QED BY <3>1, <3>2, <3>3, <2>2
    <2> QED BY <2>6, <2>7 DEF Ids
<1>3. CASE ShiftLateNightServices
    <2>1. All' = {Shifted(s) : s \in All}
        BY <1>3, AllIsShifted
    <2>2. \A s \in All : Shifted(s).id = s.id
        BY IndexType, ShiftedLeavesAsItDid
    <2>3. nextId' = nextId
        BY <1>3 DEF ShiftLateNightServices
    <2> QED BY <2>1, <2>2, <2>3 DEF Ids
<1> QED BY <1>1, <1>2, <1>3, LooksOnly DEF Next

\* Every step keeps what is still to be coupled whole, and apart from what has been.
LEMMA WholeStep ==
    ASSUME IInv, [Next]_vars
    PROVE  Whole'
<1> USE DEF IInv
<1>1. CASE Looking /\ (associations' # << >> => associations # << >>)
    BY <1>1 DEF Looking, Whole, Standing, Distinct, ToSet
<1>2. CASE Couple
    <2>1. PICK a, base, assoc, dated, copies, rest : Cutting(a, base, assoc, dated, copies, rest)
        BY <1>2, CoupleCuts
    <2> DEFINE new == {dated} \cup copies
    <2>2. associations # << >>
        BY <2>1 DEF Cutting
    <2>3. /\ Standing' = (Standing \ {assoc}) \cup rest
          /\ ToSet(associated)' = ToSet(associated) \cup new
        BY <2>1 DEF Cutting
    <2>4. /\ \A s \in new \cup rest : s.id >= nextId
          /\ \A s, u \in new \cup rest : s.id = u.id => s = u
          /\ \A s \in All : s.id < nextId
          /\ All = Standing \cup ToSet(associated)
        BY <1>2, <2>1, NewIds, AllIsCut
    <2>5. nextId \in Nat /\ \A s \in new \cup rest \cup All : s.id \in Nat
        <3>1. new \cup rest \subseteq Schedule
            <4>1. dated \in Schedule
                BY <1>2, <2>1, NewIds
            <4> QED BY <4>1, <2>1 DEF Cutting
        <3>2. nextId \in Nat
            BY DEF TypeOK
        <3> QED BY <3>1, <3>2, IndexType, ScheduleIds
    <2>6. \A s \in Standing' : s.told = 0 /\ ~s.copy
        <3>1. \A s \in rest : s.told = assoc.told /\ s.copy = assoc.copy
            BY <2>1 DEF Cutting
        <3>2. assoc.told = 0 /\ ~assoc.copy
            BY <1>2, <2>1, NewIds
        <3> QED BY <2>2, <2>3, <3>1, <3>2 DEF Whole
    <2>7. Standing' \cap ToSet(associated)' = {}
        <3>1. rest \cap new = {}
            <4>1. \A r \in rest : r.id # dated.id /\ \A c \in copies : r.id # c.id
                <5>1. \A r \in rest : r.id > nextId /\ (copies # {} => r.id > nextId + 1)
                    BY <2>1 DEF Cutting
                <5>a. dated.id = nextId
                    BY <1>2, <2>1, NewIds
                <5>2. dated.id = nextId /\ \A c \in copies : c.id = nextId + 1
                    BY <5>a, <2>1 DEF Cutting
                <5>3. nextId \in Nat /\ \A r \in rest : r.id \in Nat
                    BY <2>5
                <5>4. ASSUME NEW r \in rest
                      PROVE  r.id # dated.id /\ \A c \in copies : r.id # c.id
                    <6>1. r.id # nextId
                        BY <5>1, <5>3
                    <6>2. copies # {} => r.id # nextId + 1
                        BY <5>1, <5>3
                    <6> QED BY <6>1, <6>2, <5>2
                <5> QED BY <5>4
            <4> QED BY <4>1
        <3>2. (new \cup rest) \cap All = {}
            BY <2>4, <2>5
        <3>3. Standing \cap ToSet(associated) = {}
            BY <2>2 DEF Whole
        <3> QED BY <2>3, <2>4, <3>1, <3>2, <3>3
    <2>8. \A t \in Trains : Distinct(schedules[t])'
        BY <2>1 DEF Cutting
    <2> QED BY <2>6, <2>7, <2>8 DEF Whole
<1>3. CASE PutBack \/ MergeSchedules \/ ResolveLinks \/ ShiftLateNightServices
    <2>1. associations' = << >>
        <3>1. associations = << >> \/ stage \in {"resolving", "shifting"}
            BY <1>3 DEF PutBack, MergeSchedules, ResolveLinks, ShiftLateNightServices
        <3>2. associations = << >>
            BY <3>1 DEF Stages
        <3>3. associations' = associations
            BY <1>3, Zenon DEF PutBack, MergeSchedules, ResolveLinks, ShiftLateNightServices
        <3> QED BY <3>2, <3>3
    <2> QED BY <2>1 DEF Whole
<1>4. CASE FindMatches \/ EndAssociation \/ NoCoupling \/ UNCHANGED vars
    <2>1. Looking
        BY <1>4, LooksOnly
    <2>2. associations' # << >> => associations # << >>
        BY <1>4 DEF FindMatches, EndAssociation, NoCoupling, vars, Stages
    <2> QED BY <1>1, <2>1, <2>2
<1> QED BY <1>2, <1>3, <1>4 DEF Next

-----------------------------------------------------------------------------
(* Every day once *)

Own(t) == {s \in All : s.tuid = t /\ ~s.copy}

\* What there was to begin with is never changed.
LEMMA NothingGivenChanges ==
    ASSUME [Next]_vars
    PROVE  timetable' = timetable /\ given' = given /\ duplicateOvernight' = duplicateOvernight
BY DEF Next, FindMatches, EndAssociation, NoCoupling, Couple, PutBack, MergeSchedules,
       ResolveLinks, ShiftLateNightServices, input, vars

\* The days of the schedule that was cut are those of the two it was cut into, each of
\* them the days of one.
LEMMA CutDays ==
    ASSUME TypeOK, Ids, Whole, Stages, Couple,
           NEW a, NEW base, NEW assoc, NEW dated, NEW copies, NEW rest,
           Cutting(a, base, assoc, dated, copies, rest)
    PROVE  /\ Departs(assoc) = Departs(dated) \cup UNION {Departs(r) : r \in rest}
           /\ \A r \in rest : Departs(r) \cap Departs(dated) = {}
           /\ \A s, u \in {dated} \cup rest : s # u => Departs(s) \cap Departs(u) = {}
<1>1. /\ dated \in Schedule /\ assoc \in Schedule /\ base \in Schedule
      /\ assoc.told = 0 /\ dated.told = 0
      /\ dated.calendar = InAssocDays(a, CoupledDays(a, base, assoc))
    BY NewIds
<1>2. /\ a \in Association /\ rest \subseteq Schedule
      /\ \A r, u \in rest : r = u
      /\ \A r \in rest : r.told = assoc.told
                         /\ Runs(r.calendar) = Runs(assoc.calendar) \ Runs(dated.calendar)
      /\ rest = {} => Runs(assoc.calendar) \subseteq Runs(dated.calendar)
    BY DEF Cutting
<1>3. Departs(assoc) = Runs(assoc.calendar) /\ Departs(dated) = Runs(dated.calendar)
    BY <1>1, DepartsAsTold
<1>4. \A r \in rest : Departs(r) = Runs(assoc.calendar) \ Runs(dated.calendar)
    BY <1>1, <1>2, DepartsAsTold
<1>5. Runs(dated.calendar) \subseteq Runs(assoc.calendar)
    <2>1. Runs(dated.calendar) \subseteq Int
        BY <1>1, RunsType DEF Schedule
    <2> QED BY <2>1, <1>1, <1>2, CoupledDaysAreOfAllThree
<1>6. Departs(assoc) = Departs(dated) \cup UNION {Departs(r) : r \in rest}
    <2>1. CASE rest = {}
        BY <2>1, <1>2, <1>3, <1>5
    <2>2. CASE rest # {}
        BY <2>2, <1>3, <1>4, <1>5
    <2> QED BY <2>1, <2>2
<1>7. \A r \in rest : Departs(r) \cap Departs(dated) = {}
    BY <1>3, <1>4
<1>8. \A s, u \in {dated} \cup rest : s # u => Departs(s) \cap Departs(u) = {}
    BY <1>2, <1>7
<1> QED BY <1>6, <1>7, <1>8

\* Every step keeps each day of a train with its schedules, and the days of two apart.
LEMMA RunsStep ==
    ASSUME IInv, [Next]_vars
    PROVE  RunsAsTimetabled'
<1> USE DEF IInv
<1> SUFFICES ASSUME NEW t \in Trains
             PROVE  /\ UNION {Departs(s) : s \in Own(t)'} = UNION {Departs(s) : s \in ToSet(timetable[t])}
                    /\ OnceADay(ToSet(timetable[t])) => OnceADay(Own(t)')
    <2>1. timetable' = timetable
        BY NothingGivenChanges
    <2>2. RunsAsTimetabled' <=>
            \A t \in Trains :
               /\ UNION {Departs(s) : s \in Own(t)'} = UNION {Departs(s) : s \in ToSet(timetable'[t])}
               /\ OnceADay(ToSet(timetable'[t])) => OnceADay(Own(t)')
        BY DEF RunsAsTimetabled, Own, ToSet
    <2> QED BY <2>1, <2>2
<1>a. /\ UNION {Departs(s) : s \in Own(t)} = UNION {Departs(s) : s \in ToSet(timetable[t])}
      /\ OnceADay(ToSet(timetable[t])) => OnceADay(Own(t))
    BY DEF RunsAsTimetabled, Own
<1>b. /\ \A date : date \in UNION {Departs(s) : s \in Own(t)} <=> \E s \in Own(t) : date \in Departs(s)
      /\ \A date : date \in UNION {Departs(s) : s \in Own(t)'} <=> \E s \in Own(t)' : date \in Departs(s)
    OBVIOUS
<1>1. CASE Looking \/ PutBack \/ MergeSchedules \/ ResolveLinks
    <2>1. Own(t)' = Own(t)
        BY <1>1, AllStays DEF Own
    <2> QED BY <2>1, <1>a
<1>2. CASE Couple
    <2>1. PICK a, base, assoc, dated, copies, rest : Cutting(a, base, assoc, dated, copies, rest)
        BY <1>2, CoupleCuts
    <2>2. /\ All' = (All \ {assoc}) \cup {dated} \cup copies \cup rest
          /\ All = Standing \cup ToSet(associated)
        BY <1>2, <2>1, AllIsCut
    <2>3. /\ dated.tuid = assoc.tuid /\ ~dated.copy /\ ~assoc.copy
        BY <1>2, <2>1, NewIds
    <2>4. /\ \A c \in copies : c.copy
          /\ \A r \in rest : r.tuid = assoc.tuid /\ r.copy = assoc.copy
          /\ assoc \in Standing
        BY <2>1 DEF Cutting
    <2>5. CASE t # assoc.tuid
        <3>1. Own(t)' = Own(t)
            BY <2>2, <2>3, <2>4, <2>5 DEF Own
        <3> QED BY <3>1, <1>a
    <2>6. CASE t = assoc.tuid
        <3>1. Own(t)' = (Own(t) \ {assoc}) \cup {dated} \cup rest /\ assoc \in Own(t)
            BY <2>2, <2>3, <2>4, <2>6 DEF Own
        <3>2. /\ Departs(assoc) = Departs(dated) \cup UNION {Departs(r) : r \in rest}
              /\ \A s, u \in {dated} \cup rest : s # u => Departs(s) \cap Departs(u) = {}
            BY <1>2, <2>1, CutDays
        <3>3. UNION {Departs(s) : s \in Own(t)'} = UNION {Departs(s) : s \in Own(t)}
            <4>1. ASSUME NEW date, NEW s \in Own(t)', date \in Departs(s)
                  PROVE  \E u \in Own(t) : date \in Departs(u)
                BY <4>1, <3>1, <3>2
            <4>2. ASSUME NEW date, NEW s \in Own(t), date \in Departs(s)
                  PROVE  \E u \in Own(t)' : date \in Departs(u)
                <5>1. CASE s = assoc
                    BY <5>1, <4>2, <3>1, <3>2
                <5>2. CASE s # assoc
                    BY <5>2, <4>2, <3>1
                <5> QED BY <5>1, <5>2
            <4> QED BY <4>1, <4>2, <1>b
        <3>4. ASSUME OnceADay(Own(t))
              PROVE  OnceADay(Own(t)')
            <4> SUFFICES ASSUME NEW s \in Own(t)', NEW u \in Own(t)', s # u
                         PROVE  Departs(s) \cap Departs(u) = {}
                BY DEF OnceADay
            <4> DEFINE new == {dated} \cup rest
            <4>1. \A n \in new : Departs(n) \subseteq Departs(assoc)
                BY <3>2
            <4>2. \A v \in Own(t) \ {assoc} : Departs(v) \cap Departs(assoc) = {}
                BY <3>1, <3>4 DEF OnceADay
            <4>3. CASE s \in new /\ u \in new
                BY <3>2, <4>3
            <4>4. CASE s \in Own(t) \ {assoc} /\ u \in Own(t) \ {assoc}
                BY <3>4, <4>4 DEF OnceADay
            <4>5. CASE (s \in new /\ u \in Own(t) \ {assoc}) \/ (u \in new /\ s \in Own(t) \ {assoc})
                BY <4>1, <4>2, <4>5
            <4> QED BY <3>1, <4>3, <4>4, <4>5
        <3> QED BY <3>3, <3>4, <1>a
    <2> QED BY <2>5, <2>6
<1>3. CASE ShiftLateNightServices
    <2>1. All' = {Shifted(s) : s \in All}
        BY <1>3, AllIsShifted
    <2>2. \A s \in All : /\ Shifted(s).tuid = s.tuid /\ Shifted(s).copy = s.copy
                         /\ Departs(Shifted(s)) = Departs(s)
        BY IndexType, ShiftedLeavesAsItDid
    <2>3. Own(t)' = {Shifted(s) : s \in Own(t)}
        BY <2>1, <2>2 DEF Own
    <2>4. \A s \in Own(t) : s \in All
        BY DEF Own
    <2>5. UNION {Departs(s) : s \in Own(t)'} = UNION {Departs(s) : s \in Own(t)}
        BY <2>2, <2>3, <2>4
    <2>6. ASSUME OnceADay(Own(t))
          PROVE  OnceADay(Own(t)')
        BY <2>2, <2>3, <2>4, <2>6 DEF OnceADay
    <2> QED BY <2>5, <2>6, <1>a
<1> QED BY <1>1, <1>2, <1>3, LooksOnly DEF Next

-----------------------------------------------------------------------------
(* The two of a link *)

\* A link made is of a base and a portion that are coupled.
LEMMA NewLinkIsTrue ==
    ASSUME TypeOK, Ids, Whole, Stages, Couple,
           NEW a, NEW base, NEW assoc, NEW dated, NEW copies, NEW rest,
           Cutting(a, base, assoc, dated, copies, rest),
           NEW portion \in {dated} \cup copies,
           copies = {} => portion = dated,
           copies # {} => portion \in copies
    PROVE  LET link == LinkOf(a, base, portion)
           IN /\ link \in LinkRecord
              /\ BaseEnd(link) = base.id /\ PortionEnd(link) = portion.id
              /\ Coupled(link, base, portion) /\ Closes(link, base, portion)
<1> DEFINE link == LinkOf(a, base, portion)
           off == Offset[a.dateIndicator]
<1>1. /\ dated \in Schedule /\ assoc \in Schedule /\ base \in Schedule
      /\ assoc.told = 0 /\ base.told = 0 /\ dated.told = 0 /\ ~dated.copy
      /\ dated.tuid = assoc.tuid /\ dated.calls = assoc.calls
      /\ dated.calendar = InAssocDays(a, CoupledDays(a, base, assoc))
    BY NewIds
<1>2. /\ a \in Association /\ base.tuid = a.baseTUID /\ assoc.tuid = a.assocTUID
      /\ CanApply(a, base, assoc)
      /\ copies \subseteq Schedule
      /\ copies # {} <=> NeedsCopy(a, base, dated)
      /\ \A c \in copies : /\ c.tuid = dated.tuid /\ c.calls = dated.calls
                           /\ c.told = 1 /\ c.copy /\ Departs(c) = Departs(dated)
    BY DEF Cutting
<1>3. portion \in Schedule /\ base.id \in Nat /\ portion.id \in Nat
    BY <1>1, <1>2, ScheduleIds
<1>4. a.location \in Locations /\ a.calendar \in Calendar /\ off \in {-1, 0, 1}
    BY <1>2, OffsetType DEF Association
<1>5. link \in LinkRecord
    BY <1>2, <1>3, <1>4 DEF LinkOf, LinkRecord
<1>6. link.of = a /\ link.location = a.location
    BY DEF LinkOf
<1>7. BaseEnd(link) = base.id /\ PortionEnd(link) = portion.id
    BY DEF LinkOf, BaseEnd, PortionEnd
<1> HIDE DEF link
<1>8. portion.tuid = a.assocTUID /\ portion.calls = assoc.calls /\ Departs(portion) = Departs(dated)
    BY <1>1, <1>2
<1>9. a.location \in base.calls \cap assoc.calls
    BY <1>2 DEF CanApply
<1>10. \A date \in Departs(portion) : date - off \in Departs(base) /\ RunsOn(a.calendar, date - off)
    <2> SUFFICES ASSUME NEW date \in Departs(portion)
                 PROVE  date - off \in Departs(base) /\ RunsOn(a.calendar, date - off)
        OBVIOUS
    <2>1. date \in Runs(dated.calendar) /\ date \in Int
        BY <1>1, <1>8, DepartsAsTold
    <2>2. date - off \in Runs(base.calendar) /\ date - off \in Runs(a.calendar)
        BY <2>1, <1>1, <1>2, CoupledDaysAreOfAllThree
    <2>3. date - off \in Int
        BY <2>1, <1>4
    <2> QED BY <2>2, <2>3, <1>1, <1>4, DepartsAsTold, RunsIsRunsOn
<1>11. Coupled(link, base, portion)
    BY <1>2, <1>6, <1>8, <1>9, <1>10 DEF Coupled
<1>12. Closes(link, base, portion)
    <2>1. CASE copies = {}
        <3>1. portion = dated /\ ~NeedsCopy(a, base, dated)
            BY <2>1, <1>2
        <3>2. duplicateOvernight /\ DayGap(a, base, portion) = 1 => IsLateNight(portion)
            BY <3>1 DEF NeedsCopy
        <3> QED BY <3>1, <3>2, <1>1, <1>6 DEF Closes
    <2>2. CASE copies # {}
        <3>1. portion.copy /\ portion.told = 1 /\ NeedsCopy(a, base, dated)
            BY <2>2, <1>2
        <3>2. off - 0 + DayShift(base) = 1
            BY <3>1 DEF NeedsCopy, DayGap, DayShift
        <3>3. off + DayShift(base) = 1
            BY <3>2, <1>4 DEF DayShift
        <3> QED BY <3>1, <3>3, <1>1, <1>6 DEF Closes
    <2> QED BY <2>1, <2>2
<1> QED BY <1>5, <1>7, <1>11, <1>12 DEF link

\* Every step keeps the two of a link coupled, for as long as both are there.
LEMMA LinksByIdStep ==
    ASSUME IInv, [Next]_vars
    PROVE  LinksById'
<1> USE DEF IInv
<1>a. duplicateOvernight' = duplicateOvernight
    BY NothingGivenChanges
<1>1. CASE Looking \/ PutBack \/ MergeSchedules
    <2>1. All' = All /\ links' = links /\ nextId' = nextId
        BY <1>1, AllStays DEF Looking, PutBack, MergeSchedules
    <2>2. stage' \in {"associating", "resolving"} => stage \in {"associating", "resolving"}
        BY <1>1 DEF Looking, PutBack, MergeSchedules
    <2> QED BY <2>1, <2>2, <1>a DEF LinksById, Closes, Coupled, BaseEnd, PortionEnd, DayGap
<1>2. CASE Couple
    <2>1. PICK a, base, assoc, dated, copies, rest : Cutting(a, base, assoc, dated, copies, rest)
        BY <1>2, CoupleCuts
    <2>2. PICK portion \in {dated} \cup copies :
            /\ links' = links \cup {LinkOf(a, base, portion)}
            /\ copies = {} => portion = dated
            /\ copies # {} => portion \in copies
        BY <2>1 DEF Cutting
    <2> DEFINE new == {dated} \cup copies \cup rest
               made == LinkOf(a, base, portion)
    <2>3. /\ made \in LinkRecord
          /\ BaseEnd(made) = base.id /\ PortionEnd(made) = portion.id
          /\ Coupled(made, base, portion) /\ Closes(made, base, portion)
        BY <1>2, <2>1, <2>2, NewLinkIsTrue
    <2>4. /\ All' = (All \ {assoc}) \cup new
          /\ All = Standing \cup ToSet(associated) /\ stage = "associating"
        BY <1>2, <2>1, AllIsCut
    <2>5. /\ \A s \in new : s.id >= nextId /\ s.id < nextId'
          /\ \A s, u \in new : s.id = u.id => s = u
          /\ \A s \in All : s.id < nextId
        BY <1>2, <2>1, NewIds
    <2>6. base \in All /\ nextId \in Nat /\ nextId' \in Nat /\ nextId' > nextId
        BY <2>1, <2>4 DEF Cutting, TypeOK
    <2>7. \A s \in All \cup new : s.id \in Nat
        <3>1. dated \in Schedule
            BY <1>2, <2>1, NewIds
        <3>2. new \subseteq Schedule
            BY <3>1, <2>1 DEF Cutting
        <3> QED BY <3>2, IndexType, ScheduleIds
    <2> HIDE DEF made
    <2>8. \A link \in links :
            /\ link \in LinkRecord
            /\ BaseEnd(link) < nextId /\ PortionEnd(link) < nextId
            /\ \A b, p \in All : b.id = BaseEnd(link) /\ p.id = PortionEnd(link) =>
                    Coupled(link, b, p) /\ Closes(link, b, p)
        BY <2>4 DEF LinksById
    <2> SUFFICES ASSUME NEW link \in links'
                 PROVE  /\ link \in LinkRecord
                        /\ BaseEnd(link) < nextId' /\ PortionEnd(link) < nextId'
                        /\ \A b, p \in All' : b.id = BaseEnd(link) /\ p.id = PortionEnd(link) =>
                                Coupled(link, b, p) /\ Closes(link, b, p)
        BY <1>a DEF LinksById, Closes, Coupled, BaseEnd, PortionEnd, DayGap
    <2>9. CASE link \in links
        <3>1. BaseEnd(link) \in Nat /\ PortionEnd(link) \in Nat
            BY <2>8, <2>9 DEF LinkRecord, BaseEnd, PortionEnd
        <3>2. BaseEnd(link) < nextId' /\ PortionEnd(link) < nextId'
            BY <2>6, <2>8, <2>9, <3>1
        <3>3. \A s \in All' : s.id = BaseEnd(link) \/ s.id = PortionEnd(link) => s \in All
            BY <2>4, <2>5, <2>6, <2>7, <2>8, <2>9, <3>1
        <3> QED BY <2>8, <2>9, <3>2, <3>3
    <2>10. CASE link = made
        <3>1. portion \in new
            BY <2>2
        <3>2. base.id < nextId /\ portion.id >= nextId /\ portion.id < nextId'
            BY <2>5, <2>6, <3>1
        <3>3. base.id < nextId' /\ base.id \in Nat /\ portion.id \in Nat
            BY <2>6, <2>7, <3>1, <3>2
        <3>4. \A b \in All' : b.id = base.id => b = base
            BY <2>4, <2>5, <2>6, <2>7, <3>2 DEF Ids
        <3>5. \A p \in All' : p.id = portion.id => p = portion
            BY <2>4, <2>5, <2>6, <2>7, <3>1, <3>2
        <3> QED BY <2>3, <2>10, <3>2, <3>3, <3>4, <3>5
    <2> QED BY <2>2, <2>9, <2>10 DEF made
<1>3. CASE ResolveLinks \/ ShiftLateNightServices
    BY <1>3 DEF ResolveLinks, ShiftLateNightServices, LinksById
<1> QED BY <1>1, <1>2, <1>3, LooksOnly DEF Next

-----------------------------------------------------------------------------
(* Trips *)

\* Further on in a list there are more before with the same dates.
LEMMA LaterIsHigher ==
    ASSUME NEW list \in Seq(Schedule), NEW i \in DOMAIN list, NEW j \in DOMAIN list, i < j,
           SameTripId(list[i], list[j])
    PROVE  Cardinality({k \in 1..i : SameTripId(list[i], list[k])})
              # Cardinality({k \in 1..j : SameTripId(list[j], list[k])})
<1> DEFINE S == {k \in 1..i : SameTripId(list[i], list[k])}
           T == {k \in 1..j : SameTripId(list[j], list[k])}
<1>1. i \in Nat /\ j \in Nat /\ i >= 1
    OBVIOUS
<1>2. IsFiniteSet(T)
    <2>1. IsFiniteSet(1..j)
        BY <1>1, FS_Interval
    <2> QED BY <2>1, FS_Subset
<1>3. S \subseteq T
    <2>1. \A k \in 1..i : k \in 1..j
        BY <1>1
    <2> QED BY <2>1 DEF SameTripId
<1>4. j \in T /\ j \notin S
    BY <1>1 DEF SameTripId
<1> HIDE DEF S, T
<1>5. Cardinality(S) # Cardinality(T)
    BY <1>2, <1>3, <1>4, FS_Subset
<1> QED BY <1>5 DEF S, T

\* The suffix tells apart what would have one id.
LEMMA NumberedApart ==
    ASSUME TypeOK,
           NEW f \in UNION {Numbered(schedules[t]) : t \in Trains},
           NEW g \in UNION {Numbered(schedules[t]) : t \in Trains},
           f.trip_id = g.trip_id
    PROVE  f = g
<1>a. PICK t \in Trains : f \in Numbered(schedules[t])
    OBVIOUS
<1>1. PICK i \in DOMAIN schedules[t] :
        f = [trip_id |-> TripIdAt(schedules[t], i), schedule |-> schedules[t][i]]
    BY <1>a DEF Numbered
<1>b. PICK u \in Trains : g \in Numbered(schedules[u])
    OBVIOUS
<1>2. PICK j \in DOMAIN schedules[u] :
        g = [trip_id |-> TripIdAt(schedules[u], j), schedule |-> schedules[u][j]]
    BY <1>b DEF Numbered
<1>3. TripIdAt(schedules[t], i) = TripIdAt(schedules[u], j)
    BY <1>1, <1>2
<1>4. schedules[t][i].tuid = t /\ schedules[u][j].tuid = u
    BY IndexType
<1>5. t = u
    BY <1>3, <1>4 DEF TripIdAt
<1> DEFINE list == schedules[t]
<1>6. list \in Seq(Schedule) /\ i \in DOMAIN list /\ j \in DOMAIN list /\ i \in Int /\ j \in Int
    BY <1>5, IndexType
<1>7. /\ SameTripId(list[i], list[j]) /\ SameTripId(list[j], list[i])
      /\ Cardinality({k \in 1..i : SameTripId(list[i], list[k])})
            = Cardinality({k \in 1..j : SameTripId(list[j], list[k])})
    BY <1>3, <1>5 DEF TripIdAt, SameTripId
<1> HIDE DEF list
<1>8. ~(i < j) /\ ~(j < i)
    BY <1>6, <1>7, LaterIsHigher
<1>9. i = j
    BY <1>6, <1>8
<1> QED BY <1>1, <1>2, <1>5, <1>9

\* Each trip is shifted as its schedule is, under the same id.
LEMMA LateTrip ==
    ASSUME TypeOK, ShiftLateNightServices
    PROVE  /\ \A late \in trips' : \E trip \in trips :
                 late = [trip EXCEPT !.schedule = Shifted(trip.schedule)]
           /\ \A trip \in trips : \E late \in trips' :
                 /\ late = [trip EXCEPT !.schedule = Shifted(trip.schedule)]
                 /\ late.trip_id = trip.trip_id /\ late.schedule = Shifted(trip.schedule)
           /\ \A trip \in trips :
                 [trip EXCEPT !.schedule = Shifted(trip.schedule)].trip_id = trip.trip_id
<1> DEFINE Late(trip) == [trip EXCEPT !.schedule = Shifted(trip.schedule)]
<1>1. trips' = {Late(trip) : trip \in trips}
    BY DEF ShiftLateNightServices
<1>2. \A trip \in trips : Late(trip).schedule = Shifted(trip.schedule) /\ Late(trip).trip_id = trip.trip_id
    BY DEF TypeOK, Trip
<1> HIDE DEF Late
<1>3. \A late \in trips' : \E trip \in trips : late = Late(trip)
    BY <1>1
<1>4. \A trip \in trips : Late(trip) \in trips'
    BY <1>1
<1> QED BY <1>2, <1>3, <1>4 DEF Late

\* Which of them touch the trips.
LEMMA TripsStay ==
    ASSUME Looking \/ Couple \/ PutBack \/ ResolveLinks
    PROVE  trips' = trips
<1>1. CASE Looking
    BY <1>1 DEF Looking
<1>2. CASE Couple
    BY <1>2, Zenon DEF Couple
<1>3. CASE PutBack
    BY <1>3 DEF PutBack
<1>4. CASE ResolveLinks
    <2>1. UNCHANGED <<schedules, associations, matches, applying, associated, nextId, trips, input>>
        BY <1>4, Zenon DEF ResolveLinks
    <2> QED BY <2>1
<1> QED BY <1>1, <1>2, <1>3, <1>4

\* The stage each of the later steps is in, and the one it leads to.
LEMMA StageMoves ==
    /\ (Couple \/ PutBack) /\ Stages => stage' = "associating"
    /\ MergeSchedules => stage' = "resolving"
    /\ ResolveLinks => stage = "resolving" /\ stage' = "shifting"
<1>1. Couple /\ Stages => stage' = "associating"
    <2>1. Couple => applying /\ stage' = stage
        BY Zenon DEF Couple
    <2> QED BY <2>1 DEF Stages
<1>2. PutBack => stage' = "associating"
    BY DEF PutBack
<1>3. MergeSchedules => stage' = "resolving"
    BY DEF MergeSchedules
<1>4. ResolveLinks => stage = "resolving" /\ stage' = "shifting"
    BY Zenon DEF ResolveLinks
<1> QED BY <1>1, <1>2, <1>3, <1>4

\* An id is of one trip, and moving the trip does not change it.
LEMMA TripIdsStep ==
    ASSUME IInv, [Next]_vars
    PROVE  TripIds'
<1> USE DEF IInv
<1>1. CASE trips' = trips
    BY <1>1 DEF TripIds
<1>2. CASE MergeSchedules
    <2>1. trips' = UNION {Numbered(schedules[t]) : t \in Trains}
        BY <1>2 DEF MergeSchedules
    <2> QED BY <2>1, NumberedApart DEF TripIds
<1>3. CASE ShiftLateNightServices
    <2> SUFFICES ASSUME NEW f \in trips', NEW g \in trips', f.trip_id = g.trip_id
                 PROVE  f = g
        BY DEF TripIds
    <2>1. PICK d \in trips : f = [d EXCEPT !.schedule = Shifted(d.schedule)]
        BY <1>3, LateTrip
    <2>2. PICK e \in trips : g = [e EXCEPT !.schedule = Shifted(e.schedule)]
        BY <1>3, LateTrip
    <2>3. d.trip_id = e.trip_id
        BY <1>3, <2>1, <2>2, LateTrip
    <2>4. d = e
        BY <2>3 DEF TripIds
    <2> QED BY <2>1, <2>2, <2>4
<1> QED BY <1>1, <1>2, <1>3, TripsStay, LooksOnly DEF Next

\* A link that is kept names two trips that are.
LEMMA TripIdIsOfATrip ==
    ASSUME NEW id, Cardinality(TripsOf(id)) = 1
    PROVE  \E trip \in trips : trip.schedule.id = id /\ trip.trip_id = TripId(id)
<1>1. TripsOf(id) # {}
    BY FS_EmptySet
<1>2. (CHOOSE trip \in TripsOf(id) : TRUE) \in TripsOf(id)
    BY <1>1
<1> QED BY <1>2 DEF TripsOf, TripId

\* What leaves in the night is moved, and the two of a link leave together still.
LEMMA ShiftCloses ==
    ASSUME NEW link, link.of \in Association, NEW base \in Schedule, NEW portion \in Schedule,
           Coupled(link, base, portion), Closes(link, base, portion)
    PROVE  /\ Coupled(link, Shifted(base), Shifted(portion))
           /\ Closed(link, Shifted(base), Shifted(portion))
<1> DEFINE off == Offset[link.of.dateIndicator]
<1>1. /\ Shifted(base).tuid = base.tuid /\ Shifted(base).calls = base.calls
      /\ Shifted(base).told = base.told + DayShift(base) /\ Departs(Shifted(base)) = Departs(base)
    BY ShiftedLeavesAsItDid
<1>2. /\ Shifted(portion).tuid = portion.tuid /\ Shifted(portion).calls = portion.calls
      /\ Shifted(portion).told = portion.told + DayShift(portion)
      /\ Departs(Shifted(portion)) = Departs(portion) /\ Shifted(portion).copy = portion.copy
    BY ShiftedLeavesAsItDid
<1>3. Coupled(link, Shifted(base), Shifted(portion))
    BY <1>1, <1>2 DEF Coupled
<1>4. off \in Int /\ DayShift(base) \in {0, 1} /\ DayShift(portion) \in {0, 1}
      /\ portion.told \in {0, 1}
    BY OffsetType DEF DayShift, Schedule
<1>5. base.told = 0
    BY DEF Closes
<1>6. CASE portion.copy
    <2>1. portion.told = 1 /\ off + DayShift(base) = 1
        BY <1>6 DEF Closes
    <2>2. DayShift(portion) = 0
        BY <2>1 DEF DayShift, IsLateNight
    <2>3. Shifted(portion).told = 1 /\ Shifted(base).told = DayShift(base)
        BY <1>1, <1>2, <1>4, <1>5, <2>1, <2>2
    <2>4. off - Shifted(portion).told + Shifted(base).told = 0
        BY <1>4, <2>1, <2>3
    <2> QED BY <1>3, <2>3, <2>4 DEF Closed
<1>7. CASE ~portion.copy
    <2>1. portion.told = 0
          /\ (duplicateOvernight /\ DayGap(link.of, base, portion) = 1 => IsLateNight(portion))
        BY <1>7 DEF Closes
    <2>2. Shifted(portion).told = DayShift(portion) /\ Shifted(base).told = DayShift(base)
        BY <1>1, <1>2, <1>4, <1>5, <2>1
    <2>3. DayGap(link.of, base, portion) = off - DayShift(portion) + DayShift(base)
        BY DEF DayGap
    <2>4. duplicateOvernight /\ off - Shifted(portion).told + Shifted(base).told = 1 =>
             Shifted(portion).told = 1
        BY <2>1, <2>2, <2>3 DEF DayShift
    <2> QED BY <1>2, <1>3, <1>7, <2>4 DEF Closed
<1> QED BY <1>6, <1>7

\* A link that names two trips keeps naming them.
LEMMA LinksByTripStep ==
    ASSUME IInv, [Next]_vars
    PROVE  LinksByTrip'
<1> USE DEF IInv
<1>a. duplicateOvernight' = duplicateOvernight
    BY NothingGivenChanges
<1>1. CASE Looking
    <2>1. trips' = trips /\ links' = links /\ stage' = stage
        BY <1>1 DEF Looking
    <2> QED BY <2>1, <1>a DEF LinksByTrip, Coupled, Closes, Closed, BaseEnd, PortionEnd, DayGap
<1>2. CASE Couple \/ PutBack \/ MergeSchedules
    <2>1. stage' \notin {"shifting", "published"}
        BY <1>2, StageMoves
    <2> QED BY <2>1 DEF LinksByTrip
<1>3. CASE ResolveLinks
    <2>1. stage = "resolving" /\ stage' = "shifting" /\ trips' = trips
        BY <1>3, StageMoves, TripsStay
    <2>2. ASSUME NEW link \in links'
          PROVE  \E f, g \in trips :
                    /\ f.trip_id = BaseEnd(link) /\ g.trip_id = PortionEnd(link)
                    /\ Coupled(link, f.schedule, g.schedule) /\ Closes(link, f.schedule, g.schedule)
        <3>1. PICK l \in links :
                  /\ link.of = l.of /\ link.location = l.location
                  /\ link.from = TripId(l.from) /\ link.to = TripId(l.to)
                  /\ Cardinality(TripsOf(l.from)) = 1 /\ Cardinality(TripsOf(l.to)) = 1
            BY <1>3, ResolvedKeepsItsAssociation, Zenon
        <3>a. Cardinality(TripsOf(l.from)) = 1 /\ Cardinality(TripsOf(l.to)) = 1
            BY <3>1
        <3>2. PICK from \in trips : from.schedule.id = l.from /\ from.trip_id = link.from
            <4>1. \E trip \in trips : trip.schedule.id = l.from /\ trip.trip_id = TripId(l.from)
                BY <3>a, TripIdIsOfATrip
            <4> QED BY <3>1, <4>1
        <3>3. PICK to \in trips : to.schedule.id = l.to /\ to.trip_id = link.to
            <4>1. \E trip \in trips : trip.schedule.id = l.to /\ trip.trip_id = TripId(l.to)
                BY <3>a, TripIdIsOfATrip
            <4> QED BY <3>1, <4>1
        <3> DEFINE f == IF link.of.type = Join THEN to ELSE from
                   g == IF link.of.type = Join THEN from ELSE to
        <3>4. f \in trips /\ g \in trips
            OBVIOUS
        <3>5. f.trip_id = BaseEnd(link) /\ g.trip_id = PortionEnd(link)
            BY <3>2, <3>3 DEF BaseEnd, PortionEnd
        <3>6. f.schedule.id = BaseEnd(l) /\ g.schedule.id = PortionEnd(l)
            BY <3>1, <3>2, <3>3 DEF BaseEnd, PortionEnd
        <3> HIDE DEF f, g
        <3>7. f.schedule \in All /\ g.schedule \in All
            BY <2>1, <3>4 DEF All
        <3>8. Coupled(l, f.schedule, g.schedule) /\ Closes(l, f.schedule, g.schedule)
            BY <2>1, <3>6, <3>7 DEF LinksById
        <3>9. Coupled(link, f.schedule, g.schedule) /\ Closes(link, f.schedule, g.schedule)
            BY <3>1, <3>8 DEF Coupled, Closes
        <3> QED BY <3>4, <3>5, <3>9
    <2> QED BY <2>1, <2>2, <1>a DEF LinksByTrip, Coupled, Closes, BaseEnd, PortionEnd, DayGap
<1>4. CASE ShiftLateNightServices
    <2>1. stage = "shifting" /\ stage' = "published" /\ links' = links
        BY <1>4 DEF ShiftLateNightServices
    <2>2. ASSUME NEW link \in links
          PROVE  \E f, g \in trips' :
                    /\ f.trip_id = BaseEnd(link) /\ g.trip_id = PortionEnd(link)
                    /\ Coupled(link, f.schedule, g.schedule) /\ Closed(link, f.schedule, g.schedule)
        <3>1. PICK f \in trips, g \in trips :
                  /\ f.trip_id = BaseEnd(link) /\ g.trip_id = PortionEnd(link)
                  /\ Coupled(link, f.schedule, g.schedule) /\ Closes(link, f.schedule, g.schedule)
            BY <2>1 DEF LinksByTrip
        <3>2. PICK lateF \in trips' : lateF.trip_id = f.trip_id /\ lateF.schedule = Shifted(f.schedule)
            BY <1>4, LateTrip
        <3>3. PICK lateG \in trips' : lateG.trip_id = g.trip_id /\ lateG.schedule = Shifted(g.schedule)
            BY <1>4, LateTrip
        <3>4. link.of \in Association /\ f.schedule \in Schedule /\ g.schedule \in Schedule
            BY DEF TypeOK, Trip
        <3>5. Coupled(link, lateF.schedule, lateG.schedule) /\ Closed(link, lateF.schedule, lateG.schedule)
            BY <3>1, <3>2, <3>3, <3>4, ShiftCloses
        <3> QED BY <3>1, <3>2, <3>3, <3>5
    <2> QED BY <2>1, <2>2, <1>a DEF LinksByTrip, Coupled, Closed, BaseEnd, PortionEnd
<1> QED BY <1>1, <1>2, <1>3, <1>4, LooksOnly DEF Next

-----------------------------------------------------------------------------
(* The theorems *)

\* A schedule of the timetable stands in one place, where its train's do.
LEMMA InitStands ==
    ASSUME Init, NEW t \in Trains
    PROVE  /\ schedules[t] \in Seq(Schedule) /\ schedules[t] = timetable[t]
           /\ \A i \in DOMAIN schedules[t] :
                 /\ schedules[t][i] \in Schedule
                 /\ schedules[t][i].tuid = t /\ schedules[t][i].told = 0
                 /\ ~schedules[t][i].copy /\ schedules[t][i].id < FirstId
                 /\ \A u \in Trains : \A j \in DOMAIN schedules[u] :
                       schedules[t][i].id = schedules[u][j].id => t = u /\ i = j
<1>1. timetable \in Timetables /\ schedules = timetable
    BY DEF Init
<1>2. schedules \in [Trains -> Seq(Schedule)]
    BY <1>1, TimetablesAssumption
<1>3. schedules[t] \in Seq(Schedule)
    BY <1>2
<1>4. \A i \in DOMAIN schedules[t] : schedules[t][i] \in Schedule
    BY <1>3
<1> QED BY <1>1, <1>3, <1>4, TimetablesAssumption

\* The invariant holds of what the source and the overlays give.
LEMMA InitInv ==
    ASSUME Init
    PROVE  IInv
<1>1. /\ associations = given /\ given \in Associations /\ matches = {} /\ applying = FALSE
      /\ associated = << >> /\ links = {} /\ nextId = FirstId /\ trips = {}
      /\ stage = "associating" /\ duplicateOvernight \in BOOLEAN
      /\ schedules = timetable /\ timetable \in Timetables
    BY DEF Init
<1>2. ToSet(associated) = {}
    BY <1>1 DEF ToSet
<1>3. \A t \in Trains : \A s \in ToSet(schedules[t]) : \E i \in DOMAIN schedules[t] : s = schedules[t][i]
    BY DEF ToSet
<1>4. All = Standing
    BY <1>1, <1>2 DEF All, Standing
<1>5. \A s \in Standing : \E t \in Trains : \E i \in DOMAIN schedules[t] : s = schedules[t][i]
    BY <1>3 DEF Standing
<1>6. TypeOK
    <2>1. schedules \in [Trains -> Seq(Schedule)]
        BY <1>1, TimetablesAssumption
    <2>2. \A t \in Trains : \A s \in ToSet(schedules[t]) : s.tuid = t
        BY <1>3, InitStands
    <2>3. associations \in Seq(Association) /\ nextId \in Nat
        BY <1>1, AssociationsAssumption, NumbersAssumption
    <2>4. associated \in Seq(Schedule)
        BY <1>1, EmptySeq
    <2>5. applying \in BOOLEAN /\ matches \subseteq Schedule /\ trips \subseteq Trip
        BY <1>1
    <2>6. /\ \A link \in links : link.of \in Association /\ link.of.type \in {Join, Split}
          /\ stage \in {"associating", "resolving", "shifting", "published"}
        BY <1>1
    <2> QED BY <1>1, <2>1, <2>2, <2>3, <2>4, <2>5, <2>6 DEF TypeOK
<1>7. Stages
    BY <1>1 DEF Stages
<1>8. Ids
    <2>1. \A s \in Standing : s.id < nextId
        BY <1>1, <1>5, InitStands
    <2>2. ASSUME NEW s \in Standing, NEW u \in Standing, s.id = u.id
          PROVE  s = u
        <3>1. PICK x \in Trains : \E i \in DOMAIN schedules[x] : s = schedules[x][i]
            BY <1>5
        <3>2. PICK i \in DOMAIN schedules[x] : s = schedules[x][i]
            BY <3>1
        <3>3. PICK y \in Trains : \E j \in DOMAIN schedules[y] : u = schedules[y][j]
            BY <1>5
        <3>4. PICK j \in DOMAIN schedules[y] : u = schedules[y][j]
            BY <3>3
        <3>5. x = y /\ i = j
            BY <2>2, <3>2, <3>4, InitStands
        <3> QED BY <3>2, <3>4, <3>5
    <2> QED BY <1>4, <2>1, <2>2 DEF Ids
<1>9. Whole
    <2>1. \A t \in Trains : Distinct(schedules[t])
        BY InitStands DEF Distinct
    <2>2. \A s \in Standing : s.told = 0 /\ ~s.copy
        BY <1>5, InitStands
    <2> QED BY <1>2, <2>1, <2>2 DEF Whole
<1>10. RunsAsTimetabled
    <2> SUFFICES ASSUME NEW t \in Trains
                 PROVE  {s \in Standing : s.tuid = t /\ ~s.copy} = ToSet(timetable[t])
        BY <1>4 DEF RunsAsTimetabled
    <2>1. ASSUME NEW s \in Standing, s.tuid = t
          PROVE  s \in ToSet(schedules[t])
        <3>1. PICK x \in Trains : s \in ToSet(schedules[x])
            BY DEF Standing
        <3>2. s.tuid = x
            BY <1>6, <3>1 DEF TypeOK
        <3> QED BY <2>1, <3>1, <3>2
    <2>2. ASSUME NEW s \in ToSet(schedules[t])
          PROVE  s \in Standing /\ s.tuid = t /\ ~s.copy
        <3>1. PICK i \in DOMAIN schedules[t] : s = schedules[t][i]
            BY <1>3
        <3>2. s.tuid = t /\ ~s.copy
            BY <3>1, InitStands
        <3>3. s \in Standing
            BY Zenon DEF Standing
        <3> QED BY <3>2, <3>3
    <2>3. ToSet(schedules[t]) = {s \in Standing : s.tuid = t /\ ~s.copy}
        <3> DEFINE own == {s \in Standing : s.tuid = t /\ ~s.copy}
        <3>1. own \subseteq ToSet(schedules[t])
            BY <2>1
        <3>2. ToSet(schedules[t]) \subseteq own
            BY <2>2
        <3> QED BY <3>1, <3>2, Zenon
    <2> QED BY <1>1, <2>3, Zenon
<1>11. LinksById /\ TripIds /\ LinksByTrip
    BY <1>1 DEF LinksById, TripIds, LinksByTrip
<1> QED BY <1>6, <1>7, <1>8, <1>9, <1>10, <1>11 DEF IInv

\* The invariant holds of every state, whatever the timetable and the associations.
THEOREM Invariance == Spec => []IInv
<1>1. Init => IInv
    BY InitInv
<1>2. IInv /\ [Next]_vars => IInv'
    BY TypeStep, StagesStep, IdsStep, WholeStep, RunsStep, LinksByIdStep, TripIdsStep,
       LinksByTripStep DEF IInv
<1> QED BY <1>1, <1>2, PTL DEF Spec

\* Every variable keeps its type: no schedule is told two days late, and none stands
\* with another train.
THEOREM TypeCorrect == Spec => []TypeOK
<1>1. IInv => TypeOK
    BY DEF IInv
<1> QED BY <1>1, Invariance, PTL

\* Through every cut, split, copy and shift a train leaves on the days of its
\* timetable and on no other, and once a day where it did so to begin with.
THEOREM EveryDayIsRun == Spec => []RunsAsTimetabled
<1>1. IInv => RunsAsTimetabled
    BY DEF IInv
<1> QED BY <1>1, Invariance, PTL

\* The trip of an id is the one that has it.
LEMMA TripOfId ==
    ASSUME TripIds, NEW trip \in trips
    PROVE  TripOf(trip.trip_id) = trip.schedule
<1>1. (CHOOSE f \in trips : f.trip_id = trip.trip_id) = trip
    BY DEF TripIds
<1> QED BY <1>1 DEF TripOf

\* What the invariant says of a published link.
LEMMA PublishedLinks ==
    ASSUME IInv, stage = "published", NEW link \in links
    PROVE  /\ Coupled(link, TripOf(BaseEnd(link)), TripOf(PortionEnd(link)))
           /\ Closed(link, TripOf(BaseEnd(link)), TripOf(PortionEnd(link)))
<1>1. \E f, g \in trips :
        /\ f.trip_id = BaseEnd(link) /\ g.trip_id = PortionEnd(link)
        /\ Coupled(link, f.schedule, g.schedule) /\ Closed(link, f.schedule, g.schedule)
    BY DEF IInv, LinksByTrip
<1>2. PICK f \in trips, g \in trips :
        /\ f.trip_id = BaseEnd(link) /\ g.trip_id = PortionEnd(link)
        /\ Coupled(link, f.schedule, g.schedule) /\ Closed(link, f.schedule, g.schedule)
    BY <1>1
<1>3. TripOf(f.trip_id) = f.schedule /\ TripOf(g.trip_id) = g.schedule
    BY TripOfId DEF IInv
<1> QED BY <1>2, <1>3

\* A published link names two trips that run together on the days and at the place
\* its association says, whatever later associations have cut.
THEOREM PublishedLinksAreCouplings == Spec => []LinksMeanWhatTheySay
<1>1. IInv => LinksMeanWhatTheySay
    BY PublishedLinks DEF LinksMeanWhatTheySay
<1> QED BY <1>1, Invariance, PTL

\* Every copy is told on its base's service day, and every gap a copy would close has
\* been closed.
THEOREM PublishedGapsAreClosed == Spec => []CopyClosesTheGap
<1>1. IInv => CopyClosesTheGap
    BY PublishedLinks DEF CopyClosesTheGap, Closed
<1> QED BY <1>1, Invariance, PTL

-----------------------------------------------------------------------------
(* Nothing is missed, where there is nothing to choose *)

\* While associations are applied or put back, a schedule stands in one place.
Apart ==
    stage = "associating" =>
        /\ \A t \in Trains : Distinct(schedules[t])
        /\ Distinct(associated)
        /\ Standing \cap ToSet(associated) = {}

\* And so an id is of one trip.
TripsById == stage = "resolving" => \A f, g \in trips : f.schedule.id = g.schedule.id => f = g

\* The one association, and the one schedule of its base.
TheOne == given[1]
TheBase == timetable[TheOne.baseTUID][1]
Only ==
    /\ Len(given) = 1 /\ TheOne.baseTUID # TheOne.assocTUID /\ TheOne.type \in {Join, Split}
    /\ Len(timetable[TheOne.baseTUID]) = 1

\* The base's dates on which a schedule is to be coupled.
Wanted(s) ==
    {date \in Runs(TheBase.calendar) \cap Runs(TheOne.calendar) :
        /\ TheOne.location \in TheBase.calls \cap s.calls
        /\ date + Offset[TheOne.dateIndicator] \in Runs(s.calendar)}

PortionsGiven == ToSet(timetable[TheOne.assocTUID])

LeavesCoupled(portion, date) == date + Offset[TheOne.dateIndicator] \in Departs(portion)

\* Until the association has been applied the base stands as it did, and a schedule
\* is still to be tried or is coupled on every date that is wanted of it.
OneToApply ==
    Only /\ associations # << >> =>
        /\ associations = given
        /\ ToSet(schedules[TheOne.baseTUID]) = {TheBase}
        /\ ~applying => schedules = timetable
        /\ applying => \A s \in PortionsGiven : s \in matches \/ \A date \in Wanted(s) :
              \E link \in links : \E portion \in ToSet(associated) :
                  /\ portion.id = PortionEnd(link) /\ BaseEnd(link) = TheBase.id
                  /\ LeavesCoupled(portion, date)

\* Then every date is coupled, by two schedules that are there.
AllCoupled ==
    Only /\ associations = << >> /\ stage \in {"associating", "resolving"} =>
        \A s \in PortionsGiven : \A date \in Wanted(s) :
            \E link \in links : \E portion, base \in All :
                /\ portion.id = PortionEnd(link) /\ base.id = BaseEnd(link)
                /\ LeavesCoupled(portion, date)

\* And then by a trip.
AllCoupledByTrip ==
    Only /\ stage \in {"shifting", "published"} =>
        \A s \in PortionsGiven : \A date \in Wanted(s) :
            \E link \in links : \E trip \in trips :
                trip.trip_id = PortionEnd(link) /\ LeavesCoupled(trip.schedule, date)

GivenOK == timetable \in Timetables /\ given \in Associations

NInv == GivenOK /\ Apart /\ TripsById /\ OneToApply /\ AllCoupled /\ AllCoupledByTrip

\* Putting one back takes it out of the one list and adds it to the other.
LEMMA PutBackApart ==
    ASSUME TypeOK, Apart, PutBack
    PROVE  Apart'
<1> DEFINE s == Head(associated)
<1>1. /\ stage = "associating" /\ associated # << >> /\ associated' = Tail(associated)
      /\ associated \in Seq(Schedule)
    BY DEF PutBack, TypeOK
<1>2. /\ Distinct(associated) /\ Standing \cap ToSet(associated) = {}
      /\ \A t \in Trains : Distinct(schedules[t]) /\ schedules[t] \in Seq(Schedule)
    BY <1>1 DEF Apart, TypeOK
<1>3. /\ s \in Schedule /\ Standing' = Standing \cup {s}
      /\ \A t \in Trains : schedules'[t] = IF t = s.tuid THEN Append(schedules[t], s) ELSE schedules[t]
    BY PutBackMoves
<1>4. /\ Distinct(Tail(associated)) /\ s \notin ToSet(Tail(associated))
      /\ ToSet(Tail(associated)) \subseteq ToSet(associated) /\ s \in ToSet(associated)
    BY <1>1, <1>2, DistinctTail
<1> HIDE DEF s
<1>5. ASSUME NEW t \in Trains
      PROVE  Distinct(schedules'[t])
    <2>1. s \notin ToSet(schedules[t])
        BY <1>2, <1>4 DEF Standing
    <2>2. Append(schedules[t], s) = schedules[t] \o <<s>>
        BY <1>2, <1>3, AppendProperties
    <2>3. Distinct(schedules[t] \o <<s>>)
        BY <1>2, <1>3, <2>1, DistinctAppended
    <2> QED BY <1>2, <1>3, <2>2, <2>3
<1>6. Standing' \cap ToSet(associated') = {}
    BY <1>1, <1>2, <1>3, <1>4
<1> QED BY <1>1, <1>4, <1>5, <1>6 DEF Apart, Distinct, ToSet

\* A coupling takes its schedule away before it adds the pieces, and every piece is new.
LEMMA ApartStep ==
    ASSUME IInv, Apart, [Next]_vars
    PROVE  Apart'
<1> USE DEF IInv
<1>1. CASE Looking
    BY <1>1 DEF Looking, Apart, Standing, Distinct, ToSet
<1>2. CASE Couple
    <2>1. PICK a, base, assoc, dated, copies, rest : Cutting(a, base, assoc, dated, copies, rest)
        BY <1>2, CoupleCuts
    <2>2. stage = "associating" /\ associations # << >>
        BY <2>1 DEF Cutting, Stages
    <2>3. /\ \A t \in Trains : Distinct(schedules[t])'
          /\ Distinct(associated)'
        BY <2>1, <2>2 DEF Cutting, Apart
    <2>4. associations' # << >>
        BY <1>2, <2>2, Zenon DEF Couple
    <2>5. Standing' \cap ToSet(associated)' = {}
        BY <2>4, WholeStep DEF Whole
    <2> QED BY <2>3, <2>5 DEF Apart
<1>3. CASE PutBack
    BY <1>3, PutBackApart
<1>4. CASE MergeSchedules \/ ResolveLinks \/ ShiftLateNightServices
    <2>1. stage' # "associating"
        BY <1>4, StageMoves DEF ShiftLateNightServices
    <2> QED BY <2>1 DEF Apart
<1> QED BY <1>1, <1>2, <1>3, <1>4, LooksOnly DEF Next

\* A schedule that stands in one place is numbered once.
LEMMA TripsByIdStep ==
    ASSUME IInv, Apart, TripsById, [Next]_vars
    PROVE  TripsById'
<1> USE DEF IInv
<1>1. CASE Looking
    BY <1>1 DEF Looking, TripsById
<1>2. CASE MergeSchedules
    <2>1. trips' = UNION {Numbered(schedules[t]) : t \in Trains} /\ stage = "associating"
        BY <1>2 DEF MergeSchedules
    <2> SUFFICES ASSUME NEW f \in trips', NEW g \in trips', f.schedule.id = g.schedule.id
                 PROVE  f = g
        BY DEF TripsById
    <2>2. PICK t \in Trains : f \in Numbered(schedules[t])
        BY <2>1
    <2>3. PICK u \in Trains : g \in Numbered(schedules[u])
        BY <2>1
    <2>4. PICK i \in DOMAIN schedules[t] :
            f = [trip_id |-> TripIdAt(schedules[t], i), schedule |-> schedules[t][i]]
        BY <2>2 DEF Numbered
    <2>5. PICK j \in DOMAIN schedules[u] :
            g = [trip_id |-> TripIdAt(schedules[u], j), schedule |-> schedules[u][j]]
        BY <2>3 DEF Numbered
    <2>6. f.schedule = schedules[t][i] /\ g.schedule = schedules[u][j]
        BY <2>4, <2>5
    <2>7. f.schedule \in All /\ g.schedule \in All
        BY <2>1, <2>6 DEF All, ToSet
    <2>8. schedules[t][i] = schedules[u][j]
        BY <2>6, <2>7 DEF Ids
    <2>9. schedules[t][i].tuid = t /\ schedules[u][j].tuid = u
        BY IndexType
    <2>10. t = u
        BY <2>8, <2>9
    <2>11. i = j
        BY <2>1, <2>8, <2>10 DEF Apart, Distinct
    <2> QED BY <2>4, <2>5, <2>10, <2>11
<1>3. CASE Couple \/ PutBack \/ ResolveLinks \/ ShiftLateNightServices
    <2>1. stage' # "resolving"
        BY <1>3, StageMoves DEF ShiftLateNightServices
    <2> QED BY <2>1 DEF TripsById
<1> QED BY <1>1, <1>2, <1>3, LooksOnly DEF Next

\* What is there to begin with is what it was, and of its kind.
LEMMA GivenStays ==
    ASSUME [Next]_vars
    PROVE  /\ TheOne' = TheOne /\ TheBase' = TheBase /\ PortionsGiven' = PortionsGiven
           /\ Only' = Only /\ (GivenOK => GivenOK')
           /\ \A s : Wanted(s)' = Wanted(s)
           /\ \A portion, date : LeavesCoupled(portion, date)' = LeavesCoupled(portion, date)
<1>1. timetable' = timetable /\ given' = given
    BY NothingGivenChanges
<1>2. TheOne' = TheOne
    BY <1>1 DEF TheOne
<1>3. TheBase' = TheBase
    BY <1>1, <1>2 DEF TheBase
<1>4. PortionsGiven' = PortionsGiven
    BY <1>1, <1>2 DEF PortionsGiven, ToSet
<1>5. Only' = Only
    BY <1>1, <1>2 DEF Only
<1>6. \A s : Wanted(s)' = Wanted(s)
    BY <1>2, <1>3 DEF Wanted
<1>7. \A portion, date : LeavesCoupled(portion, date)' = LeavesCoupled(portion, date)
    BY <1>2 DEF LeavesCoupled
<1> QED BY <1>1, <1>2, <1>3, <1>4, <1>5, <1>6, <1>7 DEF GivenOK

\* The one association and its base are of their kind.
LEMMA OnlyType ==
    ASSUME GivenOK, Only
    PROVE  /\ TheOne \in Association /\ given = <<TheOne>>
           /\ TheBase \in Schedule /\ TheBase.tuid = TheOne.baseTUID
           /\ ToSet(timetable[TheOne.baseTUID]) = {TheBase}
           /\ PortionsGiven \subseteq Schedule
<1>1. given \in Seq(Association) /\ Len(given) = 1
    BY AssociationsAssumption DEF GivenOK, Only
<1>2. TheOne \in Association /\ given = <<TheOne>>
    BY <1>1 DEF TheOne
<1>3. TheOne.baseTUID \in Trains /\ TheOne.assocTUID \in Trains
    BY <1>2 DEF Association
<1>4. timetable \in [Trains -> Seq(Schedule)]
    BY TimetablesAssumption DEF GivenOK
<1>5. timetable[TheOne.baseTUID] \in Seq(Schedule) /\ Len(timetable[TheOne.baseTUID]) = 1
    BY <1>3, <1>4 DEF Only
<1>6. TheBase \in Schedule /\ timetable[TheOne.baseTUID] = <<TheBase>>
    BY <1>5 DEF TheBase
<1>7. TheBase.tuid = TheOne.baseTUID
    BY <1>3, <1>5, TimetablesAssumption DEF GivenOK, TheBase
<1>8. timetable[TheOne.assocTUID] \in Seq(Schedule)
    BY <1>3, <1>4
<1>9. PortionsGiven \subseteq Schedule
    BY <1>8 DEF PortionsGiven, ToSet
<1> QED BY <1>2, <1>6, <1>7, <1>9, ElementsOfOne

\* On a date that is wanted each of the looks and tests of the loops succeeds.
LEMMA WantedIsFound ==
    ASSUME GivenOK, Only, NEW s \in Schedule, NEW date \in Wanted(s)
    PROVE  /\ GetOverlap(InAssocDays(TheOne, TheOne.calendar), s.calendar)
           /\ GetOverlap(InBaseDays(TheOne, s.calendar), TheBase.calendar)
           /\ CanApply(TheOne, TheBase, s)
           /\ date + Offset[TheOne.dateIndicator]
                 \in Runs(InAssocDays(TheOne, CoupledDays(TheOne, TheBase, s)))
<1> DEFINE a == TheOne
           off == Offset[TheOne.dateIndicator]
           coupled == CoupledDays(TheOne, TheBase, s)
<1>1. a \in Association /\ TheBase \in Schedule
    BY OnlyType
<1>2. a.calendar \in Calendar /\ TheBase.calendar \in Calendar /\ s.calendar \in Calendar
    BY <1>1 DEF Association, Schedule
<1>3. /\ date \in Runs(TheBase.calendar) /\ date \in Runs(a.calendar)
      /\ a.location \in TheBase.calls \cap s.calls
      /\ date + off \in Runs(s.calendar)
    BY DEF Wanted
<1>4. date \in Int /\ off \in Int /\ date + off \in Int /\ (date + off) - off = date
    BY <1>1, <1>2, <1>3, RunsType, OffsetType
<1> HIDE DEF off, a
<1>5. GetOverlap(InAssocDays(a, a.calendar), s.calendar)
    <2>1. InAssocDays(a, a.calendar) \in Calendar /\ date + off \in Runs(InAssocDays(a, a.calendar))
        BY <1>1, <1>2, <1>3, <1>4, InAssocDaysMoves DEF off, a
    <2> QED BY <2>1, <1>2, <1>3, GetOverlapIsRunByBoth
<1>6. GetOverlap(InBaseDays(a, s.calendar), TheBase.calendar)
    <2>1. InBaseDays(a, s.calendar) \in Calendar /\ date \in Runs(InBaseDays(a, s.calendar))
        BY <1>1, <1>2, <1>3, <1>4, InBaseDaysMoves DEF off, a
    <2> QED BY <2>1, <1>2, <1>3, GetOverlapIsRunByBoth
<1>7. coupled \in Calendar /\ date + off \in Runs(InAssocDays(a, coupled))
    BY <1>1, <1>3, <1>4, CoupledDaysAreOfAllThree DEF off, a
<1> HIDE DEF coupled
<1>8. date \in Runs(coupled)
    BY <1>1, <1>4, <1>7, InAssocDaysMoves DEF off, a
<1>9. ~IsEmpty(coupled)
    BY <1>8 DEF IsEmpty, Runs, RunsOn
<1>10. CanApply(a, TheBase, s)
    BY <1>3, <1>9 DEF CanApply, Only, coupled, a
<1> QED BY <1>5, <1>6, <1>7, <1>10 DEF off, a, coupled

\* The schedules of a train are those that stand with its name.
LEMMA OfATrain ==
    ASSUME TypeOK, NEW t \in Trains
    PROVE  ToSet(schedules[t]) = {s \in Standing : s.tuid = t}
<1>1. ASSUME NEW s \in ToSet(schedules[t])
      PROVE  s \in Standing /\ s.tuid = t
    BY Zenon DEF TypeOK, Standing
<1>2. ASSUME NEW s \in Standing, s.tuid = t
      PROVE  s \in ToSet(schedules[t])
    <2>1. PICK u \in Trains : s \in ToSet(schedules[u])
        BY DEF Standing
    <2>2. s.tuid = u
        BY <2>1 DEF TypeOK
    <2> QED BY <1>2, <2>1, <2>2
<1> QED BY <1>1, <1>2

\* A schedule the look passed over was not wanted.
LEMMA LooksForAllWanted ==
    ASSUME IInv, GivenOK, OneToApply, Only, FindMatches, NEW s \in PortionsGiven, s \notin matches'
    PROVE  Wanted(s) = {}
<1>1. associations = given /\ schedules = timetable
    BY DEF FindMatches, OneToApply
<1>2. Head(associations) = TheOne /\ s \in Schedule
    BY <1>1, OnlyType
<1>3. matches' = FindSchedules(schedules[TheOne.assocTUID], InAssocDays(TheOne, TheOne.calendar))
    BY <1>2 DEF FindMatches
<1>4. ~GetOverlap(InAssocDays(TheOne, TheOne.calendar), s.calendar)
    BY <1>1, <1>3 DEF FindSchedules, PortionsGiven
<1> QED BY <1>2, <1>4, WantedIsFound

\* Nor was one the coupling refused.
LEMMA RefusesNoneWanted ==
    ASSUME IInv, GivenOK, OneToApply, Only, NoCoupling, NEW s \in PortionsGiven,
           s \in matches, s \notin matches'
    PROVE  Wanted(s) = {}
<1> DEFINE bases == schedules[TheOne.baseTUID]
           list == schedules[TheOne.assocTUID]
<1>1. associations # << >>
    BY DEF NoCoupling, IInv, Stages
<1>2. associations = given /\ ToSet(bases) = {TheBase}
    BY <1>1 DEF OneToApply
<1>3. /\ Head(associations) = TheOne /\ s \in Schedule
      /\ TheOne.baseTUID \in Trains /\ TheBase \in Schedule
    BY <1>2, OnlyType DEF Association
<1>4. PICK at \in FirstOf(list, matches) :
        /\ \A from \in FirstOf(bases, BasesOf(TheOne, list[at])) : ~CanApply(TheOne, bases[from], list[at])
        /\ matches' = matches \ {list[at]}
    BY <1>3 DEF NoCoupling
<1>5. s = list[at]
    BY <1>4
<1> SUFFICES ASSUME NEW date \in Wanted(s)
             PROVE  FALSE
    OBVIOUS
<1>6. /\ GetOverlap(InBaseDays(TheOne, s.calendar), TheBase.calendar)
      /\ CanApply(TheOne, TheBase, s)
    BY <1>3, WantedIsFound
<1>7. BasesOf(TheOne, s) = {TheBase}
    BY <1>2, <1>6 DEF BasesOf, FindSchedules
<1>8. bases \in Seq(Schedule)
    BY <1>3 DEF IInv, TypeOK
<1>9. 1 \in DOMAIN bases /\ bases[1] = TheBase
    <2>1. PICK i \in DOMAIN bases : bases[i] = TheBase
        BY <1>2 DEF ToSet
    <2>2. 1 \in DOMAIN bases
        BY <1>8, <2>1
    <2>3. bases[1] \in ToSet(bases)
        BY <2>2 DEF ToSet
    <2> QED BY <1>2, <2>2, <2>3
<1> HIDE DEF bases, list
<1>10. 1 \in FirstOf(bases, BasesOf(TheOne, s))
    BY <1>7, <1>9 DEF FirstOf
<1> QED BY <1>4, <1>5, <1>6, <1>9, <1>10

\* What is coupled is, on every date that was wanted of it.
LEMMA CouplesAllWanted ==
    ASSUME IInv, GivenOK, OneToApply, Only, Couple,
           NEW a, NEW base, NEW s, NEW dated, NEW copies, NEW rest,
           Cutting(a, base, s, dated, copies, rest), NEW date \in Wanted(s)
    PROVE  \E link \in links' : \E portion \in ToSet(associated)' :
              /\ portion.id = PortionEnd(link) /\ BaseEnd(link) = TheBase.id
              /\ LeavesCoupled(portion, date)
<1> USE DEF IInv
<1>1. /\ associations # << >> /\ a = Head(associations) /\ base \in Standing /\ base.tuid = a.baseTUID
      /\ ToSet(associated)' = ToSet(associated) \cup {dated} \cup copies
      /\ \A c \in copies : Departs(c) = Departs(dated)
    BY DEF Cutting
<1>2. associations = given /\ ToSet(schedules[TheOne.baseTUID]) = {TheBase}
    BY <1>1 DEF OneToApply
<1>3. a = TheOne /\ TheOne.baseTUID \in Trains
    BY <1>1, <1>2, OnlyType DEF Association
<1>4. base = TheBase
    BY <1>1, <1>2, <1>3, OfATrain
<1>5. /\ dated \in Schedule /\ s \in Schedule /\ dated.told = 0
      /\ dated.calendar = InAssocDays(a, CoupledDays(a, base, s))
    BY NewIds
<1>6. LeavesCoupled(dated, date)
    <2>1. date + Offset[TheOne.dateIndicator] \in Runs(InAssocDays(TheOne, CoupledDays(TheOne, TheBase, s)))
        BY <1>5, WantedIsFound
    <2>2. Departs(dated) = Runs(dated.calendar)
        BY <1>5, DepartsAsTold
    <2> QED BY <1>3, <1>4, <1>5, <2>1, <2>2 DEF LeavesCoupled
<1>7. PICK portion \in {dated} \cup copies : links' = links \cup {LinkOf(a, base, portion)}
    BY DEF Cutting
<1>8. LeavesCoupled(portion, date)
    BY <1>1, <1>6, <1>7 DEF LeavesCoupled
<1> DEFINE link == LinkOf(a, base, portion)
<1>9. PortionEnd(link) = portion.id /\ BaseEnd(link) = base.id
    BY DEF LinkOf, PortionEnd, BaseEnd, Join
<1>10. link \in links'
    BY <1>7
<1> HIDE DEF link
<1> QED BY <1>1, <1>4, <1>7, <1>8, <1>9, <1>10

\* The last steps begin where nothing is left to apply.
LEMMA NoneLeft ==
    ASSUME Stages, PutBack \/ MergeSchedules \/ ResolveLinks \/ ShiftLateNightServices
    PROVE  associations = << >> /\ associations' = << >>
<1>1. associations = << >> \/ stage \in {"resolving", "shifting"}
    BY DEF PutBack, MergeSchedules, ResolveLinks, ShiftLateNightServices
<1>2. associations = << >>
    BY <1>1 DEF Stages
<1>3. associations' = associations
    BY Zenon DEF PutBack, MergeSchedules, ResolveLinks, ShiftLateNightServices
<1> QED BY <1>2, <1>3

\* Each step of the loop leaves a date to be tried still, or coupled.
LEMMA OneToApplyStep ==
    ASSUME IInv, GivenOK, OneToApply, [Next]_vars
    PROVE  OneToApply'
<1> USE DEF IInv
<1> SUFFICES ASSUME Only', associations' # << >>
             PROVE  /\ associations' = given
                    /\ ToSet(schedules'[TheOne.baseTUID]) = {TheBase}
                    /\ ~applying' => schedules' = timetable
                    /\ applying' => \A s \in PortionsGiven : s \in matches' \/ \A date \in Wanted(s) :
                          \E link \in links' : \E portion \in ToSet(associated)' :
                              /\ portion.id = PortionEnd(link) /\ BaseEnd(link) = TheBase.id
                              /\ LeavesCoupled(portion, date)
    <2>1. given' = given /\ timetable' = timetable
        BY NothingGivenChanges
    <2>2. /\ TheOne' = TheOne /\ TheBase' = TheBase /\ PortionsGiven' = PortionsGiven
          /\ \A s : Wanted(s)' = Wanted(s)
          /\ \A portion, date : LeavesCoupled(portion, date)' = LeavesCoupled(portion, date)
        BY GivenStays
    <2>3. ToSet(schedules[TheOne.baseTUID])' = ToSet(schedules'[TheOne.baseTUID])
        BY <2>2 DEF ToSet
    <2>4. \A link : BaseEnd(link)' = BaseEnd(link) /\ PortionEnd(link)' = PortionEnd(link)
        BY DEF BaseEnd, PortionEnd
    <2> QED BY <2>1, <2>2, <2>3, <2>4 DEF OneToApply
<1>1. Only
    BY GivenStays
<1> DEFINE Tried(s) == s \in matches \/ \A date \in Wanted(s) :
              \E link \in links : \E portion \in ToSet(associated) :
                  /\ portion.id = PortionEnd(link) /\ BaseEnd(link) = TheBase.id
                  /\ LeavesCoupled(portion, date)
<1>2. associations # << >> =>
        /\ associations = given
        /\ ToSet(schedules[TheOne.baseTUID]) = {TheBase}
        /\ ~applying => schedules = timetable
        /\ applying => \A s \in PortionsGiven : Tried(s)
    BY <1>1 DEF OneToApply
<1>3. CASE FindMatches
    <2>1. associations # << >> /\ associations' = associations /\ schedules' = schedules /\ applying' = TRUE
        BY <1>3 DEF FindMatches
    <2>2. \A s \in PortionsGiven : s \in matches' \/ Wanted(s) = {}
        BY <1>1, <1>3, LooksForAllWanted
    <2> QED BY <1>2, <2>1, <2>2
<1>4. CASE NoCoupling
    <2>1. /\ associations # << >> /\ associations' = associations /\ schedules' = schedules
          /\ applying' = applying /\ applying = TRUE /\ links' = links /\ associated' = associated
        BY <1>4 DEF NoCoupling, Stages, TypeOK
    <2>2. \A s \in PortionsGiven : s \in matches => s \in matches' \/ Wanted(s) = {}
        BY <1>1, <1>4, RefusesNoneWanted
    <2> QED BY <1>2, <2>1, <2>2 DEF ToSet
<1>5. CASE Couple
    <2>1. PICK a, base, assoc, dated, copies, rest : Cutting(a, base, assoc, dated, copies, rest)
        BY <1>5, CoupleCuts
    <2>2. /\ associations # << >> /\ a = Head(associations) /\ assoc \in Standing
          /\ assoc.tuid = a.assocTUID /\ matches' = matches \ {assoc}
          /\ Standing' = (Standing \ {assoc}) \cup rest
          /\ \A r \in rest : r.tuid = assoc.tuid
          /\ ToSet(associated)' = ToSet(associated) \cup {dated} \cup copies
          /\ links \subseteq links'
        BY <2>1 DEF Cutting
    <2>3. applying = TRUE /\ applying' = TRUE /\ associations' = associations
        <3>1. applying /\ UNCHANGED <<associations, applying, trips, stage, input>>
            BY <1>5, Zenon DEF Couple
        <3> QED BY <3>1 DEF TypeOK
    <2>4. associations = given /\ a = TheOne /\ TheOne.baseTUID \in Trains /\ TheOne.assocTUID # TheOne.baseTUID
        BY <1>1, <1>2, <2>2, OnlyType DEF Association, Only
    <2>5. ToSet(schedules'[TheOne.baseTUID]) = {TheBase}
        <3>1. ToSet(schedules[TheOne.baseTUID]) = {s \in Standing : s.tuid = TheOne.baseTUID}
            BY <2>4, OfATrain
        <3>2. ToSet(schedules'[TheOne.baseTUID]) = {s \in Standing' : s.tuid = TheOne.baseTUID}
            <4>1. /\ Standing' = UNION {ToSet(schedules'[t]) : t \in Trains}
                  /\ \A t \in Trains : \A s \in ToSet(schedules'[t]) : s.tuid = t
                BY <2>1 DEF Standing, Cutting
            <4>2. ASSUME NEW s \in ToSet(schedules'[TheOne.baseTUID])
                  PROVE  s \in Standing' /\ s.tuid = TheOne.baseTUID
                BY <2>4, <4>1, <4>2
            <4>3. ASSUME NEW s \in Standing', s.tuid = TheOne.baseTUID
                  PROVE  s \in ToSet(schedules'[TheOne.baseTUID])
                <5>1. PICK t \in Trains : s \in ToSet(schedules'[t])
                    BY <4>1
                <5> QED BY <4>1, <4>3, <5>1
            <4> QED BY <4>2, <4>3
        <3> QED BY <1>2, <2>2, <2>4, <3>1, <3>2
    <2>6. ASSUME NEW s \in PortionsGiven, s \notin matches', NEW date \in Wanted(s)
          PROVE  \E link \in links' : \E portion \in ToSet(associated)' :
                    /\ portion.id = PortionEnd(link) /\ BaseEnd(link) = TheBase.id
                    /\ LeavesCoupled(portion, date)
        <3>1. CASE s = assoc
            BY <1>1, <1>5, <2>1, <2>6, <3>1, CouplesAllWanted
        <3>2. CASE s # assoc
            <4>1. s \notin matches
                BY <2>2, <2>6, <3>2
            <4>2. PICK link \in links : \E portion \in ToSet(associated) :
                    /\ portion.id = PortionEnd(link) /\ BaseEnd(link) = TheBase.id
                    /\ LeavesCoupled(portion, date)
                BY <1>2, <2>2, <2>3, <2>6, <4>1
            <4> QED BY <2>2, <4>2
        <3> QED BY <3>1, <3>2
    <2> QED BY <2>2, <2>3, <2>4, <2>5, <2>6
<1>6. CASE EndAssociation
    <2>1. associations # << >> /\ associations' = Tail(associations)
        BY <1>6 DEF EndAssociation, Stages
    <2>2. associations' = << >>
        BY <1>1, <1>2, <2>1, OnlyType
    <2> QED BY <2>2
<1>7. CASE PutBack \/ MergeSchedules \/ ResolveLinks \/ ShiftLateNightServices
    BY <1>7, NoneLeft
<1>8. CASE UNCHANGED vars
    <2>1. /\ associations' = associations /\ schedules' = schedules /\ applying' = applying
          /\ matches' = matches /\ links' = links /\ associated' = associated
        BY <1>8 DEF vars
    <2> QED BY <1>2, <2>1 DEF ToSet
<1> QED BY <1>3, <1>4, <1>5, <1>6, <1>7, <1>8 DEF Next

\* Once it is applied every date is coupled, and stays so while its schedules are put
\* back and numbered.
LEMMA AllCoupledStep ==
    ASSUME IInv, GivenOK, OneToApply, AllCoupled, [Next]_vars
    PROVE  AllCoupled'
<1> USE DEF IInv
<1> SUFFICES ASSUME Only', associations' = << >>, stage' \in {"associating", "resolving"},
                    NEW s \in PortionsGiven, NEW date \in Wanted(s)
             PROVE  \E link \in links' : \E portion, base \in All' :
                      /\ portion.id = PortionEnd(link) /\ base.id = BaseEnd(link)
                      /\ LeavesCoupled(portion, date)
    <2>1. /\ PortionsGiven' = PortionsGiven /\ \A u : Wanted(u)' = Wanted(u)
          /\ \A portion, day : LeavesCoupled(portion, day)' = LeavesCoupled(portion, day)
        BY GivenStays
    <2>2. \A link : BaseEnd(link)' = BaseEnd(link) /\ PortionEnd(link)' = PortionEnd(link)
        BY DEF BaseEnd, PortionEnd
    <2> QED BY <2>1, <2>2 DEF AllCoupled
<1>1. Only
    BY GivenStays
<1>2. CASE associations = << >>
    <2>1. Looking \/ PutBack \/ MergeSchedules
        <3>1. ~Couple
            <4>1. Couple => applying
                BY Zenon DEF Couple
            <4> QED BY <1>2, <4>1 DEF Stages
        <3>2. ~ResolveLinks /\ ~ShiftLateNightServices
            BY StageMoves DEF ShiftLateNightServices
        <3> QED BY <3>1, <3>2, LooksOnly DEF Next
    <2>2. All' = All
        BY <2>1, AllStays
    <2>3. links' = links /\ stage \in {"associating", "resolving"}
        BY <2>1 DEF Looking, PutBack, MergeSchedules
    <2>4. \E link \in links : \E portion, base \in All :
            /\ portion.id = PortionEnd(link) /\ base.id = BaseEnd(link)
            /\ LeavesCoupled(portion, date)
        BY <1>1, <1>2, <2>3 DEF AllCoupled
    <2> QED BY <2>2, <2>3, <2>4
<1>3. CASE associations # << >>
    <2>1. EndAssociation
        <3>1. Couple => associations' = associations
            BY Zenon DEF Couple
        <3> QED BY <1>3, <3>1, NoneLeft DEF Next, FindMatches, NoCoupling, vars
    <2>2. applying /\ matches = {}
        BY <2>1 DEF EndAssociation
    <2>3. PICK link \in links : \E portion \in ToSet(associated) :
            /\ portion.id = PortionEnd(link) /\ BaseEnd(link) = TheBase.id
            /\ LeavesCoupled(portion, date)
        BY <1>1, <1>3, <2>2 DEF OneToApply
    <2>4. ToSet(schedules[TheOne.baseTUID]) = {TheBase} /\ TheOne.baseTUID \in Trains
        BY <1>1, <1>3, OnlyType DEF OneToApply, Association
    <2>5. stage = "associating"
        BY <1>3 DEF Stages
    <2>6. ToSet(associated) \subseteq All /\ TheBase \in All
        BY <2>4, <2>5 DEF All
    <2>7. Looking
        BY <2>1, LooksOnly
    <2>8. All' = All /\ links' = links
        BY <2>7, AllStays DEF Looking
    <2> QED BY <2>3, <2>6, <2>8
<1> QED BY <1>2, <1>3

\* The trip a schedule's id is resolved to is its own.
LEMMA OneTripOf ==
    ASSUME TripsById, stage = "resolving", NEW trip \in trips
    PROVE  Cardinality(TripsOf(trip.schedule.id)) = 1 /\ TripId(trip.schedule.id) = trip.trip_id
<1>1. TripsOf(trip.schedule.id) = {trip}
    BY DEF TripsOf, TripsById
<1>2. (CHOOSE f \in {trip} : TRUE) = trip
    OBVIOUS
<1> QED BY <1>1, <1>2, FS_Singleton DEF TripId

\* A link whose two schedules are trips is kept, and told in their numbers.
LEMMA ResolvedIsTold ==
    ASSUME IInv, TripsById, ResolveLinks, NEW l \in links, NEW f \in trips, NEW g \in trips,
           f.schedule.id = PortionEnd(l), g.schedule.id = BaseEnd(l)
    PROVE  \E link \in links' : PortionEnd(link) = f.trip_id
<1>1. stage = "resolving"
    BY StageMoves
<1>2. /\ Cardinality(TripsOf(PortionEnd(l))) = 1 /\ TripId(PortionEnd(l)) = f.trip_id
      /\ Cardinality(TripsOf(BaseEnd(l))) = 1
    BY <1>1, OneTripOf
<1>3. Cardinality(TripsOf(l.from)) = 1 /\ Cardinality(TripsOf(l.to)) = 1
    BY <1>2 DEF BaseEnd, PortionEnd
<1> DEFINE link == [l EXCEPT !.from = TripId(l.from), !.to = TripId(l.to)]
<1>4. link \in links'
    BY <1>3 DEF ResolveLinks
<1>5. l \in LinkRecord
    BY <1>1 DEF IInv, LinksById
<1>6. link.of = l.of /\ link.from = TripId(l.from) /\ link.to = TripId(l.to)
    BY <1>5 DEF LinkRecord
<1> HIDE DEF link
<1>7. PortionEnd(link) = TripId(PortionEnd(l))
    BY <1>6 DEF PortionEnd
<1> QED BY <1>2, <1>4, <1>7

\* Told in trip ids each date is coupled still, and the trip that leaves on it in the
\* night leaves on it when it is told a day early.
LEMMA AllCoupledByTripStep ==
    ASSUME IInv, GivenOK, TripsById, AllCoupled, AllCoupledByTrip, [Next]_vars
    PROVE  AllCoupledByTrip'
<1> USE DEF IInv
<1> SUFFICES ASSUME Only', stage' \in {"shifting", "published"},
                    NEW s \in PortionsGiven, NEW date \in Wanted(s)
             PROVE  \E link \in links' : \E trip \in trips' :
                      trip.trip_id = PortionEnd(link) /\ LeavesCoupled(trip.schedule, date)
    <2>1. /\ PortionsGiven' = PortionsGiven /\ \A u : Wanted(u)' = Wanted(u)
          /\ \A portion, day : LeavesCoupled(portion, day)' = LeavesCoupled(portion, day)
        BY GivenStays
    <2>2. \A link : PortionEnd(link)' = PortionEnd(link)
        BY DEF PortionEnd
    <2> QED BY <2>1, <2>2 DEF AllCoupledByTrip
<1>1. Only
    BY GivenStays
<1>2. CASE Looking
    <2>1. stage' = stage /\ links' = links /\ trips' = trips
        BY <1>2 DEF Looking
    <2> QED BY <1>1, <2>1 DEF AllCoupledByTrip
<1>3. ~Couple /\ ~PutBack /\ ~MergeSchedules
    BY StageMoves
<1>4. CASE ResolveLinks
    <2>1. stage = "resolving" /\ trips' = trips
        BY <1>4, StageMoves, TripsStay
    <2>2. associations = << >>
        BY <2>1 DEF Stages
    <2>3. PICK l \in links : \E portion, base \in All :
            /\ portion.id = PortionEnd(l) /\ base.id = BaseEnd(l)
            /\ LeavesCoupled(portion, date)
        BY <1>1, <2>1, <2>2 DEF AllCoupled
    <2>4. PICK portion \in All, base \in All :
            /\ portion.id = PortionEnd(l) /\ base.id = BaseEnd(l)
            /\ LeavesCoupled(portion, date)
        BY <2>3
    <2>5. All = {trip.schedule : trip \in trips}
        BY <2>1 DEF All
    <2>6. PICK f \in trips : f.schedule = portion
        BY <2>5
    <2>7. PICK g \in trips : g.schedule = base
        BY <2>5
    <2>8. \E link \in links' : PortionEnd(link) = f.trip_id
        BY <1>4, <2>4, <2>6, <2>7, ResolvedIsTold
    <2> QED BY <2>1, <2>4, <2>6, <2>8
<1>5. CASE ShiftLateNightServices
    <2>1. stage = "shifting" /\ links' = links
        BY <1>5 DEF ShiftLateNightServices
    <2>2. PICK link \in links : \E trip \in trips :
            trip.trip_id = PortionEnd(link) /\ LeavesCoupled(trip.schedule, date)
        BY <1>1, <2>1 DEF AllCoupledByTrip
    <2>3. PICK trip \in trips : trip.trip_id = PortionEnd(link) /\ LeavesCoupled(trip.schedule, date)
        BY <2>2
    <2>4. PICK late \in trips' : late.trip_id = trip.trip_id /\ late.schedule = Shifted(trip.schedule)
        BY <1>5, LateTrip
    <2>5. trip.schedule \in Schedule
        BY DEF TypeOK, Trip
    <2>6. Departs(Shifted(trip.schedule)) = Departs(trip.schedule)
        BY <2>5, ShiftedLeavesAsItDid
    <2>7. LeavesCoupled(late.schedule, date)
        BY <2>3, <2>4, <2>6 DEF LeavesCoupled
    <2> QED BY <2>1, <2>3, <2>4, <2>7
<1> QED BY <1>2, <1>3, <1>4, <1>5, LooksOnly DEF Next

\* To begin with each schedule stands in one place, and all are still to be tried.
LEMMA InitN ==
    ASSUME Init
    PROVE  NInv
<1>1. /\ associations = given /\ given \in Associations /\ applying = FALSE
      /\ associated = << >> /\ trips = {} /\ stage = "associating"
      /\ schedules = timetable /\ timetable \in Timetables
    BY DEF Init
<1>2. GivenOK
    BY <1>1 DEF GivenOK
<1>3. Apart
    <2>1. \A t \in Trains : Distinct(schedules[t])
        BY InitStands DEF Distinct
    <2>2. Distinct(associated) /\ ToSet(associated) = {}
        BY <1>1 DEF Distinct, ToSet
    <2> QED BY <2>1, <2>2 DEF Apart
<1>4. OneToApply
    BY <1>1, <1>2, OnlyType DEF OneToApply
<1>5. AllCoupled
    <2>1. Only => associations # << >>
        BY <1>1, <1>2, OnlyType
    <2> QED BY <2>1 DEF AllCoupled
<1> QED BY <1>1, <1>2, <1>3, <1>4, <1>5 DEF NInv, TripsById, AllCoupledByTrip

\* What is to be coupled is never lost on the way.
THEOREM NothingIsLost == Spec => []NInv
<1>1. Init => NInv
    BY InitN
<1>2. IInv /\ NInv /\ [Next]_vars => NInv'
    <2>1. GivenOK /\ [Next]_vars => GivenOK'
        BY GivenStays
    <2> QED BY <2>1, ApartStep, TripsByIdStep, OneToApplyStep, AllCoupledStep, AllCoupledByTripStep DEF NInv
<1> QED BY <1>1, <1>2, Invariance, PTL DEF Spec

\* Where there is one association and one schedule of its base, every day both trains
\* run and it is in force is coupled by a published link.
THEOREM EveryCouplingIsMade == Spec => []CoupledWhereBothRun
<1>1. IInv /\ NInv => CoupledWhereBothRun
    <2> SUFFICES ASSUME IInv, NInv, stage = "published", Len(given) = 1,
                        Len(timetable[given[1].baseTUID]) = 1,
                        given[1].baseTUID # given[1].assocTUID, given[1].type \in {Join, Split},
                        NEW s \in ToSet(timetable[given[1].assocTUID]),
                        given[1].location \in timetable[given[1].baseTUID][1].calls \cap s.calls,
                        NEW date \in Runs(timetable[given[1].baseTUID][1].calendar) \cap Runs(given[1].calendar),
                        date + Offset[given[1].dateIndicator] \in Runs(s.calendar)
                 PROVE  \E link \in links :
                          date + Offset[given[1].dateIndicator] \in Departs(TripOf(PortionEnd(link)))
        BY DEF CoupledWhereBothRun
    <2>1. Only /\ s \in PortionsGiven /\ date \in Wanted(s)
        BY DEF Only, PortionsGiven, Wanted, TheOne, TheBase
    <2>2. PICK link \in links : \E trip \in trips :
            trip.trip_id = PortionEnd(link) /\ LeavesCoupled(trip.schedule, date)
        BY <2>1 DEF NInv, AllCoupledByTrip
    <2>3. PICK trip \in trips : trip.trip_id = PortionEnd(link) /\ LeavesCoupled(trip.schedule, date)
        BY <2>2
    <2>4. TripOf(PortionEnd(link)) = trip.schedule
        BY <2>3, TripOfId DEF IInv
    <2> QED BY <2>3, <2>4 DEF LeavesCoupled, TheOne
<1> QED BY <1>1, Invariance, NothingIsLost, PTL
=============================================================================
