--------------------------- MODULE Overlays_proofs ---------------------------
(***************************************************************************)
(* applyOverlays for every timetable: no day is lost (LatestRuns), and     *)
(* where every record keeps a day of its own no train runs twice           *)
(* (LatestAloneWhereKept).  Two facts carry both.  An entry of the index   *)
(* keeps every date its record has the last word on (Keeps), so a record   *)
(* with such a date is never taken out (Present).  What an entry has left  *)
(* is clear of every record it has been looked at for (Clear).             *)
(***************************************************************************)
EXTENDS Overlays, TLAPS

-----------------------------------------------------------------------------
(* Calendars *)

\* A date is in Runs exactly when the calendar runs on it.
LEMMA RunsIsRunsOn ==
    ASSUME NEW cal \in Calendar, NEW date \in Int
    PROVE  date \in Runs(cal) <=> RunsOn(cal, date)
BY DEF Runs, RunsOn, Calendar

\* Every date a calendar runs is a date.
LEMMA RunsType ==
    ASSUME NEW cal \in Calendar
    PROVE  Runs(cal) \subseteq Int
BY DEF Runs, Calendar

\* A calendar is empty exactly when it runs on no date: what getOverlap and the
\* null of addExcludeDays are decided by.
LEMMA IsEmptyIsNoRuns ==
    ASSUME NEW cal \in Calendar
    PROVE  IsEmpty(cal) <=> Runs(cal) = {}
BY DEF IsEmpty, Runs, RunsOn, Calendar

\* The walk over the days both calendars reach finds the dates both run.
LEMMA SharedDaysAreRunByBoth ==
    ASSUME NEW cal \in Calendar, NEW overlay \in Calendar
    PROVE  SharedDays(cal, overlay) = Runs(cal) \cap Runs(overlay)
BY DEF SharedDays, Runs, RunsOn, Calendar, Latest, Earliest

\* The masks need not be compared first: getOverlap answers whether there is a
\* date both run.
LEMMA GetOverlapIsRunByBoth ==
    ASSUME NEW cal \in Calendar, NEW overlay \in Calendar
    PROVE  GetOverlap(cal, overlay) <=> Runs(cal) \cap Runs(overlay) # {}
<1>1. SharedDays(cal, overlay) # {} => cal.days \cap overlay.days # {}
    BY DEF SharedDays
<1> QED BY <1>1, SharedDaysAreRunByBoth DEF GetOverlap

\* A calendar cut to two dates is a calendar.
LEMMA CloneType ==
    ASSUME NEW cal \in Calendar, NEW start \in Int, NEW end \in Int,
           NEW removeDays, NEW excludeDays \in SUBSET Int
    PROVE  Clone(cal, start, end, removeDays, excludeDays) \in Calendar
BY DEF Clone, Calendar

\* A calendar under another runs on exactly the dates it ran that the other
\* does not: no date is lost and none is kept by both (addExcludeDays).
LEMMA AddExcludeDaysIsDifference ==
    ASSUME NEW cal \in Calendar, NEW overlay \in Calendar
    PROVE  /\ AddExcludeDays(cal, overlay) \in Calendar
           /\ Runs(AddExcludeDays(cal, overlay)) = Runs(cal) \ Runs(overlay)
<1> DEFINE left == AddExcludeDays(cal, overlay)
<1>1. SharedDays(cal, overlay) = Runs(cal) \cap Runs(overlay)
    BY SharedDaysAreRunByBoth
<1>2. cal.excludeDays \cup SharedDays(cal, overlay) \in SUBSET Int
    BY <1>1, RunsType DEF Calendar
<1>3. left \in Calendar
    BY <1>2, CloneType DEF AddExcludeDays, Calendar
<1>4. ASSUME NEW date \in Int
      PROVE  date \in Runs(left) <=> date \in Runs(cal) /\ date \notin Runs(overlay)
    BY <1>1 DEF AddExcludeDays, Clone, Runs, RunsOn, Calendar
<1> QED BY <1>3, <1>4, RunsType

-----------------------------------------------------------------------------
(* The invariant *)

\* An entry keeps every date that its record has the last word on.
Keeps ==
    \A t \in Tuids : \A i \in DOMAIN schedulesByTuid[t] :
        LET entry == schedulesByTuid[t][i]
        IN  \A date \in Runs(records[entry.record].calendar) :
                Over(entry.record, date) = {} => date \in Runs(entry.calendar)

\* A record with such a date has an entry.
Present ==
    \A r \in 1..(current - 1) : \A date \in Runs(records[r].calendar) :
        records[r].stp # Cancellation /\ Over(r, date) = {} =>
            \E i \in DOMAIN schedulesByTuid[records[r].tuid] :
                schedulesByTuid[records[r].tuid][i].record = r

\* An entry shares a date only with records that are still to be laid over it.
Clear ==
    KeepsADay =>
        \A t \in Tuids : \A i \in DOMAIN schedulesByTuid[t] :
            LET entry == schedulesByTuid[t][i]
            IN  \A date \in Runs(entry.calendar) : \A o \in Over(entry.record, date) :
                    o >= current /\ (o = current => i >= position)

\* The inductive invariant.
IInv == TypeOK /\ Keeps /\ Present /\ Clear

-----------------------------------------------------------------------------

LEMMA WithoutElements ==
    ASSUME NEW S, NEW list \in Seq(S), NEW i \in 1..Len(list)
    PROVE  /\ Without(list, i) \in Seq(S)
           /\ Len(Without(list, i)) = Len(list) - 1
           /\ \A j \in 1..(Len(list) - 1) :
                 Without(list, i)[j] = IF j < i THEN list[j] ELSE list[j + 1]
<1> DEFINE before == SubSeq(list, 1, i - 1)
           after == SubSeq(list, i + 1, Len(list))
<1>1. /\ before \in Seq(S) /\ Len(before) = i - 1
      /\ \A j \in 1..(i - 1) : before[j] = list[j]
    OBVIOUS
<1>2. /\ after \in Seq(S) /\ Len(after) = Len(list) - i
      /\ \A j \in 1..(Len(list) - i) : after[j] = list[i + j]
    OBVIOUS
<1> HIDE DEF before, after
<1>3. before \o after \in Seq(S) /\ Len(before \o after) = Len(list) - 1
    BY <1>1, <1>2
<1>4. ASSUME NEW j \in 1..(Len(list) - 1)
      PROVE  (before \o after)[j] = IF j < i THEN list[j] ELSE list[j + 1]
    <2>1. CASE j < i
        BY <1>1, <1>2, <2>1
    <2>2. CASE ~(j < i)
        <3>1. (before \o after)[j] = after[j - (i - 1)]
            BY <1>1, <1>2, <2>2
        <3>2. j - (i - 1) \in 1..(Len(list) - i) /\ i + (j - (i - 1)) = j + 1
            BY <2>2
        <3> QED BY <1>2, <2>2, <3>1, <3>2
    <2> QED BY <2>1, <2>2
<1> QED BY <1>3, <1>4 DEF Without, before, after

\* What the step does to the list of the record's train: nothing, where the base
\* does not run on a day of the record; the base leaves the list, where it runs
\* on no other; or it is left with its other days.
Step(list, list2) ==
    LET base == list[position]
        mine == Runs(records[current].calendar)
    IN  \/ list2 = list /\ Runs(base.calendar) \cap mine = {}
        \/ list2 = Without(list, position) /\ Runs(base.calendar) \subseteq mine
        \/ \E calendar \in Calendar :
              /\ list2 = [list EXCEPT ![position].calendar = calendar]
              /\ Runs(calendar) = Runs(base.calendar) \ mine
              /\ Runs(calendar) # {}

LEMMA ApplyOverlaySteps ==
    ASSUME TypeOK, ApplyOverlay
    PROVE  /\ Tuid \in Tuids
           /\ records[current] \in Record
           /\ current \in 1..Len(records)
           /\ position \in 1..Len(Bases)
           /\ Bases \in Seq(Schedule)
           /\ Bases[position] \in Schedule
           /\ Step(schedulesByTuid[Tuid], schedulesByTuid'[Tuid])
           /\ \A t \in Tuids \ {Tuid} : schedulesByTuid'[t] = schedulesByTuid[t]
           /\ schedulesByTuid' = [schedulesByTuid EXCEPT ![Tuid] = schedulesByTuid'[Tuid]]
<1> DEFINE base == Bases[position]
           overlay == records[current].calendar
           newCalendar == AddExcludeDays(base.calendar, overlay)
<1>1. current \in 1..Len(records) /\ records[current] \in Record /\ Tuid \in Tuids
    <2>1. records \in Seq(Record) /\ current \in 1..Len(records)
        BY DEF TypeOK, ApplyOverlay, Done
    <2>2. records[current] \in Record
        BY <2>1
    <2> QED BY <2>1, <2>2 DEF Record, Tuid
<1>2. Bases \in Seq(Schedule) /\ position \in 1..Len(Bases) /\ base \in Schedule
    BY <1>1 DEF TypeOK, ApplyOverlay, Bases
<1>3. base.calendar \in Calendar /\ overlay \in Calendar
    BY <1>1, <1>2 DEF Schedule, Record
<1>4. newCalendar \in Calendar /\ Runs(newCalendar) = Runs(base.calendar) \ Runs(overlay)
    BY <1>3, AddExcludeDaysIsDifference
<1>5. GetOverlap(base.calendar, overlay) <=> Runs(base.calendar) \cap Runs(overlay) # {}
    BY <1>3, GetOverlapIsRunByBoth
<1>6. IsEmpty(newCalendar) <=> Runs(newCalendar) = {}
    BY <1>4, IsEmptyIsNoRuns
<1>7. schedulesByTuid' =
        [schedulesByTuid EXCEPT ![Tuid] =
            IF ~GetOverlap(base.calendar, overlay) THEN Bases
            ELSE IF IsEmpty(newCalendar) THEN Without(Bases, position)
            ELSE [Bases EXCEPT ![position].calendar = newCalendar]]
    BY DEF ApplyOverlay, Bases
<1>8. schedulesByTuid'[Tuid] =
        IF ~GetOverlap(base.calendar, overlay) THEN Bases
        ELSE IF IsEmpty(newCalendar) THEN Without(Bases, position)
        ELSE [Bases EXCEPT ![position].calendar = newCalendar]
    BY <1>1, <1>7 DEF TypeOK
<1>9. Step(Bases, schedulesByTuid'[Tuid])
    <2>1. CASE ~GetOverlap(base.calendar, overlay)
        BY <2>1, <1>5, <1>8 DEF Step
    <2>2. CASE GetOverlap(base.calendar, overlay) /\ IsEmpty(newCalendar)
        BY <2>2, <1>4, <1>6, <1>8 DEF Step
    <2>3. CASE GetOverlap(base.calendar, overlay) /\ ~IsEmpty(newCalendar)
        BY <2>3, <1>4, <1>6, <1>8 DEF Step
    <2> QED BY <2>1, <2>2, <2>3
<1>10. /\ \A t \in Tuids \ {Tuid} : schedulesByTuid'[t] = schedulesByTuid[t]
       /\ schedulesByTuid' = [schedulesByTuid EXCEPT ![Tuid] = schedulesByTuid'[Tuid]]
    BY <1>1, <1>7, <1>8 DEF TypeOK
<1> QED BY <1>1, <1>2, <1>9, <1>10 DEF Bases

\* Every entry of the list after a step was in it before, with the same dates or
\* with those the record does not run.
LEMMA StepElements ==
    ASSUME TypeOK, ApplyOverlay
    PROVE  /\ schedulesByTuid'[Tuid] \in Seq(Schedule)
           /\ \A i \in DOMAIN schedulesByTuid'[Tuid] :
                \E j \in DOMAIN schedulesByTuid[Tuid] :
                    /\ schedulesByTuid'[Tuid][i].record = schedulesByTuid[Tuid][j].record
                    /\ Runs(schedulesByTuid[Tuid][j].calendar) \ Runs(records[current].calendar)
                          \subseteq Runs(schedulesByTuid'[Tuid][i].calendar)
           /\ \A j \in DOMAIN schedulesByTuid[Tuid] :
                \/ \E i \in DOMAIN schedulesByTuid'[Tuid] :
                      schedulesByTuid'[Tuid][i].record = schedulesByTuid[Tuid][j].record
                \/ Runs(schedulesByTuid[Tuid][j].calendar) \subseteq Runs(records[current].calendar)
<1> DEFINE list == schedulesByTuid[Tuid]
           list2 == schedulesByTuid'[Tuid]
           mine == Runs(records[current].calendar)
<1>1. /\ list \in Seq(Schedule)
      /\ position \in 1..Len(list)
      /\ list[position] \in Schedule
      /\ Step(list, list2)
    BY ApplyOverlaySteps DEF Bases
<1> HIDE DEF list, list2, mine
<1>2. CASE list2 = list
    BY <1>1, <1>2 DEF list, list2, mine
<1>3. CASE list2 = Without(list, position) /\ Runs(list[position].calendar) \subseteq mine
    <2>1. /\ list2 \in Seq(Schedule)
          /\ Len(list2) = Len(list) - 1
          /\ \A j \in 1..(Len(list) - 1) :
                list2[j] = IF j < position THEN list[j] ELSE list[j + 1]
        BY <1>1, <1>3, WithoutElements
    <2>2. \A i \in DOMAIN list2 : \E j \in DOMAIN list : list2[i] = list[j]
        BY <1>1, <2>1
    <2>3. \A j \in DOMAIN list : j # position => \E i \in DOMAIN list2 : list2[i] = list[j]
        <3> SUFFICES ASSUME NEW j \in DOMAIN list, j # position
                     PROVE  \E i \in DOMAIN list2 : list2[i] = list[j]
            OBVIOUS
        <3>0. j \in 1..Len(list) /\ DOMAIN list2 = 1..Len(list2)
            BY <1>1, <2>1
        <3>1. CASE j < position
            BY <1>1, <2>1, <3>0, <3>1
        <3>2. CASE j > position
            <4>1. j - 1 \in 1..Len(list2) /\ list2[j - 1] = list[(j - 1) + 1]
                BY <1>1, <2>1, <3>0, <3>2
            <4> QED BY <3>0, <4>1
        <3> QED BY <1>1, <3>0, <3>1, <3>2
    <2> QED BY <1>3, <2>1, <2>2, <2>3 DEF list, list2, mine
<1>4. ASSUME NEW calendar \in Calendar,
             list2 = [list EXCEPT ![position].calendar = calendar],
             Runs(calendar) = Runs(list[position].calendar) \ mine
      PROVE  /\ list2 \in Seq(Schedule)
             /\ \A i \in DOMAIN list2 :
                  \E j \in DOMAIN list :
                    /\ list2[i].record = list[j].record
                    /\ Runs(list[j].calendar) \ mine \subseteq Runs(list2[i].calendar)
             /\ \A j \in DOMAIN list : \E i \in DOMAIN list2 : list2[i].record = list[j].record
    <2>1. list2[position] = [list[position] EXCEPT !.calendar = calendar]
        BY <1>1, <1>4
    <2>2. list2[position].record = list[position].record /\ list2[position].calendar = calendar
        BY <1>1, <2>1 DEF Schedule
    <2>3. list2 \in Seq(Schedule) /\ DOMAIN list2 = DOMAIN list
        <3>1. [list[position] EXCEPT !.calendar = calendar] \in Schedule
            BY <1>1 DEF Schedule
        <3> QED BY <1>1, <1>4, <3>1
    <2>4. \A i \in DOMAIN list : i # position => list2[i] = list[i]
        BY <1>1, <1>4
    <2> QED BY <1>4, <2>2, <2>3, <2>4
<1> QED BY <1>1, <1>2, <1>3, <1>4 DEF Step, list, list2, mine

-----------------------------------------------------------------------------

LEMMA InitEstablishes == Init => IInv
<1> SUFFICES ASSUME Init PROVE IInv
    OBVIOUS
<1>1. records \in Seq(Record) /\ current = 1 /\ schedulesByTuid = [t \in Tuids |-> << >>]
    BY TimetablesAssumption DEF Init
<1> QED BY <1>1 DEF Init, IInv, TypeOK, Keeps, Present, Clear

LEMMA ApplyOverlayType ==
    ASSUME TypeOK, ApplyOverlay
    PROVE  TypeOK'
<1>1. /\ Tuid \in Tuids
      /\ position \in Nat
      /\ \A t \in Tuids \ {Tuid} : schedulesByTuid'[t] = schedulesByTuid[t]
      /\ schedulesByTuid' = [schedulesByTuid EXCEPT ![Tuid] = schedulesByTuid'[Tuid]]
    BY ApplyOverlaySteps
<1>2. UNCHANGED <<records, current>> /\ position' \in Nat \ {0}
    BY <1>1 DEF ApplyOverlay
<1>3. schedulesByTuid' \in [Tuids -> Seq(Schedule)]
    BY <1>1, StepElements DEF TypeOK
<1>4. ASSUME NEW t \in Tuids, NEW i \in DOMAIN schedulesByTuid'[t]
      PROVE  \E j \in DOMAIN schedulesByTuid[t] :
                schedulesByTuid'[t][i].record = schedulesByTuid[t][j].record
    BY <1>1, StepElements
<1>5. ASSUME NEW t \in Tuids, NEW i \in DOMAIN schedulesByTuid'[t]
      PROVE  /\ schedulesByTuid'[t][i].record \in 1..(current - 1)
             /\ records[schedulesByTuid'[t][i].record].tuid = t
             /\ records[schedulesByTuid'[t][i].record].stp # Cancellation
    <2>1. PICK j \in DOMAIN schedulesByTuid[t] :
                schedulesByTuid'[t][i].record = schedulesByTuid[t][j].record
        BY <1>4
    <2> QED BY <2>1 DEF TypeOK
<1>6. records \in Seq(Record) /\ current \in 1..(Len(records) + 1)
    BY DEF TypeOK
<1> QED BY <1>2, <1>3, <1>5, <1>6 DEF TypeOK

LEMMA ApplyOverlayKeeps ==
    ASSUME TypeOK, Keeps, Present, ApplyOverlay
    PROVE  Keeps' /\ Present'
<1> USE DEF ApplyOverlay
<1>1. /\ current \in 1..Len(records) /\ Tuid \in Tuids
      /\ records \in Seq(Record) /\ records[current] \in Record
      /\ \A t \in Tuids \ {Tuid} : schedulesByTuid'[t] = schedulesByTuid[t]
    BY ApplyOverlaySteps DEF TypeOK
<1>2. \A r, date : Over(r, date)' = Over(r, date)
    BY DEF Over
<1>3. ASSUME NEW j \in DOMAIN schedulesByTuid[Tuid],
             NEW date \in Runs(records[current].calendar)
      PROVE  Over(schedulesByTuid[Tuid][j].record, date) # {}
    <2>1. /\ schedulesByTuid[Tuid][j].record \in 1..(current - 1)
          /\ records[schedulesByTuid[Tuid][j].record].tuid = Tuid
        BY <1>1 DEF TypeOK
    <2>2. RunsOn(records[current].calendar, date)
        BY DEF Runs
    <2>3. current \in Over(schedulesByTuid[Tuid][j].record, date)
        BY <1>1, <2>1, <2>2 DEF Over, Tuid
    <2> QED BY <2>3
<1>4. Keeps'
    <2> SUFFICES ASSUME NEW t \in Tuids, NEW i \in DOMAIN schedulesByTuid'[t],
                        NEW date \in Runs(records[schedulesByTuid'[t][i].record].calendar),
                        Over(schedulesByTuid'[t][i].record, date) = {}
                 PROVE  date \in Runs(schedulesByTuid'[t][i].calendar)
        BY <1>2 DEF Keeps
    <2>1. CASE t = Tuid
        <3>1. PICK j \in DOMAIN schedulesByTuid[Tuid] :
                /\ schedulesByTuid'[Tuid][i].record = schedulesByTuid[Tuid][j].record
                /\ Runs(schedulesByTuid[Tuid][j].calendar) \ Runs(records[current].calendar)
                      \subseteq Runs(schedulesByTuid'[Tuid][i].calendar)
            BY <2>1, StepElements
        <3>2. date \in Runs(schedulesByTuid[Tuid][j].calendar)
            BY <1>1, <2>1, <3>1 DEF Keeps
        <3> QED BY <1>3, <2>1, <3>1, <3>2
    <2>2. CASE t # Tuid
        BY <1>1, <2>2 DEF Keeps
    <2> QED BY <2>1, <2>2
<1>5. Present'
    <2> SUFFICES ASSUME NEW r \in 1..(current - 1), NEW date \in Runs(records[r].calendar),
                        records[r].stp # Cancellation, Over(r, date) = {}
                 PROVE  \E i \in DOMAIN schedulesByTuid'[records[r].tuid] :
                            schedulesByTuid'[records[r].tuid][i].record = r
        BY <1>2 DEF Present
    <2>1. PICK j \in DOMAIN schedulesByTuid[records[r].tuid] :
                schedulesByTuid[records[r].tuid][j].record = r
        BY DEF Present
    <2>2. CASE records[r].tuid = Tuid
        <3>1. date \in Runs(schedulesByTuid[Tuid][j].calendar)
            BY <1>1, <2>1, <2>2 DEF Keeps
        <3>2. date \notin Runs(records[current].calendar)
            BY <1>3, <2>1, <2>2
        <3> QED BY <2>1, <2>2, <3>1, <3>2, StepElements
    <2>3. CASE records[r].tuid # Tuid
        <3>1. records[r].tuid \in Tuids
            <4>1. records[r] \in Record
                BY <1>1
            <4> QED BY <4>1 DEF Record
        <3> QED BY <1>1, <2>1, <2>3, <3>1
    <2> QED BY <2>2, <2>3
<1> QED BY <1>4, <1>5

\* Where every record keeps a day no base is taken out, so the loop looks at each
\* of them.
LEMMA ApplyOverlayClear ==
    ASSUME TypeOK, Keeps, Clear, ApplyOverlay
    PROVE  Clear'
<1> DEFINE mine == Runs(records[current].calendar)
           base == schedulesByTuid[Tuid][position]
<1>1. /\ current \in 1..Len(records) /\ Tuid \in Tuids
      /\ records \in Seq(Record) /\ records[current] \in Record
      /\ position \in 1..Len(schedulesByTuid[Tuid])
      /\ schedulesByTuid[Tuid] \in Seq(Schedule)
      /\ base \in Schedule
      /\ Step(schedulesByTuid[Tuid], schedulesByTuid'[Tuid])
      /\ \A t \in Tuids \ {Tuid} : schedulesByTuid'[t] = schedulesByTuid[t]
    BY ApplyOverlaySteps DEF TypeOK, Bases
<1>2. UNCHANGED <<records, current>> /\ position' = position + 1
    BY DEF ApplyOverlay
<1>3. \A r, date : Over(r, date)' = Over(r, date)
    BY <1>2 DEF Over
<1>4. /\ position \in DOMAIN schedulesByTuid[Tuid]
      /\ base.record \in 1..(current - 1)
      /\ base.record \in DOMAIN records
      /\ records[base.record].tuid = records[current].tuid
    <2>1. position \in DOMAIN schedulesByTuid[Tuid]
        BY <1>1
    <2>2. base.record \in 1..(current - 1) /\ records[base.record].tuid = Tuid
        BY <1>1, <2>1 DEF TypeOK
    <2> QED BY <1>1, <2>1, <2>2 DEF Tuid
<1> HIDE DEF base
<1> SUFFICES ASSUME KeepsADay, NEW t \in Tuids, NEW i \in DOMAIN schedulesByTuid'[t],
                    NEW date \in Runs(schedulesByTuid'[t][i].calendar),
                    NEW o \in Over(schedulesByTuid'[t][i].record, date)
             PROVE  o >= current /\ (o = current => i >= position + 1)
    BY <1>2, <1>3 DEF Clear, KeepsADay
<1>5. PICK kept \in Runs(records[base.record].calendar) : Over(base.record, kept) = {}
    BY <1>4 DEF KeepsADay
<1>6. kept \in Runs(base.calendar)
    BY <1>1, <1>4, <1>5 DEF Keeps, base
<1>7. kept \notin mine
    <2>1. SUFFICES ASSUME kept \in mine PROVE FALSE
        OBVIOUS
    <2>2. RunsOn(records[current].calendar, kept)
        BY <2>1 DEF Runs
    <2>3. current \in DOMAIN records /\ current > base.record
        BY <1>1, <1>4
    <2>4. current \in Over(base.record, kept)
        BY <1>4, <2>2, <2>3 DEF Over
    <2> QED BY <1>5, <2>4
<1>8. \/ schedulesByTuid'[Tuid] = schedulesByTuid[Tuid] /\ Runs(base.calendar) \cap mine = {}
      \/ \E calendar \in Calendar :
            /\ schedulesByTuid'[Tuid] =
                  [schedulesByTuid[Tuid] EXCEPT ![position].calendar = calendar]
            /\ Runs(calendar) = Runs(base.calendar) \ mine
    BY <1>1, <1>6, <1>7 DEF Step, base
<1>9. /\ DOMAIN schedulesByTuid'[Tuid] = DOMAIN schedulesByTuid[Tuid]
      /\ \A k \in DOMAIN schedulesByTuid[Tuid] \ {position} :
            schedulesByTuid'[Tuid][k] = schedulesByTuid[Tuid][k]
    BY <1>1, <1>8
<1>10. /\ schedulesByTuid'[Tuid][position].record = base.record
       /\ Runs(schedulesByTuid'[Tuid][position].calendar) = Runs(base.calendar) \ mine
    <2>1. CASE schedulesByTuid'[Tuid] = schedulesByTuid[Tuid] /\ Runs(base.calendar) \cap mine = {}
        BY <2>1 DEF base
    <2>2. ASSUME NEW calendar \in Calendar,
                 schedulesByTuid'[Tuid] =
                    [schedulesByTuid[Tuid] EXCEPT ![position].calendar = calendar],
                 Runs(calendar) = Runs(base.calendar) \ mine
          PROVE  /\ schedulesByTuid'[Tuid][position].record = base.record
                 /\ Runs(schedulesByTuid'[Tuid][position].calendar) = Runs(base.calendar) \ mine
        <3>1. schedulesByTuid'[Tuid][position] = [base EXCEPT !.calendar = calendar]
            BY <1>1, <2>2 DEF base
        <3> QED BY <1>1, <2>2, <3>1 DEF Schedule
    <2> QED BY <1>8, <2>1, <2>2
<1>11. o \in DOMAIN records /\ o \in Nat
    BY <1>1 DEF Over
<1>12. CASE t # Tuid
    <2>1. schedulesByTuid'[t] = schedulesByTuid[t]
        BY <1>1, <1>12
    <2>2. o >= current
        BY <2>1 DEF Clear
    <2>3. records[o].tuid = t
        BY <2>1 DEF Over, TypeOK
    <2> QED BY <1>12, <2>2, <2>3 DEF Tuid
<1>13. CASE t = Tuid /\ i # position
    <2>1. i \in DOMAIN schedulesByTuid[t] /\ schedulesByTuid'[t][i] = schedulesByTuid[t][i]
        BY <1>9, <1>13
    <2>2. o >= current /\ (o = current => i >= position)
        BY <2>1 DEF Clear
    <2>3. i \in Nat
        BY <1>1, <1>13, <2>1
    <2> QED BY <1>1, <1>13, <2>2, <2>3
<1>14. CASE t = Tuid /\ i = position
    <2>1. date \in Runs(base.calendar) /\ date \notin mine /\ o \in Over(base.record, date)
        BY <1>10, <1>14
    <2>2. o >= current
        BY <1>1, <1>4, <2>1 DEF Clear, base
    <2>3. o # current
        <3>1. date \in Int
            BY <1>1, <2>1, RunsType DEF Schedule
        <3>2. o = current => date \in mine
            BY <1>1, <2>1, <3>1, RunsIsRunsOn DEF Over, Record
        <3> QED BY <2>1, <3>2
    <2> QED BY <2>2, <2>3
<1> QED BY <1>12, <1>13, <1>14

\* What the end of the loop does: the record joins the list of its train, at the
\* end, unless it is a cancellation.
LEMMA AddScheduleSteps ==
    ASSUME TypeOK, AddSchedule
    PROVE  /\ current \in 1..Len(records)
           /\ records \in Seq(Record)
           /\ records[current] \in Record
           /\ Tuid \in Tuids
           /\ current' = current + 1
           /\ position' = 1
           /\ UNCHANGED records
           /\ schedulesByTuid' \in [Tuids -> Seq(Schedule)]
           /\ \A t \in Tuids : \A i \in DOMAIN schedulesByTuid[t] :
                /\ i \in DOMAIN schedulesByTuid'[t]
                /\ schedulesByTuid'[t][i] = schedulesByTuid[t][i]
                /\ t = Tuid => i < position
           /\ \A t \in Tuids : \A i \in DOMAIN schedulesByTuid'[t] :
                \/ i \in DOMAIN schedulesByTuid[t]
                \/ /\ t = Tuid
                   /\ records[current].stp # Cancellation
                   /\ schedulesByTuid'[t][i] =
                         [record |-> current, calendar |-> records[current].calendar]
           /\ records[current].stp # Cancellation =>
                \E i \in DOMAIN schedulesByTuid'[Tuid] :
                    schedulesByTuid'[Tuid][i].record = current
<1> DEFINE list == schedulesByTuid[Tuid]
           entry == [record |-> current, calendar |-> records[current].calendar]
<1>1. records \in Seq(Record) /\ current \in 1..Len(records)
    BY DEF TypeOK, AddSchedule, Done
<1>2. records[current] \in Record
    BY <1>1
<1>3. Tuid \in Tuids /\ entry \in Schedule
    BY <1>1, <1>2 DEF Record, Tuid, Schedule
<1>4. list \in Seq(Schedule) /\ schedulesByTuid \in [Tuids -> Seq(Schedule)]
    BY <1>3 DEF TypeOK
<1>5. position > Len(list) /\ position \in Nat
    BY DEF AddSchedule, Bases, TypeOK
<1>6. schedulesByTuid' =
        IF records[current].stp = Cancellation THEN schedulesByTuid
        ELSE [schedulesByTuid EXCEPT ![Tuid] = Append(list, entry)]
    BY <1>3, <1>4 DEF AddSchedule
<1>7. current' = current + 1 /\ position' = 1 /\ UNCHANGED records
    BY DEF AddSchedule
<1>8. DOMAIN list = 1..Len(list)
    BY <1>4
<1> HIDE DEF entry
<1>9. /\ Append(list, entry) \in Seq(Schedule)
      /\ DOMAIN Append(list, entry) = DOMAIN list \cup {Len(list) + 1}
      /\ \A i \in DOMAIN list : Append(list, entry)[i] = list[i]
      /\ Append(list, entry)[Len(list) + 1] = entry
    BY <1>3, <1>4, <1>8
<1>10. \A i \in DOMAIN list : i < position
    BY <1>4, <1>5, <1>8
<1> HIDE DEF list
<1>11. CASE records[current].stp = Cancellation
    BY <1>1, <1>2, <1>3, <1>4, <1>6, <1>7, <1>10, <1>11 DEF list
<1>12. CASE records[current].stp # Cancellation
    <2>1. /\ schedulesByTuid' \in [Tuids -> Seq(Schedule)]
          /\ schedulesByTuid'[Tuid] = Append(list, entry)
          /\ \A t \in Tuids : t # Tuid => schedulesByTuid'[t] = schedulesByTuid[t]
        BY <1>3, <1>4, <1>6, <1>9, <1>12
    <2>2. entry.record = current
        BY DEF entry
    <2>3. ASSUME NEW t \in Tuids, NEW i \in DOMAIN schedulesByTuid[t]
          PROVE  /\ i \in DOMAIN schedulesByTuid'[t]
                 /\ schedulesByTuid'[t][i] = schedulesByTuid[t][i]
                 /\ t = Tuid => i < position
        BY <1>9, <1>10, <2>1 DEF list
    <2>4. ASSUME NEW t \in Tuids, NEW i \in DOMAIN schedulesByTuid'[t]
          PROVE  i \in DOMAIN schedulesByTuid[t] \/ (t = Tuid /\ schedulesByTuid'[t][i] = entry)
        BY <1>9, <2>1 DEF list
    <2>5. \E i \in DOMAIN schedulesByTuid'[Tuid] : schedulesByTuid'[Tuid][i].record = current
        BY <1>9, <2>1, <2>2
    <2> QED BY <1>1, <1>2, <1>3, <1>7, <1>12, <2>1, <2>3, <2>4, <2>5 DEF entry
<1> QED BY <1>11, <1>12

LEMMA AddScheduleType ==
    ASSUME TypeOK, AddSchedule
    PROVE  TypeOK'
<1>1. ASSUME NEW t \in Tuids, NEW i \in DOMAIN schedulesByTuid'[t]
      PROVE  /\ schedulesByTuid'[t][i].record \in 1..current
             /\ records[schedulesByTuid'[t][i].record].tuid = t
             /\ records[schedulesByTuid'[t][i].record].stp # Cancellation
    <2>1. CASE i \in DOMAIN schedulesByTuid[t]
        <3>1. schedulesByTuid'[t][i] = schedulesByTuid[t][i]
            BY <2>1, AddScheduleSteps
        <3>2. /\ schedulesByTuid[t][i].record \in 1..(current - 1)
              /\ records[schedulesByTuid[t][i].record].tuid = t
              /\ records[schedulesByTuid[t][i].record].stp # Cancellation
            BY <2>1 DEF TypeOK
        <3>3. current \in Nat
            BY AddScheduleSteps
        <3> QED BY <3>1, <3>2, <3>3
    <2>2. CASE i \notin DOMAIN schedulesByTuid[t]
        <3>1. /\ t = Tuid /\ records[current].stp # Cancellation
              /\ schedulesByTuid'[t][i] =
                    [record |-> current, calendar |-> records[current].calendar]
            BY <2>2, AddScheduleSteps
        <3> QED BY <3>1, AddScheduleSteps DEF Tuid
    <2> QED BY <2>1, <2>2
<1>2. current' \in 1..(Len(records) + 1) /\ current' - 1 = current
    BY AddScheduleSteps
<1> QED BY <1>1, <1>2, AddScheduleSteps DEF TypeOK

LEMMA AddScheduleKeeps ==
    ASSUME TypeOK, Keeps, Present, AddSchedule
    PROVE  Keeps' /\ Present'
<1>1. UNCHANGED records /\ current' = current + 1
    BY AddScheduleSteps
<1>2. \A r, date : Over(r, date)' = Over(r, date)
    BY <1>1 DEF Over
<1>3. Keeps'
    <2> SUFFICES ASSUME NEW t \in Tuids, NEW i \in DOMAIN schedulesByTuid'[t],
                        NEW date \in Runs(records[schedulesByTuid'[t][i].record].calendar),
                        Over(schedulesByTuid'[t][i].record, date) = {}
                 PROVE  date \in Runs(schedulesByTuid'[t][i].calendar)
        BY <1>1, <1>2 DEF Keeps
    <2>1. CASE i \in DOMAIN schedulesByTuid[t]
        <3>1. schedulesByTuid'[t][i] = schedulesByTuid[t][i]
            BY <2>1, AddScheduleSteps
        <3> QED BY <2>1, <3>1 DEF Keeps
    <2>2. CASE i \notin DOMAIN schedulesByTuid[t]
        <3>1. schedulesByTuid'[t][i] = [record |-> current, calendar |-> records[current].calendar]
            BY <2>2, AddScheduleSteps
        <3> QED BY <3>1
    <2> QED BY <2>1, <2>2
<1>4. Present'
    <2> SUFFICES ASSUME NEW r \in 1..(current' - 1), NEW date \in Runs(records[r].calendar),
                        records[r].stp # Cancellation, Over(r, date) = {}
                 PROVE  \E i \in DOMAIN schedulesByTuid'[records[r].tuid] :
                            schedulesByTuid'[records[r].tuid][i].record = r
        BY <1>1, <1>2 DEF Present
    <2>1. CASE r = current
        BY <2>1, AddScheduleSteps DEF Tuid
    <2>2. CASE r # current
        <3>1. r \in 1..(current - 1) /\ r \in 1..Len(records)
            BY <2>2, AddScheduleSteps
        <3>2. records[r] \in Record
            BY <3>1, AddScheduleSteps
        <3>3. records[r].tuid \in Tuids
            BY <3>2 DEF Record
        <3>4. PICK i \in DOMAIN schedulesByTuid[records[r].tuid] :
                    schedulesByTuid[records[r].tuid][i].record = r
            BY <3>1 DEF Present
        <3> QED BY <3>3, <3>4, AddScheduleSteps
    <2> QED BY <2>1, <2>2
<1> QED BY <1>3, <1>4

LEMMA AddScheduleClear ==
    ASSUME TypeOK, Clear, AddSchedule
    PROVE  Clear'
<1>1. /\ UNCHANGED records /\ current' = current + 1 /\ position' = 1
      /\ records \in Seq(Record) /\ current \in Nat
    BY AddScheduleSteps
<1>2. \A r, date : Over(r, date)' = Over(r, date)
    BY <1>1 DEF Over
<1> SUFFICES ASSUME KeepsADay, NEW t \in Tuids, NEW i \in DOMAIN schedulesByTuid'[t],
                    NEW date \in Runs(schedulesByTuid'[t][i].calendar),
                    NEW o \in Over(schedulesByTuid'[t][i].record, date)
             PROVE  o >= current + 1 /\ (o = current + 1 => i >= 1)
    BY <1>1, <1>2 DEF Clear, KeepsADay
<1>3. o \in Nat
    BY <1>1 DEF Over
<1>4. i \in Nat /\ i >= 1
    BY AddScheduleSteps
<1>5. CASE i \in DOMAIN schedulesByTuid[t]
    <2>1. schedulesByTuid'[t][i] = schedulesByTuid[t][i] /\ (t = Tuid => i < position)
        BY <1>5, AddScheduleSteps
    <2>2. o >= current /\ (o = current => i >= position)
        BY <1>5, <2>1 DEF Clear
    <2>3. records[o].tuid = t
        BY <1>5, <2>1 DEF Over, TypeOK
    <2>4. position \in Nat
        BY DEF TypeOK
    <2>5. o # current
        BY <1>4, <2>1, <2>2, <2>3, <2>4 DEF Tuid
    <2> QED BY <1>1, <1>3, <1>4, <2>2, <2>5
<1>6. CASE i \notin DOMAIN schedulesByTuid[t]
    <2>1. schedulesByTuid'[t][i].record = current
        BY <1>6, AddScheduleSteps
    <2>2. o > current
        BY <2>1 DEF Over
    <2> QED BY <1>1, <1>3, <1>4, <2>2
<1> QED BY <1>5, <1>6

-----------------------------------------------------------------------------

\* The facts above hold in every state of the overlaying.
THEOREM Invariance == Spec => []IInv
<1>1. IInv /\ [Next]_vars => IInv'
    <2> SUFFICES ASSUME IInv, [Next]_vars PROVE IInv'
        OBVIOUS
    <2>1. CASE ApplyOverlay
        BY <2>1, ApplyOverlayType, ApplyOverlayKeeps, ApplyOverlayClear DEF IInv
    <2>2. CASE AddSchedule
        BY <2>2, AddScheduleType, AddScheduleKeeps, AddScheduleClear DEF IInv
    <2>3. CASE UNCHANGED vars
        <3>1. UNCHANGED <<records, current, position, schedulesByTuid>>
            BY <2>3 DEF vars
        <3>2. \A r, date : Over(r, date)' = Over(r, date)
            BY <3>1 DEF Over
        <3>3. TypeOK'
            BY <3>1 DEF IInv, TypeOK
        <3>4. Keeps' /\ Present'
            BY <3>1, <3>2 DEF IInv, Keeps, Present
        <3>5. Clear'
            BY <3>1, <3>2 DEF IInv, Clear, KeepsADay
        <3> QED BY <3>3, <3>4, <3>5 DEF IInv
    <2> QED BY <2>1, <2>2, <2>3 DEF Next
<1> QED BY InitEstablishes, <1>1, PTL DEF Spec

\* Every entry of the index is of a record before the current one, of its own
\* train, and none is a cancellation.
THEOREM TypeCorrect == Spec => []TypeOK
BY Invariance, PTL DEF IInv

\* No day is lost: what applyOverlays returns holds, for every date a record has
\* the last word on, an entry of that record that runs on it.
THEOREM LatestRunsCorrect == Spec => []LatestRuns
<1>1. IInv => LatestRuns
    <2> SUFFICES ASSUME IInv, Done, NEW r \in DOMAIN records,
                        NEW date \in Runs(records[r].calendar),
                        records[r].stp # Cancellation, Over(r, date) = {}
                 PROVE  \E i \in DOMAIN schedulesByTuid[records[r].tuid] :
                            /\ schedulesByTuid[records[r].tuid][i].record = r
                            /\ RunsOn(schedulesByTuid[records[r].tuid][i].calendar, date)
        BY DEF LatestRuns
    <2>1. r \in 1..(current - 1) /\ records[r] \in Record
        BY DEF IInv, TypeOK, Done
    <2>2. records[r].tuid \in Tuids
        BY <2>1 DEF Record
    <2>3. PICK i \in DOMAIN schedulesByTuid[records[r].tuid] :
                schedulesByTuid[records[r].tuid][i].record = r
        BY <2>1 DEF IInv, Present
    <2>4. date \in Runs(schedulesByTuid[records[r].tuid][i].calendar)
        BY <2>2, <2>3 DEF IInv, Keeps
    <2> QED BY <2>3, <2>4 DEF Runs
<1> QED BY Invariance, <1>1, PTL

\* Where every record keeps a day of its own, no date is kept by a record that a
\* later one speaks of: no train runs twice and no cancelled train runs.
THEOREM LatestAloneCorrect == Spec => []LatestAloneWhereKept
<1>1. IInv => LatestAloneWhereKept
    <2> SUFFICES ASSUME IInv, KeepsADay, Done, NEW t \in Tuids,
                        NEW i \in DOMAIN schedulesByTuid[t],
                        NEW date \in Runs(schedulesByTuid[t][i].calendar),
                        NEW o \in Over(schedulesByTuid[t][i].record, date)
                 PROVE  FALSE
        BY DEF LatestAloneWhereKept, LatestAlone
    <2>1. o \in 1..Len(records)
        BY DEF IInv, TypeOK, Over
    <2>2. o >= current
        BY DEF IInv, Clear
    <2> QED BY <2>1, <2>2 DEF IInv, TypeOK, Done
<1> QED BY Invariance, <1>1, PTL
=============================================================================
