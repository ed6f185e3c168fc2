------------------------------ MODULE Couplings ------------------------------
(***************************************************************************)
(* Trains that join and divide (libs/gtfs: applyAssociations, Association, *)
(* mergeSchedules, resolveLinks, shiftLateNightServices, linkedTrips).     *)
(* Each association cuts the schedules of the associated train into the    *)
(* days they are coupled and the days they are not, and leaves a link that *)
(* names the two schedules by id.  The trips are numbered and the links    *)
(* told in those numbers once every association has been applied; then     *)
(* what departs before two is moved to the day before.                     *)
(*                                                                         *)
(* A schedule is its calendar, whether it leaves in the night, where it    *)
(* calls, and `told`: 1 where its times are past 24:00, so that it runs a  *)
(* day after the one its calendar says.                                    *)
(***************************************************************************)
EXTENDS ScheduleCalendar, Sequences, SequencesExt, FiniteSets

CONSTANTS
    Trains,         \* TUIDs
    Locations,
    Timetables,     \* [Trains -> sequences of schedules], as the overlays leave them
    Associations,   \* sequences of associations, as the overlays leave them
    Changeovers,    \* the Sundays the clocks go back
    FirstId         \* the first id for a new schedule

Join == "JJ"
Split == "VV"
Offset == [S |-> 0, N |-> 1, P |-> -1]

Schedule ==
    [id : Nat, tuid : Trains, calendar : Calendar, night : BOOLEAN, windrush : BOOLEAN,
     calls : SUBSET Locations, told : 0..1, copy : BOOLEAN]

Association ==
    [baseTUID : Trains, assocTUID : Trains, location : Locations,
     dateIndicator : DOMAIN Offset, type : STRING, calendar : Calendar]

\* The records are numbered by the source, each once and all below the first id of
\* the generator that goes with them; nothing has been told a day early or copied.
ASSUME TimetablesAssumption ==
    \A tt \in Timetables :
        /\ tt \in [Trains -> Seq(Schedule)]
        /\ \A t \in Trains : \A i \in DOMAIN tt[t] :
              /\ tt[t][i].tuid = t /\ tt[t][i].told = 0 /\ ~tt[t][i].copy /\ tt[t][i].id < FirstId
              /\ \A u \in Trains : \A j \in DOMAIN tt[u] :
                    tt[t][i].id = tt[u][j].id => t = u /\ i = j

ASSUME AssociationsAssumption == Associations \subseteq Seq(Association)

ASSUME NumbersAssumption == Changeovers \subseteq Int /\ FirstId \in Nat

VARIABLES
    schedules,      \* of each train
    associations,   \* still to apply, the first being applied
    matches,        \* schedules the first association still has to be tried on, as they stand
    applying,       \* the schedules it is to be tried on have been found
    associated,     \* the coupled schedules, put back at the end
    links,          \* couplings; `of` is the association, for the properties
    nextId,
    trips,          \* the schedules with their trip ids
    stage,
    duplicateOvernight,
    timetable, given  \* what there was to begin with

vars == <<schedules, associations, matches, applying, associated, links, nextId,
          trips, stage, duplicateOvernight, timetable, given>>

input == <<duplicateOvernight, timetable, given>>

-----------------------------------------------------------------------------
(* Schedule, Association *)

\* Whether the night service is the one that runs in the hour the clocks repeat:
\* `windrush` is a new record of that line at one o'clock.
RunsInTheRepeatedHour(s) ==
    /\ s.windrush
    /\ s.calendar.runsFrom = s.calendar.runsTo
    /\ s.calendar.runsFrom \in Changeovers

IsLateNight(s) == s.night /\ s.told = 0 /\ ~RunsInTheRepeatedHour(s)

DayShift(s) == IF IsLateNight(s) THEN 1 ELSE 0

CopyToPreviousServiceDay(s, id) ==
    [s EXCEPT !.calendar = ShiftBackward(@), !.told = @ + 1, !.id = id]

InBaseDays(a, cal) ==
    CASE a.dateIndicator = "N" -> ShiftBackward(cal)
      [] a.dateIndicator = "P" -> ShiftForward(cal)
      [] OTHER -> cal

InAssocDays(a, cal) ==
    CASE a.dateIndicator = "N" -> ShiftForward(cal)
      [] a.dateIndicator = "P" -> ShiftBackward(cal)
      [] OTHER -> cal

\* The days both run and the association is in force, in the base's days.
CoupledDays(a, base, assoc) ==
    Intersect(Intersect(base.calendar, InBaseDays(a, assoc.calendar)), a.calendar)

CanApply(a, base, assoc) ==
    /\ a.location \in base.calls \cap assoc.calls
    /\ a.type \in {Join, Split}
    /\ ~IsEmpty(CoupledDays(a, base, assoc))

\* How far apart the service days of the two come to be.
DayGap(a, base, asDated) == Offset[a.dateIndicator] - DayShift(asDated) + DayShift(base)

\* Mutant: the date indicator alone decides.
NeedsCopyIndicated(a, base, asDated) ==
    duplicateOvernight /\ Offset[a.dateIndicator] = 1 /\ ~IsLateNight(asDated)

\* A copy closes a gap of exactly one day.
NeedsCopy(a, base, asDated) ==
    duplicateOvernight /\ DayGap(a, base, asDated) = 1 /\ ~IsLateNight(asDated)

\* Mutant: the days that are left keep the id of the schedule that was cut.
RemainderKept(a, base, assoc, id) ==
    LET left == AddExcludeDays(assoc.calendar, InAssocDays(a, CoupledDays(a, base, assoc)))
    IN IF IsEmpty(left) THEN << >> ELSE <<[assoc EXCEPT !.calendar = left]>>

\* Mutant: the days are taken out in the base's terms.
RemainderBase(a, base, assoc, id) ==
    LET left == AddExcludeDays(assoc.calendar, CoupledDays(a, base, assoc))
    IN IF IsEmpty(left) THEN << >> ELSE <<[assoc EXCEPT !.calendar = left, !.id = id]>>

\* The days the train runs uncoupled, where there are any.
Remainder(a, base, assoc, id) ==
    LET left == AddExcludeDays(assoc.calendar, InAssocDays(a, CoupledDays(a, base, assoc)))
    IN IF IsEmpty(left) THEN << >> ELSE <<[assoc EXCEPT !.calendar = left, !.id = id]>>

\* The schedule of the days it is coupled, on its own dates.
AsDated(a, base, assoc, id) ==
    [assoc EXCEPT !.calendar = InAssocDays(a, CoupledDays(a, base, assoc)), !.id = id]

\* And, where there is a gap to close, the same told on the base's day.
Copies(a, base, asDated, id) ==
    IF NeedsCopy(a, base, asDated)
      THEN <<[CopyToPreviousServiceDay(asDated, id) EXCEPT !.copy = TRUE]>>
      ELSE << >>

LinkOf(a, base, portion) ==
    [from |-> IF a.type = Join THEN portion.id ELSE base.id,
     to |-> IF a.type = Join THEN base.id ELSE portion.id,
     location |-> a.location,
     of |-> a]

-----------------------------------------------------------------------------
(* applyAssociations *)

FindSchedules(list, cal) == {s \in ToSet(list) : GetOverlap(cal, s.calendar)}

\* Where the first of those found stands in the list; nowhere, where none was found.
FirstOf(list, found) ==
    {i \in DOMAIN list : list[i] \in found /\ \A j \in 1..i - 1 : list[j] \notin found}

\* The list with what replaces one schedule in its place.
Spliced(list, at, with) == SubSeq(list, 1, at - 1) \o with \o SubSeq(list, at + 1, Len(list))

\* Mutant: the base is looked for on the days of the associated train.
BasesOfAssocDays(a, assoc) == FindSchedules(schedules[a.baseTUID], assoc.calendar)

BasesOf(a, assoc) == FindSchedules(schedules[a.baseTUID], InBaseDays(a, assoc.calendar))

\* The schedules are those of this moment: what replaces one is not among them.
FindMatches ==
    /\ stage = "associating" /\ ~applying /\ associations # << >>
    /\ LET a == Head(associations)
       IN matches' = FindSchedules(schedules[a.assocTUID], InAssocDays(a, a.calendar))
    /\ applying' = TRUE
    /\ UNCHANGED <<schedules, associations, associated, links, nextId, trips, stage, input>>

EndAssociation ==
    /\ applying /\ matches = {}
    /\ associations' = Tail(associations)
    /\ applying' = FALSE
    /\ UNCHANGED <<schedules, matches, associated, links, nextId, trips, stage, input>>

\* Only the first of the bases is tried.
NoCoupling ==
    /\ applying
    /\ LET a == Head(associations)
           list == schedules[a.assocTUID]
           bases == schedules[a.baseTUID]
       IN \E at \in FirstOf(list, matches) :
            /\ \A from \in FirstOf(bases, BasesOf(a, list[at])) : ~CanApply(a, bases[from], list[at])
            /\ matches' = matches \ {list[at]}
    /\ UNCHANGED <<schedules, associations, applying, associated, links, nextId, trips, stage, input>>

Couple ==
    /\ applying
    /\ LET a == Head(associations)
           list == schedules[a.assocTUID]
           bases == schedules[a.baseTUID]
       IN \E at \in FirstOf(list, matches) : \E from \in FirstOf(bases, BasesOf(a, list[at])) :
            LET base == bases[from]
                assoc == list[at]
                asDated == AsDated(a, base, assoc, nextId)
                copies == Copies(a, base, asDated, nextId + 1)
                remainder == Remainder(a, base, assoc, nextId + 1 + Len(copies))
            IN /\ CanApply(a, base, assoc)
               /\ links' = links \cup {LinkOf(a, base, IF copies = << >> THEN asDated ELSE copies[1])}
               /\ associated' = associated \o <<asDated>> \o copies
               /\ schedules' = [schedules EXCEPT ![assoc.tuid] = Spliced(list, at, remainder)]
               /\ nextId' = nextId + 1 + Len(copies) + Len(remainder)
               /\ matches' = matches \ {assoc}
    /\ UNCHANGED <<associations, applying, trips, stage, input>>

\* The coupled schedules go back only once every association has been applied.
PutBack ==
    /\ stage = "associating" /\ ~applying /\ associations = << >> /\ associated # << >>
    /\ schedules' = [schedules EXCEPT ![Head(associated).tuid] = Append(@, Head(associated))]
    /\ associated' = Tail(associated)
    /\ UNCHANGED <<associations, matches, applying, links, nextId, trips, stage, input>>

-----------------------------------------------------------------------------
(* mergeSchedules, resolveLinks, shiftLateNightServices *)

SameTripId(s, t) ==
    /\ s.calendar.runsFrom = t.calendar.runsFrom
    /\ s.calendar.runsTo = t.calendar.runsTo

\* The suffix tells apart what would have one id; within a train the code goes by
\* content, which nothing here tells from the order of the list.
TripIdAt(list, i) ==
    <<list[i].tuid, list[i].calendar.runsFrom, list[i].calendar.runsTo,
      Cardinality({j \in 1..i : SameTripId(list[i], list[j])})>>

Numbered(list) == {[trip_id |-> TripIdAt(list, i), schedule |-> list[i]] : i \in DOMAIN list}

MergeSchedules ==
    /\ stage = "associating" /\ ~applying /\ associations = << >> /\ associated = << >>
    /\ trips' = UNION {Numbered(schedules[t]) : t \in Trains}
    /\ stage' = "resolving"
    /\ UNCHANGED <<schedules, associations, matches, applying, associated, links, nextId, input>>

TripsOf(id) == {trip \in trips : trip.schedule.id = id}
TripId(id) == (CHOOSE trip \in TripsOf(id) : TRUE).trip_id

\* A link to a schedule that a later association replaced is dropped.
ResolveLinks ==
    /\ stage = "resolving"
    /\ links' = {[link EXCEPT !.from = TripId(@), !.to = TripId(@)] :
                    link \in {l \in links : /\ Cardinality(TripsOf(l.from)) = 1
                                            /\ Cardinality(TripsOf(l.to)) = 1}}
    /\ stage' = "shifting"
    /\ UNCHANGED <<schedules, associations, matches, applying, associated, nextId, trips, input>>

Shifted(s) == IF IsLateNight(s) THEN CopyToPreviousServiceDay(s, s.id) ELSE s

ShiftLateNightServices ==
    /\ stage = "shifting"
    /\ trips' = {[trip EXCEPT !.schedule = Shifted(@)] : trip \in trips}
    /\ stage' = "published"
    /\ UNCHANGED <<schedules, associations, matches, applying, associated, links, nextId, input>>

-----------------------------------------------------------------------------

Init ==
    /\ timetable \in Timetables
    /\ given \in Associations
    /\ duplicateOvernight \in BOOLEAN
    /\ schedules = timetable
    /\ associations = given
    /\ matches = {}
    /\ applying = FALSE
    /\ associated = << >>
    /\ links = {}
    /\ nextId = FirstId
    /\ trips = {}
    /\ stage = "associating"

Next ==
    \/ FindMatches \/ EndAssociation \/ NoCoupling \/ Couple \/ PutBack
    \/ MergeSchedules \/ ResolveLinks \/ ShiftLateNightServices

Spec == Init /\ [][Next]_vars

-----------------------------------------------------------------------------

Trip == [trip_id : Trains \X Int \X Int \X Nat, schedule : Schedule]

\* Every schedule is of its kind and stands with its train, every link is of an
\* association there was, and no schedule is told two days late.
TypeOK ==
    /\ schedules \in [Trains -> Seq(Schedule)]
    /\ \A t \in Trains : \A s \in ToSet(schedules[t]) : s.tuid = t
    /\ associations \in Seq(Association)
    /\ matches \subseteq Schedule
    /\ applying \in BOOLEAN
    /\ associated \in Seq(Schedule)
    /\ \A link \in links : link.of \in Association /\ link.of.type \in {Join, Split}
    /\ nextId \in Nat
    /\ trips \subseteq Trip
    /\ stage \in {"associating", "resolving", "shifting", "published"}
    /\ duplicateOvernight \in BOOLEAN

\* Every schedule there is, wherever it stands.
All == IF stage = "associating"
         THEN ToSet(associated) \cup UNION {ToSet(schedules[t]) : t \in Trains}
         ELSE {trip.schedule : trip \in trips}

\* The dates a train leaves, whichever day its times are told on.
Departs(s) == {date + s.told : date \in Runs(s.calendar)}

OnceADay(set) == \A s, u \in set : s # u => Departs(s) \cap Departs(u) = {}

\* Every day of the timetable is run by a schedule of the train, coupled or not, and
\* no other day; and by one alone where it was so to begin with: through every cut,
\* split and shift.  Copies are over and above.
RunsAsTimetabled ==
    \A t \in Trains :
        LET own == {s \in All : s.tuid = t /\ ~s.copy}
        IN /\ UNION {Departs(s) : s \in own} = UNION {Departs(s) : s \in ToSet(timetable[t])}
           /\ OnceADay(ToSet(timetable[t])) => OnceADay(own)

\* The two ends of a link, the trips they name, and the association it came from.
BaseEnd(link) == IF link.of.type = Join THEN link.to ELSE link.from
PortionEnd(link) == IF link.of.type = Join THEN link.from ELSE link.to
TripOf(id) == (CHOOSE trip \in trips : trip.trip_id = id).schedule

\* The two are of the trains of the association and call at its place, and whenever
\* the portion leaves, the base leaves too and the association is in force.
Coupled(link, base, portion) ==
    /\ base.tuid = link.of.baseTUID /\ portion.tuid = link.of.assocTUID
    /\ link.location \in base.calls \cap portion.calls
    /\ \A date \in Departs(portion) :
          /\ date - Offset[link.of.dateIndicator] \in Departs(base)
          /\ RunsOn(link.of.calendar, date - Offset[link.of.dateIndicator])

\* A published link names two trips that are coupled as its association says: also
\* where the schedule that was coupled has been cut by another association.
LinksMeanWhatTheySay ==
    stage = "published" =>
        \A link \in links : Coupled(link, TripOf(BaseEnd(link)), TripOf(PortionEnd(link)))

\* A copy is on its base's service day, which is what it is for, and no link is left
\* a day apart that a copy would have closed.
CopyClosesTheGap ==
    stage = "published" => \A link \in links :
        LET base == TripOf(BaseEnd(link))
            portion == TripOf(PortionEnd(link))
            apart == Offset[link.of.dateIndicator] - portion.told + base.told
        IN /\ portion.copy => apart = 0
           /\ duplicateOvernight /\ apart = 1 => portion.told = 1

\* Where there is nothing to choose, one association and one base, each day both
\* run and it is in force is coupled.
CoupledWhereBothRun ==
    stage = "published" /\ Len(given) = 1 /\ Len(timetable[given[1].baseTUID]) = 1
        /\ given[1].baseTUID # given[1].assocTUID =>
        LET a == given[1]
            base == timetable[a.baseTUID][1]
        IN a.type \in {Join, Split} =>
            \A s \in ToSet(timetable[a.assocTUID]) :
                a.location \in base.calls \cap s.calls =>
                    \A date \in Runs(base.calendar) \cap Runs(a.calendar) :
                        date + Offset[a.dateIndicator] \in Runs(s.calendar) =>
                            \E link \in links :
                                date + Offset[a.dateIndicator] \in Departs(TripOf(PortionEnd(link)))
=============================================================================
