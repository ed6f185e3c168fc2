------------------------------ MODULE Overlays ------------------------------
(***************************************************************************)
(* applyOverlays (libs/gtfs/src/transform/ApplyOverlays.ts): the records   *)
(* of the timetable, in the order permanent, overlay, new, cancellation,   *)
(* are laid over each other, so that on a day several records of one train *)
(* speak of only the last of them counts.  Each record takes the days it   *)
(* runs out of the calendars of the records before it, and joins them      *)
(* unless it is a cancellation.                                            *)
(*                                                                         *)
(* A step is one turn of the inner loop, or the end of it.                 *)
(***************************************************************************)
EXTENDS ScheduleCalendar, Sequences

CONSTANTS
    Tuids,      \* the trains
    Timetables  \* sequences of records, each in the order the source reads them

STP == {"P", "O", "N", "C"}
Cancellation == "C"

Record == [tuid : Tuids, stp : STP, calendar : Calendar]

ASSUME TimetablesAssumption == Timetables \subseteq Seq(Record)

VARIABLES
    records,        \* the timetable being processed
    current,        \* the record being laid over those before it
    position,       \* where the loop over the records of its train is
    schedulesByTuid \* what is left of the records before it: record and calendar

vars == <<records, current, position, schedulesByTuid>>

Schedule == [record : Nat, calendar : Calendar]
Without(list, i) == SubSeq(list, 1, i - 1) \o SubSeq(list, i + 1, Len(list))

Tuid == records[current].tuid
Bases == schedulesByTuid[Tuid]
Done == current > Len(records)

\* The loop looks at the base in its position and goes on to the next position,
\* whether or not it has taken the base out of the list.
ApplyOverlay ==
    /\ ~Done
    /\ position <= Len(Bases)
    /\ position' = position + 1
    /\ LET base == Bases[position]
           overlay == records[current].calendar
           newCalendar == AddExcludeDays(base.calendar, overlay)
       IN  schedulesByTuid' =
              [schedulesByTuid EXCEPT ![Tuid] =
                  IF ~GetOverlap(base.calendar, overlay) THEN @
                  ELSE IF IsEmpty(newCalendar) THEN Without(@, position)
                  ELSE [@ EXCEPT ![position].calendar = newCalendar]]
    /\ UNCHANGED <<records, current>>

\* Mutant: a cancellation is kept as if it were a train.
AddScheduleAlways ==
    /\ ~Done
    /\ position > Len(Bases)
    /\ schedulesByTuid' =
          [schedulesByTuid EXCEPT ![Tuid] =
              Append(@, [record |-> current, calendar |-> records[current].calendar])]
    /\ current' = current + 1
    /\ position' = 1
    /\ UNCHANGED records

\* The record joins the index, unless it is a cancellation.
AddSchedule ==
    /\ ~Done
    /\ position > Len(Bases)
    /\ schedulesByTuid' =
          IF records[current].stp = Cancellation THEN schedulesByTuid
          ELSE [schedulesByTuid EXCEPT ![Tuid] =
                   Append(@, [record |-> current, calendar |-> records[current].calendar])]
    /\ current' = current + 1
    /\ position' = 1
    /\ UNCHANGED records

Init ==
    /\ records \in Timetables
    /\ current = 1
    /\ position = 1
    /\ schedulesByTuid = [t \in Tuids |-> << >>]

Next == ApplyOverlay \/ AddSchedule

Spec == Init /\ [][Next]_vars

-----------------------------------------------------------------------------

\* The index only ever holds schedules of earlier records of the train they are
\* listed under, and never a cancellation (ScheduleIndex).
TypeOK ==
    /\ records \in Seq(Record)
    /\ current \in 1..(Len(records) + 1)
    /\ position \in Nat \ {0}
    /\ schedulesByTuid \in [Tuids -> Seq(Schedule)]
    /\ \A t \in Tuids : \A i \in DOMAIN schedulesByTuid[t] :
          /\ schedulesByTuid[t][i].record \in 1..(current - 1)
          /\ records[schedulesByTuid[t][i].record].tuid = t
          /\ records[schedulesByTuid[t][i].record].stp # Cancellation

\* The records after one that are of the same train and run on a date.
Over(r, date) ==
    {o \in DOMAIN records :
        o > r /\ records[o].tuid = records[r].tuid /\ RunsOn(records[o].calendar, date)}

\* No day is lost: on every date that a record has the last word on, a train of
\* it is in the index, unless it is a cancellation.
LatestRuns ==
    Done => \A r \in DOMAIN records : \A date \in Runs(records[r].calendar) :
        records[r].stp # Cancellation /\ Over(r, date) = {} =>
            \E i \in DOMAIN schedulesByTuid[records[r].tuid] :
                /\ schedulesByTuid[records[r].tuid][i].record = r
                /\ RunsOn(schedulesByTuid[records[r].tuid][i].calendar, date)

\* No record is laid over entirely by those after it.
KeepsADay == \A r \in DOMAIN records : \E date \in Runs(records[r].calendar) : Over(r, date) = {}

\* On every date the record with the last word is the only one in the index: no
\* train runs twice, and a cancelled one does not run.
LatestAlone ==
    Done => \A t \in Tuids : \A i \in DOMAIN schedulesByTuid[t] :
        \A date \in Runs(schedulesByTuid[t][i].calendar) :
            Over(schedulesByTuid[t][i].record, date) = {}

\* It is, where every record keeps a day of its own.
LatestAloneWhereKept == KeepsADay => LatestAlone
=============================================================================
