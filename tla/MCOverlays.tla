----------------------------- MODULE MCOverlays -----------------------------
(***************************************************************************)
(* Timetables of three or four records of two trains, over eight dates.    *)
(***************************************************************************)
EXTENDS Overlays, FiniteSets

Dated(from, to, days) ==
    [runsFrom |-> from, runsTo |-> to, days |-> days, excludeDays |-> {}]

\* Ranges that meet in a day, hold each other or do not meet, on all days and on
\* some.
MCCalendars ==
    {Dated(1, 4, Week), Dated(4, 8, Week), Dated(1, 8, {1, 3, 4}), Dated(2, 2, Week),
     Dated(3, 6, {2, 4, 5}), Dated(1, 8, Week)}

\* The order of the source's sort: stp_indicator, descending.
Rank == [P |-> 1, O |-> 2, N |-> 3, C |-> 4]

MCRecords == [tuid : Tuids, stp : {"P", "O", "C"}, calendar : MCCalendars]

Sorted(r, s) == Rank[r.stp] <= Rank[s.stp]

\* Three records of either train, and a full stack of one: a permanent schedule,
\* two overlays and a cancellation.
MCTimetables ==
    {<<r, s, t>> \in MCRecords \X MCRecords \X MCRecords :
        r.tuid = "t1" /\ Sorted(r, s) /\ Sorted(s, t)} \cup
    {<<[tuid |-> "t1", stp |-> "P", calendar |-> c], [tuid |-> "t1", stp |-> "O", calendar |-> d],
       [tuid |-> "t1", stp |-> "O", calendar |-> e], [tuid |-> "t1", stp |-> "C", calendar |-> f]>> :
        c, d, e, f \in MCCalendars}
=============================================================================
