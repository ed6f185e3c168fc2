----------------------------- MODULE ImportLog -----------------------------
(***************************************************************************)
(* What the log table promises its readers: the archives of the timetable  *)
(* feed are recorded in an order that loses nothing.  A full refresh may   *)
(* be recorded at any time; a changes archive only directly after the      *)
(* archive it changes.  Recording an archive means that its rows are in    *)
(* the database, so an archive stepped over is a set of changes that       *)
(* nothing will come back for.                                             *)
(*                                                                         *)
(* The database also keeps the log of the feeds that are not the           *)
(* timetable; their rows are Other.                                        *)
(***************************************************************************)
EXTENDS Integers, Sequences

CONSTANTS Refresh,  \* Refresh[n]: archive n is a full refresh
          Other     \* a log row of another feed

VARIABLE log

Archive == DOMAIN Refresh

\* The last row of the log that names an archive of this feed, or 0.
LastArchive(rows) ==
    LET own == {i \in DOMAIN rows : rows[i] # Other}
    IN  IF own = {} THEN 0
        ELSE rows[CHOOSE i \in own : \A j \in own : j <= i]

MayFollow(n, rows) == Refresh[n] \/ n = LastArchive(rows) + 1

Init == log = << >>

Record == \E n \in Archive : MayFollow(n, log) /\ log' = Append(log, n)

RecordOther == log' = Append(log, Other)

Next == Record \/ RecordOther

Spec == Init /\ [][Next]_log
=============================================================================
