----------------------------- MODULE MCCouplings -----------------------------
(***************************************************************************)
(* Three trains over three dates.  A may have two schedules; B joins A, C  *)
(* joins B, and B may leave A for C, so that a portion is cut twice, is    *)
(* wanted by two bases or is a base itself; each of them by night or day.  *)
(* The last date is a Sunday on which the clocks go back.                  *)
(***************************************************************************)
EXTENDS Couplings

MCTrains == {"A", "B", "C"}
MCLocations == {"here"}
MCChangeovers == {7}

Daily(from, to) == [runsFrom |-> from, runsTo |-> to, days |-> Week, excludeDays |-> {}]
Calendars == {Daily(6, 7), [Daily(5, 7) EXCEPT !.excludeDays = {6}], Daily(7, 7)}

\* The ids a source gives its records.
Sched(id, tuid, cal, night, windrush, calls) ==
    [id |-> id, tuid |-> tuid, calendar |-> cal, night |-> night, windrush |-> windrush,
     calls |-> calls, told |-> 0, copy |-> FALSE]

Here == {"here"}
Alone == {<<Sched(1, "A", cal, night, FALSE, Here)>> : cal \in {Daily(5, 7), Daily(6, 7)}, night \in BOOLEAN}
         \cup {<<Sched(1, "A", Daily(5, 6), FALSE, FALSE, Here)>>}
Two == {<<Sched(1, "A", Daily(5, d), night, FALSE, Here), Sched(2, "A", Daily(d + 1, 7), FALSE, FALSE, Here)>> :
           d \in {5, 6}, night \in BOOLEAN}
Portions == {<<Sched(3, "B", cal, night[1], night[2], Here)>> :
                cal \in Calendars, night \in {<<TRUE, TRUE>>, <<TRUE, FALSE>>, <<FALSE, FALSE>>}}
Others == {<<Sched(4, "C", Daily(5, 7), c[1], FALSE, c[2])>> :
              c \in {<<TRUE, Here>>, <<FALSE, Here>>, <<FALSE, {}>>}}

MCTimetables ==
    {[t \in MCTrains |-> CASE t = "A" -> a [] t = "B" -> b [] OTHER -> c] :
        a \in Alone \cup Two, b \in Portions, c \in Others}

Assoc(base, assoc, indicator, type, cal) ==
    [baseTUID |-> base, assocTUID |-> assoc, location |-> "here",
     dateIndicator |-> indicator, type |-> type, calendar |-> cal]

First == {Assoc("A", "B", "S", Join, Daily(5, 6)), Assoc("A", "B", "S", Split, Daily(4, 8)),
          Assoc("A", "B", "N", Split, Daily(4, 8)), Assoc("A", "B", "P", Join, Daily(6, 8))}
More == {Assoc("A", "B", "N", Join, Daily(5, 5)), Assoc("A", "B", "P", Split, Daily(4, 8)),
         Assoc("A", "B", "S", "", Daily(5, 6))}
Second == {Assoc("B", "C", "N", Split, Daily(4, 8)), Assoc("B", "C", "S", Join, Daily(6, 6)),
           Assoc("C", "B", "N", Join, Daily(4, 8)), Assoc("C", "B", "P", Split, Daily(6, 8))}

MCAssociations ==
    {<<a>> : a \in First \cup More} \cup (First \X Second) \cup (Second \X First)
=============================================================================
