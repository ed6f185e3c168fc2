----------------------------- MODULE MCFeedMerge -----------------------------
(***************************************************************************)
(* Two feeds, in either order: every pair of ways to tell the days of two  *)
(* services, over a week of two days, and every pair of ways to tell the   *)
(* same four stops, with walks, couplings and groups among them.  One list *)
(* of three feeds.                                                         *)
(***************************************************************************)
EXTENDS FeedMerge

MCStops == {"station", "platform", "stop", "halt"}
MCLoc == [s \in MCStops |-> CASE s \in {"station", "platform"} -> 11 [] s = "stop" -> 13 [] OTHER -> 20]

Row(days, start, end) == {[days |-> days, start |-> start, end |-> end]}
Added(dates) == {[date |-> d, type |-> 1] : d \in dates}
Removed(dates) == {[date |-> d, type |-> 2] : d \in dates}
Service(id, rows, exceptions) == [id |-> id, rows |-> rows, exceptions |-> exceptions]

\* Service s1: told by a row; service s2 mostly by its dates.
First == {Service("s1", Row({0}, 2, 5), {}), Service("s1", Row({0}, 2, 4), {}),
          Service("s1", Row({0, 1}, 1, 4), Removed({1, 3})), Service("s1", Row({0}, 2, 5), Removed({4}))}
Second == {Service("s2", {}, Added({3, 4, 5})), Service("s2", Row({}, 1, 5), Added({2, 4})),
           Service("s2", Row({1}, 3, 3), Removed({3})), Service("s2", Row({0, 1}, 1, 1), Added({3})),
           Service("s2", {}, Added({2}) \cup Removed({4})), Service("s2", Row({0}, 2, 4), Added({3}))}

Trip(id, service, route, block) == [id |-> id, service |-> service, route |-> route, block |-> block]
TimedCall(trip, stop, times) == [trip |-> trip, stop |-> stop, times |-> times]
Call(trip, stop) == TimedCall(trip, stop, {"arrival", "departure"})
StopRow(id, parent, code) == [id |-> id, parent |-> parent, code |-> code]
Transfer(begin, end, time, inSeat, named) ==
    [begin |-> begin, end |-> end, time |-> time, inSeat |-> inSeat, trips |-> named]

Rail ==
    [routes |-> <<[id |-> "r1", type |-> 2], [id |-> "r2", type |-> 3]>>,
     services |-> <<Service("s1", Row({0}, 2, 5), {}), Service("s2", {}, Added({3, 4, 5}))>>,
     trips |-> <<Trip("t1", "s1", "r2", "k1"), Trip("t2", "s2", "r2", "k1"), Trip("t3", "s1", "r1", None)>>,
     calls |-> <<Call("t1", "platform"), Call("t2", "platform"), Call("t2", "stop")>>,
     stops |-> <<StopRow("stop", None, "c1"), StopRow("station", None, "c2"),
                 StopRow("platform", "station", "c2"), StopRow("halt", None, "c1")>>,
     transfers |-> <<Transfer("platform", "platform", 0, TRUE, <<"t1", "t2">>)>>,
     areas |-> {"a1"},
     members |-> {[area |-> "a1", stop |-> "platform"], [area |-> "a1", stop |-> "halt"]}]

ToldSo == {[Rail EXCEPT !.services = <<s1, s2>>] : s1 \in First, s2 \in Second}

Calls == {<<Call("t1", "platform"), Call("t2", "stop"), Call("t3", "halt")>>,
          <<Call("t3", "platform"), Call("t1", "stop"), Call("t2", "halt")>>,
          <<Call("t1", "halt"), TimedCall("t1", "platform", {"departure"}), Call("t2", "stop")>>,
          <<Call("t1", "station"), TimedCall("t2", "stop", {}), Call("t2", "platform")>>}

Rows == {<<StopRow("stop", None, "c1"), StopRow("station", None, "c2"),
           StopRow("platform", "station", "c2"), StopRow("halt", None, "c1")>>,
         <<StopRow("halt", None, None), StopRow("platform", None, "c2"),
           StopRow("stop", None, "c2"), StopRow("station", None, None)>>}

Given == {<<Transfer("stop", "station", 2, FALSE, << >>), Transfer("stop", "station", 1, FALSE, << >>)>>,
          <<Transfer("platform", "stop", 1, FALSE, << >>), Transfer("stop", "stop", 0, TRUE, <<"t1", "t3">>)>>,
          <<Transfer("stop", "stop", 0, TRUE, <<"t2", "t1">>), Transfer("stop", "stop", 0, TRUE, <<"t1", "t2">>)>>}

PlacedSo == {[Rail EXCEPT !.calls = c, !.stops = r, !.transfers = g] : c \in Calls, r \in Rows, g \in Given}

MCInputs ==
    {<<f, g>> : f, g \in ToldSo} \cup {<<f, g>> : f, g \in PlacedSo} \cup {<<Rail, Rail, Rail>>}
=============================================================================
