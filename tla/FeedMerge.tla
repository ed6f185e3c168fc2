------------------------------ MODULE FeedMerge ------------------------------
(***************************************************************************)
(* Several feeds made into one (apps/gtfsmerge: FeedIndex, GTFSOutput and  *)
(* its mergers).  Routes, services, trips and blocks are numbered anew,    *)
(* feed by feed, and what names them is renamed; stops and areas keep      *)
(* their ids, which are national, and meet.  What can only be answered of  *)
(* the merged feed waits until the last feed has been read.                *)
(*                                                                         *)
(* A row of an output carries as `from` the feed it came of, and what it   *)
(* was there, which no file has: the properties need it.  The files that   *)
(* only pass through (agencies, attributions, feed_info) and the shapes,   *)
(* which are numbered as blocks are and read as calls are, are left out.   *)
(***************************************************************************)
EXTENDS Integers, Sequences, FiniteSets, SequencesExt, FiniteSetsExt

CONSTANTS
    Inputs,             \* lists of feeds
    Stops,
    Loc,                \* where a stop is, on a line, and every feed that has it says
                        \* the same; 0 where they do not say
    WeekLength,
    FilterBefore,       \* the date before which nothing is carried over
    RemovedTypes,       \* route types
    TransferDistance,   \* 0: no walks are made
    None

-----------------------------------------------------------------------------
(* Feeds *)

ParentIn(f, stop) ==
    LET above == {s.parent : s \in {x \in ToSet(f.stops) : x.id = stop /\ x.parent # None}}
    IN IF above = {} THEN None ELSE CHOOSE p \in above : TRUE

IsList(list) == Len(list) \in Nat /\ DOMAIN list = 1..Len(list)
OneOfEach(list) == IsList(list) /\ \A i, j \in DOMAIN list : list[i].id = list[j].id => i = j

\* At most one row of calendar.txt, and dates, as many as there are.
ValidService(s) ==
    /\ \A row, other \in s.rows : row = other
    /\ \A row \in s.rows : row.start \in Nat /\ row.end \in Nat
    /\ IsFiniteSet(s.exceptions) /\ \A e \in s.exceptions : e.date \in Nat

\* What GTFS asks of a feed: ids are given once, what a row names is there, and the
\* station of a stop that is called at is under no other.
ValidFeed(f) ==
    /\ OneOfEach(f.routes) /\ OneOfEach(f.services) /\ OneOfEach(f.trips) /\ OneOfEach(f.stops)
    /\ IsList(f.calls) /\ IsList(f.transfers)
    /\ \A s \in ToSet(f.services) : ValidService(s)
    /\ \A trip \in ToSet(f.trips) : /\ \E s \in ToSet(f.services) : s.id = trip.service
                                   /\ \E route \in ToSet(f.routes) : route.id = trip.route
    /\ \A s \in ToSet(f.stops) : s.id \in Stops
    /\ \A call \in ToSet(f.calls) : \E s \in ToSet(f.stops) :
        /\ s.id = call.stop
        /\ s.parent # None => \E p \in ToSet(f.stops) : p.id = s.parent /\ p.parent = None
    /\ \A m \in f.members : m.area \in f.areas

ASSUME NoneAssumption == None \notin Stops
ASSUME InputsAssumption ==
    \A list \in Inputs : IsList(list) /\ Len(list) > 0 /\ \A i \in DOMAIN list : ValidFeed(list[i])
ASSUME LocAssumption == Loc \in [Stops -> Nat]
ASSUME NumbersAssumption ==
    WeekLength \in Nat \ {0} /\ FilterBefore \in Nat /\ TransferDistance \in Nat

VARIABLES
    feeds, at,          \* the inputs, and the one being merged
    stage,
    todo,               \* what is written side by side in this stage
    routeIds, serviceIds, tripIds,  \* old id to new, of the feed being merged
    line, batch, used,              \* its calls: read, to write, the stops they name
    routes, calendars, trips, blocks, stopTimes, transfers, areas,  \* written
    published, parents, codes, located,     \* of StopsAndTransfersMerger
    memberships, groupable,                 \* of AreasMerger
    stops, stopAreas    \* written at the end

ids == <<routeIds, serviceIds, tripIds>>
calls == <<line, batch, used, stopTimes>>
services == <<routes, calendars>>
vehicles == <<trips, blocks>>
places == <<published, parents, codes, located, transfers>>
groups == <<areas, memberships, groupable>>
final == <<stops, stopAreas>>
vars == <<feeds, at, stage, todo, ids, calls, services, vehicles, places, groups, final>>

feed == feeds[at]

-----------------------------------------------------------------------------
(* Days *)

DayOf(date) == date % WeekLength
RangeOf(cal) == cal.start..cal.end
Dates(exceptions, type) == {e.date : e \in {x \in exceptions : x.type = type}}

RunsAtAll(cal) ==
    \/ Dates(cal.exceptions, 1) # {}
    \/ \E date \in RangeOf(cal) : DayOf(date) \in cal.days /\ date \notin Dates(cal.exceptions, 2)

\* FeedIndex: a calendar that has finished, or names no day, is not read.
Read(service) ==
    [rows |-> {row \in service.rows : row.end >= FilterBefore /\ row.days # {}},
     exceptions |-> {e \in service.exceptions : e.date >= FilterBefore}]

\* CalendarFactory: a day of the week is the calendar's where it runs more often
\* than not, and what disagrees is an exception.
Create(exceptions) ==
    LET runs == Dates(exceptions, 1)
        rests == Min(runs)..Max(runs) \ runs
        days == {day \in 0..WeekLength - 1 :
                    Cardinality({d \in runs : DayOf(d) = day}) > Cardinality({d \in rests : DayOf(d) = day})}
    IN [days |-> days, start |-> Min(runs), end |-> Max(runs),
        exceptions |->
            {[date |-> date, type |-> 2] : date \in {d \in rests : DayOf(d) \in days}}
            \cup {[date |-> date, type |-> 1] : date \in {d \in runs : DayOf(d) \notin days}}]

\* The calendar a service is written as: none where no day of it is left.
Told(service) ==
    LET left == Read(service)
        said == {[days |-> row.days, start |-> row.start, end |-> row.end,
                  exceptions |-> left.exceptions] : row \in left.rows}
    IN IF \E cal \in said : RunsAtAll(cal) THEN said
       ELSE IF Dates(left.exceptions, 1) # {} THEN {Create(left.exceptions)}
       ELSE {}

CalendarOf(service) == CHOOSE cal \in Told(service) : TRUE

-----------------------------------------------------------------------------
(* RouteMerger, CalendarMerger, TripsMerger *)

\* Old id to new for the rows of a list that are kept, numbered on from n.
Numbered(list, kept, n) ==
    LET Line(id) == CHOOSE i \in kept : list[i].id = id
    IN [id \in {list[i].id : i \in kept} |-> n + Cardinality({i \in kept : i <= Line(id)})]

WriteRoutes ==
    /\ stage = "services" /\ "routes" \in todo
    /\ LET kept == {i \in DOMAIN feed.routes : feed.routes[i].type \notin RemovedTypes}
       IN /\ routeIds' = Numbered(feed.routes, kept, Cardinality(routes))
          /\ routes' = routes \cup {[id |-> routeIds'[feed.routes[i].id], from |-> <<at, feed.routes[i].id>>] :
                                        i \in kept}
    /\ todo' = todo \ {"routes"}
    /\ UNCHANGED <<feeds, at, stage, serviceIds, tripIds, calls, calendars, vehicles, places, groups, final>>

\* Mutant: the exceptions are no part of what makes two services the same.
SameServiceLoosely(a, b) == a.days = b.days /\ a.start = b.start /\ a.end = b.end

\* Two services that say the same thing are one.
SameService(a, b) == a = b

WriteCalendars ==
    /\ stage = "services" /\ "calendars" \in todo
    /\ LET told == {s \in ToSet(feed.services) : Told(s) # {}}
           fresh == {cal \in {CalendarOf(s) : s \in told} : ~ \E c \in ToSet(calendars) : SameService(c, cal)}
       IN /\ calendars' = calendars \o SetToSeq(fresh)
          /\ serviceIds' = [id \in {s.id : s \in told} |->
                CHOOSE i \in DOMAIN calendars' :
                    \E s \in told : s.id = id /\ SameService(calendars'[i], CalendarOf(s))]
    /\ todo' = todo \ {"calendars"}
    /\ UNCHANGED <<feeds, at, stage, routeIds, tripIds, calls, routes, vehicles, places, groups, final>>

\* Mutant: the map of the blocks outlives the feed.
BlockOfId(block) == block

\* A vehicle, by its feed: two feeds that number one `1` do not mean the same.
BlockOf(block) == <<at, block>>

\* The trips whose service and route survived.
WriteTrips ==
    /\ stage = "services" /\ todo = {}
    /\ LET kept == {i \in DOMAIN feed.trips : /\ feed.trips[i].service \in DOMAIN serviceIds
                                              /\ feed.trips[i].route \in DOMAIN routeIds}
           rows == {feed.trips[i] : i \in kept}
           named == {BlockOf(trip.block) : trip \in {t \in rows : t.block # None}}
       IN /\ tripIds' = Numbered(feed.trips, kept, Cardinality(trips))
          /\ blocks' = blocks \o SetToSeq(named \ ToSet(blocks))
          /\ trips' = trips \cup
                {[id |-> tripIds'[t.id], service |-> serviceIds[t.service], route |-> routeIds[t.route],
                  block |-> IF t.block = None THEN None
                            ELSE CHOOSE i \in DOMAIN blocks' : blocks'[i] = BlockOf(t.block),
                  from |-> <<at, t.id>>] : t \in rows}
    /\ stage' = "calls"
    /\ line' = 0
    /\ batch' = << >>
    /\ used' = {}
    /\ UNCHANGED <<feeds, at, todo, routeIds, serviceIds, stopTimes, services, places, groups, final>>

-----------------------------------------------------------------------------
(* StopTimesMerger: rows arrive from a parser that cannot wait, a chunk at a  *)
(* time, and are written between one chunk and the next                       *)

\* FeedIndex: a call without both its times never leaves the reader.
IsRead(call) == call.times = {"arrival", "departure"}

\* A call stays where its feed said it is, at a platform too.
ReadCall ==
    /\ stage = "calls" /\ line < Len(feed.calls)
    /\ LET call == feed.calls[line + 1]
       IN IF IsRead(call) /\ call.trip \in DOMAIN tripIds
            THEN /\ batch' = Append(batch, [trip |-> tripIds[call.trip], stop |-> call.stop,
                                            from |-> <<at, line + 1>>])
                 /\ used' = used \cup {call.stop}
            ELSE UNCHANGED <<batch, used>>
    /\ line' = line + 1
    /\ UNCHANGED <<feeds, at, stage, todo, ids, stopTimes, services, vehicles, places, groups, final>>

Flush ==
    /\ stage = "calls" /\ batch # << >>
    /\ stopTimes' = stopTimes \o batch
    /\ batch' = << >>
    /\ UNCHANGED <<feeds, at, stage, todo, ids, line, used, services, vehicles, places, groups, final>>

EndCalls ==
    /\ stage = "calls" /\ line = Len(feed.calls) /\ batch = << >>
    /\ stage' = "places"
    /\ todo' = {"stops", "areas"}
    /\ UNCHANGED <<feeds, at, ids, calls, services, vehicles, places, groups, final>>

-----------------------------------------------------------------------------
(* StopsAndTransfersMerger *)

\* Mutant: only what is called at.
PublishedCalled == used

\* What is called at, and the stations above.
Published == used \cup ({ParentIn(feed, stop) : stop \in used} \ {None})

\* FeedIndex.transfer: one transfer a pair, the shortest and the first of those; a
\* coupling is of the trips it names.
OnePerPair(list) ==
    LET Key(t) == <<t.begin, t.end, IF t.inSeat THEN t.trips ELSE << >> >>
        Before(i, j) == list[i].time < list[j].time \/ (list[i].time = list[j].time /\ i <= j)
    IN {list[i] : i \in {k \in DOMAIN list :
            \A j \in DOMAIN list : Key(list[j]) = Key(list[k]) => Before(k, j)}}

\* The trips of a coupling, in the merged feed.
Renamed(t) == [i \in DOMAIN t.trips |-> tripIds[t.trips[i]]]

\* Neither direction is given: the two are written together.
WalkMissing(a, b, given) == <<a, b>> \notin given /\ <<b, a>> \notin given

Apart(a, b) == Max({Loc[a] - Loc[b], Loc[b] - Loc[a]})

\* Mutant: a stop is compared with those of its own cell.
NearInCell(a, b) ==
    /\ Loc[a] \div TransferDistance = Loc[b] \div TransferDistance
    /\ Apart(a, b) < TransferDistance

\* The stops of a cell and of those beside it are compared.
Near(a, b) ==
    /\ (Loc[a] \div TransferDistance) - (Loc[b] \div TransferDistance) \in -1..1
    /\ Apart(a, b) < TransferDistance

WriteStops ==
    /\ stage = "places" /\ "stops" \in todo
    /\ LET rows == {s \in ToSet(feed.stops) : s.id \in Published}
           given == {t \in OnePerPair(feed.transfers) :
                        /\ {t.begin, t.end} \subseteq Published
                        /\ ToSet(t.trips) \subseteq DOMAIN tripIds}
           pairs == {<<t.begin, t.end>> : t \in given}
           fresh == {s.id : s \in {x \in rows :
                        TransferDistance > 0 /\ parents'[x.id] = None /\ Loc[x.id] # 0}} \ located
           walks == {w \in fresh \X (located \cup fresh) :
                        w[1] # w[2] /\ Near(w[1], w[2]) /\ WalkMissing(w[1], w[2], pairs)}
       IN /\ parents' = [stop \in Stops |->
                            IF ParentIn(feed, stop) # None THEN ParentIn(feed, stop) ELSE parents[stop]]
          /\ published' = published \cup
                {[id |-> s.id, parent |-> s.parent, code |-> s.code, from |-> at] : s \in rows}
          /\ codes' = codes \cup {[code |-> s.code, place |-> IF parents'[s.id] = None THEN s.id ELSE parents'[s.id]] :
                                    s \in {x \in rows : x.code # None}}
          /\ located' = located \cup fresh
          /\ transfers' = transfers
                \cup {[begin |-> t.begin, end |-> t.end, trips |-> Renamed(t),
                       given |-> TRUE, from |-> at, named |-> t.trips] : t \in given}
                \cup {[begin |-> w[1], end |-> w[2], trips |-> << >>,
                       given |-> FALSE, from |-> at, named |-> << >>] :
                         w \in walks \cup {<<v[2], v[1]>> : v \in walks}}
    /\ todo' = todo \ {"stops"}
    /\ UNCHANGED <<feeds, at, stage, ids, calls, services, vehicles, groups, final>>

-----------------------------------------------------------------------------
(* AreasMerger, GTFSOutput *)

\* Mutant: a membership is asked of the calls of its own feed.
WriteAreasSoon ==
    /\ stage = "places" /\ "areas" \in todo
    /\ areas' = areas \cup feed.areas
    /\ groupable' = groupable \cup Published
    /\ memberships' = memberships \cup {m \in feed.members : m.stop \in Published}
    /\ todo' = todo \ {"areas"}
    /\ UNCHANGED <<feeds, at, stage, ids, calls, services, vehicles, places, final>>

WriteAreas ==
    /\ stage = "places" /\ "areas" \in todo
    /\ areas' = areas \cup feed.areas
    /\ groupable' = groupable \cup Published
    /\ memberships' = memberships \cup
            {[area |-> m.area, stop |-> IF ParentIn(feed, m.stop) = None THEN m.stop ELSE ParentIn(feed, m.stop)] :
                m \in feed.members}
    /\ todo' = todo \ {"areas"}
    /\ UNCHANGED <<feeds, at, stage, ids, calls, services, vehicles, places, final>>

EndFeed ==
    /\ stage = "places" /\ todo = {}
    /\ at < Len(feeds)
    /\ at' = at + 1
    /\ stage' = "services"
    /\ todo' = {"routes", "calendars"}
    /\ UNCHANGED <<feeds, ids, calls, services, vehicles, places, groups, final>>

\* A code that more than one station carries is left out; a stop two feeds describe is
\* written as the first did; a membership is of a stop that is there.
End ==
    /\ stage = "places" /\ todo = {} /\ at = Len(feeds)
    /\ LET shared == {code \in {c.code : c \in codes} : Cardinality({c \in codes : c.code = code}) > 1}
           first == {s \in published : \A x \in published : x.id = s.id => x.from >= s.from}
       IN stops' = {[s EXCEPT !.code = IF @ \in shared THEN None ELSE @] : s \in first}
    /\ stopAreas' = {m \in memberships : m.stop \in groupable}
    /\ stage' = "ended"
    /\ UNCHANGED <<feeds, at, todo, ids, calls, services, vehicles, places, groups>>

-----------------------------------------------------------------------------

Init ==
    /\ feeds \in Inputs /\ at = 1
    /\ stage = "services" /\ todo = {"routes", "calendars"}
    /\ routeIds = << >> /\ serviceIds = << >> /\ tripIds = << >>
    /\ line = 0 /\ batch = << >> /\ used = {}
    /\ routes = {} /\ calendars = << >> /\ trips = {} /\ blocks = << >> /\ stopTimes = << >>
    /\ transfers = {} /\ areas = {}
    /\ published = {} /\ parents = [stop \in Stops |-> None] /\ codes = {} /\ located = {}
    /\ memberships = {} /\ groupable = {}
    /\ stops = {} /\ stopAreas = {}

Next ==
    \/ WriteRoutes \/ WriteCalendars \/ WriteTrips
    \/ ReadCall \/ Flush \/ EndCalls
    \/ WriteStops \/ WriteAreas \/ EndFeed \/ End

Spec == Init /\ [][Next]_vars

-----------------------------------------------------------------------------

Ended == stage = "ended"

StopIds == {s.id : s \in stops}
TripIds == {t.id : t \in trips}

\* Every reference in the merged feed names a row that was written, whichever
\* mergers settle first and whichever feed a stop or a station came of.
RefsResolve ==
    /\ \A t \in trips : t.service \in DOMAIN calendars /\ \E r \in routes : r.id = t.route
    /\ Ended =>
        /\ \A call \in ToSet(stopTimes) : call.trip \in TripIds /\ call.stop \in StopIds
        /\ \A t \in transfers : {t.begin, t.end} \subseteq StopIds /\ ToSet(t.trips) \subseteq TripIds
        /\ \A s \in stops : s.parent \in StopIds \cup {None}
        /\ \A m \in stopAreas : m.stop \in StopIds /\ m.area \in areas

BlockGiven(t) == (CHOOSE g \in ToSet(feeds[t.from[1]].trips) : g.id = t.from[2]).block

\* Two feeds that use one id do not mean one thing: trips are numbered apart, a block
\* is of one vehicle of one feed, and a coupling names the trips its own feed named.
NotConflated ==
    /\ \A r, s \in routes : r.id = s.id => r = s
    /\ \A t, u \in trips :
        /\ t.id = u.id => t = u
        /\ t.block # None =>
            (t.block = u.block <=> t.from[1] = u.from[1] /\ BlockGiven(t) = BlockGiven(u))
    /\ \A c \in transfers : \A i \in DOMAIN c.trips :
        \E t \in trips : t.id = c.trips[i] /\ t.from = <<c.from, c.named[i]>>

DaysOf(cal) ==
    ({date \in RangeOf(cal) : DayOf(date) \in cal.days} \ Dates(cal.exceptions, 2))
        \cup Dates(cal.exceptions, 1)

Ahead(dates) == {date \in dates : date >= FilterBefore}

\* The dates a feed said a service runs.
DaysGiven(service) ==
    IF service.rows = {} THEN Dates(service.exceptions, 1)
    ELSE UNION {DaysOf([days |-> row.days, start |-> row.start, end |-> row.end,
                        exceptions |-> service.exceptions]) : row \in service.rows}

\* The lines that are the calls of a trip, as far as they have both times.
LinesOf(f, trip) ==
    {i \in DOMAIN feeds[f].calls : feeds[f].calls[i].trip = trip /\ IsRead(feeds[f].calls[i])}

\* Every trip of every feed that has a day left and a route that is kept is in the
\* merged feed once, with all its calls that have both times, in order and at the stop
\* the feed gave, and runs on exactly its days, however its service was told,
\* collapsed with another or worked out from dates.
ServedAsGiven ==
    /\ \A i, j \in DOMAIN stopTimes :
        i < j /\ stopTimes[i].from[1] = stopTimes[j].from[1] => stopTimes[i].from[2] < stopTimes[j].from[2]
    /\ Ended => \A f \in DOMAIN feeds : \A trip \in ToSet(feeds[f].trips) :
        LET service == CHOOSE s \in ToSet(feeds[f].services) : s.id = trip.service
            route == CHOOSE r \in ToSet(feeds[f].routes) : r.id = trip.route
            merged == {t \in trips : t.from = <<f, trip.id>>}
        IN IF Ahead(DaysGiven(service)) # {} /\ route.type \notin RemovedTypes
             THEN \E t \in trips :
                    /\ merged = {t}
                    /\ Ahead(DaysOf(calendars[t.service])) = Ahead(DaysGiven(service))
                    /\ [id |-> t.route, from |-> <<f, trip.route>>] \in routes
                    /\ \A i \in LinesOf(f, trip.id) : \E c \in ToSet(stopTimes) :
                            c = [trip |-> t.id, stop |-> feeds[f].calls[i].stop, from |-> <<f, i>>]
                    /\ \A c \in ToSet(stopTimes) :
                            c.trip = t.id <=> c.from[1] = f /\ c.from[2] \in LinesOf(f, trip.id)
             ELSE \A t \in merged : Ahead(DaysOf(calendars[t.service])) = {}

\* Two places near enough are joined whichever feeds they came of and whichever cells
\* they fall in, and no walk is made that a feed already read has given.
WalksBetweenNeighbours ==
    /\ Ended /\ TransferDistance > 0 =>
        \A a, b \in {s \in StopIds : parents[s] = None /\ Loc[s] # 0} :
            a # b /\ Apart(a, b) < TransferDistance =>
                \E t \in transfers : {t.begin, t.end} = {a, b}
    /\ \A t \in transfers : ~t.given =>
        /\ \A u \in transfers : u # t /\ u.begin = t.begin /\ u.end = t.end => u.from > t.from
        /\ \E u \in transfers : u.begin = t.end /\ u.end = t.begin /\ u.from = t.from

\* A membership is kept where its station is in the merged feed, whichever feed calls there.
GroupsWhole ==
    \A f \in DOMAIN feeds : \A m \in feeds[f].members :
        LET station == IF ParentIn(feeds[f], m.stop) = None THEN m.stop ELSE ParentIn(feeds[f], m.stop)
        IN station \in StopIds <=> [area |-> m.area, stop |-> station] \in stopAreas

Station(s) == IF parents[s] = None THEN s ELSE parents[s]

\* A code that is left names one station.
CodesNameOneStation ==
    \A s, u \in stops : s.code # None /\ s.code = u.code => Station(s.id) = Station(u.id)

\* The feeds agree on the station of a stop that has a code, and one says so no later
\* than the code is given.
StationsAgree ==
    \A i \in DOMAIN feeds : \A s \in ToSet(feeds[i].stops) : s.code # None =>
        /\ \A j \in DOMAIN feeds : ParentIn(feeds[j], s.id) # None =>
            \E g \in 1..i : ParentIn(feeds[g], s.id) # None
        /\ \A g, j \in DOMAIN feeds : ParentIn(feeds[g], s.id) # None /\ ParentIn(feeds[j], s.id) # None =>
            ParentIn(feeds[g], s.id) = ParentIn(feeds[j], s.id)

\* What is a question about the merged feed is answered of it, not of the feed in hand:
\* which groups are whole, and which codes name one station as far as the feeds agree
\* on the stations.
AskedOfTheWhole == Ended => GroupsWhole /\ (StationsAgree => CodesNameOneStation)
=============================================================================
