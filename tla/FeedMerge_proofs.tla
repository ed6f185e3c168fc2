-------------------------- MODULE FeedMerge_proofs --------------------------
(***************************************************************************)
(* For any list of feeds as GTFS asks them to be: what the merged feed     *)
(* names is in it (RefsResolve), what two feeds mean stays apart           *)
(* (NotConflated), every trip is there once and on its days                *)
(* (ServedAsGiven), near places are joined (WalksBetweenNeighbours) and    *)
(* what is asked of the merged feed is answered of it (AskedOfTheWhole).   *)
(* One invariant carries them: each output is what the feeds read so far   *)
(* come to, feed by feed, up to the last one its merger has written.       *)
(***************************************************************************)
EXTENDS FeedMerge, SequenceTheorems, FiniteSetTheorems, TLAPS

-----------------------------------------------------------------------------
(* What each feed comes to, whatever it is merged with *)

\* What of a feed is carried over: routes, trips and calls by their line.
Running(g) == {s \in ToSet(g.services) : Told(s) # {}}
KeptRoutes(g) == {i \in DOMAIN g.routes : g.routes[i].type \notin RemovedTypes}
KeptTrips(g) ==
    {k \in DOMAIN g.trips : /\ \E s \in Running(g) : s.id = g.trips[k].service
                            /\ \E i \in KeptRoutes(g) : g.routes[i].id = g.trips[k].route}
KeptLines(g) ==
    {i \in DOMAIN g.calls : IsRead(g.calls[i]) /\ \E k \in KeptTrips(g) : g.trips[k].id = g.calls[i].trip}

\* The stops it calls at, with the stations above; their rows, and its groups.
CalledIn(g) == {g.calls[i].stop : i \in KeptLines(g)}
PublishedIn(g) == CalledIn(g) \cup ({ParentIn(g, stop) : stop \in CalledIn(g)} \ {None})
RowsOf(g, f) ==
    {[id |-> s.id, parent |-> s.parent, code |-> s.code, from |-> f] :
        s \in {x \in ToSet(g.stops) : x.id \in PublishedIn(g)}}
MembersOf(g) ==
    {[area |-> m.area, stop |-> IF ParentIn(g, m.stop) = None THEN m.stop ELSE ParentIn(g, m.stop)] :
        m \in g.members}

\* The stops with no station above them in any of the first feeds.
Alone(list, f, stop) == \A h \in 1..f : ParentIn(list[h], stop) = None
LocatedBy(list, f) ==
    {s \in PublishedIn(list[f]) : TransferDistance > 0 /\ Alone(list, f, s) /\ Loc[s] # 0}

-----------------------------------------------------------------------------
(* How far the merge has come *)

\* The last feed a merger has written.
RoutesDone == IF stage = "services" /\ "routes" \in todo THEN at - 1 ELSE at
CalendarsDone == IF stage = "services" /\ "calendars" \in todo THEN at - 1 ELSE at
TripsDone == IF stage = "services" THEN at - 1 ELSE at
StopsDone ==
    IF stage \in {"services", "calls"} \/ (stage = "places" /\ "stops" \in todo) THEN at - 1 ELSE at
AreasDone ==
    IF stage \in {"services", "calls"} \/ (stage = "places" /\ "areas" \in todo) THEN at - 1 ELSE at

Shape ==
    /\ feeds \in Inputs /\ at \in 1..Len(feeds)
    /\ stage \in {"services", "calls", "places", "ended"}
    /\ stage = "services" => todo \subseteq {"routes", "calendars"}
    /\ stage = "calls" => todo = {}
    /\ stage = "places" => todo \subseteq {"stops", "areas"}
    /\ stage = "ended" => todo = {} /\ at = Len(feeds)

\* A list of whatever is in it.
IsSeq(list) == list \in Seq(ToSet(list))

\* The ids of the rows are counted up, and no two rows share one.
Counted(rows) ==
    /\ IsFiniteSet(rows)
    /\ \A r \in rows : r.id \in 1..Cardinality(rows)
    /\ \A r, s \in rows : r.id = s.id => r = s

RoutesInv ==
    /\ Counted(routes)
    /\ \A r \in routes : \E f \in 1..RoutesDone : \E i \in KeptRoutes(feeds[f]) :
        r.from = <<f, feeds[f].routes[i].id>>
    /\ RoutesDone = at =>
        /\ DOMAIN routeIds = {feeds[at].routes[i].id : i \in KeptRoutes(feeds[at])}
        /\ \A id \in DOMAIN routeIds : [id |-> routeIds[id], from |-> <<at, id>>] \in routes

CalendarsInv ==
    /\ IsSeq(calendars)
    /\ CalendarsDone = at =>
        /\ DOMAIN serviceIds = {s.id : s \in Running(feeds[at])}
        /\ \A s \in Running(feeds[at]) :
            serviceIds[s.id] \in DOMAIN calendars /\ calendars[serviceIds[s.id]] = CalendarOf(s)

\* A row written is of the k-th trip of a feed: of its route, its days and its vehicle.
IsTrip(t, f, k) ==
    /\ t.from = <<f, feeds[f].trips[k].id>>
    /\ [id |-> t.route, from |-> <<f, feeds[f].trips[k].route>>] \in routes
    /\ t.service \in DOMAIN calendars
    /\ \E s \in Running(feeds[f]) : s.id = feeds[f].trips[k].service /\ calendars[t.service] = CalendarOf(s)
    /\ feeds[f].trips[k].block = None => t.block = None
    /\ feeds[f].trips[k].block # None =>
        t.block \in DOMAIN blocks /\ blocks[t.block] = <<f, feeds[f].trips[k].block>>

TripsInv ==
    /\ Counted(trips)
    /\ IsSeq(blocks)
    /\ \A i, j \in DOMAIN blocks : blocks[i] = blocks[j] => i = j
    /\ \A t \in trips : \E f \in 1..TripsDone : \E k \in KeptTrips(feeds[f]) : IsTrip(t, f, k)
    /\ \A f \in 1..TripsDone : \A k \in KeptTrips(feeds[f]) :
        \E t \in trips : t.from = <<f, feeds[f].trips[k].id>>
    /\ \A t, u \in trips : t.from = u.from => t = u
    /\ TripsDone = at =>
        /\ DOMAIN tripIds = {feeds[at].trips[k].id : k \in KeptTrips(feeds[at])}
        /\ \A id \in DOMAIN tripIds : \E t \in trips : t.id = tripIds[id] /\ t.from = <<at, id>>

\* The lines read, of those kept.
LinesRead(f) == {i \in KeptLines(feeds[f]) : f = at => TripsDone = at /\ i <= line}

\* A row written, or to write, is of the i-th line of a feed.
IsCall(c, f, i) ==
    \E t \in trips :
        /\ c = [trip |-> t.id, stop |-> feeds[f].calls[i].stop, from |-> <<f, i>>]
        /\ t.from = <<f, feeds[f].calls[i].trip>>

Rising(list) ==
    \A i, j \in DOMAIN list :
        i < j /\ list[i].from[1] = list[j].from[1] => list[i].from[2] < list[j].from[2]

CallsInv ==
    /\ IsSeq(stopTimes) /\ IsSeq(batch)
    /\ line \in Nat
    /\ TripsDone = at => line <= Len(feeds[at].calls)
    /\ stage \in {"places", "ended"} => line = Len(feeds[at].calls)
    /\ stage # "calls" => batch = << >>
    /\ \A c \in ToSet(stopTimes) \cup ToSet(batch) : \E f \in 1..TripsDone : \E i \in LinesRead(f) : IsCall(c, f, i)
    /\ \A f \in 1..TripsDone : \A i \in LinesRead(f) :
        \E c \in ToSet(stopTimes) \cup ToSet(batch) : c.from = <<f, i>>
    /\ Rising(stopTimes) /\ Rising(batch)
    /\ \A c \in ToSet(batch) : c.from[1] = at
    /\ \A c \in ToSet(batch), d \in ToSet(stopTimes) : d.from[1] = at => d.from[2] < c.from[2]
    /\ TripsDone = at => used = {feeds[at].calls[i].stop : i \in LinesRead(at)}

PlacesInv ==
    /\ published = UNION {RowsOf(feeds[f], f) : f \in 1..StopsDone}
    /\ DOMAIN parents = Stops
    /\ \A s \in Stops : parents[s] = None <=> Alone(feeds, StopsDone, s)
    /\ \A s \in Stops : parents[s] # None => \E f \in 1..StopsDone : parents[s] = ParentIn(feeds[f], s)
    /\ located = UNION {LocatedBy(feeds, f) : f \in 1..StopsDone}

GroupsInv ==
    /\ areas = UNION {feeds[f].areas : f \in 1..AreasDone}
    /\ groupable = UNION {PublishedIn(feeds[f]) : f \in 1..AreasDone}
    /\ memberships = UNION {MembersOf(feeds[f]) : f \in 1..AreasDone}

\* A walk from a to b, made when the f-th feed was read.
Walk(a, b, f) ==
    [begin |-> a, end |-> b, trips |-> << >>, given |-> FALSE, from |-> f, named |-> << >>]

\* A transfer is between stops its feed has, and a coupling is of trips its feed named.
IsTransfer(t) ==
    /\ t.from \in 1..StopsDone /\ t.given \in BOOLEAN
    /\ t.given => t.begin \in PublishedIn(feeds[t.from]) /\ t.end \in PublishedIn(feeds[t.from])
    /\ ~t.given => t.begin \in located /\ t.end \in located /\ t = Walk(t.begin, t.end, t.from)
    /\ DOMAIN t.trips = DOMAIN t.named
    /\ \A i \in DOMAIN t.trips : \E u \in trips : u.id = t.trips[i] /\ u.from = <<t.from, t.named[i]>>

TransfersInv ==
    /\ \A t \in transfers : IsTransfer(t)
    /\ \A a, b \in located : a # b /\ Apart(a, b) < TransferDistance =>
        \E t \in transfers : {t.begin, t.end} = {a, b}
    /\ \A t \in transfers : ~t.given =>
        /\ \A u \in transfers : u # t /\ u.begin = t.begin /\ u.end = t.end => u.from > t.from
        /\ \E u \in transfers : u.begin = t.end /\ u.end = t.begin /\ u.from = t.from

CodesInv ==
    /\ IsFiniteSet(codes)
    /\ \A p \in published : p.code # None => [code |-> p.code, place |-> Station(p.id)] \in codes

Shared == {code \in {c.code : c \in codes} : Cardinality({c \in codes : c.code = code}) > 1}
FirstRows == {s \in published : \A x \in published : x.id = s.id => x.from >= s.from}

FinalInv ==
    stage = "ended" =>
        /\ stops = {[s EXCEPT !.code = IF @ \in Shared THEN None ELSE @] : s \in FirstRows}
        /\ stopAreas = {m \in memberships : m.stop \in groupable}

IInv ==
    /\ Shape /\ RoutesInv /\ CalendarsInv /\ TripsInv /\ CallsInv /\ PlacesInv /\ GroupsInv
    /\ TransfersInv /\ FinalInv

\* What becomes of a trip of the f-th feed, of a service and a route it has.
ServedTrip(f, trip, service, route) ==
    LET merged == {t \in trips : t.from = <<f, trip.id>>}
    IN IF Ahead(DaysGiven(service)) # {} /\ route.type \notin RemovedTypes
         THEN \E t \in trips :
                /\ merged = {t}
                /\ Ahead(DaysOf(calendars[t.service])) = Ahead(DaysGiven(service))
                /\ [id |-> t.route, from |-> <<f, trip.route>>] \in routes
                /\ \A i \in LinesOf(f, trip.id) : \E c \in ToSet(stopTimes) :
                        c = [trip |-> t.id, stop |-> feeds[f].calls[i].stop, from |-> <<f, i>>]
                /\ \A c \in ToSet(stopTimes) :
                        c.trip = t.id <=> c.from[1] = f /\ c.from[2] \in LinesOf(f, trip.id)
         ELSE \A t \in merged : Ahead(DaysOf(calendars[t.service])) = {}

-----------------------------------------------------------------------------
(* Lists and numbers *)

\* A list has finitely many lines, numbered from 1.
LEMMA ListType ==
    ASSUME NEW list, IsList(list)
    PROVE  /\ IsFiniteSet(DOMAIN list)
           /\ \A i \in DOMAIN list : i \in Nat /\ i \in Int
BY FS_Interval DEF IsList

\* Ids are counted on from n, one for each line kept, and no two lines share one.
LEMMA NumberedAs ==
    ASSUME NEW list, OneOfEach(list), NEW kept, kept \subseteq DOMAIN list, NEW n \in Nat
    PROVE  /\ IsFiniteSet(kept) /\ Cardinality(kept) \in Nat
           /\ DOMAIN Numbered(list, kept, n) = {list[i].id : i \in kept}
           /\ \A i \in kept : Numbered(list, kept, n)[list[i].id] \in n + 1..n + Cardinality(kept)
           /\ \A i, j \in kept :
                Numbered(list, kept, n)[list[i].id] = Numbered(list, kept, n)[list[j].id] => i = j
<1> DEFINE upTo(i) == {j \in kept : j <= i}
           numbers == Numbered(list, kept, n)
<1>1. IsFiniteSet(kept) /\ Cardinality(kept) \in Nat /\ kept \subseteq Int
    BY ListType, FS_Subset, FS_CardinalityType DEF OneOfEach
<1>2. DOMAIN numbers = {list[i].id : i \in kept}
    BY DEF Numbered
<1>3. ASSUME NEW i \in kept
      PROVE  numbers[list[i].id] = n + Cardinality(upTo(i))
    <2> DEFINE lineOf(id) == CHOOSE j \in kept : list[j].id = id
    <2>1. lineOf(list[i].id) \in kept /\ list[lineOf(list[i].id)].id = list[i].id
        OBVIOUS
    <2>2. lineOf(list[i].id) = i
        BY <2>1 DEF OneOfEach
    <2>3. numbers[list[i].id] = n + Cardinality({j \in kept : j <= lineOf(list[i].id)})
        BY DEF Numbered
    <2> QED BY <2>2, <2>3
<1>4. ASSUME NEW i \in kept
      PROVE  /\ IsFiniteSet(upTo(i)) /\ Cardinality(upTo(i)) \in 1..Cardinality(kept)
    <2>1. IsFiniteSet(upTo(i)) /\ Cardinality(upTo(i)) <= Cardinality(kept)
        BY <1>1, FS_Subset
    <2>2. i \in upTo(i)
        BY <1>1
    <2>3. Cardinality(upTo(i)) \in Nat /\ Cardinality(upTo(i)) # 0
        BY <2>1, <2>2, FS_CardinalityType, FS_EmptySet
    <2> QED BY <1>1, <2>1, <2>3
<1>5. ASSUME NEW i \in kept, NEW j \in kept, i < j
      PROVE  Cardinality(upTo(i)) < Cardinality(upTo(j))
    <2>1. upTo(i) \subseteq upTo(j) /\ j \in upTo(j) /\ j \notin upTo(i)
        BY <1>1, <1>5
    <2>2. Cardinality(upTo(i)) <= Cardinality(upTo(j)) /\ Cardinality(upTo(i)) # Cardinality(upTo(j))
        BY <1>4, <2>1, FS_Subset
    <2> QED BY <1>4, <2>2, <1>1
<1> HIDE DEF upTo, numbers
<1>6. ASSUME NEW i \in kept, NEW j \in kept, numbers[list[i].id] = numbers[list[j].id]
      PROVE  i = j
    <2>1. Cardinality(upTo(i)) = Cardinality(upTo(j))
        BY <1>1, <1>3, <1>4, <1>6
    <2>2. ~(i < j) /\ ~(j < i)
        BY <1>1, <1>4, <1>5, <2>1
    <2> QED BY <1>1, <2>2
<1>7. ASSUME NEW i \in kept
      PROVE  numbers[list[i].id] \in n + 1..n + Cardinality(kept)
    BY <1>1, <1>3, <1>4
<1> QED BY <1>1, <1>2, <1>6, <1>7 DEF numbers

\* Rows numbered on from those there are: the ids are counted up still.
LEMMA CountedMore ==
    ASSUME NEW old, Counted(old), NEW kept, IsFiniteSet(kept), NEW row, DOMAIN row = kept,
           \A i \in kept : row[i].id \in Cardinality(old) + 1..Cardinality(old) + Cardinality(kept),
           \A i, j \in kept : row[i].id = row[j].id => i = j
    PROVE  Counted(old \cup {row[i] : i \in kept})
<1> DEFINE added == {row[i] : i \in kept}
           pick == [i \in kept |-> row[i]]
<1>1. Cardinality(old) \in Nat /\ Cardinality(kept) \in Nat /\ IsFiniteSet(old)
    BY FS_CardinalityType DEF Counted
<1>2. pick \in [kept -> added] /\ \A x \in added : \E i \in kept : pick[i] = x
    OBVIOUS
<1>3. pick \in Surjection(kept, added)
    BY <1>2 DEF Surjection
<1>4. pick \in Injection(kept, added)
    <2>1. ASSUME NEW i \in DOMAIN pick, NEW j \in DOMAIN pick, pick[i] = pick[j]
          PROVE  i = j
        BY <2>1
    <2> QED BY <1>2, <2>1 DEF Injection, IsInjective
<1>5. IsFiniteSet(added) /\ Cardinality(added) = Cardinality(kept)
    BY <1>3, <1>4, FS_Surjection
<1>6. ASSUME NEW r \in added
      PROVE  r.id \in Cardinality(old) + 1..Cardinality(old) + Cardinality(kept)
    OBVIOUS
<1>7. \A r, s \in added : r.id = s.id => r = s
    OBVIOUS
<1> HIDE DEF added, pick
<1>8. \A r \in old : r.id \in 1..Cardinality(old)
    BY DEF Counted
<1>9. old \cap added = {}
    BY <1>1, <1>6, <1>8
<1>10. IsFiniteSet(old \cup added) /\ Cardinality(old \cup added) = Cardinality(old) + Cardinality(kept)
    <2>1. IsFiniteSet(old \cup added) /\ Cardinality(old \cup added) = Cardinality(old) + Cardinality(added) - Cardinality(old \cap added)
        BY <1>1, <1>5, FS_Union
    <2>2. Cardinality(old \cap added) = 0
        BY <1>9, FS_EmptySet
    <2> HIDE DEF added
    <2> QED BY <1>1, <1>5, <2>1, <2>2
<1>11. \A r \in old \cup added : r.id \in 1..Cardinality(old \cup added)
    BY <1>1, <1>6, <1>8, <1>10
<1>12. ASSUME NEW r \in old \cup added, NEW s \in old \cup added, r.id = s.id
       PROVE  r = s
    <2>1. CASE r \in old /\ s \in old
        BY <1>12, <2>1 DEF Counted
    <2>2. CASE r \in added /\ s \in added
        BY <1>7, <1>12, <2>2
    <2>3. CASE r \in old /\ s \in added
        BY <1>1, <1>6, <1>8, <1>12, <2>3
    <2>4. CASE r \in added /\ s \in old
        BY <1>1, <1>6, <1>8, <1>12, <2>4
    <2> QED BY <2>1, <2>2, <2>3, <2>4
<1> QED BY <1>10, <1>11, <1>12 DEF Counted, added

\* The elements of a finite set, in some order, each once.
LEMMA SeqOfSet ==
    ASSUME NEW S, IsFiniteSet(S)
    PROVE  /\ SetToSeq(S) \in Seq(S) /\ ToSet(SetToSeq(S)) = S
           /\ \A i, j \in DOMAIN SetToSeq(S) : SetToSeq(S)[i] = SetToSeq(S)[j] => i = j
<1> DEFINE n == Cardinality(S)
           list == SetToSeq(S)
<1>1. n \in Nat /\ ExistsBijection(1..n, S)
    BY FS_CardinalityType
<1>2. PICK b \in Bijection(1..n, S) : TRUE
    BY <1>1 DEF ExistsBijection
<1>3. b \in [1..n -> S] /\ IsInjective(b) /\ b \in Injection(1..n, S)
    BY <1>2 DEF Bijection, Injection
<1>4. list \in [1..n -> S] /\ IsInjective(list)
    BY <1>3 DEF SetToSeq
<1>5. list \in Seq(S) /\ DOMAIN list = 1..n
    BY <1>1, <1>4
<1>6. list \in Injection(1..n, S)
    BY <1>4 DEF Injection
<1>7. list \in Surjection(1..n, S)
    BY <1>1, <1>6, FS_Injection, FS_Interval
<1>8. ToSet(list) = S
    BY <1>4, <1>7 DEF Surjection, ToSet
<1> QED BY <1>4, <1>5, <1>8 DEF IsInjective

\* What two lists make together holds the elements of both, the first where they were.
LEMMA Concat ==
    ASSUME NEW S, NEW s \in Seq(S), NEW t \in Seq(S)
    PROVE  /\ s \o t \in Seq(S) /\ ToSet(s \o t) = ToSet(s) \cup ToSet(t)
           /\ DOMAIN s \subseteq DOMAIN (s \o t) /\ \A i \in DOMAIN s : (s \o t)[i] = s[i]
           /\ \A i \in DOMAIN (s \o t) : i \notin DOMAIN s =>
                i \in Nat /\ i - Len(s) \in DOMAIN t /\ (s \o t)[i] = t[i - Len(s)]
           /\ \A i \in DOMAIN s, j \in DOMAIN (s \o t) : j \notin DOMAIN s => i < j
<1>1. s \o t \in Seq(S) /\ Len(s \o t) = Len(s) + Len(t)
      /\ \A i \in 1..Len(s) + Len(t) : (s \o t)[i] = IF i <= Len(s) THEN s[i] ELSE t[i - Len(s)]
    BY ConcatProperties
<1>2. DOMAIN s = 1..Len(s) /\ DOMAIN t = 1..Len(t) /\ DOMAIN (s \o t) = 1..Len(s) + Len(t)
      /\ Len(s) \in Nat /\ Len(t) \in Nat
    BY <1>1
<1> DEFINE both == s \o t
<1> HIDE DEF both
<1>3. /\ DOMAIN s \subseteq DOMAIN both /\ \A i \in DOMAIN s : both[i] = s[i]
    BY <1>1, <1>2 DEF both
<1>4. ASSUME NEW i \in DOMAIN both, i \notin DOMAIN s
      PROVE  i \in Nat /\ i - Len(s) \in DOMAIN t /\ both[i] = t[i - Len(s)] /\ \A j \in DOMAIN s : j < i
    BY <1>1, <1>2, <1>4 DEF both
<1>5. ASSUME NEW e \in ToSet(both)
      PROVE  e \in ToSet(s) \cup ToSet(t)
    <2>1. PICK i \in DOMAIN both : both[i] = e
        BY <1>5 DEF ToSet
    <2> QED BY <1>3, <1>4, <2>1 DEF ToSet
<1>6. ASSUME NEW e \in ToSet(s)
      PROVE  e \in ToSet(both)
    BY <1>3 DEF ToSet
<1>7. ASSUME NEW e \in ToSet(t)
      PROVE  e \in ToSet(both)
    <2>1. PICK i \in 1..Len(t) : t[i] = e
        BY <1>2 DEF ToSet
    <2>2. i + Len(s) \in DOMAIN both /\ both[i + Len(s)] = e
        BY <1>1, <1>2, <2>1 DEF both
    <2> QED BY <2>2 DEF ToSet
<1>8. ToSet(both) = ToSet(s) \cup ToSet(t)
    BY <1>5, <1>6, <1>7
<1> QED BY <1>1, <1>3, <1>4, <1>8 DEF both

\* The empty list holds nothing.
LEMMA Nothing ==
    ASSUME NEW S
    PROVE  << >> \in Seq(S) /\ DOMAIN << >> = {} /\ ToSet(<< >>) = {}
BY DEF ToSet

\* A list with one more at its end holds it too.
LEMMA OneMore ==
    ASSUME NEW S, NEW s \in Seq(S), NEW e \in S
    PROVE  /\ Append(s, e) \in Seq(S) /\ ToSet(Append(s, e)) = ToSet(s) \cup {e}
           /\ DOMAIN Append(s, e) = DOMAIN s \cup {Len(s) + 1}
           /\ Append(s, e)[Len(s) + 1] = e /\ \A i \in DOMAIN s : Append(s, e)[i] = s[i] /\ i < Len(s) + 1
<1>1. /\ Append(s, e) \in Seq(S) /\ DOMAIN s = 1..Len(s) /\ Len(s) \in Nat
      /\ DOMAIN Append(s, e) = 1..Len(s) + 1
      /\ Append(s, e)[Len(s) + 1] = e /\ \A i \in DOMAIN s : Append(s, e)[i] = s[i]
    BY AppendProperties
<1>2. DOMAIN Append(s, e) = DOMAIN s \cup {Len(s) + 1} /\ \A i \in DOMAIN s : i < Len(s) + 1
    BY <1>1
<1>3. ToSet(Append(s, e)) = ToSet(s) \cup {e}
    BY <1>1, <1>2 DEF ToSet
<1> QED BY <1>1, <1>2, <1>3

-----------------------------------------------------------------------------
(* Days *)

\* A set of naturals has a least member.
LEMMA LeastOf ==
    ASSUME NEW S \in SUBSET Nat, S # {}
    PROVE  \E x \in S : \A y \in S : x <= y
<1>1. IsWellFoundedOn({ss \in Nat \X Nat : ss[1] < ss[2]}, Nat)
    BY NatLessThanWellFounded DEF OpToRel
<1>2. PICK less : less = {ss \in Nat \X Nat : ss[1] < ss[2]} /\ IsWellFoundedOn(less, Nat)
    BY <1>1
<1>3. PICK x \in S : \A y \in S : ~ (<<y, x>> \in less)
    BY <1>2, WFMin
<1>4. ASSUME NEW y \in S
      PROVE  x <= y
    <2>1. x \in Nat /\ y \in Nat
        OBVIOUS
    <2>2. <<y, x>> \notin {ss \in Nat \X Nat : ss[1] < ss[2]}
        BY <1>2, <1>3
    <2>3. ~ (y < x)
        BY <2>1, <2>2
    <2> QED BY <2>1, <2>3
<1> QED BY <1>4

\* A finite set of naturals has a greatest one: otherwise the next of each would be
\* an injection into the set without its least.
LEMMA GreatestOf ==
    ASSUME NEW S \in SUBSET Nat, IsFiniteSet(S), S # {}
    PROVE  \E x \in S : \A y \in S : y <= x
<1>1. SUFFICES ASSUME \A x \in S : \E y \in S : x < y
               PROVE  FALSE
    OBVIOUS
<1> DEFINE above(x) == {y \in S : x < y}
           next == [x \in S |-> CHOOSE y \in above(x) : \A z \in above(x) : y <= z]
<1>2. PICK least \in S : \A y \in S : least <= y
    BY LeastOf
<1>3. ASSUME NEW x \in S
      PROVE  next[x] \in S /\ x < next[x] /\ \A z \in S : x < z => next[x] <= z
    <2>1. above(x) \in SUBSET Nat /\ above(x) # {}
        BY <1>1
    <2>2. \E y \in above(x) : \A z \in above(x) : y <= z
        BY <2>1, LeastOf
    <2>3. next[x] \in above(x) /\ \A z \in above(x) : next[x] <= z
        BY <2>2
    <2> QED BY <2>3
<1>4. DOMAIN next = S /\ next = [x \in S |-> next[x]]
    OBVIOUS
<1> HIDE DEF next
<1>5. next \in [S -> S \ {least}]
    BY <1>2, <1>3, <1>4
<1>6. ASSUME NEW x \in S, NEW y \in S, next[x] = next[y]
      PROVE  x = y
    <2>1. x \in Nat /\ y \in Nat /\ next[x] \in Nat
        BY <1>3
    <2>2. ~(x < y) /\ ~(y < x)
        BY <1>3, <1>6, <2>1
    <2> QED BY <2>1, <2>2
<1>7. next \in Injection(S, S \ {least})
    BY <1>4, <1>5, <1>6 DEF Injection, IsInjective
<1>8. IsFiniteSet(S \ {least}) /\ Cardinality(S \ {least}) = Cardinality(S) - 1 /\ Cardinality(S) \in Nat
    BY <1>2, FS_RemoveElement, FS_CardinalityType
<1>9. Cardinality(S) <= Cardinality(S \ {least})
    BY <1>7, <1>8, FS_Injection
<1> QED BY <1>8, <1>9

\* Every date of a finite set is between the first and the last.
LEMMA MinMax ==
    ASSUME NEW S \in SUBSET Nat, IsFiniteSet(S), S # {}
    PROVE  Min(S) \in Nat /\ Max(S) \in Nat /\ S \subseteq Min(S)..Max(S)
<1>1. Min(S) \in S /\ \A y \in S : Min(S) <= y
    BY LeastOf DEF Min
<1>2. Max(S) \in S /\ \A y \in S : Max(S) >= y
    <2>1. \E x \in S : \A y \in S : x >= y
        <3>1. PICK x \in S : \A y \in S : y <= x
            BY GreatestOf
        <3>2. \A y \in S : x \in Nat /\ y \in Nat /\ x >= y
            BY <3>1
        <3> QED BY <3>2
    <2> QED BY <2>1 DEF Max
<1>3. ASSUME NEW y \in S
      PROVE  y \in Min(S)..Max(S)
    <2>1. y \in Nat /\ Min(S) \in Nat /\ Max(S) \in Nat
        BY <1>1, <1>2
    <2> QED BY <1>1, <1>2, <2>1
<1> QED BY <1>1, <1>2, <1>3

\* Stops nearer than the distance are in one cell, or in cells side by side.
LEMMA NearIfClose ==
    ASSUME NEW a \in Stops, NEW b \in Stops, TransferDistance > 0, Apart(a, b) < TransferDistance
    PROVE  Near(a, b)
<1> DEFINE x == Loc[a]
           y == Loc[b]
           d == TransferDistance
<1>1. x \in Nat /\ y \in Nat /\ d \in Nat /\ d > 0
    BY LocAssumption, NumbersAssumption
<1>2. x - y < d /\ y - x < d
    <2> HIDE DEF x, y
    <2>1. \E m \in {x - y, y - x} : \A k \in {x - y, y - x} : m >= k
        BY <1>1
    <2>2. Apart(a, b) = Max({x - y, y - x})
        BY DEF Apart, x, y
    <2>3. Max({x - y, y - x}) >= x - y /\ Max({x - y, y - x}) >= y - x /\ Max({x - y, y - x}) \in {x - y, y - x}
        BY <2>1 DEF Max
    <2> HIDE DEF d
    <2>4. Max({x - y, y - x}) < d
        BY <2>2 DEF d
    <2> QED BY <1>1, <2>3, <2>4
<1> HIDE DEF x, y, d
<1>3. \A n \in Nat : n \div d \in Nat /\ d * (n \div d) <= n /\ n < d * (n \div d) + d
    BY <1>1, SMTT(30)
<1>4. PICK p \in Nat, q \in Nat : p = x \div d /\ q = y \div d
    BY <1>1, <1>3
<1>5. d * p <= x /\ x < d * p + d /\ d * q <= y /\ y < d * q + d
    BY <1>1, <1>3, <1>4
<1>6. \A k \in Nat : k > 1 => d * k >= d + d
    <2>1. SUFFICES ASSUME NEW k \in Nat, k > 1
                   PROVE  d * k >= d + d
        OBVIOUS
    <2>2. PICK r \in Nat : k = r + 2
        BY <2>1
    <2>3. d * (r + 2) = d * r + d + d /\ d * r \in Nat
        BY <1>1
    <2> QED BY <1>1, <2>2, <2>3
<1>7. ~(p - q > 1)
    <2>1. SUFFICES ASSUME p - q > 1
                   PROVE  FALSE
        OBVIOUS
    <2>2. p - q \in Nat /\ d * (p - q) = d * p - d * q /\ d * p \in Nat /\ d * q \in Nat
        BY <1>1, <2>1
    <2>3. d * (p - q) >= d + d
        BY <1>6, <2>1, <2>2
    <2> QED BY <1>1, <1>2, <1>5, <2>2, <2>3
<1>8. ~(q - p > 1)
    <2>1. SUFFICES ASSUME q - p > 1
                   PROVE  FALSE
        OBVIOUS
    <2>2. q - p \in Nat /\ d * (q - p) = d * q - d * p /\ d * p \in Nat /\ d * q \in Nat
        BY <1>1, <2>1
    <2>3. d * (q - p) >= d + d
        BY <1>6, <2>1, <2>2
    <2> QED BY <1>1, <1>2, <1>5, <2>2, <2>3
<1>9. p - q \in -1..1
    BY <1>7, <1>8
<1> QED BY <1>4, <1>9 DEF Near, x, y, d

\* A calendar worked out from dates runs on those dates.
LEMMA CreateRuns ==
    ASSUME NEW exceptions, IsFiniteSet(exceptions), \A e \in exceptions : e.date \in Nat,
           Dates(exceptions, 1) # {}
    PROVE  DaysOf(Create(exceptions)) = Dates(exceptions, 1)
<1> DEFINE runs == Dates(exceptions, 1)
           span == Min(runs)..Max(runs)
           cal == Create(exceptions)
           off == {d \in span \ runs : DayOf(d) \in cal.days}
           on == {d \in runs : DayOf(d) \notin cal.days}
<1>1. runs \in SUBSET Nat
    BY DEF Dates
<1>2. IsFiniteSet(runs)
    <2> DEFINE those == {e \in exceptions : e.type = 1}
               pick == [e \in those |-> e.date]
    <2>1. IsFiniteSet(those)
        BY FS_Subset
    <2>2. pick \in Surjection(those, runs)
        BY DEF Surjection, Dates
    <2> QED BY <2>1, <2>2, FS_Surjection
<1>3. runs \subseteq span
    BY <1>1, <1>2, MinMax
<1>4. RangeOf(cal) = span
    BY DEF Create, RangeOf
<1>5. cal.exceptions = {[date |-> date, type |-> 2] : date \in off} \cup {[date |-> date, type |-> 1] : date \in on}
    BY DEF Create
<1> HIDE DEF cal, off, on, runs
<1>6. Dates(cal.exceptions, 2) = off /\ Dates(cal.exceptions, 1) = on
    <2>1. \A e \in cal.exceptions : (e.type = 2 /\ e.date \in off) \/ (e.type = 1 /\ e.date \in on)
        BY <1>5
    <2>2. ASSUME NEW date \in off
          PROVE  date \in Dates(cal.exceptions, 2)
        <3>1. [date |-> date, type |-> 2] \in cal.exceptions
            BY <1>5
        <3> QED BY <3>1 DEF Dates
    <2>3. ASSUME NEW date \in on
          PROVE  date \in Dates(cal.exceptions, 1)
        <3>1. [date |-> date, type |-> 1] \in cal.exceptions
            BY <1>5
        <3> QED BY <3>1 DEF Dates
    <2>4. ASSUME NEW date \in Dates(cal.exceptions, 2)
          PROVE  date \in off
        BY <2>1 DEF Dates
    <2>5. ASSUME NEW date \in Dates(cal.exceptions, 1)
          PROVE  date \in on
        BY <2>1 DEF Dates
    <2> QED BY <2>2, <2>3, <2>4, <2>5
<1>7. DaysOf(cal) = ({date \in span : DayOf(date) \in cal.days} \ off) \cup on
    BY <1>4, <1>6 DEF DaysOf
<1>8. DaysOf(cal) = runs
    <2> HIDE DEF span
    <2> QED BY <1>3, <1>7 DEF off, on
<1> QED BY <1>8 DEF cal, runs

\* What is read of a service is the dates ahead of those it says.
LEMMA ReadDates ==
    ASSUME NEW s, ValidService(s)
    PROVE  /\ IsFiniteSet(Read(s).exceptions) /\ \A e \in Read(s).exceptions : e.date \in Nat
           /\ \A type : /\ Dates(Read(s).exceptions, type) = Ahead(Dates(s.exceptions, type))
                        /\ Dates(s.exceptions, type) \subseteq Nat
           /\ Read(s).rows = {row \in s.rows : row.end >= FilterBefore /\ row.days # {}}
<1>1. Read(s).exceptions = {e \in s.exceptions : e.date >= FilterBefore}
      /\ Read(s).rows = {row \in s.rows : row.end >= FilterBefore /\ row.days # {}}
    BY DEF Read
<1>2. IsFiniteSet(s.exceptions) /\ \A e \in s.exceptions : e.date \in Nat
    BY DEF ValidService
<1>3. IsFiniteSet({e \in s.exceptions : e.date >= FilterBefore})
    BY <1>2, FS_Subset
<1>4. \A type : Dates({e \in s.exceptions : e.date >= FilterBefore}, type) = Ahead(Dates(s.exceptions, type))
    BY DEF Dates, Ahead
<1> QED BY <1>1, <1>2, <1>3, <1>4 DEF Dates

\* A service is written where a date is left, and as a calendar of just those dates.
LEMMA ToldIsGiven ==
    ASSUME NEW s, ValidService(s)
    PROVE  /\ Told(s) = {} => Ahead(DaysGiven(s)) = {}
           /\ \A cal \in Told(s) : Ahead(DaysOf(cal)) = Ahead(DaysGiven(s))
           /\ Told(s) # {} => CalendarOf(s) \in Told(s)
<1> DEFINE left == Read(s)
           As(row, exceptions) == [days |-> row.days, start |-> row.start, end |-> row.end, exceptions |-> exceptions]
           said == {As(row, left.exceptions) : row \in left.rows}
<1>0. Told(s) # {} => CalendarOf(s) \in Told(s)
    BY DEF CalendarOf
<1>1. Told(s) = IF \E cal \in said : RunsAtAll(cal) THEN said
                ELSE IF Dates(left.exceptions, 1) # {} THEN {Create(left.exceptions)} ELSE {}
    BY DEF Told
<1>2. /\ IsFiniteSet(left.exceptions) /\ \A e \in left.exceptions : e.date \in Nat
      /\ \A type : Dates(left.exceptions, type) = Ahead(Dates(s.exceptions, type))
                   /\ Dates(s.exceptions, type) \subseteq Nat
      /\ left.rows = {row \in s.rows : row.end >= FilterBefore /\ row.days # {}}
    BY ReadDates
<1>3. FilterBefore \in Nat
    BY NumbersAssumption
<1> HIDE DEF left
<1>4. CASE left.rows = {}
    <2>1. said = {}
        BY <1>4
    <2>2. Ahead(DaysGiven(s)) = Dates(left.exceptions, 1)
        <3>1. CASE s.rows = {}
            BY <1>2, <3>1 DEF DaysGiven
        <3>2. CASE s.rows # {}
            <4>1. PICK row \in s.rows : s.rows = {row}
                BY <3>2 DEF ValidService
            <4>2. row.start \in Nat /\ row.end \in Nat /\ (~(row.end >= FilterBefore) \/ row.days = {})
                BY <1>2, <1>4 DEF ValidService
            <4> DEFINE cal == As(row, s.exceptions)
            <4>3. DaysGiven(s) = DaysOf(cal)
                BY <4>1 DEF DaysGiven
            <4>4. DaysOf(cal) = ({date \in row.start..row.end : DayOf(date) \in row.days} \ Dates(s.exceptions, 2))
                                    \cup Dates(s.exceptions, 1)
                BY DEF DaysOf, RangeOf
            <4>5. \A date \in row.start..row.end : DayOf(date) \in row.days => ~(date >= FilterBefore)
                BY <1>3, <4>2
            <4>6. Ahead(DaysOf(cal)) = Ahead(Dates(s.exceptions, 1))
                BY <4>4, <4>5 DEF Ahead
            <4> QED BY <1>2, <4>3, <4>6
        <3> QED BY <3>1, <3>2
    <2>3. Told(s) = IF Dates(left.exceptions, 1) # {} THEN {Create(left.exceptions)} ELSE {}
        BY <1>1, <2>1
    <2>4. Ahead(Dates(left.exceptions, 1)) = Dates(left.exceptions, 1)
        BY <1>2 DEF Ahead
    <2>5. Dates(left.exceptions, 1) # {} => DaysOf(Create(left.exceptions)) = Dates(left.exceptions, 1)
        BY <1>2, CreateRuns
    <2> QED BY <1>0, <2>2, <2>3, <2>4, <2>5
<1>5. CASE left.rows # {}
    <2>1. PICK row \in s.rows : s.rows = {row} /\ left.rows = {row}
        BY <1>2, <1>5 DEF ValidService
    <2>2. row.start \in Nat /\ row.end \in Nat
        BY DEF ValidService
    <2> DEFINE cal == As(row, left.exceptions)
               told == As(row, s.exceptions)
               range == {date \in row.start..row.end : DayOf(date) \in row.days}
    <2>3. said = {cal}
        BY <2>1
    <2>4. DaysGiven(s) = DaysOf(told)
        BY <2>1 DEF DaysGiven
    <2>5. DaysOf(told) = (range \ Dates(s.exceptions, 2)) \cup Dates(s.exceptions, 1)
          /\ DaysOf(cal) = (range \ Dates(left.exceptions, 2)) \cup Dates(left.exceptions, 1)
        BY DEF DaysOf, RangeOf
    <2>6. Ahead(DaysOf(cal)) = Ahead(DaysOf(told))
        <3> HIDE DEF cal, told, range
        <3> QED BY <1>2, <2>5 DEF Ahead
    <2>7. RunsAtAll(cal) <=> Dates(left.exceptions, 1) # {} \/ range \ Dates(left.exceptions, 2) # {}
        BY DEF RunsAtAll, RangeOf
    <2>8. CASE RunsAtAll(cal)
        <3>1. Told(s) = {cal}
            BY <1>1, <2>3, <2>8
        <3> QED BY <1>0, <2>4, <2>6, <3>1
    <2>9. CASE ~RunsAtAll(cal)
        <3>1. Told(s) = {}
            BY <1>1, <2>3, <2>7, <2>9
        <3>2. DaysOf(cal) = {}
            BY <2>5, <2>7, <2>9
        <3>3. Ahead(DaysOf(cal)) = {}
            BY <3>2 DEF Ahead
        <3> HIDE DEF cal, told
        <3> QED BY <1>0, <2>4, <2>6, <3>1, <3>3
    <2> QED BY <2>8, <2>9
<1> QED BY <1>4, <1>5

-----------------------------------------------------------------------------
(* Feeds, and how far each file of the output is *)

\* The feed in hand is one of a list of valid ones.
LEMMA FeedsType ==
    ASSUME Shape
    PROVE  /\ Len(feeds) \in Nat /\ DOMAIN feeds = 1..Len(feeds)
           /\ at \in Nat /\ at > 0 /\ at <= Len(feeds) /\ at - 1 \in Nat /\ 1..at \subseteq DOMAIN feeds
           /\ ValidFeed(feed) /\ \A f \in 1..Len(feeds) : f \in Nat /\ ValidFeed(feeds[f])
<1>1. IsList(feeds) /\ \A f \in DOMAIN feeds : ValidFeed(feeds[f])
    BY InputsAssumption DEF Shape
<1>2. Len(feeds) \in Nat /\ DOMAIN feeds = 1..Len(feeds)
    BY <1>1 DEF IsList
<1>3. at \in Nat /\ at > 0 /\ at <= Len(feeds) /\ at - 1 \in Nat
    <2>1. at \in 1..Len(feeds)
        BY DEF Shape
    <2> QED BY <1>2, <2>1
<1>4. 1..at \subseteq DOMAIN feeds
    BY <1>2, <1>3
<1> QED BY <1>1, <1>2, <1>3, <1>4 DEF feed

\* The stages follow one another.
LEMMA ShapeStep ==
    ASSUME Shape, [Next]_vars
    PROVE  Shape' /\ feeds' = feeds
<1> USE DEF Shape
<1>1. CASE WriteRoutes
    BY <1>1 DEF WriteRoutes
<1>2. CASE WriteCalendars
    BY <1>2 DEF WriteCalendars
<1>3. CASE WriteTrips
    BY <1>3 DEF WriteTrips
<1>4. CASE ReadCall
    BY <1>4 DEF ReadCall
<1>5. CASE Flush
    BY <1>5 DEF Flush
<1>6. CASE EndCalls
    BY <1>6 DEF EndCalls
<1>7. CASE WriteStops
    BY <1>7 DEF WriteStops
<1>8. CASE WriteAreas
    BY <1>8 DEF WriteAreas
<1>9. CASE EndFeed
    BY <1>9, FeedsType DEF EndFeed
<1>10. CASE End
    BY <1>10 DEF End
<1>11. CASE UNCHANGED vars
    BY <1>11 DEF vars
<1> QED BY <1>1, <1>2, <1>3, <1>4, <1>5, <1>6, <1>7, <1>8, <1>9, <1>10, <1>11 DEF Next

\* What a step leaves alone that is not the merger of a file.
RoutesSame ==
    /\ UNCHANGED <<routes, routeIds>>
    /\ RoutesDone' = RoutesDone /\ (RoutesDone' = at' => RoutesDone = at /\ at' = at)
CalendarsSame ==
    /\ UNCHANGED <<calendars, serviceIds>>
    /\ CalendarsDone' = CalendarsDone /\ (CalendarsDone' = at' => CalendarsDone = at /\ at' = at)
TripsSame ==
    /\ UNCHANGED <<trips, blocks, tripIds>>
    /\ TripsDone' = TripsDone /\ (TripsDone' = at' => TripsDone = at /\ at' = at)
CallsSame ==
    /\ UNCHANGED <<line, batch, used, stopTimes, trips>>
    /\ TripsDone' = TripsDone
    /\ at' = at \/ (stage = "places" /\ stage' = "services" /\ at' = at + 1)
    /\ stage' \in {"places", "ended"} /\ stage \notin {"places", "ended"} => line = Len(feeds[at].calls)
    /\ stage' # "calls" => batch = << >>
PlacesSame ==
    /\ UNCHANGED <<published, parents, located, codes>>
    /\ StopsDone' = StopsDone
GroupsSame ==
    /\ UNCHANGED <<areas, groupable, memberships>>
    /\ AreasDone' = AreasDone

\* Every step is the merger of a file or leaves the file alone, and where it was.
LEMMA Frames ==
    ASSUME Shape, CallsInv, [Next]_vars
    PROVE  /\ WriteRoutes \/ RoutesSame
           /\ WriteCalendars \/ CalendarsSame
           /\ WriteTrips \/ TripsSame
           /\ WriteTrips \/ ReadCall \/ Flush \/ CallsSame
           /\ WriteStops \/ (PlacesSame /\ transfers' = transfers)
           /\ WriteAreas \/ GroupsSame
<1> USE DEF RoutesSame, CalendarsSame, TripsSame, CallsSame, PlacesSame, GroupsSame,
            RoutesDone, CalendarsDone, TripsDone, StopsDone, AreasDone, Shape,
            ids, calls, services, vehicles, places, groups
<1>0. at \in Nat /\ (stage # "calls" => batch = << >>)
    BY FeedsType DEF CallsInv
<1>1. CASE WriteRoutes
    BY <1>0, <1>1 DEF WriteRoutes
<1>2. CASE WriteCalendars
    BY <1>0, <1>2 DEF WriteCalendars
<1>3. CASE WriteTrips
    BY <1>0, <1>3 DEF WriteTrips
<1>4. CASE ReadCall
    BY <1>0, <1>4 DEF ReadCall
<1>5. CASE Flush
    BY <1>0, <1>5 DEF Flush
<1>6. CASE EndCalls
    BY <1>0, <1>6 DEF EndCalls, feed
<1>7. CASE WriteStops
    BY <1>0, <1>7 DEF WriteStops
<1>8. CASE WriteAreas
    BY <1>0, <1>8 DEF WriteAreas
<1>9. CASE EndFeed
    BY <1>0, <1>9 DEF EndFeed
<1>10. CASE End
    BY <1>0, <1>10 DEF End
<1>11. CASE UNCHANGED vars
    BY <1>0, <1>11 DEF vars
<1> QED BY <1>1, <1>2, <1>3, <1>4, <1>5, <1>6, <1>7, <1>8, <1>9, <1>10, <1>11 DEF Next

\* What a function makes of finitely many things is finitely many.
LEMMA FiniteImage ==
    ASSUME NEW f, IsFiniteSet(DOMAIN f)
    PROVE  IsFiniteSet({f[x] : x \in DOMAIN f})
<1> DEFINE pick == [x \in DOMAIN f |-> f[x]]
<1>1. pick \in Surjection(DOMAIN f, {f[x] : x \in DOMAIN f})
    BY DEF Surjection
<1> QED BY <1>1, FS_Surjection

\* A list holds finitely many things.
LEMMA FiniteList ==
    ASSUME NEW list, IsList(list)
    PROVE  IsFiniteSet(ToSet(list))
BY ListType, FiniteImage DEF ToSet

\* Two lists one after the other, and what is in them.
LEMMA ConcatIs ==
    ASSUME NEW s, IsSeq(s), NEW t, IsSeq(t)
    PROVE  /\ IsSeq(s \o t) /\ ToSet(s \o t) = ToSet(s) \cup ToSet(t)
           /\ DOMAIN s \subseteq DOMAIN (s \o t) /\ \A i \in DOMAIN s : (s \o t)[i] = s[i]
           /\ \A i \in DOMAIN (s \o t) : i \notin DOMAIN s =>
                i \in Nat /\ i - Len(s) \in DOMAIN t /\ (s \o t)[i] = t[i - Len(s)]
           /\ \A i \in DOMAIN s, j \in DOMAIN (s \o t) : j \notin DOMAIN s => i < j
<1> DEFINE S == ToSet(s) \cup ToSet(t)
<1>1. s \in Seq(S) /\ t \in Seq(S)
    <2>1. ToSet(s) \subseteq S /\ ToSet(t) \subseteq S
        OBVIOUS
    <2> HIDE DEF S
    <2> QED BY <2>1, SeqMonotonic DEF IsSeq
<1>2. /\ s \o t \in Seq(S) /\ ToSet(s \o t) = S
      /\ DOMAIN s \subseteq DOMAIN (s \o t) /\ \A i \in DOMAIN s : (s \o t)[i] = s[i]
      /\ \A i \in DOMAIN (s \o t) : i \notin DOMAIN s =>
           i \in Nat /\ i - Len(s) \in DOMAIN t /\ (s \o t)[i] = t[i - Len(s)]
      /\ \A i \in DOMAIN s, j \in DOMAIN (s \o t) : j \notin DOMAIN s => i < j
    <2> HIDE DEF S
    <2>1. ToSet(s \o t) = ToSet(s) \cup ToSet(t)
        BY <1>1, Concat
    <2>2. ToSet(s \o t) = S
        BY <2>1 DEF S
    <2> QED BY <1>1, <2>2, Concat
<1>3. IsSeq(s \o t)
    <2> HIDE DEF S
    <2> QED BY <1>2 DEF IsSeq
<1> QED BY <1>2, <1>3

-----------------------------------------------------------------------------
(* RouteMerger, CalendarMerger *)

\* What a feed says of a service it lists once is found by its id.
LEMMA RunningOnce ==
    ASSUME NEW g, ValidFeed(g), NEW s \in Running(g), NEW r \in Running(g), s.id = r.id
    PROVE  s = r
BY DEF Running, ToSet, ValidFeed, OneOfEach

\* Routes are numbered on from those of the feeds before.
LEMMA WriteRoutesRoutes ==
    ASSUME Shape, RoutesInv, WriteRoutes
    PROVE  RoutesInv' /\ routes \subseteq routes'
<1> DEFINE list == feed.routes
           kept == KeptRoutes(feed)
           n == Cardinality(routes)
           row == [i \in kept |-> [id |-> routeIds'[list[i].id], from |-> <<at, list[i].id>>]]
<1>1. feeds' = feeds /\ at' = at /\ stage' = "services" /\ RoutesDone = at - 1 /\ RoutesDone' = at
    BY FeedsType DEF WriteRoutes, RoutesDone, Shape
<1>2. OneOfEach(list) /\ kept \subseteq DOMAIN list /\ n \in Nat /\ at \in Nat /\ 1..at - 1 \subseteq 1..at /\ at \in 1..at
    BY FeedsType, FS_CardinalityType DEF ValidFeed, KeptRoutes, RoutesInv, Counted
<1>3. routeIds' = Numbered(list, kept, n)
    BY DEF WriteRoutes, KeptRoutes
<1>4. routes' = routes \cup {[id |-> routeIds'[list[i].id], from |-> <<at, list[i].id>>] : i \in kept}
    BY DEF WriteRoutes, KeptRoutes
<1> HIDE DEF list, kept, n
<1>5. /\ IsFiniteSet(kept)
      /\ DOMAIN routeIds' = {list[i].id : i \in kept}
      /\ \A i \in kept : routeIds'[list[i].id] \in n + 1..n + Cardinality(kept)
      /\ \A i, j \in kept : routeIds'[list[i].id] = routeIds'[list[j].id] => i = j
    <2>1. /\ IsFiniteSet(kept)
          /\ DOMAIN Numbered(list, kept, n) = {list[i].id : i \in kept}
          /\ \A i \in kept : Numbered(list, kept, n)[list[i].id] \in n + 1..n + Cardinality(kept)
          /\ \A i, j \in kept : Numbered(list, kept, n)[list[i].id] = Numbered(list, kept, n)[list[j].id] => i = j
        BY <1>2, NumberedAs
    <2> QED BY <1>3, <2>1
<1>6. \A i \in kept : row[i] = [id |-> routeIds'[list[i].id], from |-> <<at, list[i].id>>]
    OBVIOUS
<1>7. DOMAIN row = kept /\ \A i \in kept : row[i].id = routeIds'[list[i].id] /\ row[i].from = <<at, list[i].id>>
    OBVIOUS
<1>8. routes' = routes \cup {row[i] : i \in kept}
    BY <1>4, <1>6
<1> HIDE DEF row
<1>9. Counted(routes')
    <2>1. Counted(routes) /\ n = Cardinality(routes)
        BY DEF RoutesInv, n
    <2> QED BY <1>5, <1>7, <1>8, <2>1, CountedMore
<1>10. ASSUME NEW r \in routes'
       PROVE  \E f \in 1..RoutesDone' : \E i \in KeptRoutes(feeds'[f]) : r.from = <<f, feeds'[f].routes[i].id>>
    <2>1. CASE r \in routes
        <3>1. PICK f \in 1..at - 1 : \E i \in KeptRoutes(feeds[f]) : r.from = <<f, feeds[f].routes[i].id>>
            BY <1>1, <2>1 DEF RoutesInv
        <3> QED BY <1>1, <1>2, <3>1
    <2>2. CASE r \notin routes
        <3>1. PICK i \in kept : r = row[i]
            BY <1>8, <2>2
        <3>2. i \in KeptRoutes(feeds'[at]) /\ r.from = <<at, feeds'[at].routes[i].id>>
            BY <1>1, <1>7, <3>1 DEF kept, list, feed
        <3> QED BY <1>1, <1>2, <3>2
    <2> QED BY <2>1, <2>2
<1>11. DOMAIN routeIds' = {feeds'[at'].routes[i].id : i \in KeptRoutes(feeds'[at'])}
    BY <1>1, <1>5 DEF kept, list, feed
<1>12. ASSUME NEW id \in DOMAIN routeIds'
       PROVE  [id |-> routeIds'[id], from |-> <<at', id>>] \in routes'
    <2>1. PICK i \in kept : id = list[i].id
        BY <1>5
    <2>2. row[i] \in routes' /\ row[i] = [id |-> routeIds'[list[i].id], from |-> <<at, list[i].id>>]
        BY <1>6, <1>8 DEF row
    <2> QED BY <1>1, <2>1, <2>2
<1> QED BY <1>8, <1>9, <1>10, <1>11, <1>12 DEF RoutesInv

\* Routes already written stay as they are.
LEMMA RoutesStep ==
    ASSUME Shape, RoutesInv, CallsInv, [Next]_vars
    PROVE  RoutesInv' /\ routes \subseteq routes'
<1>1. feeds' = feeds
    BY ShapeStep
<1>2. CASE RoutesSame
    BY <1>1, <1>2 DEF RoutesInv, RoutesSame
<1> QED BY <1>2, Frames, WriteRoutesRoutes

\* Calendars that say something new are written behind the others.
LEMMA WriteCalendarsCalendars ==
    ASSUME Shape, CalendarsInv, WriteCalendars
    PROVE  /\ CalendarsInv'
           /\ DOMAIN calendars \subseteq DOMAIN calendars' /\ \A i \in DOMAIN calendars : calendars'[i] = calendars[i]
<1> DEFINE told == Running(feed)
           fresh == {cal \in {CalendarOf(s) : s \in told} : ~ \E c \in ToSet(calendars) : SameService(c, cal)}
<1>1. feeds' = feeds /\ at' = at /\ CalendarsDone' = at'
    BY DEF WriteCalendars, CalendarsDone
<1>2. calendars' = calendars \o SetToSeq(fresh)
    BY DEF WriteCalendars, Running
<1>3. serviceIds' = [id \in {s.id : s \in told} |->
            CHOOSE i \in DOMAIN calendars' : \E s \in told : s.id = id /\ SameService(calendars'[i], CalendarOf(s))]
    BY DEF WriteCalendars, Running
<1>4. IsFiniteSet(fresh)
    <2>1. IsFiniteSet(ToSet(feed.services))
        BY FeedsType, FiniteList DEF ValidFeed, OneOfEach
    <2>2. IsFiniteSet(told)
        BY <2>1, FS_Subset DEF Running
    <2> DEFINE cals == [s \in told |-> CalendarOf(s)]
    <2>3. IsFiniteSet({cals[s] : s \in DOMAIN cals})
        <3> HIDE DEF told
        <3>1. DOMAIN cals = told
            OBVIOUS
        <3> HIDE DEF cals
        <3> QED BY <2>2, <3>1, FiniteImage
    <2>4. fresh \subseteq {cals[s] : s \in DOMAIN cals}
        OBVIOUS
    <2> HIDE DEF fresh, cals
    <2> QED BY <2>3, <2>4, FS_Subset
<1> HIDE DEF fresh, told
<1>5. IsSeq(SetToSeq(fresh)) /\ ToSet(SetToSeq(fresh)) = fresh
    BY <1>4, SeqOfSet DEF IsSeq
<1>6. /\ IsSeq(calendars') /\ ToSet(calendars') = ToSet(calendars) \cup fresh
      /\ DOMAIN calendars \subseteq DOMAIN calendars' /\ \A i \in DOMAIN calendars : calendars'[i] = calendars[i]
    <2>1. IsSeq(calendars)
        BY DEF CalendarsInv
    <2> DEFINE tail == SetToSeq(fresh)
    <2>2. calendars' = calendars \o tail /\ IsSeq(tail) /\ ToSet(tail) = fresh
        BY <1>2, <1>5
    <2> HIDE DEF tail
    <2>3. /\ IsSeq(calendars \o tail) /\ ToSet(calendars \o tail) = ToSet(calendars) \cup ToSet(tail)
          /\ DOMAIN calendars \subseteq DOMAIN (calendars \o tail)
          /\ \A i \in DOMAIN calendars : (calendars \o tail)[i] = calendars[i]
        BY <2>1, <2>2, ConcatIs
    <2> QED BY <2>2, <2>3
<1>7. ASSUME NEW s \in told
      PROVE  serviceIds'[s.id] \in DOMAIN calendars' /\ calendars'[serviceIds'[s.id]] = CalendarOf(s)
    <2>1. CalendarOf(s) \in ToSet(calendars')
        BY <1>6, <1>7 DEF SameService, fresh
    <2>2. PICK i \in DOMAIN calendars' : calendars'[i] = CalendarOf(s)
        BY <2>1 DEF ToSet
    <2> DEFINE j == serviceIds'[s.id]
    <2>3. j \in DOMAIN calendars' /\ \E r \in told : r.id = s.id /\ SameService(calendars'[j], CalendarOf(r))
        <3>1. \E k \in DOMAIN calendars' : \E r \in told : r.id = s.id /\ SameService(calendars'[k], CalendarOf(r))
            BY <2>2 DEF SameService
        <3>2. j = CHOOSE k \in DOMAIN calendars' : \E r \in told : r.id = s.id /\ SameService(calendars'[k], CalendarOf(r))
            BY <1>3
        <3> HIDE DEF j
        <3> QED BY <3>1, <3>2
    <2> HIDE DEF j
    <2>4. PICK r \in told : r.id = s.id /\ calendars'[j] = CalendarOf(r)
        BY <2>3 DEF SameService
    <2>5. r = s
        BY <2>4, RunningOnce, FeedsType DEF told
    <2> QED BY <2>3, <2>4, <2>5 DEF j
<1>8. told = Running(feeds'[at'])
    BY <1>1 DEF told, feed
<1>9. DOMAIN serviceIds' = {s.id : s \in told}
    BY <1>3
<1> QED BY <1>6, <1>7, <1>8, <1>9 DEF CalendarsInv

\* Calendars already written stay where they are.
LEMMA CalendarsStep ==
    ASSUME Shape, CalendarsInv, CallsInv, [Next]_vars
    PROVE  /\ CalendarsInv'
           /\ DOMAIN calendars \subseteq DOMAIN calendars' /\ \A i \in DOMAIN calendars : calendars'[i] = calendars[i]
<1>1. feeds' = feeds
    BY ShapeStep
<1>2. CASE CalendarsSame
    BY <1>1, <1>2 DEF CalendarsInv, CalendarsSame
<1> QED BY <1>2, Frames, WriteCalendarsCalendars

-----------------------------------------------------------------------------
(* TripsMerger *)

\* A trip written stays one of its feed's while the other files grow.
LEMMA IsTripStays ==
    ASSUME UNCHANGED feeds, routes \subseteq routes',
           DOMAIN calendars \subseteq DOMAIN calendars', \A i \in DOMAIN calendars : calendars'[i] = calendars[i],
           DOMAIN blocks \subseteq DOMAIN blocks', \A i \in DOMAIN blocks : blocks'[i] = blocks[i],
           NEW t, NEW f, NEW k, IsTrip(t, f, k)
    PROVE  IsTrip(t, f, k)'
<1>1. /\ t.from = <<f, feeds[f].trips[k].id>>
      /\ [id |-> t.route, from |-> <<f, feeds[f].trips[k].route>>] \in routes'
      /\ t.service \in DOMAIN calendars'
      /\ feeds[f].trips[k].block = None => t.block = None
      /\ feeds[f].trips[k].block # None =>
           t.block \in DOMAIN blocks' /\ blocks'[t.block] = <<f, feeds[f].trips[k].block>>
    BY DEF IsTrip
<1>2. \E s \in Running(feeds[f]) : s.id = feeds[f].trips[k].service /\ calendars'[t.service] = CalendarOf(s)
    BY DEF IsTrip
<1> QED BY <1>1, <1>2 DEF IsTrip

\* Every vehicle of a feed has a line among the blocks, and no two share one.
LEMMA WriteTripsBlocks ==
    ASSUME Shape, TripsInv, WriteTrips
    PROVE  /\ IsSeq(blocks') /\ \A i, j \in DOMAIN blocks' : blocks'[i] = blocks'[j] => i = j
           /\ DOMAIN blocks \subseteq DOMAIN blocks' /\ \A i \in DOMAIN blocks : blocks'[i] = blocks[i]
           /\ \A k \in DOMAIN feed.trips :
                /\ feed.trips[k].service \in DOMAIN serviceIds /\ feed.trips[k].route \in DOMAIN routeIds
                /\ feed.trips[k].block # None
                => \E i \in DOMAIN blocks' : blocks'[i] = BlockOf(feed.trips[k].block)
<1> DEFINE kept == {i \in DOMAIN feed.trips : /\ feed.trips[i].service \in DOMAIN serviceIds
                                              /\ feed.trips[i].route \in DOMAIN routeIds}
           rows == {feed.trips[i] : i \in kept}
           named == {BlockOf(trip.block) : trip \in {t \in rows : t.block # None}}
           fresh == named \ ToSet(blocks)
           tail == SetToSeq(fresh)
<1>1. blocks' = blocks \o tail
    BY DEF WriteTrips
<1>2. IsFiniteSet(fresh)
    <2> DEFINE all == ToSet(feed.trips)
               vehicle == [t \in all |-> BlockOf(t.block)]
    <2>1. IsFiniteSet(all)
        BY FeedsType, FiniteList DEF ValidFeed, OneOfEach
    <2>2. rows \subseteq all
        BY DEF ToSet
    <2> HIDE DEF all, rows
    <2>3. DOMAIN vehicle = all /\ named \subseteq {vehicle[t] : t \in DOMAIN vehicle}
        BY <2>2
    <2> HIDE DEF vehicle, named
    <2>4. IsFiniteSet({vehicle[t] : t \in DOMAIN vehicle})
        BY <2>1, <2>3, FiniteImage
    <2> QED BY <2>3, <2>4, FS_Subset
<1> HIDE DEF fresh
<1>3. IsSeq(tail) /\ ToSet(tail) = fresh /\ \A i, j \in DOMAIN tail : tail[i] = tail[j] => i = j
    BY <1>2, SeqOfSet DEF IsSeq
<1>4. IsSeq(blocks) /\ \A i, j \in DOMAIN blocks : blocks[i] = blocks[j] => i = j
    BY DEF TripsInv
<1> HIDE DEF tail
<1>5. /\ IsSeq(blocks \o tail) /\ ToSet(blocks \o tail) = ToSet(blocks) \cup ToSet(tail)
      /\ DOMAIN blocks \subseteq DOMAIN (blocks \o tail)
      /\ \A i \in DOMAIN blocks : (blocks \o tail)[i] = blocks[i]
      /\ \A i \in DOMAIN (blocks \o tail) : i \notin DOMAIN blocks =>
            i \in Nat /\ i - Len(blocks) \in DOMAIN tail /\ (blocks \o tail)[i] = tail[i - Len(blocks)]
    BY <1>3, <1>4, ConcatIs
<1>6. /\ IsSeq(blocks') /\ ToSet(blocks') = ToSet(blocks) \cup fresh
      /\ DOMAIN blocks \subseteq DOMAIN blocks' /\ \A i \in DOMAIN blocks : blocks'[i] = blocks[i]
      /\ \A i \in DOMAIN blocks' : i \notin DOMAIN blocks =>
            i \in Nat /\ i - Len(blocks) \in DOMAIN tail /\ blocks'[i] = tail[i - Len(blocks)]
    BY <1>1, <1>3, <1>5
<1>7. Len(blocks) \in Nat
    BY <1>4, LenProperties DEF IsSeq
<1>8. ASSUME NEW i \in DOMAIN blocks', NEW j \in DOMAIN blocks', blocks'[i] = blocks'[j]
      PROVE  i = j
    <2>1. \A m \in DOMAIN blocks : blocks'[m] \in ToSet(blocks)
        BY <1>6 DEF ToSet
    <2>2. ASSUME NEW m \in DOMAIN blocks', m \notin DOMAIN blocks
          PROVE  blocks'[m] \notin ToSet(blocks)
        <3>1. blocks'[m] \in ToSet(tail)
            BY <1>6, <2>2 DEF ToSet
        <3> QED BY <1>3, <3>1 DEF fresh
    <2>3. CASE i \in DOMAIN blocks /\ j \in DOMAIN blocks
        BY <1>4, <1>6, <1>8, <2>3
    <2>4. CASE i \notin DOMAIN blocks /\ j \notin DOMAIN blocks
        <3>1. i - Len(blocks) = j - Len(blocks)
            BY <1>3, <1>6, <1>8, <2>4
        <3>2. i \in Nat /\ j \in Nat
            BY <1>6, <2>4
        <3> QED BY <1>7, <3>1, <3>2
    <2> QED BY <1>8, <2>1, <2>2, <2>3, <2>4
<1>9. ASSUME NEW k \in kept, feed.trips[k].block # None
      PROVE  \E i \in DOMAIN blocks' : blocks'[i] = BlockOf(feed.trips[k].block)
    <2>1. BlockOf(feed.trips[k].block) \in named
        <3>1. feed.trips[k] \in rows
            OBVIOUS
        <3> HIDE DEF rows
        <3> QED BY <1>9, <3>1
    <2> HIDE DEF named
    <2>2. BlockOf(feed.trips[k].block) \in ToSet(blocks')
        BY <1>6, <2>1 DEF fresh
    <2> QED BY <2>2 DEF ToSet
<1> QED BY <1>6, <1>8, <1>9

\* Trips are numbered on from those of the feeds before, each of its feed's route,
\* service and vehicle.
LEMMA WriteTripsTrips ==
    ASSUME Shape, RoutesInv, CalendarsInv, TripsInv, WriteTrips
    PROVE  TripsInv' /\ trips \subseteq trips'
<1> DEFINE list == feed.trips
           kept == KeptTrips(feed)
           n == Cardinality(trips)
           block(t) == IF t.block = None THEN None ELSE CHOOSE i \in DOMAIN blocks' : blocks'[i] = BlockOf(t.block)
           rowOf(t) == [id |-> tripIds'[t.id], service |-> serviceIds[t.service], route |-> routeIds[t.route],
                        block |-> block(t), from |-> <<at, t.id>>]
           row == [i \in kept |-> rowOf(list[i])]
<1>1. /\ UNCHANGED <<feeds, at, routes, calendars, routeIds, serviceIds>> /\ feed' = feed
      /\ stage = "services" /\ todo = {} /\ stage' = "calls"
    BY DEF WriteTrips, services, feed
<1>2. /\ at \in Nat /\ TripsDone = at - 1 /\ TripsDone' = at /\ RoutesDone = at /\ CalendarsDone = at
      /\ 1..at - 1 \subseteq 1..at /\ at \in 1..at /\ at \notin 1..at - 1
    BY <1>1, FeedsType DEF TripsDone, RoutesDone, CalendarsDone
<1>3. /\ DOMAIN routeIds = {feed.routes[i].id : i \in KeptRoutes(feed)}
      /\ \A id \in DOMAIN routeIds : [id |-> routeIds[id], from |-> <<at, id>>] \in routes
    BY <1>2 DEF RoutesInv, feed
<1>4. /\ DOMAIN serviceIds = {s.id : s \in Running(feed)}
      /\ \A s \in Running(feed) :
            serviceIds[s.id] \in DOMAIN calendars /\ calendars[serviceIds[s.id]] = CalendarOf(s)
    BY <1>2 DEF CalendarsInv, feed
<1>5. kept = {i \in DOMAIN list : list[i].service \in DOMAIN serviceIds /\ list[i].route \in DOMAIN routeIds}
    BY <1>3, <1>4 DEF KeptTrips
<1>6. OneOfEach(list) /\ kept \subseteq DOMAIN list /\ n \in Nat
    BY FeedsType, FS_CardinalityType DEF ValidFeed, KeptTrips, TripsInv, Counted
<1>7. tripIds' = Numbered(list, kept, n)
    BY <1>5 DEF WriteTrips
<1>8. trips' = trips \cup {row[i] : i \in kept}
    <2>1. trips' = trips \cup {rowOf(t) : t \in {list[i] : i \in kept}}
        BY <1>5 DEF WriteTrips
    <2> HIDE DEF rowOf, list, kept
    <2> QED BY <2>1
<1> HIDE DEF list, kept, n
<1> HIDE DEF block
<1>9. /\ IsFiniteSet(kept)
      /\ DOMAIN tripIds' = {list[i].id : i \in kept}
      /\ \A i \in kept : tripIds'[list[i].id] \in n + 1..n + Cardinality(kept)
      /\ \A i, j \in kept : tripIds'[list[i].id] = tripIds'[list[j].id] => i = j
    <2>1. /\ IsFiniteSet(kept)
          /\ DOMAIN Numbered(list, kept, n) = {list[i].id : i \in kept}
          /\ \A i \in kept : Numbered(list, kept, n)[list[i].id] \in n + 1..n + Cardinality(kept)
          /\ \A i, j \in kept : Numbered(list, kept, n)[list[i].id] = Numbered(list, kept, n)[list[j].id] => i = j
        BY <1>6, NumberedAs
    <2> QED BY <1>7, <2>1
<1>10. ASSUME NEW i \in kept
       PROVE  /\ row[i].id = tripIds'[list[i].id] /\ row[i].from = <<at, list[i].id>>
              /\ row[i].service = serviceIds[list[i].service] /\ row[i].route = routeIds[list[i].route]
              /\ row[i].block = block(list[i])
    <2>1. row[i] = rowOf(list[i])
        OBVIOUS
    <2> HIDE DEF row
    <2> QED BY <2>1
<1>11. DOMAIN row = kept
    OBVIOUS
<1> HIDE DEF row, rowOf
<1>12. Counted(trips')
    <2>1. Counted(trips) /\ n = Cardinality(trips)
        BY DEF TripsInv, n
    <2>2. \A i \in kept : row[i].id = tripIds'[list[i].id]
        BY <1>10
    <2>3. /\ \A i \in kept : row[i].id \in n + 1..n + Cardinality(kept)
          /\ \A i, j \in kept : row[i].id = row[j].id => i = j
        BY <1>9, <2>2
    <2> QED BY <1>8, <1>9, <1>11, <2>1, <2>3, CountedMore
<1>13. ASSUME NEW i \in kept, NEW t, t = row[i]
       PROVE  IsTrip(t, at, i)'
    <2>1. i \in DOMAIN list /\ list[i].service \in DOMAIN serviceIds /\ list[i].route \in DOMAIN routeIds
        BY <1>5
    <2>2. PICK s \in Running(feed) : s.id = list[i].service
        BY <1>4, <2>1
    <2>3. t.service \in DOMAIN calendars' /\ calendars'[t.service] = CalendarOf(s)
        BY <1>1, <1>4, <1>10, <1>13, <2>2
    <2>4. [id |-> t.route, from |-> <<at, list[i].route>>] \in routes'
        BY <1>1, <1>3, <1>10, <1>13, <2>1
    <2>5. list[i].block = None => t.block = None
        BY <1>10, <1>13 DEF block
    <2>6. ASSUME list[i].block # None
          PROVE  t.block \in DOMAIN blocks' /\ blocks'[t.block] = <<at, list[i].block>>
        <3>1. \E j \in DOMAIN blocks' : blocks'[j] = BlockOf(list[i].block)
            BY <2>1, <2>6, WriteTripsBlocks DEF list
        <3>2. t.block = CHOOSE j \in DOMAIN blocks' : blocks'[j] = BlockOf(list[i].block)
            BY <1>10, <1>13, <2>6 DEF block
        <3>3. t.block \in DOMAIN blocks' /\ blocks'[t.block] = BlockOf(list[i].block)
            BY <3>1, <3>2
        <3> QED BY <3>3 DEF BlockOf
    <2>7. list = feeds'[at].trips /\ Running(feed) = Running(feeds'[at])
        BY <1>1 DEF list, feed
    <2>8. t.from = <<at, list[i].id>>
        BY <1>10, <1>13
    <2>9. at' = at
        BY <1>1
    <2> QED BY <2>2, <2>3, <2>4, <2>5, <2>6, <2>7, <2>8, <2>9 DEF IsTrip
<1>14. kept = KeptTrips(feeds'[at]) /\ list = feeds'[at].trips
    BY <1>1 DEF kept, list, feed
<1>15. ASSUME NEW t \in trips'
       PROVE  \E f \in 1..TripsDone' : \E k \in KeptTrips(feeds'[f]) : IsTrip(t, f, k)'
    <2>1. CASE t \in trips
        <3>1. PICK f \in 1..at - 1 : \E k \in KeptTrips(feeds[f]) : IsTrip(t, f, k)
            BY <1>2, <2>1 DEF TripsInv
        <3>2. PICK k \in KeptTrips(feeds[f]) : IsTrip(t, f, k)
            BY <3>1
        <3>3. IsTrip(t, f, k)'
            BY <1>1, <3>2, WriteTripsBlocks, IsTripStays
        <3>4. f \in 1..TripsDone' /\ k \in KeptTrips(feeds'[f])
            BY <1>1, <1>2
        <3> QED BY <3>3, <3>4
    <2>2. CASE t \notin trips
        <3>1. PICK i \in kept : t = row[i]
            BY <1>8, <2>2
        <3>2. IsTrip(t, at, i)' /\ i \in KeptTrips(feeds'[at]) /\ at \in 1..TripsDone'
            BY <1>2, <1>13, <1>14, <3>1
        <3>3. at' = at
            BY <1>1
        <3> QED BY <3>2, <3>3
    <2> QED BY <2>1, <2>2
<1>16. ASSUME NEW f \in 1..TripsDone', NEW k \in KeptTrips(feeds'[f])
       PROVE  \E t \in trips' : t.from = <<f, feeds'[f].trips[k].id>>
    <2>1. CASE f = at
        <3>1. k \in kept /\ row[k] \in trips' /\ row[k].from = <<at, list[k].id>>
            BY <1>8, <1>10, <1>14, <2>1
        <3> QED BY <1>14, <2>1, <3>1
    <2>2. CASE f # at
        <3>1. f \in 1..TripsDone
            BY <1>2, <2>2
        <3> QED BY <1>1, <1>8, <3>1 DEF TripsInv
    <2> QED BY <2>1, <2>2
<1>17. ASSUME NEW t \in trips', NEW u \in trips', t.from = u.from
       PROVE  t = u
    <2>1. \A v \in trips : v.from[1] # at
        <3>1. SUFFICES ASSUME NEW v \in trips
                       PROVE  v.from[1] # at
            OBVIOUS
        <3>2. PICK f \in 1..at - 1 : \E k \in KeptTrips(feeds[f]) : IsTrip(v, f, k)
            BY <1>2 DEF TripsInv
        <3>3. v.from[1] = f
            BY <3>2 DEF IsTrip
        <3> QED BY <1>2, <3>3
    <2>2. \A i \in kept : row[i].from[1] = at
        BY <1>10
    <2>3. CASE t \in trips /\ u \in trips
        BY <1>17, <2>3 DEF TripsInv
    <2>4. CASE t \notin trips /\ u \notin trips
        <3>1. PICK i \in kept, j \in kept : t = row[i] /\ u = row[j]
            BY <1>8, <2>4
        <3>2. list[i].id = list[j].id
            BY <1>10, <1>17, <3>1
        <3>3. i = j
            BY <1>6, <3>2 DEF OneOfEach
        <3> QED BY <3>1, <3>3
    <2>5. CASE (t \in trips /\ u \notin trips) \/ (t \notin trips /\ u \in trips)
        BY <1>8, <1>17, <2>1, <2>2, <2>5
    <2> QED BY <2>3, <2>4, <2>5
<1>18. DOMAIN tripIds' = {feeds'[at'].trips[k].id : k \in KeptTrips(feeds'[at'])}
    BY <1>1, <1>9, <1>14
<1>19. ASSUME NEW id \in DOMAIN tripIds'
       PROVE  \E t \in trips' : t.id = tripIds'[id] /\ t.from = <<at', id>>
    <2>1. PICK i \in kept : id = list[i].id
        BY <1>9
    <2>2. row[i] \in trips' /\ row[i].id = tripIds'[id] /\ row[i].from = <<at, id>>
        BY <1>8, <1>10, <2>1
    <2> QED BY <1>1, <2>2
<1>20. IsSeq(blocks') /\ \A i, j \in DOMAIN blocks' : blocks'[i] = blocks'[j] => i = j
    BY WriteTripsBlocks
<1> QED BY <1>8, <1>12, <1>15, <1>16, <1>17, <1>18, <1>19, <1>20 DEF TripsInv

\* Trips already written stay as they are.
LEMMA TripsStep ==
    ASSUME Shape, RoutesInv, CalendarsInv, TripsInv, CallsInv, [Next]_vars
    PROVE  TripsInv' /\ trips \subseteq trips'
<1>1. feeds' = feeds
    BY ShapeStep
<1>2. CASE TripsSame
    <2>1. UNCHANGED <<trips, blocks, tripIds>> /\ TripsDone' = TripsDone
          /\ (TripsDone' = at' => TripsDone = at /\ at' = at)
        BY <1>2 DEF TripsSame
    <2>2. ASSUME NEW t \in trips
          PROVE  \E f \in 1..TripsDone : \E k \in KeptTrips(feeds[f]) : IsTrip(t, f, k)'
        <3>1. PICK f \in 1..TripsDone : \E k \in KeptTrips(feeds[f]) : IsTrip(t, f, k)
            BY DEF TripsInv
        <3>2. PICK k \in KeptTrips(feeds[f]) : IsTrip(t, f, k)
            BY <3>1
        <3>3. IsTrip(t, f, k)'
            BY <1>1, <2>1, <3>2, IsTripStays, RoutesStep, CalendarsStep
        <3> QED BY <3>3
    <2>3. \A t \in trips' : \E f \in 1..TripsDone' : \E k \in KeptTrips(feeds'[f]) : IsTrip(t, f, k)'
        BY <1>1, <2>1, <2>2
    <2>4. \A f \in 1..TripsDone' : \A k \in KeptTrips(feeds'[f]) :
                \E t \in trips' : t.from = <<f, feeds'[f].trips[k].id>>
        BY <1>1, <2>1 DEF TripsInv
    <2>5. ASSUME TripsDone' = at'
          PROVE
            /\ DOMAIN tripIds' = {feeds'[at'].trips[k].id : k \in KeptTrips(feeds'[at'])}
            /\ \A id \in DOMAIN tripIds' : \E t \in trips' : t.id = tripIds'[id] /\ t.from = <<at', id>>
        <3>1. TripsDone = at /\ at' = at
            BY <2>1, <2>5
        <3>2. /\ DOMAIN tripIds = {feeds[at].trips[k].id : k \in KeptTrips(feeds[at])}
              /\ \A id \in DOMAIN tripIds : \E t \in trips : t.id = tripIds[id] /\ t.from = <<at, id>>
            BY <3>1 DEF TripsInv
        <3> QED BY <1>1, <2>1, <3>1, <3>2
    <2>6. /\ Counted(trips')
          /\ IsSeq(blocks') /\ \A i, j \in DOMAIN blocks' : blocks'[i] = blocks'[j] => i = j
          /\ \A t, u \in trips' : t.from = u.from => t = u
        BY <2>1 DEF TripsInv
    <2>7. trips \subseteq trips'
        BY <2>1
    <2> QED BY <2>3, <2>4, <2>5, <2>6, <2>7 DEF TripsInv
<1> QED BY <1>2, Frames, WriteTripsTrips

-----------------------------------------------------------------------------
(* StopTimesMerger *)

\* A line that is kept is a line of the feed's calls.
LEMMA KeptLinesType ==
    ASSUME NEW g, ValidFeed(g)
    PROVE  /\ Len(g.calls) \in Nat /\ DOMAIN g.calls = 1..Len(g.calls)
           /\ \A i \in KeptLines(g) : i \in Nat /\ i > 0 /\ i <= Len(g.calls)
<1>1. Len(g.calls) \in Nat /\ DOMAIN g.calls = 1..Len(g.calls)
    BY DEF ValidFeed, IsList
<1>2. KeptLines(g) \subseteq DOMAIN g.calls
    BY DEF KeptLines
<1> QED BY <1>1, <1>2

\* Only kept lines are read.
LEMMA LinesReadType ==
    ASSUME Shape, NEW f \in 1..at
    PROVE  LinesRead(f) \subseteq KeptLines(feeds[f]) /\ \A i \in LinesRead(f) : i \in Nat
<1>1. f \in 1..Len(feeds)
    BY FeedsType
<1> QED BY <1>1, FeedsType, KeptLinesType DEF LinesRead

\* A call stays one of its line while more trips are written.
LEMMA IsCallStays ==
    ASSUME UNCHANGED feeds, trips \subseteq trips', NEW c, NEW f, NEW i, IsCall(c, f, i)
    PROVE  IsCall(c, f, i)'
BY DEF IsCall

\* The first calls of a feed are read when its trips have been numbered.
LEMMA WriteTripsCalls ==
    ASSUME Shape, CallsInv, WriteTrips, trips \subseteq trips'
    PROVE  CallsInv'
<1>1. /\ UNCHANGED <<feeds, at, stopTimes>> /\ stage = "services" /\ stage' = "calls"
      /\ line' = 0 /\ batch' = << >> /\ used' = {} /\ batch = << >>
    BY DEF WriteTrips, CallsInv
<1>2. /\ at \in Nat /\ TripsDone = at - 1 /\ TripsDone' = at /\ ValidFeed(feeds[at])
      /\ \A f \in 1..at - 1 : f \in 1..at /\ f # at
    BY <1>1, FeedsType DEF TripsDone, feed
<1>3. \A f \in 1..at - 1 : LinesRead(f)' = LinesRead(f)
    BY <1>1, <1>2 DEF LinesRead
<1>4. LinesRead(at)' = {}
    <2>1. \A i \in KeptLines(feeds[at]) : ~(i <= 0)
        BY <1>2, KeptLinesType
    <2> QED BY <1>1, <1>2, <2>1 DEF LinesRead
<1>5. /\ ToSet(batch) = {} /\ ToSet(batch') = {} /\ IsSeq(batch') /\ DOMAIN batch' = {}
    BY <1>1, Nothing DEF IsSeq
<1>6. ASSUME NEW c \in ToSet(stopTimes') \cup ToSet(batch')
      PROVE  \E f \in 1..TripsDone' : \E i \in LinesRead(f)' : IsCall(c, f, i)'
    <2>1. PICK f \in 1..TripsDone : \E i \in LinesRead(f) : IsCall(c, f, i)
        BY <1>1, <1>5 DEF CallsInv
    <2>2. PICK i \in LinesRead(f) : IsCall(c, f, i)
        BY <2>1
    <2>3. IsCall(c, f, i)'
        BY <1>1, <2>2, IsCallStays
    <2>4. f \in 1..TripsDone' /\ i \in LinesRead(f)'
        BY <1>2, <1>3, <2>2
    <2> QED BY <2>3, <2>4
<1>7. ASSUME NEW f \in 1..TripsDone', NEW i \in LinesRead(f)'
      PROVE  \E c \in ToSet(stopTimes') \cup ToSet(batch') : c.from = <<f, i>>
    <2>1. f # at
        BY <1>1, <1>4, <1>7
    <2>2. f \in 1..TripsDone /\ i \in LinesRead(f)
        BY <1>2, <1>3, <2>1
    <2> QED BY <1>1, <1>5, <2>2 DEF CallsInv
<1>8. 0 <= Len(feeds'[at'].calls)
    BY <1>1, <1>2, KeptLinesType
<1>9. used' = {feeds'[at'].calls[i].stop : i \in LinesRead(at)'}
    BY <1>1, <1>4
<1>10. Rising(batch') /\ Rising(stopTimes') /\ IsSeq(stopTimes')
    BY <1>1, <1>5 DEF CallsInv, Rising
<1> QED BY <1>1, <1>5, <1>6, <1>7, <1>8, <1>9, <1>10 DEF CallsInv

\* A line that is read and whose trip is kept is behind those to write; another is passed over.
LEMMA ReadCallCalls ==
    ASSUME Shape, TripsInv, CallsInv, ReadCall
    PROVE  CallsInv'
<1>0. PICK next : next = line + 1
    OBVIOUS
<1> DEFINE call == feed.calls[next]
           row == [trip |-> tripIds[call.trip], stop |-> call.stop, from |-> <<at, next>>]
<1>1. /\ UNCHANGED <<feeds, at, stopTimes, trips>> /\ stage = "calls" /\ stage' = "calls" /\ line' = next
      /\ line < Len(feeds[at].calls)
      /\ IF IsRead(call) /\ call.trip \in DOMAIN tripIds
           THEN batch' = Append(batch, row) /\ used' = used \cup {call.stop}
           ELSE UNCHANGED <<batch, used>>
    BY <1>0 DEF ReadCall, vehicles, feed
<1>2. /\ at \in Nat /\ TripsDone = at /\ TripsDone' = at /\ at \in 1..at
      /\ Len(feeds[at].calls) \in Nat /\ line \in Nat /\ next \in Nat /\ next <= Len(feeds[at].calls)
      /\ next \in DOMAIN feeds[at].calls
    BY <1>0, <1>1, FeedsType, KeptLinesType DEF TripsDone, feed, CallsInv
<1>3. next \in KeptLines(feeds[at]) <=> IsRead(call) /\ call.trip \in DOMAIN tripIds
    BY <1>2 DEF TripsInv, KeptLines, feed
<1>4. \A f \in 1..at : f # at => LinesRead(f)' = LinesRead(f)
    BY <1>1 DEF LinesRead
<1>5. LinesRead(at)' = LinesRead(at) \cup (IF next \in KeptLines(feeds[at]) THEN {next} ELSE {})
    <2>1. LinesRead(at)' = {i \in KeptLines(feeds[at]) : i <= next}
        BY <1>1, <1>2 DEF LinesRead
    <2>2. LinesRead(at) = {i \in KeptLines(feeds[at]) : i <= line}
        BY <1>2 DEF LinesRead
    <2>3. \A i \in KeptLines(feeds[at]) : i <= next <=> i <= line \/ i = next
        BY <1>0, <1>2, FeedsType, KeptLinesType DEF feed
    <2> QED BY <2>1, <2>2, <2>3
<1>6. /\ IsSeq(stopTimes) /\ IsSeq(batch) /\ Rising(stopTimes) /\ Rising(batch)
      /\ \A c \in ToSet(batch) : c.from[1] = at
      /\ \A c \in ToSet(batch), d \in ToSet(stopTimes) : d.from[1] = at => d.from[2] < c.from[2]
      /\ used = {feeds[at].calls[i].stop : i \in LinesRead(at)}
    BY <1>2 DEF CallsInv
<1>7. ASSUME NEW c \in ToSet(stopTimes) \cup ToSet(batch)
      PROVE  /\ \E f \in 1..TripsDone' : \E i \in LinesRead(f)' : IsCall(c, f, i)'
             /\ c.from[1] = at => c.from[2] \in Nat /\ c.from[2] < next
    <2>1. PICK f \in 1..TripsDone : \E i \in LinesRead(f) : IsCall(c, f, i)
        BY DEF CallsInv
    <2>2. PICK i \in LinesRead(f) : IsCall(c, f, i)
        BY <2>1
    <2>3. IsCall(c, f, i)'
        BY <1>1, <2>2, IsCallStays
    <2>4. f \in 1..TripsDone' /\ i \in LinesRead(f)'
        BY <1>1, <1>2, <1>4, <1>5, <2>2
    <2>5. c.from = <<f, i>>
        BY <2>2 DEF IsCall
    <2>6. f = at => i \in Nat /\ i <= line
        BY <1>2, <2>2, LinesReadType DEF LinesRead
    <2> QED BY <1>0, <1>2, <2>3, <2>4, <2>5, <2>6
<1>8. CASE IsRead(call) /\ call.trip \in DOMAIN tripIds
    <2>1. batch' = Append(batch, row) /\ used' = used \cup {call.stop} /\ LinesRead(at)' = LinesRead(at) \cup {next}
        BY <1>1, <1>3, <1>5, <1>8
    <2>2. /\ IsSeq(batch') /\ ToSet(batch') = ToSet(batch) \cup {row}
          /\ DOMAIN batch' = DOMAIN batch \cup {Len(batch) + 1}
          /\ batch'[Len(batch) + 1] = row /\ \A i \in DOMAIN batch : batch'[i] = batch[i] /\ i < Len(batch) + 1
        <3> HIDE DEF row
        <3> DEFINE S == ToSet(batch) \cup {row}
        <3>1. batch \in Seq(S) /\ row \in S
            <4>1. ToSet(batch) \subseteq S
                OBVIOUS
            <4> HIDE DEF S
            <4>2. batch \in Seq(S)
                BY <1>6, <4>1, SeqMonotonic DEF IsSeq
            <4> QED BY <4>2 DEF S
        <3>2. ToSet(batch') = S /\ batch' \in Seq(S)
            BY <2>1, <3>1, OneMore DEF S
        <3> HIDE DEF S
        <3> QED BY <2>1, <3>1, <3>2, OneMore DEF IsSeq, S
    <2>3. row.from = <<at, next>> /\ row.from[1] = at /\ row.from[2] = next
        OBVIOUS
    <2>4. PICK t \in trips : t.id = tripIds[call.trip] /\ t.from = <<at, call.trip>>
        BY <1>2, <1>8 DEF TripsInv
    <2>5. ASSUME NEW c, c = row
          PROVE  IsCall(c, at, next)'
        <3>1. c = [trip |-> t.id, stop |-> feeds'[at].calls[next].stop, from |-> <<at, next>>]
            BY <1>1, <2>4, <2>5 DEF feed
        <3>2. t \in trips' /\ t.from = <<at, feeds'[at].calls[next].trip>>
            BY <1>1, <2>4 DEF feed
        <3> QED BY <1>1, <3>1, <3>2 DEF IsCall
    <2>6. used' = {feeds[at].calls[i].stop : i \in LinesRead(at)'}
        BY <1>6, <2>1 DEF feed
    <2> HIDE DEF row
    <2>7. Rising(batch')
        <3>1. ASSUME NEW i \in DOMAIN batch', NEW j \in DOMAIN batch', i < j,
                     batch'[i].from[1] = batch'[j].from[1]
              PROVE  batch'[i].from[2] < batch'[j].from[2]
            <4>1. i \in DOMAIN batch
                <5>1. \A m \in DOMAIN batch' : m \in Int /\ Len(batch) \in Int
                    <6>1. batch' \in Seq(ToSet(batch')) /\ batch \in Seq(ToSet(batch))
                        BY <1>6, <2>2 DEF IsSeq
                    <6> QED BY <6>1, LenProperties
                <5> QED BY <2>2, <3>1, <5>1
            <4>2. CASE j \in DOMAIN batch
                BY <1>6, <2>2, <3>1, <4>1, <4>2 DEF Rising
            <4>3. CASE j \notin DOMAIN batch
                <5>1. batch'[j] = row /\ batch'[i] = batch[i] /\ batch[i] \in ToSet(batch)
                    BY <2>2, <4>1, <4>3 DEF ToSet
                <5> QED BY <1>6, <1>7, <2>3, <5>1
            <4> QED BY <4>2, <4>3
        <3> QED BY <3>1 DEF Rising
    <2>8. \A c \in ToSet(batch'), d \in ToSet(stopTimes') : d.from[1] = at' => d.from[2] < c.from[2]
        BY <1>1, <1>6, <1>7, <2>2, <2>3
    <2>9. \A c \in ToSet(batch') : c.from[1] = at'
        BY <1>1, <1>6, <2>2, <2>3
    <2>10. ASSUME NEW c \in ToSet(stopTimes') \cup ToSet(batch')
           PROVE  \E f \in 1..TripsDone' : \E i \in LinesRead(f)' : IsCall(c, f, i)'
        <3>1. CASE c = row
            <4>1. at \in 1..TripsDone' /\ next \in LinesRead(at)'
                BY <1>2, <2>1
            <4>2. IsCall(c, at, next)'
                BY <1>1, <2>5, <3>1
            <4> QED BY <1>1, <4>1, <4>2
        <3>2. CASE c # row
            BY <1>1, <1>7, <2>2, <3>2
        <3> QED BY <3>1, <3>2
    <2>11. ASSUME NEW f \in 1..TripsDone', NEW i \in LinesRead(f)'
           PROVE  \E c \in ToSet(stopTimes') \cup ToSet(batch') : c.from = <<f, i>>
        <3>1. CASE f = at /\ i = next
            BY <2>2, <2>3, <3>1
        <3>2. CASE ~(f = at /\ i = next)
            <4>1. f \in 1..TripsDone /\ i \in LinesRead(f)
                BY <1>1, <1>2, <1>4, <2>1, <3>2
            <4> QED BY <1>1, <2>2, <4>1 DEF CallsInv
        <3> QED BY <3>1, <3>2
    <2>12. IsSeq(stopTimes') /\ IsSeq(batch') /\ Rising(stopTimes')
        BY <1>1, <1>6, <2>2
    <2>13. line' \in Nat /\ line' <= Len(feeds'[at'].calls)
        BY <1>1, <1>2
    <2>14. used' = {feeds'[at'].calls[i].stop : i \in LinesRead(at)'}
        BY <1>1, <2>6
    <2>15. stage' = "calls"
        BY <1>1
    <2> QED BY <2>7, <2>8, <2>9, <2>10, <2>11, <2>12, <2>13, <2>14, <2>15 DEF CallsInv
<1>9. CASE ~(IsRead(call) /\ call.trip \in DOMAIN tripIds)
    <2>1. UNCHANGED <<batch, used>> /\ LinesRead(at)' = LinesRead(at)
        BY <1>1, <1>3, <1>5, <1>9
    <2>2. \A f \in 1..TripsDone' : LinesRead(f)' = LinesRead(f) /\ f \in 1..TripsDone
        BY <1>1, <1>2, <1>4, <2>1
    <2>3. \A f \in 1..TripsDone' : \A i \in LinesRead(f)' :
                \E c \in ToSet(stopTimes') \cup ToSet(batch') : c.from = <<f, i>>
        BY <1>1, <2>1, <2>2 DEF CallsInv
    <2>4. \A c \in ToSet(stopTimes') \cup ToSet(batch') :
                \E f \in 1..TripsDone' : \E i \in LinesRead(f)' : IsCall(c, f, i)'
        BY <1>1, <1>7, <2>1
    <2>5. used' = {feeds'[at'].calls[i].stop : i \in LinesRead(at)'}
        BY <1>1, <1>6, <2>1
    <2> QED BY <1>1, <1>2, <1>6, <2>1, <2>3, <2>4, <2>5 DEF CallsInv
<1> QED BY <1>8, <1>9

\* What was to write is written, in its order, behind what its feed already had.
LEMMA FlushCalls ==
    ASSUME Shape, CallsInv, Flush
    PROVE  CallsInv'
<1>1. /\ UNCHANGED <<feeds, at, stage, todo, line, used, trips>> /\ stage = "calls"
      /\ stopTimes' = stopTimes \o batch /\ batch' = << >>
    BY DEF Flush, vehicles
<1>2. /\ IsSeq(stopTimes) /\ IsSeq(batch) /\ Rising(stopTimes) /\ Rising(batch)
      /\ \A c \in ToSet(batch) : c.from[1] = at
      /\ \A c \in ToSet(batch), d \in ToSet(stopTimes) : d.from[1] = at => d.from[2] < c.from[2]
    BY DEF CallsInv
<1>3. /\ IsSeq(stopTimes') /\ ToSet(stopTimes') = ToSet(stopTimes) \cup ToSet(batch)
      /\ \A i \in DOMAIN stopTimes : stopTimes'[i] = stopTimes[i]
      /\ \A i \in DOMAIN stopTimes' : i \notin DOMAIN stopTimes =>
           i \in Nat /\ i - Len(stopTimes) \in DOMAIN batch /\ stopTimes'[i] = batch[i - Len(stopTimes)]
      /\ \A i \in DOMAIN stopTimes, j \in DOMAIN stopTimes' : j \notin DOMAIN stopTimes => i < j
    BY <1>1, <1>2, ConcatIs
<1>4. ToSet(batch') = {} /\ IsSeq(batch') /\ DOMAIN batch' = {}
    BY <1>1, Nothing DEF IsSeq
<1>5. Len(stopTimes) \in Nat /\ DOMAIN stopTimes \subseteq Nat /\ DOMAIN batch \subseteq Nat
    BY <1>2, LenProperties DEF IsSeq
<1>6. ASSUME NEW i \in DOMAIN stopTimes', NEW j \in DOMAIN stopTimes', i < j,
             stopTimes'[i].from[1] = stopTimes'[j].from[1]
      PROVE  stopTimes'[i].from[2] < stopTimes'[j].from[2]
    <2>1. CASE i \in DOMAIN stopTimes /\ j \in DOMAIN stopTimes
        BY <1>2, <1>3, <1>6, <2>1 DEF Rising
    <2>2. CASE i \in DOMAIN stopTimes /\ j \notin DOMAIN stopTimes
        <3>1. /\ stopTimes'[i] = stopTimes[i] /\ stopTimes[i] \in ToSet(stopTimes)
              /\ stopTimes'[j] = batch[j - Len(stopTimes)] /\ batch[j - Len(stopTimes)] \in ToSet(batch)
            BY <1>3, <2>2 DEF ToSet
        <3> QED BY <1>2, <1>6, <3>1
    <2>3. CASE i \notin DOMAIN stopTimes /\ j \in DOMAIN stopTimes
        <3>1. j < i /\ i \in Nat /\ j \in Nat
            BY <1>3, <1>5, <2>3
        <3> QED BY <1>6, <3>1
    <2>4. CASE i \notin DOMAIN stopTimes /\ j \notin DOMAIN stopTimes
        <3>1. i \in Nat /\ j \in Nat /\ i - Len(stopTimes) \in DOMAIN batch /\ j - Len(stopTimes) \in DOMAIN batch
              /\ stopTimes'[i] = batch[i - Len(stopTimes)] /\ stopTimes'[j] = batch[j - Len(stopTimes)]
            BY <1>3, <2>4
        <3>2. i - Len(stopTimes) < j - Len(stopTimes)
            BY <1>5, <1>6, <3>1
        <3> QED BY <1>2, <1>6, <3>1, <3>2 DEF Rising
    <2> QED BY <2>1, <2>2, <2>3, <2>4
<1>7. Rising(stopTimes') /\ Rising(batch')
    BY <1>4, <1>6 DEF Rising
<1>8. ToSet(stopTimes') \cup ToSet(batch') = ToSet(stopTimes) \cup ToSet(batch)
    BY <1>3, <1>4
<1>9. TripsDone' = TripsDone /\ \A f : LinesRead(f)' = LinesRead(f)
    BY <1>1 DEF TripsDone, LinesRead
<1>10. \A c, f, i : IsCall(c, f, i)' <=> IsCall(c, f, i)
    BY <1>1 DEF IsCall
<1>11. \A c \in ToSet(stopTimes') \cup ToSet(batch') :
            \E f \in 1..TripsDone' : \E i \in LinesRead(f)' : IsCall(c, f, i)'
    BY <1>8, <1>9, <1>10 DEF CallsInv
<1>12. \A f \in 1..TripsDone' : \A i \in LinesRead(f)' :
            \E c \in ToSet(stopTimes') \cup ToSet(batch') : c.from = <<f, i>>
    BY <1>8, <1>9 DEF CallsInv
<1>13. TripsDone' = at' => used' = {feeds'[at'].calls[i].stop : i \in LinesRead(at)'}
    BY <1>1, <1>9 DEF CallsInv
<1>14. line' \in Nat /\ (TripsDone' = at' => line' <= Len(feeds'[at'].calls))
    BY <1>1, <1>9 DEF CallsInv
<1> QED BY <1>1, <1>3, <1>4, <1>7, <1>11, <1>12, <1>13, <1>14 DEF CallsInv

\* A feed that is done has no call left to read.
LEMMA CallsSameCalls ==
    ASSUME Shape, CallsInv, CallsSame, UNCHANGED feeds
    PROVE  CallsInv'
<1>1. /\ UNCHANGED <<line, batch, used, stopTimes, trips>> /\ TripsDone' = TripsDone
      /\ at' = at \/ (stage = "places" /\ stage' = "services" /\ at' = at + 1)
      /\ stage' \in {"places", "ended"} /\ stage \notin {"places", "ended"} => line = Len(feeds[at].calls)
      /\ stage' # "calls" => batch = << >>
    BY DEF CallsSame
<1>2. at \in Nat /\ TripsDone \in {at - 1, at} /\ (stage = "places" => TripsDone = at)
      /\ (stage' = "services" => TripsDone' = at' - 1)
    BY FeedsType DEF TripsDone
<1>3. ASSUME NEW f \in 1..TripsDone
      PROVE  LinesRead(f)' = LinesRead(f)
    <2>1. CASE at' = at
        BY <1>1, <2>1 DEF LinesRead
    <2>2. CASE at' # at
        <3>1. stage = "places" /\ at' = at + 1 /\ TripsDone = at /\ f # at' /\ f \in 1..Len(feeds)
            BY <1>1, <1>2, <2>2, FeedsType
        <3>2. LinesRead(f)' = KeptLines(feeds[f])
            BY <3>1 DEF LinesRead
        <3>3. line = Len(feeds[at].calls)
            BY <3>1 DEF CallsInv
        <3>4. \A i \in KeptLines(feeds[at]) : i <= line
            BY <3>3, FeedsType, KeptLinesType DEF feed
        <3> QED BY <3>1, <3>2, <3>4 DEF LinesRead
    <2> QED BY <2>1, <2>2
<1>4. \A c, f, i : IsCall(c, f, i)' <=> IsCall(c, f, i)
    BY <1>1 DEF IsCall
<1>5. \A c \in ToSet(stopTimes') \cup ToSet(batch') :
            \E f \in 1..TripsDone' : \E i \in LinesRead(f)' : IsCall(c, f, i)'
    BY <1>1, <1>3, <1>4 DEF CallsInv
<1>6. \A f \in 1..TripsDone' : \A i \in LinesRead(f)' :
            \E c \in ToSet(stopTimes') \cup ToSet(batch') : c.from = <<f, i>>
    BY <1>1, <1>3 DEF CallsInv
<1>7. TripsDone' = at' => at' = at /\ TripsDone = at
    BY <1>1, <1>2
<1>8. TripsDone' = at' =>
        line' <= Len(feeds'[at'].calls) /\ used' = {feeds'[at'].calls[i].stop : i \in LinesRead(at)'}
    <2>1. ASSUME TripsDone' = at'
          PROVE  line' <= Len(feeds'[at'].calls) /\ used' = {feeds'[at'].calls[i].stop : i \in LinesRead(at)'}
        <3>1. TripsDone = at /\ at' = at /\ at \in 1..TripsDone
            BY <1>2, <1>7, <2>1, FeedsType
        <3>2. LinesRead(at)' = LinesRead(at)
            BY <1>3, <3>1
        <3> QED BY <1>1, <3>1, <3>2 DEF CallsInv
    <2> QED BY <2>1
<1>9. stage' \in {"places", "ended"} => line' = Len(feeds'[at'].calls)
    BY <1>1 DEF CallsInv
<1>10. /\ \A c \in ToSet(batch') : c.from[1] = at'
       /\ \A c \in ToSet(batch'), d \in ToSet(stopTimes') : d.from[1] = at' => d.from[2] < c.from[2]
    <2>1. CASE at' = at
        BY <1>1, <2>1 DEF CallsInv
    <2>2. CASE at' # at
        BY <1>1, <2>2, Nothing
    <2> QED BY <2>1, <2>2
<1>11. line' \in Nat /\ IsSeq(stopTimes') /\ IsSeq(batch') /\ Rising(stopTimes') /\ Rising(batch')
    BY <1>1 DEF CallsInv
<1> QED BY <1>1, <1>5, <1>6, <1>8, <1>9, <1>10, <1>11 DEF CallsInv

\* Calls are read and written feed by feed, in the order of their lines.
LEMMA CallsStep ==
    ASSUME Shape, RoutesInv, CalendarsInv, TripsInv, CallsInv, [Next]_vars
    PROVE  CallsInv'
<1>1. CASE WriteTrips
    BY <1>1, TripsStep, WriteTripsCalls
<1>2. CASE ReadCall
    BY <1>2, ReadCallCalls
<1>3. CASE Flush
    BY <1>3, FlushCalls
<1>4. CASE CallsSame
    BY <1>4, ShapeStep, CallsSameCalls
<1> QED BY <1>1, <1>2, <1>3, <1>4, Frames

-----------------------------------------------------------------------------
(* StopsAndTransfersMerger, AreasMerger *)

\* The station of a stop is the one its row gives.
LEMMA ParentOfRow ==
    ASSUME NEW g, ValidFeed(g), NEW x \in ToSet(g.stops)
    PROVE  ParentIn(g, x.id) = x.parent
<1> DEFINE above == {s.parent : s \in {r \in ToSet(g.stops) : r.id = x.id /\ r.parent # None}}
<1>1. \A r \in ToSet(g.stops) : r.id = x.id => r = x
    BY DEF ToSet, ValidFeed, OneOfEach
<1>2. CASE x.parent = None
    <2>1. above = {}
        BY <1>1, <1>2
    <2> QED BY <1>2, <2>1 DEF ParentIn
<1>3. CASE x.parent # None
    <2>1. above = {x.parent}
        BY <1>1, <1>3
    <2>2. ParentIn(g, x.id) = CHOOSE p \in above : TRUE
        BY <2>1 DEF ParentIn
    <2> HIDE DEF above
    <2> QED BY <2>1, <2>2
<1> QED BY <1>2, <1>3

\* A stop of a feed's published stops has a row, and its station, if any, is published too.
LEMMA PublishedRow ==
    ASSUME NEW g, ValidFeed(g), NEW stop \in PublishedIn(g)
    PROVE  /\ stop \in Stops
           /\ \E x \in ToSet(g.stops) :
                x.id = stop /\ x.parent = ParentIn(g, stop) /\ (x.parent # None => x.parent \in PublishedIn(g))
<1>1. SUFFICES \E x \in ToSet(g.stops) : x.id = stop /\ (x.parent # None => x.parent \in PublishedIn(g))
    <2>1. \A x \in ToSet(g.stops) : x.id \in Stops
        BY DEF ValidFeed
    <2> QED BY <2>1, ParentOfRow
<1>2. ASSUME NEW i \in KeptLines(g)
      PROVE  \E x \in ToSet(g.stops) :
                /\ x.id = g.calls[i].stop
                /\ x.parent # None => \E p \in ToSet(g.stops) : p.id = x.parent /\ p.parent = None
    <2>1. g.calls[i] \in ToSet(g.calls)
        BY DEF KeptLines, ToSet
    <2> QED BY <2>1 DEF ValidFeed
<1>3. CASE stop \in CalledIn(g)
    <2>1. PICK x \in ToSet(g.stops) : x.id = stop
        BY <1>2, <1>3 DEF CalledIn
    <2>2. x.parent = ParentIn(g, stop)
        BY <2>1, ParentOfRow
    <2> QED BY <1>3, <2>1, <2>2 DEF PublishedIn
<1>4. CASE stop \notin CalledIn(g)
    <2>1. PICK called \in CalledIn(g) : stop = ParentIn(g, called) /\ stop # None
        BY <1>4 DEF PublishedIn
    <2>2. PICK x \in ToSet(g.stops) :
                /\ x.id = called
                /\ x.parent # None => \E p \in ToSet(g.stops) : p.id = x.parent /\ p.parent = None
        BY <1>2, <2>1 DEF CalledIn
    <2>3. x.parent = stop
        BY <2>1, <2>2, ParentOfRow
    <2> QED BY <2>1, <2>2, <2>3
<1> QED BY <1>3, <1>4

\* All the calls of a feed have been read when its stops are written.
LEMMA PublishedIs ==
    ASSUME Shape, CallsInv, stage = "places"
    PROVE  Published = PublishedIn(feed)
<1>1. TripsDone = at /\ line = Len(feed.calls) /\ ValidFeed(feed)
    BY FeedsType DEF TripsDone, CallsInv, feed
<1>2. LinesRead(at) = KeptLines(feed)
    BY <1>1, KeptLinesType DEF LinesRead, feed
<1>3. used = CalledIn(feed)
    BY <1>1, <1>2 DEF CallsInv, CalledIn, feed
<1> QED BY <1>3 DEF Published, PublishedIn

\* The stops, their stations and the places walks may be made from, feed by feed.
LEMMA WriteStopsPlaces ==
    ASSUME Shape, CallsInv, PlacesInv, WriteStops
    PROVE  PlacesInv'
<1> DEFINE rows == {s \in ToSet(feed.stops) : s.id \in PublishedIn(feed)}
           fresh == {s.id : s \in {x \in rows : TransferDistance > 0 /\ parents'[x.id] = None /\ Loc[x.id] # 0}}
<1>1. /\ UNCHANGED <<feeds, at>> /\ stage = "places"
      /\ parents' = [stop \in Stops |->
                        IF ParentIn(feed, stop) # None THEN ParentIn(feed, stop) ELSE parents[stop]]
      /\ published' = published \cup
            {[id |-> s.id, parent |-> s.parent, code |-> s.code, from |-> at] : s \in rows}
      /\ located' = located \cup (fresh \ located)
    BY PublishedIs DEF WriteStops
<1>2. /\ at \in Nat /\ ValidFeed(feed) /\ feed = feeds[at] /\ StopsDone = at - 1 /\ StopsDone' = at
      /\ 1..at = (1..at - 1) \cup {at}
    BY <1>1, FeedsType DEF StopsDone, WriteStops, feed
<1>3. published' = UNION {RowsOf(feeds[f], f) : f \in 1..at}
    <2>1. published' = published \cup RowsOf(feeds[at], at)
        BY <1>1, <1>2 DEF RowsOf
    <2>2. published = UNION {RowsOf(feeds[f], f) : f \in 1..at - 1}
        BY <1>2 DEF PlacesInv
    <2> QED BY <1>2, <2>1, <2>2
<1>4. \A s \in Stops : Alone(feeds, at, s) <=> Alone(feeds, at - 1, s) /\ ParentIn(feed, s) = None
    BY <1>2 DEF Alone
<1>5. ASSUME NEW s \in Stops
      PROVE  /\ parents'[s] = None <=> Alone(feeds, at, s)
             /\ parents'[s] # None => \E f \in 1..at : parents'[s] = ParentIn(feeds[f], s)
    <2>1. /\ parents[s] = None <=> Alone(feeds, at - 1, s)
          /\ parents[s] # None => \E f \in 1..at - 1 : parents[s] = ParentIn(feeds[f], s)
        BY <1>2 DEF PlacesInv
    <2>2. parents'[s] = IF ParentIn(feed, s) # None THEN ParentIn(feed, s) ELSE parents[s]
        BY <1>1
    <2>3. at \in 1..at /\ 1..at - 1 \subseteq 1..at
        BY <1>2, FeedsType
    <2> QED BY <1>2, <1>4, <2>1, <2>2, <2>3
<1>6. fresh = LocatedBy(feeds, at)
    <2>1. ASSUME NEW x \in fresh
          PROVE  x \in LocatedBy(feeds, at)
        <3>1. PICK s \in rows : s.id = x /\ TransferDistance > 0 /\ parents'[x] = None /\ Loc[x] # 0
            BY <2>1
        <3>2. x \in PublishedIn(feed) /\ x \in Stops
            BY <1>2, <3>1, PublishedRow
        <3> QED BY <1>2, <1>5, <3>1, <3>2 DEF LocatedBy
    <2>2. ASSUME NEW x \in LocatedBy(feeds, at)
          PROVE  x \in fresh
        <3>1. x \in PublishedIn(feed) /\ TransferDistance > 0 /\ Alone(feeds, at, x) /\ Loc[x] # 0
            BY <1>2 DEF LocatedBy
        <3>2. PICK s \in ToSet(feed.stops) : s.id = x
            BY <1>2, <3>1, PublishedRow
        <3>3. parents'[s.id] = None /\ Loc[s.id] # 0 /\ s \in rows
            BY <1>2, <1>5, <3>1, <3>2, PublishedRow
        <3> QED BY <3>1, <3>2, <3>3
    <2> QED BY <2>1, <2>2
<1> HIDE DEF fresh
<1>7. located' = UNION {LocatedBy(feeds, f) : f \in 1..at}
    <2>1. located' = located \cup LocatedBy(feeds, at)
        BY <1>1, <1>6
    <2>2. located = UNION {LocatedBy(feeds, f) : f \in 1..at - 1}
        BY <1>2 DEF PlacesInv
    <2> QED BY <1>2, <2>1, <2>2
<1>8. DOMAIN parents' = Stops
    BY <1>1
<1> QED BY <1>1, <1>2, <1>3, <1>5, <1>7, <1>8 DEF PlacesInv

\* Stops are written feed by feed.
LEMMA PlacesStep ==
    ASSUME Shape, CallsInv, PlacesInv, [Next]_vars
    PROVE  PlacesInv'
<1>1. feeds' = feeds
    BY ShapeStep
<1>2. CASE PlacesSame
    BY <1>1, <1>2 DEF PlacesInv, PlacesSame
<1> QED BY <1>2, Frames, WriteStopsPlaces

\* The groups and their members, feed by feed.
LEMMA WriteAreasGroups ==
    ASSUME Shape, CallsInv, GroupsInv, WriteAreas
    PROVE  GroupsInv'
<1>1. /\ UNCHANGED <<feeds, at>> /\ stage = "places"
      /\ areas' = areas \cup feed.areas /\ groupable' = groupable \cup PublishedIn(feed)
      /\ memberships' = memberships \cup MembersOf(feed)
    BY PublishedIs DEF WriteAreas, MembersOf
<1>2. /\ feed = feeds[at] /\ AreasDone = at - 1 /\ AreasDone' = at /\ 1..at = (1..at - 1) \cup {at}
    BY <1>1, FeedsType DEF AreasDone, WriteAreas, feed
<1>3. /\ areas = UNION {feeds[f].areas : f \in 1..at - 1}
      /\ groupable = UNION {PublishedIn(feeds[f]) : f \in 1..at - 1}
      /\ memberships = UNION {MembersOf(feeds[f]) : f \in 1..at - 1}
    BY <1>2 DEF GroupsInv
<1>4. areas' = UNION {feeds[f].areas : f \in 1..at}
    BY <1>1, <1>2, <1>3
<1>5. groupable' = UNION {PublishedIn(feeds[f]) : f \in 1..at}
    BY <1>1, <1>2, <1>3
<1>6. memberships' = UNION {MembersOf(feeds[f]) : f \in 1..at}
    BY <1>1, <1>2, <1>3
<1> QED BY <1>1, <1>2, <1>4, <1>5, <1>6 DEF GroupsInv

\* Groups are written feed by feed.
LEMMA GroupsStep ==
    ASSUME Shape, CallsInv, GroupsInv, [Next]_vars
    PROVE  GroupsInv'
<1>1. feeds' = feeds
    BY ShapeStep
<1>2. CASE GroupsSame
    BY <1>1, <1>2 DEF GroupsInv, GroupsSame
<1> QED BY <1>2, Frames, WriteAreasGroups

\* A transfer stays one of its feed's while more is written.
LEMMA IsTransferStays ==
    ASSUME UNCHANGED feeds, trips \subseteq trips', located \subseteq located',
           1..StopsDone \subseteq 1..StopsDone', NEW t, IsTransfer(t)
    PROVE  IsTransfer(t)'
<1>1. /\ t.from \in 1..StopsDone' /\ t.given \in BOOLEAN
      /\ t.given => t.begin \in PublishedIn(feeds'[t.from]) /\ t.end \in PublishedIn(feeds'[t.from])
      /\ ~t.given => t.begin \in located' /\ t.end \in located' /\ t = Walk(t.begin, t.end, t.from)
    BY DEF IsTransfer
<1>2. /\ DOMAIN t.trips = DOMAIN t.named
      /\ \A i \in DOMAIN t.trips : \E u \in trips' : u.id = t.trips[i] /\ u.from = <<t.from, t.named[i]>>
    BY DEF IsTransfer
<1> QED BY <1>1, <1>2 DEF IsTransfer

\* How far apart two stops are does not depend on which is named first.
LEMMA ApartSymmetric ==
    ASSUME NEW a, NEW b
    PROVE  Apart(a, b) = Apart(b, a)
<1>1. {Loc[a] - Loc[b], Loc[b] - Loc[a]} = {Loc[b] - Loc[a], Loc[a] - Loc[b]}
    OBVIOUS
<1> QED BY <1>1 DEF Apart

\* The transfers a feed gives come with its stops, and every pair near enough that
\* neither it nor a feed before gave is joined both ways.
LEMMA WriteStopsTransfers ==
    ASSUME Shape, TripsInv, CallsInv, PlacesInv, TransfersInv, WriteStops
    PROVE  TransfersInv'
<1> DEFINE rows == {s \in ToSet(feed.stops) : s.id \in PublishedIn(feed)}
           given == {t \in OnePerPair(feed.transfers) :
                        {t.begin, t.end} \subseteq PublishedIn(feed) /\ ToSet(t.trips) \subseteq DOMAIN tripIds}
           pairs == {<<t.begin, t.end>> : t \in given}
           fresh == {s.id : s \in {x \in rows :
                        TransferDistance > 0 /\ parents'[x.id] = None /\ Loc[x.id] # 0}} \ located
           walks == {w \in fresh \X (located \cup fresh) :
                        w[1] # w[2] /\ Near(w[1], w[2]) /\ WalkMissing(w[1], w[2], pairs)}
           couplings == {[begin |-> t.begin, end |-> t.end, trips |-> Renamed(t),
                          given |-> TRUE, from |-> at, named |-> t.trips] : t \in given}
           made == {Walk(w[1], w[2], at) : w \in walks \cup {<<v[2], v[1]>> : v \in walks}}
<1>1. /\ UNCHANGED <<feeds, at, trips, tripIds>> /\ stage = "places"
      /\ transfers' = transfers \cup couplings \cup made
      /\ located' = located \cup fresh
    BY PublishedIs DEF WriteStops, Walk, vehicles, ids
<1>2. /\ at \in Nat /\ at > 0 /\ ValidFeed(feed) /\ feed = feeds[at] /\ TripsDone = at
      /\ StopsDone = at - 1 /\ StopsDone' = at /\ at \in 1..at /\ 1..at - 1 \subseteq 1..at
    BY <1>1, FeedsType DEF TripsDone, StopsDone, WriteStops, feed
<1>3. PlacesInv'
    BY WriteStopsPlaces
<1>4. located \subseteq Stops /\ located' \subseteq Stops
    <2>1. \A f \in 1..at : LocatedBy(feeds, f) \subseteq Stops
        <3>1. ASSUME NEW f \in 1..at, NEW s \in LocatedBy(feeds, f)
              PROVE  s \in Stops
            <4>1. ValidFeed(feeds[f]) /\ s \in PublishedIn(feeds[f])
                BY <3>1, FeedsType DEF LocatedBy
            <4> QED BY <4>1, PublishedRow
        <3> QED BY <3>1
    <2>2. located = UNION {LocatedBy(feeds, f) : f \in 1..at - 1}
          /\ located' = UNION {LocatedBy(feeds, f) : f \in 1..at}
        BY <1>1, <1>2, <1>3 DEF PlacesInv
    <2> QED BY <1>2, <2>1, <2>2
<1>5. ASSUME NEW s \in fresh
      PROVE  /\ s \in Stops /\ s \in PublishedIn(feed) /\ s \notin located /\ TransferDistance > 0
             /\ \A f \in 1..at - 1 : s \notin PublishedIn(feeds[f])
    <2>1. s \in PublishedIn(feed) /\ s \notin located /\ TransferDistance > 0 /\ parents'[s] = None /\ Loc[s] # 0
        OBVIOUS
    <2>2. s \in Stops
        BY <1>2, <2>1, PublishedRow
    <2>3. Alone(feeds, at, s)
        BY <1>1, <1>2, <1>3, <2>1, <2>2 DEF PlacesInv
    <2>4. ASSUME NEW f \in 1..at - 1, s \in PublishedIn(feeds[f])
          PROVE  FALSE
        <3>1. 1..f \subseteq 1..at
            BY <1>2
        <3>2. Alone(feeds, f, s)
            BY <2>3, <3>1 DEF Alone
        <3>3. s \in LocatedBy(feeds, f)
            BY <2>1, <2>4, <3>2 DEF LocatedBy
        <3>4. located = UNION {LocatedBy(feeds, g) : g \in 1..at - 1}
            BY <1>2 DEF PlacesInv
        <3> QED BY <2>1, <3>3, <3>4
    <2> QED BY <2>1, <2>2, <2>4
<1> HIDE DEF fresh, given
<1>6. ASSUME NEW c \in couplings
      PROVE  IsTransfer(c)' /\ c.from = at /\ c.given /\ <<c.begin, c.end>> \in pairs
    <2>1. PICK t \in given : c = [begin |-> t.begin, end |-> t.end, trips |-> Renamed(t),
                                  given |-> TRUE, from |-> at, named |-> t.trips]
        BY <1>6
    <2>2. t.begin \in PublishedIn(feed) /\ t.end \in PublishedIn(feed) /\ ToSet(t.trips) \subseteq DOMAIN tripIds
        BY DEF given
    <2>3. c.begin = t.begin /\ c.end = t.end /\ c.trips = Renamed(t) /\ c.given = TRUE /\ c.from = at /\ c.named = t.trips
        BY <2>1
    <2>4. DOMAIN c.trips = DOMAIN c.named
        BY <2>3 DEF Renamed
    <2>5. ASSUME NEW i \in DOMAIN c.trips
          PROVE  \E u \in trips' : u.id = c.trips[i] /\ u.from = <<c.from, c.named[i]>>
        <3>1. c.trips[i] = tripIds[t.trips[i]] /\ t.trips[i] \in DOMAIN tripIds
            BY <2>2, <2>3 DEF Renamed, ToSet
        <3>2. PICK u \in trips : u.id = tripIds[t.trips[i]] /\ u.from = <<at, t.trips[i]>>
            BY <1>2, <3>1 DEF TripsInv
        <3> QED BY <1>1, <2>3, <3>1, <3>2
    <2>6. <<c.begin, c.end>> \in pairs
        BY <2>3
    <2>7. /\ c.from \in 1..StopsDone' /\ c.given \in BOOLEAN
          /\ c.begin \in PublishedIn(feeds'[c.from]) /\ c.end \in PublishedIn(feeds'[c.from])
        BY <1>1, <1>2, <2>2, <2>3
    <2> QED BY <2>3, <2>4, <2>5, <2>6, <2>7 DEF IsTransfer
<1>7. ASSUME NEW w \in walks
      PROVE  /\ w[1] \in fresh /\ w[2] \in located \cup fresh /\ w[1] # w[2]
             /\ <<w[1], w[2]>> \notin pairs /\ <<w[2], w[1]>> \notin pairs
             /\ Walk(w[1], w[2], at) \in made /\ Walk(w[2], w[1], at) \in made
    <2>1. w \in fresh \X (located \cup fresh) /\ w[1] # w[2] /\ WalkMissing(w[1], w[2], pairs)
        OBVIOUS
    <2> HIDE DEF walks
    <2>2. <<w[2], w[1]>>[1] = w[2] /\ <<w[2], w[1]>>[2] = w[1] /\ <<w[2], w[1]>> \in {<<v[2], v[1]>> : v \in walks}
        OBVIOUS
    <2>3. Walk(w[1], w[2], at) \in made
        OBVIOUS
    <2>4. Walk(w[2], w[1], at) \in made
        BY <2>2
    <2> HIDE DEF pairs, made
    <2> QED BY <2>1, <2>3, <2>4 DEF WalkMissing
<1>8. ASSUME NEW t \in made
      PROVE  \E a, b : /\ t = Walk(a, b, at) /\ (a \in fresh \/ b \in fresh) /\ {a, b} \subseteq located \cup fresh
                       /\ <<a, b>> \notin pairs /\ Walk(b, a, at) \in made
    <2>1. PICK w \in walks \cup {<<v[2], v[1]>> : v \in walks} : t = Walk(w[1], w[2], at)
        BY <1>8
    <2> HIDE DEF made, walks, pairs
    <2>2. CASE w \in walks
        BY <1>7, <2>1, <2>2
    <2>3. CASE w \notin walks
        <3>1. PICK v \in walks : w = <<v[2], v[1]>>
            BY <2>1, <2>3
        <3>2. t = Walk(v[2], v[1], at)
            BY <2>1, <3>1
        <3> QED BY <1>7, <3>2
    <2> QED BY <2>2, <2>3
<1> HIDE DEF made, couplings, walks
<1>9. ASSUME NEW t \in transfers'
      PROVE  IsTransfer(t)'
    <2>1. CASE t \in transfers
        <3>1. IsTransfer(t)
            BY <2>1 DEF TransfersInv
        <3> QED BY <1>1, <1>2, <3>1, IsTransferStays
    <2>2. CASE t \in couplings
        BY <1>6, <2>2
    <2>3. CASE t \in made
        <3>1. PICK a, b : t = Walk(a, b, at) /\ {a, b} \subseteq located'
            BY <1>1, <1>8, <2>3
        <3>2. /\ t.begin = a /\ t.end = b /\ t.trips = << >> /\ t.given = FALSE /\ t.from = at /\ t.named = << >>
            BY <3>1 DEF Walk
        <3>3. DOMAIN t.trips = {} /\ DOMAIN t.named = {}
            BY <3>2, Nothing
        <3> QED BY <1>1, <1>2, <3>1, <3>2, <3>3 DEF IsTransfer
    <2> QED BY <1>1, <2>1, <2>2, <2>3
<1>10. ASSUME NEW a \in located', NEW b \in located', a # b, Apart(a, b) < TransferDistance
       PROVE  \E t \in transfers' : {t.begin, t.end} = {a, b}
    <2>1. ASSUME NEW x \in fresh, NEW y \in located \cup fresh, x # y, Apart(x, y) < TransferDistance
          PROVE  \E t \in transfers' : {t.begin, t.end} = {x, y}
        <3>1. Near(x, y)
            BY <1>1, <1>4, <1>5, <2>1, NearIfClose
        <3>2. CASE WalkMissing(x, y, pairs)
            <4>1. <<x, y>> \in walks /\ <<x, y>>[1] = x /\ <<x, y>>[2] = y
                BY <2>1, <3>1, <3>2 DEF walks
            <4>2. Walk(x, y, at) \in transfers'
                BY <1>1, <1>7, <4>1
            <4>3. Walk(x, y, at).begin = x /\ Walk(x, y, at).end = y
                BY DEF Walk
            <4> QED BY <4>2, <4>3
        <3>3. CASE ~WalkMissing(x, y, pairs)
            <4>1. PICK t \in given : <<t.begin, t.end>> = <<x, y>> \/ <<t.begin, t.end>> = <<y, x>>
                BY <3>3 DEF WalkMissing
            <4> DEFINE c == [begin |-> t.begin, end |-> t.end, trips |-> Renamed(t),
                             given |-> TRUE, from |-> at, named |-> t.trips]
            <4>2. c \in transfers' /\ c.begin = t.begin /\ c.end = t.end
                BY <1>1 DEF couplings
            <4>3. {t.begin, t.end} = {x, y}
                BY <4>1
            <4> QED BY <4>2, <4>3
        <3> QED BY <3>2, <3>3
    <2>2. CASE a \in located /\ b \in located
        BY <1>1, <1>10, <2>2 DEF TransfersInv
    <2>3. CASE a \in fresh
        BY <1>1, <1>10, <2>1, <2>3
    <2>4. CASE a \notin fresh /\ b \in fresh
        <3>1. PICK t \in transfers' : {t.begin, t.end} = {b, a}
            BY <1>1, <1>10, <2>1, <2>4, ApartSymmetric
        <3> QED BY <3>1
    <2> QED BY <1>1, <2>2, <2>3, <2>4
<1>11. ASSUME NEW t \in transfers', ~t.given
       PROVE  /\ \A u \in transfers' : u # t /\ u.begin = t.begin /\ u.end = t.end => u.from > t.from
              /\ \E u \in transfers' : u.begin = t.end /\ u.end = t.begin /\ u.from = t.from
    <2>1. \A u \in transfers : u.from \in 1..at - 1
        BY <1>2 DEF TransfersInv, IsTransfer
    <2>2. CASE t \in transfers
        <3>1. \A u \in couplings \cup made : u.from = at
            <4>1. ASSUME NEW u \in made
                  PROVE  u.from = at
                <5>1. PICK a, b : u = Walk(a, b, at)
                    BY <1>8
                <5> QED BY <5>1 DEF Walk
            <4> QED BY <1>6, <4>1
        <3>2. at > t.from
            BY <1>2, <2>1, <2>2
        <3> QED BY <1>1, <1>11, <2>2, <3>1, <3>2 DEF TransfersInv
    <2>3. CASE t \notin transfers
        <3>1. t \in made
            BY <1>1, <1>6, <1>11, <2>3
        <3>2. PICK a, b : /\ t = Walk(a, b, at) /\ (a \in fresh \/ b \in fresh) /\ {a, b} \subseteq located \cup fresh
                          /\ <<a, b>> \notin pairs /\ Walk(b, a, at) \in made
            BY <1>8, <3>1
        <3>3. t.begin = a /\ t.end = b /\ t.from = at
            BY <3>2 DEF Walk
        <3>4. ASSUME NEW u \in transfers', u # t, u.begin = t.begin, u.end = t.end
              PROVE  FALSE
            <4>1. CASE u \in transfers
                <5>1. IsTransfer(u) /\ u.from \in 1..at - 1
                    BY <2>1, <4>1 DEF TransfersInv
                <5>2. CASE u.given
                    <6>1. a \in PublishedIn(feeds[u.from]) /\ b \in PublishedIn(feeds[u.from])
                        BY <3>3, <3>4, <5>1, <5>2 DEF IsTransfer
                    <6> QED BY <1>5, <3>2, <5>1, <6>1
                <5>3. CASE ~u.given
                    <6>1. a \in located /\ b \in located
                        BY <3>3, <3>4, <5>1, <5>3 DEF IsTransfer
                    <6> QED BY <1>5, <3>2, <6>1
                <5> QED BY <5>2, <5>3
            <4>2. CASE u \in couplings
                BY <1>6, <3>2, <3>3, <3>4, <4>2
            <4>3. CASE u \in made
                <5>1. PICK c, d : u = Walk(c, d, at)
                    BY <1>8, <4>3
                <5>2. u.begin = c /\ u.end = d
                    BY <5>1 DEF Walk
                <5> QED BY <3>2, <3>3, <3>4, <5>1, <5>2
            <4> QED BY <1>1, <4>1, <4>2, <4>3
        <3>5. Walk(b, a, at) \in transfers' /\ Walk(b, a, at).begin = b /\ Walk(b, a, at).end = a
              /\ Walk(b, a, at).from = at
            BY <1>1, <3>2 DEF Walk
        <3> QED BY <3>3, <3>4, <3>5
    <2> QED BY <2>2, <2>3
<1> QED BY <1>9, <1>10, <1>11 DEF TransfersInv

\* Transfers already written stay as they are.
LEMMA TransfersStep ==
    ASSUME Shape, RoutesInv, CalendarsInv, TripsInv, CallsInv, PlacesInv, TransfersInv, [Next]_vars
    PROVE  TransfersInv'
<1>1. feeds' = feeds /\ trips \subseteq trips'
    BY ShapeStep, TripsStep
<1>2. CASE PlacesSame /\ transfers' = transfers
    <2>1. located' = located /\ StopsDone' = StopsDone
        BY <1>2 DEF PlacesSame
    <2>2. ASSUME NEW t \in transfers
          PROVE  IsTransfer(t)'
        <3>1. IsTransfer(t)
            BY DEF TransfersInv
        <3> QED BY <1>1, <2>1, <3>1, IsTransferStays
    <2> QED BY <1>2, <2>1, <2>2 DEF TransfersInv
<1> QED BY <1>2, Frames, WriteStopsTransfers

-----------------------------------------------------------------------------
(* The codes and the end *)

\* Where feeds agree on the station of a stop that has a code, the place a code was
\* kept for is where the merged feed puts the stop.
LEMMA CodesStep ==
    ASSUME Shape, StationsAgree, CallsInv, PlacesInv, CodesInv, [Next]_vars
    PROVE  CodesInv'
<1>1. CASE PlacesSame
    BY <1>1 DEF CodesInv, PlacesSame, Station
<1>2. CASE WriteStops
    <2> DEFINE rows == {s \in ToSet(feed.stops) : s.id \in PublishedIn(feed)}
               coded == {s \in rows : s.code # None}
               pair == [s \in coded |->
                            [code |-> s.code, place |-> IF parents'[s.id] = None THEN s.id ELSE parents'[s.id]]]
    <2>1. /\ UNCHANGED <<feeds, at>> /\ stage = "places"
          /\ parents' = [stop \in Stops |->
                            IF ParentIn(feed, stop) # None THEN ParentIn(feed, stop) ELSE parents[stop]]
          /\ published' = published \cup
                {[id |-> s.id, parent |-> s.parent, code |-> s.code, from |-> at] : s \in rows}
          /\ codes' = codes \cup {pair[s] : s \in DOMAIN pair}
        BY <1>2, PublishedIs DEF WriteStops
    <2>2. at \in Nat /\ StopsDone = at - 1 /\ ValidFeed(feed) /\ feed = feeds[at] /\ at \in DOMAIN feeds
          /\ 1..at - 1 \subseteq DOMAIN feeds
        BY <1>2, <2>1, FeedsType DEF StopsDone, WriteStops, feed
    <2>3. IsFiniteSet(codes')
        <3>1. IsFiniteSet(ToSet(feed.stops))
            BY <2>2, FiniteList DEF ValidFeed, OneOfEach
        <3>2. IsFiniteSet(coded) /\ DOMAIN pair = coded
            BY <3>1, FS_Subset
        <3> HIDE DEF pair, coded
        <3>3. IsFiniteSet({pair[s] : s \in DOMAIN pair})
            BY <3>2, FiniteImage
        <3> QED BY <2>1, <3>3, FS_Union DEF CodesInv
    <2>4. ASSUME NEW s \in coded
          PROVE  [code |-> s.code, place |-> IF parents'[s.id] = None THEN s.id ELSE parents'[s.id]] \in codes'
        <3>1. pair[s] = [code |-> s.code, place |-> IF parents'[s.id] = None THEN s.id ELSE parents'[s.id]]
              /\ s \in DOMAIN pair
            OBVIOUS
        <3> HIDE DEF pair
        <3> QED BY <2>1, <3>1
    <2>5. ASSUME NEW p \in published, p.code # None
          PROVE  parents'[p.id] = parents[p.id] /\ p.id \in Stops
        <3>1. PICK i \in 1..at - 1 : p \in RowsOf(feeds[i], i)
            BY <2>2 DEF PlacesInv
        <3>2. PICK s \in ToSet(feeds[i].stops) : p.id = s.id /\ p.code = s.code /\ s.id \in PublishedIn(feeds[i])
            BY <3>1 DEF RowsOf
        <3>3. ValidFeed(feeds[i]) /\ i \in DOMAIN feeds /\ 1..i \subseteq 1..at - 1
            BY <2>2, FeedsType
        <3>4. p.id \in Stops
            BY <3>2, <3>3, PublishedRow
        <3>5. /\ \A j \in DOMAIN feeds : ParentIn(feeds[j], p.id) # None =>
                    \E g \in 1..i : ParentIn(feeds[g], p.id) # None
              /\ \A g, j \in DOMAIN feeds : ParentIn(feeds[g], p.id) # None /\ ParentIn(feeds[j], p.id) # None =>
                    ParentIn(feeds[g], p.id) = ParentIn(feeds[j], p.id)
            BY <2>5, <3>2, <3>3 DEF StationsAgree
        <3>6. parents'[p.id] = IF ParentIn(feed, p.id) # None THEN ParentIn(feed, p.id) ELSE parents[p.id]
            BY <2>1, <3>4
        <3>7. CASE parents[p.id] = None
            <4>1. \A g \in 1..i : ParentIn(feeds[g], p.id) = None
                BY <2>2, <3>3, <3>4, <3>7 DEF PlacesInv, Alone
            <4>2. ParentIn(feed, p.id) = None
                BY <2>2, <3>5, <4>1
            <4> QED BY <3>4, <3>6, <4>2
        <3>8. CASE parents[p.id] # None
            <4>1. PICK g \in 1..at - 1 : parents[p.id] = ParentIn(feeds[g], p.id)
                BY <2>2, <3>4, <3>8 DEF PlacesInv
            <4>2. ParentIn(feed, p.id) # None => ParentIn(feed, p.id) = parents[p.id]
                BY <2>2, <3>5, <3>8, <4>1
            <4> QED BY <3>4, <3>6, <4>2
        <3> QED BY <3>7, <3>8
    <2>6. ASSUME NEW p \in published', p.code # None
          PROVE  [code |-> p.code, place |-> IF parents'[p.id] = None THEN p.id ELSE parents'[p.id]] \in codes'
        <3>1. CASE p \in published
            <4>1. [code |-> p.code, place |-> Station(p.id)] \in codes
                BY <2>6, <3>1 DEF CodesInv
            <4> QED BY <2>1, <2>5, <2>6, <3>1, <4>1 DEF Station
        <3>2. CASE p \notin published
            <4>1. PICK s \in rows : p = [id |-> s.id, parent |-> s.parent, code |-> s.code, from |-> at]
                BY <2>1, <3>2
            <4>2. p.id = s.id /\ p.code = s.code /\ s \in coded
                BY <2>6, <4>1
            <4> HIDE DEF coded
            <4> QED BY <2>4, <4>2
        <3> QED BY <3>1, <3>2
    <2> QED BY <2>3, <2>6 DEF CodesInv, Station
<1> QED BY <1>1, <1>2, Frames

\* What is written at the end is worked out of what all feeds came to.
LEMMA FinalStep ==
    ASSUME Shape, FinalInv, [Next]_vars
    PROVE  FinalInv'
<1>1. CASE End
    <2>1. UNCHANGED <<codes, published, memberships, groupable>>
        BY <1>1 DEF End, places, groups
    <2>2. /\ stops' = {[s EXCEPT !.code = IF @ \in Shared THEN None ELSE @] : s \in FirstRows}
          /\ stopAreas' = {m \in memberships : m.stop \in groupable}
        BY <1>1 DEF End, Shared, FirstRows
    <2>3. Shared' = Shared /\ FirstRows' = FirstRows
        BY <2>1 DEF Shared, FirstRows
    <2> QED BY <2>1, <2>2, <2>3 DEF FinalInv
<1>2. CASE UNCHANGED vars
    <2>1. UNCHANGED <<stage, stops, stopAreas, codes, published, memberships, groupable>>
        BY <1>2 DEF vars, places, groups, final
    <2>2. Shared' = Shared /\ FirstRows' = FirstRows
        BY <2>1 DEF Shared, FirstRows
    <2> QED BY <2>1, <2>2 DEF FinalInv
<1>3. CASE ~End /\ ~UNCHANGED vars
    <2>1. stage' # "ended"
        <3>1. CASE WriteRoutes \/ WriteCalendars
            BY <3>1 DEF WriteRoutes, WriteCalendars
        <3>2. CASE WriteTrips \/ ReadCall \/ Flush
            BY <3>2 DEF WriteTrips, ReadCall, Flush
        <3>3. CASE EndCalls \/ WriteStops \/ WriteAreas \/ EndFeed
            BY <3>3 DEF EndCalls, WriteStops, WriteAreas, EndFeed
        <3> QED BY <1>3, <3>1, <3>2, <3>3 DEF Next
    <2> QED BY <2>1 DEF FinalInv
<1> QED BY <1>1, <1>2, <1>3

-----------------------------------------------------------------------------
(* The invariant *)

\* Before the first feed nothing is written.
LEMMA InitInv ==
    ASSUME Init
    PROVE  IInv /\ CodesInv
<1>1. /\ feeds \in Inputs /\ at = 1 /\ stage = "services" /\ todo = {"routes", "calendars"}
      /\ line = 0 /\ batch = << >> /\ routes = {} /\ calendars = << >> /\ trips = {} /\ blocks = << >>
      /\ stopTimes = << >> /\ transfers = {} /\ areas = {}
      /\ published = {} /\ parents = [stop \in Stops |-> None] /\ codes = {} /\ located = {}
      /\ memberships = {} /\ groupable = {}
    BY DEF Init
<1>2. Shape
    <2>1. IsList(feeds) /\ Len(feeds) > 0
        BY <1>1, InputsAssumption
    <2>2. Len(feeds) \in Nat
        BY <2>1 DEF IsList
    <2>3. 1 \in 1..Len(feeds)
        BY <2>1, <2>2
    <2> QED BY <1>1, <2>3 DEF Shape
<1>3. /\ RoutesDone = 0 /\ CalendarsDone = 0 /\ TripsDone = 0 /\ StopsDone = 0 /\ AreasDone = 0
      /\ 1..0 = {} /\ at # 0
    BY <1>1 DEF RoutesDone, CalendarsDone, TripsDone, StopsDone, AreasDone
<1>4. Counted({})
    BY FS_EmptySet DEF Counted
<1>5. IsSeq(<< >>) /\ DOMAIN << >> = {} /\ ToSet(<< >>) = {}
    BY Nothing DEF IsSeq
<1>6. RoutesInv /\ CalendarsInv
    BY <1>1, <1>3, <1>4, <1>5 DEF RoutesInv, CalendarsInv
<1>7. TripsInv
    BY <1>1, <1>3, <1>4, <1>5 DEF TripsInv
<1>8. CallsInv
    BY <1>1, <1>3, <1>5 DEF CallsInv, Rising
<1>9. PlacesInv
    BY <1>1, <1>3 DEF PlacesInv, Alone
<1>10. GroupsInv /\ TransfersInv /\ FinalInv
    BY <1>1, <1>3 DEF GroupsInv, TransfersInv, FinalInv
<1>11. CodesInv
    BY <1>1, FS_EmptySet DEF CodesInv
<1> QED BY <1>2, <1>6, <1>7, <1>8, <1>9, <1>10, <1>11 DEF IInv

\* What has been written is, at any moment, what the feeds so far come to.
THEOREM MergeInvariant == Spec => []IInv
<1>1. Init => IInv
    BY InitInv
<1>2. IInv /\ [Next]_vars => IInv'
    <2>1. SUFFICES ASSUME IInv, [Next]_vars
                   PROVE  IInv'
        OBVIOUS
    <2>2. /\ Shape /\ RoutesInv /\ CalendarsInv /\ TripsInv /\ CallsInv /\ PlacesInv /\ GroupsInv
          /\ TransfersInv /\ FinalInv
        BY <2>1 DEF IInv
    <2>3. Shape' /\ RoutesInv' /\ CalendarsInv'
        BY <2>1, <2>2, ShapeStep, RoutesStep, CalendarsStep
    <2>4. TripsInv' /\ CallsInv'
        BY <2>1, <2>2, TripsStep, CallsStep
    <2>5. PlacesInv' /\ GroupsInv'
        BY <2>1, <2>2, PlacesStep, GroupsStep
    <2>6. TransfersInv' /\ FinalInv'
        BY <2>1, <2>2, TransfersStep, FinalStep
    <2> QED BY <2>3, <2>4, <2>5, <2>6 DEF IInv
<1> QED BY <1>1, <1>2, PTL DEF Spec

\* The place a code was kept for is where its stop is, as long as feeds agree.
LEMMA CodesInvariant == Spec => [](StationsAgree => CodesInv)
<1>1. Init => (StationsAgree => CodesInv)
    BY InitInv
<1>2. IInv /\ (StationsAgree => CodesInv) /\ [Next]_vars => (StationsAgree => CodesInv)'
    <2>1. SUFFICES ASSUME IInv, StationsAgree => CodesInv, [Next]_vars, StationsAgree'
                   PROVE  CodesInv'
        OBVIOUS
    <2>2. Shape /\ CallsInv /\ PlacesInv
        BY <2>1 DEF IInv
    <2>3. StationsAgree
        BY <2>1, <2>2, ShapeStep DEF StationsAgree
    <2> QED BY <2>1, <2>2, <2>3, CodesStep
<1> QED BY <1>1, <1>2, MergeInvariant, PTL DEF Spec

-----------------------------------------------------------------------------
(* What the merged feed comes to *)

\* At the end every feed has been read to its last line.
LEMMA AtTheEnd ==
    ASSUME IInv, Ended
    PROVE  /\ at = Len(feeds) /\ DOMAIN feeds = 1..at /\ \A f \in 1..at : ValidFeed(feeds[f])
           /\ RoutesDone = at /\ TripsDone = at /\ StopsDone = at /\ AreasDone = at
           /\ ToSet(batch) = {}
           /\ \A f \in 1..at : LinesRead(f) = KeptLines(feeds[f])
<1>1. Shape /\ CallsInv /\ stage = "ended"
    BY DEF IInv, Ended
<1>2. at = Len(feeds) /\ DOMAIN feeds = 1..at /\ \A f \in 1..at : ValidFeed(feeds[f])
    BY <1>1, FeedsType DEF Shape
<1>3. RoutesDone = at /\ TripsDone = at /\ StopsDone = at /\ AreasDone = at
    BY <1>1 DEF RoutesDone, TripsDone, StopsDone, AreasDone
<1>4. ToSet(batch) = {} /\ line = Len(feeds[at].calls)
    BY <1>1, Nothing DEF CallsInv
<1>5. \A f \in 1..at : LinesRead(f) = KeptLines(feeds[f])
    BY <1>2, <1>3, <1>4, KeptLinesType DEF LinesRead
<1> QED BY <1>2, <1>3, <1>4, <1>5

\* The stops of the merged feed are those any feed publishes.
LEMMA StopIdsAre ==
    ASSUME IInv, Ended
    PROVE  /\ StopIds = {p.id : p \in published}
           /\ StopIds = UNION {PublishedIn(feeds[f]) : f \in 1..at}
<1>1. /\ published = UNION {RowsOf(feeds[f], f) : f \in 1..at}
      /\ stops = {[s EXCEPT !.code = IF @ \in Shared THEN None ELSE @] : s \in FirstRows}
    BY AtTheEnd DEF IInv, PlacesInv, FinalInv, Ended
<1>2. ASSUME NEW p \in published
      PROVE  \E f \in 1..at : \E x \in ToSet(feeds[f].stops) :
                /\ p = [id |-> x.id, parent |-> x.parent, code |-> x.code, from |-> f]
                /\ x.id \in PublishedIn(feeds[f])
    BY <1>1 DEF RowsOf
<1>3. \A s \in stops : \E p \in FirstRows : s.id = p.id
    BY <1>1, <1>2 DEF FirstRows
<1>4. ASSUME NEW p \in published
      PROVE  p.id \in StopIds
    <2> DEFINE same == {x \in published : x.id = p.id}
               numbers == {x.from : x \in same}
    <2>1. numbers \in SUBSET Nat /\ numbers # {}
        BY <1>2
    <2>2. PICK n \in numbers : \A m \in numbers : n <= m
        BY <2>1, LeastOf
    <2>3. PICK x \in published : x.id = p.id /\ x.from = n
        BY <2>2
    <2>4. x \in FirstRows
        <3>1. ASSUME NEW y \in published, y.id = x.id
              PROVE  y.from >= x.from
            <4>1. y.from \in numbers
                BY <2>3, <3>1
            <4>2. y.from \in Nat /\ n \in Nat /\ n <= y.from
                BY <2>1, <2>2, <4>1
            <4> QED BY <2>3, <4>2
        <3> QED BY <3>1 DEF FirstRows
    <2>5. [x EXCEPT !.code = IF @ \in Shared THEN None ELSE @] \in stops
        BY <1>1, <2>4
    <2>6. [x EXCEPT !.code = IF @ \in Shared THEN None ELSE @].id = x.id
        BY <1>2
    <2> QED BY <2>3, <2>5, <2>6 DEF StopIds
<1>5. StopIds = {p.id : p \in published}
    BY <1>3, <1>4 DEF StopIds, FirstRows
<1>6. ASSUME NEW p \in published
      PROVE  p.id \in UNION {PublishedIn(feeds[f]) : f \in 1..at}
    BY <1>2
<1>7. ASSUME NEW f \in 1..at, NEW stop \in PublishedIn(feeds[f])
      PROVE  \E p \in published : p.id = stop
    <2>1. ValidFeed(feeds[f])
        BY AtTheEnd
    <2>2. PICK x \in ToSet(feeds[f].stops) : x.id = stop
        BY <2>1, PublishedRow
    <2>3. [id |-> x.id, parent |-> x.parent, code |-> x.code, from |-> f] \in RowsOf(feeds[f], f)
        BY <2>2 DEF RowsOf
    <2>4. [id |-> x.id, parent |-> x.parent, code |-> x.code, from |-> f] \in published
        BY <1>1, <2>3
    <2> QED BY <2>2, <2>4
<1> QED BY <1>5, <1>6, <1>7

\* A trip in the merged feed is of one line of the feed it came of.
LEMMA TripFrom ==
    ASSUME IInv, NEW t \in trips
    PROVE  /\ t.from[1] \in 1..at /\ t.from[1] \in DOMAIN feeds /\ ValidFeed(feeds[t.from[1]])
           /\ \E k \in KeptTrips(feeds[t.from[1]]) :
                IsTrip(t, t.from[1], k) /\ feeds[t.from[1]].trips[k].id = t.from[2]
<1>1. Shape /\ TripsInv
    BY DEF IInv
<1>2. PICK f \in 1..TripsDone : \E k \in KeptTrips(feeds[f]) : IsTrip(t, f, k)
    BY <1>1 DEF TripsInv
<1>3. PICK k \in KeptTrips(feeds[f]) : IsTrip(t, f, k)
    BY <1>2
<1>4. t.from[1] = f /\ t.from[2] = feeds[f].trips[k].id
    BY <1>3 DEF IsTrip
<1>5. f \in 1..at /\ f \in DOMAIN feeds /\ ValidFeed(feeds[f])
    BY <1>1, FeedsType DEF TripsDone
<1> QED BY <1>3, <1>4, <1>5

\* Every reference in the merged feed names a row that was written.
THEOREM RefsResolveCorrect == Spec => []RefsResolve
<1>1. ASSUME IInv
      PROVE  RefsResolve
    <2>1. ASSUME NEW t \in trips
          PROVE  t.service \in DOMAIN calendars /\ \E r \in routes : r.id = t.route
        <3>1. PICK f, k : IsTrip(t, f, k)
            BY <1>1, TripFrom
        <3>2. [id |-> t.route, from |-> <<f, feeds[f].trips[k].route>>] \in routes /\ t.service \in DOMAIN calendars
            BY <3>1 DEF IsTrip
        <3> QED BY <3>2
    <2>2. ASSUME Ended, NEW call \in ToSet(stopTimes)
          PROVE  call.trip \in TripIds /\ call.stop \in StopIds
        <3>1. PICK f \in 1..at : \E i \in KeptLines(feeds[f]) : IsCall(call, f, i)
            BY <1>1, <2>2, AtTheEnd DEF IInv, CallsInv
        <3>2. PICK i \in KeptLines(feeds[f]) : IsCall(call, f, i)
            BY <3>1
        <3>3. PICK t \in trips : call = [trip |-> t.id, stop |-> feeds[f].calls[i].stop, from |-> <<f, i>>]
            BY <3>2 DEF IsCall
        <3>4. call.trip = t.id /\ call.stop = feeds[f].calls[i].stop
            BY <3>3
        <3>5. call.stop \in PublishedIn(feeds[f])
            BY <3>4 DEF PublishedIn, CalledIn
        <3> QED BY <1>1, <2>2, <3>4, <3>5, StopIdsAre DEF TripIds
    <2>3. ASSUME Ended, NEW t \in transfers
          PROVE  {t.begin, t.end} \subseteq StopIds /\ ToSet(t.trips) \subseteq TripIds
        <3>1. IsTransfer(t) /\ StopsDone = at
            BY <1>1, <2>3, AtTheEnd DEF IInv, TransfersInv
        <3>2. \A s \in located : \E f \in 1..at : s \in PublishedIn(feeds[f])
            BY <1>1, <3>1 DEF IInv, PlacesInv, LocatedBy
        <3>3. {t.begin, t.end} \subseteq StopIds
            BY <1>1, <2>3, <3>1, <3>2, StopIdsAre DEF IsTransfer
        <3>4. ToSet(t.trips) \subseteq TripIds
            BY <3>1 DEF IsTransfer, ToSet, TripIds
        <3> QED BY <3>3, <3>4
    <2>4. ASSUME Ended, NEW s \in stops
          PROVE  s.parent \in StopIds \cup {None}
        <3>1. PICK p \in published : s = [p EXCEPT !.code = IF @ \in Shared THEN None ELSE @]
            BY <1>1, <2>4 DEF IInv, FinalInv, FirstRows, Ended
        <3>2. PICK f \in 1..at : p \in RowsOf(feeds[f], f)
            BY <1>1, <2>4, AtTheEnd DEF IInv, PlacesInv
        <3>3. PICK x \in ToSet(feeds[f].stops) :
                    /\ p = [id |-> x.id, parent |-> x.parent, code |-> x.code, from |-> f]
                    /\ x.id \in PublishedIn(feeds[f])
            BY <3>2 DEF RowsOf
        <3>4. s.parent = x.parent
            BY <3>1, <3>3
        <3>5. ValidFeed(feeds[f])
            BY <1>1, <2>4, AtTheEnd
        <3>6. x.parent = None \/ x.parent \in PublishedIn(feeds[f])
            BY <3>3, <3>5, PublishedRow, ParentOfRow
        <3> QED BY <1>1, <2>4, <3>4, <3>6, StopIdsAre
    <2>5. ASSUME Ended, NEW m \in stopAreas
          PROVE  m.stop \in StopIds /\ m.area \in areas
        <3>1. m \in memberships /\ m.stop \in groupable
            BY <1>1, <2>5 DEF IInv, FinalInv, Ended
        <3>2. /\ areas = UNION {feeds[f].areas : f \in 1..at}
              /\ groupable = UNION {PublishedIn(feeds[f]) : f \in 1..at}
              /\ memberships = UNION {MembersOf(feeds[f]) : f \in 1..at}
            BY <1>1, <2>5, AtTheEnd DEF IInv, GroupsInv
        <3>3. PICK f \in 1..at : m \in MembersOf(feeds[f])
            BY <3>1, <3>2
        <3>4. m.area \in feeds[f].areas
            BY <1>1, <2>5, <3>3, AtTheEnd DEF MembersOf, ValidFeed
        <3> QED BY <1>1, <2>5, <3>1, <3>2, <3>4, StopIdsAre
    <2> QED BY <2>1, <2>2, <2>3, <2>4, <2>5 DEF RefsResolve
<1> QED BY <1>1, MergeInvariant, PTL

\* Two feeds that use one id do not mean one thing.
THEOREM NotConflatedCorrect == Spec => []NotConflated
<1>1. ASSUME IInv
      PROVE  NotConflated
    <2>1. \A r, s \in routes : r.id = s.id => r = s
        BY <1>1 DEF IInv, RoutesInv, Counted
    <2>2. \A t, u \in trips : t.id = u.id => t = u
        BY <1>1 DEF IInv, TripsInv, Counted
    <2>3. ASSUME NEW t \in trips
          PROVE  \E k \in KeptTrips(feeds[t.from[1]]) :
                    IsTrip(t, t.from[1], k) /\ BlockGiven(t) = feeds[t.from[1]].trips[k].block
        <3> DEFINE list == feeds[t.from[1]].trips
        <3>1. PICK k \in KeptTrips(feeds[t.from[1]]) : IsTrip(t, t.from[1], k) /\ list[k].id = t.from[2]
            BY <1>1, TripFrom
        <3>2. OneOfEach(list) /\ k \in DOMAIN list
            BY <1>1, TripFrom DEF ValidFeed, KeptTrips
        <3>3. list[k] \in ToSet(list) /\ \A g \in ToSet(list) : g.id = t.from[2] => g = list[k]
            BY <3>1, <3>2 DEF ToSet, OneOfEach
        <3> HIDE DEF list
        <3>4. (CHOOSE g \in ToSet(list) : g.id = t.from[2]) = list[k]
            BY <3>1, <3>3
        <3>5. BlockGiven(t) = list[k].block
            BY <3>4 DEF BlockGiven, list
        <3> QED BY <3>1, <3>5 DEF list
    <2>4. ASSUME NEW t \in trips, NEW u \in trips, t.block # None
          PROVE  t.block = u.block <=> t.from[1] = u.from[1] /\ BlockGiven(t) = BlockGiven(u)
        <3>1. PICK k : IsTrip(t, t.from[1], k) /\ BlockGiven(t) = feeds[t.from[1]].trips[k].block
            BY <2>3
        <3>2. PICK l : IsTrip(u, u.from[1], l) /\ BlockGiven(u) = feeds[u.from[1]].trips[l].block
            BY <2>3
        <3>3. BlockGiven(t) # None /\ t.block \in DOMAIN blocks /\ blocks[t.block] = <<t.from[1], BlockGiven(t)>>
            BY <2>4, <3>1 DEF IsTrip
        <3>4. /\ BlockGiven(u) = None => u.block = None
              /\ BlockGiven(u) # None =>
                    u.block \in DOMAIN blocks /\ blocks[u.block] = <<u.from[1], BlockGiven(u)>>
            BY <3>2 DEF IsTrip
        <3>5. \A i, j \in DOMAIN blocks : blocks[i] = blocks[j] => i = j
            BY <1>1 DEF IInv, TripsInv
        <3> QED BY <2>4, <3>3, <3>4, <3>5
    <2>5. \A c \in transfers : \A i \in DOMAIN c.trips :
            \E t \in trips : t.id = c.trips[i] /\ t.from = <<c.from, c.named[i]>>
        BY <1>1 DEF IInv, TransfersInv, IsTransfer
    <2> QED BY <2>1, <2>2, <2>4, <2>5 DEF NotConflated
<1> QED BY <1>1, MergeInvariant, PTL

\* Places near enough are joined, and no walk is made that a feed already read gives.
THEOREM WalksBetweenNeighboursCorrect == Spec => []WalksBetweenNeighbours
<1>1. ASSUME IInv
      PROVE  WalksBetweenNeighbours
    <2>1. ASSUME Ended, TransferDistance > 0, NEW s \in StopIds, parents[s] = None, Loc[s] # 0
          PROVE  s \in located
        <3>1. PICK f \in 1..at : s \in PublishedIn(feeds[f])
            BY <1>1, <2>1, StopIdsAre
        <3>2. ValidFeed(feeds[f]) /\ StopsDone = at
            BY <1>1, <2>1, AtTheEnd
        <3>3. s \in Stops
            BY <3>1, <3>2, PublishedRow
        <3>4. Alone(feeds, at, s) /\ located = UNION {LocatedBy(feeds, g) : g \in 1..at}
            BY <1>1, <2>1, <3>2, <3>3 DEF IInv, PlacesInv
        <3>5. at \in Nat
            BY <1>1, FeedsType DEF IInv
        <3>6. Alone(feeds, f, s)
            BY <3>4, <3>5 DEF Alone
        <3> QED BY <2>1, <3>1, <3>4, <3>6 DEF LocatedBy
    <2>2. TransfersInv
        BY <1>1 DEF IInv
    <2> QED BY <2>1, <2>2 DEF WalksBetweenNeighbours, TransfersInv
<1> QED BY <1>1, MergeInvariant, PTL

\* A membership is kept where its station is in the merged feed, and a code that is
\* left names one station where the feeds agree on the stations.
THEOREM AskedOfTheWholeCorrect == Spec => []AskedOfTheWhole
<1>1. ASSUME IInv, Ended
      PROVE  GroupsWhole
    <2>1. /\ groupable = UNION {PublishedIn(feeds[f]) : f \in 1..at}
          /\ memberships = UNION {MembersOf(feeds[f]) : f \in 1..at}
          /\ stopAreas = {m \in memberships : m.stop \in groupable}
        BY <1>1, AtTheEnd DEF IInv, GroupsInv, FinalInv, Ended
    <2>2. StopIds = groupable
        BY <1>1, <2>1, StopIdsAre
    <2>3. ASSUME NEW f \in DOMAIN feeds, NEW m \in feeds[f].members, NEW station,
                 station = IF ParentIn(feeds[f], m.stop) = None THEN m.stop ELSE ParentIn(feeds[f], m.stop)
          PROVE  station \in StopIds <=> [area |-> m.area, stop |-> station] \in stopAreas
        <3>1. [area |-> m.area, stop |-> station] \in MembersOf(feeds[f]) /\ f \in 1..at
            BY <1>1, <2>3, AtTheEnd DEF MembersOf
        <3>2. [area |-> m.area, stop |-> station] \in memberships
              /\ [area |-> m.area, stop |-> station].stop = station
            BY <2>1, <3>1
        <3> QED BY <2>1, <2>2, <3>2
    <2> QED BY <2>3 DEF GroupsWhole
<1>2. ASSUME IInv, CodesInv, Ended
      PROVE  CodesNameOneStation
    <2>1. ASSUME NEW s \in stops, s.code # None
          PROVE  s.code \notin Shared /\ [code |-> s.code, place |-> Station(s.id)] \in codes
        <3>1. PICK p \in published : s = [p EXCEPT !.code = IF @ \in Shared THEN None ELSE @]
            BY <1>2, <2>1 DEF IInv, FinalInv, FirstRows, Ended
        <3>2. PICK f \in 1..at : p \in RowsOf(feeds[f], f)
            BY <1>2, AtTheEnd DEF IInv, PlacesInv
        <3>3. PICK x : p = [id |-> x.id, parent |-> x.parent, code |-> x.code, from |-> f]
            BY <3>2 DEF RowsOf
        <3>4. s.id = p.id /\ s.code = IF p.code \in Shared THEN None ELSE p.code
            BY <3>1, <3>3
        <3> QED BY <1>2, <2>1, <3>4 DEF CodesInv
    <2>2. ASSUME NEW s \in stops, NEW u \in stops, s.code # None, s.code = u.code
          PROVE  Station(s.id) = Station(u.id)
        <3> DEFINE c == [code |-> s.code, place |-> Station(s.id)]
                   d == [code |-> s.code, place |-> Station(u.id)]
                   both == {x \in codes : x.code = s.code}
        <3>1. c \in both /\ d \in both /\ s.code \notin Shared
            BY <2>1, <2>2
        <3>2. ~(Cardinality(both) > 1)
            <4>1. s.code \in {x.code : x \in codes}
                BY <3>1
            <4> HIDE DEF both
            <4> QED BY <3>1, <4>1 DEF Shared, both
        <3>3. IsFiniteSet(both)
            BY <1>2, FS_Subset DEF CodesInv
        <3> HIDE DEF both, c, d
        <3>4. Cardinality(both) \in Nat /\ Cardinality(both) # 0
            BY <3>1, <3>3, FS_CardinalityType, FS_EmptySet
        <3>5. Cardinality(both) = 1
            BY <3>2, <3>4
        <3>6. PICK x : both = {x}
            BY <3>3, <3>5, FS_Singleton
        <3>7. c = d
            BY <3>1, <3>6
        <3> QED BY <3>7 DEF c, d
    <2> QED BY <2>2 DEF CodesNameOneStation
<1>3. IInv /\ (StationsAgree => CodesInv) => AskedOfTheWhole
    BY <1>1, <1>2 DEF AskedOfTheWhole
<1> QED BY <1>3, MergeInvariant, CodesInvariant, PTL

\* A trip kept is the only row of the merged feed from its line, on the days it was given.
LEMMA MergedOnce ==
    ASSUME IInv, Ended, NEW f \in 1..at, NEW k \in KeptTrips(feeds[f]),
           NEW service, service \in ToSet(feeds[f].services), service.id = feeds[f].trips[k].service
    PROVE  \E t \in trips :
            /\ {u \in trips : u.from = <<f, feeds[f].trips[k].id>>} = {t}
            /\ [id |-> t.route, from |-> <<f, feeds[f].trips[k].route>>] \in routes
            /\ Ahead(DaysOf(calendars[t.service])) = Ahead(DaysGiven(service))
<1> DEFINE g == feeds[f]
           trip == g.trips[k]
<1>1. ValidFeed(g) /\ TripsDone = at /\ TripsInv
    BY AtTheEnd DEF IInv
<1>2. PICK t \in trips : t.from = <<f, trip.id>>
    BY <1>1 DEF TripsInv
<1>3. \A u \in trips : u.from = t.from => u = t
    BY <1>1 DEF TripsInv
<1>4. {u \in trips : u.from = <<f, trip.id>>} = {t}
    BY <1>2, <1>3
<1>5. PICK l \in KeptTrips(feeds[t.from[1]]) :
            IsTrip(t, t.from[1], l) /\ feeds[t.from[1]].trips[l].id = t.from[2]
    BY TripFrom
<1>6. t.from[1] = f /\ t.from[2] = trip.id
    BY <1>2
<1>7. l \in DOMAIN g.trips /\ k \in DOMAIN g.trips /\ g.trips[l].id = g.trips[k].id
    BY <1>5, <1>6 DEF KeptTrips
<1>8. l = k
    BY <1>1, <1>7 DEF ValidFeed, OneOfEach
<1>9. IsTrip(t, f, k)
    BY <1>5, <1>6, <1>8
<1>10. PICK s \in Running(g) : s.id = trip.service /\ calendars[t.service] = CalendarOf(s)
    BY <1>9 DEF IsTrip
<1>11. s \in ToSet(g.services) /\ Told(s) # {} /\ ValidService(s)
    BY <1>1, <1>10 DEF Running, ValidFeed
<1>12. s = service
    BY <1>1, <1>10, <1>11 DEF ValidFeed, OneOfEach, ToSet
<1>13. Ahead(DaysOf(calendars[t.service])) = Ahead(DaysGiven(service))
    BY <1>10, <1>11, <1>12, ToldIsGiven
<1>14. [id |-> t.route, from |-> <<f, trip.route>>] \in routes
    BY <1>9 DEF IsTrip
<1> QED BY <1>4, <1>13, <1>14

\* A row of a trip has the calls its feed gave it, and those alone.
LEMMA CallsAsGiven ==
    ASSUME IInv, Ended, NEW f \in 1..at, NEW k \in KeptTrips(feeds[f]),
           NEW t \in trips, t.from = <<f, feeds[f].trips[k].id>>
    PROVE  /\ \A i \in LinesOf(f, feeds[f].trips[k].id) : \E c \in ToSet(stopTimes) :
                c = [trip |-> t.id, stop |-> feeds[f].calls[i].stop, from |-> <<f, i>>]
           /\ \A c \in ToSet(stopTimes) :
                c.trip = t.id <=> c.from[1] = f /\ c.from[2] \in LinesOf(f, feeds[f].trips[k].id)
<1> DEFINE trip == feeds[f].trips[k]
<1>1. /\ TripsDone = at /\ ToSet(batch) = {} /\ TripsInv /\ CallsInv
      /\ \A h \in 1..at : LinesRead(h) = KeptLines(feeds[h])
    BY AtTheEnd DEF IInv
<1>2. \A u \in trips : (u.from = t.from => u = t) /\ (u.id = t.id => u = t)
    BY <1>1 DEF TripsInv, Counted
<1>3. ASSUME NEW c \in ToSet(stopTimes)
      PROVE  \E h \in 1..at : \E i \in KeptLines(feeds[h]) : IsCall(c, h, i)
    BY <1>1 DEF CallsInv
<1>4. ASSUME NEW i \in LinesOf(f, trip.id)
      PROVE  \E c \in ToSet(stopTimes) : c = [trip |-> t.id, stop |-> feeds[f].calls[i].stop, from |-> <<f, i>>]
    <2>1. i \in DOMAIN feeds[f].calls /\ feeds[f].calls[i].trip = trip.id /\ IsRead(feeds[f].calls[i])
        BY <1>4 DEF LinesOf
    <2>2. i \in KeptLines(feeds[f])
        BY <2>1 DEF KeptLines
    <2>3. PICK c \in ToSet(stopTimes) : c.from = <<f, i>>
        BY <1>1, <2>2 DEF CallsInv
    <2>4. PICK h \in 1..at : \E j \in KeptLines(feeds[h]) : IsCall(c, h, j)
        BY <1>3
    <2>5. PICK j \in KeptLines(feeds[h]) : IsCall(c, h, j)
        BY <2>4
    <2>6. PICK u \in trips : /\ c = [trip |-> u.id, stop |-> feeds[h].calls[j].stop, from |-> <<h, j>>]
                             /\ u.from = <<h, feeds[h].calls[j].trip>>
        BY <2>5 DEF IsCall
    <2>7. <<h, j>> = <<f, i>>
        BY <2>3, <2>6
    <2>8. h = f /\ j = i
        BY <2>7
    <2>9. u = t
        BY <1>2, <2>1, <2>6, <2>8
    <2> QED BY <2>6, <2>8, <2>9
<1>5. ASSUME NEW c \in ToSet(stopTimes)
      PROVE  c.trip = t.id <=> c.from[1] = f /\ c.from[2] \in LinesOf(f, trip.id)
    <2>1. PICK h \in 1..at : \E j \in KeptLines(feeds[h]) : IsCall(c, h, j)
        BY <1>3
    <2>2. PICK j \in KeptLines(feeds[h]) : IsCall(c, h, j)
        BY <2>1
    <2>3. PICK u \in trips : /\ c = [trip |-> u.id, stop |-> feeds[h].calls[j].stop, from |-> <<h, j>>]
                             /\ u.from = <<h, feeds[h].calls[j].trip>>
        BY <2>2 DEF IsCall
    <2>4. c.trip = u.id /\ c.from[1] = h /\ c.from[2] = j /\ j \in DOMAIN feeds[h].calls /\ IsRead(feeds[h].calls[j])
        BY <2>2, <2>3 DEF KeptLines
    <2>5. c.trip = t.id <=> u.from = t.from
        BY <1>2, <2>4
    <2>6. u.from = t.from <=> h = f /\ feeds[h].calls[j].trip = trip.id
        BY <2>3
    <2>7. j \in LinesOf(f, trip.id) <=>
            j \in DOMAIN feeds[f].calls /\ feeds[f].calls[j].trip = trip.id /\ IsRead(feeds[f].calls[j])
        BY DEF LinesOf
    <2> QED BY <2>4, <2>5, <2>6, <2>7
<1> QED BY <1>4, <1>5

\* What becomes of a trip of a feed, of a service and a route it has.
LEMMA ServedOnce ==
    ASSUME IInv, Ended, NEW f \in DOMAIN feeds, NEW trip \in ToSet(feeds[f].trips),
           NEW service \in ToSet(feeds[f].services), service.id = trip.service,
           NEW route \in ToSet(feeds[f].routes), route.id = trip.route
    PROVE  ServedTrip(f, trip, service, route)
<1> DEFINE g == feeds[f]
<1>1. f \in 1..at /\ ValidFeed(g)
    BY AtTheEnd
<1>2. PICK k \in DOMAIN g.trips : g.trips[k] = trip
    BY DEF ToSet
<1>3. ValidService(service) /\ service.id = g.trips[k].service
    BY <1>1, <1>2 DEF ValidFeed
<1>4. CASE Ahead(DaysGiven(service)) # {} /\ route.type \notin RemovedTypes
    <2>1. service \in Running(g)
        BY <1>3, <1>4, ToldIsGiven DEF Running
    <2>2. PICK i \in DOMAIN g.routes : g.routes[i] = route
        BY DEF ToSet
    <2>3. i \in KeptRoutes(g)
        BY <1>4, <2>2 DEF KeptRoutes
    <2>4. k \in KeptTrips(g)
        BY <1>2, <1>3, <2>1, <2>2, <2>3 DEF KeptTrips
    <2>5. PICK t \in trips :
            /\ {u \in trips : u.from = <<f, g.trips[k].id>>} = {t}
            /\ [id |-> t.route, from |-> <<f, g.trips[k].route>>] \in routes
            /\ Ahead(DaysOf(calendars[t.service])) = Ahead(DaysGiven(service))
        BY <1>1, <1>3, <2>4, MergedOnce
    <2>6. t.from = <<f, g.trips[k].id>>
        BY <2>5
    <2>7. /\ \A j \in LinesOf(f, trip.id) : \E c \in ToSet(stopTimes) :
                c = [trip |-> t.id, stop |-> feeds[f].calls[j].stop, from |-> <<f, j>>]
          /\ \A c \in ToSet(stopTimes) :
                c.trip = t.id <=> c.from[1] = f /\ c.from[2] \in LinesOf(f, trip.id)
        <3>1. feeds[f].trips[k] = trip
            BY <1>2
        <3>2. k \in KeptTrips(feeds[f]) /\ t.from = <<f, feeds[f].trips[k].id>>
            BY <2>4, <2>6
        <3>3. /\ \A j \in LinesOf(f, feeds[f].trips[k].id) : \E c \in ToSet(stopTimes) :
                    c = [trip |-> t.id, stop |-> feeds[f].calls[j].stop, from |-> <<f, j>>]
              /\ \A c \in ToSet(stopTimes) :
                    c.trip = t.id <=> c.from[1] = f /\ c.from[2] \in LinesOf(f, feeds[f].trips[k].id)
            <4> HIDE DEF g
            <4> QED BY <1>1, <3>2, CallsAsGiven
        <3> QED BY <3>1, <3>3
    <2> QED BY <1>2, <1>4, <2>5, <2>7 DEF ServedTrip
<1>5. CASE ~(Ahead(DaysGiven(service)) # {} /\ route.type \notin RemovedTypes)
    <2>1. ASSUME NEW t \in trips, t.from = <<f, trip.id>>
          PROVE  Ahead(DaysOf(calendars[t.service])) = {}
        <3>1. t.from[1] = f /\ t.from[2] = trip.id
            BY <2>1
        <3>2. PICK l \in KeptTrips(g) : g.trips[l].id = trip.id
            BY <3>1, TripFrom
        <3>3. l = k
            BY <1>1, <1>2, <3>2 DEF KeptTrips, ValidFeed, OneOfEach
        <3>4. k \in KeptTrips(g)
            BY <3>2, <3>3
        <3>5. PICK i \in KeptRoutes(g) : g.routes[i].id = trip.route
            BY <1>2, <3>4 DEF KeptTrips
        <3>6. i \in DOMAIN g.routes /\ g.routes[i].type \notin RemovedTypes
            BY <3>5 DEF KeptRoutes
        <3>7. g.routes[i] = route
            BY <1>1, <3>5, <3>6 DEF ValidFeed, OneOfEach, ToSet
        <3>8. Ahead(DaysGiven(service)) = {}
            BY <1>5, <3>6, <3>7
        <3>9. PICK u \in trips :
                /\ {v \in trips : v.from = <<f, g.trips[k].id>>} = {u}
                /\ [id |-> u.route, from |-> <<f, g.trips[k].route>>] \in routes
                /\ Ahead(DaysOf(calendars[u.service])) = Ahead(DaysGiven(service))
            BY <1>1, <1>3, <3>4, MergedOnce
        <3>10. t = u
            BY <1>2, <2>1, <3>9
        <3> QED BY <3>8, <3>9, <3>10
    <2> QED BY <1>5, <2>1 DEF ServedTrip
<1> QED BY <1>4, <1>5

\* Every trip that has a day left and a route that is kept is merged once, with its
\* calls that have both times, at their stops and in order, and on exactly its days; no
\* other trip runs on a day ahead.
THEOREM ServedAsGivenCorrect == Spec => []ServedAsGiven
<1>1. ASSUME IInv
      PROVE  ServedAsGiven
    <2>1. Rising(stopTimes)
        BY <1>1 DEF IInv, CallsInv
    <2>2. ASSUME Ended, NEW f \in DOMAIN feeds, NEW trip \in ToSet(feeds[f].trips)
          PROVE  ServedTrip(f, trip, CHOOSE s \in ToSet(feeds[f].services) : s.id = trip.service,
                                     CHOOSE r \in ToSet(feeds[f].routes) : r.id = trip.route)
        <3> DEFINE service == CHOOSE s \in ToSet(feeds[f].services) : s.id = trip.service
                   route == CHOOSE r \in ToSet(feeds[f].routes) : r.id = trip.route
        <3>1. ValidFeed(feeds[f])
            BY <1>1, <2>2, AtTheEnd
        <3>2. service \in ToSet(feeds[f].services) /\ service.id = trip.service
            BY <3>1 DEF ValidFeed
        <3>3. route \in ToSet(feeds[f].routes) /\ route.id = trip.route
            BY <3>1 DEF ValidFeed
        <3> HIDE DEF service, route
        <3>4. ServedTrip(f, trip, service, route)
            BY <1>1, <2>2, <3>2, <3>3, ServedOnce
        <3> QED BY <3>4 DEF service, route
    <2> QED BY <2>1, <2>2 DEF ServedAsGiven, ServedTrip, Rising
<1> QED BY <1>1, MergeInvariant, PTL
=============================================================================
