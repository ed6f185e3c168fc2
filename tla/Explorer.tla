------------------------------ MODULE Explorer ------------------------------
(***************************************************************************)
(* The feed explorer (apps/website/src/explorer): a page and the worker    *)
(* that holds the open feed, over two ports that keep their order.  The    *)
(* page asks what the hash of its address says and paints the answer if    *)
(* nothing newer was asked for; the worker loads feeds side by side and    *)
(* answers from the one loaded last.                                       *)
(*                                                                         *)
(* A feed is the number of the opening it came of.  The overview is made   *)
(* from the manifest the page holds, a file from one answer, and the       *)
(* checks from findings that arrive one by one and the answer after them.  *)
(***************************************************************************)
EXTENDS Naturals, Sequences, SequencesExt

CONSTANTS
    MaxOpens,       \* feeds opened
    MaxActs,        \* things the reader does
    Batch,          \* findings between two paintings of a run of checks
    FindingsIn,     \* how many findings the checks make in each feed
    Lacks,          \* feeds without the file
    MaxFaults,      \* checks that throw, workers that stop
    None, Blank, LoadError

Feeds == 1..MaxOpens
Ids == 1..MaxActs
Routes == {"overview", "file", "checks"}

ASSUME BoundsAssumption == {MaxOpens, MaxActs, MaxFaults} \subseteq Nat /\ Batch \in Nat \ {0}
ASSUME FeedsAssumption == FindingsIn \in [Feeds -> Nat] /\ Lacks \subseteq Feeds
ASSUME NoneAssumption == None \notin Feeds

Requests ==
    [type : {"open"}, feed : Feeds] \cup [type : {"ask"}, id : Nat, route : Routes]

\* A failed question is told with the feed it was asked of.
Messages ==
    [type : {"opened"}, feed : Feeds] \cup [type : {"failure"}]
    \cup [type : {"finding"}, id : Nat, feed : Feeds, finding : Nat]
    \cup [type : {"result", "failed"}, id : Nat, feed : Feeds] \cup [type : {"done"}, id : Nat]

\* What the pane shows: of which feed and route, the findings, and whether it is all.
Views == [feed : Feeds, route : Routes, found : Seq(Nat), whole : BOOLEAN]

ASSUME PaneAssumption == {Blank, LoadError} \cap Views = {}

VARIABLES
    hash,       \* the route the address names
    changes,    \* hashchange events to come
    panel,      \* which part of the page is shown
    manifest,   \* of the feed the page takes to be open
    rendering,  \* number of the newest rendering
    view,       \* the pane
    asked,      \* [route, by] of each question, `by` the rendering that asked it
    pending,    \* questions without their answer
    found,      \* the findings of each question so far
    results,    \* answers whose `done` is to come
    toWorker, toPage,
    loads,      \* feeds the worker is loading
    slot,       \* the feed it answers from
    alive,
    opens, acts, faults

page == <<hash, changes, panel, manifest, rendering, view>>
client == <<asked, pending, found, results>>
worker == <<loads, slot, alive>>
reader == <<opens, acts>>
vars == <<page, client, toWorker, toPage, worker, reader, faults>>

-----------------------------------------------------------------------------
(* The page: render, html_ *)

Ask(route, by) ==
    LET id == Len(asked) + 1 IN
    /\ asked' = Append(asked, [route |-> route, by |-> by])
    /\ pending' = pending \cup {id}
    /\ found' = Append(found, << >>)
    /\ toWorker' = Append(toWorker, [type |-> "ask", id |-> id, route |-> route])

\* Renders what the hash says, of feed m.
Render(m) ==
    /\ rendering' = rendering + 1
    /\ CASE hash = "overview" ->
              /\ view' = [feed |-> m, route |-> hash, found |-> << >>, whole |-> TRUE]
              /\ UNCHANGED <<asked, pending, found, toWorker>>
         [] hash = "checks" ->
              /\ view' = [feed |-> m, route |-> hash, found |-> << >>, whole |-> FALSE]
              /\ Ask(hash, rendering')
         [] hash = "file" ->
              /\ view' = view
              /\ Ask(hash, rendering')
    /\ results' = results

\* Mutant: whatever is answered is painted.
PaintsAny(id) == TRUE

\* Only the newest rendering may paint.
Paints(id) == asked[id].by = rendering

-----------------------------------------------------------------------------
(* The reader *)

Acts ==
    /\ acts < MaxActs
    /\ acts' = acts + 1

\* A feed chosen on the landing page, or dropped on the page whatever it shows.
OpenFeed ==
    /\ Acts
    /\ opens < MaxOpens
    /\ opens' = opens + 1
    /\ panel' = "loading"
    /\ view' = Blank
    /\ manifest' = None
    /\ toWorker' = Append(toWorker, [type |-> "open", feed |-> opens'])
    /\ UNCHANGED <<hash, changes, rendering, client, toPage, worker, faults>>

SetHash(route) ==
    /\ hash' = route
    /\ changes' = IF route = hash THEN changes ELSE changes + 1

CloseFeed ==
    /\ panel = "app"
    /\ Acts
    /\ panel' = "open"
    /\ manifest' = None
    /\ SetHash("overview")
    /\ UNCHANGED <<rendering, view, client, toWorker, toPage, worker, opens, faults>>

Navigate ==
    /\ Acts
    /\ \E route \in Routes \ {hash} : SetHash(route)
    /\ UNCHANGED <<panel, manifest, rendering, view, client, toWorker, toPage, worker, opens, faults>>

HashChange ==
    /\ changes > 0
    /\ changes' = changes - 1
    /\ IF manifest = None
         THEN UNCHANGED <<rendering, view, client, toWorker>>
         ELSE Render(manifest)
    /\ UNCHANGED <<hash, panel, manifest, toPage, worker, reader, faults>>

-----------------------------------------------------------------------------
(* The client: what the page hears *)

Hears(type) ==
    /\ toPage # << >> /\ Head(toPage).type = type
    /\ toPage' = Tail(toPage)
    /\ UNCHANGED <<worker, reader, faults>>

Opened ==
    /\ Hears("opened")
    /\ manifest' = Head(toPage).feed
    /\ panel' = "app"
    /\ Render(Head(toPage).feed)
    /\ UNCHANGED <<hash, changes>>

HearFinding ==
    /\ Hears("finding")
    /\ LET id == Head(toPage).id IN
       /\ found' = [found EXCEPT ![id] = Append(@, Head(toPage).finding)]
       /\ view' = IF Paints(id) /\ Len(found'[id]) % Batch = 0
                    THEN [feed |-> Head(toPage).feed, route |-> "checks", found |-> found'[id], whole |-> FALSE]
                    ELSE view
    /\ UNCHANGED <<hash, changes, panel, manifest, rendering, asked, pending, results, toWorker>>

HearResult ==
    /\ Hears("result")
    /\ results' = results \cup {[id |-> Head(toPage).id, feed |-> Head(toPage).feed]}
    /\ UNCHANGED <<page, asked, pending, found, toWorker>>

\* Mutant: the findings are looked up once the question is forgotten.
FoundOfGone(id) == << >>

FoundOf(id) == found[id]

\* Mutant: the question stays on the list.
HearDoneKeeping ==
    /\ Hears("done")
    /\ \E result \in results :
        /\ result.id = Head(toPage).id
        /\ results' = results \ {result}
        /\ view' = IF Paints(result.id)
                     THEN [feed |-> result.feed, route |-> asked[result.id].route,
                           found |-> FoundOf(result.id), whole |-> TRUE]
                     ELSE view
    /\ UNCHANGED <<hash, changes, panel, manifest, rendering, asked, found, pending, toWorker>>

HearDone ==
    /\ Hears("done")
    /\ \E result \in results :
        /\ result.id = Head(toPage).id
        /\ results' = results \ {result}
        /\ pending' = pending \ {result.id}
        /\ view' = IF Paints(result.id)
                     THEN [feed |-> result.feed, route |-> asked[result.id].route,
                           found |-> FoundOf(result.id), whole |-> TRUE]
                     ELSE view
    /\ UNCHANGED <<hash, changes, panel, manifest, rendering, asked, found, toWorker>>

\* A question that failed: its message is painted in place of the answer.
HearRefusal ==
    /\ Hears("failed")
    /\ LET id == Head(toPage).id IN
       /\ pending' = pending \ {id}
       /\ view' = IF Paints(id)
                    THEN [feed |-> Head(toPage).feed, route |-> asked[id].route, found |-> << >>, whole |-> TRUE]
                    ELSE view
    /\ UNCHANGED <<hash, changes, panel, manifest, rendering, asked, found, results, toWorker>>

\* Mutant: the failure goes to the pane only.
HearFailureAside ==
    /\ Hears("failure")
    /\ view' = LoadError
    /\ UNCHANGED <<hash, changes, panel, manifest, rendering, client, toWorker>>

\* A feed that does not open, or a worker that stopped.
HearFailure ==
    /\ Hears("failure")
    /\ panel' = "app"
    /\ view' = LoadError
    /\ UNCHANGED <<hash, changes, manifest, rendering, client, toWorker>>

-----------------------------------------------------------------------------
(* The worker *)

Takes(type) ==
    /\ alive
    /\ toWorker # << >> /\ Head(toWorker).type = type
    /\ toWorker' = Tail(toWorker)
    /\ UNCHANGED <<page, client, alive, reader>>

Load ==
    /\ Takes("open")
    /\ loads' = loads \cup {Head(toWorker).feed}
    /\ UNCHANGED <<toPage, slot, faults>>

\* Read, parsed, its ledger asked for; then kept and told in one turn.
Loaded ==
    /\ alive
    /\ \E feed \in loads :
        /\ slot' = feed
        /\ loads' = loads \ {feed}
        /\ toPage' = Append(toPage, [type |-> "opened", feed |-> feed])
    /\ UNCHANGED <<page, client, toWorker, alive, reader, faults>>

\* It cannot be fetched, or is not a feed: what was open stays open.
LoadFails ==
    /\ alive
    /\ \E feed \in loads : loads' = loads \ {feed}
    /\ toPage' = Append(toPage, [type |-> "failure"])
    /\ UNCHANGED <<page, client, toWorker, slot, alive, reader, faults>>

Findings(id, n) == [i \in 1..n |-> [type |-> "finding", id |-> id, feed |-> slot, finding |-> i]]

Answer(id) == << [type |-> "result", id |-> id, feed |-> slot], [type |-> "done", id |-> id] >>

Refusal(id) == << [type |-> "failed", id |-> id, feed |-> slot] >>

\* No feed is open, or the feed has no such file.
Refused(route) == slot = None \/ (route = "file" /\ slot \in Lacks)

Reply ==
    /\ Takes("ask")
    /\ LET ask == Head(toWorker) IN
       toPage' = toPage \o
            (CASE Refused(ask.route) -> Refusal(ask.id)
               [] ~Refused(ask.route) /\ ask.route = "checks" ->
                    Findings(ask.id, FindingsIn[slot]) \o Answer(ask.id)
               [] OTHER -> Answer(ask.id))
    /\ UNCHANGED <<loads, slot, faults>>

Fault == faults < MaxFaults /\ faults' = faults + 1

\* Mutant: nobody is told of a check that throws.
CheckThrowsUntold ==
    /\ Takes("ask")
    /\ Fault
    /\ LET ask == Head(toWorker) IN
       /\ ~Refused(ask.route) /\ ask.route = "checks"
       /\ \E n \in 0..FindingsIn[slot] : toPage' = toPage \o Findings(ask.id, n)
    /\ UNCHANGED <<loads, slot>>

CheckThrows ==
    /\ Takes("ask")
    /\ Fault
    /\ LET ask == Head(toWorker) IN
       /\ ~Refused(ask.route) /\ ask.route = "checks"
       /\ \E n \in 0..FindingsIn[slot] : toPage' = toPage \o Findings(ask.id, n) \o Refusal(ask.id)
    /\ UNCHANGED <<loads, slot>>

\* The page hears of it; the questions that wait are not settled.
Stops ==
    /\ alive
    /\ Fault
    /\ alive' = FALSE
    /\ toPage' = Append(toPage, [type |-> "failure"])
    /\ UNCHANGED <<page, client, toWorker, loads, slot, reader>>

-----------------------------------------------------------------------------

Init ==
    /\ hash \in Routes
    /\ changes = 0
    /\ panel = "open"
    /\ manifest = None
    /\ rendering = 0
    /\ view = Blank
    /\ asked = << >> /\ pending = {} /\ found = << >> /\ results = {}
    /\ toWorker = << >> /\ toPage = << >>
    /\ loads = {} /\ slot = None /\ alive = TRUE
    /\ opens = 0 /\ acts = 0 /\ faults = 0

Reader == OpenFeed \/ CloseFeed \/ Navigate

Page ==
    \/ HashChange \/ Opened \/ HearFinding \/ HearResult \/ HearDone \/ HearRefusal \/ HearFailure

Worker == Load \/ Reply

Next == Reader \/ Page \/ Worker \/ Loaded \/ LoadFails \/ CheckThrows \/ Stops

\* The two event loops turn, and a feed that is fetched arrives or fails.
Fairness ==
    /\ WF_vars(Page)
    /\ WF_vars(Worker)
    /\ WF_vars(Loaded \/ LoadFails)

Spec == Init /\ [][Next]_vars /\ Fairness

-----------------------------------------------------------------------------

\* Every variable keeps its type.
TypeOK ==
    /\ hash \in Routes /\ changes \in Nat
    /\ panel \in {"open", "loading", "app"}
    /\ manifest \in Feeds \cup {None}
    /\ rendering \in Nat
    /\ view \in {Blank, LoadError} \/ view \in Views
    /\ asked \in Seq([route : Routes, by : Nat])
    /\ pending \subseteq 1..Len(asked)
    /\ found \in Seq(Seq(Nat)) /\ Len(found) = Len(asked)
    /\ results \subseteq [id : pending, feed : Feeds]
    /\ toWorker \in Seq(Requests) /\ toPage \in Seq(Messages)
    /\ loads \subseteq Feeds
    /\ slot \in Feeds \cup {None}
    /\ alive \in BOOLEAN
    /\ opens \in 0..MaxOpens /\ acts \in 0..MaxActs /\ faults \in 0..MaxFaults

Carries(port, type, id) == \E i \in DOMAIN port : port[i].type = type /\ port[i].id = id

\* A question that waits is on its way or its answer is: while the worker lives none
\* is lost, whatever else is opened, closed or asked meanwhile.
NoneLost ==
    alive => \A id \in pending :
        Carries(toWorker, "ask", id) \/ Carries(toPage, "done", id) \/ Carries(toPage, "failed", id)

Settled ==
    /\ alive /\ manifest # None
    /\ changes = 0 /\ toPage = << >> /\ pending = {}

\* Once all is answered the pane shows what the address says, of the feed the page
\* names, which is the one the worker holds: no answer that came late, or from the feed before, is left standing.
ShowsWhatWasAskedFor ==
    Settled /\ view # LoadError =>
        /\ view \in Views
        /\ view.route = hash /\ view.feed = manifest /\ view.whole
        /\ manifest = slot

\* A run of checks that is shown whole shows every finding it made, in order, unless
\* it threw.
EveryFindingShown ==
    view \in Views /\ view.route = "checks" /\ view.whole =>
        \/ view.found = [i \in 1..FindingsIn[view.feed] |-> i]
        \/ view.found = << >> /\ faults > 0

\* Every question is settled while the worker lives.
EveryAskSettles == \A id \in Ids : id \in pending ~> id \notin pending \/ ~alive

\* What a reader opens is shown, or the reader is told why not.
LoadingEnds == panel = "loading" ~> panel # "loading" \/ ~alive
=============================================================================
