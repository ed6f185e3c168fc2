--------------------------- MODULE Explorer_proofs ---------------------------
(***************************************************************************)
(* The explorer, for any feeds, readers and faults.  The invariant says    *)
(* what may be on the two ports: that the answers to one question stand    *)
(* together and in order, that each tells of the feed the page will have   *)
(* heard of when it hears the answer, and that what the newest rendering   *)
(* asked for is either still awaited or shown.                             *)
(***************************************************************************)
EXTENDS Explorer, SequenceTheorems, TLAPS

Upto(n) == [i \in 1..n |-> i]

\* A message about a question, one that names a feed, and one that ends an answer.
About(m) == m.type \in {"finding", "result", "done", "failed"}
Names(m) == m.type \in {"finding", "result", "failed"}
Ends(m) == m.type \in {"done", "failed"}

\* Message m may come when its question has n findings.
Comes(m, n) ==
    /\ m.type = "finding" => m.finding = n + 1 /\ asked[m.id].route = "checks"
    /\ m.type = "result" /\ asked[m.id].route = "checks" => n = FindingsIn[m.feed]
    /\ m.type # "done"

\* A question on its way is one that waits, once, and nothing is known of it yet.
AsksWait ==
    \A i \in DOMAIN toWorker :
        LET ask == toWorker[i] IN
        ask.type = "ask" =>
            /\ ask.id \in pending /\ found[ask.id] = << >> /\ ask.route = asked[ask.id].route
            /\ \A j \in DOMAIN toWorker \ {i} : toWorker[j].type = "ask" => toWorker[j].id # ask.id
            /\ \A j \in DOMAIN toPage : About(toPage[j]) => toPage[j].id # ask.id

\* What is told is of a question that waits, and nothing follows the end of an answer.
AnswersWait ==
    \A i \in DOMAIN toPage : About(toPage[i]) =>
        /\ toPage[i].id \in pending
        /\ Ends(toPage[i]) =>
            \A j \in DOMAIN toPage : j > i /\ About(toPage[j]) => toPage[j].id # toPage[i].id

\* Each finding is followed by what comes next of the same answer, a result by its end.
FollowOn ==
    \A i \in DOMAIN toPage :
        LET m == toPage[i] IN
        /\ m.type = "finding" =>
            /\ i + 1 \in DOMAIN toPage
            /\ Names(toPage[i + 1]) /\ toPage[i + 1].id = m.id /\ Comes(toPage[i + 1], m.finding)
        /\ m.type = "result" =>
            i + 1 \in DOMAIN toPage /\ toPage[i + 1] = [type |-> "done", id |-> m.id]

\* An answer begins where none is being told, and is the first that is told of it.
BeginAfresh ==
    \A i \in DOMAIN toPage :
        i > 1 /\ About(toPage[i]) /\ toPage[i - 1].type \notin {"finding", "result"} =>
            /\ Comes(toPage[i], Len(found[toPage[i].id]))
            /\ \A j \in 1..i - 1 : About(toPage[j]) => toPage[j].id # toPage[i].id

\* What is heard next follows on what was heard.
HeadFollows ==
    toPage # << >> /\ About(Head(toPage)) =>
        \/ Head(toPage).type = "done"
        \/ Comes(Head(toPage), Len(found[Head(toPage).id]))

\* A result waits for its end, which is heard next.
ResultOfHead ==
    /\ toPage # << >> /\ Head(toPage).type = "done" => results # {}
    /\ results # {} =>
        /\ toPage # << >> /\ Head(toPage).type = "done"
        /\ \E feed \in Feeds :
            /\ results = {[id |-> Head(toPage).id, feed |-> feed]}
            /\ asked[Head(toPage).id].route = "checks" => Len(found[Head(toPage).id]) = FindingsIn[feed]
            /\ manifest \in {None, feed}

FoundInOrder == \A id \in DOMAIN found : found[id] = Upto(Len(found[id]))

\* The worker has opened a feed before the page can ask or be told of one.
SomeFeed ==
    manifest # None \/ asked # << >> \/ (\E i \in DOMAIN toPage : toPage[i].type = "opened") =>
        slot \in Feeds

\* What names a feed names the one that is opened before it, the last of them the
\* worker's; where none is, the one the page holds.
Opening(i) == toPage[i].type = "opened"
FeedsFollow ==
    /\ \A i, j \in DOMAIN toPage :
        /\ i < j /\ Opening(i) /\ Names(toPage[j])
        /\ \A k \in DOMAIN toPage : i < k /\ k < j => ~Opening(k)
        => toPage[j].feed = toPage[i].feed
    /\ \A j \in DOMAIN toPage :
        Names(toPage[j]) /\ (\A k \in DOMAIN toPage : k < j => ~Opening(k)) => manifest \in {None, toPage[j].feed}
    /\ \A i \in DOMAIN toPage :
        Opening(i) /\ (\A k \in DOMAIN toPage : i < k => ~Opening(k)) => slot = toPage[i].feed
    /\ (\A i \in DOMAIN toPage : ~Opening(i)) => manifest \in {None, slot}

\* Checks fail only by a fault: the page asks when a feed is open.
ChecksFailByFault ==
    \A i \in DOMAIN toPage :
        toPage[i].type = "failed" /\ asked[toPage[i].id].route = "checks" => faults > 0

\* Only the last question can be of the newest rendering.
NewestIsLast ==
    \A id \in DOMAIN asked : asked[id].by <= rendering /\ (asked[id].by = rendering => id = Len(asked))

Whole(route) == view \in Views /\ view.route = route /\ view.feed = manifest /\ view.whole

\* The last rendering was of what the address says, when no change of it is to come.
AnswersTheHash ==
    manifest # None /\ changes = 0 =>
        IF hash = "overview"
          THEN /\ \A id \in DOMAIN asked : asked[id].by # rendering
               /\ view = LoadError \/ Whole(hash)
          ELSE /\ asked # << >>
               /\ asked[Len(asked)].by = rendering /\ asked[Len(asked)].route = hash
               /\ Len(asked) \in pending \/ view = LoadError \/ Whole(hash)

Ports == AsksWait /\ AnswersWait /\ FollowOn /\ BeginAfresh /\ HeadFollows /\ ResultOfHead
Inv ==
    /\ TypeOK /\ Ports /\ FoundInOrder /\ SomeFeed /\ FeedsFollow /\ ChecksFailByFault
    /\ NewestIsLast /\ AnswersTheHash /\ NoneLost /\ EveryFindingShown

-----------------------------------------------------------------------------
(* What the ports and the client come to be in a step *)

\* The page's port after its head is taken.
LEMMA HeadTaken ==
    ASSUME TypeOK, toPage # << >>, toPage' = Tail(toPage)
    PROVE  /\ toPage' \in Seq(Messages) /\ Len(toPage) \in Nat \ {0} /\ Len(toPage') = Len(toPage) - 1
           /\ Head(toPage) = toPage[1] /\ toPage[1] \in Messages
           /\ \A i \in DOMAIN toPage' : i \in Nat \ {0} /\ i + 1 \in DOMAIN toPage /\ toPage'[i] = toPage[i + 1]
<1> QED
  BY DEF TypeOK

\* The fields of a message.
LEMMA MessageFields ==
    ASSUME NEW m \in Messages
    PROVE  /\ About(m) => m.id \in Nat
           /\ Names(m) => m.feed \in Feeds
           /\ m.type = "opened" => m.feed \in Feeds
           /\ m.type = "finding" => m.finding \in Nat
           /\ m.type = "done" => m = [type |-> "done", id |-> m.id]
<1> QED
  BY DEF Messages, About, Names

\* A question that is asked is the next, and what was known of the others stays.
LEMMA Asked ==
    ASSUME TypeOK, NEW route \in Routes, NEW by \in Nat, Ask(route, by)
    PROVE  /\ asked' \in Seq([route : Routes, by : Nat]) /\ found' \in Seq(Seq(Nat))
           /\ Len(asked') = Len(asked) + 1 /\ Len(found') = Len(asked')
           /\ \A id \in 1..Len(asked) : asked'[id] = asked[id] /\ found'[id] = found[id]
           /\ asked'[Len(asked')] = [route |-> route, by |-> by] /\ found'[Len(asked')] = << >>
           /\ pending' = pending \cup {Len(asked')} /\ Len(asked') \notin pending
           /\ pending' \subseteq 1..Len(asked')
           /\ toWorker' \in Seq(Requests) /\ Len(toWorker') = Len(toWorker) + 1
           /\ \A i \in DOMAIN toWorker : toWorker'[i] = toWorker[i]
           /\ toWorker'[Len(toWorker')] = [type |-> "ask", id |-> Len(asked'), route |-> route]
<1> DEFINE id == Len(asked) + 1
           ask == [type |-> "ask", id |-> id, route |-> route]
<1>1. id \in Nat /\ ask \in Requests /\ [route |-> route, by |-> by] \in [route : Routes, by : Nat] /\ << >> \in Seq(Nat)
  BY DEF TypeOK, Requests
<1>2. /\ asked' \in Seq([route : Routes, by : Nat]) /\ Len(asked') = id
      /\ \A i \in 1..Len(asked) : asked'[i] = asked[i]
      /\ asked'[id] = [route |-> route, by |-> by]
  BY <1>1 DEF TypeOK, Ask
<1>3. /\ found' \in Seq(Seq(Nat)) /\ Len(found') = id /\ found'[id] = << >>
      /\ \A i \in 1..Len(asked) : found'[i] = found[i]
  BY <1>1 DEF TypeOK, Ask
<1>4. /\ toWorker' \in Seq(Requests) /\ Len(toWorker') = Len(toWorker) + 1
      /\ \A i \in DOMAIN toWorker : toWorker'[i] = toWorker[i]
      /\ toWorker'[Len(toWorker')] = ask
  BY <1>1 DEF TypeOK, Ask
<1>5. pending' = pending \cup {id} /\ id \notin pending /\ pending' \subseteq 1..id
  <2>1. pending \subseteq 1..Len(asked) /\ Len(asked) \in Nat
    BY DEF TypeOK
  <2>2. pending' = pending \cup {id}
    BY DEF Ask
  <2>3. id \in Nat /\ id > Len(asked)
    BY <2>1
  <2>4. \A i \in 1..Len(asked) : i \in 1..id
    BY <2>1, <2>3
  <2> HIDE DEF id
  <2>5. id \in 1..id /\ id \notin 1..Len(asked)
    BY <2>1, <2>3
  <2> QED
    BY <2>1, <2>2, <2>4, <2>5
<1> QED
  BY <1>2, <1>3, <1>4, <1>5

\* A rendering of feed m is numbered, and shows the overview or asks.
LEMMA Rendered ==
    ASSUME TypeOK, NEW m \in Feeds, Render(m)
    PROVE  /\ rendering' = rendering + 1 /\ rendering' \in Nat /\ results' = results
           /\ hash = "overview" => /\ view' = [feed |-> m, route |-> hash, found |-> << >>, whole |-> TRUE]
                                   /\ UNCHANGED <<asked, pending, found, toWorker>>
           /\ hash # "overview" => Ask(hash, rendering')
           /\ hash = "checks" => view' = [feed |-> m, route |-> hash, found |-> << >>, whole |-> FALSE]
           /\ hash = "file" => view' = view
           /\ view' \in {Blank, LoadError} \/ view' \in Views
<1>1. rendering' = rendering + 1 /\ rendering \in Nat /\ results' = results /\ hash \in Routes
  BY DEF TypeOK, Render
<1>2. CASE hash = "overview"
  <2>1. /\ view' = [feed |-> m, route |-> hash, found |-> << >>, whole |-> TRUE]
        /\ UNCHANGED <<asked, pending, found, toWorker>>
    BY <1>2 DEF Render
  <2>2. view' \in Views
    BY <1>1, <2>1 DEF Views
  <2> QED
    BY <1>1, <1>2, <2>1, <2>2
<1>3. CASE hash = "checks"
  <2>1. /\ view' = [feed |-> m, route |-> hash, found |-> << >>, whole |-> FALSE]
        /\ Ask(hash, rendering')
    BY <1>3 DEF Render
  <2>2. view' \in Views
    BY <1>1, <2>1 DEF Views
  <2> QED
    BY <1>1, <1>3, <2>1, <2>2
<1>4. CASE hash = "file"
  <2>1. view' = view /\ Ask(hash, rendering')
    BY <1>4 DEF Render
  <2> QED
    BY <1>1, <1>4, <2>1 DEF TypeOK
<1> QED
  BY <1>1, <1>2, <1>3, <1>4 DEF Routes

\* Either way the client keeps its types, and what it knows of its questions.
LEMMA ClientGrows ==
    ASSUME TypeOK, NEW m \in Feeds, Render(m)
    PROVE  /\ asked' \in Seq([route : Routes, by : Nat]) /\ found' \in Seq(Seq(Nat))
           /\ Len(found') = Len(asked') /\ Len(asked) <= Len(asked')
           /\ \A id \in 1..Len(asked) : asked'[id] = asked[id] /\ found'[id] = found[id]
           /\ pending \subseteq pending' /\ pending' \subseteq 1..Len(asked')
           /\ toWorker' \in Seq(Requests)
<1>0. /\ Len(asked) \in Nat /\ hash \in Routes
      /\ asked \in Seq([route : Routes, by : Nat]) /\ found \in Seq(Seq(Nat)) /\ Len(found) = Len(asked)
      /\ pending \subseteq 1..Len(asked) /\ toWorker \in Seq(Requests)
  BY DEF TypeOK
<1>1. CASE hash = "overview"
  <2>1. UNCHANGED <<asked, pending, found, toWorker>>
    BY <1>1, Rendered
  <2> QED
    BY <1>0, <2>1
<1>2. CASE hash # "overview"
  <2>1. rendering' \in Nat /\ Ask(hash, rendering')
    BY <1>2, Rendered
  <2>2. Len(asked') = Len(asked) + 1 /\ pending' = pending \cup {Len(asked')}
    BY <1>0, <2>1, Asked
  <2>3. Len(asked) <= Len(asked')
    BY <1>0, <2>2
  <2> QED
    BY <1>0, <2>1, <2>2, <2>3, Asked
<1> QED
  BY <1>1, <1>2

\* What an answer is made of.
LEMMA AnswerParts ==
    ASSUME slot \in Feeds, NEW id \in Nat, NEW n \in Nat
    PROVE  /\ Findings(id, n) \in Seq(Messages) /\ Len(Findings(id, n)) = n
           /\ \A k \in 1..n : Findings(id, n)[k] = [type |-> "finding", id |-> id, feed |-> slot, finding |-> k]
           /\ Answer(id) \in Seq(Messages) /\ Refusal(id) \in Seq(Messages)
           /\ Len(Answer(id)) = 2 /\ Len(Refusal(id)) = 1
           /\ Answer(id)[1] = [type |-> "result", id |-> id, feed |-> slot]
           /\ Answer(id)[2] = [type |-> "done", id |-> id]
           /\ Refusal(id)[1] = [type |-> "failed", id |-> id, feed |-> slot]
<1>1. \A k \in 1..n : [type |-> "finding", id |-> id, feed |-> slot, finding |-> k] \in Messages
  BY DEF Messages
<1>2. /\ [type |-> "result", id |-> id, feed |-> slot] \in Messages
      /\ [type |-> "failed", id |-> id, feed |-> slot] \in Messages
      /\ [type |-> "done", id |-> id] \in Messages
  BY DEF Messages
<1>3. Findings(id, n) \in Seq(Messages) /\ Len(Findings(id, n)) = n
  BY <1>1 DEF Findings
<1>4. Answer(id) \in Seq(Messages) /\ Refusal(id) \in Seq(Messages)
  BY <1>2 DEF Answer, Refusal
<1> QED
  BY <1>3, <1>4 DEF Findings, Answer, Refusal

\* The elements of two sequences put together.
LEMMA Concatenated ==
    ASSUME NEW s \in Seq(Messages), NEW t \in Seq(Messages)
    PROVE  /\ s \o t \in Seq(Messages) /\ Len(s \o t) = Len(s) + Len(t)
           /\ \A i \in 1..Len(s) : (s \o t)[i] = s[i]
           /\ \A k \in 1..Len(t) : (s \o t)[Len(s) + k] = t[k]
<1>1. Len(s) \in Nat /\ Len(t) \in Nat
  OBVIOUS
<1>2. \A i \in 1..Len(s) : i \in 1..Len(s) + Len(t) /\ i <= Len(s)
  BY <1>1
<1>3. \A k \in 1..Len(t) :
        /\ Len(s) + k \in 1..Len(s) + Len(t)
        /\ ~(Len(s) + k <= Len(s)) /\ (Len(s) + k) - Len(s) = k
  BY <1>1
<1>4. \A i \in 1..Len(s) + Len(t) : (s \o t)[i] = IF i <= Len(s) THEN s[i] ELSE t[i - Len(s)]
  BY ConcatProperties
<1>5. s \o t \in Seq(Messages) /\ Len(s \o t) = Len(s) + Len(t)
  BY ConcatProperties
<1>6. ASSUME NEW i \in 1..Len(s) PROVE (s \o t)[i] = s[i]
  BY <1>2, <1>4
<1>7. ASSUME NEW k \in 1..Len(t) PROVE (s \o t)[Len(s) + k] = t[k]
  BY <1>3, <1>4
<1> QED
  BY <1>5, <1>6, <1>7

\* An answer of n findings and an end, told after what is on the port.
Tells(id, n, end) ==
    /\ toPage' \in Seq(Messages)
    /\ Len(toPage') = Len(toPage) + n + Len(end)
    /\ \A i \in 1..Len(toPage) : toPage'[i] = toPage[i]
    /\ \A k \in 1..n :
        toPage'[Len(toPage) + k] = [type |-> "finding", id |-> id, feed |-> slot, finding |-> k]
    /\ \A k \in 1..Len(end) : toPage'[Len(toPage) + n + k] = end[k]

\* What is put on the port after what is there is told in that sense.
LEMMA TellsAnswer ==
    ASSUME TypeOK, slot \in Feeds, NEW id \in Nat, NEW n \in Nat, NEW end \in {Refusal(id), Answer(id)},
           toPage' = toPage \o (Findings(id, n) \o end)
    PROVE  Tells(id, n, end)
<1> DEFINE block == Findings(id, n) \o end
<1>0. Findings(id, n) \in Seq(Messages) /\ Len(Findings(id, n)) = n /\ end \in Seq(Messages)
  BY AnswerParts
<1>1. /\ end \in Seq(Messages) /\ Findings(id, n) \in Seq(Messages) /\ toPage \in Seq(Messages)
      /\ Len(Findings(id, n)) = n /\ Len(end) \in Nat /\ Len(toPage) \in Nat
  BY <1>0 DEF TypeOK
<1>2. /\ block \in Seq(Messages) /\ Len(block) = n + Len(end)
      /\ \A k \in 1..n : block[k] = Findings(id, n)[k]
      /\ \A k \in 1..Len(end) : block[n + k] = end[k]
  <2>1. /\ block \in Seq(Messages) /\ Len(block) = Len(Findings(id, n)) + Len(end)
        /\ \A k \in 1..Len(Findings(id, n)) : block[k] = Findings(id, n)[k]
        /\ \A k \in 1..Len(end) : block[Len(Findings(id, n)) + k] = end[k]
    BY <1>1, Concatenated
  <2> HIDE DEF block
  <2> QED
    BY <1>1, <2>1
<1> HIDE DEF block
<1>3. toPage' = toPage \o block
  BY DEF block
<1>4. /\ toPage' \in Seq(Messages) /\ Len(toPage') = Len(toPage) + Len(block)
      /\ \A i \in 1..Len(toPage) : toPage'[i] = toPage[i]
      /\ \A k \in 1..Len(block) : toPage'[Len(toPage) + k] = block[k]
  <2>1. /\ toPage \o block \in Seq(Messages) /\ Len(toPage \o block) = Len(toPage) + Len(block)
        /\ \A i \in 1..Len(toPage) : (toPage \o block)[i] = toPage[i]
        /\ \A k \in 1..Len(block) : (toPage \o block)[Len(toPage) + k] = block[k]
    BY <1>1, <1>2, Concatenated
  <2> QED
    BY <1>3, <2>1
<1>5. /\ \A k \in 1..n : k \in 1..Len(block)
      /\ \A k \in 1..Len(end) : n + k \in 1..Len(block) /\ Len(toPage) + n + k = Len(toPage) + (n + k)
  BY <1>1, <1>2
<1>6. \A k \in 1..n :
        toPage'[Len(toPage) + k] = [type |-> "finding", id |-> id, feed |-> slot, finding |-> k]
  BY <1>2, <1>4, <1>5, AnswerParts
<1>7. \A k \in 1..Len(end) : toPage'[Len(toPage) + n + k] = end[k]
  BY <1>2, <1>4, <1>5
<1>8. Len(toPage') = Len(toPage) + n + Len(end)
  BY <1>1, <1>2, <1>4
<1> QED
  BY <1>4, <1>6, <1>7, <1>8 DEF Tells

\* The question the worker takes, while it has an open feed.
LEMMA Taken ==
    ASSUME Inv, toWorker # << >>, Head(toWorker).type = "ask", toWorker' = Tail(toWorker)
    PROVE  /\ Head(toWorker) = toWorker[1] /\ Head(toWorker) \in Requests
           /\ Head(toWorker).id \in pending /\ Head(toWorker).id \in 1..Len(asked) /\ Head(toWorker).id \in Nat
           /\ Head(toWorker).route = asked[Head(toWorker).id].route
           /\ slot \in Feeds
           /\ toWorker' \in Seq(Requests) /\ Len(toWorker) \in Nat \ {0} /\ Len(toWorker') = Len(toWorker) - 1
           /\ \A i \in DOMAIN toWorker' : i \in Nat \ {0} /\ i + 1 \in DOMAIN toWorker /\ toWorker'[i] = toWorker[i + 1]
<1>1. toWorker \in Seq(Requests) /\ pending \subseteq 1..Len(asked) /\ Len(asked) \in Nat
  BY DEF Inv, TypeOK
<1>2. 1 \in DOMAIN toWorker /\ Head(toWorker) = toWorker[1] /\ Head(toWorker) \in Requests
  BY <1>1
<1>3. Head(toWorker).id \in pending /\ Head(toWorker).route = asked[Head(toWorker).id].route
  BY <1>2 DEF Inv, Ports, AsksWait
<1>4. Head(toWorker).id \in 1..Len(asked) /\ Head(toWorker).id \in Nat
  <2>1. \A i \in 1..Len(asked) : i \in Nat
    BY <1>1
  <2> QED
    BY <1>1, <1>3, <2>1
<1>5. asked # << >>
  BY <1>4
<1>6. slot \in Feeds
  BY <1>5 DEF Inv, SomeFeed
<1> QED
  BY <1>1, <1>2, <1>3, <1>4, <1>6

\* What the worker tells when it takes a question: all the findings, or those before
\* a check threw.
LEMMA Told ==
    ASSUME Inv, Reply \/ CheckThrows
    PROVE  LET ask == Head(toWorker) IN
           /\ UNCHANGED <<page, client, alive, loads, slot, reader>> /\ alive
           /\ toWorker # << >> /\ ask.type = "ask" /\ toWorker' = Tail(toWorker)
           /\ faults' \in Nat /\ faults <= faults'
           /\ \E n \in Nat, end \in {Refusal(ask.id), Answer(ask.id)} :
                /\ Tells(ask.id, n, end)
                /\ n > 0 => ask.route = "checks"
                /\ ask.route = "checks" =>
                    IF end = Answer(ask.id) THEN n = FindingsIn[slot] ELSE faults' > 0
<1> DEFINE ask == Head(toWorker)
<1>1. /\ UNCHANGED <<page, client, alive, loads, slot, reader>> /\ alive
      /\ toWorker # << >> /\ ask.type = "ask" /\ toWorker' = Tail(toWorker)
  BY DEF Reply, CheckThrows, Takes
<1>2. ask.id \in Nat /\ slot \in Feeds /\ slot # None /\ ask.id \in Nat
  BY <1>1, Taken, NoneAssumption
<1>3. FindingsIn[slot] \in Nat /\ toPage \in Seq(Messages) /\ faults \in Nat /\ TypeOK
  BY <1>2, FeedsAssumption DEF Inv, TypeOK
<1>4. /\ Findings(ask.id, 0) = << >>
      /\ Findings(ask.id, 0) \o Refusal(ask.id) = Refusal(ask.id)
      /\ Findings(ask.id, 0) \o Answer(ask.id) = Answer(ask.id)
  <2>1. Findings(ask.id, 0) = << >>
    BY DEF Findings
  <2> QED
    BY <1>2, <2>1, AnswerParts, ConcatEmptySeq
<1>5. Refusal(ask.id) # Answer(ask.id)
  BY DEF Refusal, Answer
<1>6. CASE Reply
  <2>0. faults' = faults
    BY <1>6 DEF Reply
  <2>1. CASE Refused(ask.route)
    <3>1. toPage' = toPage \o Refusal(ask.id) /\ ask.route # "checks"
      BY <1>2, <1>6, <2>1 DEF Reply, Refused
    <3>2. Tells(ask.id, 0, Refusal(ask.id))
      BY <1>2, <1>3, <1>4, <3>1, TellsAnswer
    <3> QED
      BY <1>1, <1>3, <1>5, <2>0, <3>1, <3>2
  <2>2. CASE ~Refused(ask.route) /\ ask.route = "checks"
    <3>1. toPage' = toPage \o (Findings(ask.id, FindingsIn[slot]) \o Answer(ask.id))
      BY <1>6, <2>2 DEF Reply
    <3>2. Tells(ask.id, FindingsIn[slot], Answer(ask.id))
      BY <1>2, <1>3, <3>1, TellsAnswer
    <3> QED
      BY <1>1, <1>3, <2>0, <2>2, <3>2
  <2>3. CASE ~Refused(ask.route) /\ ask.route # "checks"
    <3>1. toPage' = toPage \o Answer(ask.id)
      BY <1>6, <2>3 DEF Reply
    <3>2. Tells(ask.id, 0, Answer(ask.id))
      BY <1>2, <1>3, <1>4, <3>1, TellsAnswer
    <3> QED
      BY <1>1, <1>3, <2>0, <2>3, <3>2
  <2> QED
    BY <2>1, <2>2, <2>3
<1>7. CASE CheckThrows
  <2>1. faults' = faults + 1 /\ ask.route = "checks"
    BY <1>7 DEF CheckThrows, Fault
  <2>2. PICK n \in 0..FindingsIn[slot] : toPage' = toPage \o Findings(ask.id, n) \o Refusal(ask.id)
    BY <1>7 DEF CheckThrows
  <2>3. n \in Nat
    BY <1>3, <2>2
  <2>4. toPage' = toPage \o (Findings(ask.id, n) \o Refusal(ask.id))
    BY <1>2, <1>3, <2>2, <2>3, AnswerParts, ConcatAssociative
  <2>5. Tells(ask.id, n, Refusal(ask.id))
    BY <1>2, <1>3, <2>3, <2>4, TellsAnswer
  <2> QED
    BY <1>1, <1>3, <1>5, <2>1, <2>3, <2>5
<1> QED
  BY <1>6, <1>7

-----------------------------------------------------------------------------
(* Types *)

\* What is heard about a question is about one that was asked and waits.
LEMMA Heard ==
    ASSUME Inv, NEW type \in {"opened", "finding", "result", "done", "failed", "failure"}, Hears(type)
    PROVE  /\ toPage # << >> /\ toPage' = Tail(toPage) /\ Head(toPage).type = type /\ Head(toPage) \in Messages
           /\ toPage' \in Seq(Messages)
           /\ UNCHANGED <<worker, reader, faults>>
           /\ About(Head(toPage)) => /\ Head(toPage).id \in pending /\ Head(toPage).id \in 1..Len(asked)
                                     /\ Head(toPage).id \in Nat
           /\ type # "done" => results = {}
<1>1. toPage # << >> /\ toPage' = Tail(toPage) /\ Head(toPage).type = type /\ UNCHANGED <<worker, reader, faults>>
  BY DEF Hears
<1>2. Head(toPage) = toPage[1] /\ 1 \in DOMAIN toPage /\ Head(toPage) \in Messages /\ toPage' \in Seq(Messages)
  BY <1>1 DEF Inv, TypeOK
<1>3. About(Head(toPage)) => Head(toPage).id \in pending
  BY <1>2 DEF Inv, Ports, AnswersWait
<1>4. pending \subseteq 1..Len(asked)
  BY DEF Inv, TypeOK
<1>5. About(Head(toPage)) => Head(toPage).id \in Nat
  BY <1>2, MessageFields
<1>6. type # "done" => results = {}
  BY <1>1 DEF Inv, Ports, ResultOfHead
<1> QED
  BY <1>1, <1>2, <1>3, <1>4, <1>5, <1>6

\* Of a feed, a question's findings and a flag, a view.
LEMMA ViewType ==
    ASSUME NEW feed \in Feeds, NEW route \in Routes, NEW list \in Seq(Nat), NEW whole \in BOOLEAN
    PROVE  [feed |-> feed, route |-> route, found |-> list, whole |-> whole] \in Views
<1> QED
  BY DEF Views

\* A question that was asked is of a route, and its findings are a sequence.
LEMMA AskedTypes ==
    ASSUME TypeOK, NEW id \in 1..Len(asked)
    PROVE  asked[id] \in [route : Routes, by : Nat] /\ asked[id].route \in Routes /\ found[id] \in Seq(Nat)
<1>1. asked \in Seq([route : Routes, by : Nat]) /\ found \in Seq(Seq(Nat)) /\ Len(found) = Len(asked)
  BY DEF TypeOK
<1>2. id \in 1..Len(found) /\ found[id] \in Seq(Nat)
  BY <1>1, ElementOfSeq
<1>3. asked[id] \in [route : Routes, by : Nat]
  BY <1>1, ElementOfSeq
<1> QED
  BY <1>2, <1>3

\* The reader's acts keep the types.
LEMMA ReaderTypes ==
    ASSUME TypeOK, Reader
    PROVE  TypeOK'
<1>1. acts' \in 0..MaxActs /\ "overview" \in Routes
  BY BoundsAssumption DEF TypeOK, Reader, OpenFeed, CloseFeed, Navigate, Acts, Routes
<1>2. CASE OpenFeed
  <2>1. opens' \in 1..MaxOpens /\ opens' \in 0..MaxOpens
    BY <1>2, BoundsAssumption DEF TypeOK, OpenFeed
  <2>2. [type |-> "open", feed |-> opens'] \in Requests
    BY <2>1 DEF Requests, Feeds
  <2>3. toWorker' \in Seq(Requests)
    BY <1>2, <2>2 DEF TypeOK, OpenFeed
  <2> QED
    BY <1>1, <1>2, <2>1, <2>3 DEF TypeOK, OpenFeed, client, worker
<1>3. CASE CloseFeed
  BY <1>1, <1>3 DEF TypeOK, CloseFeed, SetHash, client, worker
<1>4. CASE Navigate
  <2>1. hash' \in Routes /\ changes' \in Nat
    BY <1>4 DEF TypeOK, Navigate, SetHash
  <2> QED
    BY <1>1, <1>4, <2>1 DEF TypeOK, Navigate, client, worker
<1> QED
  BY <1>2, <1>3, <1>4 DEF Reader

\* What the page renders and hears keeps the types.
LEMMA PageTypes ==
    ASSUME Inv, Page
    PROVE  TypeOK'
<1> TypeOK
  BY DEF Inv
<1>1. CASE HashChange
  <2>0. changes' \in Nat
    BY <1>1 DEF HashChange, TypeOK
  <2>1. CASE manifest = None
    BY <1>1, <2>0, <2>1 DEF HashChange, TypeOK, client, worker, reader
  <2>2. CASE manifest # None
    <3>1. manifest \in Feeds /\ Render(manifest)
      BY <1>1, <2>2 DEF HashChange, TypeOK
    <3>2. results' \subseteq [id : pending', feed : Feeds]
      <4>1. results' = results /\ pending \subseteq pending' /\ results \subseteq [id : pending, feed : Feeds]
        BY <3>1, ClientGrows, Rendered DEF TypeOK
      <4> QED
        BY <4>1
    <3>3. rendering' \in Nat /\ (view' \in {Blank, LoadError} \/ view' \in Views)
      BY <3>1, Rendered
    <3> QED
      BY <1>1, <2>0, <3>1, <3>2, <3>3, ClientGrows DEF HashChange, TypeOK, worker, reader
  <2> QED
    BY <2>1, <2>2
<1>2. CASE Opened
  <2>1. Hears("opened")
    BY <1>2 DEF Opened
  <2>2. Head(toPage).feed \in Feeds /\ toPage' \in Seq(Messages) /\ UNCHANGED <<worker, reader, faults>>
    BY <2>1, Heard, MessageFields
  <2>3. Render(Head(toPage).feed)
    BY <1>2 DEF Opened
  <2>4. results' \subseteq [id : pending', feed : Feeds]
    <3>1. results' = results /\ pending \subseteq pending' /\ results \subseteq [id : pending, feed : Feeds]
      BY <2>2, <2>3, ClientGrows, Rendered DEF TypeOK
    <3> QED
      BY <3>1
  <2>5. rendering' \in Nat /\ (view' \in {Blank, LoadError} \/ view' \in Views)
    BY <2>2, <2>3, Rendered
  <2> QED
    BY <1>2, <2>2, <2>3, <2>4, <2>5, ClientGrows DEF Opened, TypeOK, worker, reader
<1>3. CASE HearFinding
  <2> DEFINE id == Head(toPage).id
  <2>1. Hears("finding")
    BY <1>3 DEF HearFinding
  <2>2. /\ toPage' \in Seq(Messages) /\ UNCHANGED <<worker, reader, faults>>
        /\ About(Head(toPage)) /\ Names(Head(toPage)) /\ Head(toPage).type = "finding" /\ Head(toPage) \in Messages
        /\ id \in 1..Len(asked)
    BY <2>1, Heard DEF About, Names
  <2>3. Head(toPage).feed \in Feeds /\ Head(toPage).finding \in Nat
    BY <2>2, MessageFields
  <2>4. found' = [found EXCEPT ![id] = Append(@, Head(toPage).finding)]
    BY <1>3 DEF HearFinding
  <2>5. found \in Seq(Seq(Nat)) /\ Len(found) = Len(asked) /\ Len(asked) \in Nat
    BY DEF TypeOK
  <2>6. Append(found[id], Head(toPage).finding) \in Seq(Nat)
    BY <2>2, <2>3, <2>5
  <2> HIDE DEF id
  <2>7. found' \in Seq(Seq(Nat)) /\ Len(found') = Len(asked) /\ found'[id] \in Seq(Nat)
    BY <2>2, <2>4, <2>5, <2>6
  <2> USE DEF id
  <2>8. "checks" \in Routes
    BY DEF Routes
  <2>9. [feed |-> Head(toPage).feed, route |-> "checks", found |-> found'[id], whole |-> FALSE] \in Views
    BY <2>3, <2>7, <2>8, ViewType
  <2>10. view' \in {Blank, LoadError} \/ view' \in Views
    BY <1>3, <2>9 DEF TypeOK, HearFinding
  <2>11. UNCHANGED <<hash, changes, panel, manifest, rendering, asked, pending, results, toWorker>>
    BY <1>3 DEF HearFinding
  <2> HIDE DEF id
  <2> QED
    BY <2>2, <2>7, <2>10, <2>11 DEF TypeOK, worker, reader
<1>4. CASE HearResult
  <2>1. Hears("result")
    BY <1>4 DEF HearResult
  <2>2. /\ toPage' \in Seq(Messages) /\ UNCHANGED <<worker, reader, faults>>
        /\ About(Head(toPage)) /\ Names(Head(toPage)) /\ Head(toPage) \in Messages
        /\ Head(toPage).id \in pending
    BY <2>1, Heard DEF About, Names
  <2>3. Head(toPage).feed \in Feeds
    BY <2>2, MessageFields
  <2>4. results' \subseteq [id : pending, feed : Feeds]
    BY <1>4, <2>2, <2>3 DEF HearResult, TypeOK
  <2> QED
    BY <1>4, <2>2, <2>4 DEF HearResult, TypeOK, page, worker, reader
<1>5. CASE HearDone
  <2>1. Hears("done")
    BY <1>5 DEF HearDone
  <2>2. toPage' \in Seq(Messages) /\ UNCHANGED <<worker, reader, faults>>
    BY <2>1, Heard
  <2>3. PICK result \in results :
            /\ result.id = Head(toPage).id
            /\ results' = results \ {result}
            /\ pending' = pending \ {result.id}
            /\ view' = IF Paints(result.id)
                         THEN [feed |-> result.feed, route |-> asked[result.id].route,
                               found |-> FoundOf(result.id), whole |-> TRUE]
                         ELSE view
    BY <1>5 DEF HearDone
  <2>4. results' = {}
    BY <2>3 DEF Inv, Ports, ResultOfHead
  <2>5. result.feed \in Feeds /\ result.id \in 1..Len(asked)
    BY <2>3 DEF TypeOK
  <2>6. asked[result.id].route \in Routes /\ FoundOf(result.id) \in Seq(Nat)
    BY <2>5, AskedTypes DEF FoundOf
  <2>7. view' \in {Blank, LoadError} \/ view' \in Views
    BY <2>3, <2>5, <2>6, ViewType DEF TypeOK
  <2>8. UNCHANGED <<hash, changes, panel, manifest, rendering, asked, found, toWorker>>
    BY <1>5 DEF HearDone
  <2>9. pending' \subseteq pending
    BY <2>3
  <2> QED
    BY <2>2, <2>4, <2>7, <2>8, <2>9 DEF TypeOK, worker, reader
<1>6. CASE HearRefusal
  <2> DEFINE id == Head(toPage).id
  <2>1. Hears("failed")
    BY <1>6 DEF HearRefusal
  <2>2. /\ toPage' \in Seq(Messages) /\ UNCHANGED <<worker, reader, faults>>
        /\ About(Head(toPage)) /\ Names(Head(toPage)) /\ Head(toPage) \in Messages
        /\ id \in 1..Len(asked) /\ results = {}
    BY <2>1, Heard DEF About, Names
  <2>3. Head(toPage).feed \in Feeds /\ asked[id].route \in Routes /\ << >> \in Seq(Nat)
    BY <2>2, MessageFields, AskedTypes
  <2>4. view' \in {Blank, LoadError} \/ view' \in Views
    BY <1>6, <2>3, ViewType DEF TypeOK, HearRefusal
  <2>5. UNCHANGED <<hash, changes, panel, manifest, rendering, asked, found, results, toWorker>> /\ pending' \subseteq pending
    BY <1>6 DEF HearRefusal
  <2> QED
    BY <2>2, <2>4, <2>5 DEF TypeOK, worker, reader
<1>7. CASE HearFailure
  <2>1. Hears("failure")
    BY <1>7 DEF HearFailure
  <2>2. toPage' \in Seq(Messages) /\ UNCHANGED <<worker, reader, faults>>
    BY <2>1, Heard
  <2> QED
    BY <1>7, <2>2 DEF HearFailure, TypeOK, client, worker, reader
<1> QED
  BY <1>1, <1>2, <1>3, <1>4, <1>5, <1>6, <1>7 DEF Page

\* What the worker does and says keeps the types.
LEMMA WorkerTypes ==
    ASSUME Inv, Worker \/ Loaded \/ LoadFails \/ CheckThrows \/ Stops
    PROVE  TypeOK'
<1> TypeOK
  BY DEF Inv
<1>0. MaxFaults \in Nat /\ faults \in 0..MaxFaults
  BY BoundsAssumption DEF TypeOK
<1>1. CASE Load
  <2>1. Head(toWorker) \in Requests /\ Head(toWorker).type = "open" /\ toWorker' \in Seq(Requests)
    BY <1>1 DEF Load, Takes, TypeOK
  <2>2. Head(toWorker).feed \in Feeds
    BY <2>1 DEF Requests
  <2> QED
    BY <1>1, <2>1, <2>2 DEF Load, Takes, TypeOK, page, client, reader
<1>2. CASE Loaded
  <2>1. PICK feed \in loads : /\ slot' = feed /\ loads' = loads \ {feed}
                              /\ toPage' = Append(toPage, [type |-> "opened", feed |-> feed])
    BY <1>2 DEF Loaded
  <2>2. feed \in Feeds /\ [type |-> "opened", feed |-> feed] \in Messages
    BY <2>1 DEF TypeOK, Messages
  <2> QED
    BY <1>2, <2>1, <2>2 DEF Loaded, TypeOK, page, client, reader
<1>3. CASE LoadFails \/ Stops
  <2>1. [type |-> "failure"] \in Messages
    BY DEF Messages
  <2>2. faults' \in 0..MaxFaults
    BY <1>0, <1>3 DEF LoadFails, Stops, Fault
  <2>3. /\ loads' \subseteq loads /\ toPage' = Append(toPage, [type |-> "failure"]) /\ alive' \in BOOLEAN
        /\ UNCHANGED <<page, client, toWorker, slot, reader>>
    BY <1>3 DEF LoadFails, Stops, TypeOK
  <2> QED
    BY <2>1, <2>2, <2>3 DEF TypeOK, page, client, reader
<1>4. CASE Reply \/ CheckThrows
  <2>1. toPage' \in Seq(Messages) /\ UNCHANGED <<page, client, alive, loads, slot, reader>>
    BY <1>4, Told DEF Tells
  <2>2. toWorker' \in Seq(Requests)
    BY <1>4, Told, Taken
  <2>3. faults' \in 0..MaxFaults
    BY <1>0, <1>4 DEF Reply, CheckThrows, Fault
  <2> QED
    BY <2>1, <2>2, <2>3 DEF TypeOK, page, client, reader
<1> QED
  BY <1>1, <1>2, <1>3, <1>4 DEF Worker

-----------------------------------------------------------------------------
(* The ports *)

\* What was asked stays as it was, and no answer comes or goes.
Grows ==
    /\ Len(asked) <= Len(asked')
    /\ \A id \in 1..Len(asked) : asked'[id] = asked[id] /\ found'[id] = found[id]
    /\ pending \subseteq pending' /\ results' = results

\* The page's port is as it was, or lost a head that was about no question.
Passes == toPage' = toPage \/ (toPage # << >> /\ ~About(Head(toPage)) /\ toPage' = Tail(toPage))

\* What is said of the page's port stands when nothing is told and no answer is heard.
LEMMA QuietPage ==
    ASSUME Inv, TypeOK', Grows, Passes, manifest' \in {None, manifest} \/ results = {}
    PROVE  AnswersWait' /\ FollowOn' /\ BeginAfresh' /\ HeadFollows' /\ ResultOfHead'
<1> DEFINE Shifted(d) ==
            /\ Len(toPage') = Len(toPage) - d
            /\ \A i \in DOMAIN toPage' : i \in Nat \ {0} /\ i + d \in DOMAIN toPage /\ toPage'[i] = toPage[i + d]
            /\ d = 0 => toPage' = toPage
            /\ d = 1 => toPage # << >> /\ ~About(toPage[1]) /\ 1 \in DOMAIN toPage
<1>0. Shifted(0) \/ Shifted(1)
  <2>0. toPage \in Seq(Messages) /\ TypeOK
    BY DEF Inv, TypeOK
  <2>1. CASE toPage' = toPage
    BY <2>0, <2>1
  <2>2. CASE toPage # << >> /\ ~About(Head(toPage)) /\ toPage' = Tail(toPage)
    <3>1. 1 \in DOMAIN toPage
      BY <2>0, <2>2
    <3>2. /\ Len(toPage') = Len(toPage) - 1 /\ Head(toPage) = toPage[1]
          /\ \A i \in DOMAIN toPage' : i \in Nat \ {0} /\ i + 1 \in DOMAIN toPage /\ toPage'[i] = toPage[i + 1]
      BY <2>0, <2>2, HeadTaken
    <3>3. ~About(toPage[1])
      BY <2>2, <3>2
    <3>4. toPage # << >>
      BY <2>2
    <3>5. Shifted(1)
      BY <3>1, <3>2, <3>3, <3>4
    <3> QED
      BY <3>5
  <2> QED
    BY <2>1, <2>2 DEF Passes
<1>d. PICK d \in {0, 1} : Shifted(d)
  <2> HIDE DEF Shifted
  <2> QED
    BY <1>0
<1>1. /\ Len(toPage') = Len(toPage) - d
      /\ \A i \in DOMAIN toPage' : i \in Nat \ {0} /\ i + d \in DOMAIN toPage /\ toPage'[i] = toPage[i + d]
      /\ d = 0 => toPage' = toPage
      /\ d = 1 => toPage # << >> /\ ~About(toPage[1]) /\ 1 \in DOMAIN toPage
  BY <1>d
<1>2. /\ Len(toPage) \in Nat /\ DOMAIN toPage = 1..Len(toPage) /\ DOMAIN toPage' = 1..Len(toPage')
      /\ pending \subseteq 1..Len(asked)
  BY DEF Inv, TypeOK
<1>3. \A i \in DOMAIN toPage : About(toPage[i]) =>
        /\ toPage[i].id \in pending /\ toPage[i].id \in pending'
        /\ asked'[toPage[i].id] = asked[toPage[i].id] /\ found'[toPage[i].id] = found[toPage[i].id]
  BY <1>2 DEF Inv, Ports, AnswersWait, Grows
<1>4. AnswersWait'
  <2> SUFFICES ASSUME NEW i \in DOMAIN toPage', About(toPage'[i])
               PROVE  /\ toPage'[i].id \in pending'
                      /\ Ends(toPage'[i]) =>
                          \A j \in DOMAIN toPage' : j > i /\ About(toPage'[j]) => toPage'[j].id # toPage'[i].id
    BY DEF AnswersWait, About, Ends
  <2>1. \A j \in DOMAIN toPage' : j > i => j + d > i + d
    BY <1>1
  <2> QED
    BY <1>1, <1>3, <2>1 DEF Inv, Ports, AnswersWait
<1>5. FollowOn'
  <2> SUFFICES ASSUME NEW i \in DOMAIN toPage'
               PROVE  /\ toPage'[i].type = "finding" =>
                          /\ i + 1 \in DOMAIN toPage'
                          /\ Names(toPage'[i + 1]) /\ toPage'[i + 1].id = toPage'[i].id
                          /\ Comes(toPage[i + 1], toPage[i].finding)'
                      /\ toPage'[i].type = "result" =>
                          i + 1 \in DOMAIN toPage' /\ toPage'[i + 1] = [type |-> "done", id |-> toPage'[i].id]
    BY DEF FollowOn, Names
  <2>1. i + d \in DOMAIN toPage /\ toPage'[i] = toPage[i + d]
    BY <1>1
  <2>2. i + d + 1 \in DOMAIN toPage => i + 1 \in DOMAIN toPage' /\ toPage'[i + 1] = toPage[i + d + 1]
    <3>1. i + d + 1 \in DOMAIN toPage => i + 1 \in DOMAIN toPage'
      BY <1>1, <1>2
    <3>2. i + 1 + d = i + d + 1
      BY <1>1
    <3> QED
      BY <1>1, <3>1, <3>2
  <2>3. CASE toPage[i + d].type = "finding"
    <3>1. /\ i + d + 1 \in DOMAIN toPage /\ Names(toPage[i + d + 1]) /\ toPage[i + d + 1].id = toPage[i + d].id
          /\ Comes(toPage[i + d + 1], toPage[i + d].finding)
      BY <2>1, <2>3 DEF Inv, Ports, FollowOn
    <3>2. asked'[toPage[i + d + 1].id] = asked[toPage[i + d + 1].id]
      BY <1>3, <3>1 DEF Names, About
    <3>3. Comes(toPage[i + 1], toPage[i].finding)'
      BY <2>1, <2>2, <3>1, <3>2 DEF Comes
    <3> QED
      BY <2>1, <2>2, <2>3, <3>1, <3>3
  <2>4. CASE toPage[i + d].type = "result"
    <3>1. i + d + 1 \in DOMAIN toPage /\ toPage[i + d + 1] = [type |-> "done", id |-> toPage[i + d].id]
      BY <2>1, <2>4 DEF Inv, Ports, FollowOn
    <3> QED
      BY <2>1, <2>2, <2>4, <3>1
  <2> QED
    BY <2>1, <2>3, <2>4
<1>6. BeginAfresh'
  <2> SUFFICES ASSUME NEW i \in DOMAIN toPage', i > 1, About(toPage'[i]),
                      toPage'[i - 1].type \notin {"finding", "result"}
               PROVE  /\ Comes(toPage[i], Len(found[toPage[i].id]))'
                      /\ \A j \in 1..i - 1 : About(toPage'[j]) => toPage'[j].id # toPage'[i].id
    BY DEF BeginAfresh, About
  <2>1. /\ i + d \in DOMAIN toPage /\ toPage'[i] = toPage[i + d] /\ i + d > 1
        /\ \A j \in 1..i - 1 : j \in DOMAIN toPage' /\ j + d \in 1..(i + d) - 1 /\ toPage'[j] = toPage[j + d]
        /\ toPage'[i - 1] = toPage[(i + d) - 1]
    <3>1. i \in Nat /\ i > 1 /\ i \in 1..Len(toPage') /\ d \in {0, 1} /\ Len(toPage') \in Nat
      BY <1>1, <1>2
    <3>2. /\ \A j \in 1..i - 1 : j \in 1..Len(toPage') /\ j + d \in 1..(i + d) - 1
          /\ i - 1 \in 1..i - 1 /\ (i - 1) + d = (i + d) - 1 /\ i + d > 1
      BY <3>1
    <3> QED
      BY <1>1, <1>2, <3>2
  <2>2. /\ Comes(toPage[i + d], Len(found[toPage[i + d].id]))
        /\ \A j \in 1..(i + d) - 1 : About(toPage[j]) => toPage[j].id # toPage[i + d].id
    BY <2>1 DEF Inv, Ports, BeginAfresh
  <2>3. Comes(toPage[i], Len(found[toPage[i].id]))'
    BY <1>3, <2>1, <2>2 DEF Comes
  <2> QED
    BY <2>1, <2>2, <2>3
<1>7. HeadFollows'
  <2>0. toPage' # << >> => Head(toPage') = toPage'[1]
    BY DEF TypeOK
  <2> SUFFICES ASSUME toPage' # << >>, About(toPage'[1])
               PROVE  toPage'[1].type = "done" \/ Comes(toPage[1], Len(found[toPage[1].id]))'
    BY <2>0 DEF HeadFollows, About, Comes
  <2>1. 1 \in DOMAIN toPage' /\ 1 + d \in DOMAIN toPage /\ toPage'[1] = toPage[1 + d]
    <3>1. 1 \in DOMAIN toPage'
      BY DEF TypeOK
    <3> QED
      BY <1>1, <3>1
  <2>2. toPage[1 + d].type = "done" \/ Comes(toPage[1 + d], Len(found[toPage[1 + d].id]))
    <3>1. CASE d = 0
      BY <1>1, <2>1, <3>1 DEF Inv, TypeOK, Ports, HeadFollows
    <3>2. CASE d = 1
      <4>1. toPage[1].type \notin {"finding", "result"}
        BY <1>1, <3>2 DEF About
      <4> QED
        BY <2>1, <3>2, <4>1 DEF Inv, Ports, BeginAfresh
    <3> QED
      BY <3>1, <3>2
  <2> QED
    BY <1>3, <2>1, <2>2 DEF Comes
<1>8. ResultOfHead'
  <2>1. CASE d = 0
    <3>1. results' = results /\ toPage' = toPage
      BY <1>1, <2>1 DEF Grows
    <3>2. CASE results = {}
      BY <3>1, <3>2 DEF Inv, Ports, ResultOfHead
    <3>3. CASE results # {}
      <4>1. toPage # << >> /\ Head(toPage).type = "done" /\ Head(toPage) = toPage[1] /\ 1 \in DOMAIN toPage
        BY <3>3 DEF Inv, TypeOK, Ports, ResultOfHead
      <4>2. PICK feed \in Feeds :
              /\ results = {[id |-> Head(toPage).id, feed |-> feed]}
              /\ asked[Head(toPage).id].route = "checks" => Len(found[Head(toPage).id]) = FindingsIn[feed]
              /\ manifest \in {None, feed}
        BY <3>3 DEF Inv, Ports, ResultOfHead
      <4>3. /\ asked'[Head(toPage).id] = asked[Head(toPage).id]
            /\ found'[Head(toPage).id] = found[Head(toPage).id]
        BY <1>3, <4>1 DEF About
      <4>4. manifest' \in {None, feed}
        BY <3>3, <4>2
      <4> QED
        BY <3>1, <4>1, <4>2, <4>3, <4>4 DEF ResultOfHead
    <3> QED
      BY <3>2, <3>3
  <2>2. CASE d = 1
    <3>1. toPage # << >> /\ ~About(Head(toPage)) /\ results' = {}
      BY <1>1, <2>2 DEF Inv, TypeOK, Ports, ResultOfHead, Grows, About
    <3>2. toPage' # << >> => Head(toPage').type # "done"
      <4> SUFFICES ASSUME toPage' # << >>, Head(toPage').type = "done" PROVE FALSE
        OBVIOUS
      <4>1. 1 \in DOMAIN toPage' /\ Head(toPage') = toPage'[1]
        BY DEF TypeOK
      <4>2. 2 \in DOMAIN toPage /\ toPage[2].type = "done"
        BY <1>1, <2>2, <4>1
      <4>3. toPage[1].type \notin {"finding", "result"}
        BY <1>1, <2>2 DEF About
      <4> QED
        BY <4>2, <4>3 DEF Inv, Ports, BeginAfresh, Comes, About
    <3> QED
      BY <3>1, <3>2 DEF ResultOfHead
  <2> QED
    BY <2>1, <2>2
<1> QED
  BY <1>4, <1>5, <1>6, <1>7, <1>8

\* The worker tells what is about no question: that a feed is open, or a failure.
LEMMA QuietTold ==
    ASSUME Inv, TypeOK', NEW m \in Messages, ~About(m), toPage' = Append(toPage, m),
           UNCHANGED <<client, manifest>>
    PROVE  AnswersWait' /\ FollowOn' /\ BeginAfresh' /\ HeadFollows' /\ ResultOfHead'
<1>1. /\ Len(toPage) \in Nat /\ DOMAIN toPage = 1..Len(toPage) /\ toPage \in Seq(Messages)
      /\ Len(toPage') = Len(toPage) + 1 /\ DOMAIN toPage' = 1..Len(toPage) + 1
      /\ \A i \in DOMAIN toPage : i \in DOMAIN toPage' /\ toPage'[i] = toPage[i]
      /\ \A i \in DOMAIN toPage' : i \in DOMAIN toPage \/ (i = Len(toPage) + 1 /\ toPage'[i] = m)
  <2>1. /\ toPage \in Seq(Messages) /\ Len(toPage) \in Nat /\ DOMAIN toPage = 1..Len(toPage)
        /\ toPage' \in Seq(Messages) /\ DOMAIN toPage' = 1..Len(toPage')
    BY DEF Inv, TypeOK
  <2>2. /\ Len(toPage') = Len(toPage) + 1 /\ toPage'[Len(toPage) + 1] = m
        /\ \A i \in 1..Len(toPage) : toPage'[i] = toPage[i]
    BY <2>1
  <2> QED
    BY <2>1, <2>2
<1>2. \A i \in DOMAIN toPage' : About(toPage'[i]) => i \in DOMAIN toPage
  BY <1>1
<1>3. UNCHANGED <<asked, pending, found, results, manifest>>
  BY DEF client
<1>4. AnswersWait'
  <2> SUFFICES ASSUME NEW i \in DOMAIN toPage', About(toPage'[i])
               PROVE  /\ toPage'[i].id \in pending'
                      /\ Ends(toPage'[i]) =>
                          \A j \in DOMAIN toPage' : j > i /\ About(toPage'[j]) => toPage'[j].id # toPage'[i].id
    BY DEF AnswersWait, About, Ends
  <2> QED
    BY <1>1, <1>2, <1>3 DEF Inv, Ports, AnswersWait
<1>5. FollowOn'
  <2> SUFFICES ASSUME NEW i \in DOMAIN toPage', toPage'[i].type \in {"finding", "result"}
               PROVE  /\ toPage'[i].type = "finding" =>
                          /\ i + 1 \in DOMAIN toPage'
                          /\ Names(toPage'[i + 1]) /\ toPage'[i + 1].id = toPage'[i].id
                          /\ Comes(toPage[i + 1], toPage[i].finding)'
                      /\ toPage'[i].type = "result" =>
                          i + 1 \in DOMAIN toPage' /\ toPage'[i + 1] = [type |-> "done", id |-> toPage'[i].id]
    BY DEF FollowOn, Names
  <2>1. i \in DOMAIN toPage /\ toPage'[i] = toPage[i]
    BY <1>1, <1>2 DEF About
  <2>2. i + 1 \in DOMAIN toPage
    BY <2>1 DEF Inv, Ports, FollowOn
  <2>3. i + 1 \in DOMAIN toPage' /\ toPage'[i + 1] = toPage[i + 1]
    BY <1>1, <2>2
  <2> QED
    BY <1>3, <2>1, <2>3 DEF Inv, Ports, FollowOn, Comes
<1>6. BeginAfresh'
  <2> SUFFICES ASSUME NEW i \in DOMAIN toPage', i > 1, About(toPage'[i]),
                      toPage'[i - 1].type \notin {"finding", "result"}
               PROVE  /\ Comes(toPage[i], Len(found[toPage[i].id]))'
                      /\ \A j \in 1..i - 1 : About(toPage'[j]) => toPage'[j].id # toPage'[i].id
    BY DEF BeginAfresh, About
  <2>1. i \in DOMAIN toPage /\ toPage'[i] = toPage[i]
    BY <1>1, <1>2
  <2>2. /\ \A j \in 1..i - 1 : j \in DOMAIN toPage /\ toPage'[j] = toPage[j]
        /\ i - 1 \in 1..i - 1
    <3>1. i \in Nat /\ i > 1 /\ i <= Len(toPage)
      BY <1>1, <2>1
    <3>2. \A j \in 1..i - 1 : j \in 1..Len(toPage)
      BY <1>1, <3>1
    <3> QED
      BY <1>1, <3>1, <3>2
  <2>3. /\ Comes(toPage[i], Len(found[toPage[i].id]))
        /\ \A j \in 1..i - 1 : About(toPage[j]) => toPage[j].id # toPage[i].id
    BY <2>1, <2>2 DEF Inv, Ports, BeginAfresh
  <2> QED
    BY <1>3, <2>1, <2>2, <2>3 DEF Comes
<1>7. toPage' # << >> /\ Head(toPage') = toPage'[1] /\ 1 \in DOMAIN toPage'
  <2>1. toPage' \in Seq(Messages) /\ toPage' # << >>
    BY <1>1
  <2> QED
    BY <2>1
<1>8. toPage # << >> => Head(toPage) = toPage[1] /\ 1 \in DOMAIN toPage
  BY <1>1
<1>9. toPage = << >> => ~About(toPage'[1])
  BY <1>1
<1>10. HeadFollows'
  <2>1. CASE toPage = << >>
    BY <1>7, <1>9, <2>1 DEF HeadFollows, About
  <2>2. CASE toPage # << >>
    BY <1>1, <1>3, <1>7, <1>8, <2>2 DEF Inv, Ports, HeadFollows, Comes, About
  <2> QED
    BY <2>1, <2>2
<1>11. ResultOfHead'
  <2>1. CASE toPage = << >>
    BY <1>3, <1>7, <1>9, <2>1 DEF Inv, Ports, ResultOfHead, About
  <2>2. CASE toPage # << >>
    BY <1>1, <1>3, <1>7, <1>8, <2>2 DEF Inv, Ports, ResultOfHead
  <2> QED
    BY <2>1, <2>2
<1> QED
  BY <1>4, <1>5, <1>6, <1>10, <1>11

\* A question on its way, whatever the page does: nothing new is told of it.
LEMMA PageAsks ==
    ASSUME Inv, TypeOK',
           \A j \in DOMAIN toPage' : \E k \in DOMAIN toPage : toPage'[j] = toPage[k],
           \A i \in DOMAIN toWorker : toWorker[i].type = "ask" =>
                /\ toWorker[i].id \in pending' /\ found'[toWorker[i].id] = found[toWorker[i].id]
                /\ asked'[toWorker[i].id] = asked[toWorker[i].id],
           \/ toWorker' = toWorker
           \/ \E request \in Requests :
                /\ toWorker' = Append(toWorker, request)
                /\ request.type = "ask" =>
                    /\ request.id \notin pending /\ request.id \in pending'
                    /\ found'[request.id] = << >> /\ asked'[request.id].route = request.route
    PROVE  AsksWait'
<1>1. /\ toWorker \in Seq(Requests) /\ toWorker' \in Seq(Requests) /\ Len(toWorker) \in Nat
      /\ DOMAIN toWorker = 1..Len(toWorker)
  BY DEF Inv, TypeOK
<1>2. \A j \in DOMAIN toPage' : About(toPage'[j]) => toPage'[j].id \in pending
  BY DEF Inv, Ports, AnswersWait
<1>3. \A i \in DOMAIN toWorker : toWorker[i].type = "ask" =>
        /\ toWorker[i].id \in pending /\ toWorker[i].id \in pending'
        /\ found'[toWorker[i].id] = << >> /\ toWorker[i].route = asked'[toWorker[i].id].route
        /\ \A j \in DOMAIN toWorker \ {i} : toWorker[j].type = "ask" => toWorker[j].id # toWorker[i].id
        /\ \A j \in DOMAIN toPage' : About(toPage'[j]) => toPage'[j].id # toWorker[i].id
  BY DEF Inv, Ports, AsksWait
<1>4. CASE toWorker' = toWorker
  BY <1>3, <1>4 DEF AsksWait, About
<1>5. ASSUME NEW request \in Requests, toWorker' = Append(toWorker, request),
             request.type = "ask" =>
                /\ request.id \notin pending /\ request.id \in pending'
                /\ found'[request.id] = << >> /\ asked'[request.id].route = request.route
      PROVE  AsksWait'
  <2>1. /\ DOMAIN toWorker' = DOMAIN toWorker \cup {Len(toWorker) + 1}
        /\ \A i \in DOMAIN toWorker : toWorker'[i] = toWorker[i]
        /\ toWorker'[Len(toWorker) + 1] = request /\ Len(toWorker) + 1 \notin DOMAIN toWorker
    <3>1. /\ Len(toWorker') = Len(toWorker) + 1 /\ toWorker'[Len(toWorker) + 1] = request
          /\ \A i \in 1..Len(toWorker) : toWorker'[i] = toWorker[i]
      <4>1. /\ Len(Append(toWorker, request)) = Len(toWorker) + 1
            /\ Append(toWorker, request)[Len(toWorker) + 1] = request
            /\ \A i \in 1..Len(toWorker) : Append(toWorker, request)[i] = toWorker[i]
        BY <1>1
      <4> QED
        BY <1>5, <4>1
    <3>2. DOMAIN toWorker' = 1..Len(toWorker')
      BY <1>1
    <3> QED
      BY <1>1, <3>1, <3>2
  <2> SUFFICES ASSUME NEW i \in DOMAIN toWorker', toWorker'[i].type = "ask"
               PROVE  /\ toWorker'[i].id \in pending' /\ found'[toWorker'[i].id] = << >>
                      /\ toWorker'[i].route = asked'[toWorker'[i].id].route
                      /\ \A j \in DOMAIN toWorker' \ {i} :
                            toWorker'[j].type = "ask" => toWorker'[j].id # toWorker'[i].id
                      /\ \A j \in DOMAIN toPage' : About(toPage'[j]) => toPage'[j].id # toWorker'[i].id
    BY DEF AsksWait, About
  <2>2. CASE i \in DOMAIN toWorker
    BY <1>3, <1>5, <2>1, <2>2
  <2>3. CASE i = Len(toWorker) + 1
    BY <1>2, <1>3, <1>5, <2>1, <2>3
  <2> QED
    BY <2>1, <2>2, <2>3
<1> QED
  BY <1>4, <1>5

\* What is left on the page's port when a message about a question is heard.
LEMMA HeardPage ==
    ASSUME Inv, TypeOK', toPage # << >>, About(Head(toPage)), toPage' = Tail(toPage), asked' = asked,
           \A id \in 1..Len(asked) : id # Head(toPage).id => found'[id] = found[id],
           pending' = pending \/ (Ends(Head(toPage)) /\ pending' = pending \ {Head(toPage).id})
    PROVE  AnswersWait' /\ FollowOn' /\ BeginAfresh'
<1> TypeOK
  BY DEF Inv
<1>1. /\ Len(toPage) \in Nat \ {0} /\ Len(toPage') = Len(toPage) - 1 /\ 1 \in DOMAIN toPage
      /\ Head(toPage) = toPage[1]
      /\ DOMAIN toPage = 1..Len(toPage) /\ DOMAIN toPage' = 1..Len(toPage')
      /\ \A i \in DOMAIN toPage' : i \in Nat \ {0} /\ i + 1 \in DOMAIN toPage /\ toPage'[i] = toPage[i + 1]
  <2>1. toPage \in Seq(Messages) /\ toPage' \in Seq(Messages)
    BY DEF TypeOK
  <2> QED
    BY <2>1, HeadTaken
<1>2. pending \subseteq 1..Len(asked)
  BY DEF TypeOK
<1>3. AnswersWait'
  <2> SUFFICES ASSUME NEW i \in DOMAIN toPage', About(toPage'[i])
               PROVE  /\ toPage'[i].id \in pending'
                      /\ Ends(toPage'[i]) =>
                          \A j \in DOMAIN toPage' : j > i /\ About(toPage'[j]) => toPage'[j].id # toPage'[i].id
    BY DEF AnswersWait, About, Ends
  <2>1. /\ i + 1 \in DOMAIN toPage /\ i + 1 > 1 /\ toPage'[i] = toPage[i + 1]
        /\ \A j \in DOMAIN toPage' : j > i => j + 1 > i + 1
    BY <1>1
  <2>2. toPage[i + 1].id \in pending'
    <3>1. toPage[i + 1].id \in pending
      BY <2>1 DEF Inv, Ports, AnswersWait
    <3>2. Ends(toPage[1]) => toPage[i + 1].id # toPage[1].id
      BY <1>1, <2>1 DEF Inv, Ports, AnswersWait
    <3> QED
      BY <1>1, <3>1, <3>2
  <2> QED
    BY <1>1, <2>1, <2>2 DEF Inv, Ports, AnswersWait
<1>4. FollowOn'
  <2> SUFFICES ASSUME NEW i \in DOMAIN toPage', toPage'[i].type \in {"finding", "result"}
               PROVE  /\ toPage'[i].type = "finding" =>
                          /\ i + 1 \in DOMAIN toPage'
                          /\ Names(toPage'[i + 1]) /\ toPage'[i + 1].id = toPage'[i].id
                          /\ Comes(toPage[i + 1], toPage[i].finding)'
                      /\ toPage'[i].type = "result" =>
                          i + 1 \in DOMAIN toPage' /\ toPage'[i + 1] = [type |-> "done", id |-> toPage'[i].id]
    BY DEF FollowOn, Names
  <2>1. i + 1 \in DOMAIN toPage /\ toPage'[i] = toPage[i + 1]
    BY <1>1
  <2>2. i + 1 + 1 \in DOMAIN toPage
    BY <2>1 DEF Inv, Ports, FollowOn
  <2>3. i + 1 \in DOMAIN toPage' /\ toPage'[i + 1] = toPage[i + 1 + 1]
    <3>1. i + 1 \in DOMAIN toPage'
      BY <1>1, <2>2
    <3> QED
      BY <1>1, <3>1
  <2> QED
    BY <2>1, <2>2, <2>3 DEF Inv, Ports, FollowOn, Comes
<1>5. BeginAfresh'
  <2> SUFFICES ASSUME NEW i \in DOMAIN toPage', i > 1, About(toPage'[i]),
                      toPage'[i - 1].type \notin {"finding", "result"}
               PROVE  /\ Comes(toPage[i], Len(found[toPage[i].id]))'
                      /\ \A j \in 1..i - 1 : About(toPage'[j]) => toPage'[j].id # toPage'[i].id
    BY DEF BeginAfresh, About
  <2>1. /\ i + 1 \in DOMAIN toPage /\ toPage'[i] = toPage[i + 1] /\ i + 1 > 1
        /\ 1 \in 1..(i + 1) - 1
        /\ \A j \in 1..i - 1 : j \in DOMAIN toPage' /\ j + 1 \in 1..(i + 1) - 1 /\ toPage'[j] = toPage[j + 1]
        /\ toPage'[i - 1] = toPage[(i + 1) - 1]
    <3>1. i \in Nat /\ i > 1 /\ i \in 1..Len(toPage') /\ Len(toPage') \in Nat
      BY <1>1
    <3>2. /\ \A j \in 1..i - 1 : j \in 1..Len(toPage') /\ j + 1 \in 1..(i + 1) - 1
          /\ i - 1 \in 1..i - 1 /\ (i - 1) + 1 = (i + 1) - 1 /\ i + 1 > 1 /\ 1 \in 1..(i + 1) - 1
      BY <3>1
    <3> QED
      BY <1>1, <3>2
  <2>2. /\ Comes(toPage[i + 1], Len(found[toPage[i + 1].id]))
        /\ \A j \in 1..(i + 1) - 1 : About(toPage[j]) => toPage[j].id # toPage[i + 1].id
    BY <2>1 DEF Inv, Ports, BeginAfresh
  <2>3. toPage[i + 1].id # toPage[1].id /\ toPage[i + 1].id \in 1..Len(asked)
    BY <1>1, <1>2, <2>1, <2>2 DEF Inv, Ports, AnswersWait
  <2>4. found'[toPage[i + 1].id] = found[toPage[i + 1].id]
    BY <1>1, <2>3
  <2>5. Comes(toPage[i], Len(found[toPage[i].id]))'
    BY <2>1, <2>2, <2>4 DEF Comes
  <2> QED
    BY <2>1, <2>2, <2>5
<1> QED
  BY <1>3, <1>4, <1>5

\* What is heard next when an answer has ended begins an answer, or is about none.
LEMMA AfterEnd ==
    ASSUME Inv, TypeOK', toPage # << >>, Ends(Head(toPage)), toPage' = Tail(toPage), asked' = asked,
           found' = found, results' = {}
    PROVE  HeadFollows' /\ ResultOfHead'
<1> TypeOK
  BY DEF Inv
<1>1. toPage' # << >> =>
        /\ 2 \in DOMAIN toPage /\ Head(toPage') = toPage[2]
        /\ About(toPage[2]) => Comes(toPage[2], Len(found[toPage[2].id]))
  <2> SUFFICES ASSUME toPage' # << >>
               PROVE  /\ 2 \in DOMAIN toPage /\ Head(toPage') = toPage[2]
                      /\ About(toPage[2]) => Comes(toPage[2], Len(found[toPage[2].id]))
    OBVIOUS
  <2>1. toPage' \in Seq(Messages)
    BY DEF TypeOK
  <2>2. 1 \in DOMAIN toPage' /\ Head(toPage') = toPage'[1]
    BY <2>1
  <2>3. 2 \in DOMAIN toPage /\ toPage'[1] = toPage[2] /\ Head(toPage) = toPage[1]
    BY <2>2, HeadTaken
  <2>4. toPage[1].type \notin {"finding", "result"}
    BY <2>3 DEF Ends
  <2> QED
    BY <2>2, <2>3, <2>4 DEF Inv, Ports, BeginAfresh
<1>2. toPage' # << >> => Head(toPage').type # "done"
  BY <1>1 DEF About, Comes
<1>3. HeadFollows'
  BY <1>1 DEF HeadFollows, About, Comes
<1> QED
  BY <1>2, <1>3 DEF ResultOfHead

\* An answer goes on: what is heard next, and of which question.
LEMMA GoesOn ==
    ASSUME Inv, TypeOK', toPage # << >>, Head(toPage).type \in {"finding", "result"}, toPage' = Tail(toPage)
    PROVE  /\ toPage' # << >> /\ Head(toPage').id = Head(toPage).id
           /\ Head(toPage).type = "finding" =>
                /\ Names(Head(toPage')) /\ Comes(Head(toPage'), Head(toPage).finding)
           /\ Head(toPage).type = "result" => Head(toPage') = [type |-> "done", id |-> Head(toPage).id]
<1>1. /\ Head(toPage) = toPage[1] /\ toPage' \in Seq(Messages) /\ Len(toPage') = Len(toPage) - 1
      /\ Len(toPage) \in Nat \ {0} /\ toPage \in Seq(Messages) /\ 1 \in DOMAIN toPage
      /\ \A i \in DOMAIN toPage' : toPage'[i] = toPage[i + 1]
  <2>1. TypeOK /\ toPage \in Seq(Messages)
    BY DEF Inv, TypeOK
  <2> QED
    BY <2>1, HeadTaken
<1>2. 1 + 1 \in DOMAIN toPage
  BY <1>1 DEF Inv, Ports, FollowOn
<1>3. 1 \in DOMAIN toPage' /\ Head(toPage') = toPage'[1] /\ toPage' # << >> /\ toPage'[1] = toPage[1 + 1]
  <2>1. 1 \in DOMAIN toPage'
    BY <1>1, <1>2
  <2> QED
    BY <1>1, <2>1
<1>4. CASE toPage[1].type = "finding"
  BY <1>1, <1>3, <1>4 DEF Inv, Ports, FollowOn
<1>5. CASE toPage[1].type = "result"
  <2>1. toPage[1 + 1] = [type |-> "done", id |-> toPage[1].id]
    BY <1>1, <1>5 DEF Inv, Ports, FollowOn
  <2>2. Head(toPage') = [type |-> "done", id |-> Head(toPage).id]
    BY <1>1, <1>3, <2>1
  <2> QED
    BY <1>1, <1>3, <1>5, <2>2
<1> QED
  BY <1>1, <1>4, <1>5

\* The page hears of a question.
LEMMA HearFindingPorts ==
    ASSUME Inv, TypeOK', HearFinding
    PROVE  Ports' /\ FoundInOrder'
<1> DEFINE m == Head(toPage)
<1> TypeOK
  BY DEF Inv
<1>1. /\ Hears("finding") /\ found' = [found EXCEPT ![m.id] = Append(@, m.finding)]
      /\ UNCHANGED <<hash, changes, panel, manifest, rendering, asked, pending, results, toWorker>>
  BY DEF HearFinding
<1>2. /\ toPage # << >> /\ toPage' = Tail(toPage) /\ m.type = "finding" /\ m \in Messages
      /\ About(m) /\ m.id \in pending /\ m.id \in 1..Len(asked) /\ results = {}
  BY <1>1, Heard DEF About
<1>3. m.finding = Len(found[m.id]) + 1 /\ asked[m.id].route = "checks"
  <2>1. Comes(m, Len(found[m.id]))
    BY <1>2 DEF Inv, Ports, HeadFollows
  <2> QED
    BY <1>2, <2>1 DEF Comes
<1>4. found \in Seq(Seq(Nat)) /\ DOMAIN found = 1..Len(asked) /\ found[m.id] \in Seq(Nat) /\ m.finding \in Nat
  <2>1. found \in Seq(Seq(Nat)) /\ DOMAIN found = 1..Len(asked)
    BY DEF TypeOK
  <2>2. found[m.id] \in Seq(Nat)
    BY <1>2, AskedTypes
  <2>3. m.finding \in Nat
    BY <1>2, MessageFields
  <2> QED
    BY <2>1, <2>2, <2>3
<1>5. /\ DOMAIN found' = DOMAIN found
      /\ \A id \in DOMAIN found : id # m.id => found'[id] = found[id]
      /\ found'[m.id] = Append(found[m.id], m.finding)
  BY <1>1, <1>2, <1>4
<1>6. Len(found'[m.id]) = m.finding
  BY <1>3, <1>4, <1>5
<1>7. AnswersWait' /\ FollowOn' /\ BeginAfresh'
  BY <1>1, <1>2, <1>4, <1>5, HeardPage
<1>8. /\ toPage' # << >> /\ Head(toPage').id = m.id
      /\ Names(Head(toPage')) /\ Comes(Head(toPage'), m.finding)
  BY <1>2, GoesOn
<1>9. HeadFollows' /\ ResultOfHead'
  <2>1. Comes(Head(toPage), Len(found[Head(toPage).id]))'
    BY <1>1, <1>6, <1>8 DEF Comes
  <2>2. results' = {} /\ Head(toPage').type # "done"
    BY <1>1, <1>2, <1>8 DEF Comes
  <2> QED
    BY <2>1, <2>2 DEF HeadFollows, ResultOfHead
<1>10. AsksWait'
  <2>1. \A j \in DOMAIN toPage' : \E k \in DOMAIN toPage : toPage'[j] = toPage[k]
    BY <1>2, HeadTaken
  <2>2. \A i \in DOMAIN toWorker : toWorker[i].type = "ask" =>
            /\ toWorker[i].id \in pending /\ toWorker[i].id # m.id
    <3>1. m = toPage[1] /\ 1 \in DOMAIN toPage
      BY <1>2 DEF TypeOK
    <3> QED
      BY <1>2, <3>1 DEF Inv, Ports, AsksWait
  <2>3. pending \subseteq DOMAIN found
    BY <1>4 DEF TypeOK
  <2> QED
    BY <1>1, <1>5, <2>1, <2>2, <2>3, PageAsks
<1>11. FoundInOrder'
  <2>1. found[m.id] = Upto(Len(found[m.id]))
    BY <1>2, <1>4 DEF Inv, FoundInOrder
  <2>2. Append(found[m.id], Len(found[m.id]) + 1) = Upto(Len(found[m.id]) + 1)
    <3> DEFINE n == Len(found[m.id])
    <3>1. n \in Nat /\ found[m.id] = Upto(n)
      BY <1>4, <2>1
    <3> HIDE DEF n
    <3>2. Append(Upto(n), n + 1) = Upto(n + 1)
      BY <3>1 DEF Upto
    <3> QED
      BY <3>1, <3>2 DEF n
  <2>3. found'[m.id] = Upto(Len(found'[m.id]))
    BY <1>3, <1>5, <1>6, <2>2
  <2> QED
    BY <1>5, <2>3 DEF Inv, FoundInOrder, Upto
<1> QED
  BY <1>7, <1>9, <1>10, <1>11 DEF Ports

\* What is heard next, if it names a feed, names the one the page holds.
LEMMA HeadOfTheFeed ==
    ASSUME Inv, toPage # << >>, Names(Head(toPage))
    PROVE  manifest \in {None, Head(toPage).feed}
<1>1. toPage \in Seq(Messages)
  BY DEF Inv, TypeOK
<1>2. 1 \in DOMAIN toPage /\ Head(toPage) = toPage[1] /\ \A k \in DOMAIN toPage : ~(k < 1)
  BY <1>1
<1>3. \A j \in DOMAIN toPage :
        Names(toPage[j]) /\ (\A k \in DOMAIN toPage : k < j => ~Opening(k)) => manifest \in {None, toPage[j].feed}
  BY DEF Inv, FeedsFollow
<1> QED
  BY <1>2, <1>3

\* The result is kept for its end, which is the next to be heard.
LEMMA HearResultPorts ==
    ASSUME Inv, TypeOK', HearResult
    PROVE  Ports' /\ FoundInOrder'
<1> DEFINE m == Head(toPage)
<1> TypeOK
  BY DEF Inv
<1>1. /\ Hears("result") /\ results' = results \cup {[id |-> m.id, feed |-> m.feed]}
      /\ UNCHANGED <<page, asked, pending, found, toWorker>>
  BY DEF HearResult
<1>2. /\ toPage # << >> /\ toPage' = Tail(toPage) /\ m.type = "result" /\ m \in Messages
      /\ About(m) /\ Names(m) /\ m.id \in pending /\ m.id \in 1..Len(asked) /\ results = {}
  BY <1>1, Heard DEF About, Names
<1>3. m.feed \in Feeds /\ (asked[m.id].route = "checks" => Len(found[m.id]) = FindingsIn[m.feed])
  BY <1>2, MessageFields DEF Inv, Ports, HeadFollows, Comes
<1>4. AnswersWait' /\ FollowOn' /\ BeginAfresh'
  BY <1>1, <1>2, HeardPage
<1>5. toPage' # << >> /\ Head(toPage') = [type |-> "done", id |-> m.id]
  BY <1>2, GoesOn
<1>6. m = toPage[1] /\ 1 \in DOMAIN toPage
  BY <1>2 DEF TypeOK
<1>7. manifest \in {None, m.feed}
  BY <1>2, HeadOfTheFeed
<1>8. HeadFollows' /\ ResultOfHead'
  <2>1. results' = {[id |-> Head(toPage').id, feed |-> m.feed]} /\ Head(toPage').type = "done" /\ Head(toPage').id = m.id
    BY <1>1, <1>2, <1>5
  <2> QED
    BY <1>1, <1>3, <1>5, <1>7, <2>1 DEF HeadFollows, ResultOfHead, page
<1>9. AsksWait'
  <2>1. \A j \in DOMAIN toPage' : \E k \in DOMAIN toPage : toPage'[j] = toPage[k]
    BY <1>2, HeadTaken
  <2> QED
    BY <1>1, <2>1, PageAsks DEF Inv, Ports, AsksWait
<1> QED
  BY <1>1, <1>4, <1>8, <1>9 DEF Inv, Ports, FoundInOrder

\* The end of an answer settles its question, and nothing more is said of it.
LEMMA HearEndPorts ==
    ASSUME Inv, TypeOK', HearDone \/ HearRefusal
    PROVE  Ports' /\ FoundInOrder' /\ results' = {} /\ pending' = pending \ {Head(toPage).id}
<1> DEFINE m == Head(toPage)
<1> TypeOK
  BY DEF Inv
<1>1. /\ Hears("done") \/ Hears("failed")
      /\ UNCHANGED <<asked, found, toWorker>>
  BY DEF HearDone, HearRefusal
<1>2. /\ toPage # << >> /\ toPage' = Tail(toPage) /\ Ends(m) /\ About(m) /\ m \in Messages
      /\ m.id \in pending /\ m.id \in 1..Len(asked)
  BY <1>1, Heard DEF Ends, About
<1>3. results' = {} /\ pending' = pending \ {m.id}
  <2>1. CASE HearDone
    <3>1. PICK result \in results : /\ result.id = m.id /\ results' = results \ {result}
                                    /\ pending' = pending \ {result.id}
      BY <2>1 DEF HearDone
    <3> QED
      BY <3>1 DEF Inv, Ports, ResultOfHead
  <2>2. CASE HearRefusal
    BY <2>2, Heard DEF HearRefusal
  <2> QED
    BY <2>1, <2>2
<1>4. AnswersWait' /\ FollowOn' /\ BeginAfresh'
  BY <1>1, <1>2, <1>3, HeardPage
<1>5. HeadFollows' /\ ResultOfHead'
  BY <1>1, <1>2, <1>3, AfterEnd
<1>6. AsksWait'
  <2>1. \A j \in DOMAIN toPage' : \E k \in DOMAIN toPage : toPage'[j] = toPage[k]
    BY <1>2, HeadTaken
  <2>2. \A i \in DOMAIN toWorker : toWorker[i].type = "ask" => toWorker[i].id \in pending'
    <3>1. m = toPage[1] /\ 1 \in DOMAIN toPage
      BY <1>2 DEF TypeOK
    <3> QED
      BY <1>2, <1>3, <3>1 DEF Inv, Ports, AsksWait
  <2> QED
    BY <1>1, <2>1, <2>2, PageAsks
<1> QED
  BY <1>1, <1>3, <1>4, <1>5, <1>6 DEF Inv, Ports, FoundInOrder

\* The worker answers a question: the answer stands after what is told, all of it in order.
LEMMA AnswerPorts ==
    ASSUME Inv, TypeOK', Reply \/ CheckThrows
    PROVE  Ports' /\ FoundInOrder'
<1> DEFINE ask == Head(toWorker)
           id == ask.id
           L == Len(toPage)
<1> TypeOK
  BY DEF Inv
<1>1. /\ UNCHANGED <<page, client, alive, loads, slot, reader>>
      /\ toWorker # << >> /\ ask.type = "ask" /\ toWorker' = Tail(toWorker)
  BY Told
<1>2. PICK n \in Nat, end \in {Refusal(id), Answer(id)} :
        /\ Tells(id, n, end)
        /\ n > 0 => ask.route = "checks"
        /\ ask.route = "checks" => IF end = Answer(id) THEN n = FindingsIn[slot] ELSE faults' > 0
  BY Told
<1>3. /\ ask = toWorker[1] /\ id \in pending /\ id \in 1..Len(asked) /\ id \in Nat
      /\ ask.route = asked[id].route /\ slot \in Feeds
      /\ Len(toWorker) \in Nat \ {0} /\ Len(toWorker') = Len(toWorker) - 1
      /\ \A i \in DOMAIN toWorker' : i \in Nat \ {0} /\ i + 1 \in DOMAIN toWorker /\ toWorker'[i] = toWorker[i + 1]
  BY <1>1, Taken
<1>4. 1 \in DOMAIN toWorker /\ L \in Nat /\ DOMAIN toPage = 1..L /\ DOMAIN toPage' = 1..Len(toPage')
  BY <1>1 DEF TypeOK
<1>5. found[id] = << >> /\ \A j \in DOMAIN toPage : About(toPage[j]) => toPage[j].id # id
  BY <1>1, <1>3, <1>4 DEF Inv, Ports, AsksWait
<1>6. UNCHANGED <<asked, pending, found, results, manifest>>
  BY <1>1 DEF page, client
<1>7. \/ end = Refusal(id) /\ Len(end) = 1 /\ end[1] = [type |-> "failed", id |-> id, feed |-> slot]
      \/ /\ end = Answer(id) /\ end # Refusal(id) /\ Len(end) = 2
         /\ end[1] = [type |-> "result", id |-> id, feed |-> slot] /\ end[2] = [type |-> "done", id |-> id]
  BY DEF Refusal, Answer
<1> HIDE DEF ask, id, L
<1>8. /\ Len(toPage') = L + n + Len(end)
      /\ \A i \in 1..L : toPage'[i] = toPage[i]
      /\ \A k \in 1..n : toPage'[L + k] = [type |-> "finding", id |-> id, feed |-> slot, finding |-> k]
      /\ toPage'[L + n + 1] = end[1]
      /\ Len(end) = 2 => toPage'[L + n + 2] = end[2]
  BY <1>2, <1>7 DEF Tells, L
<1>9. \A i \in DOMAIN toPage' :
        \/ i \in DOMAIN toPage /\ toPage'[i] = toPage[i]
        \/ \E k \in 1..n : i = L + k /\ toPage'[i] = [type |-> "finding", id |-> id, feed |-> slot, finding |-> k]
        \/ i = L + n + 1 /\ toPage'[i] = end[1]
        \/ i = L + n + 2 /\ Len(end) = 2 /\ toPage'[i] = end[2]
  <2> SUFFICES ASSUME NEW i \in DOMAIN toPage', i \notin DOMAIN toPage, i # L + n + 1, i # L + n + 2 \/ Len(end) # 2
               PROVE  \E k \in 1..n : i = L + k /\ toPage'[i] = [type |-> "finding", id |-> id, feed |-> slot, finding |-> k]
    BY <1>4, <1>8
  <2>1. i - L \in 1..n /\ i = L + (i - L)
    <3>1. Len(end) = 1 \/ Len(end) = 2
      BY <1>7
    <3>2. i \in 1..L + n + Len(end) /\ i \notin 1..L
      BY <1>4, <1>8
    <3>3. i \in Nat /\ i > L /\ i <= L + n + Len(end) /\ n \in Nat /\ L \in Nat
      BY <1>4, <3>1, <3>2
    <3>4. i <= L + n
      <4>1. i # L + n + 1 /\ (i # L + n + 2 \/ Len(end) # 2)
        OBVIOUS
      <4>2. CASE Len(end) = 1
        <5>1. i <= L + n + 1
          BY <3>3, <4>2
        <5> QED
          BY <3>3, <4>1, <5>1
      <4>3. CASE Len(end) = 2
        <5>1. i <= L + n + 2 /\ i # L + n + 2
          BY <3>3, <4>1, <4>3
        <5> QED
          BY <3>3, <4>1, <5>1
      <4> QED
        BY <3>1, <4>2, <4>3
    <3> QED
      BY <3>3, <3>4
  <2> QED
    BY <1>8, <2>1
<1>10. \A i \in DOMAIN toPage' : i \notin DOMAIN toPage => About(toPage'[i]) /\ toPage'[i].id = id
  BY <1>7, <1>9 DEF About
<1>11. \A i \in DOMAIN toPage : i \in DOMAIN toPage' /\ toPage'[i] = toPage[i]
  BY <1>4, <1>7, <1>8
<1>12. Len(toPage') \in Nat /\ L + 1 \in DOMAIN toPage' /\ L + n + 1 \in DOMAIN toPage'
  BY <1>4, <1>7, <1>8
\* The first of the answer, and what follows each of its parts.
<1>13. Comes(toPage'[L + 1], 0)
  <2>1. CASE n = 0
    <3>1. toPage'[L + 1] = end[1]
      BY <1>4, <1>8, <2>1
    <3>2. end = Answer(id) => Comes(end[1], 0)
      BY <1>2, <1>3, <1>7, <2>1 DEF Comes
    <3>3. end = Refusal(id) => Comes(end[1], 0)
      BY <1>7 DEF Comes, Refusal
    <3> QED
      BY <1>7, <3>1, <3>2, <3>3
  <2>2. CASE n # 0
    <3>1. 1 \in 1..n /\ ask.route = "checks"
      BY <1>2, <2>2
    <3>2. toPage'[L + 1] = [type |-> "finding", id |-> id, feed |-> slot, finding |-> 1]
      BY <1>8, <3>1
    <3>3. toPage'[L + 1].type = "finding" /\ toPage'[L + 1].id = id /\ toPage'[L + 1].finding = 0 + 1
      BY <3>2
    <3> QED
      BY <1>3, <3>1, <3>3 DEF Comes
  <2> QED
    BY <2>1, <2>2
<1>14. ASSUME NEW k \in 1..n
       PROVE  /\ L + k + 1 \in DOMAIN toPage' /\ Names(toPage'[L + k + 1]) /\ toPage'[L + k + 1].id = id
              /\ Comes(toPage'[L + k + 1], k)
  <2>0. ask.route = "checks" /\ k \in Nat
    BY <1>2
  <2>1. CASE k = n
    <3>1. toPage'[L + k + 1] = end[1] /\ L + k + 1 \in DOMAIN toPage'
      BY <1>8, <1>12, <2>1
    <3>2. end = Answer(id) => Comes(end[1], k) /\ Names(end[1]) /\ end[1].id = id
      BY <1>2, <1>3, <1>7, <2>0, <2>1 DEF Comes, Names
    <3>3. end = Refusal(id) => Comes(end[1], k) /\ Names(end[1]) /\ end[1].id = id
      BY <1>7 DEF Comes, Names, Refusal
    <3> QED
      BY <1>7, <3>1, <3>2, <3>3
  <2>2. CASE k # n
    <3>1. k + 1 \in 1..n /\ L + k + 1 = L + (k + 1)
      BY <1>4, <2>2
    <3>2. toPage'[L + k + 1] = [type |-> "finding", id |-> id, feed |-> slot, finding |-> k + 1]
      BY <1>8, <3>1
    <3>3. L + k + 1 \in DOMAIN toPage'
      BY <1>4, <1>7, <1>8, <3>1
    <3>4. toPage'[L + k + 1].type = "finding" /\ toPage'[L + k + 1].id = id /\ toPage'[L + k + 1].finding = k + 1
      BY <3>2
    <3> QED
      BY <1>3, <2>0, <3>3, <3>4 DEF Comes, Names
  <2> QED
    BY <2>1, <2>2
<1>15. AnswersWait'
  <2> SUFFICES ASSUME NEW i \in DOMAIN toPage', About(toPage'[i])
               PROVE  /\ toPage'[i].id \in pending'
                      /\ Ends(toPage'[i]) =>
                          \A j \in DOMAIN toPage' : j > i /\ About(toPage'[j]) => toPage'[j].id # toPage'[i].id
    BY DEF AnswersWait, About, Ends
  <2>1. CASE i \in DOMAIN toPage
    <3>1. /\ toPage'[i] = toPage[i] /\ toPage[i].id \in pending /\ toPage[i].id # id
          /\ Ends(toPage[i]) => \A j \in DOMAIN toPage : j > i /\ About(toPage[j]) => toPage[j].id # toPage[i].id
      BY <1>5, <1>11, <2>1 DEF Inv, Ports, AnswersWait
    <3>2. \A j \in DOMAIN toPage' : toPage'[j] = toPage[j] \/ toPage'[j].id = id
      BY <1>10, <1>11
    <3> QED
      BY <1>6, <1>10, <1>11, <3>1, <3>2
  <2>2. CASE i \notin DOMAIN toPage
    <3>1. toPage'[i].id = id
      BY <1>10, <2>2
    <3>2. Ends(toPage'[i]) => i = Len(toPage')
      <4>1. (\E k \in 1..n : toPage'[i] = [type |-> "finding", id |-> id, feed |-> slot, finding |-> k]) =>
                ~Ends(toPage'[i])
        BY DEF Ends
      <4>2. i = L + n + 1 /\ toPage'[i] = end[1] /\ Len(end) # 1 => ~Ends(toPage'[i])
        BY <1>7 DEF Ends
      <4>3. i = L + n + 1 /\ Len(end) = 1 => i = Len(toPage')
        BY <1>8
      <4>4. i = L + n + 2 /\ Len(end) = 2 => i = Len(toPage')
        BY <1>8
      <4> QED
        BY <1>9, <2>2, <4>1, <4>2, <4>3, <4>4
    <3>3. \A j \in DOMAIN toPage' : ~(j > Len(toPage'))
      BY <1>4, <1>12
    <3> QED
      BY <1>3, <1>6, <3>1, <3>2, <3>3
  <2> QED
    BY <2>1, <2>2
<1>16. FollowOn'
  <2> SUFFICES ASSUME NEW i \in DOMAIN toPage', toPage'[i].type \in {"finding", "result"}
               PROVE  /\ toPage'[i].type = "finding" =>
                          /\ i + 1 \in DOMAIN toPage'
                          /\ Names(toPage'[i + 1]) /\ toPage'[i + 1].id = toPage'[i].id
                          /\ Comes(toPage[i + 1], toPage[i].finding)'
                      /\ toPage'[i].type = "result" =>
                          i + 1 \in DOMAIN toPage' /\ toPage'[i + 1] = [type |-> "done", id |-> toPage'[i].id]
    BY DEF FollowOn, Names
  <2>1. CASE i \in DOMAIN toPage
    <3>1. toPage'[i] = toPage[i] /\ i + 1 \in DOMAIN toPage
      BY <1>11, <2>1 DEF Inv, Ports, FollowOn
    <3>2. i + 1 \in DOMAIN toPage' /\ toPage'[i + 1] = toPage[i + 1]
      BY <1>11, <3>1
    <3> QED
      BY <1>6, <2>1, <3>1, <3>2 DEF Inv, Ports, FollowOn, Comes
  <2>2. CASE i \notin DOMAIN toPage /\ toPage'[i].type = "finding"
    <3>1. PICK k \in 1..n : i = L + k /\ toPage'[i] = [type |-> "finding", id |-> id, feed |-> slot, finding |-> k]
      BY <1>7, <1>9, <2>2
    <3> QED
      BY <1>6, <1>14, <2>2, <3>1 DEF Comes
  <2>3. CASE i \notin DOMAIN toPage /\ toPage'[i].type = "result"
    <3>1. i = L + n + 1 /\ Len(end) = 2 /\ end[2] = [type |-> "done", id |-> id]
      BY <1>7, <1>9, <2>3
    <3>2. i + 1 = L + n + 2 /\ i + 1 \in DOMAIN toPage'
      BY <1>4, <1>8, <3>1
    <3> QED
      BY <1>8, <1>10, <2>3, <3>1, <3>2
  <2> QED
    BY <2>1, <2>2, <2>3
<1>17. BeginAfresh'
  <2> SUFFICES ASSUME NEW i \in DOMAIN toPage', i > 1, About(toPage'[i]),
                      toPage'[i - 1].type \notin {"finding", "result"}
               PROVE  /\ Comes(toPage[i], Len(found[toPage[i].id]))'
                      /\ \A j \in 1..i - 1 : About(toPage'[j]) => toPage'[j].id # toPage'[i].id
    BY DEF BeginAfresh, About
  <2>1. CASE i \in DOMAIN toPage
    <3>1. /\ \A j \in 1..i - 1 : j \in DOMAIN toPage
          /\ i - 1 \in 1..i - 1
      BY <1>4, <2>1
    <3>2. /\ Comes(toPage[i], Len(found[toPage[i].id]))
          /\ \A j \in 1..i - 1 : About(toPage[j]) => toPage[j].id # toPage[i].id
      BY <1>11, <2>1, <3>1 DEF Inv, Ports, BeginAfresh
    <3> QED
      BY <1>6, <1>11, <2>1, <3>1, <3>2 DEF Comes
  <2>2. CASE i = L + 1
    <3>1. \A j \in 1..i - 1 : j \in DOMAIN toPage
      BY <1>4, <2>2
    <3>2. i \notin DOMAIN toPage
      BY <1>4, <2>2
    <3>3. toPage'[i].id = id /\ Len(found[id]) = 0
      BY <1>5, <1>10, <3>2
    <3> QED
      BY <1>5, <1>6, <1>11, <1>13, <2>2, <3>1, <3>3 DEF Comes
  <2>3. CASE i \notin DOMAIN toPage /\ i # L + 1
    <3>1. i - 1 \in DOMAIN toPage' /\ i - 1 \notin DOMAIN toPage /\ i - 1 # Len(toPage')
      BY <1>4, <1>12, <2>3
    <3>2. toPage'[i - 1].type \in {"finding", "result"}
      BY <1>4, <1>7, <1>8, <1>9, <3>1
    <3> QED
      BY <3>2
  <2> QED
    BY <2>1, <2>2, <2>3
<1>18. toPage' # << >> /\ Head(toPage') = toPage'[1]
  BY <1>12 DEF TypeOK
<1>19. toPage # << >> => Head(toPage) = toPage[1] /\ 1 \in DOMAIN toPage
  BY DEF TypeOK
<1>20. toPage = << >> => Comes(toPage'[1], 0) /\ toPage'[1].id = id
  <2>1. toPage = << >> => L = 0 /\ 1 \notin DOMAIN toPage
    BY DEF L
  <2> QED
    BY <1>10, <1>12, <1>13, <2>1
<1>21. HeadFollows'
  <2>1. CASE toPage = << >>
    BY <1>5, <1>6, <1>18, <1>20, <2>1 DEF HeadFollows, Comes
  <2>2. CASE toPage # << >>
    BY <1>6, <1>11, <1>18, <1>19, <2>2 DEF Inv, Ports, HeadFollows, Comes, About
  <2> QED
    BY <2>1, <2>2
<1>22. ResultOfHead'
  <2>1. CASE toPage = << >>
    BY <1>6, <1>18, <1>20, <2>1 DEF Inv, Ports, ResultOfHead, Comes
  <2>2. CASE toPage # << >>
    BY <1>6, <1>11, <1>18, <1>19, <2>2 DEF Inv, Ports, ResultOfHead
  <2> QED
    BY <2>1, <2>2
<1>23. AsksWait'
  <2> SUFFICES ASSUME NEW i \in DOMAIN toWorker', toWorker'[i].type = "ask"
               PROVE  /\ toWorker'[i].id \in pending' /\ found'[toWorker'[i].id] = << >>
                      /\ toWorker'[i].route = asked'[toWorker'[i].id].route
                      /\ \A j \in DOMAIN toWorker' \ {i} :
                            toWorker'[j].type = "ask" => toWorker'[j].id # toWorker'[i].id
                      /\ \A j \in DOMAIN toPage' : About(toPage'[j]) => toPage'[j].id # toWorker'[i].id
    BY DEF AsksWait, About
  <2>1. /\ i + 1 \in DOMAIN toWorker /\ toWorker'[i] = toWorker[i + 1] /\ i + 1 # 1
        /\ \A j \in DOMAIN toWorker' \ {i} : j + 1 \in DOMAIN toWorker \ {i + 1} /\ toWorker'[j] = toWorker[j + 1]
    BY <1>3
  <2>2. toWorker[i + 1].id # id
    BY <1>1, <1>3, <1>4, <2>1 DEF Inv, Ports, AsksWait, id, ask
  <2>3. \A j \in DOMAIN toPage' : About(toPage'[j]) => toPage'[j].id # toWorker[i + 1].id
    BY <1>10, <1>11, <2>1, <2>2 DEF Inv, Ports, AsksWait
  <2> QED
    BY <1>6, <2>1, <2>3 DEF Inv, Ports, AsksWait
<1> QED
  BY <1>6, <1>15, <1>16, <1>17, <1>21, <1>22, <1>23 DEF Inv, Ports, FoundInOrder

\* A rendering keeps what was asked, and what it asks is new and on its way last.
LEMMA RenderPorts ==
    ASSUME Inv, TypeOK', NEW m \in Feeds, Render(m), Passes, manifest' \in {None, manifest} \/ results = {}
    PROVE  Ports' /\ FoundInOrder'
<1> TypeOK
  BY DEF Inv
<1>1. /\ Len(asked) \in Nat /\ pending \subseteq 1..Len(asked) /\ DOMAIN found = 1..Len(asked)
      /\ toPage \in Seq(Messages)
  BY DEF TypeOK
<1>2. Grows
  BY ClientGrows, Rendered DEF Grows
<1>3. AnswersWait' /\ FollowOn' /\ BeginAfresh' /\ HeadFollows' /\ ResultOfHead'
  BY <1>2, QuietPage
<1>4. \A j \in DOMAIN toPage' : \E k \in DOMAIN toPage : toPage'[j] = toPage[k]
  BY HeadTaken DEF Passes
<1>5. \A i \in DOMAIN toWorker : toWorker[i].type = "ask" =>
        /\ toWorker[i].id \in pending /\ toWorker[i].id \in pending'
        /\ found'[toWorker[i].id] = found[toWorker[i].id] /\ asked'[toWorker[i].id] = asked[toWorker[i].id]
  BY <1>1, <1>2 DEF Grows, Inv, Ports, AsksWait
<1>6. CASE hash = "overview"
  <2>1. UNCHANGED <<asked, pending, found, toWorker>>
    BY <1>6, Rendered
  <2> QED
    BY <1>3, <1>4, <1>5, <2>1, PageAsks DEF Inv, Ports, FoundInOrder
<1>7. CASE hash # "overview"
  <2> DEFINE ask == [type |-> "ask", id |-> Len(asked) + 1, route |-> hash]
  <2>1. hash \in Routes /\ rendering' \in Nat /\ Ask(hash, rendering')
    BY <1>7, Rendered DEF TypeOK
  <2>2. /\ Len(asked') = Len(asked) + 1 /\ found'[Len(asked')] = << >> /\ Len(found') = Len(asked')
        /\ asked'[Len(asked')] = [route |-> hash, by |-> rendering']
        /\ pending' = pending \cup {Len(asked')} /\ Len(asked') \notin pending
    BY <2>1, Asked
  <2>3. toWorker' = Append(toWorker, ask) /\ ask \in Requests
    BY <1>1, <2>1 DEF Ask, Requests
  <2>4. /\ ask.id = Len(asked') /\ ask.id \notin pending /\ ask.id \in pending'
        /\ found'[ask.id] = << >> /\ asked'[ask.id].route = ask.route
    BY <2>2
  <2> HIDE DEF ask
  <2>5. AsksWait'
    BY <1>4, <1>5, <2>3, <2>4, PageAsks
  <2>6. FoundInOrder'
    <3> SUFFICES ASSUME NEW id \in DOMAIN found' PROVE found'[id] = Upto(Len(found'[id]))
      BY DEF FoundInOrder, Upto
    <3>1. id \in 1..Len(asked) \/ id = Len(asked')
      <4>1. DOMAIN found' = 1..Len(found')
        BY DEF TypeOK
      <4>2. id \in 1..Len(asked) + 1
        BY <2>2, <4>1
      <4> QED
        BY <1>1, <2>2, <4>2
    <3>2. CASE id \in 1..Len(asked)
      BY <1>1, <1>2, <3>2 DEF Grows, Inv, FoundInOrder
    <3>3. CASE id = Len(asked')
      <4>1. found'[id] = << >> /\ Len(found'[id]) = 0
        BY <2>2, <3>3
      <4> QED
        BY <4>1 DEF Upto
    <3> QED
      BY <3>1, <3>2, <3>3
  <2> QED
    BY <1>3, <2>5, <2>6 DEF Ports
<1> QED
  BY <1>6, <1>7

\* Every step keeps what is said of the ports, and the findings in their order.
LEMMA PortsStep ==
    ASSUME Inv, TypeOK', Next
    PROVE  Ports' /\ FoundInOrder'
<1> TypeOK
  BY DEF Inv
<1>1. CASE Reader
  <2>1. /\ UNCHANGED <<client, toPage>> /\ manifest' \in {None, manifest}
        /\ toWorker' = toWorker \/ \E request \in Requests : request.type = "open" /\ toWorker' = Append(toWorker, request)
    <3>1. CASE OpenFeed
      <4>1. opens' \in 1..MaxOpens
        BY <3>1, BoundsAssumption DEF OpenFeed, TypeOK
      <4> QED
        BY <3>1, <4>1 DEF OpenFeed, Requests, Feeds
    <3>2. CASE CloseFeed \/ Navigate
      BY <3>2 DEF CloseFeed, Navigate
    <3> QED
      BY <1>1, <3>1, <3>2 DEF Reader
  <2>2. Grows /\ Passes /\ UNCHANGED <<asked, pending, found, results>>
    BY <2>1 DEF Grows, Passes, client, TypeOK
  <2>3. AnswersWait' /\ FollowOn' /\ BeginAfresh' /\ HeadFollows' /\ ResultOfHead'
    BY <2>1, <2>2, QuietPage
  <2>4. /\ \A j \in DOMAIN toPage' : \E k \in DOMAIN toPage : toPage'[j] = toPage[k]
        /\ \A i \in DOMAIN toWorker : toWorker[i].type = "ask" => toWorker[i].id \in pending
    BY <2>1 DEF Inv, Ports, AsksWait
  <2>5. AsksWait'
    BY <2>1, <2>2, <2>4, PageAsks
  <2> QED
    BY <2>2, <2>3, <2>5 DEF Inv, Ports, FoundInOrder
<1>2. CASE HashChange /\ manifest # None
  <2>1. manifest \in Feeds /\ Render(manifest) /\ Passes /\ manifest' = manifest
    BY <1>2 DEF HashChange, TypeOK, Passes
  <2> QED
    BY <2>1, RenderPorts
<1>3. CASE Opened
  <2>1. Hears("opened") /\ Render(Head(toPage).feed)
    BY <1>3 DEF Opened
  <2>2. Head(toPage).feed \in Feeds /\ Passes /\ results = {}
    BY <2>1, Heard, MessageFields DEF Passes, About
  <2> QED
    BY <2>1, <2>2, RenderPorts
<1>4. CASE HearFinding
  BY <1>4, HearFindingPorts
<1>5. CASE HearResult
  BY <1>5, HearResultPorts
<1>6. CASE HearDone \/ HearRefusal
  BY <1>6, HearEndPorts
<1>7. CASE HearFailure \/ (HashChange /\ manifest = None)
  <2>1. Passes /\ UNCHANGED <<client, manifest, toWorker>>
    <3>1. CASE HearFailure
      <4>1. Hears("failure")
        BY <3>1 DEF HearFailure
      <4> QED
        BY <3>1, <4>1, Heard DEF HearFailure, Passes, About
    <3>2. CASE HashChange /\ manifest = None
      BY <3>2 DEF HashChange, Passes
    <3> QED
      BY <1>7, <3>1, <3>2
  <2>2. Grows /\ UNCHANGED <<asked, pending, found, results>>
    BY <2>1 DEF Grows, client, TypeOK
  <2>3. AnswersWait' /\ FollowOn' /\ BeginAfresh' /\ HeadFollows' /\ ResultOfHead'
    BY <2>1, <2>2, QuietPage
  <2>4. /\ \A j \in DOMAIN toPage' : \E k \in DOMAIN toPage : toPage'[j] = toPage[k]
        /\ \A i \in DOMAIN toWorker : toWorker[i].type = "ask" => toWorker[i].id \in pending
    BY <2>1, HeadTaken DEF Passes, Inv, Ports, AsksWait
  <2>5. AsksWait'
    BY <2>1, <2>2, <2>4, PageAsks
  <2> QED
    BY <2>2, <2>3, <2>5 DEF Inv, Ports, FoundInOrder
<1>8. CASE Loaded \/ LoadFails \/ Stops
  <2>1. PICK m \in Messages : ~About(m) /\ toPage' = Append(toPage, m)
    <3>1. CASE Loaded
      <4>1. PICK feed \in loads : toPage' = Append(toPage, [type |-> "opened", feed |-> feed])
        BY <3>1 DEF Loaded
      <4>2. [type |-> "opened", feed |-> feed] \in Messages
        BY DEF TypeOK, Messages
      <4> QED
        BY <4>1, <4>2 DEF About
    <3>2. CASE LoadFails \/ Stops
      <4>1. toPage' = Append(toPage, [type |-> "failure"]) /\ [type |-> "failure"] \in Messages
        BY <3>2 DEF LoadFails, Stops, Messages
      <4> QED
        BY <4>1 DEF About
    <3> QED
      BY <1>8, <3>1, <3>2
  <2>2. UNCHANGED <<client, manifest, toWorker>> /\ UNCHANGED <<asked, pending, found, results>>
    BY <1>8 DEF Loaded, LoadFails, Stops, page, client
  <2>3. AnswersWait' /\ FollowOn' /\ BeginAfresh' /\ HeadFollows' /\ ResultOfHead'
    BY <2>1, <2>2, QuietTold
  <2>4. \A j \in DOMAIN toPage' : About(toPage'[j]) => j \in DOMAIN toPage /\ toPage'[j] = toPage[j]
    <3>1. toPage \in Seq(Messages)
      BY DEF TypeOK
    <3>2. /\ Len(toPage') = Len(toPage) + 1 /\ DOMAIN toPage' = 1..Len(toPage') /\ Len(toPage) \in Nat
          /\ DOMAIN toPage = 1..Len(toPage)
          /\ \A j \in DOMAIN toPage : toPage'[j] = toPage[j]
          /\ toPage'[Len(toPage) + 1] = m
      <4>1. /\ Len(Append(toPage, m)) = Len(toPage) + 1 /\ Append(toPage, m) \in Seq(Messages)
            /\ \A j \in 1..Len(toPage) : Append(toPage, m)[j] = toPage[j]
            /\ Append(toPage, m)[Len(toPage) + 1] = m
        BY <3>1
      <4> QED
        BY <2>1, <3>1, <4>1
    <3> QED
      BY <2>1, <3>2
  <2>5. AsksWait'
    BY <2>2, <2>4 DEF Inv, Ports, AsksWait, About
  <2> QED
    BY <2>2, <2>3, <2>5 DEF Inv, Ports, FoundInOrder
<1>9. CASE Load
  <2>1. UNCHANGED <<client, manifest, toPage>> /\ toWorker # << >> /\ toWorker' = Tail(toWorker)
    BY <1>9 DEF Load, Takes, page
  <2>2. Grows /\ Passes /\ UNCHANGED <<asked, pending, found, results>>
    BY <2>1 DEF Grows, Passes, client, TypeOK
  <2>3. AnswersWait' /\ FollowOn' /\ BeginAfresh' /\ HeadFollows' /\ ResultOfHead'
    BY <2>1, <2>2, QuietPage
  <2>4. \A i \in DOMAIN toWorker' : i \in Nat \ {0} /\ i + 1 \in DOMAIN toWorker /\ toWorker'[i] = toWorker[i + 1]
    <3>1. toWorker \in Seq(Requests)
      BY DEF TypeOK
    <3> QED
      BY <2>1, <3>1
  <2>5. AsksWait'
    <3> SUFFICES ASSUME NEW i \in DOMAIN toWorker', toWorker'[i].type = "ask"
                 PROVE  /\ toWorker'[i].id \in pending' /\ found'[toWorker'[i].id] = << >>
                        /\ toWorker'[i].route = asked'[toWorker'[i].id].route
                        /\ \A j \in DOMAIN toWorker' \ {i} :
                              toWorker'[j].type = "ask" => toWorker'[j].id # toWorker'[i].id
                        /\ \A j \in DOMAIN toPage' : About(toPage'[j]) => toPage'[j].id # toWorker'[i].id
      BY DEF AsksWait, About
    <3>1. /\ i + 1 \in DOMAIN toWorker /\ toWorker'[i] = toWorker[i + 1]
          /\ \A j \in DOMAIN toWorker' \ {i} : j + 1 \in DOMAIN toWorker \ {i + 1} /\ toWorker'[j] = toWorker[j + 1]
      BY <2>4
    <3> QED
      BY <2>1, <2>2, <3>1 DEF Inv, Ports, AsksWait
  <2> QED
    BY <2>2, <2>3, <2>5 DEF Inv, Ports, FoundInOrder
<1>10. CASE Reply \/ CheckThrows
  BY <1>10, AnswerPorts
<1> QED
  BY <1>1, <1>2, <1>3, <1>4, <1>5, <1>6, <1>7, <1>8, <1>9, <1>10 DEF Next, Page, Worker

-----------------------------------------------------------------------------
(* The feeds that are named *)

\* A head that opens nothing is taken.
LEMMA FeedsHeard ==
    ASSUME Inv, TypeOK', toPage # << >>, Head(toPage).type # "opened", toPage' = Tail(toPage),
           UNCHANGED <<manifest, slot>>
    PROVE  FeedsFollow'
<1>1. /\ DOMAIN toPage \subseteq Nat /\ DOMAIN toPage' \subseteq Nat /\ 1 \in DOMAIN toPage
      /\ \A i \in DOMAIN toPage : i >= 1
      /\ \A i \in DOMAIN toPage' : i + 1 \in DOMAIN toPage /\ toPage'[i] = toPage[i + 1]
      /\ \A k \in DOMAIN toPage : k # 1 => k - 1 \in DOMAIN toPage'
      /\ Head(toPage) = toPage[1]
  <2>1. toPage \in Seq(Messages) /\ toPage' \in Seq(Messages) /\ TypeOK
    BY DEF Inv, TypeOK
  <2>2. /\ Len(toPage) \in Nat \ {0} /\ Len(toPage') = Len(toPage) - 1
        /\ DOMAIN toPage = 1..Len(toPage) /\ DOMAIN toPage' = 1..Len(toPage')
    BY <2>1
  <2> QED
    BY <2>1, <2>2, HeadTaken
<1> DEFINE D == DOMAIN toPage
           E == DOMAIN toPage'
           Was(i) == Opening(i)
           Is(i) == toPage'[i].type = "opened"
<1>2. /\ D \subseteq Nat /\ E \subseteq Nat /\ 1 \in D /\ \A i \in D : i >= 1
      /\ \A i \in E : i + 1 \in D /\ toPage'[i] = toPage[i + 1] /\ (Is(i) <=> Was(i + 1))
      /\ \A k \in D : k # 1 => k - 1 \in E /\ (Is(k - 1) <=> Was(k))
  <2>1. \A k \in D : k # 1 => k - 1 \in E /\ (k - 1) + 1 = k
    BY <1>1
  <2>2. \A i \in E : Is(i) <=> Was(i + 1)
    BY <1>1 DEF Opening
  <2>3. \A k \in D : k # 1 => (Is(k - 1) <=> Was(k))
    BY <2>1, <2>2
  <2> QED
    BY <1>1, <2>1, <2>2, <2>3
<1>3. /\ \A i, j \in D :
            /\ i < j /\ Was(i) /\ Names(toPage[j])
            /\ \A k \in D : i < k /\ k < j => ~Was(k)
            => toPage[j].feed = toPage[i].feed
      /\ \A j \in D : Names(toPage[j]) /\ (\A k \in D : k < j => ~Was(k)) => manifest \in {None, toPage[j].feed}
      /\ \A i \in D : Was(i) /\ (\A k \in D : i < k => ~Was(k)) => slot = toPage[i].feed
      /\ (\A i \in D : ~Was(i)) => manifest \in {None, slot}
  BY DEF Inv, FeedsFollow
<1>a. ASSUME NEW i \in D, NEW j \in D, i < j, Was(i), Names(toPage[j]), \A k \in D : i < k /\ k < j => ~Was(k)
      PROVE  toPage[j].feed = toPage[i].feed
  BY <1>3, <1>a
<1>b. ASSUME NEW j \in D, Names(toPage[j]), \A k \in D : k < j => ~Was(k)
      PROVE  manifest \in {None, toPage[j].feed}
  BY <1>3, <1>b
<1>c. ASSUME NEW i \in D, Was(i), \A k \in D : i < k => ~Was(k)
      PROVE  slot = toPage[i].feed
  BY <1>3, <1>c
<1> SUFFICES
        /\ \A i, j \in E :
            /\ i < j /\ Is(i) /\ Names(toPage'[j])
            /\ \A k \in E : i < k /\ k < j => ~Is(k)
            => toPage'[j].feed = toPage'[i].feed
        /\ \A j \in E : Names(toPage'[j]) /\ (\A k \in E : k < j => ~Is(k)) => manifest' \in {None, toPage'[j].feed}
        /\ \A i \in E : Is(i) /\ (\A k \in E : i < k => ~Is(k)) => slot' = toPage'[i].feed
        /\ (\A i \in E : ~Is(i)) => manifest' \in {None, slot'}
  BY DEF FeedsFollow, Opening, Names
<1>4. ~Was(1)
  BY <1>1 DEF Opening
<1> HIDE DEF D, E, Was, Is
<1>5. ASSUME NEW i \in E, NEW j \in E, i < j, Is(i), Names(toPage'[j]),
             \A k \in E : i < k /\ k < j => ~Is(k)
      PROVE  toPage'[j].feed = toPage'[i].feed
  <2>1. i + 1 \in D /\ j + 1 \in D /\ i + 1 < j + 1 /\ i \in Nat /\ j \in Nat
    BY <1>2, <1>5
  <2>2. ASSUME NEW k \in D, i + 1 < k, k < j + 1 PROVE ~Was(k)
    <3>1. k \in Nat /\ k # 1 /\ i < k - 1 /\ k - 1 < j
      BY <1>2, <2>1, <2>2
    <3> QED
      BY <1>2, <1>5, <3>1
  <2>3. /\ Was(i + 1) /\ Names(toPage[j + 1])
        /\ toPage'[i] = toPage[i + 1] /\ toPage'[j] = toPage[j + 1]
    BY <1>2, <1>5
  <2>4. toPage[j + 1].feed = toPage[i + 1].feed
    BY <1>a, <2>1, <2>2, <2>3
  <2> QED
    BY <2>3, <2>4
<1>6. ASSUME NEW j \in E, Names(toPage'[j]), \A k \in E : k < j => ~Is(k)
      PROVE  manifest' \in {None, toPage'[j].feed}
  <2>1. ASSUME NEW k \in D, k < j + 1 PROVE ~Was(k)
    <3>1. CASE k # 1
      <4>1. k - 1 \in E /\ k - 1 < j
        BY <1>2, <2>1, <3>1
      <4> QED
        BY <1>2, <1>6, <3>1, <4>1
    <3> QED
      BY <1>4, <3>1
  <2>2. j + 1 \in D /\ toPage'[j] = toPage[j + 1]
    BY <1>2
  <2>3. manifest \in {None, toPage[j + 1].feed}
    BY <1>b, <1>6, <2>1, <2>2
  <2> QED
    BY <2>2, <2>3
<1>7. ASSUME NEW i \in E, Is(i), \A k \in E : i < k => ~Is(k)
      PROVE  slot' = toPage'[i].feed
  <2>1. ASSUME NEW k \in D, i + 1 < k PROVE ~Was(k)
    <3>1. i \in Nat /\ k \in Nat /\ k # 1 /\ k - 1 \in E /\ i < k - 1
      <4>1. i \in Nat /\ k \in Nat
        BY <1>2
      <4>2. k # 1 /\ i < k - 1
        BY <2>1, <4>1
      <4> QED
        BY <1>2, <4>1, <4>2
    <3> QED
      BY <1>2, <1>7, <3>1
  <2>2. i + 1 \in D /\ toPage'[i] = toPage[i + 1] /\ Was(i + 1)
    BY <1>2, <1>7
  <2>3. slot = toPage[i + 1].feed
    BY <1>c, <2>1, <2>2
  <2> QED
    BY <2>2, <2>3
<1>8. ASSUME \A i \in E : ~Is(i)
      PROVE  manifest' \in {None, slot'}
  BY <1>2, <1>3, <1>4, <1>8
<1> QED
  BY <1>5, <1>6, <1>7, <1>8

\* The page hears that a feed is open: what comes before the next opening names it.
LEMMA FeedsOpened ==
    ASSUME Inv, TypeOK', toPage # << >>, Head(toPage).type = "opened", toPage' = Tail(toPage),
           manifest' = Head(toPage).feed, slot' = slot
    PROVE  FeedsFollow'
<1>1. /\ DOMAIN toPage \subseteq Nat /\ DOMAIN toPage' \subseteq Nat /\ 1 \in DOMAIN toPage
      /\ \A i \in DOMAIN toPage : i >= 1
      /\ \A i \in DOMAIN toPage' : i \in Nat /\ i >= 1
      /\ \A i \in DOMAIN toPage' : i + 1 \in DOMAIN toPage /\ toPage'[i] = toPage[i + 1]
      /\ \A k \in DOMAIN toPage : k # 1 => k - 1 \in DOMAIN toPage'
      /\ Head(toPage) = toPage[1]
  <2>1. toPage \in Seq(Messages) /\ toPage' \in Seq(Messages) /\ TypeOK
    BY DEF Inv, TypeOK
  <2>2. /\ Len(toPage) \in Nat \ {0} /\ Len(toPage') = Len(toPage) - 1
        /\ DOMAIN toPage = 1..Len(toPage) /\ DOMAIN toPage' = 1..Len(toPage')
    BY <2>1
  <2> QED
    BY <2>1, <2>2, HeadTaken
<1> DEFINE D == DOMAIN toPage
           E == DOMAIN toPage'
           Was(i) == Opening(i)
           Is(i) == toPage'[i].type = "opened"
<1>2. /\ D \subseteq Nat /\ E \subseteq Nat /\ 1 \in D /\ \A i \in D : i >= 1
      /\ \A i \in E : i + 1 \in D /\ toPage'[i] = toPage[i + 1] /\ (Is(i) <=> Was(i + 1))
      /\ \A k \in D : k # 1 => k - 1 \in E /\ (Is(k - 1) <=> Was(k))
  <2>1. \A k \in D : k # 1 => k - 1 \in E /\ (k - 1) + 1 = k
    BY <1>1
  <2>2. \A i \in E : Is(i) <=> Was(i + 1)
    BY <1>1 DEF Opening
  <2>3. \A k \in D : k # 1 => (Is(k - 1) <=> Was(k))
    BY <2>1, <2>2
  <2> QED
    BY <1>1, <2>1, <2>2, <2>3
<1>3. /\ \A i, j \in D :
            /\ i < j /\ Was(i) /\ Names(toPage[j])
            /\ \A k \in D : i < k /\ k < j => ~Was(k)
            => toPage[j].feed = toPage[i].feed
      /\ \A j \in D : Names(toPage[j]) /\ (\A k \in D : k < j => ~Was(k)) => manifest \in {None, toPage[j].feed}
      /\ \A i \in D : Was(i) /\ (\A k \in D : i < k => ~Was(k)) => slot = toPage[i].feed
      /\ (\A i \in D : ~Was(i)) => manifest \in {None, slot}
  BY DEF Inv, FeedsFollow
<1>a. ASSUME NEW i \in D, NEW j \in D, i < j, Was(i), Names(toPage[j]), \A k \in D : i < k /\ k < j => ~Was(k)
      PROVE  toPage[j].feed = toPage[i].feed
  BY <1>3, <1>a
<1>b. ASSUME NEW j \in D, Names(toPage[j]), \A k \in D : k < j => ~Was(k)
      PROVE  manifest \in {None, toPage[j].feed}
  BY <1>3, <1>b
<1>c. ASSUME NEW i \in D, Was(i), \A k \in D : i < k => ~Was(k)
      PROVE  slot = toPage[i].feed
  BY <1>3, <1>c
<1> SUFFICES
        /\ \A i, j \in E :
            /\ i < j /\ Is(i) /\ Names(toPage'[j])
            /\ \A k \in E : i < k /\ k < j => ~Is(k)
            => toPage'[j].feed = toPage'[i].feed
        /\ \A j \in E : Names(toPage'[j]) /\ (\A k \in E : k < j => ~Is(k)) => manifest' \in {None, toPage'[j].feed}
        /\ \A i \in E : Is(i) /\ (\A k \in E : i < k => ~Is(k)) => slot' = toPage'[i].feed
        /\ (\A i \in E : ~Is(i)) => manifest' \in {None, slot'}
  BY DEF FeedsFollow, Opening, Names
<1>4. Was(1) /\ manifest' = toPage[1].feed
  BY <1>1 DEF Opening
<1> HIDE DEF D, E, Was, Is
<1>5. ASSUME NEW i \in E, NEW j \in E, i < j, Is(i), Names(toPage'[j]),
             \A k \in E : i < k /\ k < j => ~Is(k)
      PROVE  toPage'[j].feed = toPage'[i].feed
  <2>1. i + 1 \in D /\ j + 1 \in D /\ i + 1 < j + 1 /\ i \in Nat /\ j \in Nat
    BY <1>2, <1>5
  <2>2. ASSUME NEW k \in D, i + 1 < k, k < j + 1 PROVE ~Was(k)
    <3>1. k \in Nat /\ k # 1 /\ i < k - 1 /\ k - 1 < j
      BY <1>2, <2>1, <2>2
    <3> QED
      BY <1>2, <1>5, <3>1
  <2>3. /\ Was(i + 1) /\ Names(toPage[j + 1])
        /\ toPage'[i] = toPage[i + 1] /\ toPage'[j] = toPage[j + 1]
    BY <1>2, <1>5
  <2>4. toPage[j + 1].feed = toPage[i + 1].feed
    BY <1>a, <2>1, <2>2, <2>3
  <2> QED
    BY <2>3, <2>4
<1>6. ASSUME NEW j \in E, Names(toPage'[j]), \A k \in E : k < j => ~Is(k)
      PROVE  manifest' \in {None, toPage'[j].feed}
  <2>1. ASSUME NEW k \in D, 1 < k, k < j + 1 PROVE ~Was(k)
    <3>1. k # 1 /\ k - 1 \in E /\ k - 1 < j
      BY <1>2, <2>1
    <3> QED
      BY <1>2, <1>6, <3>1
  <2>2. 1 < j + 1 /\ j + 1 \in D /\ 1 \in D
    <3>1. j \in Nat /\ j >= 1
      BY <1>1 DEF E
    <3> QED
      BY <1>2, <3>1
  <2>3. toPage'[j] = toPage[j + 1]
    BY <1>2
  <2>4. Names(toPage[j + 1]) /\ \A k \in D : 1 < k /\ k < j + 1 => ~Was(k)
    BY <1>6, <2>1, <2>3
  <2>5. toPage[j + 1].feed = toPage[1].feed
    BY <1>a, <1>4, <2>2, <2>4
  <2> QED
    BY <1>4, <2>3, <2>5
<1>7. ASSUME NEW i \in E, Is(i), \A k \in E : i < k => ~Is(k)
      PROVE  slot' = toPage'[i].feed
  <2>1. ASSUME NEW k \in D, i + 1 < k PROVE ~Was(k)
    <3>1. i \in Nat /\ k \in Nat /\ k # 1 /\ k - 1 \in E /\ i < k - 1
      <4>1. i \in Nat /\ k \in Nat
        BY <1>2
      <4>2. k # 1 /\ i < k - 1
        BY <2>1, <4>1
      <4> QED
        BY <1>2, <4>1, <4>2
    <3> QED
      BY <1>2, <1>7, <3>1
  <2>2. i + 1 \in D /\ toPage'[i] = toPage[i + 1] /\ Was(i + 1)
    BY <1>2, <1>7
  <2>3. slot = toPage[i + 1].feed
    BY <1>c, <2>1, <2>2
  <2> QED
    BY <2>2, <2>3
<1>8. ASSUME \A i \in E : ~Is(i)
      PROVE  manifest' \in {None, slot'}
  <2>1. \A k \in D : 1 < k => ~Was(k)
    BY <1>2, <1>8
  <2>2. slot = toPage[1].feed
    BY <1>2, <1>3, <1>4, <2>1
  <2> QED
    BY <1>4, <2>2
<1> QED
  BY <1>5, <1>6, <1>7, <1>8

\* What the worker tells names its feed, unless it says that another is open.
LEMMA FeedsTold ==
    ASSUME Inv, TypeOK', manifest' = manifest, Len(toPage) <= Len(toPage'),
           \A i \in DOMAIN toPage : toPage'[i] = toPage[i],
           \/ /\ slot' = slot
              /\ \A i \in DOMAIN toPage' \ DOMAIN toPage :
                    toPage'[i].type # "opened" /\ (Names(toPage'[i]) => toPage'[i].feed = slot)
           \/ /\ Len(toPage') = Len(toPage) + 1
              /\ toPage'[Len(toPage')] = [type |-> "opened", feed |-> slot']
    PROVE  FeedsFollow'
<1> DEFINE D == DOMAIN toPage
           E == DOMAIN toPage'
           L == Len(toPage)
           Was(i) == Opening(i)
           Is(i) == toPage'[i].type = "opened"
<1>1. /\ L \in Nat /\ Len(toPage') \in Nat /\ D = 1..L /\ E = 1..Len(toPage') /\ L <= Len(toPage')
  <2>1. toPage \in Seq(Messages) /\ toPage' \in Seq(Messages)
    BY DEF Inv, TypeOK
  <2> QED
    BY <2>1
<1>2. /\ D \subseteq Nat /\ E \subseteq Nat /\ D \subseteq E
      /\ \A i \in D : toPage'[i] = toPage[i] /\ (Is(i) <=> Was(i))
      /\ \A i \in D, j \in E \ D : i < j
  <2>1. \A i \in D : toPage'[i] = toPage[i] /\ (Is(i) <=> Was(i))
    BY DEF Opening
  <2> HIDE DEF D, E, L, Is, Was
  <2>2. D \subseteq Nat /\ E \subseteq Nat /\ D \subseteq E
    BY <1>1
  <2>3. ASSUME NEW i \in D, NEW j \in E \ D PROVE i < j
    BY <1>1
  <2> QED
    BY <2>1, <2>2, <2>3
<1>3. /\ \A i, j \in D :
            /\ i < j /\ Was(i) /\ Names(toPage[j])
            /\ \A k \in D : i < k /\ k < j => ~Was(k)
            => toPage[j].feed = toPage[i].feed
      /\ \A j \in D : Names(toPage[j]) /\ (\A k \in D : k < j => ~Was(k)) => manifest \in {None, toPage[j].feed}
      /\ \A i \in D : Was(i) /\ (\A k \in D : i < k => ~Was(k)) => slot = toPage[i].feed
      /\ (\A i \in D : ~Was(i)) => manifest \in {None, slot}
  BY DEF Inv, FeedsFollow
<1>a. ASSUME NEW i \in D, NEW j \in D, i < j, Was(i), Names(toPage[j]), \A k \in D : i < k /\ k < j => ~Was(k)
      PROVE  toPage[j].feed = toPage[i].feed
  BY <1>3, <1>a
<1>b. ASSUME NEW j \in D, Names(toPage[j]), \A k \in D : k < j => ~Was(k)
      PROVE  manifest \in {None, toPage[j].feed}
  BY <1>3, <1>b
<1>c. ASSUME NEW i \in D, Was(i), \A k \in D : i < k => ~Was(k)
      PROVE  slot = toPage[i].feed
  BY <1>3, <1>c
<1>4. \/ slot' = slot /\ \A i \in E \ D : ~Is(i) /\ (Names(toPage'[i]) => toPage'[i].feed = slot)
      \/ \E l \in E \ D : E = D \cup {l} /\ Is(l) /\ ~Names(toPage'[l]) /\ slot' = toPage'[l].feed
  <2>1. CASE Len(toPage') = L + 1 /\ toPage'[L + 1] = [type |-> "opened", feed |-> slot']
    <3>1. L + 1 \in E \ D /\ E = D \cup {L + 1}
      BY <1>1, <2>1
    <3> QED
      BY <2>1, <3>1 DEF Names
  <2> QED
    BY <2>1
<1> SUFFICES
        /\ \A i, j \in E :
            /\ i < j /\ Is(i) /\ Names(toPage'[j])
            /\ \A k \in E : i < k /\ k < j => ~Is(k)
            => toPage'[j].feed = toPage'[i].feed
        /\ \A j \in E : Names(toPage'[j]) /\ (\A k \in E : k < j => ~Is(k)) => manifest' \in {None, toPage'[j].feed}
        /\ \A i \in E : Is(i) /\ (\A k \in E : i < k => ~Is(k)) => slot' = toPage'[i].feed
        /\ (\A i \in E : ~Is(i)) => manifest' \in {None, slot'}
  BY DEF FeedsFollow, Opening, Names
<1> HIDE DEF D, E, L, Was, Is
<1>5. CASE slot' = slot /\ \A i \in E \ D : ~Is(i) /\ (Names(toPage'[i]) => toPage'[i].feed = slot)
  <2>1. ASSUME NEW i \in E, NEW j \in E, i < j, Is(i), Names(toPage'[j]),
               \A k \in E : i < k /\ k < j => ~Is(k)
        PROVE  toPage'[j].feed = toPage'[i].feed
    <3>1. i \in D /\ Was(i)
      BY <1>2, <1>5, <2>1
    <3>2. CASE j \in D
      <4>1. /\ Names(toPage[j]) /\ toPage'[i] = toPage[i] /\ toPage'[j] = toPage[j]
            /\ \A k \in D : i < k /\ k < j => ~Was(k)
        BY <1>2, <2>1, <3>1, <3>2
      <4>2. toPage[j].feed = toPage[i].feed
        BY <1>a, <2>1, <3>1, <3>2, <4>1
      <4> QED
        BY <4>1, <4>2
    <3>3. CASE j \notin D
      <4>1. \A k \in D : i < k => ~Was(k)
        BY <1>2, <2>1, <3>3
      <4> QED
        BY <1>2, <1>3, <1>5, <2>1, <3>1, <3>3, <4>1
    <3> QED
      BY <3>2, <3>3
  <2>2. ASSUME NEW j \in E, Names(toPage'[j]), \A k \in E : k < j => ~Is(k)
        PROVE  manifest' \in {None, toPage'[j].feed}
    <3>1. CASE j \in D
      BY <1>2, <1>3, <2>2, <3>1
    <3>2. CASE j \notin D
      <4>1. \A k \in D : ~Was(k)
        BY <1>2, <2>2, <3>2
      <4> QED
        BY <1>3, <1>5, <2>2, <3>2, <4>1
    <3> QED
      BY <3>1, <3>2
  <2>3. ASSUME NEW i \in E, Is(i), \A k \in E : i < k => ~Is(k)
        PROVE  slot' = toPage'[i].feed
    BY <1>2, <1>3, <1>5, <2>3
  <2>4. ASSUME \A i \in E : ~Is(i)
        PROVE  manifest' \in {None, slot'}
    BY <1>2, <1>3, <1>5, <2>4
  <2> QED
    BY <2>1, <2>2, <2>3, <2>4
<1>6. ASSUME NEW l \in E \ D, E = D \cup {l}, Is(l), ~Names(toPage'[l]), slot' = toPage'[l].feed
      PROVE  /\ \A i, j \in E :
                /\ i < j /\ Is(i) /\ Names(toPage'[j])
                /\ \A k \in E : i < k /\ k < j => ~Is(k)
                => toPage'[j].feed = toPage'[i].feed
             /\ \A j \in E : Names(toPage'[j]) /\ (\A k \in E : k < j => ~Is(k)) => manifest' \in {None, toPage'[j].feed}
             /\ \A i \in E : Is(i) /\ (\A k \in E : i < k => ~Is(k)) => slot' = toPage'[i].feed
             /\ (\A i \in E : ~Is(i)) => manifest' \in {None, slot'}
  <2>1. ASSUME NEW i \in E, NEW j \in E, i < j, Is(i), Names(toPage'[j]),
               \A k \in E : i < k /\ k < j => ~Is(k)
        PROVE  toPage'[j].feed = toPage'[i].feed
    <3>1. j \in D /\ i \in D
      <4>1. j \in D
        BY <1>6, <2>1
      <4>2. i # l
        BY <1>2, <2>1, <4>1
      <4> QED
        BY <1>6, <4>1, <4>2
    <3>2. /\ Was(i) /\ Names(toPage[j]) /\ toPage'[i] = toPage[i] /\ toPage'[j] = toPage[j]
          /\ \A k \in D : i < k /\ k < j => ~Was(k)
      BY <1>2, <2>1, <3>1
    <3>3. toPage[j].feed = toPage[i].feed
      BY <1>a, <2>1, <3>1, <3>2
    <3> QED
      BY <3>2, <3>3
  <2>2. ASSUME NEW j \in E, Names(toPage'[j]), \A k \in E : k < j => ~Is(k)
        PROVE  manifest' \in {None, toPage'[j].feed}
    <3>1. j \in D
      BY <1>6, <2>2
    <3> QED
      BY <1>2, <1>3, <2>2, <3>1
  <2>3. ASSUME NEW i \in E, Is(i), \A k \in E : i < k => ~Is(k)
        PROVE  slot' = toPage'[i].feed
    <3>1. i = l
      BY <1>2, <1>6, <2>3
    <3> QED
      BY <1>6, <3>1
  <2>4. l \in E
    BY <1>6
  <2> QED
    BY <1>6, <2>1, <2>2, <2>3, <2>4
<1> QED
  BY <1>4, <1>5, <1>6

\* What is told alone comes last on the page's port.
LEMMA Appended ==
    ASSUME TypeOK, NEW m \in Messages, toPage' = Append(toPage, m)
    PROVE  /\ toPage' \in Seq(Messages) /\ Len(toPage) \in Nat /\ Len(toPage') = Len(toPage) + 1
           /\ DOMAIN toPage = 1..Len(toPage) /\ DOMAIN toPage' = 1..Len(toPage')
           /\ \A i \in DOMAIN toPage : toPage'[i] = toPage[i]
           /\ toPage'[Len(toPage')] = m
           /\ DOMAIN toPage' = DOMAIN toPage \cup {Len(toPage')}
<1>1. toPage \in Seq(Messages) /\ Len(toPage) \in Nat /\ DOMAIN toPage = 1..Len(toPage)
  BY DEF TypeOK
<1>2. /\ Len(Append(toPage, m)) = Len(toPage) + 1 /\ Append(toPage, m) \in Seq(Messages)
      /\ \A j \in 1..Len(toPage) : Append(toPage, m)[j] = toPage[j]
      /\ Append(toPage, m)[Len(toPage) + 1] = m
      /\ DOMAIN Append(toPage, m) = 1..Len(toPage) + 1
  BY <1>1
<1>3. 1..Len(toPage) + 1 = (1..Len(toPage)) \cup {Len(toPage) + 1}
  BY <1>1
<1> QED
  BY <1>1, <1>2, <1>3

\* The worker says that a feed is open, or could not be, or that it stops.
LEMMA SaysOne ==
    ASSUME Inv, Loaded \/ LoadFails \/ Stops
    PROVE  /\ UNCHANGED <<page, client, toWorker, reader>> /\ faults' \in Nat /\ faults <= faults'
           /\ \E m \in Messages :
                /\ toPage' = Append(toPage, m)
                /\ \/ m = [type |-> "failure"] /\ slot' = slot
                   \/ slot' \in Feeds /\ m = [type |-> "opened", feed |-> slot']
<1>0. faults \in Nat /\ loads \subseteq Feeds
  BY BoundsAssumption DEF Inv, TypeOK
<1>1. [type |-> "failure"] \in Messages /\ \A feed \in Feeds : [type |-> "opened", feed |-> feed] \in Messages
  BY DEF Messages
<1>2. CASE Loaded
  BY <1>0, <1>1, <1>2 DEF Loaded
<1>3. CASE LoadFails
  BY <1>0, <1>1, <1>3 DEF LoadFails
<1>4. CASE Stops
  BY <1>0, <1>1, <1>4 DEF Stops, Fault
<1> QED
  BY <1>2, <1>3, <1>4

\* What the worker tells of a question, piece by piece.
LEMMA ToldPieces ==
    ASSUME TypeOK, slot \in Feeds, NEW id \in Nat, NEW n \in Nat, NEW end \in {Refusal(id), Answer(id)}, Tells(id, n, end)
    PROVE  /\ Len(toPage) \in Nat /\ Len(toPage) <= Len(toPage') /\ DOMAIN toPage' = 1..Len(toPage')
           /\ DOMAIN toPage = 1..Len(toPage) /\ \A i \in DOMAIN toPage : toPage'[i] = toPage[i]
           /\ \A i \in DOMAIN toPage' \ DOMAIN toPage :
                /\ About(toPage'[i]) /\ toPage'[i].id = id
                /\ Names(toPage'[i]) => toPage'[i].feed = slot
                /\ toPage'[i].type = "failed" => end = Refusal(id)
           /\ \E i \in DOMAIN toPage' : toPage'[i].type \in {"done", "failed"} /\ toPage'[i].id = id
<1> DEFINE L == Len(toPage)
<1>1. /\ toPage \in Seq(Messages) /\ toPage' \in Seq(Messages) /\ L \in Nat /\ DOMAIN toPage = 1..L
      /\ DOMAIN toPage' = 1..Len(toPage') /\ Len(toPage') = L + n + Len(end)
      /\ \A i \in 1..L : toPage'[i] = toPage[i]
      /\ \A k \in 1..n : toPage'[L + k] = [type |-> "finding", id |-> id, feed |-> slot, finding |-> k]
      /\ \A k \in 1..Len(end) : toPage'[L + n + k] = end[k]
  <2>1. toPage \in Seq(Messages)
    BY DEF TypeOK
  <2>2. /\ toPage' \in Seq(Messages) /\ Len(toPage') = L + n + Len(end)
        /\ \A i \in 1..L : toPage'[i] = toPage[i]
        /\ \A k \in 1..n : toPage'[L + k] = [type |-> "finding", id |-> id, feed |-> slot, finding |-> k]
        /\ \A k \in 1..Len(end) : toPage'[L + n + k] = end[k]
    BY DEF Tells
  <2>3. L \in Nat /\ DOMAIN toPage = 1..L
    BY <2>1
  <2>4. DOMAIN toPage' = 1..Len(toPage')
    BY <2>2
  <2> QED
    BY <2>1, <2>2, <2>3, <2>4
<1>2. /\ end = Answer(id) => Len(end) = 2 /\ end[1] = [type |-> "result", id |-> id, feed |-> slot]
                             /\ end[2] = [type |-> "done", id |-> id]
      /\ end = Refusal(id) => Len(end) = 1 /\ end[1] = [type |-> "failed", id |-> id, feed |-> slot]
      /\ end = Answer(id) \/ end = Refusal(id)
  BY AnswerParts
<1> HIDE DEF L
<1>3. Len(end) \in {1, 2} /\ L <= Len(toPage')
  BY <1>1, <1>2
<1>8. /\ Len(end) = 1 => 1..Len(end) = {1}
      /\ Len(end) = 2 => 1..Len(end) = {1, 2}
      /\ Len(end) \in 1..Len(end)
  <2>1. 1..1 = {1} /\ 1..2 = {1, 2}
    OBVIOUS
  <2> QED
    BY <1>3, <2>1
<1>4. ASSUME NEW k \in 1..Len(end)
      PROVE  /\ end[k].type \in {"result", "done", "failed"} /\ end[k].id = id
             /\ end[k].type # "done" => end[k].feed = slot
             /\ end[k].type = "failed" => end = Refusal(id)
  <2>1. CASE end = Answer(id)
    <3>1. k \in {1, 2}
      BY <1>2, <1>8, <2>1
    <3> QED
      BY <1>2, <2>1, <3>1
  <2>2. CASE end = Refusal(id)
    <3>1. k \in {1}
      BY <1>2, <1>8, <2>2
    <3> QED
      BY <1>2, <2>2, <3>1
  <2> QED
    BY <1>2, <2>1, <2>2
<1>5. ASSUME NEW i \in DOMAIN toPage' \ DOMAIN toPage
      PROVE  /\ About(toPage'[i]) /\ toPage'[i].id = id
             /\ Names(toPage'[i]) => toPage'[i].feed = slot
             /\ toPage'[i].type = "failed" => end = Refusal(id)
  <2>1. i \in Nat /\ i > L /\ i <= L + n + Len(end)
    BY <1>1, <1>3
  <2>2. CASE i <= L + n
    <3>1. i - L \in 1..n /\ L + (i - L) = i
      BY <1>1, <2>1, <2>2
    <3>2. toPage'[i] = [type |-> "finding", id |-> id, feed |-> slot, finding |-> i - L]
      BY <1>1, <3>1
    <3> QED
      BY <3>2 DEF About, Names
  <2>3. CASE i > L + n
    <3>1. i - (L + n) \in 1..Len(end) /\ L + n + (i - (L + n)) = i
      BY <1>1, <1>3, <2>1, <2>3
    <3>2. toPage'[i] = end[i - (L + n)]
      BY <1>1, <3>1
    <3> QED
      BY <1>4, <3>1, <3>2 DEF About, Names
  <2> QED
    BY <1>1, <2>1, <2>2, <2>3
<1>6. Len(toPage') \in DOMAIN toPage' /\ toPage'[Len(toPage')] = end[Len(end)]
  <2>1. Len(toPage') \in Nat /\ Len(toPage') >= 1
    BY <1>1, <1>3
  <2>2. Len(end) \in 1..Len(end) /\ Len(toPage') \in 1..Len(toPage')
    BY <1>8, <2>1
  <2> QED
    BY <1>1, <2>2
<1>7. end[Len(end)].type \in {"done", "failed"} /\ end[Len(end)].id = id
  BY <1>2
<1> QED
  BY <1>1, <1>3, <1>5, <1>6, <1>7 DEF L

-----------------------------------------------------------------------------
(* What each step leaves alone *)

Hear == HearFinding \/ HearResult \/ HearDone \/ HearRefusal \/ HearFailure

\* The page hears of a question or a failure: it takes a message, and asks nothing.
LEMMA HearKeeps ==
    ASSUME Inv, Hear
    PROVE  /\ toPage # << >> /\ toPage' = Tail(toPage) /\ Head(toPage).type # "opened"
           /\ UNCHANGED <<hash, changes, manifest, rendering, asked, toWorker, slot, alive, faults>>
<1>1. CASE HearFinding
  BY <1>1 DEF HearFinding, Hears, worker
<1>2. CASE HearResult
  BY <1>2 DEF HearResult, Hears, worker, page
<1>3. CASE HearDone
  BY <1>3 DEF HearDone, Hears, worker
<1>4. CASE HearRefusal
  BY <1>4 DEF HearRefusal, Hears, worker
<1>5. CASE HearFailure
  BY <1>5 DEF HearFailure, Hears, worker, client
<1> QED
  BY <1>1, <1>2, <1>3, <1>4, <1>5 DEF Hear

\* The reader says nothing of what was asked or told.
LEMMA ReaderKeeps ==
    ASSUME Reader
    PROVE  /\ UNCHANGED <<toPage, slot, alive, asked, pending, found, results, rendering, faults>>
           /\ manifest' \in {None, manifest}
<1>1. CASE OpenFeed
  BY <1>1 DEF OpenFeed, client, worker
<1>2. CASE CloseFeed
  BY <1>2 DEF CloseFeed, client, worker
<1>3. CASE Navigate
  BY <1>3 DEF Navigate, client, worker
<1> QED
  BY <1>1, <1>2, <1>3 DEF Reader

\* A rendering is of the feed the page holds, which is kept or was told of.
LEMMA RenderKeeps ==
    ASSUME Inv, (HashChange /\ manifest # None) \/ Opened
    PROVE  /\ manifest' \in Feeds /\ Render(manifest') /\ hash' = hash
           /\ UNCHANGED <<slot, alive, faults>> /\ slot \in Feeds
           /\ \/ HashChange /\ manifest' = manifest /\ toPage' = toPage
              \/ /\ Opened /\ manifest' = Head(toPage).feed
                 /\ toPage # << >> /\ toPage' = Tail(toPage) /\ Head(toPage).type = "opened"
<1>1. CASE HashChange /\ manifest # None
  <2>1. /\ manifest' = manifest /\ toPage' = toPage /\ hash' = hash /\ UNCHANGED <<slot, alive, faults>>
        /\ Render(manifest)
    BY <1>1 DEF HashChange, worker
  <2>2. manifest \in Feeds /\ slot \in Feeds
    BY <1>1 DEF Inv, TypeOK, SomeFeed
  <2> QED
    BY <1>1, <2>1, <2>2
<1>2. CASE Opened
  <2>1. Hears("opened") /\ manifest' = Head(toPage).feed /\ Render(Head(toPage).feed) /\ hash' = hash
    BY <1>2 DEF Opened
  <2>2. /\ toPage # << >> /\ toPage' = Tail(toPage) /\ Head(toPage).type = "opened" /\ Head(toPage).feed \in Feeds
        /\ UNCHANGED <<slot, alive, faults>>
    BY <2>1, Heard, MessageFields DEF worker
  <2>3. 1 \in DOMAIN toPage /\ toPage[1] = Head(toPage)
    BY <2>2 DEF Inv, TypeOK
  <2>4. slot \in Feeds
    BY <2>2, <2>3 DEF Inv, SomeFeed
  <2> QED
    BY <1>2, <2>1, <2>2, <2>4
<1> QED
  BY <1>1, <1>2

\* An address that changes while no feed is held is let go.
LEMMA NothingToRender ==
    ASSUME HashChange, manifest = None
    PROVE  UNCHANGED <<hash, manifest, rendering, view, client, toWorker, toPage, worker, faults>>
<1> QED
  BY DEF HashChange

\* What a feed is asked for leaves the page and what it was told alone.
LEMMA LoadKeeps ==
    ASSUME Load
    PROVE  /\ UNCHANGED <<page, client, toPage, slot, alive, faults>>
           /\ toWorker # << >> /\ Head(toWorker).type = "open" /\ toWorker' = Tail(toWorker)
<1> QED
  BY DEF Load, Takes

\* Every step is one of these.
LEMMA Steps ==
    ASSUME Next
    PROVE  \/ Reader \/ (HashChange /\ manifest = None) \/ (HashChange /\ manifest # None) \/ Opened \/ Hear
           \/ Load \/ Loaded \/ LoadFails \/ Stops \/ Reply \/ CheckThrows
<1> QED
  BY DEF Next, Page, Worker, Hear

\* Every step keeps the feeds that are named in step with those that are opened.
LEMMA FeedsStep ==
    ASSUME Inv, TypeOK', Next
    PROVE  FeedsFollow'
<1>0. TypeOK /\ toPage \in Seq(Messages)
  BY DEF Inv, TypeOK
<1>1. ASSUME toPage' = toPage, slot' = slot, manifest' \in {None, manifest}
      PROVE  FeedsFollow'
  BY <1>1 DEF Inv, FeedsFollow, Opening
<1>2. CASE Reader
  BY <1>1, <1>2, ReaderKeeps
<1>3. CASE HashChange /\ manifest = None
  BY <1>1, <1>3, NothingToRender DEF worker
<1>4. CASE HashChange /\ manifest # None
  <2>1. CASE toPage' = toPage /\ slot' = slot /\ manifest' = manifest
    BY <1>1, <2>1
  <2> QED
    BY <1>4, <2>1 DEF HashChange, worker
<1>5. CASE Opened
  <2>1. Hears("opened") /\ manifest' = Head(toPage).feed
    BY <1>5 DEF Opened
  <2> QED
    BY <2>1, FeedsOpened DEF Hears, worker
<1>6. CASE Hear
  BY <1>6, HearKeeps, FeedsHeard
<1>7. CASE Load
  BY <1>1, <1>7, LoadKeeps DEF page
<1>8. CASE Loaded \/ LoadFails \/ Stops
  <2>1. manifest' = manifest
    BY <1>8, SaysOne DEF page
  <2>2. PICK m \in Messages :
            /\ toPage' = Append(toPage, m)
            /\ \/ m = [type |-> "failure"] /\ slot' = slot
               \/ slot' \in Feeds /\ m = [type |-> "opened", feed |-> slot']
    BY <1>8, SaysOne
  <2>3. /\ Len(toPage) \in Nat /\ Len(toPage') = Len(toPage) + 1
        /\ \A i \in DOMAIN toPage : toPage'[i] = toPage[i]
        /\ toPage'[Len(toPage')] = m
        /\ DOMAIN toPage' = DOMAIN toPage \cup {Len(toPage')}
    BY <1>0, <2>2, Appended
  <2>4. Len(toPage) <= Len(toPage')
    BY <2>3
  <2>5. CASE m = [type |-> "failure"] /\ slot' = slot
    <3>1. \A i \in DOMAIN toPage' \ DOMAIN toPage : toPage'[i] = m
      BY <2>3
    <3>2. m.type # "opened" /\ ~Names(m)
      BY <2>5 DEF Names
    <3> QED
      BY <2>1, <2>3, <2>4, <2>5, <3>1, <3>2, FeedsTold
  <2>6. CASE m = [type |-> "opened", feed |-> slot']
    BY <2>1, <2>3, <2>4, <2>6, FeedsTold
  <2> QED
    BY <2>2, <2>5, <2>6
<1>9. CASE Reply \/ CheckThrows
  <2> DEFINE id == Head(toWorker).id
  <2>1. /\ manifest' = manifest /\ slot' = slot
        /\ toWorker # << >> /\ Head(toWorker).type = "ask" /\ toWorker' = Tail(toWorker)
    BY <1>9, Told DEF page
  <2>2. PICK n \in Nat, end \in {Refusal(id), Answer(id)} : Tells(id, n, end)
    BY <1>9, Told
  <2>3. slot \in Feeds /\ id \in Nat
    BY <2>1, Taken
  <2>4. /\ Len(toPage) <= Len(toPage')
        /\ \A i \in DOMAIN toPage : toPage'[i] = toPage[i]
        /\ \A i \in DOMAIN toPage' \ DOMAIN toPage :
                /\ About(toPage'[i])
                /\ Names(toPage'[i]) => toPage'[i].feed = slot
    BY <1>0, <2>2, <2>3, ToldPieces
  <2>5. \A i \in DOMAIN toPage' \ DOMAIN toPage : toPage'[i].type # "opened"
    BY <2>4 DEF About
  <2> QED
    BY <2>1, <2>4, <2>5, FeedsTold
<1> QED
  BY <1>2, <1>3, <1>4, <1>5, <1>6, <1>7, <1>8, <1>9, Steps

\* The worker keeps a feed, once it has one.
LEMMA SomeFeedStep ==
    ASSUME Inv, TypeOK', Next
    PROVE  SomeFeed'
<1>0. TypeOK /\ SomeFeed /\ toPage \in Seq(Messages) /\ loads \subseteq Feeds
  BY DEF Inv, TypeOK
<1>1. ASSUME slot' = slot,
             manifest' # None \/ asked' # << >> \/ (\E i \in DOMAIN toPage' : toPage'[i].type = "opened") =>
             manifest # None \/ asked # << >> \/ (\E i \in DOMAIN toPage : toPage[i].type = "opened")
      PROVE  SomeFeed'
  BY <1>0, <1>1 DEF SomeFeed
<1>2. ASSUME slot' \in Feeds
      PROVE  SomeFeed'
  BY <1>2 DEF SomeFeed
<1>3. CASE Reader
  BY <1>1, <1>3, ReaderKeeps
<1>4. CASE HashChange /\ manifest = None
  BY <1>1, <1>4, NothingToRender DEF worker, client
<1>5. CASE (HashChange /\ manifest # None) \/ Opened
  BY <1>2, <1>5, RenderKeeps
<1>6. CASE Hear
  <2>1. UNCHANGED <<manifest, slot, asked>> /\ toPage # << >> /\ toPage' = Tail(toPage)
    BY <1>6, HearKeeps
  <2>2. \A i \in DOMAIN toPage' : i + 1 \in DOMAIN toPage /\ toPage'[i] = toPage[i + 1]
    BY <1>0, <2>1, HeadTaken
  <2> QED
    BY <1>1, <2>1, <2>2
<1>7. CASE Load
  BY <1>1, <1>7, LoadKeeps DEF page, client
<1>8. CASE Loaded \/ LoadFails \/ Stops
  <2>1. UNCHANGED <<manifest, asked>>
    BY <1>8, SaysOne DEF page, client
  <2>2. PICK m \in Messages :
            /\ toPage' = Append(toPage, m)
            /\ \/ m = [type |-> "failure"] /\ slot' = slot
               \/ slot' \in Feeds /\ m = [type |-> "opened", feed |-> slot']
    BY <1>8, SaysOne
  <2>3. /\ \A i \in DOMAIN toPage : toPage'[i] = toPage[i]
        /\ toPage'[Len(toPage')] = m
        /\ DOMAIN toPage' = DOMAIN toPage \cup {Len(toPage')}
    BY <1>0, <2>2, Appended
  <2>4. CASE m = [type |-> "failure"] /\ slot' = slot
    <3>1. m.type # "opened"
      BY <2>4
    <3> QED
      BY <1>1, <2>1, <2>3, <2>4, <3>1
  <2> QED
    BY <1>2, <2>2, <2>4
<1>9. CASE Reply \/ CheckThrows
  <2>1. slot' = slot /\ toWorker # << >> /\ Head(toWorker).type = "ask" /\ toWorker' = Tail(toWorker)
    BY <1>9, Told
  <2> QED
    BY <1>2, <2>1, Taken
<1> QED
  BY <1>3, <1>4, <1>5, <1>6, <1>7, <1>8, <1>9, Steps

\* A run of checks that is refused is refused by a check that threw.
LEMMA ChecksFailStep ==
    ASSUME Inv, TypeOK', Next
    PROVE  ChecksFailByFault'
<1>0. TypeOK /\ toPage \in Seq(Messages) /\ pending \subseteq 1..Len(asked) /\ faults \in Nat
  <2>1. TypeOK
    BY DEF Inv
  <2>2. faults \in 0..MaxFaults /\ toPage \in Seq(Messages) /\ pending \subseteq 1..Len(asked)
    BY <2>1 DEF TypeOK
  <2>3. faults \in Nat
    BY <2>2, BoundsAssumption
  <2> QED
    BY <2>1, <2>2, <2>3
<1>a. ASSUME NEW i \in DOMAIN toPage, toPage[i].type = "failed"
      PROVE  /\ toPage[i].id \in 1..Len(asked)
             /\ asked[toPage[i].id].route = "checks" => faults > 0
  BY <1>0, <1>a DEF Inv, Ports, AnswersWait, About, ChecksFailByFault
<1>1. ASSUME faults' \in Nat, faults <= faults', \A id \in 1..Len(asked) : asked'[id] = asked[id],
             \A i \in DOMAIN toPage' : toPage'[i].type = "failed" => \E j \in DOMAIN toPage : toPage'[i] = toPage[j]
      PROVE  ChecksFailByFault'
  <2> SUFFICES ASSUME NEW i \in DOMAIN toPage', toPage'[i].type = "failed", asked'[toPage'[i].id].route = "checks"
               PROVE  faults' > 0
    BY DEF ChecksFailByFault
  <2>1. PICK j \in DOMAIN toPage : toPage'[i] = toPage[j]
    BY <1>1
  <2>2. faults > 0
    BY <1>1, <1>a, <2>1
  <2> QED
    BY <1>0, <1>1, <2>2
<1>2. ASSUME toPage' = toPage \/ (toPage # << >> /\ toPage' = Tail(toPage))
      PROVE  \A i \in DOMAIN toPage' : \E j \in DOMAIN toPage : toPage'[i] = toPage[j]
  <2>1. CASE toPage' = toPage
    BY <2>1
  <2>2. CASE toPage # << >> /\ toPage' = Tail(toPage)
    BY <1>0, <2>2, HeadTaken
  <2> QED
    BY <1>2, <2>1, <2>2
<1>3. CASE Reader
  BY <1>0, <1>1, <1>2, <1>3, ReaderKeeps
<1>4. CASE HashChange /\ manifest = None
  BY <1>0, <1>1, <1>2, <1>4, NothingToRender DEF client
<1>5. CASE (HashChange /\ manifest # None) \/ Opened
  <2>1. /\ manifest' \in Feeds /\ Render(manifest') /\ faults' = faults
        /\ toPage' = toPage \/ (toPage # << >> /\ toPage' = Tail(toPage))
    BY <1>5, RenderKeeps
  <2>2. \A id \in 1..Len(asked) : asked'[id] = asked[id]
    BY <1>0, <2>1, ClientGrows
  <2> QED
    BY <1>0, <1>1, <1>2, <2>1, <2>2
<1>6. CASE Hear
  BY <1>0, <1>1, <1>2, <1>6, HearKeeps
<1>7. CASE Load
  BY <1>0, <1>1, <1>2, <1>7, LoadKeeps DEF client
<1>8. CASE Loaded \/ LoadFails \/ Stops
  <2>1. asked' = asked /\ faults' \in Nat /\ faults <= faults'
    BY <1>8, SaysOne DEF client
  <2>2. PICK m \in Messages :
            /\ toPage' = Append(toPage, m)
            /\ \/ m = [type |-> "failure"] /\ slot' = slot
               \/ slot' \in Feeds /\ m = [type |-> "opened", feed |-> slot']
    BY <1>8, SaysOne
  <2>3. /\ \A i \in DOMAIN toPage : toPage'[i] = toPage[i]
        /\ toPage'[Len(toPage')] = m
        /\ DOMAIN toPage' = DOMAIN toPage \cup {Len(toPage')}
    BY <1>0, <2>2, Appended
  <2>4. m.type # "failed"
    BY <2>2
  <2> QED
    BY <1>1, <2>1, <2>3, <2>4
<1>9. CASE Reply \/ CheckThrows
  <2> DEFINE ask == Head(toWorker)
  <2>1. /\ asked' = asked /\ faults' \in Nat /\ faults <= faults'
        /\ toWorker # << >> /\ ask.type = "ask" /\ toWorker' = Tail(toWorker)
    BY <1>9, Told DEF client
  <2>2. PICK n \in Nat, end \in {Refusal(ask.id), Answer(ask.id)} :
            /\ Tells(ask.id, n, end)
            /\ ask.route = "checks" =>
                IF end = Answer(ask.id) THEN n = FindingsIn[slot] ELSE faults' > 0
    BY <1>9, Told
  <2>3. slot \in Feeds /\ ask.id \in Nat /\ ask.route = asked[ask.id].route
    BY <2>1, Taken
  <2>4. /\ \A i \in DOMAIN toPage : toPage'[i] = toPage[i]
        /\ \A i \in DOMAIN toPage' \ DOMAIN toPage :
                /\ toPage'[i].id = ask.id
                /\ toPage'[i].type = "failed" => end = Refusal(ask.id)
    BY <1>0, <2>2, <2>3, ToldPieces
  <2>5. Refusal(ask.id) # Answer(ask.id)
    BY DEF Refusal, Answer
  <2> SUFFICES ASSUME NEW i \in DOMAIN toPage', toPage'[i].type = "failed", asked'[toPage'[i].id].route = "checks"
               PROVE  faults' > 0
    BY DEF ChecksFailByFault
  <2>6. CASE i \in DOMAIN toPage
    <3>1. faults > 0
      BY <1>a, <2>1, <2>4, <2>6
    <3> QED
      BY <1>0, <2>1, <3>1
  <2>7. CASE i \notin DOMAIN toPage
    <3>1. ask.route = "checks" /\ end = Refusal(ask.id)
      BY <2>1, <2>3, <2>4, <2>7
    <3> QED
      BY <2>2, <2>5, <3>1
  <2> QED
    BY <2>6, <2>7
<1> QED
  BY <1>3, <1>4, <1>5, <1>6, <1>7, <1>8, <1>9, Steps

\* A rendering asks at most one question, and takes a number of its own.
LEMMA NewestStep ==
    ASSUME Inv, TypeOK', Next
    PROVE  NewestIsLast'
<1>0. TypeOK /\ NewestIsLast /\ asked \in Seq([route : Routes, by : Nat]) /\ rendering \in Nat /\ Len(asked) \in Nat
  BY DEF Inv, TypeOK
<1>1. ASSUME asked' = asked, rendering' = rendering
      PROVE  NewestIsLast'
  BY <1>0, <1>1 DEF NewestIsLast
<1>2. CASE Reader
  BY <1>1, <1>2, ReaderKeeps
<1>3. CASE HashChange /\ manifest = None
  BY <1>1, <1>3, NothingToRender DEF client
<1>4. CASE (HashChange /\ manifest # None) \/ Opened
  <2>1. manifest' \in Feeds /\ Render(manifest')
    BY <1>4, RenderKeeps
  <2>2. rendering' = rendering + 1
    BY <1>0, <2>1, Rendered
  <2>3. \A id \in 1..Len(asked) : asked[id].by \in Nat /\ asked[id].by <= rendering
    <3>1. \A id \in 1..Len(asked) : asked[id] \in [route : Routes, by : Nat]
      BY <1>0, ElementOfSeq
    <3>2. DOMAIN asked = 1..Len(asked)
      BY <1>0
    <3> QED
      BY <1>0, <3>1, <3>2 DEF NewestIsLast
  <2>4. CASE hash = "overview"
    <3>1. asked' = asked
      BY <1>0, <2>1, <2>4, Rendered
    <3>2. \A id \in 1..Len(asked) : asked[id].by <= rendering' /\ asked[id].by # rendering'
      BY <1>0, <2>2, <2>3
    <3>3. DOMAIN asked = 1..Len(asked)
      BY <1>0
    <3> QED
      BY <3>1, <3>2, <3>3 DEF NewestIsLast
  <2>5. CASE hash # "overview"
    <3>1. hash \in Routes /\ rendering' \in Nat /\ Ask(hash, rendering')
      BY <1>0, <2>1, <2>5, Rendered DEF TypeOK
    <3>2. /\ asked' \in Seq([route : Routes, by : Nat]) /\ Len(asked') = Len(asked) + 1
          /\ \A id \in 1..Len(asked) : asked'[id] = asked[id]
          /\ asked'[Len(asked')] = [route |-> hash, by |-> rendering']
      BY <1>0, <3>1, Asked
    <3>3. DOMAIN asked' = 1..Len(asked')
      BY <3>2
    <3>4. ASSUME NEW id \in 1..Len(asked')
          PROVE  asked'[id].by <= rendering' /\ (asked'[id].by = rendering' => id = Len(asked'))
      <4>1. id \in 1..Len(asked) \/ id = Len(asked')
        BY <1>0, <3>2
      <4>2. CASE id \in 1..Len(asked)
        <5>1. asked'[id].by \in Nat /\ asked'[id].by <= rendering
          BY <2>3, <3>2, <4>2
        <5> QED
          BY <1>0, <2>2, <5>1
      <4> QED
        BY <3>1, <3>2, <4>1, <4>2
    <3> QED
      BY <3>3, <3>4 DEF NewestIsLast
  <2> QED
    BY <2>4, <2>5
<1>5. CASE Hear
  BY <1>1, <1>5, HearKeeps
<1>6. CASE Load
  BY <1>1, <1>6, LoadKeeps DEF page, client
<1>7. CASE Loaded \/ LoadFails \/ Stops
  BY <1>1, <1>7, SaysOne DEF page, client
<1>8. CASE Reply \/ CheckThrows
  BY <1>1, <1>8, Told DEF page, client
<1> QED
  BY <1>2, <1>3, <1>4, <1>5, <1>6, <1>7, <1>8, Steps

\* A question that waits is carried still: every port keeps what it carries, but for its
\* head, and the head is either not about it or settles it.
LEMMA NoneLostStep ==
    ASSUME Inv, TypeOK', Next
    PROVE  NoneLost'
<1> DEFINE Waits(id) ==
            \/ Carries(toWorker, "ask", id) \/ Carries(toPage, "done", id) \/ Carries(toPage, "failed", id)
<1>0. TypeOK /\ toPage \in Seq(Messages) /\ toWorker \in Seq(Requests) /\ Len(asked) \in Nat
  BY DEF Inv, TypeOK
<1>a. alive => \A id \in pending : Waits(id)
  BY DEF Inv, NoneLost
<1>b. ASSUME NEW id, NEW type \in {"done", "failed"}, Carries(toPage, type, id),
             toPage # << >>, toPage' = Tail(toPage), Head(toPage).type # type \/ Head(toPage).id # id
      PROVE  Carries(toPage', type, id)
  <2>1. PICK i \in DOMAIN toPage : toPage[i].type = type /\ toPage[i].id = id
    BY <1>b DEF Carries
  <2>2. /\ Len(toPage) \in Nat \ {0} /\ Len(toPage') = Len(toPage) - 1 /\ Head(toPage) = toPage[1]
        /\ DOMAIN toPage = 1..Len(toPage) /\ DOMAIN toPage' = 1..Len(toPage')
    BY <1>0, <1>b, HeadTaken
  <2>3. i # 1
    BY <1>b, <2>1, <2>2
  <2>4. i - 1 \in 1..Len(toPage') /\ (i - 1) + 1 = i
    BY <2>2, <2>3
  <2>5. toPage'[i - 1] = toPage[(i - 1) + 1]
    BY <1>0, <1>b, <2>2, <2>4, HeadTaken
  <2> QED
    BY <2>1, <2>2, <2>4, <2>5 DEF Carries
<1>c. ASSUME NEW id, Carries(toWorker, "ask", id), toWorker # << >>, toWorker' = Tail(toWorker),
             Head(toWorker).type # "ask" \/ Head(toWorker).id # id
      PROVE  Carries(toWorker', "ask", id)
  <2>1. PICK i \in DOMAIN toWorker : toWorker[i].type = "ask" /\ toWorker[i].id = id
    BY <1>c DEF Carries
  <2>2. /\ Len(toWorker) \in Nat \ {0} /\ Len(toWorker') = Len(toWorker) - 1 /\ Head(toWorker) = toWorker[1]
        /\ DOMAIN toWorker = 1..Len(toWorker) /\ DOMAIN toWorker' = 1..Len(toWorker')
        /\ \A k \in 1..Len(toWorker') : toWorker'[k] = toWorker[k + 1]
    BY <1>0, <1>c
  <2>3. i # 1
    BY <1>c, <2>1, <2>2
  <2>4. i - 1 \in 1..Len(toWorker') /\ (i - 1) + 1 = i
    BY <2>2, <2>3
  <2>5. toWorker'[i - 1] = toWorker[i]
    BY <2>2, <2>4
  <2> QED
    BY <2>1, <2>2, <2>4, <2>5 DEF Carries
<1>d. ASSUME NEW id, NEW type, Carries(toPage, type, id), DOMAIN toPage \subseteq DOMAIN toPage',
             \A i \in DOMAIN toPage : toPage'[i] = toPage[i]
      PROVE  Carries(toPage', type, id)
  BY <1>d DEF Carries
<1>e. ASSUME NEW id, Carries(toWorker, "ask", id), DOMAIN toWorker \subseteq DOMAIN toWorker',
             \A i \in DOMAIN toWorker : toWorker'[i] = toWorker[i]
      PROVE  Carries(toWorker', "ask", id)
  BY <1>e DEF Carries
<1> SUFFICES ASSUME alive', NEW id \in pending'
             PROVE  Waits(id)'
  BY DEF NoneLost
<1>1. ASSUME alive' = alive, id \in pending
      PROVE  Waits(id)
  BY <1>a, <1>1
<1>2. CASE OpenFeed
  <2>1. UNCHANGED <<alive, pending, toPage>> /\ toWorker' = Append(toWorker, [type |-> "open", feed |-> opens'])
    BY <1>2 DEF OpenFeed, client, worker
  <2>2. DOMAIN toWorker \subseteq DOMAIN toWorker' /\ \A i \in DOMAIN toWorker : toWorker'[i] = toWorker[i]
    <3>1. toWorker \in Seq(Requests) /\ toWorker' \in Seq(Requests)
      BY DEF TypeOK, Inv
    <3>2. Len(toWorker') = Len(toWorker) + 1 /\ \A i \in 1..Len(toWorker) : toWorker'[i] = toWorker[i]
      BY <2>1, <3>1
    <3>3. DOMAIN toWorker = 1..Len(toWorker) /\ DOMAIN toWorker' = 1..Len(toWorker') /\ Len(toWorker) \in Nat
      BY <3>1
    <3> QED
      BY <3>2, <3>3
  <2> QED
    BY <1>1, <1>e, <2>1, <2>2
<1>3. CASE CloseFeed \/ Navigate
  <2>1. UNCHANGED <<alive, pending, toPage, toWorker>>
    BY <1>3 DEF CloseFeed, Navigate, client, worker
  <2> QED
    BY <1>1, <2>1
<1>4. CASE HashChange /\ manifest = None
  <2>1. UNCHANGED <<alive, pending, toPage, toWorker>>
    BY <1>4, NothingToRender DEF client, worker
  <2> QED
    BY <1>1, <2>1
<1>5. CASE (HashChange /\ manifest # None) \/ Opened
  <2>1. manifest' \in Feeds /\ Render(manifest') /\ alive' = alive
    BY <1>5, RenderKeeps
  <2>2. ASSUME NEW type \in {"done", "failed"}, Carries(toPage, type, id)
        PROVE  Carries(toPage', type, id)
    <3>1. CASE toPage' = toPage
      BY <2>2, <3>1
    <3>2. CASE toPage # << >> /\ toPage' = Tail(toPage) /\ Head(toPage).type = "opened"
      BY <1>b, <2>2, <3>2
    <3> QED
      BY <1>5, <3>1, <3>2, RenderKeeps
  <2>3. CASE hash = "overview"
    <3>1. pending' = pending /\ toWorker' = toWorker
      BY <1>0, <2>1, <2>3, Rendered
    <3> QED
      BY <1>1, <2>1, <2>2, <3>1
  <2>4. CASE hash # "overview"
    <3>1. hash \in Routes /\ rendering' \in Nat /\ Ask(hash, rendering')
      BY <1>0, <2>1, <2>4, Rendered DEF TypeOK
    <3>2. /\ pending' = pending \cup {Len(asked')}
          /\ toWorker' \in Seq(Requests) /\ Len(toWorker') = Len(toWorker) + 1
          /\ \A i \in DOMAIN toWorker : toWorker'[i] = toWorker[i]
          /\ toWorker'[Len(toWorker')] = [type |-> "ask", id |-> Len(asked'), route |-> hash]
      BY <1>0, <3>1, Asked
    <3>3. DOMAIN toWorker = 1..Len(toWorker) /\ DOMAIN toWorker' = 1..Len(toWorker') /\ Len(toWorker) \in Nat
      BY <1>0, <3>2
    <3>4. DOMAIN toWorker \subseteq DOMAIN toWorker' /\ Len(toWorker') \in DOMAIN toWorker'
      BY <3>2, <3>3
    <3>5. CASE id \in pending
      BY <1>1, <1>e, <2>1, <2>2, <3>2, <3>4, <3>5
    <3>6. CASE id = Len(asked')
      <4>1. toWorker'[Len(toWorker')].type = "ask" /\ toWorker'[Len(toWorker')].id = id
        BY <3>2, <3>6
      <4> QED
        BY <3>4, <4>1 DEF Carries
    <3> QED
      BY <3>2, <3>5, <3>6
  <2> QED
    BY <2>3, <2>4
<1>6. CASE HearFinding \/ HearResult \/ HearFailure
  <2>1. toPage # << >> /\ toPage' = Tail(toPage) /\ UNCHANGED <<alive, toWorker>>
    BY <1>6, HearKeeps DEF Hear
  <2>2. pending' = pending /\ Head(toPage).type \notin {"done", "failed"}
    BY <1>6 DEF HearFinding, HearResult, HearFailure, Hears, client
  <2> QED
    BY <1>1, <1>b, <2>1, <2>2
<1>7. CASE HearDone \/ HearRefusal
  <2>1. toPage # << >> /\ toPage' = Tail(toPage) /\ UNCHANGED <<alive, toWorker>>
    BY <1>7, HearKeeps DEF Hear
  <2>2. pending' = pending \ {Head(toPage).id}
    <3>1. CASE HearDone
      BY <3>1 DEF HearDone
    <3>2. CASE HearRefusal
      BY <3>2 DEF HearRefusal
    <3> QED
      BY <1>7, <3>1, <3>2
  <2>3. id \in pending /\ Head(toPage).id # id
    BY <2>2
  <2> QED
    BY <1>1, <1>b, <2>1, <2>3
<1>8. CASE Load
  <2>1. UNCHANGED <<alive, toPage, pending>> /\ toWorker # << >> /\ Head(toWorker).type = "open" /\ toWorker' = Tail(toWorker)
    BY <1>8, LoadKeeps DEF client
  <2> QED
    BY <1>1, <1>c, <2>1
<1>9. CASE Loaded \/ LoadFails
  <2>1. UNCHANGED <<alive, pending, toWorker>>
    BY <1>9 DEF Loaded, LoadFails, client
  <2>2. PICK m \in Messages : toPage' = Append(toPage, m)
    BY <1>9, SaysOne
  <2>3. /\ \A i \in DOMAIN toPage : toPage'[i] = toPage[i]
        /\ DOMAIN toPage' = DOMAIN toPage \cup {Len(toPage')}
    BY <1>0, <2>2, Appended
  <2> QED
    BY <1>1, <1>d, <2>1, <2>3
<1>10. CASE Stops
  BY <1>10 DEF Stops
<1>11. CASE Reply \/ CheckThrows
  <2> DEFINE ask == Head(toWorker)
  <2>1. /\ UNCHANGED <<alive, pending>>
        /\ toWorker # << >> /\ ask.type = "ask" /\ toWorker' = Tail(toWorker)
    BY <1>11, Told DEF client
  <2>2. PICK n \in Nat, end \in {Refusal(ask.id), Answer(ask.id)} : Tells(ask.id, n, end)
    BY <1>11, Told
  <2>3. slot \in Feeds /\ ask.id \in Nat
    BY <2>1, Taken
  <2>4. /\ Len(toPage) \in Nat /\ Len(toPage) <= Len(toPage') /\ DOMAIN toPage' = 1..Len(toPage')
        /\ DOMAIN toPage = 1..Len(toPage) /\ \A i \in DOMAIN toPage : toPage'[i] = toPage[i]
        /\ \E i \in DOMAIN toPage' : toPage'[i].type \in {"done", "failed"} /\ toPage'[i].id = ask.id
    BY <1>0, <2>2, <2>3, ToldPieces
  <2>5. DOMAIN toPage \subseteq DOMAIN toPage'
    <3>1. toPage' \in Seq(Messages)
      BY <2>2 DEF Tells
    <3>2. Len(toPage') \in Nat
      BY <3>1
    <3> DEFINE L == Len(toPage)
               M == Len(toPage')
    <3>3. L \in Nat /\ M \in Nat /\ L <= M
      BY <2>4, <3>2
    <3>4. 1..L \subseteq 1..M
      <4> HIDE DEF L, M
      <4> QED
        BY <3>3
    <3> QED
      BY <2>4, <3>4
  <2>6. CASE id = ask.id
    BY <2>4, <2>6 DEF Carries
  <2>7. CASE id # ask.id
    BY <1>1, <1>c, <1>d, <2>1, <2>4, <2>5, <2>7
  <2> QED
    BY <2>6, <2>7
<1> QED
  BY <1>2, <1>3, <1>4, <1>5, <1>6, <1>7, <1>8, <1>9, <1>10, <1>11, Steps DEF Hear, Reader

\* The pane when the page has rendered: what the address says of the feed the page
\* holds, or a question that waits.
LEMMA RenderAnswers ==
    ASSUME Inv, TypeOK', NEW m \in Feeds, Render(m), manifest' = m, hash' = hash
    PROVE  AnswersTheHash'
<1>0. TypeOK /\ Len(asked) \in Nat /\ asked \in Seq([route : Routes, by : Nat]) /\ rendering \in Nat /\ hash \in Routes
  BY DEF Inv, TypeOK
<1>1. rendering' = rendering + 1 /\ rendering' \in Nat
  BY <1>0, Rendered
<1>2. CASE hash = "overview"
  <2>1. view' = [feed |-> m, route |-> hash, found |-> << >>, whole |-> TRUE] /\ asked' = asked
    BY <1>0, <1>2, Rendered
  <2>2. view' \in Views
    <3>1. << >> \in Seq(Nat) /\ TRUE \in BOOLEAN
      OBVIOUS
    <3> QED
      BY <1>0, <2>1, <3>1, ViewType
  <2>3. \A id \in 1..Len(asked) : asked[id].by \in Nat /\ asked[id].by <= rendering
    <3>1. \A id \in 1..Len(asked) : asked[id] \in [route : Routes, by : Nat]
      BY <1>0, ElementOfSeq
    <3>2. DOMAIN asked = 1..Len(asked)
      BY <1>0
    <3> QED
      BY <3>1, <3>2 DEF Inv, NewestIsLast
  <2>4. \A id \in 1..Len(asked) : asked'[id].by # rendering'
    BY <1>0, <1>1, <2>1, <2>3
  <2>5. DOMAIN asked' = 1..Len(asked)
    BY <1>0, <2>1
  <2>6. Whole(hash)'
    BY <2>1, <2>2 DEF Whole
  <2> QED
    BY <1>2, <2>4, <2>5, <2>6 DEF AnswersTheHash
<1>3. CASE hash # "overview"
  <2>1. Ask(hash, rendering')
    BY <1>0, <1>3, Rendered
  <2>2. /\ asked' \in Seq([route : Routes, by : Nat]) /\ Len(asked') = Len(asked) + 1
        /\ asked'[Len(asked')] = [route |-> hash, by |-> rendering']
        /\ pending' = pending \cup {Len(asked')}
    BY <1>0, <1>1, <2>1, Asked
  <2>3. asked' # << >>
    BY <1>0, <2>2
  <2>4. Len(asked') \in pending'
    BY <2>2
  <2> QED
    BY <1>3, <2>2, <2>3, <2>4 DEF AnswersTheHash
<1> QED
  BY <1>2, <1>3

\* What a finding, the end of an answer or a refusal paints is of the newest question:
\* nothing is painted of an older one.
LEMMA AnswersStep ==
    ASSUME Inv, TypeOK', Next
    PROVE  AnswersTheHash'
<1>0. TypeOK /\ AnswersTheHash /\ asked \in Seq([route : Routes, by : Nat]) /\ Len(asked) \in Nat /\ changes \in Nat
  BY DEF Inv, TypeOK
<1>1. ASSUME UNCHANGED <<hash, changes, manifest, rendering, view, asked, pending>>
      PROVE  AnswersTheHash'
  BY <1>0, <1>1 DEF AnswersTheHash, Whole
<1>2. ASSUME manifest' = None \/ changes' # 0
      PROVE  AnswersTheHash'
  BY <1>2 DEF AnswersTheHash
<1>3. CASE OpenFeed \/ CloseFeed
  BY <1>2, <1>3 DEF OpenFeed, CloseFeed
<1>4. CASE Navigate
  <2>1. changes' = changes + 1
    BY <1>4 DEF Navigate, SetHash
  <2>2. changes' # 0
    BY <1>0, <2>1
  <2> QED
    BY <1>2, <2>2
<1>5. CASE HashChange /\ manifest = None
  BY <1>2, <1>5, NothingToRender
<1>6. CASE (HashChange /\ manifest # None) \/ Opened
  BY <1>6, RenderKeeps, RenderAnswers
<1>7. CASE HearFinding
  <2> DEFINE id == Head(toPage).id
  <2>1. /\ UNCHANGED <<hash, changes, manifest, rendering, asked, pending>>
        /\ ~Paints(id) => view' = view
    BY <1>7 DEF HearFinding
  <2>2. Hears("finding")
    BY <1>7 DEF HearFinding
  <2>3. About(Head(toPage)) /\ id \in pending /\ id \in 1..Len(asked)
    BY <2>2, Heard DEF About
  <2>4. DOMAIN asked = 1..Len(asked)
    BY <1>0
  <2>5. CASE Paints(id)
    <3>1. asked[id].by = rendering /\ id = Len(asked)
      BY <2>3, <2>4, <2>5 DEF Paints, Inv, NewestIsLast
    <3> QED
      BY <1>0, <2>1, <2>3, <2>4, <3>1 DEF AnswersTheHash
  <2>6. CASE ~Paints(id)
    BY <1>1, <2>1, <2>6
  <2> QED
    BY <2>5, <2>6
<1>8. CASE HearResult
  BY <1>1, <1>8 DEF HearResult, page
<1>9. ASSUME NEW id \in 1..Len(asked), NEW feed \in Feeds, NEW list \in Seq(Nat), manifest \in {None, feed},
             UNCHANGED <<hash, changes, manifest, rendering, asked>>, pending' = pending \ {id},
             view' = IF Paints(id)
                       THEN [feed |-> feed, route |-> asked[id].route, found |-> list, whole |-> TRUE]
                       ELSE view
      PROVE  AnswersTheHash'
  <2>1. DOMAIN asked = 1..Len(asked) /\ asked[id].route \in Routes
    BY <1>0, AskedTypes
  <2>2. CASE Paints(id)
    <3>1. asked[id].by = rendering /\ id = Len(asked)
      BY <2>1, <2>2 DEF Paints, Inv, NewestIsLast
    <3>2. view' \in Views
      BY <1>9, <2>1, <2>2, ViewType
    <3>3. view'.feed = feed /\ view'.route = asked[id].route /\ view'.whole
      BY <1>9, <2>2
    <3> SUFFICES ASSUME manifest' # None, changes' = 0
                 PROVE  /\ hash # "overview"
                        /\ asked # << >> /\ asked[Len(asked)].by = rendering /\ asked[Len(asked)].route = hash
                        /\ Whole(hash)'
      BY <1>9 DEF AnswersTheHash
    <3>4. manifest # None /\ changes = 0
      BY <1>9
    <3>5. hash # "overview"
      BY <1>0, <2>1, <3>1, <3>4 DEF AnswersTheHash
    <3>6. asked # << >> /\ asked[Len(asked)].by = rendering /\ asked[Len(asked)].route = hash
      BY <1>0, <3>4, <3>5 DEF AnswersTheHash
    <3>7. manifest' = feed
      BY <1>9, <3>4
    <3>8. Whole(hash)'
      BY <1>9, <3>1, <3>2, <3>3, <3>6, <3>7 DEF Whole
    <3> QED
      BY <3>5, <3>6, <3>8
  <2>3. CASE ~Paints(id)
    <3>1. asked[id].by # rendering /\ view' = view
      BY <1>9, <2>3 DEF Paints
    <3>2. asked[Len(asked)].by = rendering => Len(asked) # id
      BY <3>1
    <3>3. /\ Len(asked) \in pending /\ Len(asked) # id => Len(asked) \in pending'
          /\ Whole(hash)' <=> Whole(hash)
      BY <1>9, <3>1 DEF Whole
    <3> QED
      BY <1>0, <1>9, <3>1, <3>2, <3>3 DEF AnswersTheHash
  <2> QED
    BY <2>2, <2>3
<1>10. CASE HearDone
  <2>1. Hears("done")
    BY <1>10 DEF HearDone
  <2>2. PICK result \in results :
            /\ result.id = Head(toPage).id
            /\ pending' = pending \ {result.id}
            /\ view' = IF Paints(result.id)
                         THEN [feed |-> result.feed, route |-> asked[result.id].route,
                               found |-> FoundOf(result.id), whole |-> TRUE]
                         ELSE view
    BY <1>10 DEF HearDone
  <2>3. result.feed \in Feeds /\ result.id \in 1..Len(asked)
    BY <1>0, <2>2 DEF TypeOK
  <2>4. FoundOf(result.id) \in Seq(Nat)
    BY <1>0, <2>3, AskedTypes DEF FoundOf
  <2>5. manifest \in {None, result.feed}
    <3>1. PICK feed \in Feeds : results = {[id |-> Head(toPage).id, feed |-> feed]} /\ manifest \in {None, feed}
      BY <2>2 DEF Inv, Ports, ResultOfHead
    <3>2. result = [id |-> Head(toPage).id, feed |-> feed]
      BY <2>2, <3>1
    <3> QED
      BY <3>1, <3>2
  <2>6. UNCHANGED <<hash, changes, manifest, rendering, asked>>
    BY <1>10 DEF HearDone
  <2> QED
    BY <1>9, <2>2, <2>3, <2>4, <2>5, <2>6
<1>11. CASE HearRefusal
  <2> DEFINE id == Head(toPage).id
  <2>1. Hears("failed")
    BY <1>11 DEF HearRefusal
  <2>2. /\ Head(toPage).type = "failed" /\ Head(toPage) \in Messages /\ id \in 1..Len(asked)
        /\ toPage # << >>
    BY <2>1, Heard DEF About
  <2>3. Head(toPage).feed \in Feeds /\ Names(Head(toPage)) /\ ~(Head(toPage).type = "opened")
    BY <2>2, MessageFields DEF Names
  <2>4. manifest \in {None, Head(toPage).feed}
    BY <2>2, <2>3, HeadOfTheFeed
  <2>5. << >> \in Seq(Nat)
    OBVIOUS
  <2>6. /\ UNCHANGED <<hash, changes, manifest, rendering, asked>> /\ pending' = pending \ {id}
        /\ view' = IF Paints(id)
                     THEN [feed |-> Head(toPage).feed, route |-> asked[id].route, found |-> << >>, whole |-> TRUE]
                     ELSE view
    BY <1>11 DEF HearRefusal
  <2> QED
    BY <1>9, <2>2, <2>3, <2>4, <2>5, <2>6
<1>12. CASE HearFailure
  <2>1. view' = LoadError /\ UNCHANGED <<hash, changes, manifest, rendering, asked, pending>>
    BY <1>12 DEF HearFailure, client
  <2> QED
    BY <1>0, <2>1 DEF AnswersTheHash
<1>13. CASE Load
  BY <1>1, <1>13, LoadKeeps DEF page, client
<1>14. CASE Loaded \/ LoadFails \/ Stops
  BY <1>1, <1>14, SaysOne DEF page, client
<1>15. CASE Reply \/ CheckThrows
  BY <1>1, <1>15, Told DEF page, client
<1> QED
  BY <1>3, <1>4, <1>5, <1>6, <1>7, <1>8, <1>10, <1>11, <1>12, <1>13, <1>14, <1>15, Steps DEF Hear, Reader

\* A run of checks is shown whole when it ended with its result, after all its findings,
\* or was refused, which takes a fault.
LEMMA ShownStep ==
    ASSUME Inv, TypeOK', Next
    PROVE  EveryFindingShown'
<1>0. TypeOK /\ EveryFindingShown /\ asked \in Seq([route : Routes, by : Nat]) /\ Len(asked) \in Nat /\ faults \in Nat
  <2>1. TypeOK /\ EveryFindingShown
    BY DEF Inv
  <2>2. faults \in 0..MaxFaults /\ asked \in Seq([route : Routes, by : Nat])
    BY <2>1 DEF TypeOK
  <2>3. faults \in Nat /\ Len(asked) \in Nat
    BY <2>2, BoundsAssumption
  <2> QED
    BY <2>1, <2>2, <2>3
<1>1. ASSUME view' = view, faults' \in Nat, faults <= faults'
      PROVE  EveryFindingShown'
  <2>1. faults > 0 => faults' > 0
    BY <1>0, <1>1
  <2> QED
    BY <1>0, <1>1, <2>1 DEF EveryFindingShown
<1>2. ASSUME view' \notin Views \/ view'.route # "checks" \/ ~view'.whole
      PROVE  EveryFindingShown'
  BY <1>2 DEF EveryFindingShown
<1>3. CASE OpenFeed
  BY <1>2, <1>3, PaneAssumption DEF OpenFeed
<1>4. CASE CloseFeed \/ Navigate
  BY <1>0, <1>1, <1>4 DEF CloseFeed, Navigate
<1>5. CASE HashChange /\ manifest = None
  BY <1>0, <1>1, <1>5, NothingToRender
<1>6. CASE (HashChange /\ manifest # None) \/ Opened
  <2>1. manifest' \in Feeds /\ Render(manifest') /\ faults' = faults
    BY <1>6, RenderKeeps
  <2>2. hash \in Routes
    BY <1>0 DEF TypeOK
  <2>3. CASE hash = "overview"
    <3>1. view' = [feed |-> manifest', route |-> hash, found |-> << >>, whole |-> TRUE]
      BY <1>0, <2>1, <2>3, Rendered
    <3> QED
      BY <1>2, <2>3, <3>1
  <2>4. CASE hash = "checks"
    <3>1. view' = [feed |-> manifest', route |-> hash, found |-> << >>, whole |-> FALSE]
      BY <1>0, <2>1, <2>4, Rendered
    <3> QED
      BY <1>2, <3>1
  <2>5. CASE hash = "file"
    BY <1>0, <1>1, <2>1, <2>5, Rendered
  <2> QED
    BY <2>2, <2>3, <2>4, <2>5 DEF Routes
<1>7. CASE HearFinding
  <2>1. /\ faults' = faults
        /\ \/ view' = view
           \/ view' = [feed |-> Head(toPage).feed, route |-> "checks", found |-> found'[Head(toPage).id], whole |-> FALSE]
    BY <1>7 DEF HearFinding, Hears
  <2>2. CASE view' = view
    BY <1>0, <1>1, <2>1, <2>2
  <2>3. CASE view' = [feed |-> Head(toPage).feed, route |-> "checks", found |-> found'[Head(toPage).id], whole |-> FALSE]
    BY <1>2, <2>3
  <2> QED
    BY <2>1, <2>2, <2>3
<1>8. CASE HearResult
  BY <1>0, <1>1, <1>8 DEF HearResult, Hears, page
<1>9. CASE HearDone
  <2>1. PICK result \in results :
            /\ result.id = Head(toPage).id
            /\ view' = IF Paints(result.id)
                         THEN [feed |-> result.feed, route |-> asked[result.id].route,
                               found |-> FoundOf(result.id), whole |-> TRUE]
                         ELSE view
    BY <1>9 DEF HearDone
  <2>2. faults' = faults
    BY <1>9 DEF HearDone, Hears
  <2>3. CASE view' = view
    BY <1>0, <1>1, <2>2, <2>3
  <2>4. CASE view' = [feed |-> result.feed, route |-> asked[result.id].route,
                      found |-> FoundOf(result.id), whole |-> TRUE]
    <3> SUFFICES ASSUME asked[result.id].route = "checks"
                 PROVE  found[result.id] = [i \in 1..FindingsIn[result.feed] |-> i]
      BY <2>4 DEF EveryFindingShown, FoundOf
    <3>1. PICK feed \in Feeds :
              /\ results = {[id |-> Head(toPage).id, feed |-> feed]}
              /\ asked[Head(toPage).id].route = "checks" => Len(found[Head(toPage).id]) = FindingsIn[feed]
      BY <2>1 DEF Inv, Ports, ResultOfHead
    <3>2. result = [id |-> Head(toPage).id, feed |-> feed]
      BY <2>1, <3>1
    <3>3. Len(found[result.id]) = FindingsIn[result.feed]
      BY <2>1, <3>1, <3>2
    <3>4. result.id \in DOMAIN found
      <4>1. found \in Seq(Seq(Nat)) /\ Len(found) = Len(asked) /\ result.id \in 1..Len(asked)
        BY <1>0, <2>1 DEF TypeOK
      <4> QED
        BY <4>1
    <3>5. found[result.id] = Upto(Len(found[result.id]))
      BY <3>4 DEF Inv, FoundInOrder
    <3> QED
      BY <3>3, <3>5 DEF Upto
  <2> QED
    BY <2>1, <2>3, <2>4
<1>10. CASE HearRefusal
  <2> DEFINE id == Head(toPage).id
  <2>1. Hears("failed")
    BY <1>10 DEF HearRefusal
  <2>2. /\ faults' = faults
        /\ view' = IF Paints(id)
                     THEN [feed |-> Head(toPage).feed, route |-> asked[id].route, found |-> << >>, whole |-> TRUE]
                     ELSE view
    BY <1>10 DEF HearRefusal, Hears
  <2>3. asked[id].route = "checks" => faults > 0
    <3>1. toPage # << >> /\ Head(toPage).type = "failed" /\ toPage \in Seq(Messages)
      BY <1>0, <2>1 DEF Hears, TypeOK
    <3>2. 1 \in DOMAIN toPage /\ Head(toPage) = toPage[1]
      BY <3>1
    <3> QED
      BY <3>1, <3>2 DEF Inv, ChecksFailByFault
  <2>4. CASE Paints(id)
    BY <2>2, <2>3, <2>4 DEF EveryFindingShown
  <2>5. CASE ~Paints(id)
    BY <1>0, <1>1, <2>2, <2>5
  <2> QED
    BY <2>4, <2>5
<1>11. CASE HearFailure
  BY <1>2, <1>11, PaneAssumption DEF HearFailure
<1>12. CASE Load
  BY <1>0, <1>1, <1>12, LoadKeeps DEF page
<1>13. CASE Loaded \/ LoadFails \/ Stops
  BY <1>1, <1>13, SaysOne DEF page
<1>14. CASE Reply \/ CheckThrows
  BY <1>1, <1>14, Told DEF page
<1> QED
  BY <1>3, <1>4, <1>5, <1>6, <1>7, <1>8, <1>9, <1>10, <1>11, <1>12, <1>13, <1>14, Steps DEF Hear, Reader

-----------------------------------------------------------------------------
(* The theorems *)

\* At first nothing was asked, told or shown.
LEMMA InitInv ==
    ASSUME Init
    PROVE  Inv
<1>1. TypeOK
  BY BoundsAssumption DEF Init, TypeOK
<1>2. DOMAIN toPage = {} /\ DOMAIN toWorker = {} /\ DOMAIN asked = {} /\ DOMAIN found = {}
  BY DEF Init
<1>3. Ports
  BY <1>2 DEF Init, Ports, AsksWait, AnswersWait, FollowOn, BeginAfresh, HeadFollows, ResultOfHead
<1>4. FoundInOrder /\ SomeFeed /\ ChecksFailByFault /\ NewestIsLast
  BY <1>2 DEF Init, FoundInOrder, SomeFeed, ChecksFailByFault, NewestIsLast
<1>5. FeedsFollow
  BY <1>2 DEF Init, FeedsFollow
<1>6. AnswersTheHash /\ NoneLost
  BY DEF Init, AnswersTheHash, NoneLost
<1>7. EveryFindingShown
  BY PaneAssumption DEF Init, EveryFindingShown
<1> QED
  BY <1>1, <1>3, <1>4, <1>5, <1>6, <1>7 DEF Inv

\* Every step keeps the types.
LEMMA TypeStep ==
    ASSUME Inv, Next
    PROVE  TypeOK'
<1>1. TypeOK
  BY DEF Inv
<1> QED
  BY <1>1, ReaderTypes, PageTypes, WorkerTypes DEF Next

\* A step that changes nothing.
LEMMA StutterInv ==
    ASSUME Inv, UNCHANGED vars
    PROVE  Inv'
<1>1. /\ UNCHANGED <<hash, changes, panel, manifest, rendering, view, asked, pending, found, results>>
      /\ UNCHANGED <<toWorker, toPage, loads, slot, alive, opens, acts, faults>>
  BY DEF vars, page, client, worker, reader
<1>2. TypeOK'
  BY <1>1 DEF Inv, TypeOK
<1>3. AsksWait' /\ AnswersWait' /\ FollowOn' /\ BeginAfresh' /\ HeadFollows' /\ ResultOfHead'
  BY <1>1 DEF Inv, Ports, AsksWait, AnswersWait, FollowOn, BeginAfresh, HeadFollows, ResultOfHead, About, Comes, Names, Ends
<1>4. FoundInOrder' /\ SomeFeed' /\ FeedsFollow' /\ ChecksFailByFault' /\ NewestIsLast'
  BY <1>1 DEF Inv, FoundInOrder, SomeFeed, FeedsFollow, Opening, ChecksFailByFault, NewestIsLast
<1>5. AnswersTheHash' /\ NoneLost' /\ EveryFindingShown'
  BY <1>1 DEF Inv, AnswersTheHash, Whole, NoneLost, Carries, EveryFindingShown
<1> QED
  BY <1>2, <1>3, <1>4, <1>5 DEF Inv, Ports

\* The invariant is one.
THEOREM Invariance == Spec => []Inv
<1>1. Init => Inv
  BY InitInv
<1>2. Inv /\ [Next]_vars => Inv'
  <2> SUFFICES ASSUME Inv, [Next]_vars PROVE Inv'
    OBVIOUS
  <2>1. CASE Next
    <3>1. TypeOK'
      BY <2>1, TypeStep
    <3>2. Ports' /\ FoundInOrder'
      BY <2>1, <3>1, PortsStep
    <3>3. SomeFeed' /\ FeedsFollow' /\ ChecksFailByFault' /\ NewestIsLast'
      BY <2>1, <3>1, SomeFeedStep, FeedsStep, ChecksFailStep, NewestStep
    <3>4. AnswersTheHash' /\ NoneLost' /\ EveryFindingShown'
      BY <2>1, <3>1, AnswersStep, NoneLostStep, ShownStep
    <3> QED
      BY <3>1, <3>2, <3>3, <3>4 DEF Inv
  <2>2. CASE UNCHANGED vars
    BY <2>2, StutterInv
  <2> QED
    BY <2>1, <2>2
<1> QED
  BY <1>1, <1>2, PTL DEF Spec

\* Every variable keeps its type.
THEOREM TypeCorrect == Spec => []TypeOK
<1>1. Inv => TypeOK
  BY DEF Inv
<1> QED
  BY <1>1, Invariance, PTL

\* While the worker lives, a question that waits is on its way to it or its answer is on
\* its way back: client.ts keeps it in `pending` until one of the two is heard.
THEOREM NoQuestionIsLost == Spec => []NoneLost
<1>1. Inv => NoneLost
  BY DEF Inv
<1> QED
  BY <1>1, Invariance, PTL

\* A run of checks shown whole shows each of its findings, in the order they were made,
\* unless a check threw.
THEOREM NoFindingIsMissing == Spec => []EveryFindingShown
<1>1. Inv => EveryFindingShown
  BY DEF Inv
<1> QED
  BY <1>1, Invariance, PTL

\* When nothing is awaited, the pane shows what the address says, whole, of the feed the
\* page holds, and that is the feed the worker holds.
THEOREM TheLastAskedIsShown == Spec => []ShowsWhatWasAskedFor
<1>1. Inv => ShowsWhatWasAskedFor
  <2> SUFFICES ASSUME Inv, Settled, view # LoadError
               PROVE  /\ view \in Views
                      /\ view.route = hash /\ view.feed = manifest /\ view.whole
                      /\ manifest = slot
    BY DEF ShowsWhatWasAskedFor
  <2>1. manifest # None /\ changes = 0 /\ toPage = << >> /\ pending = {}
    BY DEF Settled
  <2>2. Whole(hash)
    BY <2>1 DEF Inv, AnswersTheHash
  <2>3. DOMAIN toPage = {}
    BY <2>1
  <2>4. manifest = slot
    BY <2>1, <2>3 DEF Inv, FeedsFollow
  <2> QED
    BY <2>2, <2>4 DEF Whole
<1> QED
  BY <1>1, Invariance, PTL
=============================================================================
