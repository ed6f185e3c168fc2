-------------------------- MODULE WorkerPool_proofs --------------------------
(***************************************************************************)
(* The pool for any number of stations, threads, days and faults: a shard  *)
(* that is described holds every scan (NothingLost), a living thread has   *)
(* one thing to do (OneAtATime), no file is disturbed (FilesLeftAlone) and *)
(* a run without a fault does not fail (FailsOnlyOnFault).                 *)
(*                                                                         *)
(* Protocol says where the conversation of a thread and the pool stands,   *)
(* and that a closed file has behind it a thread that was told there is    *)
(* nothing left.  HandedOut says that no station of a day is anywhere but  *)
(* with the pool or with a thread.  Together they give that files which    *)
(* are all closed hold all stations.                                       *)
(***************************************************************************)
EXTENDS WorkerPool, TLAPS

Message == Stations \cup {NullMessage}
Event == {Ready, Done, Error, Exit}

Elements(s) == {s[i] : i \in DOMAIN s}

\* The conversation of a thread that lives.
Conversation(t) ==
    /\ thread[t] \in {"none", "starting", "planning", "closing"} =>
          toWorker[t] = << >> /\ toPool[t] = << >> /\ ~finished[t]
    /\ thread[t] = "waiting" =>
          /\ ~finished[t]
          /\ \/ toWorker[t] = << >> /\ toPool[t] = <<Ready>>
             \/ toPool[t] = << >> /\ \E m \in Message : toWorker[t] = <<m>>
    /\ thread[t] = "idle" =>
          /\ toWorker[t] = << >>
          /\ part[t].closed
          /\ \/ toPool[t] = <<Done>> /\ ~finished[t]
             \/ toPool[t] = << >> /\ finished[t]

\* What a thread's file and its promise say of it.
Settled(t) ==
    /\ part[t].closed =>
          /\ thread[t] \in {"idle", "gone"}
          /\ toWorker[t] = << >>
          /\ task[t] = NullMessage
          /\ remaining[t[1]] = {}
          /\ Ready \notin Elements(toPool[t])
    /\ finished[t] \/ Done \in Elements(toPool[t]) => part[t].closed
    /\ promise[t] = "resolved" => finished[t]

\* What is left to scan where a thread is told that nothing is, and what a thread
\* that is not scanning has behind it.
Told(t) ==
    /\ NullMessage \in Elements(toWorker[t]) => remaining[t[1]] = {}
    /\ thread[t] = "closing" => task[t] = NullMessage /\ remaining[t[1]] = {}
    /\ thread[t] = "planning" => task[t] \in Stations
    /\ thread[t] \in {"none", "starting", "waiting"} =>
          task[t] \in part[t].stations \cup {NullMessage}

Protocol == \A t \in Threads : Conversation(t) /\ Settled(t) /\ Told(t)

\* The stations a thread was handed and may have scanned.
Held(t) == part[t].stations \cup Elements(toWorker[t]) \cup {task[t]}

HandedOut ==
    \A d \in Days : \A station \in Stations :
        station \in remaining[d] \/ \E w \in Workers : station \in Held(<<d, w>>)

\* Where plan is: the days before are done, those after are not begun.
Progress ==
    /\ \A t \in Threads : t[1] < day => promise[t] = "resolved"
    /\ \A t \in Threads : t[1] > day \/ (t[1] = day /\ stage = "starting") => thread[t] = "none"
    /\ stage \in {"merging", "describing", "returned"} =>
          \A t \in Threads : promise[t] = "resolved"
    /\ stage \in {"describing", "returned"} \/ provenance => output = Days \X Stations
    /\ ~directory => stage \in {"returned", "thrown"}
    /\ stage = "thrown" =>
          \A t \in Threads : thread[t] \in {"none", "gone"} \/ part[t].closed

\* Every failure has a fault behind it.
Blame ==
    /\ \A t \in Threads :
          /\ Error \in Elements(toPool[t]) => faults > 0
          /\ Exit \in Elements(toPool[t]) => faults > 0 \/ finished[t]
          /\ terminated[t] => faults > 0 \/ finished[t]
          /\ promise[t] = "rejected" => faults > 0
    /\ stage \in {"stopping", "thrown"} => faults > 0

IInv == TypeOK /\ Protocol /\ HandedOut /\ Progress /\ Blame

-----------------------------------------------------------------------------
(* Queues *)

LEMMA AppendElements ==
    ASSUME NEW S, NEW s \in Seq(S), NEW m \in S
    PROVE  /\ Append(s, m) \in Seq(S)
           /\ Elements(Append(s, m)) = Elements(s) \cup {m}
<1>1. /\ Append(s, m) \in Seq(S)
      /\ DOMAIN s = 1..Len(s)
      /\ DOMAIN Append(s, m) = 1..(Len(s) + 1)
      /\ Len(s) \in Nat
    OBVIOUS
<1>2. /\ \A i \in 1..Len(s) : Append(s, m)[i] = s[i]
      /\ Append(s, m)[Len(s) + 1] = m
    OBVIOUS
<1>3. 1..(Len(s) + 1) = 1..Len(s) \cup {Len(s) + 1}
    BY <1>1
<1> QED BY <1>1, <1>2, <1>3 DEF Elements

LEMMA TailElements ==
    ASSUME NEW S, NEW s \in Seq(S), s # << >>
    PROVE  /\ Tail(s) \in Seq(S)
           /\ Head(s) \in S
           /\ Elements(s) = Elements(Tail(s)) \cup {Head(s)}
<1>1. Len(s) > 0 /\ DOMAIN s = 1..Len(s) /\ DOMAIN Tail(s) = 1..(Len(s) - 1)
    OBVIOUS
<1>2. \A i \in 1..(Len(s) - 1) : Tail(s)[i] = s[i + 1]
    OBVIOUS
<1>3. ASSUME NEW m \in Elements(s)
      PROVE  m \in Elements(Tail(s)) \cup {Head(s)}
    <2>1. PICK i \in 1..Len(s) : m = s[i]
        BY <1>1, <1>3 DEF Elements
    <2>2. CASE i = 1
        BY <2>1, <2>2
    <2>3. CASE i # 1
        <3>1. i - 1 \in DOMAIN Tail(s) /\ Tail(s)[i - 1] = m
            BY <1>1, <1>2, <2>1, <2>3
        <3> QED BY <3>1 DEF Elements
    <2> QED BY <2>2, <2>3
<1>4. ASSUME NEW m \in Elements(Tail(s)) \cup {Head(s)}
      PROVE  m \in Elements(s)
    BY <1>1, <1>2 DEF Elements
<1> QED BY <1>3, <1>4

LEMMA ShortQueues ==
    ASSUME NEW m
    PROVE  /\ Head(<<m>>) = m /\ Tail(<<m>>) = << >>
           /\ Append(<< >>, m) = <<m>>
           /\ Elements(<< >>) = {} /\ Elements(<<m>>) = {m}
           /\ <<m>> # << >>
BY DEF Elements

LEMMA EventsElements ==
    ASSUME NEW s \in Seq(Event), NEW events \in {<<Error, Exit>>, <<Exit>>}
    PROVE  /\ s \o events \in Seq(Event)
           /\ Exit \in Elements(s \o events)
           /\ Elements(s \o events) \subseteq Elements(s) \cup {Error, Exit}
<1>1. /\ events \in Seq({Error, Exit}) /\ Len(events) \in Nat \ {0}
      /\ events[Len(events)] = Exit
    <2>1. CASE events = <<Exit>>
        BY <2>1
    <2>2. CASE events = <<Error, Exit>>
        BY <2>2
    <2> QED BY <2>1, <2>2
<1>2. {Error, Exit} \subseteq Event
    BY DEF Event
<1>3. s \o events \in Seq(Event) /\ Len(s \o events) = Len(s) + Len(events)
    <2>1. events \in Seq(Event)
        BY <1>1, <1>2
    <2> QED BY <2>1
<1>4. \A i \in 1..(Len(s) + Len(events)) :
        (s \o events)[i] = IF i <= Len(s) THEN s[i] ELSE events[i - Len(s)]
    BY <1>1
<1>5. Exit \in Elements(s \o events)
    <2>1. Len(s) + Len(events) \in DOMAIN (s \o events)
        BY <1>1, <1>3
    <2>2. (s \o events)[Len(s) + Len(events)] = Exit
        <3>1. Len(s) \in Nat
            OBVIOUS
        <3>2. /\ Len(s) + Len(events) \in 1..(Len(s) + Len(events))
              /\ ~(Len(s) + Len(events) <= Len(s))
              /\ (Len(s) + Len(events)) - Len(s) = Len(events)
            BY <1>1, <3>1
        <3> QED BY <1>1, <1>4, <3>2
    <2> QED BY <2>1, <2>2 DEF Elements
<1>6. Elements(s \o events) \subseteq Elements(s) \cup {Error, Exit}
    BY <1>1, <1>3, <1>4 DEF Elements
<1> QED BY <1>3, <1>5, <1>6

-----------------------------------------------------------------------------
(* The conversation *)

Local(t) == Conversation(t) /\ Settled(t) /\ Told(t)

\* What the protocol reads of a thread.
Frame(t) ==
    /\ thread'[t] = thread[t] /\ task'[t] = task[t] /\ part'[t] = part[t]
    /\ toWorker'[t] = toWorker[t] /\ toPool'[t] = toPool[t]
    /\ promise'[t] = promise[t] /\ finished'[t] = finished[t]

\* A step of another thread, or of plan, leaves the conversation where it was.
LEMMA LocalFrame ==
    ASSUME NEW t \in Threads, Local(t), Frame(t),
           remaining[t[1]] = {} => remaining'[t[1]] = {}
    PROVE  Local(t)'
BY DEF Local, Conversation, Settled, Told, Frame

LEMMA HeldFrame ==
    ASSUME NEW t \in Threads, Frame(t)
    PROVE  Held(t)' = Held(t)
BY DEF Held, Frame

\* Stations stay where they are, or go from one place to the other, where no thread
\* lets go of one.
LEMMA HandedOutStays ==
    ASSUME HandedOut,
           \A t \in Threads : Held(t) \cap Stations \subseteq Held(t)',
           \A d \in Days : \A station \in remaining[d] :
                station \in remaining'[d] \/ \E w \in Workers : station \in Held(<<d, w>>)'
    PROVE  HandedOut'
<1> SUFFICES ASSUME NEW d \in Days, NEW station \in Stations
             PROVE  station \in remaining'[d] \/ \E w \in Workers : station \in Held(<<d, w>>)'
    BY DEF HandedOut
<1>1. CASE station \in remaining[d]
    BY <1>1
<1>2. ASSUME NEW w \in Workers, station \in Held(<<d, w>>)
      PROVE  station \in Held(<<d, w>>)'
    BY <1>2 DEF Threads
<1> QED BY <1>1, <1>2 DEF HandedOut

LEMMA BootConverses ==
    ASSUME TypeOK, Protocol, HandedOut, NEW t \in Threads, Boot(t)
    PROVE  Protocol' /\ HandedOut'
<1>1. /\ thread[t] = "starting" /\ thread'[t] = "waiting"
      /\ toPool'[t] = Append(toPool[t], Ready)
      /\ task'[t] = task[t] /\ part'[t] = part[t] /\ toWorker'[t] = toWorker[t]
      /\ promise'[t] = promise[t] /\ finished'[t] = finished[t]
      /\ remaining' = remaining
    BY DEF Boot, TypeOK, pool, scans
<1>2. \A u \in Threads : u # t => Frame(u)
    BY DEF Boot, TypeOK, pool, scans, Frame
<1>3. Local(t)
    BY DEF Protocol, Local
<1>4. toPool'[t] = <<Ready>> /\ toWorker'[t] = << >>
    BY <1>1, <1>3, ShortQueues DEF Local, Conversation
<1>5. Local(t)'
    <2>1. Elements(toPool'[t]) = {Ready} /\ Elements(toWorker'[t]) = {} /\ Ready # Done
        BY <1>4, ShortQueues DEF Ready, Done
    <2>2. ~part[t].closed /\ promise[t] # "resolved" /\ ~finished[t]
        BY <1>1, <1>3 DEF Local, Conversation, Settled
    <2>3. Conversation(t)'
        BY <1>1, <1>3, <1>4, <2>2 DEF Conversation
    <2>4. Settled(t)'
        BY <1>1, <1>3, <1>4, <2>1, <2>2 DEF Local, Settled, Told
    <2>5. Told(t)'
        BY <1>1, <1>3, <1>4, <2>1 DEF Local, Told
    <2> QED BY <2>3, <2>4, <2>5 DEF Local
<1>6. Protocol'
    BY <1>1, <1>2, <1>5, LocalFrame DEF Protocol, Local
<1>7. \A u \in Threads : Held(u)' = Held(u)
    BY <1>1, <1>2, HeldFrame DEF Held
<1> QED BY <1>1, <1>6, <1>7, HandedOutStays

LEMMA TakeMessageConverses ==
    ASSUME TypeOK, Protocol, HandedOut, NEW t \in Threads, TakeMessage(t)
    PROVE  Protocol' /\ HandedOut'
<1>1. /\ thread[t] = "waiting" /\ toWorker[t] # << >>
      /\ task'[t] = Head(toWorker[t]) /\ toWorker'[t] = Tail(toWorker[t])
      /\ thread'[t] = IF Head(toWorker[t]) = NullMessage THEN "closing" ELSE "planning"
      /\ toPool'[t] = toPool[t] /\ part'[t] = part[t]
      /\ promise'[t] = promise[t] /\ finished'[t] = finished[t]
      /\ remaining' = remaining
    BY DEF TakeMessage, TypeOK, pool, scans
<1>2. \A u \in Threads : u # t => Frame(u)
    BY DEF TakeMessage, TypeOK, pool, scans, Frame
<1>3. Local(t)
    BY DEF Protocol, Local
<1>4. PICK m \in Message : toWorker[t] = <<m>>
    BY <1>1, <1>3 DEF Local, Conversation
<1>5. /\ task'[t] = m /\ toWorker'[t] = << >> /\ toPool'[t] = << >>
      /\ Elements(toWorker[t]) = {m} /\ Elements(toWorker'[t]) = {} /\ Elements(toPool'[t]) = {}
    BY <1>1, <1>3, <1>4, ShortQueues DEF Local, Conversation
<1>6. ~part[t].closed /\ ~finished[t]
    BY <1>1, <1>3 DEF Local, Conversation, Settled
<1>7. Local(t)'
    <2>1. CASE m = NullMessage
        BY <1>1, <1>3, <1>4, <1>5, <1>6, <2>1, ShortQueues
           DEF Local, Conversation, Settled, Told
    <2>2. CASE m # NullMessage
        BY <1>1, <1>3, <1>4, <1>5, <1>6, <2>2, ShortQueues
           DEF Local, Conversation, Settled, Told, Message
    <2> QED BY <2>1, <2>2
<1>8. Protocol'
    BY <1>1, <1>2, <1>7, LocalFrame DEF Protocol, Local
<1>9. Held(t) \cap Stations \subseteq Held(t)'
    BY <1>1, <1>3, <1>5, StationsAssumption DEF Held, Local, Told
<1>10. \A u \in Threads : Held(u) \cap Stations \subseteq Held(u)'
    BY <1>2, <1>9, HeldFrame
<1> QED BY <1>1, <1>8, <1>10, HandedOutStays

LEMMA StorePatternsConverses ==
    ASSUME TypeOK, Protocol, HandedOut, NEW t \in Threads, StorePatterns(t)
    PROVE  Protocol' /\ HandedOut'
<1>1. /\ thread[t] = "planning" /\ thread'[t] = "waiting"
      /\ part'[t] = [part[t] EXCEPT !.stations = @ \cup {task[t]}]
      /\ toPool'[t] = Append(toPool[t], Ready)
      /\ task'[t] = task[t] /\ toWorker'[t] = toWorker[t]
      /\ promise'[t] = promise[t] /\ finished'[t] = finished[t]
      /\ remaining' = remaining
    BY DEF StorePatterns, TypeOK, pool, scans
<1>2. \A u \in Threads : u # t => Frame(u)
    BY DEF StorePatterns, TypeOK, pool, scans, Frame
<1>3. Local(t)
    BY DEF Protocol, Local
<1>4. toPool'[t] = <<Ready>> /\ toWorker'[t] = << >>
    BY <1>1, <1>3, ShortQueues DEF Local, Conversation
<1>5. part'[t].stations = part[t].stations \cup {task[t]} /\ part'[t].closed = part[t].closed
    <2>1. part[t] \in [stations : SUBSET Stations, closed : BOOLEAN]
        BY DEF TypeOK
    <2> QED BY <1>1, <2>1
<1>6. Local(t)'
    <2>1. Elements(toPool'[t]) = {Ready} /\ Elements(toWorker'[t]) = {} /\ Ready # Done
        BY <1>4, ShortQueues DEF Ready, Done
    <2>2. ~part[t].closed /\ promise[t] # "resolved" /\ ~finished[t]
        BY <1>1, <1>3 DEF Local, Conversation, Settled
    <2>3. Conversation(t)'
        BY <1>1, <1>3, <1>4, <1>5, <2>2 DEF Conversation
    <2>4. Settled(t)'
        BY <1>1, <1>3, <1>4, <1>5, <2>1, <2>2 DEF Local, Settled, Told
    <2>5. Told(t)'
        BY <1>1, <1>3, <1>4, <1>5, <2>1 DEF Local, Told
    <2> QED BY <2>3, <2>4, <2>5 DEF Local
<1>7. Protocol'
    BY <1>1, <1>2, <1>6, LocalFrame DEF Protocol, Local
<1>8. \A u \in Threads : Held(u) \subseteq Held(u)'
    BY <1>1, <1>2, <1>5, HeldFrame DEF Held
<1> QED BY <1>1, <1>7, <1>8, HandedOutStays

LEMMA CloseFileConverses ==
    ASSUME TypeOK, Protocol, HandedOut, NEW t \in Threads, CloseFile(t)
    PROVE  Protocol' /\ HandedOut'
<1>1. /\ thread[t] = "closing" /\ thread'[t] = "idle"
      /\ part'[t] = [part[t] EXCEPT !.closed = TRUE]
      /\ toPool'[t] = Append(toPool[t], Done)
      /\ task'[t] = task[t] /\ toWorker'[t] = toWorker[t]
      /\ promise'[t] = promise[t] /\ finished'[t] = finished[t]
      /\ remaining' = remaining
    BY DEF CloseFile, TypeOK, pool, scans
<1>2. \A u \in Threads : u # t => Frame(u)
    BY DEF CloseFile, TypeOK, pool, scans, Frame
<1>3. Local(t)
    BY DEF Protocol, Local
<1>4. toPool'[t] = <<Done>> /\ toWorker'[t] = << >> /\ ~finished[t]
    BY <1>1, <1>3, ShortQueues DEF Local, Conversation
<1>5. part'[t].stations = part[t].stations /\ part'[t].closed = TRUE
    <2>1. part[t] \in [stations : SUBSET Stations, closed : BOOLEAN]
        BY DEF TypeOK
    <2> QED BY <1>1, <2>1
<1>6. Local(t)'
    <2>1. Elements(toPool'[t]) = {Done} /\ Elements(toWorker'[t]) = {} /\ Ready # Done
        BY <1>4, ShortQueues DEF Ready, Done
    <2>2. ~part[t].closed /\ promise[t] # "resolved" /\ ~finished[t]
        BY <1>1, <1>3 DEF Local, Conversation, Settled
    <2>3. Conversation(t)'
        BY <1>1, <1>3, <1>4, <1>5, <2>2 DEF Conversation
    <2>4. Settled(t)'
        BY <1>1, <1>3, <1>4, <1>5, <2>1, <2>2 DEF Local, Settled, Told
    <2>5. Told(t)'
        BY <1>1, <1>3, <1>4, <1>5, <2>1 DEF Local, Told
    <2> QED BY <2>3, <2>4, <2>5 DEF Local
<1>7. Protocol'
    BY <1>1, <1>2, <1>6, LocalFrame DEF Protocol, Local
<1>8. \A u \in Threads : Held(u) \subseteq Held(u)'
    BY <1>1, <1>2, <1>5, HeldFrame DEF Held
<1> QED BY <1>1, <1>7, <1>8, HandedOutStays

\* A thread that stops, or is terminated, leaves its file and its queues as they are.
LEMMA GoneConverses ==
    ASSUME TypeOK, Protocol, HandedOut, NEW t \in Threads, Stop(t) \/ Terminate(t)
    PROVE  Protocol' /\ HandedOut'
<1>1. /\ thread[t] \in Alive /\ thread'[t] = "gone"
      /\ part'[t] = part[t] /\ task'[t] = task[t] /\ toWorker'[t] = toWorker[t]
      /\ promise'[t] = promise[t] /\ finished'[t] = finished[t]
      /\ remaining' = remaining
    BY DEF Stop, Terminate, TypeOK, pool, scans
<1>2. \A u \in Threads : u # t => Frame(u)
    BY DEF Stop, Terminate, TypeOK, pool, scans, Frame
<1>3. Local(t) /\ toPool[t] \in Seq(Event)
    BY DEF Protocol, Local, TypeOK, Event
<1>4. Elements(toPool'[t]) \subseteq Elements(toPool[t]) \cup {Error, Exit}
    <2>1. CASE Stop(t)
        <3>1. PICK events \in {<<Error, Exit>>, <<Exit>>} : toPool'[t] = toPool[t] \o events
            BY <2>1 DEF Stop, TypeOK
        <3> QED BY <1>3, <3>1, EventsElements
    <2>2. CASE Terminate(t)
        <3>1. toPool'[t] = Append(toPool[t], Exit) /\ Exit \in Event
            BY <2>2 DEF Terminate, TypeOK, Event
        <3> QED BY <1>3, <3>1, AppendElements
    <2> QED BY <2>1, <2>2
<1>5. part[t].closed => thread[t] = "idle"
    BY <1>1, <1>3 DEF Local, Settled, Alive
<1>6. Local(t)'
    BY <1>1, <1>3, <1>4, <1>5
       DEF Local, Conversation, Settled, Told, Ready, Done, Error, Exit
<1>7. Protocol'
    BY <1>1, <1>2, <1>6, LocalFrame DEF Protocol, Local
<1>8. \A u \in Threads : Held(u) \subseteq Held(u)'
    BY <1>1, <1>2, HeldFrame DEF Held
<1> QED BY <1>1, <1>7, <1>8, HandedOutStays

\* A handed out station is in the thread's queue, and null goes out only where none
\* is left.
LEMMA HandleReadyConverses ==
    ASSUME TypeOK, Protocol, HandedOut, NEW t \in Threads, HandleReady(t)
    PROVE  Protocol' /\ HandedOut'
<1>1. /\ toPool[t] # << >> /\ Head(toPool[t]) = Ready
      /\ toPool'[t] = Tail(toPool[t])
      /\ thread'[t] = thread[t] /\ part'[t] = part[t] /\ task'[t] = task[t]
      /\ promise'[t] = promise[t] /\ finished'[t] = finished[t]
    BY DEF HandleReady, TypeOK, threads, scans
<1>2. \A u \in Threads : u # t => Frame(u)
    BY DEF HandleReady, TypeOK, threads, scans, Frame
<1>3. Local(t) /\ t[1] \in Days /\ t = <<t[1], t[2]>> /\ t[2] \in Workers
    BY DEF Protocol, Local, Threads
<1>4. /\ toPool[t] \in Seq(Event) /\ toWorker[t] \in Seq(Message)
      /\ remaining \in [Days -> SUBSET Stations]
    BY DEF TypeOK, Event, Message
<1>5. PICK m \in Message :
        /\ toWorker'[t] = Append(toWorker[t], m)
        /\ \/ m = NullMessage /\ remaining[t[1]] = {} /\ remaining' = remaining
           \/ m \in remaining[t[1]] /\ remaining' = [remaining EXCEPT ![t[1]] = @ \ {m}]
    BY <1>3, <1>4 DEF HandleReady, TypeOK, Message
<1>6. /\ Elements(toPool'[t]) \subseteq Elements(toPool[t])
      /\ Ready \in Elements(toPool[t])
      /\ Elements(toWorker'[t]) = Elements(toWorker[t]) \cup {m}
    BY <1>1, <1>4, <1>5, TailElements, AppendElements
<1>7. ~part[t].closed /\ ~finished[t] /\ promise[t] # "resolved"
    BY <1>3, <1>6 DEF Local, Settled
<1>8. \A d \in Days : remaining[d] = {} => remaining'[d] = {}
    BY <1>3, <1>4, <1>5
<1>9. m = NullMessage => remaining'[t[1]] = {}
    BY <1>3, <1>4, <1>5, StationsAssumption
<1>10. Conversation(t)'
    <2>1. CASE thread[t] = "waiting"
        <3>1. toWorker[t] = << >> /\ toPool[t] = <<Ready>>
            BY <1>1, <1>3, <2>1 DEF Local, Conversation
        <3>2. toWorker'[t] = <<m>> /\ toPool'[t] = << >>
            BY <1>1, <1>5, <3>1, ShortQueues
        <3> QED BY <1>1, <1>7, <2>1, <3>2 DEF Conversation
    <2>2. CASE thread[t] \in {"none", "starting", "planning", "closing"}
        BY <1>1, <1>3, <2>2 DEF Local, Conversation
    <2>3. CASE thread[t] = "idle"
        BY <1>3, <1>7, <2>3 DEF Local, Conversation
    <2>4. CASE thread[t] = "gone"
        BY <1>1, <2>4 DEF Conversation
    <2> QED BY <2>1, <2>2, <2>3, <2>4 DEF TypeOK, Alive
<1>11. Settled(t)'
    BY <1>1, <1>3, <1>6, <1>7 DEF Local, Settled
<1>12. Told(t)'
    BY <1>1, <1>3, <1>6, <1>8, <1>9 DEF Local, Told
<1>13. Protocol'
    <2>1. \A u \in Threads : u[1] \in Days
        BY DEF Threads
    <2> QED BY <1>2, <1>8, <1>10, <1>11, <1>12, <2>1, LocalFrame DEF Protocol, Local
<1>14. \A u \in Threads : Held(u) \subseteq Held(u)'
    BY <1>1, <1>2, <1>6, HeldFrame DEF Held
<1>15. ASSUME NEW d \in Days, NEW station \in remaining[d]
       PROVE  station \in remaining'[d] \/ \E w \in Workers : station \in Held(<<d, w>>)'
    <2>1. CASE station \in remaining'[d]
        BY <2>1
    <2>2. CASE station \notin remaining'[d]
        <3>1. d = t[1] /\ station = m
            BY <1>3, <1>4, <1>5, <2>2
        <3>2. station \in Held(t)'
            BY <1>6, <3>1 DEF Held
        <3> QED BY <1>3, <3>1, <3>2
    <2> QED BY <2>1, <2>2
<1> QED BY <1>13, <1>14, <1>15, HandedOutStays

LEMMA HandleDoneConverses ==
    ASSUME TypeOK, Protocol, HandedOut, NEW t \in Threads, HandleDone(t)
    PROVE  Protocol' /\ HandedOut'
<1>1. /\ toPool[t] # << >> /\ Head(toPool[t]) = Done
      /\ toPool'[t] = Tail(toPool[t])
      /\ finished'[t] = TRUE
      /\ thread'[t] = thread[t] /\ part'[t] = part[t] /\ task'[t] = task[t]
      /\ toWorker'[t] = toWorker[t]
      /\ remaining' = remaining
    BY DEF HandleDone, TypeOK, pool, threads
<1>2. \A u \in Threads : u # t => Frame(u)
    BY DEF HandleDone, Settle, TypeOK, threads, Frame
<1>3. Local(t) /\ toPool[t] \in Seq(Event)
    BY DEF Protocol, Local, TypeOK, Event
<1>4. Done \in Elements(toPool[t]) /\ Elements(toPool'[t]) \subseteq Elements(toPool[t])
    BY <1>1, <1>3, TailElements
<1>5. part[t].closed /\ thread[t] \in {"idle", "gone"}
    BY <1>3, <1>4 DEF Local, Settled
<1>6. thread[t] = "idle" => toWorker'[t] = << >> /\ toPool'[t] = << >>
    <2> SUFFICES ASSUME thread[t] = "idle" PROVE toWorker'[t] = << >> /\ toPool'[t] = << >>
        OBVIOUS
    <2>1. toPool[t] = <<Done>> /\ toWorker[t] = << >>
        BY <1>1, <1>3 DEF Local, Conversation
    <2> QED BY <1>1, <2>1, ShortQueues
<1>7. Local(t)'
    <2>1. Conversation(t)'
        BY <1>1, <1>5, <1>6 DEF Conversation
    <2>2. Settled(t)' /\ Told(t)'
        BY <1>1, <1>3, <1>4, <1>5 DEF Local, Settled, Told
    <2> QED BY <2>1, <2>2 DEF Local
<1>8. Protocol'
    BY <1>1, <1>2, <1>7, LocalFrame DEF Protocol, Local
<1>9. \A u \in Threads : Held(u) \subseteq Held(u)'
    BY <1>1, <1>2, HeldFrame DEF Held
<1> QED BY <1>1, <1>8, <1>9, HandedOutStays

LEMMA HandleEndConverses ==
    ASSUME TypeOK, Protocol, HandedOut, NEW t \in Threads, HandleError(t) \/ HandleExit(t)
    PROVE  Protocol' /\ HandedOut'
<1>1. /\ toPool[t] # << >> /\ Head(toPool[t]) \in {Error, Exit}
      /\ toPool'[t] = Tail(toPool[t])
      /\ finished'[t] = finished[t]
      /\ promise'[t] = "resolved" => promise[t] = "resolved"
      /\ thread'[t] = thread[t] /\ part'[t] = part[t] /\ task'[t] = task[t]
      /\ toWorker'[t] = toWorker[t]
      /\ remaining' = remaining
    BY DEF HandleError, HandleExit, Settle, TypeOK, pool, threads
<1>2. \A u \in Threads : u # t => Frame(u)
    BY DEF HandleError, HandleExit, Settle, TypeOK, threads, Frame
<1>3. Local(t) /\ toPool[t] \in Seq(Event)
    BY DEF Protocol, Local, TypeOK, Event
<1>4. /\ Head(toPool[t]) \in Elements(toPool[t])
      /\ Elements(toPool'[t]) \subseteq Elements(toPool[t])
    BY <1>1, <1>3, TailElements
<1>5. thread[t] = "gone"
    <2>1. toPool[t] # << >> /\ toPool[t] # <<Ready>> /\ toPool[t] # <<Done>>
        BY <1>1, ShortQueues DEF Ready, Done, Error, Exit
    <2>2. thread[t] \in Alive \cup {"none", "gone"}
        BY DEF TypeOK
    <2> QED BY <1>3, <2>1, <2>2 DEF Local, Conversation, Alive
<1>6. Local(t)'
    BY <1>1, <1>3, <1>4, <1>5 DEF Local, Conversation, Settled, Told
<1>7. Protocol'
    BY <1>1, <1>2, <1>6, LocalFrame DEF Protocol, Local
<1>8. \A u \in Threads : Held(u) \subseteq Held(u)'
    BY <1>1, <1>2, HeldFrame DEF Held
<1> QED BY <1>1, <1>7, <1>8, HandedOutStays

\* plan starts a day's threads, and leaves their conversations alone otherwise.
LEMMA PlanConverses ==
    ASSUME TypeOK, Protocol, HandedOut, Progress, PlanStep \/ MergeFails
    PROVE  Protocol' /\ HandedOut'
<1>1. UNCHANGED <<task, part, toWorker, toPool, promise, finished, remaining>>
    BY DEF PlanStep, MergeFails, StartPool, AllResolved, SomeRejected, AllStopped, MergeParts,
           WriteProvenance, threads, scans
<1>2. CASE StartPool
    <2>1. ASSUME NEW t \in Threads
          PROVE  Local(t)'
        <3>1. Local(t)
            BY DEF Protocol, Local
        <3>2. CASE t \in Today
            <4>1. thread[t] = "none" /\ thread'[t] = "starting"
                BY <1>2, <3>2 DEF StartPool, Progress, Today
            <4> QED BY <1>1, <3>1, <4>1 DEF Local, Conversation, Settled, Told
        <3>3. CASE t \notin Today
            <4>1. Frame(t)
                BY <1>1, <1>2, <3>3 DEF StartPool, Frame
            <4> QED BY <1>1, <3>1, <4>1, LocalFrame
        <3> QED BY <3>2, <3>3
    <2>2. \A t \in Threads : Held(t)' = Held(t)
        BY <1>1 DEF Held
    <2> QED BY <1>1, <2>1, <2>2, HandedOutStays DEF Protocol, Local
<1>3. CASE UNCHANGED thread
    <2>1. \A t \in Threads : Frame(t)
        BY <1>1, <1>3 DEF Frame
    <2> QED BY <1>1, <2>1, LocalFrame, HeldFrame, HandedOutStays DEF Protocol, Local
<1>4. StartPool \/ UNCHANGED thread
    BY DEF PlanStep, MergeFails, AllResolved, SomeRejected, AllStopped, MergeParts,
           WriteProvenance, threads
<1> QED BY <1>2, <1>3, <1>4

-----------------------------------------------------------------------------
(* Types *)

LEMMA ThreadStepType ==
    ASSUME TypeOK, Protocol, NEW t \in Threads, ThreadStep(t) \/ Stop(t)
    PROVE  TypeOK'
<1> USE DEF pool, threads, scans, results
<1>1. /\ toPool[t] \in Seq(Event) /\ toWorker[t] \in Seq(Message)
      /\ part[t] \in [stations : SUBSET Stations, closed : BOOLEAN]
      /\ {Ready, Done, Error, Exit} \subseteq Event
    BY DEF TypeOK, Event, Message
<1>2. \A m \in Event : Append(toPool[t], m) \in Seq(Event)
    BY <1>1, AppendElements
<1>3. \A events \in {<<Error, Exit>>, <<Exit>>} : toPool[t] \o events \in Seq(Event)
    BY <1>1, EventsElements
<1>4. toWorker[t] # << >> => Tail(toWorker[t]) \in Seq(Message) /\ Head(toWorker[t]) \in Message
    BY <1>1, TailElements
<1>5. CASE Boot(t)
    BY <1>1, <1>2, <1>5 DEF Boot, TypeOK, Alive, Event
<1>6. CASE TakeMessage(t)
    BY <1>4, <1>6 DEF TakeMessage, TypeOK, Alive, Message
<1>7. CASE StorePatterns(t)
    <2>1. task[t] \in Stations
        BY <1>7 DEF StorePatterns, Protocol, Told
    <2>2. [part[t] EXCEPT !.stations = @ \cup {task[t]}] \in [stations : SUBSET Stations, closed : BOOLEAN]
        BY <1>1, <2>1
    <2>3. part' \in [Threads -> [stations : SUBSET Stations, closed : BOOLEAN]]
        BY <1>7, <2>2 DEF StorePatterns, TypeOK
    <2>4. toPool' \in [Threads -> Seq(Event)]
        BY <1>1, <1>2, <1>7 DEF StorePatterns, TypeOK, Event
    <2>5. thread' \in [Threads -> Alive \cup {"none", "gone"}]
        BY <1>7 DEF StorePatterns, TypeOK, Alive
    <2> QED BY <1>7, <2>3, <2>4, <2>5 DEF StorePatterns, TypeOK, Event
<1>8. CASE CloseFile(t)
    <2>1. [part[t] EXCEPT !.closed = TRUE] \in [stations : SUBSET Stations, closed : BOOLEAN]
        BY <1>1
    <2>2. part' \in [Threads -> [stations : SUBSET Stations, closed : BOOLEAN]]
        BY <1>8, <2>1 DEF CloseFile, TypeOK
    <2>3. toPool' \in [Threads -> Seq(Event)]
        BY <1>1, <1>2, <1>8 DEF CloseFile, TypeOK, Event
    <2>4. thread' \in [Threads -> Alive \cup {"none", "gone"}]
        BY <1>8 DEF CloseFile, TypeOK, Alive
    <2> QED BY <1>8, <2>2, <2>3, <2>4 DEF CloseFile, TypeOK, Event
<1>9. CASE Terminate(t)
    BY <1>1, <1>2, <1>9 DEF Terminate, TypeOK, Alive, Event
<1>10. CASE Stop(t)
    <2>1. toPool' \in [Threads -> Seq(Event)]
        BY <1>3, <1>10 DEF Stop, TypeOK, Event
    <2>2. faults' \in 0..MaxFaults
        BY <1>10, MaxFaultsAssumption DEF Stop, TypeOK
    <2> QED BY <1>10, <2>1, <2>2 DEF Stop, TypeOK, Event
<1> QED BY <1>5, <1>6, <1>7, <1>8, <1>9, <1>10 DEF ThreadStep

LEMMA PoolStepType ==
    ASSUME TypeOK, NEW t \in Threads, PoolStep(t)
    PROVE  TypeOK'
<1> USE DEF pool, threads, scans, results
<1>1. toPool[t] \in Seq(Event) /\ toWorker[t] \in Seq(Message) /\ t[1] \in Days
    BY DEF TypeOK, Event, Message, Threads
<1>2. toPool[t] # << >> => Tail(toPool[t]) \in Seq(Event)
    BY <1>1, TailElements
<1>3. \A m \in Message : Append(toWorker[t], m) \in Seq(Message)
    BY <1>1, AppendElements
<1>4. CASE HandleReady(t)
    <2>1. CASE remaining[t[1]] = {} /\ toWorker' = [toWorker EXCEPT ![t] = Append(@, NullMessage)] /\ UNCHANGED remaining
        BY <1>2, <1>3, <1>4, <2>1 DEF HandleReady, TypeOK, Event, Message
    <2>2. ASSUME NEW station \in remaining[t[1]],
                 toWorker' = [toWorker EXCEPT ![t] = Append(@, station)],
                 remaining' = [remaining EXCEPT ![t[1]] = @ \ {station}]
          PROVE  TypeOK'
        <3>1. station \in Message
            BY <1>1 DEF TypeOK, Message
        <3>2. toWorker' \in [Threads -> Seq(Message)]
            BY <1>3, <2>2, <3>1 DEF TypeOK, Message
        <3>3. remaining' \in [Days -> SUBSET Stations]
            BY <1>1, <2>2 DEF TypeOK
        <3>4. toPool' \in [Threads -> Seq(Event)]
            BY <1>2, <1>4 DEF HandleReady, TypeOK, Event
        <3> QED BY <1>4, <3>2, <3>3, <3>4 DEF HandleReady, TypeOK, Event, Message
    <2> QED BY <1>4, <2>1, <2>2 DEF HandleReady
<1>5. CASE HandleDone(t)
    BY <1>2, <1>5 DEF HandleDone, Settle, TypeOK, Event
<1>6. CASE HandleError(t)
    BY <1>2, <1>6 DEF HandleError, Settle, TypeOK, Event
<1>7. CASE HandleExit(t)
    BY <1>2, <1>7 DEF HandleExit, Settle, TypeOK, Event
<1> QED BY <1>4, <1>5, <1>6, <1>7 DEF PoolStep

LEMMA PlanType ==
    ASSUME TypeOK, PlanStep \/ MergeFails
    PROVE  TypeOK'
<1> USE DEF pool, threads, scans, results
<1>1. CASE StartPool
    BY <1>1 DEF StartPool, TypeOK, Alive
<1>2. CASE AllResolved
    BY <1>2, LastDayAssumption DEF AllResolved, TypeOK, Days
<1>3. CASE SomeRejected
    BY <1>3 DEF SomeRejected, TypeOK
<1>4. CASE AllStopped
    BY <1>4, GivenTmpAssumption DEF AllStopped, TypeOK
<1>5. CASE MergeParts
    <2>1. output' \subseteq Days \X Stations
        BY <1>5 DEF MergeParts, InFile, TypeOK, Threads
    <2> QED BY <1>5, <2>1 DEF MergeParts, TypeOK
<1>6. CASE WriteProvenance
    BY <1>6, GivenTmpAssumption DEF WriteProvenance, TypeOK
<1>7. CASE MergeFails
    BY <1>7, GivenTmpAssumption, MaxFaultsAssumption DEF MergeFails, TypeOK
<1> QED BY <1>1, <1>2, <1>3, <1>4, <1>5, <1>6, <1>7 DEF PlanStep

-----------------------------------------------------------------------------
(* Where plan is *)

LEMMA ClosedWhereResolved ==
    ASSUME Protocol, NEW t \in Threads, promise[t] = "resolved"
    PROVE  part[t].closed
BY DEF Protocol, Settled

\* The heart of NothingLost: where every scan is resolved the files hold every
\* station of every day.
LEMMA AllInFiles ==
    ASSUME TypeOK, Protocol, HandedOut, \A t \in Threads : promise[t] = "resolved"
    PROVE  UNION {{t[1]} \X InFile(t) : t \in Threads} = Days \X Stations
<1>1. ASSUME NEW d \in Days, NEW station \in Stations
      PROVE  \E w \in Workers : station \in InFile(<<d, w>>)
    <2>1. \A w \in Workers : <<d, w>> \in Threads /\ <<d, w>>[1] = d
        BY DEF Threads
    <2>2. \A w \in Workers : part[<<d, w>>].closed
        BY <2>1, ClosedWhereResolved
    <2>3. remaining[d] = {}
        BY <2>1, <2>2, WorkersAssumption DEF Protocol, Settled
    <2>4. PICK w \in Workers : station \in Held(<<d, w>>)
        BY <2>3 DEF HandedOut
    <2>5. toWorker[<<d, w>>] = << >> /\ task[<<d, w>>] = NullMessage
        BY <2>1, <2>2 DEF Protocol, Settled
    <2>6. station \in part[<<d, w>>].stations
        BY <2>4, <2>5, StationsAssumption DEF Held, Elements
    <2> QED BY <2>2, <2>6 DEF InFile
<1>2. ASSUME NEW d \in Days, NEW station \in Stations
      PROVE  <<d, station>> \in UNION {{t[1]} \X InFile(t) : t \in Threads}
    <2>1. PICK w \in Workers : station \in InFile(<<d, w>>)
        BY <1>1
    <2>2. <<d, w>> \in Threads /\ <<d, w>>[1] = d
        BY DEF Threads
    <2>3. <<d, station>> \in {<<d, w>>[1]} \X InFile(<<d, w>>)
        BY <2>1, <2>2
    <2> QED BY <2>2, <2>3
<1>3. UNION {{t[1]} \X InFile(t) : t \in Threads} \subseteq Days \X Stations
    BY DEF InFile, TypeOK, Threads
<1> QED BY <1>2, <1>3

LEMMA ThreadProgress ==
    ASSUME TypeOK, Protocol, Progress, NEW t \in Threads,
           ThreadStep(t) \/ PoolStep(t) \/ Stop(t)
    PROVE  Progress'
<1>1. /\ UNCHANGED <<stage, day, output, provenance, directory>>
      /\ \A u \in Threads : promise[u] = "resolved" => promise'[u] = "resolved"
    BY DEF ThreadStep, Boot, TakeMessage, StorePatterns, CloseFile, Terminate, Stop, PoolStep,
           HandleReady, HandleDone, HandleError, HandleExit, Settle, TypeOK, pool, scans, results
<1>2. \A u \in Threads :
        /\ thread[u] \in {"none", "gone"} => thread'[u] = thread[u]
        /\ part[u].closed => part'[u].closed
    <2>1. CASE PoolStep(t)
        BY <2>1 DEF PoolStep, HandleReady, HandleDone, HandleError, HandleExit, threads
    <2>2. CASE Boot(t) \/ TakeMessage(t) \/ Terminate(t) \/ Stop(t)
        BY <2>2 DEF Boot, TakeMessage, Terminate, Stop, TypeOK, Alive
    <2>3. CASE StorePatterns(t)
        <3>1. part[t] \in [stations : SUBSET Stations, closed : BOOLEAN]
            BY DEF TypeOK
        <3> QED BY <2>3, <3>1 DEF StorePatterns, TypeOK
    <2>4. CASE CloseFile(t)
        <3>1. part[t] \in [stations : SUBSET Stations, closed : BOOLEAN]
            BY DEF TypeOK
        <3> QED BY <2>4, <3>1 DEF CloseFile, TypeOK
    <2> QED BY <2>1, <2>2, <2>3, <2>4 DEF ThreadStep
<1> QED BY <1>1, <1>2 DEF Progress

LEMMA PlanProgress ==
    ASSUME TypeOK, Protocol, HandedOut, Progress, PlanStep \/ MergeFails
    PROVE  Progress'
<1>1. \A t \in Threads : t[1] \in Days
    BY DEF Threads
<1>2. day \in Nat /\ LastDay \in Nat
    BY LastDayAssumption DEF TypeOK, Days
<1>3. CASE StartPool
    BY <1>1, <1>2, <1>3 DEF StartPool, Progress, Today, scans, results
<1>4. CASE AllResolved
    <2>1. \A t \in Threads : t[1] <= day => promise[t] = "resolved"
        BY <1>1, <1>2, <1>4 DEF AllResolved, Progress, Today, Days
    <2>2. CASE day < LastDay /\ day' = day + 1 /\ stage' = "starting"
        BY <1>1, <1>2, <1>4, <2>1, <2>2 DEF AllResolved, Progress, Days, scans, threads, results
    <2>3. CASE day = LastDay /\ stage' = "merging" /\ UNCHANGED day
        BY <1>1, <1>2, <1>4, <2>1, <2>3 DEF AllResolved, Progress, Days, scans, threads, results
    <2> QED BY <1>4, <2>2, <2>3 DEF AllResolved
<1>5. CASE SomeRejected
    BY <1>5 DEF SomeRejected, Progress, threads, results
<1>6. CASE AllStopped
    <2>1. ASSUME NEW t \in Threads
          PROVE  thread[t] \in {"none", "gone"} \/ part[t].closed
        <3>1. CASE t[1] < day
            BY <3>1, ClosedWhereResolved DEF Progress
        <3>2. CASE t[1] = day
            BY <1>6, <3>2 DEF AllStopped, Today
        <3>3. CASE t[1] > day
            BY <3>3 DEF Progress
        <3> QED BY <1>1, <1>2, <3>1, <3>2, <3>3 DEF Days
    <2> QED BY <1>6, <2>1 DEF AllStopped, Progress, threads, scans
<1>7. CASE MergeParts
    <2>1. \A t \in Threads : promise[t] = "resolved"
        BY <1>7 DEF MergeParts, Progress
    <2>2. output' = Days \X Stations
        BY <1>7, <2>1, AllInFiles DEF MergeParts
    <2> QED BY <1>7, <2>1, <2>2 DEF MergeParts, Progress, threads, scans
<1>8. CASE WriteProvenance
    BY <1>8 DEF WriteProvenance, Progress, threads, scans
<1>9. CASE MergeFails
    <2>1. \A t \in Threads : part[t].closed
        BY <1>9, ClosedWhereResolved DEF MergeFails, Progress
    <2> QED BY <1>9, <2>1 DEF MergeFails, Progress, threads, scans
<1> QED BY <1>3, <1>4, <1>5, <1>6, <1>7, <1>8, <1>9 DEF PlanStep

-----------------------------------------------------------------------------
(* Who is to blame for a failure *)

\* What Blame reads of a thread.
Blameless(t) ==
    /\ Error \in Elements(toPool[t]) => faults > 0
    /\ Exit \in Elements(toPool[t]) => faults > 0 \/ finished[t]
    /\ terminated[t] => faults > 0 \/ finished[t]
    /\ promise[t] = "rejected" => faults > 0

LEMMA ThreadBlame ==
    ASSUME TypeOK, Protocol, Blame, NEW t \in Threads, ThreadStep(t) \/ Stop(t)
    PROVE  Blame'
<1>1. UNCHANGED <<stage, promise, finished, terminated>> /\ faults' >= faults /\ faults \in Nat /\ faults' \in Nat
    BY MaxFaultsAssumption
       DEF ThreadStep, Boot, TakeMessage, StorePatterns, CloseFile, Terminate, Stop, TypeOK, pool, scans
<1>2. \A u \in Threads : u # t => toPool'[u] = toPool[u]
    BY DEF ThreadStep, Boot, TakeMessage, StorePatterns, CloseFile, Terminate, Stop, TypeOK
<1>3. toPool[t] \in Seq(Event) /\ {Ready, Done, Error, Exit} \subseteq Event
    BY DEF TypeOK, Event
<1>4. Blameless(t)'
    <2>1. CASE Stop(t)
        BY <1>1, <2>1 DEF Stop, Blameless, TypeOK
    <2>2. CASE TakeMessage(t)
        BY <1>1, <2>2 DEF TakeMessage, Blame, Blameless
    <2>3. CASE Boot(t) \/ StorePatterns(t) \/ CloseFile(t)
        <3>1. PICK m \in {Ready, Done} : toPool'[t] = Append(toPool[t], m)
            BY <2>3 DEF Boot, StorePatterns, CloseFile, TypeOK
        <3>2. Elements(toPool'[t]) = Elements(toPool[t]) \cup {m}
            BY <1>3, <3>1, AppendElements
        <3> QED BY <1>1, <3>2 DEF Blame, Blameless, Ready, Done, Error, Exit
    <2>4. CASE Terminate(t)
        <3>1. toPool'[t] = Append(toPool[t], Exit) /\ terminated[t]
            BY <2>4 DEF Terminate, TypeOK
        <3>2. Elements(toPool'[t]) = Elements(toPool[t]) \cup {Exit}
            BY <1>3, <3>1, AppendElements
        <3> QED BY <1>1, <3>1, <3>2 DEF Blame, Blameless, Error, Exit
    <2> QED BY <2>1, <2>2, <2>3, <2>4 DEF ThreadStep
<1>5. \A u \in Threads : u # t => Blameless(u)'
    BY <1>1, <1>2 DEF Blame, Blameless
<1> QED BY <1>1, <1>4, <1>5 DEF Blame, Blameless

LEMMA PoolBlame ==
    ASSUME TypeOK, Protocol, Blame, NEW t \in Threads, PoolStep(t)
    PROVE  Blame'
<1>1. UNCHANGED <<stage, faults>>
    BY DEF PoolStep, HandleReady, HandleDone, HandleError, HandleExit, pool
<1>2. /\ toPool[t] # << >>
      /\ toPool'[t] = Tail(toPool[t])
      /\ toPool[t] \in Seq(Event)
    BY DEF PoolStep, HandleReady, HandleDone, HandleError, HandleExit, TypeOK, Event
<1>3. /\ Elements(toPool'[t]) \subseteq Elements(toPool[t])
      /\ Head(toPool[t]) \in Elements(toPool[t])
    BY <1>2, TailElements
<1>4. \A u \in Threads : u # t =>
        /\ toPool'[u] = toPool[u] /\ finished'[u] = finished[u]
        /\ terminated'[u] = terminated[u] /\ promise'[u] = promise[u]
    BY DEF PoolStep, HandleReady, HandleDone, HandleError, HandleExit, Settle, TypeOK, scans
<1>5. Blameless(t)
    BY DEF Blame, Blameless
<1>6. Blameless(t)'
    <2>1. CASE HandleReady(t)
        BY <1>1, <1>3, <1>5, <2>1 DEF HandleReady, Blameless, scans
    <2>2. CASE HandleDone(t)
        <3>1. finished'[t] /\ (promise'[t] = "rejected" => promise[t] = "rejected")
            BY <2>2 DEF HandleDone, Settle, TypeOK
        <3> QED BY <1>1, <1>3, <1>5, <3>1 DEF Blameless
    <2>3. CASE HandleError(t)
        BY <1>1, <1>3, <1>5, <2>3 DEF HandleError, Blameless
    <2>4. CASE HandleExit(t)
        <3>1. /\ UNCHANGED <<finished, terminated>>
              /\ Head(toPool[t]) = Exit
              /\ promise'[t] = "rejected" => promise[t] = "rejected" \/ ~finished[t]
            BY <2>4 DEF HandleExit, Settle, TypeOK
        <3> QED BY <1>1, <1>3, <1>5, <3>1 DEF Blameless
    <2> QED BY <2>1, <2>2, <2>3, <2>4 DEF PoolStep
<1>7. \A u \in Threads : u # t => Blameless(u)'
    BY <1>1, <1>4 DEF Blame, Blameless
<1> QED BY <1>1, <1>6, <1>7 DEF Blame, Blameless

LEMMA PlanBlame ==
    ASSUME TypeOK, Blame, PlanStep \/ MergeFails
    PROVE  Blame'
<1>1. UNCHANGED <<toPool, finished, promise>>
    BY DEF PlanStep, MergeFails, StartPool, AllResolved, SomeRejected, AllStopped, MergeParts,
           WriteProvenance, scans
<1>2. CASE SomeRejected
    <2>1. faults > 0 /\ faults' = faults
        BY <1>2 DEF SomeRejected, Blame, Today
    <2> QED BY <1>1, <2>1 DEF Blame
<1>3. CASE MergeFails
    <2>1. faults' > 0
        BY <1>3, MaxFaultsAssumption DEF MergeFails, TypeOK
    <2> QED BY <1>1, <2>1 DEF Blame
<1>4. CASE AllStopped
    BY <1>1, <1>4 DEF AllStopped, Blame, scans
<1>5. CASE StartPool \/ AllResolved \/ MergeParts \/ WriteProvenance
    <2>1. UNCHANGED <<faults, terminated>> /\ stage' \notin {"stopping", "thrown"}
        BY <1>5 DEF StartPool, AllResolved, MergeParts, WriteProvenance, scans
    <2> QED BY <1>1, <2>1 DEF Blame
<1> QED BY <1>2, <1>3, <1>4, <1>5 DEF PlanStep

-----------------------------------------------------------------------------

LEMMA InitEstablishes == Init => IInv
<1> SUFFICES ASSUME Init PROVE IInv
    OBVIOUS
<1>1. TypeOK
    <2>1. /\ toWorker \in [Threads -> Seq(Stations \cup {NullMessage})]
          /\ toPool \in [Threads -> Seq({Ready, Done, Error, Exit})]
        BY DEF Init
    <2>2. day \in Days /\ faults \in 0..MaxFaults
        BY LastDayAssumption, MaxFaultsAssumption DEF Init, Days
    <2>3. part \in [Threads -> [stations : SUBSET Stations, closed : BOOLEAN]]
        BY DEF Init
    <2> QED BY <2>1, <2>2, <2>3 DEF Init, TypeOK
<1>2. Protocol
    BY ShortQueues DEF Init, Protocol, Conversation, Settled, Told, Elements
<1>3. HandedOut
    BY DEF Init, HandedOut
<1>4. Progress
    BY DEF Init, Progress, Threads, Days
<1>5. Blame
    BY ShortQueues DEF Init, Blame, Elements
<1> QED BY <1>1, <1>2, <1>3, <1>4, <1>5 DEF IInv

\* The facts above hold in every state of a run of plan.
THEOREM Invariance == Spec => []IInv
<1>1. IInv /\ [Next]_vars => IInv'
    <2> SUFFICES ASSUME IInv, [Next]_vars PROVE IInv'
        OBVIOUS
    <2> USE DEF IInv
    <2>1. ASSUME NEW t \in Threads, ThreadStep(t)
          PROVE  IInv'
        <3>1. Protocol' /\ HandedOut'
            BY <2>1, BootConverses, TakeMessageConverses, StorePatternsConverses,
               CloseFileConverses, GoneConverses DEF ThreadStep
        <3> QED BY <2>1, <3>1, ThreadStepType, ThreadProgress, ThreadBlame
    <2>2. ASSUME NEW t \in Threads, PoolStep(t)
          PROVE  IInv'
        <3>1. Protocol' /\ HandedOut'
            BY <2>2, HandleReadyConverses, HandleDoneConverses, HandleEndConverses DEF PoolStep
        <3> QED BY <2>2, <3>1, PoolStepType, ThreadProgress, PoolBlame
    <2>3. ASSUME NEW t \in Threads, Stop(t)
          PROVE  IInv'
        BY <2>3, GoneConverses, ThreadStepType, ThreadProgress, ThreadBlame
    <2>4. CASE PlanStep \/ MergeFails
        BY <2>4, PlanConverses, PlanType, PlanProgress, PlanBlame
    <2>5. CASE UNCHANGED vars
        <3> USE <2>5 DEF vars, pool, threads, scans, results
        <3>1. TypeOK'
            BY DEF TypeOK
        <3>2. Protocol'
            BY DEF Protocol, Conversation, Settled, Told
        <3>3. HandedOut'
            BY DEF HandedOut, Held
        <3>4. Progress' /\ Blame'
            BY DEF Progress, Blame
        <3> QED BY <3>1, <3>2, <3>3, <3>4
    <2> QED BY <2>1, <2>2, <2>3, <2>4, <2>5 DEF Next
<1> QED BY InitEstablishes, <1>1, PTL DEF Spec

\* Every variable keeps its type.
THEOREM TypeCorrect == Spec => []TypeOK
BY Invariance, PTL DEF IInv

\* A shard that plan returns, or that has its provenance beside it, holds the
\* patterns of every station on every day, whatever order the threads asked in.
THEOREM NothingLostCorrect == Spec => []NothingLost
<1>1. IInv => NothingLost
    BY DEF IInv, Progress, NothingLost
<1> QED BY Invariance, <1>1, PTL

\* No thread writes to a working directory that is gone, and none to a file that is
\* being merged.
THEOREM FilesLeftAloneCorrect == Spec => []FilesLeftAlone
<1>1. IInv => FilesLeftAlone
    <2> SUFFICES ASSUME IInv, NEW t \in Threads, stage \in {"merging", "describing"} \/ ~directory
                 PROVE  thread[t] \in {"none", "gone"} \/ part[t].closed
        BY DEF FilesLeftAlone
    <2>1. CASE stage \in {"merging", "describing", "returned"}
        BY <2>1, ClosedWhereResolved DEF IInv, Progress
    <2>2. CASE stage = "thrown"
        BY <2>2 DEF IInv, Progress
    <2> QED BY <2>1, <2>2 DEF IInv, Progress
<1> QED BY Invariance, <1>1, PTL

\* A living thread has exactly one thing to do: a message that waits for it, one it
\* handles, one of its own the pool has not handled, or the end of its day.
THEOREM OneAtATimeCorrect == Spec => []OneAtATime
<1>1. IInv => OneAtATime
    <2> SUFFICES ASSUME IInv, NEW t \in Threads, thread[t] \in Alive
                 PROVE  Occupied(t) = 1
        BY DEF OneAtATime
    <2>1. Conversation(t) /\ finished[t] \in BOOLEAN
        BY DEF IInv, Protocol, TypeOK
    <2> DEFINE handling == IF thread[t] \in {"starting", "planning", "closing"} THEN 1 ELSE 0
               ended == IF finished[t] THEN 1 ELSE 0
    <2>2. Len(<< >>) = 0 /\ \A m : Len(<<m>>) = 1
        OBVIOUS
    <2>3. \/ Len(toWorker[t]) = 0 /\ Len(toPool[t]) = 0 /\ handling = 1 /\ ended = 0
          \/ Len(toWorker[t]) = 0 /\ Len(toPool[t]) = 1 /\ handling = 0 /\ ended = 0
          \/ Len(toWorker[t]) = 1 /\ Len(toPool[t]) = 0 /\ handling = 0 /\ ended = 0
          \/ Len(toWorker[t]) = 0 /\ Len(toPool[t]) = 0 /\ handling = 0 /\ ended = 1
        <3>1. CASE thread[t] \in {"starting", "planning", "closing"}
            BY <2>1, <2>2, <3>1 DEF Conversation
        <3>2. CASE thread[t] = "waiting"
            <4>1. handling = 0 /\ ended = 0
                BY <2>1, <3>2 DEF Conversation
            <4>2. \/ Len(toWorker[t]) = 0 /\ Len(toPool[t]) = 1
                  \/ Len(toWorker[t]) = 1 /\ Len(toPool[t]) = 0
                BY <2>1, <2>2, <3>2 DEF Conversation
            <4> QED BY <4>1, <4>2
        <3>3. CASE thread[t] = "idle"
            BY <2>1, <2>2, <3>3 DEF Conversation
        <3> QED BY <3>1, <3>2, <3>3 DEF Alive
    <2>4. Occupied(t) = Len(toWorker[t]) + Len(toPool[t]) + handling + ended
        BY DEF Occupied
    <2>5. PICK a, b, c, d \in {0, 1} :
            /\ Len(toWorker[t]) = a /\ Len(toPool[t]) = b /\ handling = c /\ ended = d
            /\ a + b + c + d = 1
        <3> HIDE DEF handling, ended
        <3> QED BY <2>3
    <2>6. Occupied(t) = a + b + c + d
        BY <2>4, <2>5
    <2> QED BY <2>5, <2>6
<1> QED BY Invariance, <1>1, PTL

\* plan fails only where a thread stopped by itself or a merge failed.
THEOREM FailsOnlyOnFaultCorrect == Spec => []FailsOnlyOnFault
<1>1. IInv => FailsOnlyOnFault
    BY DEF IInv, Blame, FailsOnlyOnFault
<1> QED BY Invariance, <1>1, PTL
=============================================================================
