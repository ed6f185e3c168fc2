----------------------------- MODULE WorkerPool -----------------------------
(***************************************************************************)
(* One shard of the transfer patterns (apps/transfer-patterns, api.plan):  *)
(* for each day a pool of threads scans the stations, each thread writing  *)
(* the patterns it finds to a file of its own in a working directory, and  *)
(* the files of every day are then merged into the shard.  pool.ts is the  *)
(* side of the pool, worker.ts that of a thread; a queue stands for each   *)
(* direction of the port between them, and the `error` and `exit` events   *)
(* of a thread come after the messages it posted.                          *)
(*                                                                         *)
(* What a scan finds is abstracted to which station was scanned.           *)
(***************************************************************************)
EXTENDS Naturals, Sequences

CONSTANTS
    Stations,   \* the shard's stations, as strings
    Workers,    \* threads of a pool
    LastDay,    \* days to plan, numbered from 1
    GivenTmp,   \* the working directory was given, so it is kept
    MaxFaults   \* threads that stop by themselves and merges that fail

Ready == "ready"
Done == "done"
NullMessage == "null"
Error == "error"
Exit == "exit"

ASSUME StationsAssumption == NullMessage \notin Stations
ASSUME WorkersAssumption == Workers # {}
ASSUME LastDayAssumption == LastDay \in Nat \ {0}
ASSUME GivenTmpAssumption == GivenTmp \in BOOLEAN
ASSUME MaxFaultsAssumption == MaxFaults \in Nat

Days == 1..LastDay
Threads == Days \X Workers

VARIABLES
    stage,      \* what plan is doing
    day,        \* the day being planned
    remaining,  \* stations of each day not handed out
    thread,     \* what a thread is doing
    task,       \* the message a thread is handling
    toWorker,   \* messages posted to a thread
    toPool,     \* messages and events of a thread the pool has not handled
    promise,    \* of a thread's scan
    finished,   \* the pool has heard that a thread is done
    terminated, \* the pool has asked for the thread to be terminated
    part,       \* a thread's file: the stations written, and whether it is closed
    output,     \* the scans in the merged shard
    provenance, \* the shard has been said to be what it is
    directory,  \* the working directory exists
    faults

pool == <<stage, day, remaining>>
threads == <<thread, task, part>>
scans == <<promise, finished, terminated>>
results == <<output, provenance, directory>>
vars == <<pool, threads, toWorker, toPool, scans, results, faults>>

Alive == {"starting", "waiting", "planning", "closing", "idle"}
Today == {t \in Threads : t[1] = day}

-----------------------------------------------------------------------------
(* A thread *)

Boot(t) ==
    /\ thread[t] = "starting"
    /\ thread' = [thread EXCEPT ![t] = "waiting"]
    /\ toPool' = [toPool EXCEPT ![t] = Append(@, Ready)]
    /\ UNCHANGED <<pool, task, part, toWorker, scans, results, faults>>

\* Mutant: the scan is not waited for.
TakeMessageReady(t) ==
    /\ thread[t] = "waiting" /\ toWorker[t] # << >>
    /\ task' = [task EXCEPT ![t] = Head(toWorker[t])]
    /\ toWorker' = [toWorker EXCEPT ![t] = Tail(@)]
    /\ thread' = [thread EXCEPT ![t] = IF Head(toWorker[t]) = NullMessage THEN "closing" ELSE "planning"]
    /\ toPool' = [toPool EXCEPT ![t] = IF Head(toWorker[t]) = NullMessage THEN @ ELSE Append(@, Ready)]
    /\ UNCHANGED <<pool, part, scans, results, faults>>

\* A station to scan, or null where nothing is left.
TakeMessage(t) ==
    /\ thread[t] = "waiting" /\ toWorker[t] # << >>
    /\ task' = [task EXCEPT ![t] = Head(toWorker[t])]
    /\ toWorker' = [toWorker EXCEPT ![t] = Tail(@)]
    /\ thread' = [thread EXCEPT ![t] = IF Head(toWorker[t]) = NullMessage THEN "closing" ELSE "planning"]
    /\ UNCHANGED <<pool, part, toPool, scans, results, faults>>

\* The patterns go to the stream of the file; only closing it settles them there.
StorePatterns(t) ==
    /\ thread[t] = "planning"
    /\ part' = [part EXCEPT ![t].stations = @ \cup {task[t]}]
    /\ toPool' = [toPool EXCEPT ![t] = Append(@, Ready)]
    /\ thread' = [thread EXCEPT ![t] = "waiting"]
    /\ UNCHANGED <<pool, task, toWorker, scans, results, faults>>

\* Mutant: the thread says it is done and leaves the file to close.
CloseFileLater(t) ==
    /\ thread[t] = "closing"
    /\ toPool' = [toPool EXCEPT ![t] = Append(@, Done)]
    /\ thread' = [thread EXCEPT ![t] = "idle"]
    /\ UNCHANGED <<pool, task, part, toWorker, scans, results, faults>>

CloseFile(t) ==
    /\ thread[t] = "closing"
    /\ part' = [part EXCEPT ![t].closed = TRUE]
    /\ toPool' = [toPool EXCEPT ![t] = Append(@, Done)]
    /\ thread' = [thread EXCEPT ![t] = "idle"]
    /\ UNCHANGED <<pool, task, toWorker, scans, results, faults>>

\* A thread that throws raises `error` and then exits; one that is stopped exits
\* without a word.
Stop(t) ==
    /\ thread[t] \in Alive
    /\ faults < MaxFaults
    /\ faults' = faults + 1
    /\ thread' = [thread EXCEPT ![t] = "gone"]
    /\ \E events \in {<<Error, Exit>>, <<Exit>>} :
          toPool' = [toPool EXCEPT ![t] = @ \o events]
    /\ UNCHANGED <<pool, task, part, toWorker, scans, results>>

\* A thread the pool terminates goes on until it is.
Terminate(t) ==
    /\ thread[t] \in Alive /\ terminated[t]
    /\ thread' = [thread EXCEPT ![t] = "gone"]
    /\ toPool' = [toPool EXCEPT ![t] = Append(@, Exit)]
    /\ UNCHANGED <<pool, task, part, toWorker, scans, results, faults>>

-----------------------------------------------------------------------------
(* The pool *)

\* A settled promise stays as it is.
Settle(t, how) ==
    promise' = [promise EXCEPT ![t] = IF @ = "pending" THEN how ELSE @]

\* The thread asks for a station.
HandleReady(t) ==
    /\ toPool[t] # << >> /\ Head(toPool[t]) = Ready
    /\ toPool' = [toPool EXCEPT ![t] = Tail(@)]
    /\ \/ /\ remaining[t[1]] = {}
          /\ toWorker' = [toWorker EXCEPT ![t] = Append(@, NullMessage)]
          /\ UNCHANGED remaining
       \/ \E station \in remaining[t[1]] :
          /\ toWorker' = [toWorker EXCEPT ![t] = Append(@, station)]
          /\ remaining' = [remaining EXCEPT ![t[1]] = @ \ {station}]
    /\ UNCHANGED <<stage, day, threads, scans, results, faults>>

\* Mutant: the end of the thread is left to say that it is done.
HandleDoneSilently(t) ==
    /\ toPool[t] # << >> /\ Head(toPool[t]) = Done
    /\ toPool' = [toPool EXCEPT ![t] = Tail(@)]
    /\ terminated' = [terminated EXCEPT ![t] = TRUE]
    /\ UNCHANGED <<pool, threads, toWorker, promise, finished, results, faults>>

HandleDone(t) ==
    /\ toPool[t] # << >> /\ Head(toPool[t]) = Done
    /\ toPool' = [toPool EXCEPT ![t] = Tail(@)]
    /\ finished' = [finished EXCEPT ![t] = TRUE]
    /\ Settle(t, "resolved")
    /\ terminated' = [terminated EXCEPT ![t] = TRUE]
    /\ UNCHANGED <<pool, threads, toWorker, results, faults>>

HandleError(t) ==
    /\ toPool[t] # << >> /\ Head(toPool[t]) = Error
    /\ toPool' = [toPool EXCEPT ![t] = Tail(@)]
    /\ Settle(t, "rejected")
    /\ UNCHANGED <<pool, threads, toWorker, finished, terminated, results, faults>>

\* Mutant: the pool listens for errors only.
HandleExitNot(t) ==
    /\ toPool[t] # << >> /\ Head(toPool[t]) = Exit
    /\ toPool' = [toPool EXCEPT ![t] = Tail(@)]
    /\ UNCHANGED <<pool, threads, toWorker, scans, results, faults>>

HandleExit(t) ==
    /\ toPool[t] # << >> /\ Head(toPool[t]) = Exit
    /\ toPool' = [toPool EXCEPT ![t] = Tail(@)]
    /\ IF finished[t] THEN UNCHANGED promise ELSE Settle(t, "rejected")
    /\ UNCHANGED <<pool, threads, toWorker, finished, terminated, results, faults>>

-----------------------------------------------------------------------------
(* plan *)

\* A thread for each file of the day.
StartPool ==
    /\ stage = "starting"
    /\ thread' = [t \in Threads |-> IF t \in Today THEN "starting" ELSE thread[t]]
    /\ stage' = "scanning"
    /\ UNCHANGED <<day, remaining, task, part, toWorker, toPool, scans, results, faults>>

\* Mutant: a day past the last is planned.
AllResolvedOn ==
    /\ stage = "scanning"
    /\ \A t \in Today : promise[t] = "resolved"
    /\ \/ day <= LastDay /\ day' = day + 1 /\ stage' = "starting"
       \/ day > LastDay /\ stage' = "merging" /\ UNCHANGED day
    /\ UNCHANGED <<remaining, threads, toWorker, toPool, scans, results, faults>>

\* The next day, or the merge once every day is planned.
AllResolved ==
    /\ stage = "scanning"
    /\ \A t \in Today : promise[t] = "resolved"
    /\ \/ day < LastDay /\ day' = day + 1 /\ stage' = "starting"
       \/ day = LastDay /\ stage' = "merging" /\ UNCHANGED day
    /\ UNCHANGED <<remaining, threads, toWorker, toPool, scans, results, faults>>

\* One scan has failed, so the other threads of the day are terminated.
SomeRejected ==
    /\ stage = "scanning"
    /\ \E t \in Today : promise[t] = "rejected"
    /\ stage' = "stopping"
    /\ terminated' = [t \in Threads |-> t \in Today \/ terminated[t]]
    /\ UNCHANGED <<day, remaining, threads, toWorker, toPool, promise, finished, results, faults>>

\* Mutant: the threads are not waited for.
AllStoppedSoon ==
    /\ stage = "stopping"
    /\ stage' = "thrown"
    /\ directory' = GivenTmp
    /\ UNCHANGED <<day, remaining, threads, toWorker, toPool, scans, output, provenance, faults>>

\* The directory goes only once every thread of the day has.
AllStopped ==
    /\ stage = "stopping"
    /\ \A t \in Today : thread[t] = "gone"
    /\ stage' = "thrown"
    /\ directory' = GivenTmp
    /\ UNCHANGED <<day, remaining, threads, toWorker, toPool, scans, output, provenance, faults>>

\* What is still in the stream of an open file is not in the file.
InFile(t) == IF part[t].closed THEN part[t].stations ELSE {}

MergeParts ==
    /\ stage = "merging"
    /\ output' = UNION {{t[1]} \X InFile(t) : t \in Threads}
    /\ stage' = "describing"
    /\ UNCHANGED <<day, remaining, threads, toWorker, toPool, scans, provenance, directory, faults>>

\* The shard says what it is only once it is written.
WriteProvenance ==
    /\ stage = "describing"
    /\ provenance' = TRUE
    /\ stage' = "returned"
    /\ directory' = GivenTmp
    /\ UNCHANGED <<day, remaining, threads, toWorker, toPool, scans, output, faults>>

MergeFails ==
    /\ stage \in {"merging", "describing"}
    /\ faults < MaxFaults
    /\ faults' = faults + 1
    /\ stage' = "thrown"
    /\ directory' = GivenTmp
    /\ UNCHANGED <<day, remaining, threads, toWorker, toPool, scans, output, provenance>>

-----------------------------------------------------------------------------

Init ==
    /\ stage = "starting"
    /\ day = 1
    /\ remaining = [d \in Days |-> Stations]
    /\ thread = [t \in Threads |-> "none"]
    /\ task = [t \in Threads |-> NullMessage]
    /\ toWorker = [t \in Threads |-> << >>]
    /\ toPool = [t \in Threads |-> << >>]
    /\ promise = [t \in Threads |-> "pending"]
    /\ finished = [t \in Threads |-> FALSE]
    /\ terminated = [t \in Threads |-> FALSE]
    /\ part = [t \in Threads |-> [stations |-> {}, closed |-> FALSE]]
    /\ output = {}
    /\ provenance = FALSE
    /\ directory = TRUE
    /\ faults = 0

ThreadStep(t) == Boot(t) \/ TakeMessage(t) \/ StorePatterns(t) \/ CloseFile(t) \/ Terminate(t)
PoolStep(t) == HandleReady(t) \/ HandleDone(t) \/ HandleError(t) \/ HandleExit(t)
PlanStep == StartPool \/ AllResolved \/ SomeRejected \/ AllStopped \/ MergeParts \/ WriteProvenance

Next ==
    \/ \E t \in Threads : ThreadStep(t) \/ PoolStep(t) \/ Stop(t)
    \/ PlanStep
    \/ MergeFails

\* A thread and the pool's event loop run on their own; nothing obliges a fault.
Fairness ==
    /\ \A t \in Threads : WF_vars(ThreadStep(t)) /\ WF_vars(PoolStep(t))
    /\ WF_vars(PlanStep)

Spec == Init /\ [][Next]_vars /\ Fairness

-----------------------------------------------------------------------------

\* Every variable keeps its type.
TypeOK ==
    /\ stage \in {"starting", "scanning", "stopping", "merging", "describing", "returned", "thrown"}
    /\ day \in Days
    /\ remaining \in [Days -> SUBSET Stations]
    /\ thread \in [Threads -> Alive \cup {"none", "gone"}]
    /\ task \in [Threads -> Stations \cup {NullMessage}]
    /\ toWorker \in [Threads -> Seq(Stations \cup {NullMessage})]
    /\ toPool \in [Threads -> Seq({Ready, Done, Error, Exit})]
    /\ promise \in [Threads -> {"pending", "resolved", "rejected"}]
    /\ finished \in [Threads -> BOOLEAN]
    /\ terminated \in [Threads -> BOOLEAN]
    /\ part \in [Threads -> [stations : SUBSET Stations, closed : BOOLEAN]]
    /\ output \subseteq Days \X Stations
    /\ provenance \in BOOLEAN
    /\ directory \in BOOLEAN
    /\ faults \in 0..MaxFaults

\* A shard that is said to be whole holds the patterns of every station on every
\* day (api.plan).
NothingLost == stage = "returned" \/ provenance => output = Days \X Stations

\* Nothing writes in the working directory once it is removed, and no file is
\* merged that a thread still writes (pool.ts:86, worker.ts:50).
FilesLeftAlone ==
    \A t \in Threads :
        stage \in {"merging", "describing"} \/ ~directory =>
            thread[t] \in {"none", "gone"} \/ part[t].closed

\* How many things a thread, its messages and the pool have left to do for it.
Occupied(t) ==
    Len(toWorker[t]) + Len(toPool[t])
      + (IF thread[t] \in {"starting", "planning", "closing"} THEN 1 ELSE 0)
      + (IF finished[t] THEN 1 ELSE 0)

\* While a thread lives there is one of them: it is never handed a station while
\* it scans another, and never left without one before it is done.
OneAtATime == \A t \in Threads : thread[t] \in Alive => Occupied(t) = 1

\* A run in which nothing went wrong does not fail: that a thread is gone after it
\* was done is no failure.
FailsOnlyOnFault == stage \in {"stopping", "thrown"} => faults > 0

\* plan settles, whatever stops in it.
Ends == <>(stage \in {"returned", "thrown"})
=============================================================================
