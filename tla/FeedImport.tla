----------------------------- MODULE FeedImport -----------------------------
(***************************************************************************)
(* The timetable importer of dtd2mysql: a scheduled process that lists the *)
(* archives on the feed server, works out which of them the log table says *)
(* are still to do (DownloadCommand), and imports them one after another   *)
(* (DownloadAndProcessCommand, ImportFeedCommand) into a database that     *)
(* outlives it.                                                            *)
(*                                                                         *)
(* An archive holds several files, read concurrently.  Each file here is   *)
(* one that describes trains: its BS records are rows of a schedule table  *)
(* and the LO, LI and LT records after each of them rows of a stop time    *)
(* table, tied to the schedule by an id the reader counts for itself.  MCA *)
(* and CFA write schedule and stop_time, ZTR writes z_schedule and         *)
(* z_stop_time.                                                            *)
(*                                                                         *)
(* Rows are buffered per table and per action, written in transactions     *)
(* when a buffer is full or the file ends, and whatever the process had    *)
(* not written is lost with it.                                            *)
(***************************************************************************)
EXTENDS TableRows, FiniteSets

CONSTANTS
    Files,        \* the files of an archive that describe trains
    ActionMapped, \* those whose schedule record reads its action from the line
    Archives,     \* the server's archives, in the order they are published
    FlushLimit,   \* rows a buffer holds before it is written
    MaxFaults,    \* bound on failed writes, refused lines and crashes
    MaxOther,     \* bound on the imports of other feeds
    MaxUnsure     \* rows of the log below which its query may fail

\* A line of a file: a schedule, or a call of the schedule before it.
Actions == {"Insert", "Update", "Delete"}
Line == [table : {"schedule"}, action : Actions, key : Keys]
          \cup [table : {"stop_time"}, action : {"Insert"}, key : {NoKey}]

\* Every call follows the schedule it is of, and a schedule that is deleted has
\* none.
CallsFollowSchedules(lines) ==
    \A i \in DOMAIN lines : \E j \in 1..i :
        /\ lines[j].table = "schedule"
        /\ \A k \in (j + 1)..i : lines[k].table = "stop_time"
        /\ j < i => lines[j].action # "Delete"

ASSUME FilesAssumption == ActionMapped \subseteq Files
ASSUME ArchivesAssumption ==
    /\ Archives \in Seq([full : BOOLEAN, lines : [Files -> Seq(Line)]])
    /\ \A n \in DOMAIN Archives, f \in Files :
          CallsFollowSchedules(Archives[n].lines[f])
ASSUME BoundsAssumption ==
    FlushLimit \in Nat \ {0} /\ {MaxFaults, MaxOther, MaxUnsure} \subseteq Nat

Tables == Files \X {"schedule", "stop_time"}
TablesOf(f) == {t \in Tables : t[1] = f}
Archive == DOMAIN Archives
Other == 0

VARIABLES
    listed,   \* archives the server has published
    log,      \* the log table: an archive, or Other, per import that finished
    schema,   \* the tables that exist
    stored,   \* the rows of each table
    pc,       \* where the process is in importExtracted; "idle" when none runs
    next,     \* the archive being imported
    upto,     \* the last archive the process downloaded
    lastId,   \* the id counter of each table's record
    stream,   \* what each file's RecordStream is doing
    at,       \* the lines of each file it has read
    buffer,   \* rows waiting in each table's writer, by action
    inflight, \* rows of a write that has not been committed, by action
    faults    \* faults so far

server == <<listed>>
database == <<log, schema, stored>>
process == <<pc, next, upto, lastId, stream, at, buffer, inflight>>
vars == <<server, database, process, faults>>

NoRows == [t \in Tables |-> [a \in Actions |-> << >>]]

-----------------------------------------------------------------------------
(* The log, the cursor and the archives to process *)

ImportLog == INSTANCE ImportLog WITH
                 Refresh <- [n \in Archive |-> Archives[n].full]

\* LogTableFeedCursor: the archive the newest log row names, if it is of this
\* feed: a row of another feed is a name the listing does not have.
LastProcessed == IF log = << >> THEN Other ELSE log[Len(log)]

LastRefresh ==
    LET full == {n \in 1..listed : Archives[n].full}
    IN  IF full = {} THEN 0 ELSE CHOOSE n \in full : \A m \in full : m <= n

\* Mutant: the slice starts one archive too late.
FirstToProcessLate ==
    IF LastProcessed # Other THEN LastProcessed + 2
      ELSE IF LastRefresh > 0 THEN LastRefresh ELSE listed + 1

\* Mutant: an unknown last file is taken for one that is up to date.
FirstToProcessKnown ==
    IF LastProcessed # Other THEN LastProcessed + 1 ELSE listed + 1

\* With no known last file: everything from the last refresh, or nothing.
FromRefresh == IF LastRefresh > 0 THEN LastRefresh ELSE listed + 1

\* getFilesToProcess: the files to process are those from here to the newest.
FirstToProcess ==
    IF LastProcessed # Other /\ LastProcessed >= LastRefresh
      THEN LastProcessed + 1
      ELSE FromRefresh

\* Mutant: every run counts from zero.
RestoredIdZero(t) == 0

\* restoreIdCounters: the largest id in a table, 0 for a table with no rows.
RestoredId(t) ==
    LET ids == {r.id : r \in stored[t]}
    IN  IF ids = {} THEN 0 ELSE CHOOSE i \in ids : \A j \in ids : j <= i

-----------------------------------------------------------------------------
(* Reading a line *)

LinesOf(f) == Archives[next].lines[f]

\* Mutant: the action of a schedule is not read.
ActionOfNone(f, line) == "Insert"

\* The action of a record: without an action map every line is an insert.
ActionOf(f, line) == IF f \in ActionMapped THEN line.action ELSE "Insert"

\* The schedule line a line of the archive belongs to, itself included.
OwnerLine(lines, i) ==
    CHOOSE j \in 1..i : /\ lines[j].table = "schedule"
                        /\ \A k \in (j + 1)..i : lines[k].table = "stop_time"

\* Mutant: a call refers to the schedule that follows it, as a record that is
\* read before its parent rightly does.
RowOfNext(f, i, id) ==
    LET line == LinesOf(f)[i]
    IN  [key |-> line.key,
         id |-> id,
         schedule |-> IF line.table = "schedule" THEN id
                      ELSE lastId[<<f, "schedule">>] + 1,
         of |-> <<next, OwnerLine(LinesOf(f), i)>>]

\* A row as extractValues makes it.  A record with a counter takes the next id,
\* a schedule to be deleted takes none, and a call refers to the schedule read
\* last, whose counter is its foreign key.  `of` names the schedule line the
\* row came from: no column holds it, the properties compare by it.
RowOf(f, i, id) ==
    LET line == LinesOf(f)[i]
    IN  [key |-> line.key,
         id |-> id,
         schedule |-> IF line.table = "schedule" THEN id
                      ELSE lastId[<<f, "schedule">>],
         of |-> <<next, OwnerLine(LinesOf(f), i)>>]

\* apply: the row joins the buffer of its action, and a full buffer is handed
\* to the database, which the stream waits for before it reads on.
ReadLine(f) ==
    /\ pc = "files"
    /\ stream[f] = "reading"
    /\ at[f] < Len(LinesOf(f))
    /\ LET i == at[f] + 1
           line == LinesOf(f)[i]
           t == <<f, line.table>>
           a == ActionOf(f, line)
           id == IF a = "Delete" THEN 0 ELSE lastId[t] + 1
           rows == Append(buffer[t][a], RowOf(f, i, id))
       IN  /\ at' = [at EXCEPT ![f] = i]
           /\ lastId' = IF a = "Delete" THEN lastId
                                        ELSE [lastId EXCEPT ![t] = id]
           /\ IF Len(rows) < FlushLimit
                THEN /\ buffer' = [buffer EXCEPT ![t][a] = rows]
                     /\ UNCHANGED <<inflight, stream>>
                ELSE /\ buffer' = [buffer EXCEPT ![t][a] = << >>]
                     /\ inflight' = [inflight EXCEPT ![t][a] = rows]
                     /\ stream' = [stream EXCEPT ![f] = "flushing"]
    /\ UNCHANGED <<server, database, pc, next, upto, faults>>

\* fit: a value wider than its column stops the file, and so does a line that
\* does not parse.  What the stream had buffered is never written.
RefuseLine(f) ==
    /\ pc = "files"
    /\ stream[f] = "reading"
    /\ at[f] < Len(LinesOf(f))
    /\ faults < MaxFaults
    /\ faults' = faults + 1
    /\ stream' = [stream EXCEPT ![f] = "failed"]
    /\ UNCHANGED <<server, database, pc, next, upto, lastId, at, buffer, inflight>>

\* _final and close: every buffer of the file's tables is written, all of them
\* at once and so in any order.
CloseTables(f) ==
    /\ pc = "files"
    /\ stream[f] = "reading"
    /\ at[f] = Len(LinesOf(f))
    /\ inflight' = [t \in Tables |-> IF t[1] = f THEN buffer[t] ELSE inflight[t]]
    /\ buffer' = [t \in Tables |-> IF t[1] = f THEN NoRows[t] ELSE buffer[t]]
    /\ stream' = [stream EXCEPT ![f] = "closing"]
    /\ UNCHANGED <<server, database, pc, next, upto, lastId, at, faults>>

\* The last of the writes that close waits for is done.
Closed(f) ==
    /\ pc = "files"
    /\ stream[f] = "closing"
    /\ \A t \in TablesOf(f) : inflight[t] = NoRows[t]
    /\ stream' = [stream EXCEPT ![f] = "done"]
    /\ UNCHANGED <<server, database, pc, next, upto, lastId, at, buffer, inflight,
                   faults>>

\* A write in the database.  It may be one its file no longer waits for,
\* because another of the file's writes failed first.
Commit(t, a) ==
    /\ inflight[t][a] # << >>
    /\ stored' = [stored EXCEPT ![t] = Written(@, a, inflight[t][a])]
    /\ inflight' = [inflight EXCEPT ![t][a] = << >>]
    /\ stream' = [stream EXCEPT ![t[1]] = IF @ = "flushing" THEN "reading" ELSE @]
    /\ UNCHANGED <<server, log, schema, pc, next, upto, lastId, at, buffer, faults>>

\* writeWithRetry gives up, or meets an error that is not a lock: the
\* transaction is rolled back and the file's promise rejects.  A retry that
\* succeeds is Commit.
WriteFails(t, a) ==
    /\ inflight[t][a] # << >>
    /\ faults < MaxFaults
    /\ faults' = faults + 1
    /\ inflight' = [inflight EXCEPT ![t][a] = << >>]
    /\ stream' = [stream EXCEPT ![t[1]] = "failed"]
    /\ UNCHANGED <<server, database, pc, next, upto, lastId, at, buffer>>

-----------------------------------------------------------------------------
(* The import of one archive *)

\* run: read the cursor, list the server, download.
Start ==
    /\ pc = "idle"
    /\ pc' = "next"
    /\ next' = FirstToProcess
    /\ upto' = listed
    /\ UNCHANGED <<server, database, lastId, stream, at, buffer, inflight, faults>>

\* The query of the log fails, which reads as a log with no rows: what was
\* imported since the last refresh is imported again.
StartUnsure ==
    /\ pc = "idle"
    /\ Len(log) < MaxUnsure
    /\ pc' = "next"
    /\ next' = FromRefresh
    /\ upto' = listed
    /\ UNCHANGED <<server, database, lastId, stream, at, buffer, inflight, faults>>

\* importExtracted: anything but a changes archive resets the schema first.
Begin ==
    /\ pc = "next"
    /\ next <= upto
    /\ pc' = IF Archives[next].full THEN "drop" ELSE "restore"
    /\ UNCHANGED <<server, database, next, upto, lastId, stream, at, buffer, inflight,
                   faults>>

\* setupSchema: all the tables are dropped at once, then all of them created.
DropTable(t) ==
    /\ pc = "drop"
    /\ t \in schema
    /\ schema' = schema \ {t}
    /\ stored' = [stored EXCEPT ![t] = {}]
    /\ UNCHANGED <<server, log, process, faults>>

Dropped ==
    /\ pc = "drop"
    /\ schema = {}
    /\ pc' = "create"
    /\ UNCHANGED <<server, database, next, upto, lastId, stream, at, buffer, inflight,
                   faults>>

CreateTable(t) ==
    /\ pc = "create"
    /\ t \notin schema
    /\ schema' = schema \cup {t}
    /\ UNCHANGED <<server, log, stored, process, faults>>

Created ==
    /\ pc = "create"
    /\ schema = Tables
    /\ pc' = "restore"
    /\ UNCHANGED <<server, database, next, upto, lastId, stream, at, buffer, inflight,
                   faults>>

\* restoreIdCounters, and then a stream for each file of the archive.  A table that
\* is not there, because a reset of the schema was cut short, ends the import.
RestoreIds ==
    /\ pc = "restore"
    /\ IF schema = Tables
         THEN /\ lastId' = [t \in Tables |-> RestoredId(t)]
              /\ stream' = [f \in Files |-> "reading"]
              /\ at' = [f \in Files |-> 0]
              /\ pc' = "files"
         ELSE /\ pc' = "ending"
              /\ UNCHANGED <<lastId, stream, at>>
    /\ UNCHANGED <<server, database, next, upto, buffer, inflight, faults>>

\* Mutant: a file that failed is reported and nothing more.
FilesSettledReported ==
    /\ pc = "files"
    /\ \A f \in Files : stream[f] \in {"done", "failed"}
    /\ pc' = "sweep"
    /\ stream' = [f \in Files |-> "done"]
    /\ UNCHANGED <<server, database, next, upto, lastId, at, buffer, inflight, faults>>

\* Mutant: an archive that fails is skipped, and the ones after it imported.
FilesSettledSkipping ==
    /\ pc = "files"
    /\ \A f \in Files : stream[f] \in {"done", "failed"}
    /\ IF \A f \in Files : stream[f] = "done"
         THEN pc' = "sweep" /\ UNCHANGED next
         ELSE pc' = "next" /\ next' = next + 1
    /\ UNCHANGED <<server, database, upto, lastId, stream, at, buffer, inflight, faults>>

\* Promise.allSettled and reportFailures: every file has ended, and one that
\* failed stops the import here.
FilesSettled ==
    /\ pc = "files"
    /\ \A f \in Files : stream[f] \in {"done", "failed"}
    /\ pc' = IF \A f \in Files : stream[f] = "done" THEN "sweep" ELSE "ending"
    /\ UNCHANGED <<server, database, next, upto, lastId, stream, at, buffer, inflight,
                   faults>>

\* removeOrphanStopTimes, a statement for each stop time table.
Sweep(f) ==
    /\ pc = "sweep"
    /\ stream[f] = "done"
    /\ stored' = [stored EXCEPT ![<<f, "stop_time">>] =
                     {r \in @ : \E s \in stored[<<f, "schedule">>] : r.schedule = s.id}]
    /\ stream' = [stream EXCEPT ![f] = "swept"]
    /\ UNCHANGED <<server, log, schema, pc, next, upto, lastId, at, buffer, inflight,
                   faults>>

Swept ==
    /\ pc = "sweep"
    /\ \A f \in Files : stream[f] = "swept"
    /\ pc' = "log"
    /\ UNCHANGED <<server, database, next, upto, lastId, stream, at, buffer, inflight,
                   faults>>

\* updateLastFile, and on to the next of the files.
UpdateLastFile ==
    /\ pc = "log"
    /\ log' = Append(log, next)
    /\ next' = next + 1
    /\ pc' = "next"
    /\ UNCHANGED <<server, schema, stored, upto, lastId, stream, at, buffer, inflight,
                   faults>>

\* The memory of a process that has not started.
NoProcess(p, n, u, l, s, i, b, w) ==
    /\ p = "idle" /\ n = 1 /\ u = 0
    /\ l = [t \in Tables |-> 0]
    /\ s = [f \in Files |-> "done"]
    /\ i = [f \in Files |-> 0]
    /\ b = NoRows
    /\ w = NoRows

\* The process is gone, with everything it had not written.  A transaction that
\* was in flight is rolled back; one that got to the database is a Commit before.
Gone ==
    /\ NoProcess(pc', next', upto', lastId', stream', at', buffer', inflight')
    /\ UNCHANGED <<server, database>>

\* end: after the last file, or after the first that failed.
End ==
    /\ pc = "ending" \/ (pc = "next" /\ next > upto)
    /\ Gone
    /\ UNCHANGED faults

\* The process dies, or a statement of it outside the writers fails: an archive
\* that was not downloaded or does not open, a DROP, a SELECT, the log's INSERT.
Crash ==
    /\ pc # "idle"
    /\ faults < MaxFaults
    /\ faults' = faults + 1
    /\ Gone

-----------------------------------------------------------------------------
(* The world outside *)

\* The feed server publishes its next archive.
Publish ==
    /\ listed < Len(Archives)
    /\ listed' = listed + 1
    /\ UNCHANGED <<database, process, faults>>

\* Another feed is imported into the same database, and recorded in its log.
ImportOther ==
    /\ Cardinality({i \in DOMAIN log : log[i] = Other}) < MaxOther
    /\ log' = Append(log, Other)
    /\ UNCHANGED <<server, schema, stored, process, faults>>

-----------------------------------------------------------------------------

Init ==
    /\ listed = 0
    /\ log = << >>
    /\ schema = {}
    /\ stored = [t \in Tables |-> {}]
    /\ NoProcess(pc, next, upto, lastId, stream, at, buffer, inflight)
    /\ faults = 0

\* What the process does by itself, when nothing goes wrong.
Work ==
    \/ Start \/ Begin \/ Dropped \/ Created \/ RestoreIds
    \/ FilesSettled \/ Swept \/ UpdateLastFile \/ End
    \/ \E t \in Tables : DropTable(t) \/ CreateTable(t)
    \/ \E f \in Files : ReadLine(f) \/ CloseTables(f) \/ Closed(f) \/ Sweep(f)
    \/ \E t \in Tables, a \in Actions : Commit(t, a)

Fault ==
    \/ Crash \/ StartUnsure
    \/ \E f \in Files : RefuseLine(f)
    \/ \E t \in Tables, a \in Actions : WriteFails(t, a)

Next == Work \/ Fault \/ Publish \/ ImportOther

\* The process is started by a timer and its steps are its own; the server
\* goes on publishing.  Nothing has to fail.
Spec == Init /\ [][Next]_vars /\ WF_vars(Work) /\ WF_vars(Publish)

-----------------------------------------------------------------------------
(* Properties *)

Row == [key : Keys \cup {NoKey}, id : Nat, schedule : Nat, of : Nat \X Nat]

\* The variables keep their types: the archive being imported is one that was
\* published and downloaded, the log names archives, and every row is one a line
\* of an archive was read into.
TypeOK ==
    /\ listed \in 0..Len(Archives)
    /\ log \in Seq(Archive \cup {Other})
    /\ schema \in SUBSET Tables
    /\ stored \in [Tables -> SUBSET Row]
    /\ pc \in {"idle", "next", "drop", "create", "restore", "files", "sweep", "log",
               "ending"}
    /\ next \in 1..(Len(Archives) + 1)
    /\ upto \in 0..listed
    /\ lastId \in [Tables -> Nat]
    /\ stream \in [Files -> {"reading", "flushing", "closing", "done", "failed", "swept"}]
    /\ at \in [Files -> Nat]
    /\ buffer \in [Tables -> [Actions -> Seq(Row)]]
    /\ inflight \in [Tables -> [Actions -> Seq(Row)]]
    /\ faults \in 0..MaxFaults

\* No row that waits to be inserted has an id that its table already holds, so
\* that no insert is dropped as a duplicate of an unrelated row: what
\* restoreIdCounters is for (ImportFeedCommand.ts:104-116).
IdsUnused ==
    \A t \in Tables : \A a \in {"Insert", "Update"} :
        \A r \in RowsOf(buffer[t][a]) \cup RowsOf(inflight[t][a]) :
            \A s \in stored[t] : r.id # s.id

\* An archive is recorded only when every line of every file has been written:
\* nothing is left in a buffer or in flight, and nothing that lands after the
\* sweep leaves a call without its schedule (reportFailures, close).
NothingPending == buffer = NoRows /\ inflight = NoRows
AllRead == \A f \in Files : at[f] = Len(LinesOf(f))
NoOrphans ==
    \A f \in Files : \A c \in stored[<<f, "stop_time">>] :
        \E s \in stored[<<f, "schedule">>] : c.schedule = s.id
RecordedWhole == pc = "log" => NothingPending /\ AllRead /\ NoOrphans

\* The schedule lines of a file that the archives up to n leave in force: since
\* the last full refresh, the last line of each key, unless that deletes it.
BaseOf(n) ==
    CHOOSE b \in 1..n : Archives[b].full /\ \A m \in (b + 1)..n : ~Archives[m].full
ScheduleLines(f, n) ==
    UNION {{a} \X {i \in DOMAIN Archives[a].lines[f] :
                      Archives[a].lines[f][i].table = "schedule"} : a \in BaseOf(n)..n}
LineAt(f, m) == Archives[m[1]].lines[f][m[2]]
Later(m, o) == m[1] > o[1] \/ (m[1] = o[1] /\ m[2] > o[2])
InForce(f, n) ==
    {m \in ScheduleLines(f, n) :
        /\ LineAt(f, m).action # "Delete"
        /\ \A o \in ScheduleLines(f, n) :
              LineAt(f, o).key = LineAt(f, m).key => ~Later(o, m)}

\* What the properties of the contents take of the feed: the first archive is a
\* refresh, a schedule is inserted only where the feed has none of its key in
\* force, and one archive names a key twice only to revise it.
OrderlyFeed ==
    /\ Archives[1].full
    /\ \A f \in Files, n \in DOMAIN Archives :
          \A m \in ScheduleLines(f, n) : m[1] = n =>
             /\ LineAt(f, m).action = "Insert" =>
                   \/ Archives[n].full
                   \/ \A o \in InForce(f, n - 1) : LineAt(f, o).key # LineAt(f, m).key
             /\ \A o \in ScheduleLines(f, n) :
                   (o[1] = n /\ Later(m, o) /\ LineAt(f, o).key = LineAt(f, m).key)
                      => LineAt(f, m).action = "Update" /\ LineAt(f, o).action # "Delete"

\* Of a file whose schedules have no action to read, the feed only inserts.
OnlyInserted ==
    \A f \in Files \ ActionMapped : \A n \in DOMAIN Archives :
        \A i \in DOMAIN Archives[n].lines[f] : Archives[n].lines[f][i].action = "Insert"

\* When an archive is recorded the schedules in the database are those that the
\* feed has in force: however the writes of it were interleaved, and however
\* many attempts it took (the archives are "changes applied in order",
\* DownloadAndProcessCommand.ts:12).
SchedulesInForce ==
    pc = "log" => \A f \in Files :
        {s.of : s \in stored[<<f, "schedule">>]} = InForce(f, next)

\* When an archive is recorded every schedule in the database has the calls the
\* feed gave it, each of them once, and no other schedule's.
CallLines(f, m) ==
    {i \in DOMAIN Archives[m[1]].lines[f] :
        /\ Archives[m[1]].lines[f][i].table = "stop_time"
        /\ OwnerLine(Archives[m[1]].lines[f], i) = m[2]}
CallsTheirOwn ==
    pc = "log" => \A f \in Files : \A s \in stored[<<f, "schedule">>] :
        LET calls == {c \in stored[<<f, "stop_time">>] : c.schedule = s.id}
        IN  /\ \A c \in calls : c.of = s.of
            /\ Cardinality(calls) = Cardinality(CallLines(f, s.of))

\* The log steps over no changes archive, whatever fails and whatever other
\* feed is recorded in between.
StepsOverNothing == ImportLog!Spec

\* Every archive published is in the end recorded, and no later run goes back.
CaughtUp == <>[](ImportLog!LastArchive(log) = Len(Archives))
=============================================================================
