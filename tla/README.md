# Verification of gb-transit in TLA+

TLA+ modules for the parts of this repository whose correctness depends on the
order things happen in, the TLC configurations that check them on small
instances, and theorems about them with proofs that TLAPS checks.

The definitions translate the source; `PROJECT.json` names, for each of them,
the lines it stands for (`map`), and, for each hazard of the code, the
properties aimed at it (`hazards`).

To check: `tlc -workers 2 -config MCWorkerPool.cfg MCWorkerPool` for a run,
`tlapm WorkerPool_proofs.tla` for the proofs.

## 1. Inventory

The repository turns the British rail timetable into GTFS and GTFS into data
for journey planners. Its programs are under `apps/`, what they share under
`libs/`. The state column says what outlives a call.

| Part | State | Operations and partners | What is hard | What makes it correct |
|---|---|---|---|---|
| **Feed import** `apps/dtd2mysql` `ImportFeedCommand`, `TableWriter`, `RecordStream`; record counters in `libs/feed-parser` | a database that outlives the process; per process an id counter per table, a buffer per table and action | reset of the schema, restoring of ids, concurrent reading of the files, flushes, orphan sweep, log row | files and writes are concurrent; a file may fail while others commit; the process may die and is run again over what it left | ids unique, calls with their own schedule, exactly the schedules in force, an archive recorded only when whole |
| **Download and cursor** `libs/dtd-source`, `LogTableFeedCursor` | the log table, shared by all feeds | listing, choice of archives, stop at the first failure; calls the import | the newest row may be another feed's; failures between archives | no changes archive is stepped over; the importer catches up |
| **Calendars** `libs/gtfs/src/model/ScheduleCalendar.ts` | immutable values | overlap, exclusion, intersection, shift by a day | ranges, masks and exclusions at their edges | each operation is the set operation on the dates run |
| **Overlays** `libs/gtfs/src/transform/ApplyOverlays.ts` | an index by train, rebuilt per run | lays each record over those before it | the list is spliced while it is walked | on each date the last record that speaks of it counts, alone |
| **Associations and couplings** `ApplyAssociations`, `Association`, `LinkedTrips`, `MergeSchedules`, `ShiftLateNightServices` | the index of the overlays, the list of links | couples portions, gives them ids, resolves links to trips | one application replaces a schedule that an earlier link names; service days a day apart | a train runs on the days it ran, coupled or not; each link names the trips it coupled |
| **Feed build** `libs/gtfs/src/build`, the other transforms, `enrich`, `extend`, `data` | a feed in memory | a fixed sequence of pure steps, then files written side by side | little: the concurrent parts share nothing | references between files, uniqueness of keys |
| **Delivery** `libs/gtfs-output` | the file or directory at the output path | zip writing, exchange by rename | failure and crash between removal and replacement | a reader finds the old feed or the new one |
| **Pattern planning** `apps/transfer-patterns` `api.plan`, `plan/pool.ts`, `plan/worker.ts` | a working directory, the shard and its provenance | a pool of threads per day, messages each way, merge of the parts | messages, `error` and `exit` events, termination, a thread that stops silently | nothing lost, no file disturbed, no false failure, every run settles |
| **Pattern merge** `apps/transfer-patterns` `api.merge`, `merge/` | the merged file | k-way merge of sorted shards; front coding | shards of different runs or given twice; order of the sources | sorted, free of duplicates, the union of one run's shards |
| **Feed merge** `apps/gtfsmerge` | maps of renumbered ids, keys seen | one merger per file, in an order of dependence | maps used before complete; rows deduplicated | every reference written names a row written |
| **TransXChange conversion** `apps/transxchange2gtfs` | piped streams; `Supersession` | scan, conversion, calendar exceptions | overlapping timetables of one line | one timetable of a line per day |
| **Explorer** `apps/website/src/explorer/worker`, `ui/boot.ts` | the worker's open feed, the page's address, pane and pending questions | questions and answers over a port | opens that overtake each other; a worker that dies | each question settled once, from the feed it was asked of |
| **Other readers and tools** `gtfs-loader`, `fares-source`, `routeing-source`, `enrich-*`, `extend-*`, `naptan`, `knowledgebase-*`, `dtd-schema`, `gtfs-schema`, `cif2gtfs`, `scripts`, the website's pages and queries | none | parsers, column lists, command lines, pages | formats | example tests suit them better than a model |

`PROJECT.json` has one entry per component, with its sources, its status and
the reason where it is not modelled.

## 2. Plan

The order is by what is lost when the behaviour is wrong: first the data that
every program reads, then the calendars, then the shards, then what is done with
a feed once it is built.

| | Modules | Abstract specification | Proofs |
|---|---|---|---|
| Importer, section 3 | `TableRows`, `FeedImport` | `ImportLog` | `FeedImport_proofs` |
| Calendars and overlays, 4 | `ScheduleCalendar`, `Overlays` | | `Overlays_proofs`, `Couplings_proofs` |
| Worker pool, 5 | `WorkerPool` | | `WorkerPool_proofs` |
| Couplings, 6 | `Couplings` over `ScheduleCalendar` | | `Couplings_proofs` |
| Merge of the shards, 7 | `PatternMerge` | `SortedUnion` | `PatternMerge_proofs` |
| Delivery, 8 | `FeedDelivery` | | `FeedDelivery_proofs` |
| Explorer, 9 | `Explorer` | | `Explorer_proofs` |
| Feed merge, 10 | `FeedMerge` | | `FeedMerge_proofs` |

Each `MC` module gives a module its instance and each `.cfg` a run.

Left, in this order: the index of `Couplings` taken from `Overlays` by `INSTANCE`,
where it is now any index the instance lists; `Supersession` of the TransXChange
conversion.

Proofs still wanted: `OneAtATime` as a refinement of a pool that is a single counter of
stations left.

## 3. The importer

### Modules

`TableRows` is one flush of a `TableWriter`: a table is a set of rows with a
unique id and a unique key, and `Insert`, `Replace` and `Remove` are what the
three statements do to it (`writeTo`, `lastPerKey`). A key that has a null in it
conflicts with nothing; that is how nearly every stop time is stored, and it is
`NoKey`.

`ImportLog` is what the log promises: a refresh may be recorded at any time, a
changes archive only directly after the archive it changes.

`FeedImport` is the process. Its state and the code's:

| Variable | In the code |
|---|---|
| `listed` | the archives on the server |
| `log`, `schema`, `stored` | the log table, the tables that exist, their rows |
| `pc`, `next`, `upto` | the place in `importExtracted` and in the loop of `DownloadAndProcessCommand` |
| `lastId` | `lastId` of each record |
| `stream`, `at` | the `RecordStream` of a file, and how far it has read |
| `buffer`, `inflight` | `TableWriter.buffer`, and the transactions not settled |

`Start` is `DownloadCommand.run`, and `StartUnsure` the same where the query of the
log fails, which reads as an empty log; `Begin`, `DropTable`, `CreateTable`,
`RestoreIds`, `FilesSettled`, `Sweep` and `UpdateLastFile` are the lines of
`importExtracted` in their order; `ReadLine`, `RefuseLine`, `CloseTables` and
`Closed` are a stream; `Commit` and `WriteFails` are the two ends of a
transaction. A stream waits for the flush it caused, but the flushes of `close`
run together and so settle in any order. `Crash` may happen in any state of the
process, and rolls back whatever is in flight: a transaction that reached the
database before the crash is a `Commit` before it. A crash also stands for a
statement outside the writers that fails and for an archive that does not open.

### Runs

| Run | Question | Answer |
|---|---|---|
| `import_clean` | With no failure but of the query of the log: are the rows right, whatever the order of commits and wherever buffers fill? | Yes: `SchedulesInForce`, `CallsTheirOwn`. 8,557 states |
| `import_faults` | Two files, two faults of any kind, another feed in the log | `IdsUnused`, `RecordedWhole`, `SchedulesInForce`, `StepsOverNothing` (refinement of `ImportLog`) and `CaughtUp`. 207,060 states |
| `import_retry` | Are the calls right after a failure and a retry? | No. See the findings |
| `import_manual` | Is a manual train that is revised revised? | No. See the findings |

*Bounds.* Four archives (`Archives`) are the shortest feed that has a changes
archive after each of two refreshes, so that an import can be behind by one, by a
refresh, and by a refresh with changes. `FlushLimit` 2 makes a buffer fill inside
a schedule and also leaves one partly full at the end of a file. A changes archive
deletes, inserts and revises, in `import_clean` one key twice.
`MaxFaults` 2 lets a retry fail as well. `MaxOther` bounds the rows another feed
adds to the log: one is enough for the newest row to be another's. `MaxUnsure` 3 lets
the query of the log fail while the log is shorter than that, which includes
after a refresh and a changes archive.

*What the properties do not promise.* `SchedulesInForce` and `CaughtUp` are checked
with the query of the log failing or with other faults, not with both. Any error of
that query reads as an empty log (`LogTableFeedCursor.ts:27`), so a refresh that is
already recorded is taken again and its tables dropped; where that import then
fails, the log still names it, the next run steps over it, and every changes
archive fails for want of a table, or is applied to half a database, until the next
refresh. `tlc -config MCFeedImport_unsure.cfg MCFeedImport` shows `CaughtUp`
violated so.

*Assumption on the feed.* `OrderlyFeed`: the first archive is a refresh, an
archive names a key twice only to revise it, and inserts a key only where none is
in force. That is what the actions of the records mean (new, revise, delete), and nothing
in the code enforces it: without it the concurrent flushes of `close` make the
outcome a race between a delete and an insert of one key. It is an assumption of
`MCFeedImport` about the archives listed there, and a hypothesis of
`SchedulesInForceCorrect` alone among the theorems. `OnlyInserted`, that a file
without an action map has only inserts, is another hypothesis of that theorem;
`import_manual` (finding 2) is what happens without it.

*Fairness.* Weak fairness of `Work`, the process's own steps together with
`Start`, since a timer starts it and nothing in it waits for anyone but the database; and of `Publish`, since the server goes on publishing. No failure is
obliged to happen, and `ImportOther` is not either.

### Proofs (`FeedImport_proofs`)

`TypeCorrect`, `IdsUnusedCorrect`, `RecordedWholeCorrect` and
`StepsOverNothingCorrect` hold for every feed, set of files, flush limit and
number of faults; `SchedulesInForceCorrect` for every such feed that is
`OrderlyFeed` and `OnlyInserted`; `CallsTheirOwnCorrect` where nothing fails or no archive is
of changes. They rest on `Invariance`, of `IInv == TypeInv /\ Shape /\ IdInv`:

* `TypeInv` is `TypeOK` with the ranges of `next` and of the ids.
* `Shape` says what each state of a stream excludes: a stream that reads has
  nothing in flight, one that is done has nothing left, and outside `"files"` and
  `"ending"` nothing waits at all. Without it a write could land after the sweep.
* `IdInv` says that while files are read no id of the table or of a waiting row is above the
  counter and no two waiting rows share one. `IdsUnused` alone is not inductive:
  a commit could put one of two equal ids into the table and leave the other.

`StepsOverNothingCorrect` is the refinement: each step is a step of `ImportLog`
or leaves the log alone, and an import reaches `"log"` only for an archive that
follows the last recorded one or is a refresh.

`SchedulesInForceCorrect` takes one hypothesis more, `MaxUnsure = 0 \/ MaxFaults = 0`:
either the query of the log never fails, and anything else may, or it fails and
nothing else does. It is needed: with both allowed (the bounds of
`MCFeedImport_unsure.cfg` with the archives `RetriedChanges`) TLC finds an archive recorded over half a database, as
described above. The invariant is `ForceInv`, over `IInv`:

* `InQueue`: while a file is read, the rows that wait for the schedule table, those in flight
  before those in the buffer, are of lines already read, an action's in the order
  of the lines, and each with the key and the action of its line.
* `Emptied` and `Refreshed`: a table the reset has dropped is empty, and during the
  import of a refresh the tables hold nothing that is not from it.
* `SettledSoFar`: the last line of a key, once it is read and its row waits no
  more, has been done to the table. Where the stream has ended no row waits, and
  then every key of the archive is as its last line leaves it.
* `OnTrack`: a changes archive is imported only directly after the last recorded
  one, and over tables that are `Kept`, on their way (`Content`) from what that one left in
  force; or else the next run has to begin with a refresh. `Kept` allows for a part
  of the changes written by an attempt that failed, and
  this is what makes a retry harmless: whatever was written of an archive
  and is written again, the last line of each key is done in the end.
* `UnfailingInv`: where nothing fails, a run that begins again from a refresh
  gets to the end of it.

The lemmas the steps rest on are about the feed and one transaction: `ForceAfter`
gives what is in force after an archive from what was before it, `WrittenContent`,
`WrittenDoes` and `WrittenLeaves` say what a flush may and may not change, and
`AllDone` that tables on their way with every key done are there.

`CallsTheirOwnCorrect` takes the hypothesis `OnlyRefreshes \/ MaxFaults = 0`. A failure
during a changes archive is finding 1 (`import_retry`), so without it the theorem
is false; a failure during a refresh is harmless, since the next attempt drops the
tables, and the query of the log may fail any number of times. The feed need not be
orderly. The invariant, over `IInv`, is `CallsInv`, of `OwnInv` and of what the other
proofs have (`Emptied`, `MayNext`, `SweptInv`):

* `Mated`: every schedule stored or waiting has exactly the calls read of it so
  far, stored or waiting. It counts the rows of both tables in whatever stage of
  writing they are, so a commit of either changes nothing.
* `Counting`: the counter is past every schedule a call refers to and is
  the id of the schedule read last, which gives a call to that one alone.
* `Past`: between imports no call is without a schedule, and no schedule is of an
  archive not recorded. This is what fails in finding 1: calls of the failed
  attempt stay behind, and the counter restored from the schedules
  (`ImportFeedCommand.ts:136`) gives out the id they refer to.
* `Watched`: where the three hold. For a file that failed they do not, and a
  refresh does not need them to.

## 4. Calendars and overlays

`ScheduleCalendar` gives each operation of the class as an operator on a record
of range, days of the week and excluded dates. Dates are integers counted from a
Sunday.

`Overlays` is `applyOverlays`. The inner loop is a step per turn, because the code
splices the list that it walks and the array iterator goes by position:
`ApplyOverlay` looks at the base in `position` and moves on, whether or not the
base has left the list.

| Run | Question | Answer |
|---|---|---|
| `overlays_stack` | Does every date run what the last record says? | No date is lost (`LatestRuns`), and where every record keeps a day of its own none runs twice (`LatestAloneWhereKept`). 56,143 states |
| `overlays_covered` | Is the last record alone on its dates in general? | No. See the findings |

*Bounds.* All sequences of three records, of two trains, over six calendars whose
ranges meet in one day, contain each other or do not meet, with masks that agree,
differ and are disjoint; and every permanent record under two overlays and a
cancellation. Three records are the fewest for one to be laid over two. Eight
dates are enough for every day of the week and for one to come twice. The loop
ends, so the runs do not check for deadlock.

*Proofs.* The first part of `Couplings_proofs` shows for all calendars that `AddExcludeDays`
leaves the difference of the dates run, `Intersect` their intersection, and that
the shifts move every date by one day and no other; what the overlays need of it
is proved again where they are. `Overlays_proofs` shows
`TypeOK`, `LatestRuns` and `LatestAloneWhereKept` for every set of timetables.
`IInv == TypeOK /\ Keeps /\ Present /\ Clear`: an entry keeps each date no later
record speaks of (`Keeps`), so that a record with such a date is never taken out
(`Present`), and an entry may share a date only with a record still to be laid
over it, among them the current one for the positions not yet reached (`Clear`).
`Clear` needs `KeepsADay`: it is what keeps the positions still while the loop
runs, and the finding is what happens without it.

## 5. The worker pool

`WorkerPool` is `api.plan` with `planOnWorkers` and `worker.ts`: per day a thread
for each part file, a queue each way between a thread and the pool, and the
`error` and `exit` events of a thread after the messages it posted.

| Variable | In the code |
|---|---|
| `stage`, `day`, `directory` | the place in `plan`, the date, the working directory |
| `remaining` | `remaining` of each call of `planOnWorkers` |
| `thread`, `task`, `part` | a thread, the message it handles, its file |
| `toWorker`, `toPool` | the port, each way |
| `promise`, `finished`, `terminated` | `scans`, `finished`, calls of `terminate` |
| `output`, `provenance` | the shard and the file beside it |

`remaining.pop()` takes the last station; the model takes any, which allows more.
`TransferPatternMerge` and the pattern file are the planner library's: a part that
was closed gives its stations to the merge and one that was not gives nothing.

One run, `worker_pool`, checks that a shard returned or described is whole
(`NothingLost`), that no thread writes in a directory that is gone or to a file
being merged (`FilesLeftAlone`), that a living thread has exactly one thing to do
(`OneAtATime`), that only a fault fails a run (`FailsOnlyOnFault`) and that every
run settles (`Ends`). 585,595 states.

*Bounds.* Two threads are the fewest of which one can fail while the other
writes. Two stations let a thread ask again, and let one thread take both while the other gets none;
two days show that a failure on the second leaves the first alone. `MaxFaults` 2
lets a thread die while another's failure is handled. `GivenTmp` is `FALSE`: a
given directory is never removed. A run ends, so deadlock is not checked.

*Fairness.* Weak fairness for each thread, for the pool's handling of each
thread's events, and for `plan`. Each thread is one of the operating system's and
the pool's event loop starves no port. None for `Stop` and `MergeFails`.

*Proofs* (`WorkerPool_proofs`): the type invariant and all four safety properties,
for any set of stations, threads and days.
`IInv == TypeOK /\ Protocol /\ HandedOut /\ Progress /\ Blame`. `Protocol` lists,
for each state of a thread, what may be in the two queues; `HandedOut` says that a
station is still to be handed out or is in a message, a task or a file of some
thread; `Progress` ties the stage of the run to its threads; `Blame` traces each
failure to a fault. A thread resolves its promise only after it has closed its
file with nothing of its own outstanding, and the pool sends `null` only when
`remaining` is empty, so that at the merge `HandedOut` leaves only files.

## 6. Associations and couplings

`Couplings` takes the schedules and the associations of a timetable from
`applyAssociations` to the published trips: portions are cut into the days they
are coupled and the days they are not, links are kept by schedule id, told in trip
ids once every association has been applied, and at the end what leaves in the
night moves to the day before.

| Variable | In the code |
|---|---|
| `schedules`, `associated` | the index by train, and the coupled schedules that go back into it at the end |
| `associations`, `matches`, `applying` | the two loops of `applyAssociations`: what is still to apply, and the schedules the first is still to be tried on |
| `links`, `nextId` | the links, and the ids of new schedules |
| `trips` | the schedules with their trip ids |
| `timetable`, `given` | what there was to begin with, for the properties |

`FindMatches` looks the schedules up as they are at that moment; `NoCoupling` and
`Couple` are a turn of the inner loop; `PutBack` is a turn of the loop after the
last association, which puts one coupled schedule back; `MergeSchedules`,
`ResolveLinks` and `ShiftLateNightServices` are the functions of those names, in the
order of the feed build. New schedules take their ids from `FirstId` on. A schedule carries `told`, which is 1 once its times are past 24:00:
its dates of departure are those of its calendar plus `told`, and the properties
speak of departures, since that is what a shift must leave alone.

Run `couplings`, 194,714 states: every day of the timetable is run by a schedule of
the train and no other day is, and by exactly one where it was so to begin with
(`RunsAsTimetabled`); a published link names two trips of
the trains it couples that leave on matching days with the association in force
(`LinksMeanWhatTheySay`); a copy is made where it closes a gap of a day and only
there (`CopyClosesTheGap`); where there is one association, of two trains, and one
base nothing that could be coupled is missed (`CoupledWhereBothRun`).

*Bounds.* Three trains are the fewest for a portion to be itself a base. A base in
two schedules makes a portion be cut twice by one association; two associations,
in either order, make a coupled schedule be cut again. Three dates, of which the
last is a Sunday the clocks go back, and associations for the same, the next and
the previous day, of trains by night and by day. The transform ends, so deadlock
is not checked.

*What the properties do not promise.* Of the bases that overlap only the first is
tried, and the coupling of another is lost; nothing in the repository says
otherwise, and `CoupledWhereBothRun` is restricted to one base. A link to a
schedule that a later association cut is dropped, as the code says. An index with
two schedules of a train on one day, which overlays can leave (finding 3), is taken
as it is: such a day keeps a schedule, and how many is not promised.

*Proofs* (`Couplings_proofs`): the type invariant and the four properties, for any
trains, places, dates, timetables and associations.

The assumptions are on what the module is given. `TimetablesAssumption`: a schedule
stands in the list of its train, its times are its own day's, and its id is its own
and below `FirstId`. Both sources number their records so, the manual trains after
the others (`KyselyTimetableSource.ts:249`, `CifFileSource.ts:375`), the overlays
keep the id of what they cut (`ApplyOverlays.ts:48`), and the generator starts above
the highest (`ScheduleBuilder.ts:443`). `AssociationsAssumption` is their type, a
date indicator that is none of three read as the same day, and `NumbersAssumption`
says that dates and ids are numbers. No order of the lists is assumed, nor
that the schedules of a train keep off each other's days.

`IInv == TypeOK /\ Stages /\ Ids /\ Whole /\ RunsAsTimetabled /\ LinksById /\ TripIds
/\ LinksByTrip`. `Ids` says that no two schedules share an id and that the next id is
new; `Whole` that until the last association has been applied, what still stands in
the index is neither copied nor moved, stands once, and is none of the coupled ones,
so that what a coupling takes out of the list is one schedule and all of it.
`LinksById` is the heart of it: of any two schedules that have the ids of a link,
wherever they are, the days and the gap are right. It survives a later cut because
what remains of a schedule gets an id that no link has. `TripIds` and `LinksByTrip` carry
the same from ids to trips, through the numbering and the shift of the nights. The
arithmetic of dates is in the lemmas before: a portion leaves on the days all three
calendars have, told in its own days (`CoupledDaysAreOfAllThree`), what remains on
the others (`RemainderIsTheOtherDays`), and a copy or a shift leaves when the
original did (`CopyLeavesAsItDid`, `ShiftedLeavesAsItDid`), all from the
theorems on calendars the module begins with.

`IInv` says that nothing wrong is linked; that nothing is missed
(`EveryCouplingIsMade`) is proved from a second invariant on top of it, `NInv ==
GivenOK /\ Apart /\ TripsById /\ OneToApply /\ AllCoupled /\ AllCoupledByTrip`. It
follows a date on which a schedule is wanted, as `CoupledWhereBothRun` wants it,
through the stages. While the association is applied the schedule is still among the
matches, or a coupled schedule that leaves on that date is linked to the base, which
stands uncut (`OneToApply`): the look and the two tests of the loop succeed on every
date that is wanted (`WantedIsFound`). After it two schedules of the link are there
(`AllCoupled`), then two trips (`AllCoupledByTrip`). Between the last two stands
`resolveLinks`, which drops a link whose id is not of exactly one trip: `Apart` says
that no schedule stands twice while the coupled ones are put back, and `TripsById`
that the numbering gives each id one trip.

## 7. The merge of the shards

`PatternMerge` is `merge` of `api.ts` with `kWayMerge` and `writePatternFile`: the
checks, the heads of the sources, a stream that asks to be waited for, and the file
that describes the result. `SortedUnion` is what it promises: the lowest pattern
that remains is written, until none does.

| Variable | In the code |
|---|---|
| `inputs`, `counted` | the files given, and whether the number of shards was |
| `stage` | the place in `merge` and `writePatternFile` |
| `at`, `previous` | the head of each source, the pattern yielded last |
| `buffer`, `disk`, `sink` | the stream, the file, whether the stream was destroyed |
| `meta` | the file beside the output |

`Flush` and `SinkFails` are the compressor and the file, which go on by
themselves; a stream that failed takes lines and loses them, as a destroyed stream
does. A pattern is a number, ordered as the joined codes of its stations are.

Run `pattern_merge`, 11,429 states: the refinement of `SortedUnion`
(`IsSortedUnion`), nothing described before it is on disk
(`OnDiskBeforeDescribed`), all shards of a run make the whole of it
(`WholeNetwork`), and the merge comes to an end, also where the stream fails while
it is waited for (`Settles`).

*Bounds.* All lists of at most two of the files of two shards and two runs,
described or not, and lists of three with one given twice. Three stations give a
pattern that both shards hold; `HighWater` 2 makes the stream ask to be waited for
in the middle of a file. A merge ends, so deadlock is not checked.

*Fairness.* Weak fairness of the merge's own steps and of `Flush`; no failure is
obliged to happen.

*What the properties do not promise.* The number of shards is compared, not which
they are: with one shard given twice in place of another, `merge` returns, and
what it returns is the sorted union of what it was given. `WholeNetwork` therefore
has all shards of the run among its premises.

*Proofs* (`PatternMerge_proofs`): the type invariant and all three safety properties, the
refinement among them, for any number of shards, any patterns and any failures.
The strengthening compares what was taken from the sources with what is left in
them: each head is in range, everything taken is at most everything left
(`InOrder`), the pattern taken last is the highest taken (`PreviousIsHighest`),
and what was written is what was taken, except the one that waits
(`WritesWhatIsTaken`). `IsSortedUnion` does not follow from what it says of the lines alone: that a
pattern is not the one yielded before it says nothing of earlier ones, unless that
one is the highest of them. `WholeNetwork` then needs only that each station is some
shard's (`(s - 1) % of` is in `0..of - 1`).

## 8. Delivery

`FeedDelivery` is a sequence of runs of the programs that deliver a feed through
`gtfs-output`: a working directory, files opened and ended, the wait for them,
then an archive (`writeZip`) or a directory moved into place. `gtfsmerge` and
`transxchange2gtfs` do either (`deliverFeed`), `cif2gtfs` and `dtd2mysql --gtfs-zip` write an
archive (`OutputGTFSZipCommand`). `cif2gtfs --out <directory>` (`build.ts:81-85`) and
`dtd2mysql --gtfs` (`container.ts:295`) deliver nothing: they write their files straight
into the directory they are given, over whatever is there. Those two are not modelled, and
none of the properties is of them.

| Variable | In the code |
|---|---|
| `output`, `aside`, `work` | what is at the output path, at `<output>.replaced-<pid>`, and in the working directory |
| `stage`, `replacing` | the place in the run; whether something was moved aside |
| `target` | an archive or a directory; a working directory on another filesystem; one that is removed with the run |
| `run`, `pid`, `outcome` | the run, its process id, how the last one ended: `thrown` where the run failed, `stranded` where putting things right failed as well |
| `contents`, `old` | the files of each version, and what stood at the output before, for the properties |

A place on the disk holds, for each file, the version it is of, `Partial` or
`Absent`. An archive cannot be read until its end record is written, so its entries
are `Partial` until `SealArchive`. `Die` is a process that is killed in any stage,
with everything left where it is; the other failures run the code's own
clean-up, and every step of that has a failing twin of its own:

| Step of the clean-up | When it fails |
|---|---|
| what was written of an archive is removed (`WriteZip.ts:164`) | `ArchiveStays` |
| the work is removed once the archive is whole (`DeliverFeed.ts:35`, `OutputGTFSZipCommand.ts:34`) | `ClearFails` |
| the work is removed by the `finally` of a run that failed (`OutputGTFSZipCommand.ts:34`) | the choice in `Fails` |
| the work that was copied is removed (`DeliverFeed.ts:82`) | `MoveFails` or `RestoreFails` in stage `clearing` |
| the old directory goes back (`DeliverFeed.ts:53`) | `RestoreFails` |
| the old directory is removed (`DeliverFeed.ts:57`) | `SweepFails`, after any of its files (`SweepFile`) |

A failure while another is being cleaned up is a second fault. What is left of a working
directory is not told apart, because the next run empties it or takes another. A later process
may be given the id of one that died, or that left a part of the old feed aside.

Run `delivery`, 1,510,044 states: no reader finds files of two builds together
(`OneFeed`); what returned is whole (`ReturnedWhole`); what failed leaves the old
feed, its own feed whole where only a clean-up failed, or no archive, and where putting
things right failed too, no half archive that can be read, or the old directory whole aside
(`FailureLeavesNoHalf`); a directory's feed can be had until the
next one is whole in its place (`KeptUntilReplaced`).

*Bounds.* Three runs with two faults: a run dies with its feed aside, a second one
with the same id or another meets what it left, a third comes after; or a run fails and
its clean-up does. Two files are the fewest for
half a feed, and each version has any nonempty set of them. All kinds of target. After
the last run nothing happens, so deadlock is not checked.

*What the properties do not promise.* The old archive is removed before the new one
is written, so a failure loses it; between the two renames, and after a process
that died there or whose restoring rename failed, nothing is at the output path, and no
code puts the old feed back. A run that throws has not always failed to deliver: where only
the removal of the work or of the old feed failed, its own feed is at the output. What is
left aside then keeps every later process with the same id from replacing anything
(`AsideTaken`). Across filesystems the move is a copy, and a copy that stops half way stays at
the output: all `FailureLeavesNoHalf` says there is that the old feed, where there was one, is
whole aside.

*Proofs* (`FeedDelivery_proofs`): all five properties, for any files, process ids,
number of runs and number of faults. The strengthening says, for each stage, what
the work is (once the files have ended, the whole feed of the run), what the output
is (until delivery, what the run found; from the end record, or the end of the move, on,
the whole feed of the run), and where the old feed is while a directory is moved. `KeptUntilReplaced` is an action property over the same
invariant: a whole feed is an occupied place, which nothing is renamed onto.

## 9. The explorer

`Explorer` is the page (`boot.ts`, `client.ts`) and the worker
(`explorer.worker.ts`) of the website's feed explorer, over a port each way.

| Variable | In the code |
|---|---|
| `hash`, `changes` | the address, and the `hashchange` events to come |
| `panel`, `manifest`, `view` | the part of the page shown, the feed it takes to be open, the pane |
| `rendering` | the number of the newest rendering, which alone may paint |
| `asked`, `pending`, `found`, `results` | the questions, those without an answer, the findings so far, answers before their `done` |
| `toWorker`, `toPage` | the ports, in order |
| `loads`, `slot`, `alive` | feeds being loaded side by side, the one answered from, the worker |

The reader opens, closes and drops feeds and follows links; `Opened`, `HearFinding`,
`HearResult`, `HearDone`, `HearRefusal` and `HearFailure` are the page's handlers,
`Load`, `Loaded`, `LoadFails`, `Reply` and `CheckThrows` the worker's, and `Stops`
is its death. The pages are three kinds: one made from the manifest, one from an
answer, one from findings that arrive one by one.

Run `explorer`, 169,569 states: a question that waits is on its way or its answer
is (`NoneLost`); once all is answered the pane shows what the address says, of the
feed the page names, which is the one the worker holds (`ShowsWhatWasAskedFor`); a
run of checks that is shown whole shows all its findings, in order
(`EveryFindingShown`); every question settles (`EveryAskSettles`) and every
opening ends (`LoadingEnds`).

*Bounds.* Two feeds and four things the reader does: a feed opened over another
that is loading or shown, with a question and a change of the address on the way. Three findings against a `Batch` of 2 leave a last batch that is not
full; the second feed lacks the file, so an answer and a refusal meet. The reader
stops, so deadlock is not checked.

*Fairness.* Weak fairness of each of the two event loops, and of loading, which
ends one way or the other. None for the reader and none for a fault.

*What the properties do not promise.* They are of a worker that lives: after it
died the questions that waited are never settled. Of two
feeds opened one after the other the last to load stays, whichever was opened last, and a
feed that was closed while loading comes back when it has loaded; page, address and worker
agree even then.

*Proved* (`Explorer_proofs`), for any feeds, questions, findings and faults: the
types, `NoneLost`, `EveryFindingShown` and `ShowsWhatWasAskedFor`. None of them is
inductive, since each is about what is heard long after it was told. The invariant
`Inv` says what may stand on the two ports:

- a question on its way to the worker waits, is there once, and nothing of it has
  been told (`AsksWait`); what is told is of a question that waits, and nothing
  follows the end of an answer (`AnswersWait`);
- the pieces of an answer stand together and in order (`FollowOn`, `BeginAfresh`),
  and the first of them on the port goes on where what was heard left off
  (`HeadFollows`); a result that was heard has its end at the head of the port
  (`ResultOfHead`). This is what the worker's dispatch gives, which answers a
  question without giving way to another;
- what names a feed names the feed of the last `opened` before it on the port, or
  the one the page holds; the last `opened` is of the feed the worker holds
  (`FeedsFollow`). From this, an answer from a feed that has been replaced is either
  heard before the page learns of the new feed, or not of the newest question;
- only the last question can be of the newest rendering (`NewestIsLast`), and that
  rendering was of what the address says: the question waits, or the pane shows
  its answer (`AnswersTheHash`).

`ShowsWhatWasAskedFor` is the last two with both the port and `pending` empty. The
constants are assumed to be numbers, `Batch` above 0, and the empty and the failed
pane no view (`PaneAssumption`).

## 10. The feed merge

`FeedMerge` is `gtfsmerge` from the index of a feed to the files of the merged
one. Routes, services, trips and blocks are numbered anew feed by feed; stops and
areas keep their ids and meet.

| Variable | In the code |
|---|---|
| `feeds`, `at`, `stage`, `todo` | the inputs, the one being merged, the place in `GTFSOutput.write`, the mergers side by side in it |
| `routeIds`, `serviceIds`, `tripIds` | the maps a merger hands to the next |
| `line`, `batch`, `used` | the calls read, those to write, the stops they name |
| `routes`, `calendars`, `trips`, `blocks`, `stopTimes`, `transfers`, `areas` | what was written |
| `published`, `parents`, `codes`, `located` | `StopsAndTransfersMerger`, across feeds |
| `memberships`, `groupable` | `AreasMerger`, across feeds |
| `stops`, `stopAreas` | written at the end |

`Told` and `Create` are the index and `CalendarFactory`: a service is its calendar
row, or is worked out from its dates; one with no day left is dropped. A call is read
where it has both its times (`IsRead`, `FeedIndex.ts:291`): one with a single time or none is
left out, and a stop that only such calls name is not published. `ReadCall`
and `Flush` alternate freely, because the parser does not wait for the writer.
`End` asks what can only be asked of the merged feed. The field `from` of an output
row, which no file has, is where the row came from: for a route or a trip its feed and its id
there, for a call its feed and its line, for a stop or a transfer its feed. `published` is a
set, since the stops of the merged feed are told apart by their id and `from`.

Run `feed_merge`, 39,799 states: every reference names a row written
(`RefsResolve`); ids of two feeds are never taken for one another
(`NotConflated`); every trip with a day left is there once, on exactly its days and
with its calls that have both times, in order and at the stops the feed gave (`ServedAsGiven`); near stops are joined across feeds and
cells, once each way (`WalksBetweenNeighbours`); memberships and codes are decided
by the merged feed (`AskedOfTheWhole`), the codes as far as the feeds agree on the
station of a coded stop (`StationsAgree`). The proof shows why that is needed.
`StopsAndTransfersMerger.ts:138` looks up which station a code is counted for when the row is
read, among what the feeds so far have said, and only the counting waits for the last feed,
where the comment on `published` (28-31) has the whole question answered then. If one
feed has a platform and a halt with one code under one station, and a later one has the
platform under another, the code is left in though it is on two stations by then. If the
first feed names no station for a platform that a later one puts under its station, the two are
counted as two places and the code is left out of both; with the feeds in the other order
it stays.

*Bounds.* Every ordered pair of the feeds made by four ways to tell one service and
six to tell another, and of those made by four lists of calls, two with a call that lacks a
time, two of stops and three
of transfers; one list of three feeds. A week has two days (`WeekLength`), so that a
service can run more often than not on one and less on the other within five
dates. The four stops are a station with its platform, a near stop in the next cell and a
far one. A merge ends, so deadlock is not checked.

*Assumptions.* `InputsAssumption` says of a feed what GTFS does (`ValidFeed`): an id is
given once, a service has at most one row of `calendar.txt`, the service and the route a trip
names and the stop a call names are there, and a stop that is called at is a place of its
own or under a station that is. None of it is tested by the code: of two rows with one id the
later or the first is taken, depending on the file, and a trip that names no service is
dropped like one whose service has no day left.
Nothing is assumed of how many feeds there are, how long they are, which blocks,
couplings, groups and codes they name, or the order of their rows, and `NumbersAssumption`
has dates, distances and the length of a week be numbers. `None` is no stop. `Loc` is one
function of the stop: feeds that name the same stop are taken to agree on where it is, or that it
is nowhere. The code takes the location from the row of each feed
(`StopsAndTransfersMerger.ts:152-166`) and compares with the first one it kept, so of feeds
that disagree nothing is said here; `apps/gtfsmerge/README.md:50-54` asks for them to be
reconciled first.

*Proofs.* `FeedMerge_proofs` shows the five properties for any list of such feeds.
`IInv == Shape /\ RoutesInv /\ CalendarsInv /\ TripsInv /\ CallsInv /\ PlacesInv /\
GroupsInv /\ TransfersInv /\ FinalInv`, a part for each merger. A property like `RefsResolve`
says too little to carry itself: that a call names a trip in the file follows only from what the
map of the feed in hand maps to. So each part says what the output is, in terms of the
inputs: `KeptRoutes`, `KeptTrips`, `KeptLines`, `PublishedIn` are what one feed comes to
whatever it is merged with, and an output is that of every feed up to the last its merger
has written (`RoutesDone`, `CalendarsDone`, ...), which in a stage of mergers side by side is not the
same for each of them. Where a merger hands a map to the next, the part also says that the map is
complete for the feed in hand.

* `RoutesInv`, `TripsInv`: ids are counted up and no two rows share one (`Counted`,
  from the lemma `NumberedAs` on what a numbering of some lines of a list is), and a block
  stands for one vehicle of one feed.
* `CalendarsInv`: the number of a service is that of its calendar, however many services
  it stands for. That a calendar runs on the dates its service was given is no invariant but a
  lemma on the operators (`ToldIsGiven`, `CreateRuns`): whether the week is told by a row,
  or worked out from dates with what disagrees as exceptions, the days ahead are the same.
* `CallsInv`: of the lines kept, the first `line` of them are written or to be written, each once
  and in order, wherever the parser and the writer are.
* `PlacesInv`, `GroupsInv`: the accumulated places and groups are unions over the feeds.
* `TransfersInv`: of two places that are near, the later has been compared with the
  earlier. `NearIfClose` is the arithmetic: places nearer than the width of a cell are at most
  a cell apart.
* `CodesInv`, on top of these and where `StationsAgree`: a code has been counted for the
  station its stop ends up under.

## 11. Findings

1. **A retried changes archive mixes up calls** (`import_retry`, `CallsTheirOwn`,
   `ImportFeedCommand.ts:136`). The ids are restored from `max(schedule.id)`.
   Calls that a failed attempt wrote before their schedule are still there, and
   take part in the schedule that gets the same id next. A schedule that the failed attempt did write keeps its
   row and its id, and the calls of the second attempt are swept as orphans.
   `IdsUnused` holds all the same: within a table no id is given twice, it is the
   reference from one table to the other that is.
2. **A manual train is never revised** (`import_manual`, `SchedulesInForce`,
   `ZTR.ts:5`). `ImportFeedCommand.ts:143` says that it is REPLACEd; without an
   action map each line is an insert and the stored row stays.
3. **A base is passed over** (`overlays_covered`, `LatestAlone`,
   `ApplyOverlays.ts:13`). When a record covers a base entirely, the next base
   moves into its place and the loop does not look at it.

*Noted, without a run.* Each of these is read off a line or two of the code, where a trace
would add nothing.

* `apps/gtfsmerge/README.md:14` says "A call at a platform becomes a call at the station above
  it", and `StopTimesMerger.ts:30` that calls are "remapped onto the station each stop belongs
  to". The code keeps the platform, which a comment (`StopTimesMerger.ts:54`) and a test
  (`StopTimesMerger.spec.ts:40-49`) ask for. `ReadCall` and `ServedAsGiven` follow the code;
  memberships of areas do move to the station (`AreasMerger.ts:80`).
* `apps/gtfsmerge/README.md:8` says that duplicate routes "are assumed to be the same and
  written once", and the next line that routes are re-indexed. The code numbers every route of
  every feed anew, and two that are alike are two (`WriteRoutes`, `NotConflated`).
* `StopsAndTransfersMerger.ts:28-31` has the question which codes are shared answered once
  every feed has been read. Line 138 looks up the station a code is counted for while the feed
  is read (section 10: `AskedOfTheWhole` holds of the codes only where `StationsAgree`).
* `FeedIndex.ts:277` speaks of a call "with only one of its times"; one with neither, which
  GTFS allows between two that have them, is left out as well (`IsRead`).

## 12. What is only model-checked, and what is left out

*With TLC alone.* Liveness (`CaughtUp`, `Ends`, `Settles`, `EveryAskSettles`,
`LoadingEnds`), which is beyond the proof system. That `CallsTheirOwn` fails
where a changes archive is retried (finding 1) is a run; the theorem is about feeds
without one and imports without a failure.
`TypeOK` of `PatternMerge`, of `Explorer` and of `Couplings` is proved and not a
property of a run.

*Left out of the importer.* Files whose rows refer to nothing; `schedule_extra`;
`DelayedInsert`, which no feed uses; the split of a flush into statements, since
it is one transaction; the retry on a lock, which is the same step again; the
chaining of a table's writes where a record asks for it, which is one of the
orders modelled; archives that leave the server; two importers at once;
an import given by hand; a file left by an earlier download that failed half way.

*Left out of the overlays.* What a schedule holds besides its calendar; the order
of the sources, which the instance takes as sorted and the theorems do not need.

*Left out of the pool.* What the patterns are, the progress callback, and the
checks before the first day.

*Left out of the couplings.* Times, headsigns and the ids of stop times; where a
schedule calls is the set of places associations name. The suffix of a trip id goes
by the order of the list, where the code goes by content: both tell apart what
would have one id.

*Left out of the merge.* Front coding, which reading undoes; `split`; the choice
of dates.

*Left out of the delivery.* CSV and the bytes of an archive; two processes
delivering to one path at the same time.

*Left out of the explorer.* Saving a file, the progress of a load, the ledger
beside a feed, and what the answers are worked out from.

*Left out of the feed merge.* Agencies, attributions and feed_info, which pass
through; shapes and frequencies, which are numbered as blocks and renamed as calls
are; the hours in which a walk may be taken; columns a feed adds.

*Not modelled.* The map covers a small share of the repository's lines, and most
of the rest has no behaviour to model: tables of station and operator data, a
third of all lines; the layouts of files and the definitions of
database tables; parsers of CIF, GTFS, NaPTAN, fares and routeing data; pages and
queries of the website; command lines and wiring. They are functions from data to
data, or statements for a database, for which example tests say more than a state
machine. The timetable transforms other than overlays and couplings are of this
kind too. The TransXChange conversion is the one component left with a decision
that reaches across documents (`Supersession`), and it is in the plan.
