---------------------------- MODULE FeedDelivery ----------------------------
(***************************************************************************)
(* How a built feed comes to stand at the output path (libs/gtfs-output,   *)
(* with the programs that use it).  A run writes the files of a feed in a  *)
(* working directory, waits until they are on disk, and delivers the       *)
(* directory: zipped by writeZip, or moved into place by deliverFeed, with *)
(* the feed that stood there moved aside first.  Runs follow each other,   *)
(* each the feed of its own version; any of them may fail or die.          *)
(*                                                                         *)
(* A place on the disk is what each of its files holds, or Missing.  An    *)
(* archive whose end record is not written cannot be read: its entries are *)
(* Partial until then.                                                     *)
(***************************************************************************)
EXTENDS Naturals

CONSTANTS
    Files,      \* the files a feed may have
    Pids,       \* process ids; a later process may be given one again
    Targets,    \* [zip, apart, tmp]: an archive; a working directory on another
                \* filesystem; one made for the run and removed with it
    MaxRuns,    \* runs
    MaxFaults,  \* failures and crashes
    Missing, Absent, Partial

ASSUME FilesAssumption == Files # {}
ASSUME PidsAssumption == Pids # {}
ASSUME TargetsAssumption == Targets \subseteq [zip : BOOLEAN, apart : BOOLEAN, tmp : BOOLEAN]
ASSUME MaxRunsAssumption == MaxRuns \in Nat
ASSUME MaxFaultsAssumption == MaxFaults \in Nat

Versions == 0..MaxRuns
Content == Versions \cup {Absent, Partial}
Place == [Files -> Content]

ASSUME MarksAssumption == /\ Absent # Partial
                          /\ {Absent, Partial} \cap Versions = {}
                          /\ Missing \notin Place

VARIABLES
    target,     \* what the runs deliver to
    output,     \* at the output path
    aside,      \* at <output>.replaced-<pid>
    work,       \* the working directory
    stage,      \* what the run is doing
    replacing,  \* the feed that stood at the output was moved aside
    outcome,    \* how the last run ended
    run, pid,
    contents,   \* the files of each version
    old,        \* what stood at the output when the run began
    faults

history == <<contents, old>>
process == <<run, pid>>
vars == <<target, output, aside, work, stage, replacing, outcome, process, history, faults>>

Empty == [f \in Files |-> Absent]

\* The whole feed of a version.
Feed(v) == [f \in Files |-> IF f \in contents[v] THEN v ELSE Absent]

\* A directory with something in it, which nothing can be renamed onto.
Occupied(place) == place \notin {Missing, Empty}

\* Failures that a step takes; one during the clean-up of another is a second.
Faults(n) == faults + n <= MaxFaults /\ faults' = faults + n

Fault == Faults(1)

Ends(how) ==
    /\ stage' = "idle"
    /\ outcome' = how

\* The caller's `finally`, where there is one, which may fail to remove the work.
Fails(how) ==
    /\ Ends(how)
    /\ work' \in IF target.tmp THEN {Missing, work} ELSE {work}

Throws == Fails("thrown")

-----------------------------------------------------------------------------
(* The build *)

\* Mutant: the working directory is not emptied.
BeginOver ==
    /\ stage = "idle" /\ run < MaxRuns
    /\ run' = run + 1
    /\ pid' \in Pids
    /\ \E files \in (SUBSET Files) \ {{}} : contents' = [contents EXCEPT ![run + 1] = files]
    /\ work' = IF work = Missing THEN Empty ELSE work
    /\ old' = output
    /\ stage' = "building"
    /\ UNCHANGED <<target, output, aside, replacing, outcome, faults>>

\* Mutant: the working directory is removed and not made again.
BeginNowhere ==
    /\ stage = "idle" /\ run < MaxRuns
    /\ run' = run + 1
    /\ pid' \in Pids
    /\ \E files \in (SUBSET Files) \ {{}} : contents' = [contents EXCEPT ![run + 1] = files]
    /\ work' = Missing
    /\ old' = output
    /\ stage' = "building"
    /\ UNCHANGED <<target, output, aside, replacing, outcome, faults>>

\* A run on an empty working directory.
Begin ==
    /\ stage = "idle" /\ run < MaxRuns
    /\ run' = run + 1
    /\ pid' \in Pids
    /\ \E files \in (SUBSET Files) \ {{}} : contents' = [contents EXCEPT ![run + 1] = files]
    /\ work' = Empty
    /\ old' = output
    /\ stage' = "building"
    /\ UNCHANGED <<target, output, aside, replacing, outcome, faults>>

OpenFile(f) ==
    /\ stage = "building"
    /\ f \in contents[run] /\ work[f] \notin {Partial, run}
    /\ work' = [work EXCEPT ![f] = Partial]
    /\ UNCHANGED <<target, output, aside, stage, replacing, outcome, process, history, faults>>

\* The rows of a file that was ended are on disk.
FinishFile(f) ==
    /\ stage \in {"building", "ending"}
    /\ work[f] = Partial
    /\ work' = [work EXCEPT ![f] = run]
    /\ UNCHANGED <<target, output, aside, stage, replacing, outcome, process, history, faults>>

\* The output can be asked whether it has finished only once every file is opened.
EndBuild ==
    /\ stage = "building"
    /\ \A f \in contents[run] : work[f] \in {Partial, run}
    /\ stage' = "ending"
    /\ UNCHANGED <<target, output, aside, work, replacing, outcome, process, history, faults>>

\* Mutant: the writers are waited for, not the files.
FilesEndedSoon ==
    /\ stage = "ending"
    /\ stage' = "delivering"
    /\ UNCHANGED <<target, output, aside, work, replacing, outcome, process, history, faults>>

FilesEnded ==
    /\ stage = "ending"
    /\ \A f \in Files : work[f] # Partial
    /\ stage' = "delivering"
    /\ UNCHANGED <<target, output, aside, work, replacing, outcome, process, history, faults>>

\* The source, the rows or the disk; an entry too large for an archive; or what
\* stands at the output cannot be removed or moved aside.
BuildFails ==
    /\ stage \in {"building", "ending", "delivering"}
    /\ Fault
    /\ Throws
    /\ UNCHANGED <<target, output, aside, replacing, process, history>>

-----------------------------------------------------------------------------
(* writeZip *)

\* The archive of the last run goes before the new one is opened.
RemoveArchive ==
    /\ stage = "delivering" /\ target.zip
    /\ output' = Missing
    /\ stage' = "opening"
    /\ UNCHANGED <<target, aside, work, replacing, outcome, process, history, faults>>

OpenFails ==
    /\ stage = "opening"
    /\ Fault
    /\ Throws
    /\ UNCHANGED <<target, output, aside, replacing, process, history>>

OpenArchive ==
    /\ stage = "opening"
    /\ output' = Empty
    /\ stage' = "zipping"
    /\ UNCHANGED <<target, aside, work, replacing, outcome, process, history, faults>>

\* In the order of their names in the code, which nothing here tells apart.
StoreEntry(f) ==
    /\ stage = "zipping"
    /\ work[f] # Absent /\ output[f] = Absent
    /\ output' = [output EXCEPT ![f] = Partial]
    /\ UNCHANGED <<target, aside, work, stage, replacing, outcome, process, history, faults>>

\* The central directory and its end record.
SealArchive ==
    /\ stage = "zipping"
    /\ \A f \in Files : work[f] # Absent => output[f] = Partial
    /\ output' = work
    /\ stage' = "closing"
    /\ UNCHANGED <<target, aside, work, replacing, outcome, process, history, faults>>

CloseArchive ==
    /\ stage = "closing"
    /\ stage' = "clearing"
    /\ UNCHANGED <<target, output, aside, work, replacing, outcome, process, history, faults>>

\* The source, the disk, or entries past what an archive can address.
ArchiveFails ==
    /\ stage \in {"zipping", "closing"}
    /\ Fault
    /\ output' = Missing
    /\ Throws
    /\ UNCHANGED <<target, aside, replacing, process, history>>

\* What was written of the archive cannot be removed either.
ArchiveStays ==
    /\ stage \in {"zipping", "closing"}
    /\ Faults(2)
    /\ Fails("stranded")
    /\ UNCHANGED <<target, output, aside, replacing, process, history>>

\* The archive is whole; the work goes last.
ClearWork ==
    /\ stage = "clearing" /\ target.zip
    /\ work' = Missing
    /\ Ends("returned")
    /\ UNCHANGED <<target, output, aside, replacing, process, history, faults>>

\* What is left of the work is for the next run to remove.
ClearFails ==
    /\ stage = "clearing" /\ target.zip
    /\ Fault
    /\ Ends("thrown")
    /\ UNCHANGED <<target, output, aside, work, replacing, process, history>>

-----------------------------------------------------------------------------
(* deliverFeed, to a directory *)

\* Mutant: what stands there is removed first.
MoveAsideGone ==
    /\ stage = "delivering" /\ ~target.zip /\ output # Missing
    /\ ~Occupied(aside[pid])
    /\ output' = Missing
    /\ stage' = "moving"
    /\ replacing' = FALSE
    /\ UNCHANGED <<target, aside, work, outcome, process, history, faults>>

MoveAside ==
    /\ stage = "delivering" /\ ~target.zip /\ output # Missing
    /\ ~Occupied(aside[pid])
    /\ aside' = [aside EXCEPT ![pid] = output]
    /\ output' = Missing
    /\ stage' = "moving"
    /\ replacing' = TRUE
    /\ UNCHANGED <<target, work, outcome, process, history, faults>>

\* A process with this id died with its feed aside.
AsideTaken ==
    /\ stage = "delivering" /\ ~target.zip /\ output # Missing
    /\ Occupied(aside[pid])
    /\ Throws
    /\ UNCHANGED <<target, output, aside, replacing, process, history, faults>>

NothingToReplace ==
    /\ stage = "delivering" /\ ~target.zip /\ output = Missing
    /\ stage' = "moving"
    /\ replacing' = FALSE
    /\ UNCHANGED <<target, output, aside, work, outcome, process, history, faults>>

\* What is left to do once the feed is in place.
Moved ==
    IF replacing THEN stage' = "sweeping" /\ UNCHANGED outcome
                 ELSE Ends("returned")

Rename ==
    /\ stage = "moving" /\ ~target.apart
    /\ output' = work
    /\ work' = Missing
    /\ Moved
    /\ UNCHANGED <<target, aside, replacing, process, history, faults>>

\* A rename cannot cross filesystems, so the files are copied.
StartCopy ==
    /\ stage = "moving" /\ target.apart
    /\ output' = Empty
    /\ stage' = "copying"
    /\ UNCHANGED <<target, aside, work, replacing, outcome, process, history, faults>>

CopyFile(f) ==
    /\ stage = "copying"
    /\ work[f] # Absent /\ output[f] = Absent
    /\ output' = [output EXCEPT ![f] = Partial]
    /\ UNCHANGED <<target, aside, work, stage, replacing, outcome, process, history, faults>>

FileCopied(f) ==
    /\ stage = "copying"
    /\ output[f] = Partial
    /\ output' = [output EXCEPT ![f] = work[f]]
    /\ UNCHANGED <<target, aside, work, stage, replacing, outcome, process, history, faults>>

EndCopy ==
    /\ stage = "copying" /\ output = work
    /\ stage' = "clearing"
    /\ UNCHANGED <<target, output, aside, work, replacing, outcome, process, history, faults>>

\* The work that was copied is removed, as part of the move.
ClearCopied ==
    /\ stage = "clearing" /\ ~target.zip
    /\ work' = Missing
    /\ Moved
    /\ UNCHANGED <<target, output, aside, replacing, process, history, faults>>

InMove == stage \in {"moving", "copying"} \/ (stage = "clearing" /\ ~target.zip)

\* Mutant: the feed that was moved aside stays there.
MoveFailsKeeping ==
    /\ InMove
    /\ Fault
    /\ Throws
    /\ UNCHANGED <<target, output, aside, replacing, process, history>>

\* The old feed, if there was one, goes back.
MoveFails ==
    /\ InMove
    /\ Fault
    /\ Throws
    /\ IF replacing
         THEN /\ ~Occupied(output)
              /\ output' = aside[pid] /\ aside' = [aside EXCEPT ![pid] = Missing]
         ELSE UNCHANGED <<output, aside>>
    /\ UNCHANGED <<target, replacing, process, history>>

\* It cannot go back: what was copied is in the way, or that rename fails as well.
RestoreFails ==
    /\ InMove /\ replacing
    /\ Faults(IF Occupied(output) THEN 1 ELSE 2)
    /\ Fails("stranded")
    /\ UNCHANGED <<target, output, aside, replacing, process, history>>

\* The old feed is removed file by file.
SweepFile(f) ==
    /\ stage = "sweeping"
    /\ aside[pid][f] # Absent
    /\ aside' = [aside EXCEPT ![pid][f] = Absent]
    /\ UNCHANGED <<target, output, work, stage, replacing, outcome, process, history, faults>>

RemoveAside ==
    /\ stage = "sweeping" /\ aside[pid] = Empty
    /\ aside' = [aside EXCEPT ![pid] = Missing]
    /\ Ends("returned")
    /\ UNCHANGED <<target, output, work, replacing, process, history, faults>>

\* The new feed is in place, and the run fails all the same.
SweepFails ==
    /\ stage = "sweeping"
    /\ Fault
    /\ Throws
    /\ UNCHANGED <<target, output, aside, replacing, process, history>>

-----------------------------------------------------------------------------

\* Killed, or ended by a promise that nobody was waiting for yet: every file's
\* is, until the build asks for the end of the output.
Die ==
    /\ stage # "idle"
    /\ Fault
    /\ Ends("died")
    /\ UNCHANGED <<target, output, aside, work, replacing, process, history>>

Init ==
    /\ target \in Targets
    /\ contents \in {[v \in Versions |-> IF v = 0 THEN files ELSE {}] : files \in (SUBSET Files) \ {{}}}
    /\ output \in {Missing, Feed(0)}
    /\ aside = [p \in Pids |-> Missing]
    /\ work = Missing
    /\ stage = "idle"
    /\ replacing = FALSE
    /\ outcome = "none"
    /\ run = 0
    /\ pid \in Pids
    /\ old = output
    /\ faults = 0

Build == Begin \/ (\E f \in Files : OpenFile(f) \/ FinishFile(f)) \/ EndBuild \/ FilesEnded \/ BuildFails
WriteZip ==
    \/ RemoveArchive \/ OpenFails \/ OpenArchive \/ (\E f \in Files : StoreEntry(f)) \/ SealArchive
    \/ CloseArchive \/ ArchiveFails \/ ArchiveStays \/ ClearWork \/ ClearFails
DeliverDirectory ==
    \/ MoveAside \/ AsideTaken \/ NothingToReplace \/ Rename \/ StartCopy
    \/ (\E f \in Files : CopyFile(f) \/ FileCopied(f)) \/ EndCopy \/ ClearCopied
    \/ MoveFails \/ RestoreFails \/ (\E f \in Files : SweepFile(f)) \/ RemoveAside \/ SweepFails

Next == Build \/ WriteZip \/ DeliverDirectory \/ Die

Spec == Init /\ [][Next]_vars

-----------------------------------------------------------------------------

\* Every variable keeps its type, and a run has the directories it works in.
TypeOK ==
    /\ target \in Targets
    /\ {output, work, old} \subseteq Place \cup {Missing}
    /\ aside \in [Pids -> Place \cup {Missing}]
    /\ stage \in {"idle", "building", "ending", "delivering", "opening", "zipping",
                  "closing", "clearing", "moving", "copying", "sweeping"}
    /\ stage \notin {"idle", "sweeping"} => work # Missing
    /\ stage \in {"zipping", "closing", "clearing", "copying", "sweeping"} => output # Missing
    /\ stage = "sweeping" => aside[pid] # Missing
    /\ replacing \in BOOLEAN
    /\ outcome \in {"none", "returned", "thrown", "stranded", "died"}
    /\ run \in Versions /\ pid \in Pids
    /\ contents \in [Versions -> SUBSET Files]
    /\ faults \in 0..MaxFaults

\* A reader never finds files of two builds together, whatever earlier runs left
\* in the working directory or at the output.
OneFeed ==
    output # Missing =>
        \A f, g \in Files : {output[f], output[g]} \subseteq Versions => output[f] = output[g]

\* A run that returned has put its feed at the output with every file whole,
\* though a writer is done before its file is.
ReturnedWhole == outcome = "returned" /\ stage = "idle" => output = Feed(run)

\* A run that failed leaves at the output what was there, or its own feed whole where
\* only a clean-up failed, or nothing where an archive was already removed: never a
\* half, unless one that was copied from another filesystem.  Where putting things
\* right failed as well, nobody can read a half archive, and the old directory is
\* whole aside.
FailureLeavesNoHalf ==
    stage = "idle" =>
        /\ outcome = "thrown" /\ ~target.apart =>
               output \in {old, Feed(run)} \/ (target.zip /\ output = Missing)
        /\ outcome = "stranded" =>
               IF target.zip
                 THEN output = Feed(run) \/ \A f \in Files : output[f] \in {Absent, Partial}
                 ELSE aside[pid] = old /\ (target.apart \/ output = Missing)

\* The feed of a version can be had, at the output or aside.
Kept(v) == output = Feed(v) \/ \E p \in Pids : aside[p] = Feed(v)

\* A directory's feed is given up only for that of the run, whole and in its
\* place, through any failures, crashes and process ids used again.
KeptUntilReplaced ==
    [][\A v \in 0..run : ~target.zip /\ Kept(v) /\ ~Kept(v)' => output' = Feed(run)]_vars
=============================================================================
