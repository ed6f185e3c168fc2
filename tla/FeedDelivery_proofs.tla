------------------------- MODULE FeedDelivery_proofs -------------------------
(***************************************************************************)
(* The delivery of a feed, for any files, process ids and number of runs   *)
(* and faults.  The invariant says what the working directory and the      *)
(* output hold in each stage: once the files have ended the work is the    *)
(* whole feed of the run, until then the output is what the run found, and *)
(* while a directory is being moved what it found is at its aside place.   *)
(***************************************************************************)
EXTENDS FeedDelivery, TLAPS

Uniform(place) ==
    place # Missing =>
        \A f, g \in Files : {place[f], place[g]} \subseteq Versions => place[f] = place[g]

ContentsKnown == \A v \in 0..run : contents[v] # {}

WorkOfTheRun ==
    /\ stage \notin {"idle", "sweeping"} =>
        \A f \in Files : /\ work[f] \in {Absent, Partial, run}
                         /\ work[f] # Absent => f \in contents[run]
    /\ stage = "ending" => \A f \in contents[run] : work[f] # Absent
    /\ stage \in {"delivering", "opening", "zipping", "closing", "clearing", "moving", "copying"}
         => work = Feed(run)

OutputOfTheStage ==
    /\ stage \in {"building", "ending", "delivering"} => output = old
    /\ stage \in {"opening", "moving"} => output = Missing
    /\ stage = "zipping" => \A f \in Files : output[f] \in {Absent, Partial}
    /\ stage = "copying" => \A f \in Files : output[f] \in {Absent, Partial, run}
    /\ stage \in {"closing", "clearing", "sweeping"} => output = Feed(run)

TargetOfTheStage ==
    /\ stage \in {"opening", "zipping", "closing"} => target.zip
    /\ stage \in {"moving", "copying", "sweeping"} => ~target.zip
    /\ stage = "copying" \/ (stage = "clearing" /\ ~target.zip) => target.apart

AsideOfTheRun ==
    InMove => IF replacing THEN aside[pid] = old /\ old # Missing ELSE old = Missing

AllUniform == Uniform(output) /\ \A p \in Pids : Uniform(aside[p])

Inv ==
    /\ TypeOK /\ ContentsKnown /\ WorkOfTheRun /\ OutputOfTheStage
    /\ TargetOfTheStage /\ AsideOfTheRun /\ AllUniform /\ ReturnedWhole /\ FailureLeavesNoHalf

\* The feed of a version is a place that is not empty where the version has files.
LEMMA FeedIsPlace ==
    ASSUME TypeOK, NEW v \in Versions
    PROVE  /\ Feed(v) \in Place
           /\ \A f \in Files : Feed(v)[f] = IF f \in contents[v] THEN v ELSE Absent
           /\ contents[v] # {} => Feed(v) # Empty
<1>1. v # Absent
  BY MarksAssumption
<1> QED
  BY <1>1 DEF Feed, Place, Content, Empty, TypeOK

\* The feed of a version, an empty place and a missing one are of one build.
LEMMA PlainPlaces ==
    ASSUME TypeOK, NEW v \in Versions
    PROVE  Uniform(Feed(v)) /\ Uniform(Empty) /\ Uniform(Missing)
<1>1. Absent \notin Versions
  BY MarksAssumption
<1> QED
  BY <1>1, FeedIsPlace DEF Uniform, Empty

\* The first run finds no feed, or a whole one.
LEMMA InitInv == Init => Inv
<1> SUFFICES ASSUME Init PROVE Inv
  OBVIOUS
<1>1. 0 \in Versions
  BY MaxRunsAssumption DEF Versions
<1>2. contents \in [Versions -> SUBSET Files] /\ contents[0] # {}
  BY <1>1 DEF Init
<1>3. Feed(0) \in Place
  BY <1>1 DEF Feed, Place, Content
<1>4. TypeOK
  <2>1. output \in Place \cup {Missing} /\ old = output /\ work = Missing
    BY <1>3 DEF Init
  <2>2. aside \in [Pids -> Place \cup {Missing}]
    BY DEF Init
  <2>3. /\ target \in Targets /\ stage = "idle" /\ replacing = FALSE /\ outcome = "none"
        /\ run = 0 /\ pid \in Pids /\ faults = 0 /\ 0 \in 0..MaxFaults
    BY MaxFaultsAssumption DEF Init
  <2> QED
    BY <1>1, <1>2, <2>1, <2>2, <2>3 DEF TypeOK
<1>5. Uniform(output) /\ \A p \in Pids : Uniform(aside[p])
  BY <1>1, <1>4, PlainPlaces DEF Init
<1> QED
  BY <1>2, <1>4, <1>5 DEF Init, Inv, ContentsKnown, WorkOfTheRun, OutputOfTheStage,
     TargetOfTheStage, AsideOfTheRun, InMove, AllUniform, ReturnedWhole, FailureLeavesNoHalf

\* A run that stops without having delivered: what has to be shown of it.
LEMMA Stopped ==
    ASSUME Inv, stage' = "idle", outcome' \in {"thrown", "stranded", "died"},
           UNCHANGED <<target, process, contents, replacing, old>>,
           {output', work'} \subseteq Place \cup {Missing},
           aside' \in [Pids -> Place \cup {Missing}], faults' \in 0..MaxFaults,
           AllUniform', FailureLeavesNoHalf'
    PROVE  Inv'
<1>1. TypeOK'
  BY DEF Inv, TypeOK, process
<1> QED
  BY <1>1 DEF Inv, ContentsKnown, WorkOfTheRun, OutputOfTheStage, TargetOfTheStage, AsideOfTheRun,
     InMove, ReturnedWhole, process

\* The work and the output of a run in progress are places, and its version is one.
LEMMA Places ==
    ASSUME Inv
    PROVE  /\ run \in Versions /\ Absent \in Content /\ Partial \in Content /\ run \in Content
           /\ Feed(run) \in Place /\ Empty \in Place /\ Missing \notin Place
           /\ Uniform(Feed(run)) /\ Uniform(Empty) /\ Uniform(Missing)
<1> TypeOK
  BY DEF Inv
<1> run \in Versions
  BY DEF TypeOK
<1> QED
  BY FeedIsPlace, PlainPlaces, MarksAssumption DEF Empty, Place, Content

\* Begin: a new version is begun on an empty directory.
LEMMA BeginInv == ASSUME Inv, Begin PROVE Inv'
<1>1. /\ run + 1 \in Versions /\ run' = run + 1
      /\ contents' \in [Versions -> SUBSET Files] /\ contents'[run + 1] # {}
      /\ \A v \in 0..run : contents'[v] = contents[v]
  BY MaxRunsAssumption DEF Inv, TypeOK, Begin, Versions
<1>2. work' \in Place /\ \A f \in Files : work'[f] = Absent
  BY Places DEF Begin, Empty
<1>3. TypeOK'
  BY <1>1, Places DEF Inv, Begin, TypeOK
<1>4. ContentsKnown'
  <2>1. run \in Nat /\ \A v \in 0..run' : v \in 0..run \/ v = run + 1
    BY <1>1 DEF Inv, TypeOK, Versions
  <2> QED
    BY <1>1, <2>1 DEF Inv, ContentsKnown
<1>5. TargetOfTheStage' /\ AsideOfTheRun'
  BY DEF Begin, TargetOfTheStage, AsideOfTheRun, InMove
<1>6. WorkOfTheRun' /\ OutputOfTheStage'
  BY <1>2 DEF Begin, WorkOfTheRun, OutputOfTheStage
<1>7. AllUniform' /\ ReturnedWhole' /\ FailureLeavesNoHalf'
  BY DEF Inv, Begin, AllUniform, ReturnedWhole, FailureLeavesNoHalf
<1> QED
  BY <1>3, <1>4, <1>5, <1>6, <1>7 DEF Inv

\* OpenFile: a file of the run is opened in the work.
LEMMA OpenFileInv == ASSUME Inv, NEW f \in Files, OpenFile(f) PROVE Inv'
<1>1. work \in Place
  BY DEF Inv, TypeOK, OpenFile
<1>2. /\ work' \in Place /\ work'[f] = Partial /\ f \in contents[run]
      /\ \A g \in Files \ {f} : work'[g] = work[g]
  BY <1>1, Places DEF OpenFile, Place
<1>3. TypeOK'
  BY <1>2, Places DEF Inv, OpenFile, TypeOK, process, history
<1>4. ContentsKnown' /\ TargetOfTheStage' /\ AsideOfTheRun'
  BY DEF Inv, OpenFile, ContentsKnown, TargetOfTheStage, AsideOfTheRun, InMove, process, history
<1>5. WorkOfTheRun' /\ OutputOfTheStage'
  BY DEF Inv, OpenFile, WorkOfTheRun, OutputOfTheStage, process, history
<1>6. AllUniform' /\ ReturnedWhole' /\ FailureLeavesNoHalf'
  BY DEF Inv, OpenFile, AllUniform, ReturnedWhole, FailureLeavesNoHalf
<1> QED
  BY <1>3, <1>4, <1>5, <1>6 DEF Inv

\* FinishFile: an open file is whole.
LEMMA FinishFileInv == ASSUME Inv, NEW f \in Files, FinishFile(f) PROVE Inv'
<1>1. work \in Place
  BY DEF Inv, TypeOK, FinishFile
<1>2. /\ work' \in Place /\ work'[f] = run /\ f \in contents[run]
      /\ \A g \in Files \ {f} : work'[g] = work[g]
  BY <1>1, Places, MarksAssumption DEF FinishFile, Place, Inv, WorkOfTheRun
<1>3. TypeOK'
  BY <1>2, Places DEF Inv, FinishFile, TypeOK, process, history
<1>4. ContentsKnown' /\ TargetOfTheStage' /\ AsideOfTheRun'
  BY DEF Inv, FinishFile, ContentsKnown, TargetOfTheStage, AsideOfTheRun, InMove, process, history
<1>5. WorkOfTheRun'
  <2>1. contents[run] \subseteq Files /\ run # Absent
    BY MarksAssumption DEF Inv, TypeOK
  <2>2. stage' \in {"building", "ending"} /\ UNCHANGED <<stage, run, contents>>
    BY DEF FinishFile, process, history
  <2> QED
    BY <1>2, <2>1, <2>2 DEF Inv, WorkOfTheRun
<1>6. OutputOfTheStage'
  BY DEF Inv, FinishFile, OutputOfTheStage, history
<1>7. AllUniform' /\ ReturnedWhole' /\ FailureLeavesNoHalf'
  BY DEF Inv, FinishFile, AllUniform, ReturnedWhole, FailureLeavesNoHalf
<1> QED
  BY <1>3, <1>4, <1>5, <1>6, <1>7 DEF Inv

\* EndBuild: every file of the run was opened.
LEMMA EndBuildInv == ASSUME Inv, EndBuild PROVE Inv'
<1>1. \A f \in contents[run] : work[f] # Absent
  BY Places, MarksAssumption DEF EndBuild
<1>2. TypeOK'
  BY DEF Inv, EndBuild, TypeOK, process, history
<1>3. ContentsKnown' /\ TargetOfTheStage' /\ AsideOfTheRun'
  BY DEF Inv, EndBuild, ContentsKnown, TargetOfTheStage, AsideOfTheRun, InMove, process, history
<1>4. WorkOfTheRun' /\ OutputOfTheStage'
  BY <1>1 DEF Inv, EndBuild, WorkOfTheRun, OutputOfTheStage, process, history
<1>5. AllUniform' /\ ReturnedWhole' /\ FailureLeavesNoHalf'
  BY DEF Inv, EndBuild, AllUniform, ReturnedWhole, FailureLeavesNoHalf
<1> QED
  BY <1>2, <1>3, <1>4, <1>5 DEF Inv

\* FilesEnded: no file is open any more, so the work is the feed.
LEMMA FilesEndedInv == ASSUME Inv, FilesEnded PROVE Inv'
<1>1. work \in Place
  BY DEF Inv, TypeOK, FilesEnded
<1>2. work = Feed(run)
  BY <1>1 DEF Feed, FilesEnded, Inv, WorkOfTheRun, Place
<1>3. TypeOK'
  BY DEF Inv, FilesEnded, TypeOK, process, history
<1>4. ContentsKnown' /\ TargetOfTheStage' /\ AsideOfTheRun'
  BY DEF Inv, FilesEnded, ContentsKnown, TargetOfTheStage, AsideOfTheRun, InMove, process, history
<1>5. WorkOfTheRun' /\ OutputOfTheStage'
  BY <1>2 DEF Inv, FilesEnded, WorkOfTheRun, OutputOfTheStage, process, history, Feed
<1>6. AllUniform' /\ ReturnedWhole' /\ FailureLeavesNoHalf'
  BY DEF Inv, FilesEnded, AllUniform, ReturnedWhole, FailureLeavesNoHalf
<1> QED
  BY <1>3, <1>4, <1>5, <1>6 DEF Inv

\* BuildFails: the output was not touched yet.
LEMMA BuildFailsInv == ASSUME Inv, BuildFails PROVE Inv'
<1>1. output = old
  BY DEF BuildFails, Inv, OutputOfTheStage
<1>2. {output', work'} \subseteq Place \cup {Missing} /\ aside' \in [Pids -> Place \cup {Missing}]
  BY DEF Inv, TypeOK, BuildFails, Throws, Fails
<1>3. FailureLeavesNoHalf'
  BY <1>1 DEF BuildFails, Throws, Fails, Ends, FailureLeavesNoHalf, history
<1>4. faults' \in 0..MaxFaults
  BY MaxFaultsAssumption DEF Inv, TypeOK, BuildFails, Fault, Faults
<1>5. AllUniform'
  BY DEF Inv, AllUniform, BuildFails
<1> QED
  BY <1>1, <1>2, <1>3, <1>4, <1>5, Stopped DEF BuildFails, Throws, Fails, Ends, history

\* RemoveArchive: the output is gone.
LEMMA RemoveArchiveInv == ASSUME Inv, RemoveArchive PROVE Inv'
<1>1. TypeOK'
  BY DEF Inv, RemoveArchive, TypeOK, process, history
<1>2. ContentsKnown' /\ TargetOfTheStage' /\ AsideOfTheRun'
  BY DEF Inv, RemoveArchive, ContentsKnown, TargetOfTheStage, AsideOfTheRun, InMove, process, history
<1>3. WorkOfTheRun' /\ OutputOfTheStage'
  BY DEF Inv, RemoveArchive, WorkOfTheRun, OutputOfTheStage, process, history, Feed
<1>4. AllUniform' /\ ReturnedWhole' /\ FailureLeavesNoHalf'
  BY Places DEF Inv, RemoveArchive, AllUniform, ReturnedWhole, FailureLeavesNoHalf
<1> QED
  BY <1>1, <1>2, <1>3, <1>4 DEF Inv

\* OpenFails: the output stays gone.
LEMMA OpenFailsInv == ASSUME Inv, OpenFails PROVE Inv'
<1>1. output = Missing /\ target.zip
  BY DEF OpenFails, Inv, OutputOfTheStage, TargetOfTheStage
<1>2. {output', work'} \subseteq Place \cup {Missing} /\ aside' \in [Pids -> Place \cup {Missing}]
  BY DEF Inv, TypeOK, OpenFails, Throws, Fails
<1>3. FailureLeavesNoHalf'
  BY <1>1 DEF OpenFails, Throws, Fails, Ends, FailureLeavesNoHalf, history
<1>4. faults' \in 0..MaxFaults
  BY MaxFaultsAssumption DEF Inv, TypeOK, OpenFails, Fault, Faults
<1>5. AllUniform'
  BY DEF Inv, AllUniform, OpenFails
<1> QED
  BY <1>1, <1>2, <1>3, <1>4, <1>5, Stopped DEF OpenFails, Throws, Fails, Ends, history

\* OpenArchive: the output is there with nothing in it.
LEMMA OpenArchiveInv == ASSUME Inv, OpenArchive PROVE Inv'
<1>1. output' \in Place /\ \A f \in Files : output'[f] = Absent
  BY Places DEF OpenArchive, Empty
<1>2. TypeOK'
  BY Places DEF Inv, OpenArchive, TypeOK, process, history
<1>3. ContentsKnown' /\ TargetOfTheStage' /\ AsideOfTheRun'
  BY DEF Inv, OpenArchive, ContentsKnown, TargetOfTheStage, AsideOfTheRun, InMove, process, history
<1>4. WorkOfTheRun' /\ OutputOfTheStage'
  BY <1>1 DEF Inv, OpenArchive, WorkOfTheRun, OutputOfTheStage, process, history, Feed
<1>5. AllUniform' /\ ReturnedWhole' /\ FailureLeavesNoHalf'
  BY Places DEF Inv, OpenArchive, AllUniform, ReturnedWhole, FailureLeavesNoHalf
<1> QED
  BY <1>2, <1>3, <1>4, <1>5 DEF Inv

\* StoreEntry: what is stored cannot be read yet.
LEMMA StoreEntryInv == ASSUME Inv, NEW f \in Files, StoreEntry(f) PROVE Inv'
<1>1. output \in Place
  BY DEF Inv, TypeOK, StoreEntry
<1>2. /\ output' \in Place
      /\ \A g \in Files : output'[g] \in {Absent, Partial}
  BY <1>1, Places DEF StoreEntry, Place, Inv, OutputOfTheStage
<1>3. Uniform(output')
  BY <1>2, MarksAssumption DEF Uniform
<1>4. TypeOK'
  BY <1>2, Places DEF Inv, StoreEntry, TypeOK, process, history
<1>5. ContentsKnown' /\ TargetOfTheStage' /\ AsideOfTheRun'
  BY DEF Inv, StoreEntry, ContentsKnown, TargetOfTheStage, AsideOfTheRun, InMove, process, history
<1>6. WorkOfTheRun' /\ OutputOfTheStage'
  BY DEF Inv, StoreEntry, WorkOfTheRun, OutputOfTheStage, process, history, Feed
<1>7. AllUniform' /\ ReturnedWhole' /\ FailureLeavesNoHalf'
  BY <1>3 DEF Inv, StoreEntry, AllUniform, ReturnedWhole, FailureLeavesNoHalf
<1> QED
  BY <1>4, <1>5, <1>6, <1>7 DEF Inv

\* SealArchive: the output is the work, which is the feed.
LEMMA SealArchiveInv == ASSUME Inv, SealArchive PROVE Inv'
<1>1. output' = Feed(run) /\ work = Feed(run) /\ target.zip
  BY DEF SealArchive, Inv, WorkOfTheRun, TargetOfTheStage
<1>2. TypeOK'
  BY DEF Inv, SealArchive, TypeOK, process, history
<1>3. ContentsKnown' /\ TargetOfTheStage' /\ AsideOfTheRun'
  BY <1>1 DEF Inv, SealArchive, ContentsKnown, TargetOfTheStage, AsideOfTheRun, InMove, process,
     history
<1>4. WorkOfTheRun' /\ OutputOfTheStage'
  BY <1>1 DEF Inv, SealArchive, WorkOfTheRun, OutputOfTheStage, process, history, Feed
<1>5. AllUniform' /\ ReturnedWhole' /\ FailureLeavesNoHalf'
  BY <1>1, Places DEF Inv, SealArchive, AllUniform, ReturnedWhole, FailureLeavesNoHalf
<1> QED
  BY <1>2, <1>3, <1>4, <1>5 DEF Inv

\* CloseArchive: the output is the feed before and after.
LEMMA CloseArchiveInv == ASSUME Inv, CloseArchive PROVE Inv'
<1>1. target.zip
  BY DEF CloseArchive, Inv, TargetOfTheStage
<1>2. TypeOK'
  BY DEF Inv, CloseArchive, TypeOK, process, history
<1>3. ContentsKnown' /\ TargetOfTheStage' /\ AsideOfTheRun'
  BY <1>1 DEF Inv, CloseArchive, ContentsKnown, TargetOfTheStage, AsideOfTheRun, InMove, process,
     history
<1>4. WorkOfTheRun' /\ OutputOfTheStage'
  BY DEF Inv, CloseArchive, WorkOfTheRun, OutputOfTheStage, process, history, Feed
<1>5. AllUniform' /\ ReturnedWhole' /\ FailureLeavesNoHalf'
  BY DEF Inv, CloseArchive, AllUniform, ReturnedWhole, FailureLeavesNoHalf
<1> QED
  BY <1>2, <1>3, <1>4, <1>5 DEF Inv

\* ArchiveStays: none of what stays can be read, or all of it.
LEMMA ArchiveStaysInv == ASSUME Inv, ArchiveStays PROVE Inv'
<1>1. target.zip /\ (output = Feed(run) \/ \A f \in Files : output[f] \in {Absent, Partial})
  BY DEF ArchiveStays, Inv, TargetOfTheStage, OutputOfTheStage
<1>2. {output', work'} \subseteq Place \cup {Missing} /\ aside' \in [Pids -> Place \cup {Missing}]
  BY DEF Inv, TypeOK, ArchiveStays, Fails
<1>3. FailureLeavesNoHalf'
  BY <1>1 DEF ArchiveStays, Fails, Ends, FailureLeavesNoHalf, process, history, Feed
<1>4. faults' \in 0..MaxFaults
  BY MaxFaultsAssumption DEF Inv, TypeOK, ArchiveStays, Faults
<1>5. AllUniform'
  BY DEF Inv, AllUniform, ArchiveStays
<1> QED
  BY <1>2, <1>3, <1>4, <1>5, Stopped DEF ArchiveStays, Fails, Ends, history

\* ClearWork: the archive is whole at the output.
LEMMA ClearWorkInv == ASSUME Inv, ClearWork PROVE Inv'
<1>1. output = Feed(run)
  BY DEF ClearWork, Inv, OutputOfTheStage
<1>2. TypeOK'
  BY DEF Inv, ClearWork, TypeOK, Ends, process, history
<1>3. ContentsKnown' /\ TargetOfTheStage' /\ AsideOfTheRun'
  BY DEF Inv, ClearWork, ContentsKnown, TargetOfTheStage, AsideOfTheRun, InMove, Ends, process, history
<1>4. WorkOfTheRun' /\ OutputOfTheStage'
  BY DEF ClearWork, WorkOfTheRun, OutputOfTheStage, Ends
<1>5. AllUniform' /\ ReturnedWhole' /\ FailureLeavesNoHalf'
  BY <1>1 DEF Inv, ClearWork, AllUniform, ReturnedWhole, FailureLeavesNoHalf, Ends, process,
     history, Feed
<1> QED
  BY <1>2, <1>3, <1>4, <1>5 DEF Inv

\* ClearFails: the archive is whole at the output, though the run fails.
LEMMA ClearFailsInv == ASSUME Inv, ClearFails PROVE Inv'
<1>1. output = Feed(run)
  BY DEF ClearFails, Inv, OutputOfTheStage
<1>2. {output', work'} \subseteq Place \cup {Missing} /\ aside' \in [Pids -> Place \cup {Missing}]
  BY DEF Inv, TypeOK, ClearFails
<1>3. FailureLeavesNoHalf'
  BY <1>1 DEF ClearFails, Ends, FailureLeavesNoHalf, process, history, Feed
<1>4. faults' \in 0..MaxFaults
  BY MaxFaultsAssumption DEF Inv, TypeOK, ClearFails, Fault, Faults
<1>5. AllUniform'
  BY DEF Inv, AllUniform, ClearFails
<1> QED
  BY <1>2, <1>3, <1>4, <1>5, Stopped DEF ClearFails, Ends, history

\* ArchiveFails: the output is gone again.
LEMMA ArchiveFailsInv == ASSUME Inv, ArchiveFails PROVE Inv'
<1>1. output' = Missing /\ target.zip
  BY DEF ArchiveFails, Inv, TargetOfTheStage
<1>2. {output', work'} \subseteq Place \cup {Missing} /\ aside' \in [Pids -> Place \cup {Missing}]
  BY DEF Inv, TypeOK, ArchiveFails, Throws, Fails
<1>3. FailureLeavesNoHalf'
  BY <1>1 DEF ArchiveFails, Throws, Fails, Ends, FailureLeavesNoHalf, history
<1>4. faults' \in 0..MaxFaults
  BY MaxFaultsAssumption DEF Inv, TypeOK, ArchiveFails, Fault, Faults
<1>5. AllUniform'
  BY Places DEF Inv, AllUniform, ArchiveFails
<1> QED
  BY <1>1, <1>2, <1>3, <1>4, <1>5, Stopped DEF ArchiveFails, Throws, Fails, Ends, history

\* MoveAside: what the run found is aside.
LEMMA MoveAsideInv == ASSUME Inv, MoveAside PROVE Inv'
<1>1. output = old /\ output \in Place
  BY DEF Inv, TypeOK, OutputOfTheStage, MoveAside
<1>2. aside'[pid] = output /\ \A p \in Pids \ {pid} : aside'[p] = aside[p]
  BY DEF Inv, TypeOK, MoveAside
<1>3. TypeOK'
  BY DEF Inv, MoveAside, TypeOK, process, history
<1>4. ContentsKnown' /\ TargetOfTheStage' /\ AsideOfTheRun'
  BY <1>1, <1>2 DEF Inv, MoveAside, ContentsKnown, TargetOfTheStage, AsideOfTheRun, InMove, process, history
<1>5. WorkOfTheRun' /\ OutputOfTheStage'
  BY DEF Inv, MoveAside, WorkOfTheRun, OutputOfTheStage, process, history, Feed
<1>6. AllUniform' /\ ReturnedWhole' /\ FailureLeavesNoHalf'
  BY Places DEF Inv, MoveAside, AllUniform, ReturnedWhole, FailureLeavesNoHalf
<1> QED
  BY <1>3, <1>4, <1>5, <1>6 DEF Inv

\* AsideTaken: the output was not touched.
LEMMA AsideTakenInv == ASSUME Inv, AsideTaken PROVE Inv'
<1>1. output = old
  BY DEF AsideTaken, Inv, OutputOfTheStage
<1>2. {output', work'} \subseteq Place \cup {Missing} /\ aside' \in [Pids -> Place \cup {Missing}]
  BY DEF Inv, TypeOK, AsideTaken, Throws, Fails
<1>3. FailureLeavesNoHalf'
  BY <1>1 DEF AsideTaken, Throws, Fails, Ends, FailureLeavesNoHalf, history
<1>4. faults' \in 0..MaxFaults
  BY MaxFaultsAssumption DEF Inv, TypeOK, AsideTaken
<1>5. AllUniform'
  BY DEF Inv, AllUniform, AsideTaken
<1> QED
  BY <1>1, <1>2, <1>3, <1>4, <1>5, Stopped DEF AsideTaken, Throws, Fails, Ends, history

\* NothingToReplace: the run found nothing.
LEMMA NothingToReplaceInv == ASSUME Inv, NothingToReplace PROVE Inv'
<1>1. TypeOK'
  BY DEF Inv, NothingToReplace, TypeOK, process, history
<1>2. ContentsKnown' /\ TargetOfTheStage' /\ AsideOfTheRun'
  BY DEF Inv, NothingToReplace, ContentsKnown, OutputOfTheStage, TargetOfTheStage, AsideOfTheRun,
     process, history
<1>3. WorkOfTheRun' /\ OutputOfTheStage'
  BY DEF Inv, NothingToReplace, WorkOfTheRun, OutputOfTheStage, process, history, Feed
<1>4. AllUniform' /\ ReturnedWhole' /\ FailureLeavesNoHalf'
  BY DEF Inv, NothingToReplace, AllUniform, ReturnedWhole, FailureLeavesNoHalf
<1> QED
  BY <1>1, <1>2, <1>3, <1>4 DEF Inv

\* Rename: the output is the work.
LEMMA RenameInv == ASSUME Inv, Rename PROVE Inv'
<1>1. output' = Feed(run) /\ output' \in Place /\ (replacing => aside[pid] # Missing)
  BY Places DEF Rename, Inv, WorkOfTheRun, AsideOfTheRun, InMove
<1>2. TypeOK'
  BY <1>1 DEF Inv, Rename, TypeOK, Ends, Moved, process, history
<1>3. ContentsKnown' /\ TargetOfTheStage' /\ AsideOfTheRun'
  BY DEF Inv, Rename, ContentsKnown, TargetOfTheStage, AsideOfTheRun, InMove, Ends, Moved, process, history
<1>4. WorkOfTheRun' /\ OutputOfTheStage'
  BY <1>1 DEF Rename, WorkOfTheRun, OutputOfTheStage, Ends, Moved, process, history, Feed
<1>5. AllUniform' /\ ReturnedWhole' /\ FailureLeavesNoHalf'
  BY <1>1, Places DEF Inv, Rename, AllUniform, ReturnedWhole, FailureLeavesNoHalf, Ends, Moved,
     process, history, Feed
<1> QED
  BY <1>2, <1>3, <1>4, <1>5 DEF Inv

\* StartCopy: the output is there with nothing in it.
LEMMA StartCopyInv == ASSUME Inv, StartCopy PROVE Inv'
<1>1. output' \in Place /\ \A f \in Files : output'[f] = Absent
  BY Places DEF StartCopy, Empty
<1>2. TypeOK'
  BY Places DEF Inv, StartCopy, TypeOK, process, history
<1>3. ContentsKnown' /\ TargetOfTheStage' /\ AsideOfTheRun'
  BY DEF Inv, StartCopy, ContentsKnown, TargetOfTheStage, AsideOfTheRun, InMove, process, history
<1>4. WorkOfTheRun' /\ OutputOfTheStage'
  BY <1>1 DEF Inv, StartCopy, WorkOfTheRun, OutputOfTheStage, process, history, Feed
<1>5. AllUniform' /\ ReturnedWhole' /\ FailureLeavesNoHalf'
  BY Places DEF Inv, StartCopy, AllUniform, ReturnedWhole, FailureLeavesNoHalf
<1> QED
  BY <1>2, <1>3, <1>4, <1>5 DEF Inv

\* CopyFile: a file of the run is begun in the output.
LEMMA CopyFileInv == ASSUME Inv, NEW f \in Files, CopyFile(f) PROVE Inv'
<1>1. output \in Place
  BY DEF Inv, TypeOK, CopyFile
<1>2. /\ output' \in Place
      /\ \A g \in Files : output'[g] \in {Absent, Partial, run}
  BY <1>1, Places DEF CopyFile, Place, Inv, OutputOfTheStage
<1>3. Uniform(output')
  BY <1>2, MarksAssumption DEF Uniform
<1>4. TypeOK'
  BY <1>2, Places DEF Inv, CopyFile, TypeOK, process, history
<1>5. ContentsKnown' /\ TargetOfTheStage' /\ AsideOfTheRun'
  BY DEF Inv, CopyFile, ContentsKnown, TargetOfTheStage, AsideOfTheRun, InMove, process, history
<1>6. WorkOfTheRun' /\ OutputOfTheStage'
  BY <1>2 DEF Inv, CopyFile, WorkOfTheRun, OutputOfTheStage, process, history, Feed
<1>7. AllUniform' /\ ReturnedWhole' /\ FailureLeavesNoHalf'
  BY <1>3 DEF Inv, CopyFile, AllUniform, ReturnedWhole, FailureLeavesNoHalf
<1> QED
  BY <1>4, <1>5, <1>6, <1>7 DEF Inv

\* FileCopied: a file of the run is in the output.
LEMMA FileCopiedInv == ASSUME Inv, NEW f \in Files, FileCopied(f) PROVE Inv'
<1>1. output \in Place /\ work = Feed(run)
  BY DEF Inv, TypeOK, FileCopied, WorkOfTheRun
<1>2. work[f] \in {Absent, run}
  BY <1>1 DEF Feed
<1>3. /\ output' \in Place
      /\ \A g \in Files : output'[g] \in {Absent, Partial, run}
  BY <1>1, <1>2, Places DEF FileCopied, Place, Inv, OutputOfTheStage
<1>4. Uniform(output')
  BY <1>3, MarksAssumption DEF Uniform
<1>5. TypeOK'
  BY <1>3, Places DEF Inv, FileCopied, TypeOK, process, history
<1>6. ContentsKnown' /\ TargetOfTheStage' /\ AsideOfTheRun'
  BY DEF Inv, FileCopied, ContentsKnown, TargetOfTheStage, AsideOfTheRun, InMove, process, history
<1>7. WorkOfTheRun' /\ OutputOfTheStage'
  BY <1>3 DEF Inv, FileCopied, WorkOfTheRun, OutputOfTheStage, process, history, Feed
<1>8. AllUniform' /\ ReturnedWhole' /\ FailureLeavesNoHalf'
  BY <1>4 DEF Inv, FileCopied, AllUniform, ReturnedWhole, FailureLeavesNoHalf
<1> QED
  BY <1>5, <1>6, <1>7, <1>8 DEF Inv

\* EndCopy: the output equals the work.
LEMMA EndCopyInv == ASSUME Inv, EndCopy PROVE Inv'
<1>1. output = Feed(run)
  BY DEF EndCopy, Inv, WorkOfTheRun
<1>2. TypeOK'
  BY DEF Inv, EndCopy, TypeOK, process, history
<1>3. ContentsKnown' /\ TargetOfTheStage' /\ AsideOfTheRun'
  BY DEF Inv, EndCopy, ContentsKnown, TargetOfTheStage, AsideOfTheRun, InMove, process, history
<1>4. WorkOfTheRun' /\ OutputOfTheStage'
  BY <1>1 DEF Inv, EndCopy, WorkOfTheRun, OutputOfTheStage, process, history, Feed
<1>5. AllUniform' /\ ReturnedWhole' /\ FailureLeavesNoHalf'
  BY DEF Inv, EndCopy, AllUniform, ReturnedWhole, FailureLeavesNoHalf
<1> QED
  BY <1>2, <1>3, <1>4, <1>5 DEF Inv

\* ClearCopied: the feed was in place before.
LEMMA ClearCopiedInv == ASSUME Inv, ClearCopied PROVE Inv'
<1>1. output = Feed(run) /\ (replacing => aside[pid] # Missing)
  BY DEF ClearCopied, Inv, OutputOfTheStage, AsideOfTheRun, InMove
<1>2. TypeOK'
  BY <1>1 DEF Inv, ClearCopied, TypeOK, Ends, Moved, process, history
<1>3. ContentsKnown' /\ TargetOfTheStage' /\ AsideOfTheRun'
  BY DEF Inv, ClearCopied, ContentsKnown, TargetOfTheStage, AsideOfTheRun, InMove, Ends, Moved, process,
     history
<1>4. WorkOfTheRun' /\ OutputOfTheStage'
  BY <1>1 DEF ClearCopied, WorkOfTheRun, OutputOfTheStage, Ends, Moved, process, history, Feed
<1>5. AllUniform' /\ ReturnedWhole' /\ FailureLeavesNoHalf'
  BY <1>1 DEF Inv, ClearCopied, AllUniform, ReturnedWhole, FailureLeavesNoHalf, Ends, Moved, process,
     history, Feed
<1> QED
  BY <1>2, <1>3, <1>4, <1>5 DEF Inv

\* MoveFails: what was aside is back, or nothing was.
LEMMA MoveFailsInv == ASSUME Inv, MoveFails PROVE Inv'
<1>1. ~target.zip /\ (stage \in {"copying", "clearing"} => target.apart)
  BY DEF MoveFails, InMove, Inv, TargetOfTheStage
<1>2. IF replacing THEN aside[pid] = old ELSE old = Missing
  BY DEF MoveFails, Inv, AsideOfTheRun
<1>3. stage = "moving" => output = Missing
  BY DEF Inv, OutputOfTheStage
<1>4. ~target.apart => output' = old
  BY <1>1, <1>2, <1>3 DEF MoveFails, InMove
<1>5. {output', work'} \subseteq Place \cup {Missing} /\ aside' \in [Pids -> Place \cup {Missing}]
  BY DEF Inv, TypeOK, MoveFails, Throws, Fails
<1>6. FailureLeavesNoHalf'
  BY <1>4 DEF MoveFails, Throws, Fails, Ends, FailureLeavesNoHalf, process, history, Feed
<1>7. faults' \in 0..MaxFaults
  BY MaxFaultsAssumption DEF Inv, TypeOK, MoveFails, Fault, Faults
<1>8. AllUniform'
  BY Places DEF Inv, TypeOK, AllUniform, MoveFails
<1> QED
  BY <1>5, <1>6, <1>7, <1>8, Stopped DEF MoveFails, Throws, Fails, Ends, history

\* RestoreFails: what the run found is aside still.
LEMMA RestoreFailsInv == ASSUME Inv, RestoreFails PROVE Inv'
<1>1. ~target.zip /\ (stage \in {"copying", "clearing"} => target.apart)
  BY DEF RestoreFails, InMove, Inv, TargetOfTheStage
<1>2. aside[pid] = old
  BY DEF RestoreFails, Inv, AsideOfTheRun
<1>3. target.apart \/ output = Missing
  BY <1>1 DEF RestoreFails, InMove, Inv, OutputOfTheStage
<1>4. {output', work'} \subseteq Place \cup {Missing} /\ aside' \in [Pids -> Place \cup {Missing}]
  BY DEF Inv, TypeOK, RestoreFails, Fails
<1>5. FailureLeavesNoHalf'
  BY <1>1, <1>2, <1>3 DEF RestoreFails, Fails, Ends, FailureLeavesNoHalf, process, history
<1>6. faults' \in 0..MaxFaults
  BY MaxFaultsAssumption DEF Inv, TypeOK, RestoreFails, Faults
<1>7. AllUniform'
  BY DEF Inv, AllUniform, RestoreFails
<1> QED
  BY <1>4, <1>5, <1>6, <1>7, Stopped DEF RestoreFails, Fails, Ends, history

\* SweepFile: what is left of the old feed is of one build still.
LEMMA SweepFileInv == ASSUME Inv, NEW f \in Files, SweepFile(f) PROVE Inv'
<1>1. aside[pid] \in Place /\ Uniform(aside[pid]) /\ pid \in Pids
  BY DEF Inv, TypeOK, SweepFile, AllUniform
<1>2. /\ aside'[pid] = [aside[pid] EXCEPT ![f] = Absent]
      /\ \A p \in Pids \ {pid} : aside'[p] = aside[p]
      /\ aside' \in [Pids -> Place \cup {Missing}] /\ aside'[pid] \in Place
  <2>1. [aside[pid] EXCEPT ![f] = Absent] \in Place
    BY <1>1, Places DEF Place
  <2> QED
    BY <1>1, <2>1 DEF Inv, TypeOK, SweepFile
<1>3. Uniform(aside'[pid])
  <2>1. \A g \in Files : aside'[pid][g] \in Versions => aside'[pid][g] = aside[pid][g]
    BY <1>1, <1>2, MarksAssumption DEF Place
  <2>2. aside[pid] # Missing
    BY DEF Inv, TypeOK, SweepFile
  <2> QED
    BY <1>1, <2>1, <2>2 DEF Uniform
<1>4. TypeOK'
  BY <1>2, Places DEF Inv, SweepFile, TypeOK, process, history
<1>5. ContentsKnown' /\ TargetOfTheStage' /\ AsideOfTheRun'
  BY DEF Inv, SweepFile, ContentsKnown, TargetOfTheStage, AsideOfTheRun, InMove, process, history
<1>6. WorkOfTheRun' /\ OutputOfTheStage'
  BY DEF Inv, SweepFile, WorkOfTheRun, OutputOfTheStage, process, history, Feed
<1>7. AllUniform'
  BY <1>2, <1>3 DEF Inv, SweepFile, AllUniform
<1>8. ReturnedWhole' /\ FailureLeavesNoHalf'
  BY DEF Inv, SweepFile, ReturnedWhole, FailureLeavesNoHalf
<1> QED
  BY <1>4, <1>5, <1>6, <1>7, <1>8 DEF Inv

\* SweepFails: the new feed is in place.
LEMMA SweepFailsInv == ASSUME Inv, SweepFails PROVE Inv'
<1>1. output = Feed(run)
  BY DEF SweepFails, Inv, OutputOfTheStage
<1>2. {output', work'} \subseteq Place \cup {Missing} /\ aside' \in [Pids -> Place \cup {Missing}]
  BY DEF Inv, TypeOK, SweepFails, Throws, Fails
<1>3. FailureLeavesNoHalf'
  BY <1>1 DEF SweepFails, Throws, Fails, Ends, FailureLeavesNoHalf, process, history, Feed
<1>4. faults' \in 0..MaxFaults
  BY MaxFaultsAssumption DEF Inv, TypeOK, SweepFails, Fault, Faults
<1>5. AllUniform'
  BY DEF Inv, AllUniform, SweepFails
<1> QED
  BY <1>2, <1>3, <1>4, <1>5, Stopped DEF SweepFails, Throws, Fails, Ends, history

\* RemoveAside: the output was the feed before.
LEMMA RemoveAsideInv == ASSUME Inv, RemoveAside PROVE Inv'
<1>1. TypeOK'
  BY DEF Inv, RemoveAside, TypeOK, Ends, process, history
<1>2. ContentsKnown' /\ TargetOfTheStage' /\ AsideOfTheRun'
  BY DEF Inv, RemoveAside, ContentsKnown, TargetOfTheStage, AsideOfTheRun, InMove, Ends, process, history
<1>3. WorkOfTheRun' /\ OutputOfTheStage'
  BY DEF RemoveAside, WorkOfTheRun, OutputOfTheStage, Ends
<1>4. AllUniform' /\ ReturnedWhole' /\ FailureLeavesNoHalf'
  BY Places DEF Inv, RemoveAside, OutputOfTheStage, AllUniform, ReturnedWhole, FailureLeavesNoHalf,
     Ends, process, history, Feed
<1> QED
  BY <1>1, <1>2, <1>3, <1>4 DEF Inv

\* Die: nothing is touched.
LEMMA DieInv == ASSUME Inv, Die PROVE Inv'
<1>1. {output', work'} \subseteq Place \cup {Missing} /\ aside' \in [Pids -> Place \cup {Missing}]
  BY DEF Inv, TypeOK, Die
<1>2. faults' \in 0..MaxFaults
  BY MaxFaultsAssumption DEF Inv, TypeOK, Die, Fault, Faults
<1>3. AllUniform'
  BY DEF Inv, AllUniform, Die
<1>4. FailureLeavesNoHalf'
  BY DEF Die, Ends, FailureLeavesNoHalf
<1> QED
  BY <1>1, <1>2, <1>3, <1>4, Stopped DEF Die, Ends, history

\* The invariant holds of every run, through every step of the build, the two ways of
\* delivery, and death.
THEOREM Invariance == Spec => []Inv
<1>1. Inv /\ [Next]_vars => Inv'
  <2> SUFFICES ASSUME Inv, [Next]_vars PROVE Inv'
    OBVIOUS
  <2>1. CASE Build
    BY <2>1, BeginInv, OpenFileInv, FinishFileInv, EndBuildInv, FilesEndedInv, BuildFailsInv DEF
       Build
  <2>2. CASE WriteZip
    BY <2>2, RemoveArchiveInv, OpenFailsInv, OpenArchiveInv, StoreEntryInv, SealArchiveInv,
       CloseArchiveInv, ArchiveFailsInv, ArchiveStaysInv, ClearWorkInv, ClearFailsInv DEF WriteZip
  <2>3. CASE DeliverDirectory
    BY <2>3, MoveAsideInv, AsideTakenInv, NothingToReplaceInv, RenameInv, StartCopyInv, CopyFileInv,
       FileCopiedInv, EndCopyInv, ClearCopiedInv, MoveFailsInv, RestoreFailsInv, SweepFileInv,
       RemoveAsideInv, SweepFailsInv DEF DeliverDirectory
  <2>4. CASE Die
    BY <2>4, DieInv
  <2>5. CASE UNCHANGED vars
    BY <2>5 DEF vars, process, history, Inv, TypeOK, ContentsKnown, WorkOfTheRun, OutputOfTheStage,
       TargetOfTheStage, AsideOfTheRun, InMove, AllUniform, ReturnedWhole, FailureLeavesNoHalf, Feed
  <2> QED
    BY <2>1, <2>2, <2>3, <2>4, <2>5 DEF Next
<1> QED
  BY <1>1, InitInv, PTL DEF Spec

\* Every variable keeps its type, and a run has the directories it works in.
THEOREM TypeCorrect == Spec => []TypeOK
<1>1. Inv => TypeOK
  BY DEF Inv
<1> QED
  BY <1>1, Invariance, PTL

\* A reader never finds files of two builds together, for any number of runs,
\* failures and deaths.
THEOREM OneFeedCorrect == Spec => []OneFeed
<1>1. Inv => OneFeed
  BY DEF Inv, AllUniform, Uniform, OneFeed
<1> QED
  BY <1>1, Invariance, PTL

\* A run that returned has delivered its feed with every file whole.
THEOREM ReturnedWholeCorrect == Spec => []ReturnedWhole
<1>1. Inv => ReturnedWhole
  BY DEF Inv
<1> QED
  BY <1>1, Invariance, PTL

\* A run that failed leaves what was there, its own feed whole, or no archive: never
\* a half on one filesystem.  Where putting things right failed as well, no half
\* archive can be read, and the old directory is whole aside.
THEOREM FailureLeavesNoHalfCorrect == Spec => []FailureLeavesNoHalf
<1>1. Inv => FailureLeavesNoHalf
  BY DEF Inv
<1> QED
  BY <1>1, Invariance, PTL

-----------------------------------------------------------------------------
(* What a directory held is kept until its successor is in place *)

\* A step that leaves the output and what is aside alone keeps every feed, also
\* where it begins a version.
LEMMA UntouchedKeeps ==
    ASSUME NEW v, contents'[v] = contents[v], Kept(v), UNCHANGED <<output, aside>>
    PROVE  Kept(v)'
BY DEF Kept, Feed

\* What stands in the way of a rename is no feed: an occupied place is not empty.
LEMMA FeedOccupies ==
    ASSUME Inv, NEW v \in 0..run
    PROVE  v \in Versions /\ Occupied(Feed(v))
<1>1. TypeOK /\ contents[v] # {}
  BY DEF Inv, ContentsKnown
<1>2. v \in Versions
  BY <1>1, MaxRunsAssumption DEF TypeOK, Versions
<1> QED
  BY <1>1, <1>2, FeedIsPlace, MarksAssumption DEF Occupied

\* A directory's feed is given up only for that of the run, whole and in its place:
\* what was moved aside goes back where the move fails, and is removed only once the
\* next feed stands at the output.
LEMMA StepKeeps ==
    ASSUME Inv, Next, NEW v \in 0..run, ~target.zip, Kept(v), ~Kept(v)'
    PROVE  output' = Feed(run)
<1> DEFINE F == Feed(v)
<1>1. v \in Versions /\ Occupied(F) /\ F # Missing
  BY FeedOccupies DEF Occupied
<1>2. CASE Build
  <2>1. v # run + 1
    BY MaxRunsAssumption DEF Inv, TypeOK, Versions
  <2>2. CASE Begin
    <3>1. UNCHANGED <<output, aside>> /\ contents'[v] = contents[v]
      BY <2>1, <2>2 DEF Begin
    <3> QED
      BY <3>1, UntouchedKeeps
  <2>3. CASE UNCHANGED <<output, aside, contents>>
    BY <2>3, UntouchedKeeps
  <2> QED
    BY <1>2, <2>2, <2>3 DEF Build, OpenFile, FinishFile, EndBuild, FilesEnded, BuildFails, history
<1>3. CASE WriteZip
  BY <1>3 DEF WriteZip, RemoveArchive, OpenFails, OpenArchive, StoreEntry, SealArchive,
     CloseArchive, ArchiveFails, ArchiveStays, ClearWork, ClearFails, Inv, TargetOfTheStage
<1>4. CASE DeliverDirectory
  <2>1. contents' = contents /\ Feed(v)' = F
    BY <1>4 DEF DeliverDirectory, MoveAside, AsideTaken, NothingToReplace, Rename, StartCopy,
       CopyFile, FileCopied, EndCopy, ClearCopied, MoveFails, RestoreFails, SweepFile, RemoveAside,
       SweepFails, history, Feed
  <2>2. output' # F /\ \A p \in Pids : aside'[p] # F
    BY <2>1 DEF Kept
  <2>3. output = F \/ \E p \in Pids : aside[p] = F
    BY DEF Kept
  <2>4. pid \in Pids /\ aside \in [Pids -> Place \cup {Missing}]
    BY DEF Inv, TypeOK
  <2>5. UNCHANGED <<output, aside>> => FALSE
    BY <2>2, <2>3
  <2>6. CASE MoveAside
    BY <1>1, <2>2, <2>3, <2>4, <2>6 DEF MoveAside
  <2>7. CASE AsideTaken \/ NothingToReplace \/ EndCopy \/ ClearCopied \/ RestoreFails \/ SweepFails
    BY <2>5, <2>7 DEF AsideTaken, NothingToReplace, EndCopy, ClearCopied, RestoreFails, SweepFails
  <2>8. CASE Rename \/ StartCopy
    BY <1>1, <2>2, <2>3, <2>8 DEF Rename, StartCopy, Inv, OutputOfTheStage
  <2>9. CASE \E f \in Files : CopyFile(f) \/ FileCopied(f)
    <3>1. PICK f \in Files : CopyFile(f) \/ FileCopied(f)
      BY <2>9
    <3>2. output = F
      BY <2>2, <2>3, <3>1 DEF CopyFile, FileCopied
    <3>3. PICK g \in contents[v] : g \in Files /\ F[g] = v
      BY <1>1, FeedIsPlace DEF Inv, TypeOK, ContentsKnown
    <3>4. v = run
      BY <1>1, <3>1, <3>2, <3>3, MarksAssumption DEF CopyFile, FileCopied, Inv, OutputOfTheStage
    <3>5. work = F
      BY <3>1, <3>4 DEF CopyFile, FileCopied, Inv, WorkOfTheRun
    <3>6. F[f] # Partial
      BY <1>1, FeedIsPlace, MarksAssumption DEF Inv
    <3> QED
      BY <3>1, <3>2, <3>5, <3>6 DEF CopyFile, FileCopied
  <2>10. CASE MoveFails
    BY <1>1, <2>2, <2>3, <2>4, <2>5, <2>10 DEF MoveFails
  <2>11. CASE RemoveAside \/ \E f \in Files : SweepFile(f)
    BY <2>11 DEF RemoveAside, SweepFile, Inv, OutputOfTheStage
  <2> QED
    BY <1>4, <2>6, <2>7, <2>8, <2>9, <2>10, <2>11 DEF DeliverDirectory
<1>5. CASE Die
  BY <1>5, UntouchedKeeps DEF Die, history
<1> QED
  BY <1>2, <1>3, <1>4, <1>5 DEF Next

\* A directory's feed can be had, at the output or aside, until the next one is whole
\* at the output, through any failures, deaths and process ids used again.
THEOREM KeptUntilReplacedCorrect == Spec => KeptUntilReplaced
<1>1. Inv /\ [Next]_vars => [\A v \in 0..run : ~target.zip /\ Kept(v) /\ ~Kept(v)' => output' = Feed(run)]_vars
  BY StepKeeps DEF vars
<1> QED
  BY <1>1, Invariance, PTL DEF Spec, KeptUntilReplaced
=============================================================================
