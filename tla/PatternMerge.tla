---------------------------- MODULE PatternMerge ----------------------------
(***************************************************************************)
(* The shards of a run folded into the file that is published              *)
(* (apps/transfer-patterns: merge of api.ts, kWayMerge, patternFile).      *)
(* Every shard is a sorted file without duplicates; the merge holds the    *)
(* next pattern of each, writes the lowest and drops it where it is the    *)
(* one before, and waits where the stream it writes to is full.            *)
(*                                                                         *)
(* A pattern is a number, which orders it as the joined codes of its       *)
(* stations do.  A file is the sequence of its patterns: each line says    *)
(* what it shares with the line before, which reading undoes.              *)
(***************************************************************************)
EXTENDS Naturals, Sequences, FiniteSets

CONSTANTS
    LastStation,    \* the stations are 1..LastStation, in order
    Of,             \* shards a run is split into
    Ends,           \* the two stations of a pattern
    Found,          \* the patterns each run found
    Inputs,         \* lists of shard files [n, run, described, patterns]
    HighWater,      \* patterns a stream holds before it asks to wait
    MaxFaults

Stations == 1..LastStation
Patterns == DOMAIN Ends

\* Mutant: the shards are taken to be numbered from 0.
ShardFromZero(n, of) == {s \in Stations : (s - 1) % of = n}

\* The stations of a shard, dealt in turn.
Shard(n, of) == {s \in Stations : (s - 1) % of = n - 1}

ShardFile == [n : 1..Of, run : DOMAIN Found, described : BOOLEAN, patterns : Seq(Patterns)]

ASSUME OfAssumption == Of \in Nat \ {0} /\ LastStation \in Nat
ASSUME PatternsAssumption ==
    Patterns \subseteq Nat /\ \A p \in Patterns : Ends[p] \subseteq Stations /\ Ends[p] # {}
ASSUME FoundAssumption == \A r \in DOMAIN Found : Found[r] \subseteq Patterns
ASSUME WaterAssumption == HighWater \in Nat \ {0} /\ MaxFaults \in Nat

\* A shard holds what its run found from its stations, sorted and each once.
ASSUME InputsAssumption ==
    \A list \in Inputs :
        /\ list \in Seq(ShardFile)
        /\ \A i \in DOMAIN list :
            LET file == list[i] IN
            /\ \A j, k \in DOMAIN file.patterns : j < k => file.patterns[j] < file.patterns[k]
            /\ {file.patterns[j] : j \in DOMAIN file.patterns}
                  = {p \in Found[file.run] : Ends[p] \cap Shard(file.n, Of) # {}}

VARIABLES
    inputs,     \* the shards to merge
    counted,    \* how many there are to be was given
    stage,      \* what merge is doing
    at,         \* the head of each source, past its end where it has no more
    previous,   \* the pattern yielded last, as a sequence of none or one
    buffer,     \* patterns the stream has not put on disk
    disk,       \* patterns of the output file
    sink,       \* the stream and the file under it
    meta,       \* the file that says what the output is
    faults

sources == <<inputs, counted>>
stream == <<buffer, disk, sink>>
vars == <<sources, stage, at, previous, stream, meta, faults>>

Fault == faults < MaxFaults /\ faults' = faults + 1

Line(i) == inputs[i].patterns

Live == {i \in DOMAIN inputs : at[i] <= Len(Line(i))}
Key(i) == Line(i)[at[i]]

-----------------------------------------------------------------------------
(* merge *)

\* Each shard that says what it is is held against the first that does.
Agree(list) ==
    \A i, j \in DOMAIN list :
        /\ list[i].described /\ list[j].described
        /\ \A k \in 1..i - 1 : ~list[k].described
        => list[j].run = list[i].run

\* No shards, not as many as there were to be, or of different runs.
Refuse ==
    /\ stage = "checking"
    /\ \/ inputs = << >>
       \/ counted /\ Len(inputs) # Of
       \/ ~Agree(inputs)
    /\ stage' = "thrown"
    /\ UNCHANGED <<sources, at, previous, stream, meta, faults>>

Accept ==
    /\ stage = "checking"
    /\ inputs # << >>
    /\ counted => Len(inputs) = Of
    /\ Agree(inputs)
    /\ stage' = "merging"
    /\ UNCHANGED <<sources, at, previous, stream, meta, faults>>

-----------------------------------------------------------------------------
(* kWayMerge *)

\* The lowest head, the first of them; dropped where it is the pattern before.
TakeLowest ==
    /\ stage = "merging" /\ Live # {}
    /\ \E i \in Live :
        /\ \A j \in Live : Key(i) < Key(j) \/ (Key(i) = Key(j) /\ i <= j)
        /\ at' = [at EXCEPT ![i] = @ + 1]
        /\ previous' = <<Key(i)>>
        /\ stage' = IF previous = <<Key(i)>> THEN "merging" ELSE "writing"
    /\ UNCHANGED <<sources, stream, meta, faults>>

\* Mutant: a source that cannot be read is one that has ended.
SourceFailsQuietly ==
    /\ stage = "merging" /\ Live # {}
    /\ Fault
    /\ \E i \in Live : at' = [at EXCEPT ![i] = Len(Line(i)) + 1]
    /\ UNCHANGED <<sources, stage, previous, stream, meta>>

\* A source that cannot be read ends its lines, and then says why.
SourceFails ==
    /\ stage = "merging" /\ Live # {}
    /\ Fault
    /\ stage' = "thrown"
    /\ UNCHANGED <<sources, at, previous, stream, meta>>

-----------------------------------------------------------------------------
(* writePatternFile *)

\* A stream that was destroyed takes the line and loses it, and asks for no wait.
WriteLine ==
    /\ stage = "writing"
    /\ buffer' = IF sink = "open" THEN buffer \o previous ELSE buffer
    /\ stage' = IF sink = "open" /\ Len(buffer) + 1 >= HighWater THEN "draining" ELSE "merging"
    /\ UNCHANGED <<sources, at, previous, disk, sink, meta, faults>>

Drained ==
    /\ stage = "draining" /\ buffer = << >>
    /\ stage' = "merging"
    /\ UNCHANGED <<sources, at, previous, stream, meta, faults>>

\* Mutant: only the drain is waited for, and a destroyed stream never drains.
DrainFailsUnheard ==
    /\ stage = "draining" /\ sink = "failed" /\ buffer = << >>
    /\ stage' = "thrown"
    /\ UNCHANGED <<sources, at, previous, stream, meta, faults>>

DrainFails ==
    /\ stage = "draining" /\ sink = "failed"
    /\ stage' = "thrown"
    /\ UNCHANGED <<sources, at, previous, stream, meta, faults>>

EndLines ==
    /\ stage = "merging" /\ Live = {}
    /\ stage' = "ending"
    /\ UNCHANGED <<sources, at, previous, stream, meta, faults>>

\* Mutant: what the pipeline came to is not asked.
WrittenUnasked ==
    /\ stage = "ending"
    /\ stage' = "describing"
    /\ UNCHANGED <<sources, at, previous, stream, meta, faults>>

Written ==
    /\ stage = "ending" /\ sink = "open" /\ buffer = << >>
    /\ stage' = "describing"
    /\ UNCHANGED <<sources, at, previous, stream, meta, faults>>

WrittenFails ==
    /\ stage = "ending" /\ sink = "failed"
    /\ stage' = "thrown"
    /\ UNCHANGED <<sources, at, previous, stream, meta, faults>>

\* The meta file, where one was asked for.
Describe ==
    /\ stage = "describing"
    /\ meta' \in BOOLEAN
    /\ stage' = "returned"
    /\ UNCHANGED <<sources, at, previous, stream, faults>>

DescribeFails ==
    /\ stage = "describing"
    /\ Fault
    /\ stage' = "thrown"
    /\ UNCHANGED <<sources, at, previous, stream, meta>>

-----------------------------------------------------------------------------
(* The compressor and the file under it, which go on by themselves *)

Flush ==
    /\ sink = "open" /\ buffer # << >>
    /\ disk' = disk \o buffer
    /\ buffer' = << >>
    /\ UNCHANGED <<sources, stage, at, previous, sink, meta, faults>>

SinkFails ==
    /\ stage \in {"merging", "writing", "draining", "ending"} /\ sink = "open"
    /\ Fault
    /\ sink' = "failed"
    /\ UNCHANGED <<sources, stage, at, previous, buffer, disk, meta>>

-----------------------------------------------------------------------------

Init ==
    /\ inputs \in Inputs
    /\ counted \in BOOLEAN
    /\ stage = "checking"
    /\ at = [i \in DOMAIN inputs |-> 1]
    /\ previous = << >>
    /\ buffer = << >>
    /\ disk = << >>
    /\ sink = "open"
    /\ meta = FALSE
    /\ faults = 0

Merge ==
    \/ Refuse \/ Accept \/ TakeLowest
    \/ WriteLine \/ Drained \/ DrainFails \/ EndLines \/ Written \/ WrittenFails \/ Describe

Next == Merge \/ Flush \/ SourceFails \/ DescribeFails \/ SinkFails

\* The merge and the stream under it run on their own; nothing obliges a fault.
Fairness == WF_vars(Merge) /\ WF_vars(Flush)

Spec == Init /\ [][Next]_vars /\ Fairness

-----------------------------------------------------------------------------

Rows == Seq(Patterns)

\* Every variable keeps its type; a stream holds no more than it asked to wait for.
TypeOK ==
    /\ inputs \in Inputs
    /\ counted \in BOOLEAN
    /\ stage \in {"checking", "merging", "writing", "draining", "ending", "describing",
                  "returned", "thrown"}
    /\ at \in [DOMAIN inputs -> Nat \ {0}]
    /\ previous \in Rows /\ Len(previous) <= 1
    /\ disk \in Rows
    /\ buffer \in Rows /\ Len(buffer) <= HighWater
    /\ sink \in {"open", "failed"}
    /\ meta \in BOOLEAN
    /\ faults \in 0..MaxFaults

Held(i) == {Line(i)[j] : j \in DOMAIN Line(i)}

Union == INSTANCE SortedUnion WITH
            given <- UNION {Held(i) : i \in DOMAIN inputs},
            written <- disk \o buffer,
            done <- stage = "returned"

\* The merge is a sorted union: no pattern is lost, repeated or out of place however
\* the stream stops and starts, and a run that returns has written them all.
IsSortedUnion == Union!Spec

\* A run that returned has its file on the disk, and only such a run describes it.
OnDiskBeforeDescribed ==
    /\ stage \in {"describing", "returned"} => sink = "open" /\ buffer = << >>
    /\ meta => stage = "returned"

\* All shards of one run, in any order, are the whole of what the run found: the
\* stations are dealt so that each is some shard's.
WholeNetwork ==
    \A r \in DOMAIN Found :
        /\ stage = "returned"
        /\ \A i \in DOMAIN inputs : inputs[i].run = r
        /\ {inputs[i].n : i \in DOMAIN inputs} = 1..Of
        => {disk[i] : i \in DOMAIN disk} = Found[r]

\* The merge comes to an end, also where the stream fails while it is waited for.
Settles == <>(stage \in {"returned", "thrown"})
=============================================================================
