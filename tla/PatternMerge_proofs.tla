------------------------ MODULE PatternMerge_proofs ------------------------
(***************************************************************************)
(* The merge of the shards is a sorted union, for any shards, any stream   *)
(* and any failures.  The invariant compares what was taken from the       *)
(* sources with what is left in them: everything taken is at most          *)
(* everything left, the pattern taken last is the highest taken, and what  *)
(* was written is what was taken, but for that one while it waits.         *)
(***************************************************************************)
EXTENDS PatternMerge, SequenceTheorems, TLAPS

RowsOf(s) == {s[i] : i \in DOMAIN s}

Taken == UNION {{Line(i)[k] : k \in 1..at[i] - 1} : i \in DOMAIN inputs}
Left == UNION {{Line(i)[k] : k \in at[i]..Len(Line(i))} : i \in DOMAIN inputs}

HeadsInRange == \A i \in DOMAIN inputs : at[i] <= Len(Line(i)) + 1

InOrder == \A p \in Taken, q \in Left : p <= q

PreviousIsHighest ==
    IF Taken = {} THEN previous = << >>
    ELSE /\ previous # << >> /\ previous[1] \in Taken
         /\ \A p \in Taken : p <= previous[1]

WritesWhatIsTaken ==
    sink = "open" /\ stage # "thrown" =>
        RowsOf(disk \o buffer) = IF stage = "writing" THEN Taken \ {previous[1]} ELSE Taken

Progress ==
    /\ stage = "writing" => Taken # {}
    /\ stage \in {"ending", "describing", "returned"} => Live = {}
    /\ stage \in {"checking", "merging", "writing"} => Len(buffer) < HighWater

Inv ==
    /\ TypeOK /\ HeadsInRange /\ InOrder /\ PreviousIsHighest
    /\ WritesWhatIsTaken /\ Progress /\ OnDiskBeforeDescribed
-----------------------------------------------------------------------------
(* Sequences *)

\* The rows of what is written after something else, and a batch of one row.
LEMMA RowsAppended ==
    ASSUME NEW s \in Rows, NEW t \in Rows, NEW e \in Patterns
    PROVE  /\ RowsOf(t \o <<e>>) = RowsOf(t) \cup {e}
           /\ s \o (t \o <<e>>) = Append(s \o t, e)
           /\ s \o t \in Rows /\ t \o <<e>> \in Rows /\ Len(t \o <<e>>) = Len(t) + 1
           /\ RowsOf(Append(t, e)) = RowsOf(t) \cup {e}
<1>1. /\ t \o <<e>> \in Rows /\ Len(t \o <<e>>) = Len(t) + 1 /\ (t \o <<e>>)[Len(t) + 1] = e
      /\ \A k \in 1..Len(t) : (t \o <<e>>)[k] = t[k]
  BY DEF Rows
<1>2. t \o <<e>> = Append(t, e)
  BY <1>1 DEF Rows
<1>3. s \o (t \o <<e>>) = Append(s \o t, e)
  BY DEF Rows
<1>4. RowsOf(t \o <<e>>) = RowsOf(t) \cup {e}
  BY <1>1 DEF RowsOf, Rows
<1>5. s \o t \in Rows
  BY DEF Rows
<1> QED
  BY <1>1, <1>2, <1>3, <1>4, <1>5

\* A sequence of at most one row that is not empty is that row.
LEMMA OneRow ==
    ASSUME NEW s \in Rows, Len(s) <= 1, s # << >>
    PROVE  s = <<s[1]>> /\ s[1] \in Patterns
<1>1. Len(s) \in Nat /\ Len(s) # 0
  BY EmptySeq DEF Rows
<1>2. Len(s) = 1
  <2>1. \A n \in Nat : n # 0 /\ n <= 1 => n = 1
    OBVIOUS
  <2> QED
    BY <1>1, <2>1
<1>3. s[1] \in Patterns
  BY <1>2, ElementOfSeq DEF Rows
<1> QED
  BY <1>2, <1>3 DEF Rows

\* Putting a batch on disk leaves the order of what was written.
LEMMA FlushedRows ==
    ASSUME NEW s \in Rows, NEW t \in Rows
    PROVE  (s \o t) \o << >> = s \o t /\ s \o t \in Rows
BY DEF Rows

-----------------------------------------------------------------------------
(* The sources *)

\* Every shard is a sorted sequence of patterns.
LEMMA InputFacts ==
    ASSUME TypeOK, NEW i \in DOMAIN inputs
    PROVE  /\ inputs[i] \in ShardFile /\ Line(i) \in Rows
           /\ \A j, k \in DOMAIN Line(i) : j < k => Line(i)[j] < Line(i)[k]
           /\ Held(i) = {p \in Found[inputs[i].run] : Ends[p] \cap Shard(inputs[i].n, Of) # {}}
           /\ at[i] \in Nat \ {0} /\ Len(Line(i)) \in Nat
           /\ \A k \in 1..Len(Line(i)) : Line(i)[k] \in Nat
<1>1. inputs \in Seq(ShardFile)
  BY InputsAssumption DEF TypeOK
<1>2. inputs[i] \in ShardFile
  BY <1>1
<1>5. Line(i) \in Rows
  BY <1>2 DEF ShardFile, Line, Rows
<1>6. Len(Line(i)) \in Nat /\ \A k \in 1..Len(Line(i)) : Line(i)[k] \in Patterns
  BY <1>5 DEF Rows
<1>3. /\ \A j, k \in DOMAIN Line(i) : j < k => Line(i)[j] < Line(i)[k]
      /\ Held(i) = {p \in Found[inputs[i].run] : Ends[p] \cap Shard(inputs[i].n, Of) # {}}
  BY InputsAssumption DEF TypeOK, Line, Held
<1>4. at[i] \in Nat \ {0}
  BY DEF TypeOK
<1> QED
  BY <1>2, <1>3, <1>4, <1>5, <1>6, PatternsAssumption

\* What the shards hold is what was taken and what is left.
LEMMA TakenAndLeft ==
    ASSUME TypeOK, HeadsInRange
    PROVE  UNION {Held(i) : i \in DOMAIN inputs} = Taken \cup Left
<1>1. ASSUME NEW i \in DOMAIN inputs
      PROVE  Held(i) = {Line(i)[k] : k \in 1..at[i] - 1} \cup {Line(i)[k] : k \in at[i]..Len(Line(i))}
  <2>1. DOMAIN Line(i) = 1..Len(Line(i)) /\ at[i] \in Nat \ {0}
        /\ at[i] <= Len(Line(i)) + 1 /\ Len(Line(i)) \in Nat
    BY InputFacts DEF Rows, HeadsInRange
  <2>2. DOMAIN Line(i) = (1..at[i] - 1) \cup (at[i]..Len(Line(i)))
    BY <2>1
  <2> QED
    BY <2>2 DEF Held
<1> QED
  BY <1>1 DEF Taken, Left

\* What was taken and what is left are patterns, and so numbers.
LEMMA TakenAreNumbers ==
    ASSUME TypeOK, HeadsInRange
    PROVE  Taken \subseteq Nat /\ Left \subseteq Nat /\ Taken \subseteq Patterns
<1>1. ASSUME NEW i \in DOMAIN inputs, NEW k \in 1..Len(Line(i))
      PROVE  Line(i)[k] \in Patterns /\ Line(i)[k] \in Nat
  BY InputFacts, PatternsAssumption DEF Rows
<1>2. ASSUME NEW i \in DOMAIN inputs
      PROVE  1..at[i] - 1 \subseteq 1..Len(Line(i)) /\ at[i]..Len(Line(i)) \subseteq 1..Len(Line(i))
  BY InputFacts DEF HeadsInRange
<1> QED
  BY <1>1, <1>2 DEF Taken, Left

\* The lowest head is the lowest of all that is left, and moves from there to what
\* was taken.
LEMMA HeadMoves ==
    ASSUME TypeOK, HeadsInRange, NEW i \in Live, \A j \in Live : Key(i) <= Key(j),
           at' = [at EXCEPT ![i] = @ + 1], inputs' = inputs
    PROVE  /\ Taken' = Taken \cup {Key(i)} /\ Left' \subseteq Left /\ Key(i) \in Left
           /\ \A q \in Left : Key(i) <= q
           /\ HeadsInRange' /\ at' \in [DOMAIN inputs -> Nat \ {0}]
<1>1. i \in DOMAIN inputs /\ at[i] \in 1..Len(Line(i)) /\ Key(i) = Line(i)[at[i]]
  BY InputFacts DEF Live, Key
<1>2. /\ at'[i] = at[i] + 1 /\ \A j \in DOMAIN inputs \ {i} : at'[j] = at[j]
      /\ at' \in [DOMAIN inputs -> Nat \ {0}] /\ \A j \in DOMAIN inputs : Line(j)' = Line(j)
  BY <1>1 DEF TypeOK, Line
<1>3. HeadsInRange'
  BY <1>1, <1>2 DEF HeadsInRange
<1>4. /\ (1..at[i] + 1 - 1) = (1..at[i] - 1) \cup {at[i]}
      /\ at[i]..Len(Line(i)) = {at[i]} \cup at[i] + 1..Len(Line(i))
  BY <1>1
<1>5. Taken' = Taken \cup {Key(i)}
  <2> DEFINE Before(j) == {Line(j)[k] : k \in 1..at[j] - 1}
             After(j) == {Line(j)'[k] : k \in 1..at'[j] - 1}
  <2>1. After(i) = Before(i) \cup {Key(i)}
    BY <1>1, <1>2, <1>4
  <2>2. \A j \in DOMAIN inputs \ {i} : After(j) = Before(j)
    BY <1>2
  <2>3. Taken' = UNION {After(j) : j \in DOMAIN inputs} /\ Taken = UNION {Before(j) : j \in DOMAIN inputs}
    BY DEF Taken
  <2> HIDE DEF Before, After
  <2> QED
    BY <1>1, <2>1, <2>2, <2>3
<1>6. Left' \subseteq Left /\ Key(i) \in Left
  BY <1>1, <1>2, <1>4 DEF Left
<1>7. ASSUME NEW q \in Left PROVE Key(i) <= q
  <2>1. PICK j \in DOMAIN inputs : \E l \in at[j]..Len(Line(j)) : q = Line(j)[l]
    BY DEF Left
  <2>2. PICK l \in at[j]..Len(Line(j)) : q = Line(j)[l]
    BY <2>1
  <2>3. at[j] \in 1..Len(Line(j)) /\ l \in 1..Len(Line(j)) /\ at[j] <= l /\ j \in Live
    BY <2>2, InputFacts DEF Live
  <2>4. Key(i) \in Nat /\ Key(j) \in Nat /\ q \in Nat
    BY <1>1, <2>2, <2>3, InputFacts DEF Key
  <2>5. Key(j) <= q
    <3>1. DOMAIN Line(j) = 1..Len(Line(j))
      BY InputFacts DEF Rows
    <3>2. CASE at[j] = l
      BY <2>2, <2>4, <3>2 DEF Key
    <3>3. CASE at[j] < l
      <4>1. Line(j)[at[j]] < Line(j)[l]
        BY <2>3, <3>1, <3>3, InputFacts
      <4> QED
        BY <2>2, <2>4, <4>1 DEF Key
    <3> QED
      BY <2>3, <3>2, <3>3
  <2> QED
    BY <2>3, <2>4, <2>5
<1> QED
  BY <1>2, <1>3, <1>5, <1>6, <1>7
-----------------------------------------------------------------------------
(* The invariant *)

\* What is not about the stream holds where the sources are left alone.
LEMMA SourcesAlone ==
    ASSUME Inv, UNCHANGED <<sources, at, previous>>
    PROVE  Taken' = Taken /\ Left' = Left /\ HeadsInRange' /\ InOrder' /\ PreviousIsHighest' /\ Live' = Live
<1>1. Taken' = Taken /\ Left' = Left /\ Live' = Live
  BY DEF Taken, Left, Live, Line, sources
<1> QED
  BY <1>1 DEF Inv, HeadsInRange, InOrder, PreviousIsHighest, Line, sources

\* Nothing was taken from any source yet.
LEMMA InitInv == Init => Inv
<1> SUFFICES ASSUME Init PROVE Inv
  OBVIOUS
<1>1. << >> \in Rows /\ Len(<< >>) = 0 /\ RowsOf(<< >> \o << >>) = {}
  BY DEF Rows, RowsOf
<1>2. TypeOK
  <2>1. at \in [DOMAIN inputs -> Nat \ {0}]
    BY DEF Init
  <2>2. Len(buffer) <= HighWater /\ Len(previous) <= 1 /\ faults \in 0..MaxFaults
    BY <1>1, WaterAssumption DEF Init
  <2> QED
    BY <1>1, <2>1, <2>2 DEF Init, TypeOK
<1>3. HeadsInRange
  BY <1>2, InputFacts DEF Init, HeadsInRange
<1>4. Taken = {}
  BY DEF Init, Taken
<1>5. InOrder /\ PreviousIsHighest /\ WritesWhatIsTaken
  BY <1>1, <1>4 DEF Init, InOrder, PreviousIsHighest, WritesWhatIsTaken
<1>6. Progress /\ OnDiskBeforeDescribed
  BY <1>1, WaterAssumption DEF Init, Progress, OnDiskBeforeDescribed
<1> QED
  BY <1>2, <1>3, <1>5, <1>6 DEF Inv

\* Refuse: the merge throws before it began.
LEMMA RefuseInv == ASSUME Inv, Refuse PROVE Inv'
<1>1. TypeOK'
  BY WaterAssumption DEF Inv, TypeOK, Refuse, sources, stream
<1>2. UNCHANGED <<sources, at, previous>>
  BY DEF Refuse
<1>3. WritesWhatIsTaken'
  BY <1>2, SourcesAlone DEF Inv, WritesWhatIsTaken, Refuse, stream
<1>4. Progress' /\ OnDiskBeforeDescribed'
  BY <1>2, SourcesAlone, WaterAssumption DEF Inv, Progress, OnDiskBeforeDescribed, Refuse, stream
<1> QED
  BY <1>1, <1>2, <1>3, <1>4, SourcesAlone DEF Inv

\* Accept: nothing was taken or written yet.
LEMMA AcceptInv == ASSUME Inv, Accept PROVE Inv'
<1>1. TypeOK'
  BY WaterAssumption DEF Inv, TypeOK, Accept, sources, stream
<1>2. UNCHANGED <<sources, at, previous>>
  BY DEF Accept
<1>3. WritesWhatIsTaken'
  BY <1>2, SourcesAlone DEF Inv, WritesWhatIsTaken, Accept, stream
<1>4. Progress' /\ OnDiskBeforeDescribed'
  BY <1>2, SourcesAlone, WaterAssumption DEF Inv, Progress, OnDiskBeforeDescribed, Accept, stream
<1> QED
  BY <1>1, <1>2, <1>3, <1>4, SourcesAlone DEF Inv

\* SourceFails: the merge throws.
LEMMA SourceFailsInv == ASSUME Inv, SourceFails PROVE Inv'
<1>1. TypeOK'
  BY WaterAssumption DEF Inv, TypeOK, SourceFails, Fault, sources, stream
<1>2. UNCHANGED <<sources, at, previous>>
  BY DEF SourceFails
<1>3. WritesWhatIsTaken'
  BY <1>2, SourcesAlone DEF Inv, WritesWhatIsTaken, SourceFails, stream
<1>4. Progress' /\ OnDiskBeforeDescribed'
  BY <1>2, SourcesAlone, WaterAssumption DEF Inv, Progress, OnDiskBeforeDescribed, SourceFails, stream
<1> QED
  BY <1>1, <1>2, <1>3, <1>4, SourcesAlone DEF Inv

\* Drained: the stream is empty.
LEMMA DrainedInv == ASSUME Inv, Drained PROVE Inv'
<1>1. TypeOK'
  BY WaterAssumption DEF Inv, TypeOK, Drained, sources, stream
<1>2. UNCHANGED <<sources, at, previous>>
  BY DEF Drained
<1>3. WritesWhatIsTaken'
  BY <1>2, SourcesAlone DEF Inv, WritesWhatIsTaken, Drained, stream
<1>4. Progress' /\ OnDiskBeforeDescribed'
  BY <1>2, SourcesAlone, WaterAssumption DEF Inv, Progress, OnDiskBeforeDescribed, Drained, stream
<1> QED
  BY <1>1, <1>2, <1>3, <1>4, SourcesAlone DEF Inv

\* DrainFails: the merge throws.
LEMMA DrainFailsInv == ASSUME Inv, DrainFails PROVE Inv'
<1>1. TypeOK'
  BY WaterAssumption DEF Inv, TypeOK, DrainFails, sources, stream
<1>2. UNCHANGED <<sources, at, previous>>
  BY DEF DrainFails
<1>3. WritesWhatIsTaken'
  BY <1>2, SourcesAlone DEF Inv, WritesWhatIsTaken, DrainFails, stream
<1>4. Progress' /\ OnDiskBeforeDescribed'
  BY <1>2, SourcesAlone, WaterAssumption DEF Inv, Progress, OnDiskBeforeDescribed, DrainFails, stream
<1> QED
  BY <1>1, <1>2, <1>3, <1>4, SourcesAlone DEF Inv

\* EndLines: no source has a pattern left.
LEMMA EndLinesInv == ASSUME Inv, EndLines PROVE Inv'
<1>1. TypeOK'
  BY WaterAssumption DEF Inv, TypeOK, EndLines, sources, stream
<1>2. UNCHANGED <<sources, at, previous>>
  BY DEF EndLines
<1>3. WritesWhatIsTaken'
  BY <1>2, SourcesAlone DEF Inv, WritesWhatIsTaken, EndLines, stream
<1>4. Progress' /\ OnDiskBeforeDescribed'
  BY <1>2, SourcesAlone, WaterAssumption DEF Inv, Progress, OnDiskBeforeDescribed, EndLines, stream
<1> QED
  BY <1>1, <1>2, <1>3, <1>4, SourcesAlone DEF Inv

\* Written: the stream is closed.
LEMMA WrittenInv == ASSUME Inv, Written PROVE Inv'
<1>1. TypeOK'
  BY WaterAssumption DEF Inv, TypeOK, Written, sources, stream
<1>2. UNCHANGED <<sources, at, previous>>
  BY DEF Written
<1>3. WritesWhatIsTaken'
  BY <1>2, SourcesAlone DEF Inv, WritesWhatIsTaken, Written, stream
<1>4. Progress' /\ OnDiskBeforeDescribed'
  BY <1>2, SourcesAlone, WaterAssumption DEF Inv, Progress, OnDiskBeforeDescribed, Written, stream
<1> QED
  BY <1>1, <1>2, <1>3, <1>4, SourcesAlone DEF Inv

\* WrittenFails: the merge throws.
LEMMA WrittenFailsInv == ASSUME Inv, WrittenFails PROVE Inv'
<1>1. TypeOK'
  BY WaterAssumption DEF Inv, TypeOK, WrittenFails, sources, stream
<1>2. UNCHANGED <<sources, at, previous>>
  BY DEF WrittenFails
<1>3. WritesWhatIsTaken'
  BY <1>2, SourcesAlone DEF Inv, WritesWhatIsTaken, WrittenFails, stream
<1>4. Progress' /\ OnDiskBeforeDescribed'
  BY <1>2, SourcesAlone, WaterAssumption DEF Inv, Progress, OnDiskBeforeDescribed, WrittenFails, stream
<1> QED
  BY <1>1, <1>2, <1>3, <1>4, SourcesAlone DEF Inv

\* Describe: the output is described only here.
LEMMA DescribeInv == ASSUME Inv, Describe PROVE Inv'
<1>1. TypeOK'
  BY WaterAssumption DEF Inv, TypeOK, Describe, sources, stream
<1>2. UNCHANGED <<sources, at, previous>>
  BY DEF Describe
<1>3. WritesWhatIsTaken'
  BY <1>2, SourcesAlone DEF Inv, WritesWhatIsTaken, Describe, stream
<1>4. Progress' /\ OnDiskBeforeDescribed'
  BY <1>2, SourcesAlone, WaterAssumption DEF Inv, Progress, OnDiskBeforeDescribed, Describe, stream
<1> QED
  BY <1>1, <1>2, <1>3, <1>4, SourcesAlone DEF Inv

\* DescribeFails: the merge throws.
LEMMA DescribeFailsInv == ASSUME Inv, DescribeFails PROVE Inv'
<1>1. TypeOK'
  BY WaterAssumption DEF Inv, TypeOK, DescribeFails, Fault, sources, stream
<1>2. UNCHANGED <<sources, at, previous>>
  BY DEF DescribeFails
<1>3. WritesWhatIsTaken'
  BY <1>2, SourcesAlone DEF Inv, WritesWhatIsTaken, DescribeFails, stream
<1>4. Progress' /\ OnDiskBeforeDescribed'
  BY <1>2, SourcesAlone, WaterAssumption DEF Inv, Progress, OnDiskBeforeDescribed, DescribeFails, stream
<1> QED
  BY <1>1, <1>2, <1>3, <1>4, SourcesAlone DEF Inv

\* SinkFails: what is written is not spoken of from here.
LEMMA SinkFailsInv == ASSUME Inv, SinkFails PROVE Inv'
<1>1. TypeOK'
  BY WaterAssumption DEF Inv, TypeOK, SinkFails, Fault, sources, stream
<1>2. UNCHANGED <<sources, at, previous>>
  BY DEF SinkFails
<1>3. WritesWhatIsTaken'
  BY <1>2, SourcesAlone DEF Inv, WritesWhatIsTaken, SinkFails, stream
<1>4. Progress' /\ OnDiskBeforeDescribed'
  BY <1>2, SourcesAlone, WaterAssumption DEF Inv, Progress, OnDiskBeforeDescribed, SinkFails, stream
<1> QED
  BY <1>1, <1>2, <1>3, <1>4, SourcesAlone DEF Inv

\* TakeLowest: the pattern taken is new where it is not the one before, since all that
\* was taken is at most that one and all that was left is at least that one.
LEMMA TakeLowestInv == ASSUME Inv, TakeLowest PROVE Inv'
<1>1. PICK i \in Live :
         /\ \A j \in Live : Key(i) < Key(j) \/ (Key(i) = Key(j) /\ i <= j)
         /\ at' = [at EXCEPT ![i] = @ + 1]
         /\ previous' = <<Key(i)>>
         /\ stage' = IF previous = <<Key(i)>> THEN "merging" ELSE "writing"
  BY DEF TakeLowest
<1>2. /\ stage = "merging" /\ inputs' = inputs
      /\ UNCHANGED <<sources, buffer, disk, sink, meta, faults>>
  BY DEF TakeLowest, sources, stream
<1>3. TypeOK /\ HeadsInRange
  BY DEF Inv
<1>4. \A j \in Live : Key(i) <= Key(j)
  <2>1. \A j \in Live : Key(j) \in Nat
    BY <1>3, InputFacts DEF Live, Key
  <2> QED
    BY <1>1, <2>1
<1>5. /\ Taken' = Taken \cup {Key(i)} /\ Left' \subseteq Left /\ Key(i) \in Left
      /\ \A q \in Left : Key(i) <= q
      /\ HeadsInRange' /\ at' \in [DOMAIN inputs -> Nat \ {0}]
  BY <1>1, <1>2, <1>3, <1>4, HeadMoves
<1>6. Taken \subseteq Nat /\ Left \subseteq Nat /\ Taken' \subseteq Patterns
  <2>1. Key(i) \in Patterns
    BY <1>3, <1>5, TakenAndLeft, InputFacts DEF Live, Key, Rows
  <2> QED
    BY <1>3, <1>5, <2>1, TakenAreNumbers
<1>7. TypeOK'
  <2>1. Key(i) \in Patterns
    BY <1>5, <1>6
  <2>2. previous' \in Rows /\ Len(previous') = 1
    BY <1>1, <2>1 DEF Rows
  <2> QED
    BY <1>1, <1>2, <1>3, <1>5, <2>2 DEF TypeOK, sources
<1>8. InOrder'
  BY <1>5 DEF Inv, InOrder
<1>9. previous'[1] = Key(i) /\ PreviousIsHighest'
  BY <1>1, <1>5, <1>6 DEF Inv, InOrder, PreviousIsHighest
<1>10. IF previous = <<Key(i)>> THEN Key(i) \in Taken ELSE Key(i) \notin Taken
  <2>1. CASE Taken = {}
    BY <2>1 DEF Inv, PreviousIsHighest
  <2>2. CASE Taken # {}
    <3>1. previous = <<previous[1]>> /\ previous[1] \in Taken /\ \A p \in Taken : p <= previous[1]
      BY <1>3, <2>2, OneRow DEF Inv, PreviousIsHighest, TypeOK
    <3>2. previous[1] <= Key(i)
      BY <1>5, <3>1 DEF Inv, InOrder
    <3>3. Key(i) \in Taken => Key(i) = previous[1]
      BY <1>6, <3>1, <3>2
    <3> QED
      BY <3>1, <3>3
  <2> QED
    BY <2>1, <2>2
<1>11. WritesWhatIsTaken'
  BY <1>1, <1>2, <1>5, <1>9, <1>10 DEF Inv, WritesWhatIsTaken
<1>12. Progress' /\ OnDiskBeforeDescribed'
  BY <1>1, <1>2, <1>5 DEF Inv, Progress, OnDiskBeforeDescribed
<1> QED
  BY <1>5, <1>7, <1>8, <1>9, <1>11, <1>12 DEF Inv

\* WriteLine: the pattern that waited is written with the others.
LEMMA WriteLineInv == ASSUME Inv, WriteLine PROVE Inv'
<1>1. UNCHANGED <<sources, at, previous, disk, sink, meta, faults>> /\ stage = "writing"
  BY DEF WriteLine
<1>2. previous = <<previous[1]>> /\ previous[1] \in Taken /\ previous[1] \in Patterns
  <2>1. previous # << >> /\ previous[1] \in Taken
    BY <1>1 DEF Inv, Progress, PreviousIsHighest
  <2> QED
    BY <2>1, OneRow DEF Inv, TypeOK
<1>3. buffer \in Rows /\ disk \in Rows /\ Len(buffer) < HighWater /\ Len(buffer) \in Nat
  BY <1>1 DEF Inv, TypeOK, Progress, Rows
<1>4. /\ buffer' \in Rows /\ Len(buffer') = IF sink = "open" THEN Len(buffer) + 1 ELSE Len(buffer)
      /\ sink = "open" => RowsOf(disk \o buffer') = RowsOf(disk \o buffer) \cup {previous[1]}
  <2>1. CASE sink = "open"
    <3> DEFINE p == previous[1]
    <3>1. buffer' = buffer \o <<p>> /\ p \in Patterns
      BY <1>2, <2>1 DEF WriteLine
    <3>2. buffer \o <<p>> \in Rows /\ Len(buffer \o <<p>>) = Len(buffer) + 1
          /\ disk \o (buffer \o <<p>>) = Append(disk \o buffer, p) /\ disk \o buffer \in Rows
      BY <1>3, <3>1, RowsAppended
    <3>3. RowsOf(Append(disk \o buffer, p)) = RowsOf(disk \o buffer) \cup {p}
      BY <3>1, <3>2, RowsAppended
    <3> QED
      BY <2>1, <3>1, <3>2, <3>3
  <2>2. CASE sink # "open"
    BY <1>3, <2>2 DEF WriteLine
  <2> QED
    BY <2>1, <2>2
<1>5. TypeOK'
  BY <1>1, <1>3, <1>4, WaterAssumption DEF Inv, TypeOK, WriteLine, sources
<1>6. WritesWhatIsTaken'
  BY <1>1, <1>2, <1>4, SourcesAlone DEF Inv, WritesWhatIsTaken, WriteLine
<1>7. Progress' /\ OnDiskBeforeDescribed'
  BY <1>1, <1>3, <1>4, WaterAssumption DEF Inv, Progress, OnDiskBeforeDescribed, WriteLine
<1> QED
  BY <1>1, <1>5, <1>6, <1>7, SourcesAlone DEF Inv

\* Flush: what was held is on disk, in the same place.
LEMMA FlushInv == ASSUME Inv, Flush PROVE Inv' /\ disk' \o buffer' = disk \o buffer
<1>1. UNCHANGED <<sources, at, previous, stage, sink, meta, faults>>
  BY DEF Flush
<1>2. disk \in Rows /\ buffer \in Rows
  BY DEF Inv, TypeOK
<1>3. disk' \o buffer' = disk \o buffer /\ disk' \in Rows
  BY <1>2, FlushedRows DEF Flush
<1>4. buffer' \in Rows /\ Len(buffer') = 0
  BY DEF Flush, Rows
<1>5. TypeOK'
  BY <1>1, <1>3, <1>4, WaterAssumption DEF Inv, TypeOK, sources
<1>6. WritesWhatIsTaken'
  BY <1>1, <1>3, SourcesAlone DEF Inv, WritesWhatIsTaken
<1>7. Progress' /\ OnDiskBeforeDescribed'
  BY <1>1, <1>4, SourcesAlone, WaterAssumption DEF Inv, Progress, OnDiskBeforeDescribed, Flush
<1> QED
  BY <1>1, <1>3, <1>5, <1>6, <1>7, SourcesAlone DEF Inv

\* The invariant holds through every step of the merge, of the stream and of a fault.
THEOREM Invariance == Spec => []Inv
<1>1. Inv /\ [Next]_vars => Inv'
  <2> SUFFICES ASSUME Inv, [Next]_vars PROVE Inv'
    OBVIOUS
  <2>1. CASE Merge
    BY <2>1, RefuseInv, AcceptInv, TakeLowestInv, WriteLineInv, DrainedInv, DrainFailsInv,
       EndLinesInv, WrittenInv, WrittenFailsInv, DescribeInv DEF Merge
  <2>2. CASE UNCHANGED vars
    <3>1. UNCHANGED <<sources, at, previous, stage, buffer, disk, sink, meta, faults>>
      BY <2>2 DEF vars, stream
    <3> QED
      BY <3>1, SourcesAlone DEF Inv, TypeOK, WritesWhatIsTaken, Progress, OnDiskBeforeDescribed, sources
  <2> QED
    BY <2>1, <2>2, FlushInv, SourceFailsInv, DescribeFailsInv, SinkFailsInv DEF Next
<1> QED
  BY <1>1, InitInv, PTL DEF Spec

\* Every variable keeps its type, and a stream holds no more than it asked to wait for.
THEOREM TypeCorrect == Spec => []TypeOK
<1>1. Inv => TypeOK
  BY DEF Inv
<1> QED
  BY <1>1, Invariance, PTL

\* A run that returned has its file on the disk, and only such a run describes it.
THEOREM OnDiskBeforeDescribedCorrect == Spec => []OnDiskBeforeDescribed
<1>1. Inv => OnDiskBeforeDescribed
  BY DEF Inv
<1> QED
  BY <1>1, Invariance, PTL

-----------------------------------------------------------------------------
(* The merge implements SortedUnion *)

given == UNION {Held(i) : i \in DOMAIN inputs}
written == disk \o buffer
done == stage = "returned"

\* What remains to be written is what is left in the sources and the pattern that waits.
LEMMA WhatRemains ==
    ASSUME Inv, sink = "open", stage # "thrown"
    PROVE  /\ Union!Remaining \subseteq Left \cup (IF stage = "writing" THEN {previous[1]} ELSE {})
           /\ stage = "writing" => previous[1] \in Union!Remaining
<1>1. given = Taken \cup Left
  BY TakenAndLeft DEF Inv, given
<1>2. Union!Remaining = given \ RowsOf(written)
  BY DEF Union!Remaining, given, written, RowsOf
<1>3. RowsOf(written) = IF stage = "writing" THEN Taken \ {previous[1]} ELSE Taken
  BY DEF Inv, WritesWhatIsTaken, written
<1>4. stage = "writing" => previous[1] \in Taken
  BY DEF Inv, Progress, PreviousIsHighest
<1> QED
  BY <1>1, <1>2, <1>3, <1>4

\* A line written to a stream that is whole is the lowest pattern that remains.
LEMMA WriteLineWrites ==
    ASSUME Inv, WriteLine, sink = "open"
    PROVE  Union!Write
<1>1. stage = "writing" /\ inputs' = inputs /\ stage' # "returned" /\ disk' = disk
  BY DEF WriteLine, sources
<1>2. previous = <<previous[1]>> /\ previous[1] \in Patterns /\ Taken # {}
  BY <1>1, OneRow DEF Inv, Progress, PreviousIsHighest, TypeOK
<1>3. previous[1] \in Union!Remaining
  BY <1>1, WhatRemains
<1>4. \A q \in Union!Remaining : previous[1] <= q
  <2>1. previous[1] \in Taken /\ previous[1] \in Nat
    BY <1>2, TakenAreNumbers DEF Inv, PreviousIsHighest
  <2>2. \A q \in Left : previous[1] <= q
    BY <2>1 DEF Inv, InOrder
  <2>3. previous[1] <= previous[1]
    BY <2>1
  <2> QED
    BY <1>1, <2>2, <2>3, WhatRemains
<1>5. written' = Append(written, previous[1])
  <2>1. disk \in Rows /\ buffer \in Rows /\ buffer' = buffer \o <<previous[1]>>
    BY <1>2 DEF Inv, TypeOK, WriteLine
  <2> QED
    BY <1>1, <1>2, <2>1, RowsAppended DEF written
<1>6. given' = given
  BY <1>1 DEF given, Held, Line
<1> QED
  BY <1>1, <1>3, <1>4, <1>5, <1>6 DEF Union!Write, written, given

\* A merge returns only with nothing left to write.
LEMMA DescribeFinishes ==
    ASSUME Inv, Describe
    PROVE  Union!Finish
<1>1. stage = "describing" /\ stage' = "returned" /\ UNCHANGED <<inputs, disk, buffer>>
  BY DEF Describe, sources, stream
<1>2. sink = "open" /\ Live = {}
  BY <1>1 DEF Inv, OnDiskBeforeDescribed, Progress
<1>3. Left = {}
  <2>1. ASSUME NEW i \in DOMAIN inputs PROVE at[i]..Len(Line(i)) = {}
    BY <1>2, InputFacts DEF Live, Inv
  <2> QED
    BY <2>1 DEF Left
<1>4. Union!Remaining = {}
  BY <1>1, <1>2, <1>3, WhatRemains
<1>5. given' = given
  BY <1>1 DEF given, Held, Line
<1> QED
  BY <1>1, <1>4, <1>5 DEF Union!Finish, given

\* Every other step leaves what was written, and that it is not done, as they are.
LEMMA OthersStutter ==
    ASSUME Inv, [Next]_vars, ~Describe, ~(WriteLine /\ sink = "open")
    PROVE  UNCHANGED <<given, written, done>>
<1>1. inputs' = inputs
  BY DEF Next, Merge, Refuse, Accept, TakeLowest, WriteLine, Drained, DrainFails, EndLines, Written,
     WrittenFails, Describe, Flush, SourceFails, DescribeFails, SinkFails, vars, sources
<1>2. given' = given
  BY <1>1 DEF given, Held, Line
<1>3. done' = done
  BY DEF Next, Merge, Refuse, Accept, TakeLowest, WriteLine, Drained, DrainFails, EndLines, Written,
     WrittenFails, Flush, SourceFails, DescribeFails, SinkFails, vars, done
<1>4. written' = written
  <2>1. CASE Flush
    BY <2>1, FlushInv DEF written
  <2>2. CASE ~Flush
    <3>1. UNCHANGED <<disk, buffer>>
      BY <2>2 DEF Next, Merge, Refuse, Accept, TakeLowest, WriteLine, Drained, DrainFails, EndLines,
         Written, WrittenFails, SourceFails, DescribeFails, SinkFails, vars, stream
    <3> QED
      BY <3>1 DEF written
  <2> QED
    BY <2>1, <2>2
<1> QED
  BY <1>2, <1>3, <1>4

\* The merge implements SortedUnion: each line it writes is the lowest pattern that
\* remains, and it returns only when none does.
THEOREM IsSortedUnionCorrect == Spec => IsSortedUnion
<1>1. Init => Union!Init
  <2>1. << >> \o << >> = << >>
    BY EmptySeq, FlushedRows DEF Rows
  <2> QED
    BY <2>1 DEF Init, Union!Init
<1>2. Inv /\ [Next]_vars => [Union!Write \/ Union!Finish]_<<given, written, done>>
  BY WriteLineWrites, DescribeFinishes, OthersStutter
<1> QED
  BY <1>1, <1>2, Invariance, PTL DEF Spec, IsSortedUnion, Union!Spec, given, written, done

-----------------------------------------------------------------------------
(* The shards of a run *)

\* Every station is some shard's, whatever the number of shards.
LEMMA StationsDealt ==
    ASSUME NEW s \in Stations
    PROVE  \E n \in 1..Of : s \in Shard(n, Of)
<1>1. (s - 1) % Of \in 0..Of - 1
  BY OfAssumption DEF Stations
<1>2. ((s - 1) % Of) + 1 \in 1..Of /\ (s - 1) % Of = (((s - 1) % Of) + 1) - 1
  BY <1>1, OfAssumption
<1> QED
  BY <1>2 DEF Shard

\* A merge of all shards of one run holds exactly what the run found, with any number
\* of shards and in any order.
THEOREM WholeNetworkCorrect == Spec => []WholeNetwork
<1>1. Inv => WholeNetwork
  <2> SUFFICES ASSUME Inv, NEW r \in DOMAIN Found, stage = "returned",
                      \A i \in DOMAIN inputs : inputs[i].run = r,
                      {inputs[i].n : i \in DOMAIN inputs} = 1..Of
               PROVE  RowsOf(disk) = Found[r]
    BY DEF WholeNetwork, RowsOf
  <2>1. sink = "open" /\ buffer = << >> /\ Live = {} /\ disk \in Rows
    BY DEF Inv, OnDiskBeforeDescribed, Progress, TypeOK
  <2>2. disk \o buffer = disk
    BY <2>1, ConcatEmptySeq DEF Rows
  <2>3. Left = {}
    <3>1. ASSUME NEW i \in DOMAIN inputs PROVE at[i]..Len(Line(i)) = {}
      BY <2>1, InputFacts DEF Live, Inv
    <3> QED
      BY <3>1 DEF Left
  <2>4. RowsOf(disk) = UNION {Held(i) : i \in DOMAIN inputs}
    BY <2>1, <2>2, <2>3, TakenAndLeft DEF Inv, WritesWhatIsTaken
  <2>5. \A i \in DOMAIN inputs : Held(i) = {p \in Found[r] : Ends[p] \cap Shard(inputs[i].n, Of) # {}}
    BY InputFacts DEF Inv
  <2>6. ASSUME NEW p \in Found[r] PROVE \E i \in DOMAIN inputs : p \in Held(i)
    <3>1. PICK s \in Stations : s \in Ends[p]
      BY FoundAssumption, PatternsAssumption
    <3>2. PICK n \in 1..Of : s \in Shard(n, Of)
      BY StationsDealt
    <3>3. PICK i \in DOMAIN inputs : inputs[i].n = n
      OBVIOUS
    <3> QED
      BY <2>5, <3>1, <3>2, <3>3
  <2> QED
    BY <2>4, <2>5, <2>6
<1> QED
  BY <1>1, Invariance, PTL

=============================================================================
