--------------------------- MODULE MCPatternMerge ---------------------------
(***************************************************************************)
(* Three stations in two shards, so that a pattern is found from either    *)
(* end, and two runs of the feed that found different patterns.  Every     *)
(* list of at most three shard files, one of them given twice included.    *)
(***************************************************************************)
EXTENDS PatternMerge, SequencesExt

MCEnds == [p \in {1, 2, 3, 4} |-> <<{1, 2}, {1, 3}, {2, 3}, {2}>>[p]]
MCFound == <<{1, 2, 3, 4}, {2, 4}>>

File(n, r, described) ==
    [n |-> n, run |-> r, described |-> described,
     patterns |-> SetToSortSeq({p \in MCFound[r] : MCEnds[p] \cap Shard(n, Of) # {}}, <)]

MCFiles == {File(n, r, described) : n \in 1..2, r \in 1..2, described \in BOOLEAN}

MCInputs == UNION {[1..k -> MCFiles] : k \in 0..2} \cup
            {<<f, g, h>> : f \in MCFiles, g \in {File(1, 1, FALSE)}, h \in {File(1, 1, TRUE), File(2, 2, TRUE)}}
=============================================================================
