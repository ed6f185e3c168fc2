----------------------------- MODULE SortedUnion -----------------------------
(***************************************************************************)
(* What the merge of the shards promises: every pattern some shard holds,  *)
(* once, in order, and that it says it is done only when it is.            *)
(***************************************************************************)
EXTENDS Naturals, Sequences

VARIABLES
    given,      \* the patterns of all shards
    written,    \* in the order they were written
    done

Remaining == given \ {written[i] : i \in DOMAIN written}

Init == written = << >> /\ done = FALSE

Write ==
    /\ ~done
    /\ \E p \in Remaining :
          /\ \A q \in Remaining : p <= q
          /\ written' = Append(written, p)
    /\ UNCHANGED <<given, done>>

Finish ==
    /\ Remaining = {}
    /\ done' = TRUE
    /\ UNCHANGED <<given, written>>

Spec == Init /\ [][Write \/ Finish]_<<given, written, done>>
=============================================================================
