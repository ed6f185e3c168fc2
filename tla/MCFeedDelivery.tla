--------------------------- MODULE MCFeedDelivery ---------------------------
(***************************************************************************)
(* Two files, two process ids, three runs: enough for a run to meet the    *)
(* leavings of a dead one with its own id and with another.                *)
(***************************************************************************)
EXTENDS FeedDelivery

MCTargets ==
    [zip : {TRUE}, apart : {FALSE}, tmp : BOOLEAN]
        \cup [zip : {FALSE}, apart : BOOLEAN, tmp : {FALSE}]
=============================================================================
