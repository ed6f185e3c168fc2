---------------------------- MODULE MCFeedImport ----------------------------
(***************************************************************************)
(* Small feeds for TLC to import with FeedImport.                          *)
(***************************************************************************)
EXTENDS FeedImport

S(action, key) == [table |-> "schedule", action |-> action, key |-> key]
Call == [table |-> "stop_time", action |-> "Insert", key |-> NoKey]

Refresh(lines) == [full |-> TRUE, lines |-> lines]
Changes(lines) == [full |-> FALSE, lines |-> lines]

ASSUME OrderlyFeedAssumption == OrderlyFeed

\* A refresh, a changes archive that does all a changes archive can, a second
\* refresh and changes to it: one file, nothing fails.
OneFile ==
    << Refresh([f \in Files |-> <<S("Insert", "k1"), Call, Call, S("Insert", "k2"), Call>>]),
       Changes([f \in Files |-> <<S("Update", "k1"), Call, S("Delete", "k2"),
                                  S("Insert", "k3"), Call, S("Update", "k1"), Call>>]),
       Refresh([f \in Files |-> <<S("Insert", "k2"), Call>>]),
       Changes([f \in Files |-> <<S("Delete", "k2"), S("Insert", "k1"), Call, Call>>]) >>

\* Two files, read at once into tables of their own.  The manual trains of ZTR
\* have no action map, and here the feed only ever adds to them.
TwoFiles ==
    << Refresh([MCA |-> <<S("Insert", "k1"), Call, S("Insert", "k2"), Call>>,
                ZTR |-> <<S("Insert", "k1")>>]),
       Changes([MCA |-> <<S("Update", "k1"), Call, S("Delete", "k2"),
                          S("Insert", "k3"), Call>>,
                ZTR |-> <<S("Insert", "k2")>>]),
       Refresh([MCA |-> <<S("Insert", "k2"), Call>>, ZTR |-> << >>]),
       Changes([MCA |-> <<S("Delete", "k2")>>, ZTR |-> << >>]) >>

\* The same, but a changes archive revises a manual train.
RevisedManualTrain ==
    << Refresh([MCA |-> << >>, ZTR |-> <<S("Insert", "k1"), Call>>]),
       Changes([MCA |-> <<S("Insert", "k1"), Call>>, ZTR |-> <<S("Update", "k1"), Call>>]) >>

\* Changes large enough for calls to be written before their schedules are.
RetriedChanges ==
    << Refresh([f \in Files |-> <<S("Insert", "k1"), Call, S("Insert", "k2"), Call>>]),
       Changes([f \in Files |-> <<S("Delete", "k2"), S("Insert", "k3"), Call, Call>>]) >>
=============================================================================
