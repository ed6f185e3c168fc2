----------------------------- MODULE MCExplorer -----------------------------
(***************************************************************************)
(* Two feeds, the second without the file and with fewer findings; four    *)
(* things the reader does, so that a feed is opened over another while a   *)
(* question and a hash change are on their way.                            *)
(***************************************************************************)
EXTENDS Explorer

MCFindingsIn == <<3, 1>>
MCLacks == {2}
=============================================================================
