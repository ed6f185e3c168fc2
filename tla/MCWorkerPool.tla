---------------------------- MODULE MCWorkerPool ----------------------------
(***************************************************************************)
(* Two threads a day over two stations, and two days.                      *)
(***************************************************************************)
EXTENDS WorkerPool

MCStations == {"EUS", "LST"}
MCWorkers == {1, 2}
=============================================================================
