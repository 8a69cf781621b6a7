--------------------------- MODULE MC_WorkerQueue ---------------------------
(* Small instances of WorkerQueue for TLC. *)
EXTENDS WorkerQueue, TLC

\* Worker processes are interchangeable: no definition tells one from another.
WorkerSymmetry == Permutations(Workers)
=============================================================================
