---------------------------- MODULE MC_TaskRoutes ----------------------------
(* Small instances of TaskRoutes for TLC. *)
EXTENDS TaskRoutes, TLC

\* Requests are interchangeable names; tasks are not, they have an order.
RequestSymmetry == Permutations(Requests)
=============================================================================
