------------------------- MODULE MC_ApprovalManager -------------------------
(* Small instances of ApprovalManager for TLC. *)
EXTENDS ApprovalManager, TLC

\* Threads, approvers and keys are interchangeable names.
ApprovalSymmetry == Permutations(Calls) \cup Permutations(Actors) \cup Permutations(Keys)
=============================================================================
