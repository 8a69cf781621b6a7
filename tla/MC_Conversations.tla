------------------------- MODULE MC_Conversations -------------------------
(* Small instances of Conversations for TLC. *)
EXTENDS Conversations, TLC

\* Calls, threads, fields and processes are interchangeable names.
ConversationsSymmetry ==
  Permutations(Calls) \cup Permutations(Threads) \cup Permutations(Fields) \cup Permutations(Procs)
=============================================================================
