-------------------------- MODULE MC_AuthSessions --------------------------
(* Small instances of AuthSessions for TLC. *)
EXTENDS AuthSessions, TLC

\* Processes and tabs are interchangeable names.
SessionsSymmetry == Permutations(Procs) \cup Permutations(Tabs)
=============================================================================
