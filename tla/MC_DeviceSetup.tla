--------------------------- MODULE MC_DeviceSetup ---------------------------
(* Small instances of DeviceSetup for TLC. *)
EXTENDS DeviceSetup, TLC

\* Processes and setup tokens are interchangeable names.
SetupSymmetry == Permutations(Procs) \cup Permutations(SetupTokens)
=============================================================================
