------------------------- MODULE MC_DeviceConnector -------------------------
(* Small instances of DeviceConnector for TLC. *)
EXTENDS DeviceConnector, TLC

\* Setup tokens are interchangeable names.
ConnectorSymmetry == Permutations(SetupTokens)
=============================================================================
