SPECIFICATION Spec
CONSTANTS
  p1 = p1
  k1 = k1
  k2 = k2
  Procs = {p1}
  SetupTokens = {k1, k2}
  MaxDevices = 2
  NumTasks = 1
  MaxFaults = 1
SYMMETRY ConnectorSymmetry
CHECK_DEADLOCK FALSE
INVARIANTS
  RepeatsAreExplained
  ReachesAddressee
PROPERTIES
  ImplementsQueue
