SPECIFICATION FairSpec
CONSTANTS
  w1 = w1
  Workers = {w1}
  NumTasks = 3
  MaxFaults = 2
INVARIANTS
  SoleWorkerIsExact
PROPERTIES
  QueuedIsServed
  RevokedWorkerStops
