SPECIFICATION Spec
CONSTANTS
  w1 = w1
  w2 = w2
  Workers = {w1, w2}
  NumTasks = 2
  MaxFaults = 2
SYMMETRY WorkerSymmetry
INVARIANTS
  TypeOK
  CompletedWasExecuted
  ApprovalRequiredIsInert
  ExecutionsBounded
  EffectIsAccountedFor
  FailureIsHonest
PROPERTIES
  KeepsContract
