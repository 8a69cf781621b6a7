SPECIFICATION FairSpec
CONSTANTS
  q1 = q1
  q2 = q2
  Requests = {q1, q2}
  TaskLimit = 3
  MaxHistory = 1
  Sensitive = {1, 3}
  AllowCancelFinished = TRUE
  ReviewSuspends = TRUE
INVARIANTS
  TypeOK
  SensitiveIsApproved
  RunningIsExecuted
  ListedIsStored
PROPERTIES
  CancelStands
  RunningEnds
CHECK_DEADLOCK FALSE
