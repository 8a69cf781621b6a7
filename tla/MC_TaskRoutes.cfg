SPECIFICATION Spec
CONSTANTS
  q1 = q1
  q2 = q2
  q3 = q3
  Requests = {q1, q2, q3}
  TaskLimit = 4
  MaxHistory = 2
  Sensitive = {1, 3}
  AllowCancelFinished = FALSE
  ReviewSuspends = FALSE
SYMMETRY RequestSymmetry
INVARIANTS
  RunsAlone
  OnlyCancelledRunsAreLost
CHECK_DEADLOCK FALSE
