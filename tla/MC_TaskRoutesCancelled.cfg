SPECIFICATION Spec
CONSTANTS
  q1 = q1
  q2 = q2
  Requests = {q1, q2}
  TaskLimit = 2
  MaxHistory = 2
  Sensitive = {1}
  AllowCancelFinished = FALSE
  ReviewSuspends = FALSE
PROPERTIES
  CancelledIsFinished
CHECK_DEADLOCK FALSE
