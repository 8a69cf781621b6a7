SPECIFICATION Spec
CONSTANTS
  w1 = w1
  Workers = {w1}
  NumTasks = 1
  MaxFaults = 2
INVARIANT
  NeverCrashes
