SPECIFICATION Spec
CONSTANTS
  p1 = p1
  p2 = p2
  t1 = t1
  t2 = t2
  Procs = {p1, p2}
  Tabs = {t1, t2}
  MaxSessions = 2
  MaxTokens = 4
  MaxWaiting = 1
  MaxFaults = 2
SYMMETRY SessionsSymmetry
CHECK_DEADLOCK FALSE
INVARIANTS
  TypeOK
  EndedIsFinal
  SingleUse
  StoredTokenIsCurrent
PROPERTIES
  ActsAsOneStore
