SPECIFICATION Spec
CONSTANTS
  p1 = p1
  p2 = p2
  c1 = c1
  c2 = c2
  c3 = c3
  c4 = c4
  t1 = t1
  f1 = f1
  f2 = f2
  f3 = f3
  Procs = {p1, p2}
  Calls = {c1, c2, c3, c4}
  Threads = {t1}
  Fields = {f1, f2, f3}
SYMMETRY ConversationsSymmetry
CHECK_DEADLOCK FALSE
INVARIANTS
  DispatchIsComplete
PROPERTIES
  AnswersAreKept
  EndIsFinal
