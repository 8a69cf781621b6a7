SPECIFICATION Spec
CONSTANTS
  c1 = c1
  c2 = c2
  a1 = a1
  a2 = a2
  k1 = k1
  NoKey = NoKey
  Calls = {c1, c2}
  Actors = {a1, a2}
  Keys = {k1}
  MaxRequests = 3
  Required = 2
  MaxPending = 1
SYMMETRY ApprovalSymmetry
INVARIANTS
  TypeOK
  ApprovedHasQuorum
  RefusalIsFinal
  PendingBounded
  KeyBounded
PROPERTIES
  ApprovalsAreKept
