SPECIFICATION Spec
CONSTANTS
  p1 = p1
  p2 = p2
  k1 = k1
  k2 = k2
  Procs = {p1, p2}
  SetupTokens = {k1, k2}
  MaxDevices = 4
SYMMETRY SetupSymmetry
INVARIANTS
  TypeOK
  RedemptionsBounded
  ConsumedIffRedeemed
  DisabledIsFinal
PROPERTIES
  RegistrationHolds
