SPECIFICATION Spec
CONSTANTS
  Absent = Absent
  p1 = p1
  p2 = p2
  Parties <- TwoParties
  Intents <- OneIntent
  Ttl = 2
  Overlap = 1
  MaxTime = 3
  MaxIssued = 2
SYMMETRY PartySymmetry
INVARIANTS
  ExecutedAsIssued
  RotationKeepsValid
  StaleCacheFailsClosed
  AuthorizationVerifiersAgree
  VectorsCover
CHECK_DEADLOCK FALSE
