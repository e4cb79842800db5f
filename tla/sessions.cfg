SPECIFICATION Spec
CONSTANTS
  Workers = {w1, w2}
  Users = {u1, u2}
  Phones = {p1}
  MaxRows = 3
SYMMETRY Interchangeable
PROPERTIES
  ResetEndsOlderSessions
  NewCodeEndsOlderCodes
  DeactivationHolds
CHECK_DEADLOCK FALSE
