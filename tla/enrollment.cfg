SPECIFICATION Spec
CONSTANTS
  Workers = {w1, w2}
  Students = {s1, s2}
  Years = {y1, y2}
  Classes = {c1, c2}
  Capacities = {1, 2}
  Counts = {0}
  MaxEnrollments = 2
SYMMETRY Interchangeable
INVARIANTS
  EnrollmentsHaveParents
PROPERTIES
  LeavingIsFinal
  OverfilledOnlyByStaleReads
  EnrollingRecounts
CHECK_DEADLOCK FALSE
