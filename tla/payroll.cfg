SPECIFICATION Spec
CONSTANTS
  Workers = {w1, w2}
  Staff = {u1}
  Teachers = {t1}
  Periods = {p1, p2}
  Contracts = {c1, c2}
  Runs = {r1, r2}
SYMMETRY Interchangeable
INVARIANTS
  OneActiveContract
  OneLiveRun
  PaidWasApproved
PROPERTIES
  ClosedRunsChangeOnlyByStaleReads
CHECK_DEADLOCK FALSE
