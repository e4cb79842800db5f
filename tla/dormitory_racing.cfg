SPECIFICATION Spec
CONSTANTS
  Workers = {w1, w2}
  Students = {s1, s2}
  Buildings = {b1}
  Teachers = {t1}
  Rooms = {r1, r2}
  Capacities = {0, 1}
  MaxAssignments = 2
  Nowhere = Nowhere
SYMMETRY StudentsAndWorkers
INVARIANTS
  OneActiveAssignment
  CounterBounded
  ReferencesHold
  SupervisedOncePerWorker
CHECK_DEADLOCK FALSE
