SPECIFICATION Spec
CONSTANTS
  Workers = {w1}
  Students = {s1, s2}
  Buildings = {b1}
  Teachers = {t1}
  Rooms = {r1, r2}
  Capacities = {1, 2}
  MaxAssignments = 3
  Nowhere = Nowhere
INVARIANTS
  OccupancyIsHeadcount
PROPERTIES
  ImplementsResidence
CHECK_DEADLOCK FALSE
