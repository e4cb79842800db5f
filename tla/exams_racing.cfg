SPECIFICATION Spec
CONSTANTS
  Workers = {w1, w2}
  Students = {s1, s2}
  MCQs = {}
  EssayQs = {e1}
  Graders = {u1}
  Teachers = {t1}
  Points = {1}
  None = None
SYMMETRY StudentsAndWorkers
INVARIANTS
  GradedHasTotal
PROPERTIES
  ResultsWithdrawnOnlyByStaleReads
  LeftWritingOnlyByLateStart
CHECK_DEADLOCK FALSE
