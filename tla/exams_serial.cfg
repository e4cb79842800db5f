SPECIFICATION Spec
CONSTANTS
  Workers = {w1}
  Students = {s1}
  MCQs = {c1, c2}
  EssayQs = {e1}
  Graders = {u1}
  Teachers = {t1}
  Points = {0, 1}
  None = None
PROPERTIES
  TotalIsEarned
  GradedEssaysMarked
  ImplementsExamination
CHECK_DEADLOCK FALSE
