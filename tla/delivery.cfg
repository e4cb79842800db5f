SPECIFICATION Spec
CONSTANTS
  Workers = {w1, w2}
  Notifications = {n1, n2}
  Silent = {n2}
  MaxRedeliveries = 2
INVARIANTS
  SentWasHandedOver
  DoubledOnlyByRedelivery
PROPERTIES
  CommittedIsSent
CHECK_DEADLOCK FALSE
