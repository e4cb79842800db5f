SPECIFICATION FairSpec
CONSTANTS
  Workers = {w1, w2}
  Invoices = {i1, i2}
  Totals = {1, 2}
  Amounts = {1, 2}
  Inexact = {1}
  MaxPayments = 2
INVARIANTS
  NumbersAreGapless
  PaidIsCovered
  ReportIsBacked
PROPERTIES
  PaidIsLostOnlyToStaleReads
  SentIsSettledOrOverdue
CHECK_DEADLOCK FALSE
