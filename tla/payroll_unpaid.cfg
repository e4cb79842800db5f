SPECIFICATION OfficeSpec
CONSTANTS
  Workers = {w1}
  Staff = {u1}
  Teachers = {t1}
  Periods = {p1}
  Contracts = {c1}
  Runs = {r1}
PROPERTIES
  EveryMonthIsPaid
CHECK_DEADLOCK FALSE
