SPECIFICATION PayingSpec
CONSTANTS
  Workers = {w1}
  Invoices = {i1}
  Totals = {2}
  Amounts = {1}
  Inexact = {}
  MaxPayments = 3
PROPERTIES
  InstalmentsComplete
CHECK_DEADLOCK FALSE
