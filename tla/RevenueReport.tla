--------------------------- MODULE RevenueReport ----------------------------
(* The all-time revenue report, computed from the invoice statuses alone.   *)
EXTENDS Invoices, FiniteSetsExt

\* get_revenue_stats: the totals of the invoices in one status, added up.
TotalWith_NoFilter(st) ==
  MapThenSumSet(LAMBDA i : total_amount[i], {i \in Existing : status[i] # "draft"})
TotalWith(st) ==
  MapThenSumSet(LAMBDA i : total_amount[i], {i \in Existing : status[i] = st})

Report ==
  LET stats == [st \in InvoiceStatus |-> TotalWith(st)]
  IN [invoiced |-> MapThenSumSet(LAMBDA st : stats[st], InvoiceStatus),
      collected |-> stats["paid"],
      outstanding |-> stats["overdue"],
      count |-> Cardinality(Existing)]

\* The report reads no payment, only statuses, and still never shows as
\* collected more than the payments brought in.
ReportIsBacked ==
  Report.collected <= MapThenSumSet(LAMBDA i : received[i], Existing)
=============================================================================
