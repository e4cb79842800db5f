----------------------------- MODULE MCInvoices ------------------------------
(* Invoices, the overdue task and the revenue report on small instances. The *)
(* instances need no definition beyond the values in their .cfg files.       *)
EXTENDS RevenueReport, TLC
=============================================================================
