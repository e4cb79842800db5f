------------------------------ MODULE Invoices ------------------------------
(***************************************************************************)
(* Invoices and payments of one tenant, and the nightly Celery task that   *)
(* marks invoices overdue. As in every request, a SELECT is a step that    *)
(* sees the committed tables and the commit is a step that writes what was *)
(* computed from the rows read; nothing locks a row in between. The task   *)
(* runs in a process of its own with a transaction of its own.             *)
(*                                                                         *)
(* A name with an underscore, such as Overdue_NotYetDue, is a faulty       *)
(* variant of the definition it precedes, as in Dormitory.                 *)
(***************************************************************************)
EXTENDS Integers, FiniteSets

CONSTANTS
  Workers,     \* requests that can be in flight at the same time
  Invoices,    \* the invoice rows that can be inserted
  Totals,      \* what the line items of an invoice can come to
  Amounts,     \* what one payment can be over
  Inexact,     \* the amounts whose double lies below the decimal it stands for
  MaxPayments  \* bound: payments recorded on one invoice

\* The request schemas check no sign; bills and payments are taken to be what
\* their names say, not negative.
ASSUME MoneyAssumption ==
  Totals \subseteq Nat /\ Amounts \subseteq Nat /\ Inexact \subseteq Amounts
ASSUME InvoicesAssumption == IsFiniteSet(Invoices)

VARIABLES
  number,        \* the sequence in invoice_number; 0 while there is no row
  total_amount,  \* Invoice.total_amount
  status,        \* Invoice.status
  past_due,      \* whether due_date < date.today()
  payments,      \* how many payments rows the invoice has
  received,      \* the sum of their amounts
  req,           \* the request each worker is serving
  task           \* the run of mark_overdue_invoices in progress

invoiceVars == <<number, total_amount, status, past_due>>
paymentVars == <<payments, received>>
vars == <<invoiceVars, paymentVars, req, task>>

-----------------------------------------------------------------------------
InvoiceStatus == {"draft", "sent", "paid", "overdue"}

Idle == [op |-> "idle"]

Request ==
  {Idle}
  \cup [op : {"create"}, number : Nat]
  \cup [op : {"send", "pay.payments", "pay.commit"}, invoice : Invoices, seen : InvoiceStatus]

\* A task run remembers the status of every invoice it selected.
TaskRun == [op : {"overdue"}, seen : UNION {[S -> InvoiceStatus] : S \in SUBSET Invoices}]

Existing == {i \in Invoices : number[i] > 0}

Init ==
  /\ number = [i \in Invoices |-> 0]
  /\ total_amount \in [Invoices -> Totals]
  /\ status = [i \in Invoices |-> "draft"]
  /\ past_due = [i \in Invoices |-> FALSE]
  /\ payments = [i \in Invoices |-> 0]
  /\ received = [i \in Invoices |-> 0]
  /\ req = [w \in Workers |-> Idle]
  /\ task = Idle

Serve(w, request) == req' = [req EXCEPT ![w] = request]
Finish(w) == Serve(w, Idle)

-----------------------------------------------------------------------------
(* create_invoice *)

\* get_next_invoice_number counts the rows; nothing ever deletes one.
NextInvoiceNumber == Cardinality(Existing) + 1

CreateReadCount(w) ==
  /\ req[w] = Idle
  /\ Serve(w, [op |-> "create", number |-> NextInvoiceNumber])
  /\ UNCHANGED <<invoiceVars, paymentVars, task>>

\* uq_invoice_number_tenant
NumberIndexAllows_NoIndex(n) == n \in Nat
NumberIndexAllows(n) == \A i \in Invoices : number[i] # n

CreateCommit(w, i) ==
  /\ req[w].op = "create"
  /\ number[i] = 0
  /\ NumberIndexAllows(req[w].number)
  /\ number' = [number EXCEPT ![i] = req[w].number]
  /\ Finish(w)
  /\ UNCHANGED <<total_amount, status, past_due, paymentVars, task>>

-----------------------------------------------------------------------------
(* send_invoice *)

CanBeSent_Resend(i) == status[i] # "sent"
CanBeSent(i) == status[i] = "draft"

SendRead(w, i) ==
  /\ req[w] = Idle
  /\ i \in Existing
  /\ CanBeSent(i)
  /\ Serve(w, [op |-> "send", invoice |-> i, seen |-> status[i]])
  /\ UNCHANGED <<invoiceVars, paymentVars, task>>

SendCommit(w) ==
  /\ req[w].op = "send"
  /\ status' = [status EXCEPT ![req[w].invoice] = "sent"]
  /\ Finish(w)
  /\ UNCHANGED <<number, total_amount, past_due, paymentVars, task>>

-----------------------------------------------------------------------------
(* record_payment *)

\* Only a paid invoice is refused: a draft or overdue one takes payments too.
PayReadInvoice(w, i) ==
  /\ req[w] = Idle
  /\ i \in Existing
  /\ status[i] # "paid"
  /\ Serve(w, [op |-> "pay.payments", invoice |-> i, seen |-> status[i]])
  /\ UNCHANGED <<invoiceVars, paymentVars, task>>

\* The amounts of earlier payments are Decimal and the amount of this one is a
\* float. Python adds a float to the 0 of an empty sum, but not to a Decimal:
\* with an earlier payment on the invoice the request ends in a TypeError.
SumIsDefined(i) == payments[i] = 0

PayReadPayments(w) ==
  /\ req[w].op = "pay.payments"
  /\ SumIsDefined(req[w].invoice)
  /\ Serve(w, [op |-> "pay.commit", invoice |-> req[w].invoice, seen |-> req[w].seen])
  /\ UNCHANGED <<invoiceVars, paymentVars, task>>

\* total_paid >= invoice.total_amount compares the double with the decimal
\* exactly. (With autoflush the sum would already hold the new payment.)
Covers_CountedTwice(amount, i) == amount + amount >= total_amount[i]
Covers(amount, i) ==
  \/ amount > total_amount[i]
  \/ amount = total_amount[i] /\ amount \notin Inexact

PayCommit(w, amount) ==
  /\ req[w].op = "pay.commit"
  /\ LET i == req[w].invoice
     IN /\ payments[i] < MaxPayments
        /\ payments' = [payments EXCEPT ![i] = @ + 1]
        /\ received' = [received EXCEPT ![i] = @ + amount]
        /\ status' = [status EXCEPT ![i] = IF Covers(amount, i) THEN "paid" ELSE @]
  /\ Finish(w)
  /\ UNCHANGED <<number, total_amount, past_due, task>>

-----------------------------------------------------------------------------
(* mark_overdue_invoices *)

DueDatePasses(i) ==
  /\ ~past_due[i]
  /\ past_due' = [past_due EXCEPT ![i] = TRUE]
  /\ UNCHANGED <<number, total_amount, status, paymentVars, req, task>>

Overdue_NotYetDue == {i \in Existing : status[i] = "sent" /\ ~past_due[i]}
Overdue == {i \in Existing : status[i] = "sent" /\ past_due[i]}

TaskRead ==
  /\ task = Idle
  /\ Overdue # {}
  /\ task' = [op |-> "overdue", seen |-> [i \in Overdue |-> status[i]]]
  /\ UNCHANGED <<invoiceVars, paymentVars, req>>

TaskCommit ==
  /\ task # Idle
  /\ status' = [i \in Invoices |-> IF i \in DOMAIN task.seen THEN "overdue" ELSE status[i]]
  /\ task' = Idle
  /\ UNCHANGED <<number, total_amount, past_due, paymentVars, req>>

\* The worker dies or the database is lost; the run of the next night selects
\* the same invoices again.
TaskAbort ==
  /\ task # Idle
  /\ task' = Idle
  /\ UNCHANGED <<invoiceVars, paymentVars, req>>

-----------------------------------------------------------------------------
\* get_db rolls back: a domain error, an integrity error, the TypeError above,
\* a cancelled request or a lost connection.
Abort(w) ==
  /\ req[w] # Idle
  /\ Finish(w)
  /\ UNCHANGED <<invoiceVars, paymentVars, task>>

Next ==
  \/ \E w \in Workers :
       \/ CreateReadCount(w)
       \/ \E i \in Invoices : CreateCommit(w, i) \/ SendRead(w, i) \/ PayReadInvoice(w, i)
       \/ SendCommit(w)
       \/ PayReadPayments(w)
       \/ \E amount \in Amounts : PayCommit(w, amount)
       \/ Abort(w)
  \/ \E i \in Invoices : DueDatePasses(i)
  \/ TaskRead \/ TaskCommit \/ TaskAbort

Spec == Init /\ [][Next]_vars

\* Celery beat starts the task every night, so a run that fails is followed by
\* others; it does not fail for ever.
TaskFairness == WF_vars(TaskRead) /\ SF_vars(TaskCommit)

FairSpec == Spec /\ TaskFairness

-----------------------------------------------------------------------------
TypeOK ==
  /\ number \in [Invoices -> Nat]
  /\ total_amount \in [Invoices -> Totals]
  /\ status \in [Invoices -> InvoiceStatus]
  /\ past_due \in [Invoices -> BOOLEAN]
  /\ payments \in [Invoices -> Nat]
  /\ received \in [Invoices -> Nat]
  /\ req \in [Workers -> Request]
  /\ task \in {Idle} \cup TaskRun

\* Invoice numbers run 1, 2, 3, ... without gap or duplicate, although each is
\* computed from a count that may be stale when the row is inserted.
NumbersAreGapless ==
  /\ \A i, j \in Existing : number[i] = number[j] => i = j
  /\ {number[i] : i \in Existing} = 1 .. Cardinality(Existing)

\* An invoice is shown as paid only when the money is there, whatever order
\* payments, sending and the task commit in.
PaidIsCovered ==
  \A i \in Invoices : status[i] = "paid" => received[i] >= total_amount[i]

\* What a transaction saw of an invoice that its commit will write to.
Writes(q, i) ==
  \/ q.op \in {"send", "pay.commit"} /\ q.invoice = i
  \/ q.op = "overdue" /\ i \in DOMAIN q.seen
SawPaid(q, i) ==
  IF q.op = "overdue" THEN q.seen[i] = "paid" ELSE q.seen = "paid"

\* An invoice stops being paid only when a transaction commits that read it
\* before it was paid: no handler takes the status back knowingly.
PaidIsLostOnlyToStaleReads ==
  [][\A i \in Invoices :
       status[i] = "paid" /\ status'[i] # "paid" =>
         \/ \E w \in Workers :
              req'[w] # req[w] /\ Writes(req[w], i) /\ ~SawPaid(req[w], i)
         \/ task' # task /\ Writes(task, i) /\ ~SawPaid(task, i)]_vars

\* An invoice that was sent and whose due date has passed does not stay so:
\* the task takes it to overdue unless it is paid first.
SentIsSettledOrOverdue ==
  \A i \in Invoices : (status[i] = "sent" /\ past_due[i]) ~> (status[i] # "sent")

\* A payer keeps sending payments for an invoice, every request ends, and the
\* server takes it to its commit whenever that goes on being possible.
RequestStep(w) ==
  \/ \E i \in Invoices : CreateCommit(w, i)
  \/ SendCommit(w)
  \/ PayReadPayments(w)
  \/ \E amount \in Amounts : PayCommit(w, amount)
  \/ Abort(w)

PayerFairness ==
  \A w \in Workers :
    /\ WF_vars(RequestStep(w))
    /\ \A i \in Invoices : SF_vars(PayReadInvoice(w, i))
    /\ SF_vars(PayReadPayments(w))
    /\ SF_vars(\E amount \in Amounts : PayCommit(w, amount))

PayingSpec == Spec /\ PayerFairness

\* "Records an individual payment against an invoice.", several of which may
\* add up to the total: a payer who keeps paying gets an invoice paid.
InstalmentsComplete ==
  \A i \in Invoices : (payments[i] > 0) ~> (status[i] = "paid")
=============================================================================
