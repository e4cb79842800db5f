------------------------------ MODULE Payroll ------------------------------
(***************************************************************************)
(* Payroll: employment contracts, payroll runs with their status, and      *)
(* payroll records, which the hr domain writes for a run and the finance   *)
(* domain writes by hand. A request is one step per SELECT whose rows it   *)
(* goes on to use and one commit step, with nothing locked in between, as  *)
(* in Dormitory. Amounts of money are left out.                            *)
(*                                                                         *)
(* A name with an underscore, such as CanPay_Draft, is a faulty variant of *)
(* the definition it precedes, as in Dormitory.                            *)
(***************************************************************************)
EXTENDS Naturals

CONSTANTS
  Workers,    \* requests that can be in flight at the same time
  Staff,      \* the keys of users with a staff role
  Teachers,   \* the keys of rows of the teachers table
  Periods,    \* months
  Contracts,  \* keys of employee_contracts; bounds how many are ever inserted
  Runs        \* keys of payroll_runs; bounds how many are ever inserted

\* Keys are fresh UUIDs, whichever table they are made for.
ASSUME KeysAssumption == Staff \cap Teachers = {}

VARIABLES
  employed,   \* the users that are active and not deleted
  contracts,  \* the employee_contracts row of each key
  runs,       \* the payroll_runs row of each key
  records,    \* how many payroll_records rows each teacher has for a period
  req         \* the request each worker is serving

vars == <<employed, contracts, runs, records, req>>

-----------------------------------------------------------------------------
ContractStatus == {"draft", "active", "terminated", "expired"}
RunStatus == {"draft", "approved", "paid", "cancelled"}

NoRow == [status |-> "none"]
Contract == [user : Staff, status : ContractStatus]
\* approved stands for approved_at and approved_by being set.
Run == [period : Periods, status : RunStatus, approved : BOOLEAN]

Idle == [op |-> "idle"]

Request ==
  {Idle}
  \cup [op : {"create_contract"}, user : Staff]
  \cup [op : {"update_contract"}, contract : Contracts, seen : ContractStatus]
  \cup [op : {"run.staff"}, period : Periods]
  \cup [op : {"run.contracts"}, period : Periods, staff : SUBSET Staff, todo : SUBSET Staff]
  \cup [op : {"approve", "pay", "cancel"}, run : Runs, seen : RunStatus]
  \cup [op : {"create_payroll"}, teacher : Teachers, period : Periods]

Init ==
  /\ employed \in SUBSET Staff
  /\ contracts = [c \in Contracts |-> NoRow]
  /\ runs = [r \in Runs |-> NoRow]
  /\ records = [t \in Teachers |-> [p \in Periods |-> 0]]
  /\ req = [w \in Workers |-> Idle]

Serve(w, request) == req' = [req EXCEPT ![w] = request]
Finish(w) == Serve(w, Idle)

\* The ORM leaves a column alone when the handler set it to the value it read.
Write(read, set, committed) == IF set = read THEN committed ELSE set

\* Users come and go in another domain.
StaffChanges ==
  /\ \E u \in Staff : employed' \in {employed \cup {u}, employed \ {u}}
  /\ UNCHANGED <<contracts, runs, records, req>>

-----------------------------------------------------------------------------
(* Contracts *)

ActiveContracts(u) == {c \in Contracts : contracts[c] = [user |-> u, status |-> "active"]}

\* uq_active_contract_user_tenant, for a row that is about to be c's.
ActiveContractIndexAllows_Insert(c, row) ==
  row.status = "active" /\ contracts[c] = NoRow => ActiveContracts(row.user) = {}
ActiveContractIndexAllows(c, row) ==
  row.status = "active" => ActiveContracts(row.user) \subseteq {c}

\* Whether the user is active is not looked at.
CreateContractRead(w, u) ==
  /\ req[w] = Idle
  /\ ActiveContracts(u) = {}
  /\ Serve(w, [op |-> "create_contract", user |-> u])
  /\ UNCHANGED <<employed, contracts, runs, records>>

\* A client may ask for any status. A null, which update_contract would set,
\* is refused by the column.
Settable == ContractStatus

CreateContractCommit(w, c) ==
  /\ req[w].op = "create_contract"
  /\ contracts[c] = NoRow
  /\ \E status \in Settable :
       LET row == [user |-> req[w].user, status |-> status]
       IN  /\ ActiveContractIndexAllows(c, row)
           /\ contracts' = [contracts EXCEPT ![c] = row]
  /\ Finish(w)
  /\ UNCHANGED <<employed, runs, records>>

\* update_contract and terminate_contract
UpdateContractRead(w, c) ==
  /\ req[w] = Idle
  /\ contracts[c] # NoRow
  /\ Serve(w, [op |-> "update_contract", contract |-> c, seen |-> contracts[c].status])
  /\ UNCHANGED <<employed, contracts, runs, records>>

\* A client may make a contract active again. terminate_contract sets
\* "terminated" over anything else.
UpdateContractCommit(w) ==
  /\ req[w].op = "update_contract"
  /\ LET c == req[w].contract
     IN  \E status \in Settable :
           LET row == [contracts[c] EXCEPT !.status = Write(req[w].seen, status, @)]
           IN  /\ ActiveContractIndexAllows(c, row)
               /\ contracts' = [contracts EXCEPT ![c] = row]
  /\ Finish(w)
  /\ UNCHANGED <<employed, runs, records>>

-----------------------------------------------------------------------------
(* create_run *)

LiveRuns(p) ==
  {r \in Runs : runs[r] # NoRow /\ runs[r].period = p /\ runs[r].status # "cancelled"}

\* uq_payroll_run_period_tenant, for a row that is about to be r's: it guards
\* changes of the status as well as inserts.
LiveRunIndexAllows_Insert(r, row) ==
  row.status # "cancelled" /\ runs[r] = NoRow => LiveRuns(row.period) = {}
LiveRunIndexAllows(r, row) ==
  row.status # "cancelled" => LiveRuns(row.period) \subseteq {r}

CreateRunCheckPeriod(w, p) ==
  /\ req[w] = Idle
  /\ LiveRuns(p) = {}
  /\ Serve(w, [op |-> "run.staff", period |-> p])
  /\ UNCHANGED <<employed, contracts, runs, records>>

CreateRunReadStaff(w) ==
  /\ req[w].op = "run.staff"
  /\ Serve(w, [op |-> "run.contracts", period |-> req[w].period, staff |-> employed,
               todo |-> employed])
  /\ UNCHANGED <<employed, contracts, runs, records>>

\* One SELECT for each employee; a run needs all of them to have a contract.
CreateRunReadContract(w, u) ==
  /\ req[w].op = "run.contracts"
  /\ u \in req[w].todo
  /\ ActiveContracts(u) # {}
  /\ Serve(w, [req[w] EXCEPT !.todo = @ \ {u}])
  /\ UNCHANGED <<employed, contracts, runs, records>>

\* A record is inserted with the employee's user key as its teacher_id, which
\* is a foreign key to teachers; it must be the first of its period.
RecordFits(key, p) == key \in Teachers /\ records[key][p] = 0

\* The run and its records are one transaction. The contracts are read once
\* more for the records, which decides nothing.
CreateRunCommit(w, r) ==
  /\ req[w].op = "run.contracts"
  /\ req[w].todo = {}
  /\ runs[r] = NoRow
  /\ LET p == req[w].period
         row == [period |-> p, status |-> "draft", approved |-> FALSE]
     IN  /\ LiveRunIndexAllows(r, row)
         /\ \A u \in req[w].staff : RecordFits(u, p)
         /\ runs' = [runs EXCEPT ![r] = row]
         /\ records' = [t \in Teachers |->
              IF t \in req[w].staff THEN [records[t] EXCEPT ![p] = @ + 1] ELSE records[t]]
  /\ Finish(w)
  /\ UNCHANGED <<employed, contracts>>

-----------------------------------------------------------------------------
(* approve_run, mark_paid, cancel_run *)

ReadRun(w, r, op) ==
  /\ req[w] = Idle
  /\ runs[r] # NoRow
  /\ Serve(w, [op |-> op, run |-> r, seen |-> runs[r].status])
  /\ UNCHANGED <<employed, contracts, runs, records>>

CanPay_Draft(status) == status \in {"draft", "approved"}
CanPay(status) == status = "approved"
CanCancel_Paid(status) == status # "cancelled"
CanCancel(status) == status \notin {"paid", "cancelled"}

ApproveRead(w, r) == ReadRun(w, r, "approve") /\ runs[r].status = "draft"
PayRead(w, r) == ReadRun(w, r, "pay") /\ CanPay(runs[r].status)
CancelRead(w, r) == ReadRun(w, r, "cancel") /\ CanCancel(runs[r].status)

\* The status is new to every one of them, so it is always written.
CommitRun(w, op, status, approved) ==
  /\ req[w].op = op
  /\ LET r == req[w].run
         row == [runs[r] EXCEPT !.status = status, !.approved = @ \/ approved]
     IN  /\ LiveRunIndexAllows(r, row)
         /\ runs' = [runs EXCEPT ![r] = row]
  /\ Finish(w)
  /\ UNCHANGED <<employed, contracts, records>>

ApproveCommit(w) == CommitRun(w, "approve", "approved", TRUE)
PayCommit(w) == CommitRun(w, "pay", "paid", FALSE)
CancelCommit(w) == CommitRun(w, "cancel", "cancelled", FALSE)

-----------------------------------------------------------------------------
(* create_payroll, of the finance domain *)

CreatePayrollRead(w, t, p) ==
  /\ req[w] = Idle
  /\ records[t][p] = 0
  /\ Serve(w, [op |-> "create_payroll", teacher |-> t, period |-> p])
  /\ UNCHANGED <<employed, contracts, runs, records>>

\* uq_payroll_teacher_period
TeacherPeriodIndexAllows(t, p) == records[t][p] = 0

CreatePayrollCommit(w) ==
  /\ req[w].op = "create_payroll"
  /\ TeacherPeriodIndexAllows(req[w].teacher, req[w].period)
  /\ records' = [records EXCEPT ![req[w].teacher][req[w].period] = @ + 1]
  /\ Finish(w)
  /\ UNCHANGED <<employed, contracts, runs>>

-----------------------------------------------------------------------------
\* get_db rolls back.
Abort(w) ==
  /\ req[w] # Idle
  /\ Finish(w)
  /\ UNCHANGED <<employed, contracts, runs, records>>

RequestStep(w) ==
  \/ \E c \in Contracts : CreateContractCommit(w, c)
  \/ UpdateContractCommit(w)
  \/ CreateRunReadStaff(w)
  \/ \E u \in Staff : CreateRunReadContract(w, u)
  \/ \E r \in Runs : CreateRunCommit(w, r)
  \/ ApproveCommit(w)
  \/ PayCommit(w)
  \/ CancelCommit(w)
  \/ CreatePayrollCommit(w)
  \/ Abort(w)

Next ==
  \/ StaffChanges
  \/ \E w \in Workers :
       \/ \E u \in Staff : CreateContractRead(w, u)
       \/ \E c \in Contracts : UpdateContractRead(w, c)
       \/ \E p \in Periods : CreateRunCheckPeriod(w, p)
       \/ \E r \in Runs : ApproveRead(w, r) \/ PayRead(w, r) \/ CancelRead(w, r)
       \/ \E t \in Teachers, p \in Periods : CreatePayrollRead(w, t, p)
       \/ RequestStep(w)

Spec == Init /\ [][Next]_vars

-----------------------------------------------------------------------------
TypeOK ==
  /\ employed \subseteq Staff
  /\ contracts \in [Contracts -> Contract \cup {NoRow}]
  /\ runs \in [Runs -> Run \cup {NoRow}]
  /\ records \in [Teachers -> [Periods -> Nat]]
  /\ req \in [Workers -> Request]

\* "A single active contract per user": also when an update or a late commit
\* makes a contract active again.
OneActiveContract == \A u \in Staff : \A c, d \in ActiveContracts(u) : c = d

\* One run of a period that is not cancelled: also when an approval that read
\* a run before it was cancelled commits after the next run was made.
OneLiveRun == \A p \in Periods : \A r, q \in LiveRuns(p) : r = q

\* A teacher has one record for a period, whichever domain writes it.
OneRecordPerPeriod == \A t \in Teachers, p \in Periods : records[t][p] <= 1

\* Whatever overlaps, a run that is paid was approved by somebody.
PaidWasApproved ==
  \A r \in Runs : runs[r] # NoRow /\ runs[r].status = "paid" => runs[r].approved

Closed == {"paid", "cancelled"}

\* "Paid payroll runs cannot be cancelled": a run that is paid or cancelled
\* changes its status only at the commit of a request that read another
\* status than it has.
ClosedRunsChangeOnlyByStaleReads ==
  [][\A r \in Runs :
       runs[r].status \in Closed /\ runs'[r] # runs[r] =>
         \E w \in Workers :
           /\ req[w].op \in {"approve", "pay", "cancel"} /\ req[w].run = r
           /\ req[w].seen # runs[r].status
           /\ req'[w] = Idle]_vars

-----------------------------------------------------------------------------
(* Paying people *)

\* As generous to the code as can be: payroll is asked for over and over,
\* every request ends, and one that can go on does.
OfficeFairness ==
  \A w \in Workers :
    /\ WF_vars(RequestStep(w))
    /\ \A p \in Periods : SF_vars(CreateRunCheckPeriod(w, p))
    /\ SF_vars(CreateRunReadStaff(w))
    /\ \A u \in Staff : SF_vars(CreateRunReadContract(w, u))
    /\ SF_vars(\E r \in Runs : CreateRunCommit(w, r))

OfficeSpec == Spec /\ OfficeFairness

Payable == employed # {} /\ \A u \in employed : ActiveContracts(u) # {}

\* "use user_id as a best-effort substitution": once everybody employed has a
\* contract and keeps it, every month gets a run.
EveryMonthIsPaid ==
  <>[]Payable => \A p \in Periods : <>(LiveRuns(p) # {})
=============================================================================
