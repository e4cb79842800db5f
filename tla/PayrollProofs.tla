--------------------------- MODULE PayrollProofs ---------------------------
(***************************************************************************)
(* Proofs about Payroll, for any number of requests in flight, users,      *)
(* teachers, months, contracts and runs.                                   *)
(***************************************************************************)
EXTENDS Payroll, TLAPS

\* What a request on a run remembers: the status it was allowed to change,
\* and that a run it wants to pay has been approved.
SeenOpen ==
  \A w \in Workers :
    /\ req[w].op = "approve" => req[w].seen = "draft"
    /\ req[w].op = "pay" => req[w].seen = "approved" /\ runs[req[w].run].approved
    /\ req[w].op = "cancel" => req[w].seen \notin Closed
    /\ req[w].op \in {"approve", "pay", "cancel"} => runs[req[w].run] # NoRow

\* A run that is approved now or was approved before it was paid says so.
ApprovedSaysSo ==
  \A r \in Runs : runs[r] # NoRow /\ runs[r].status \in {"approved", "paid"} => runs[r].approved

\* A contract that a request wants to update exists.
ContractKnown ==
  \A w \in Workers : req[w].op = "update_contract" => contracts[req[w].contract] # NoRow

\* The inductive invariant
Inv == TypeOK /\ SeenOpen /\ ApprovedSaysSo /\ ContractKnown

-----------------------------------------------------------------------------
\* The shape of a request is known from its op alone.
LEMMA RequestShape ==
  ASSUME NEW q \in Request
  PROVE  /\ q.op = "create_contract" => q.user \in Staff
         /\ q.op = "update_contract" => q.contract \in Contracts /\ q.seen \in ContractStatus
         /\ q.op = "run.staff" => q.period \in Periods
         /\ q.op = "run.contracts" =>
              q.period \in Periods /\ q.staff \in SUBSET Staff /\ q.todo \in SUBSET Staff
         /\ q.op \in {"approve", "pay", "cancel"} => q.run \in Runs /\ q.seen \in RunStatus
         /\ q.op = "create_payroll" => q.teacher \in Teachers /\ q.period \in Periods
  BY DEF Request, Idle

\* A request that is not being served now keeps what it remembers.
LEMMA ServeType ==
  ASSUME TypeOK, NEW w \in Workers, NEW q \in Request, Serve(w, q)
  PROVE  /\ req' \in [Workers -> Request]
         /\ req'[w] = q
         /\ \A v \in Workers \ {w} : req'[v] = req[v]
  BY DEF TypeOK, Serve

LEMMA FinishType ==
  ASSUME TypeOK, NEW w \in Workers, Finish(w)
  PROVE  /\ req' \in [Workers -> Request]
         /\ req'[w] = Idle
         /\ \A v \in Workers \ {w} : req'[v] = req[v]
<1>1. Idle \in Request
  BY DEF Request
<1>. QED  BY <1>1, ServeType DEF Finish

\* A request that ends, and runs as they were.
LEMMA FinishKeepsSeenOpen ==
  ASSUME Inv, NEW w \in Workers, Finish(w), UNCHANGED runs
  PROVE  req' \in [Workers -> Request] /\ SeenOpen' /\ ApprovedSaysSo'
<1>1. SeenOpen'
  BY FinishType DEF Inv, SeenOpen, Idle
<1>. QED  BY <1>1, FinishType DEF Inv, ApprovedSaysSo

\* A request that ends, when no contract is deleted.
LEMMA FinishKeepsContractKnown ==
  ASSUME Inv, NEW w \in Workers, Finish(w),
         \A c \in Contracts : contracts[c] # NoRow => contracts'[c] # NoRow
  PROVE  ContractKnown'
<1>1. ASSUME NEW v \in Workers, req'[v].op = "update_contract"
      PROVE  contracts'[req'[v].contract] # NoRow
  <2>1. v # w /\ req'[v] = req[v]
    BY <1>1, FinishType DEF Inv, Idle
  <2>2. req[v].contract \in Contracts
    BY <1>1, <2>1, RequestShape DEF Inv, TypeOK
  <2>. QED  BY <1>1, <2>1, <2>2 DEF Inv, ContractKnown
<1>. QED  BY <1>1 DEF ContractKnown

\* The steps that only change what a request remembers.
LEMMA ReadKeepsInv ==
  ASSUME Inv,
         NEW w \in Workers, NEW q \in Request, Serve(w, q),
         q.op = "approve" => q.seen = "draft",
         q.op = "pay" => q.seen = "approved" /\ runs[q.run].approved,
         q.op = "cancel" => q.seen \notin Closed,
         q.op \in {"approve", "pay", "cancel"} => runs[q.run] # NoRow,
         q.op = "update_contract" => contracts[q.contract] # NoRow,
         UNCHANGED <<employed, contracts, runs, records>>
  PROVE  Inv'
<1>1. TypeOK'
  BY ServeType DEF Inv, TypeOK
<1>2. SeenOpen'
  BY ServeType DEF Inv, SeenOpen
<1>3. ApprovedSaysSo'
  BY DEF Inv, ApprovedSaysSo
<1>4. ContractKnown'
  BY ServeType DEF Inv, ContractKnown
<1>. QED  BY <1>1, <1>2, <1>3, <1>4 DEF Inv

LEMMA NoRowIsNoRun == NoRow \notin Run
  BY DEF NoRow, Run, RunStatus

LEMMA NoRowIsNoContract == NoRow \notin Contract
  BY DEF NoRow, Contract, ContractStatus

\* What a commit that changes a run does to it.
LEMMA CommitRunKeepsInv ==
  ASSUME Inv, NEW w \in Workers, NEW op \in {"approve", "pay", "cancel"},
         NEW status \in RunStatus, NEW approved \in BOOLEAN,
         CommitRun(w, op, status, approved),
         status = "approved" => approved,
         status = "paid" => op = "pay"
  PROVE  Inv'
<1>. DEFINE r == req[w].run
            row == [runs[r] EXCEPT !.status = status, !.approved = @ \/ approved]
<1>1. r \in Runs
  BY RequestShape DEF Inv, TypeOK, CommitRun
<1>2. runs[r] \in Run
  BY <1>1 DEF Inv, TypeOK, SeenOpen, CommitRun
<1>3. runs' = [runs EXCEPT ![r] = row]
  BY DEF CommitRun
<1>4. /\ row \in Run
      /\ row.status = status
      /\ runs[r].approved => row.approved
      /\ approved => row.approved
  BY <1>2 DEF Run
<1>. HIDE DEF row
<1>5. runs' \in [Runs -> Run \cup {NoRow}]
  BY <1>1, <1>3, <1>4 DEF Inv, TypeOK
<1>6. /\ req' \in [Workers -> Request]
      /\ req'[w] = Idle
      /\ \A v \in Workers \ {w} : req'[v] = req[v]
  BY FinishType DEF Inv, CommitRun
<1>7. TypeOK'
  BY <1>5, <1>6 DEF Inv, TypeOK, CommitRun
<1>8. \A q \in Runs : /\ runs[q] # NoRow => runs'[q] # NoRow
                      /\ runs[q].approved => runs'[q].approved
  BY <1>1, <1>3, <1>4, NoRowIsNoRun DEF Inv, TypeOK
<1>9. SeenOpen'
  <2>1. ASSUME NEW v \in Workers, v # w
        PROVE  /\ req[v].op \in {"approve", "pay", "cancel"} => req[v].run \in Runs
               /\ req'[v] = req[v]
    BY <1>6, <2>1, RequestShape DEF Inv, TypeOK
  <2>. QED  BY <1>6, <1>8, <2>1 DEF Inv, SeenOpen, Idle
<1>10. ApprovedSaysSo'
  <2>1. status \in {"approved", "paid"} => row.approved
    BY <1>4 DEF Inv, SeenOpen, CommitRun
  <2>2. ASSUME NEW q \in Runs, runs'[q] # NoRow, runs'[q].status \in {"approved", "paid"}
        PROVE  runs'[q].approved
    <3>1. CASE q = r
      BY <1>1, <1>3, <1>4, <2>1, <2>2, <3>1 DEF Inv, TypeOK
    <3>2. CASE q # r
      BY <1>1, <1>3, <2>2, <3>2 DEF Inv, TypeOK, ApprovedSaysSo
    <3>. QED  BY <3>1, <3>2
  <2>. QED  BY <2>2 DEF ApprovedSaysSo
<1>11. ContractKnown'
  BY FinishKeepsContractKnown DEF CommitRun
<1>. QED  BY <1>7, <1>9, <1>10, <1>11 DEF Inv

LEMMA InitInv == Init => Inv
<1>. SUFFICES ASSUME Init PROVE Inv
  OBVIOUS
<1>1. TypeOK
  BY DEF Init, TypeOK, Request
<1>2. SeenOpen /\ ApprovedSaysSo /\ ContractKnown
  BY DEF Init, SeenOpen, ApprovedSaysSo, ContractKnown, Idle, NoRow
<1>. QED  BY <1>1, <1>2 DEF Inv

LEMMA NextInv == Inv /\ [Next]_vars => Inv'
<1>. SUFFICES ASSUME Inv, [Next]_vars PROVE Inv'
  OBVIOUS
<1>1. CASE StaffChanges
  BY <1>1 DEF StaffChanges, Inv, TypeOK, SeenOpen, ApprovedSaysSo, ContractKnown
<1>2. ASSUME NEW w \in Workers, NEW u \in Staff, CreateContractRead(w, u)
      PROVE  Inv'
  <2>1. [op |-> "create_contract", user |-> u] \in Request
    BY DEF Request
  <2>. QED  BY <1>2, <2>1, ReadKeepsInv DEF CreateContractRead
<1>3. ASSUME NEW w \in Workers, NEW c \in Contracts, UpdateContractRead(w, c)
      PROVE  Inv'
  <2>1. contracts[c].status \in ContractStatus
    BY <1>3 DEF UpdateContractRead, Inv, TypeOK, Contract
  <2>2. [op |-> "update_contract", contract |-> c, seen |-> contracts[c].status] \in Request
    BY <2>1 DEF Request
  <2>. QED  BY <1>3, <2>2, ReadKeepsInv DEF UpdateContractRead
<1>4. ASSUME NEW w \in Workers, NEW p \in Periods, CreateRunCheckPeriod(w, p)
      PROVE  Inv'
  <2>1. [op |-> "run.staff", period |-> p] \in Request
    BY DEF Request
  <2>. QED  BY <1>4, <2>1, ReadKeepsInv DEF CreateRunCheckPeriod
<1>5. ASSUME NEW w \in Workers, NEW r \in Runs, ApproveRead(w, r) \/ PayRead(w, r) \/ CancelRead(w, r)
      PROVE  Inv'
  <2>1. runs[r] # NoRow /\ runs[r].status \in RunStatus
    BY <1>5 DEF ApproveRead, PayRead, CancelRead, ReadRun, Inv, TypeOK, Run
  <2>2. ASSUME NEW op \in {"approve", "pay", "cancel"}
        PROVE  [op |-> op, run |-> r, seen |-> runs[r].status] \in Request
    BY <2>1 DEF Request
  <2>3. CASE ApproveRead(w, r)
    BY <2>1, <2>2, <2>3, ReadKeepsInv DEF ApproveRead, ReadRun
  <2>4. CASE PayRead(w, r)
    <3>1. runs[r].approved
      BY <2>1, <2>4 DEF PayRead, CanPay, Inv, ApprovedSaysSo
    <3>. QED  BY <2>1, <2>2, <2>4, <3>1, ReadKeepsInv DEF PayRead, ReadRun, CanPay
  <2>5. CASE CancelRead(w, r)
    BY <2>1, <2>2, <2>5, ReadKeepsInv DEF CancelRead, ReadRun, CanCancel, Closed
  <2>. QED  BY <1>5, <2>3, <2>4, <2>5
<1>6. ASSUME NEW w \in Workers, NEW t \in Teachers, NEW p \in Periods, CreatePayrollRead(w, t, p)
      PROVE  Inv'
  <2>1. [op |-> "create_payroll", teacher |-> t, period |-> p] \in Request
    BY DEF Request
  <2>. QED  BY <1>6, <2>1, ReadKeepsInv DEF CreatePayrollRead
<1>7. ASSUME NEW w \in Workers, NEW c \in Contracts, CreateContractCommit(w, c)
      PROVE  Inv'
  <2>1. req[w].user \in Staff
    BY <1>7, RequestShape DEF CreateContractCommit, Inv, TypeOK
  <2>2. PICK status \in ContractStatus :
          contracts' = [contracts EXCEPT ![c] = [user |-> req[w].user, status |-> status]]
    BY <1>7 DEF CreateContractCommit, Settable
  <2>3. [user |-> req[w].user, status |-> status] \in Contract
    BY <2>1 DEF Contract
  <2>4. contracts' \in [Contracts -> Contract \cup {NoRow}]
    BY <2>2, <2>3 DEF Inv, TypeOK
  <2>5. \A d \in Contracts : contracts[d] # NoRow => contracts'[d] # NoRow
    BY <2>2, <2>3, NoRowIsNoContract DEF Inv, TypeOK
  <2>6. req' \in [Workers -> Request] /\ SeenOpen' /\ ApprovedSaysSo' /\ ContractKnown'
    BY <1>7, <2>5, FinishKeepsSeenOpen, FinishKeepsContractKnown DEF CreateContractCommit
  <2>. QED  BY <1>7, <2>4, <2>6 DEF CreateContractCommit, Inv, TypeOK
<1>8. ASSUME NEW w \in Workers, UpdateContractCommit(w)
      PROVE  Inv'
  <2>. DEFINE c == req[w].contract
  <2>1. c \in Contracts /\ contracts[c] \in Contract
    BY <1>8, RequestShape DEF UpdateContractCommit, Inv, TypeOK, ContractKnown
  <2>2. PICK status \in ContractStatus :
          contracts' =
            [contracts EXCEPT ![c] = [contracts[c] EXCEPT !.status = Write(req[w].seen, status, @)]]
    BY <1>8 DEF UpdateContractCommit, Settable
  <2>3. [contracts[c] EXCEPT !.status = Write(req[w].seen, status, @)] \in Contract
    BY <2>1 DEF Contract, Write
  <2>4. contracts' \in [Contracts -> Contract \cup {NoRow}]
    BY <2>1, <2>2, <2>3 DEF Inv, TypeOK
  <2>5. \A d \in Contracts : contracts[d] # NoRow => contracts'[d] # NoRow
    BY <2>1, <2>2, <2>3, NoRowIsNoContract DEF Inv, TypeOK
  <2>6. req' \in [Workers -> Request] /\ SeenOpen' /\ ApprovedSaysSo' /\ ContractKnown'
    BY <1>8, <2>5, FinishKeepsSeenOpen, FinishKeepsContractKnown DEF UpdateContractCommit
  <2>. QED  BY <1>8, <2>4, <2>6 DEF UpdateContractCommit, Inv, TypeOK
<1>9. ASSUME NEW w \in Workers, CreateRunReadStaff(w)
      PROVE  Inv'
  <2>1. [op |-> "run.contracts", period |-> req[w].period, staff |-> employed,
         todo |-> employed] \in Request
    BY <1>9, RequestShape DEF CreateRunReadStaff, Inv, TypeOK, Request
  <2>. QED  BY <1>9, <2>1, ReadKeepsInv DEF CreateRunReadStaff
<1>10. ASSUME NEW w \in Workers, NEW u \in Staff, CreateRunReadContract(w, u)
       PROVE  Inv'
  <2>1. req[w] \in [op : {"run.contracts"}, period : Periods, staff : SUBSET Staff,
                    todo : SUBSET Staff]
    BY <1>10 DEF CreateRunReadContract, Inv, TypeOK, Request, Idle
  <2>2. /\ [req[w] EXCEPT !.todo = @ \ {u}] \in Request
        /\ [req[w] EXCEPT !.todo = @ \ {u}].op = "run.contracts"
    BY <2>1 DEF Request
  <2>. QED  BY <1>10, <2>2, ReadKeepsInv DEF CreateRunReadContract
<1>11. ASSUME NEW w \in Workers, NEW r \in Runs, CreateRunCommit(w, r)
       PROVE  Inv'
  <2>. DEFINE p == req[w].period
              row == [period |-> p, status |-> "draft", approved |-> FALSE]
  <2>1. p \in Periods /\ row \in Run
    BY <1>11, RequestShape DEF CreateRunCommit, Inv, TypeOK, Run, RunStatus
  <2>2. runs' = [runs EXCEPT ![r] = row] /\ runs[r] = NoRow
    BY <1>11 DEF CreateRunCommit
  <2>3. runs' \in [Runs -> Run \cup {NoRow}]
    BY <2>1, <2>2 DEF Inv, TypeOK
  <2>4. records' \in [Teachers -> [Periods -> Nat]]
    BY <1>11, <2>1 DEF CreateRunCommit, Inv, TypeOK
  <2>5. /\ req' \in [Workers -> Request]
        /\ req'[w] = Idle
        /\ \A v \in Workers \ {w} : req'[v] = req[v]
    BY <1>11, FinishType DEF Inv, CreateRunCommit
  <2>6. SeenOpen'
    <3>1. ASSUME NEW v \in Workers, v # w, req[v].op \in {"approve", "pay", "cancel"}
          PROVE  runs'[req[v].run] = runs[req[v].run]
      BY <2>2, <3>1, RequestShape DEF Inv, TypeOK, SeenOpen
    <3>. QED  BY <2>5, <3>1 DEF Inv, SeenOpen, Idle
  <2>7. ApprovedSaysSo'
    BY <2>2, <2>3 DEF Inv, TypeOK, ApprovedSaysSo
  <2>8. ContractKnown'
    BY <1>11, FinishKeepsContractKnown DEF CreateRunCommit
  <2>. QED  BY <1>11, <2>3, <2>4, <2>5, <2>6, <2>7, <2>8 DEF CreateRunCommit, Inv, TypeOK
<1>12. ASSUME NEW w \in Workers, ApproveCommit(w) \/ PayCommit(w) \/ CancelCommit(w)
       PROVE  Inv'
  BY <1>12, CommitRunKeepsInv DEF ApproveCommit, PayCommit, CancelCommit, RunStatus
<1>13. ASSUME NEW w \in Workers, CreatePayrollCommit(w)
       PROVE  Inv'
  <2>1. req[w].teacher \in Teachers /\ req[w].period \in Periods
    BY <1>13, RequestShape DEF CreatePayrollCommit, Inv, TypeOK
  <2>2. records' \in [Teachers -> [Periods -> Nat]]
    BY <1>13, <2>1 DEF CreatePayrollCommit, Inv, TypeOK
  <2>3. req' \in [Workers -> Request] /\ SeenOpen' /\ ApprovedSaysSo' /\ ContractKnown'
    BY <1>13, FinishKeepsSeenOpen, FinishKeepsContractKnown DEF CreatePayrollCommit
  <2>. QED  BY <1>13, <2>2, <2>3 DEF CreatePayrollCommit, Inv, TypeOK
<1>14. ASSUME NEW w \in Workers, Abort(w)
       PROVE  Inv'
  BY <1>14, FinishKeepsSeenOpen, FinishKeepsContractKnown DEF Abort, Inv, TypeOK
<1>15. CASE UNCHANGED vars
  BY <1>15 DEF vars, Inv, TypeOK, SeenOpen, ApprovedSaysSo, ContractKnown
<1>. QED  BY <1>1, <1>2, <1>3, <1>4, <1>5, <1>6, <1>7, <1>8, <1>9, <1>10, <1>11, <1>12,
             <1>13, <1>14, <1>15 DEF Next, RequestStep

\* What the other theorems rest on.
LEMMA InvHolds == Spec => []Inv
  BY InitInv, NextInv, PTL DEF Spec

\* The tables and the requests always have their declared types. Fails if a
\* contract could be given a status that is not one.
THEOREM TypeCorrect == Spec => []TypeOK
<1>1. Inv => TypeOK
  BY DEF Inv
<1>. QED  BY <1>1, InvHolds, PTL

\* A run that is paid was approved, whatever requests overlapped.
THEOREM PaidWasApprovedHolds == Spec => []PaidWasApproved
<1>1. Inv => PaidWasApproved
  BY DEF Inv, ApprovedSaysSo, PaidWasApproved
<1>. QED  BY <1>1, InvHolds, PTL

-----------------------------------------------------------------------------
(* What the partial unique indexes give *)

\* One row of a table of contracts is written, and the index lets it be.
LEMMA ContractRowKeepsOne ==
  ASSUME TypeOK, OneActiveContract, NEW c \in Contracts, NEW row \in Contract,
         ActiveContractIndexAllows(c, row),
         contracts' = [contracts EXCEPT ![c] = row]
  PROVE  OneActiveContract'
<1>1. ASSUME NEW u \in Staff,
             NEW d \in Contracts, contracts'[d] = [user |-> u, status |-> "active"],
             NEW e \in Contracts, contracts'[e] = [user |-> u, status |-> "active"]
      PROVE  d = e
  <2>1. ASSUME NEW f \in Contracts, contracts'[f] = [user |-> u, status |-> "active"], f # c
        PROVE  f \in ActiveContracts(u)
    BY <2>1 DEF TypeOK, ActiveContracts
  <2>2. CASE d = c \/ e = c
    <3>1. row.user = u /\ row.status = "active"
      BY <1>1, <2>2 DEF TypeOK
    <3>2. ActiveContracts(u) \subseteq {c}
      BY <3>1 DEF ActiveContractIndexAllows
    <3>. QED  BY <1>1, <2>1, <2>2, <3>2
  <2>3. CASE d # c /\ e # c
    BY <1>1, <2>1, <2>3 DEF OneActiveContract
  <2>. QED  BY <2>2, <2>3
<1>. QED  BY <1>1 DEF OneActiveContract, ActiveContracts

\* "A single active contract per user", for any requests that overlap. Fails
\* if the index did not see updates, which can make a contract active again.
THEOREM OneActiveContractHolds == Spec => []OneActiveContract
<1>1. Init => OneActiveContract
  BY DEF Init, OneActiveContract, ActiveContracts, NoRow
<1>2. Inv /\ OneActiveContract /\ [Next]_vars => OneActiveContract'
  <2>. SUFFICES ASSUME Inv, OneActiveContract, [Next]_vars PROVE OneActiveContract'
    OBVIOUS
  <2>1. ASSUME NEW w \in Workers, NEW c \in Contracts, CreateContractCommit(w, c)
        PROVE  OneActiveContract'
    <3>1. req[w].user \in Staff
      BY <2>1, RequestShape DEF CreateContractCommit, Inv, TypeOK
    <3>2. PICK status \in ContractStatus :
            LET row == [user |-> req[w].user, status |-> status]
            IN  /\ ActiveContractIndexAllows(c, row)
                /\ contracts' = [contracts EXCEPT ![c] = row]
      BY <2>1 DEF CreateContractCommit, Settable
    <3>3. [user |-> req[w].user, status |-> status] \in Contract
      BY <3>1 DEF Contract
    <3>. QED  BY <3>2, <3>3, ContractRowKeepsOne DEF Inv
  <2>2. ASSUME NEW w \in Workers, UpdateContractCommit(w)
        PROVE  OneActiveContract'
    <3>. DEFINE c == req[w].contract
    <3>1. c \in Contracts /\ contracts[c] \in Contract
      BY <2>2, RequestShape DEF UpdateContractCommit, Inv, TypeOK, ContractKnown
    <3>2. PICK status \in ContractStatus :
            LET row == [contracts[c] EXCEPT !.status = Write(req[w].seen, status, @)]
            IN  /\ ActiveContractIndexAllows(c, row)
                /\ contracts' = [contracts EXCEPT ![c] = row]
      BY <2>2 DEF UpdateContractCommit, Settable
    <3>3. [contracts[c] EXCEPT !.status = Write(req[w].seen, status, @)] \in Contract
      BY <3>1 DEF Contract, Write
    <3>. QED  BY <3>1, <3>2, <3>3, ContractRowKeepsOne DEF Inv
  <2>3. CASE UNCHANGED contracts
    BY <2>3 DEF OneActiveContract, ActiveContracts
  <2>. QED
    BY <2>1, <2>2, <2>3
    DEF Next, RequestStep, vars, StaffChanges, CreateContractRead, UpdateContractRead,
        CreateRunCheckPeriod, CreateRunReadStaff, CreateRunReadContract, CreateRunCommit,
        ReadRun, ApproveRead, PayRead, CancelRead, CommitRun, ApproveCommit, PayCommit,
        CancelCommit, CreatePayrollRead, CreatePayrollCommit, Abort
<1>. QED  BY <1>1, <1>2, InvHolds, PTL DEF Spec

\* One row of the table of runs is written, and the index lets it be.
LEMMA RunRowKeepsOne ==
  ASSUME TypeOK, OneLiveRun, NEW r \in Runs, NEW row \in Run, LiveRunIndexAllows(r, row),
         runs' = [runs EXCEPT ![r] = row]
  PROVE  OneLiveRun'
<1>1. ASSUME NEW p \in Periods, NEW q \in LiveRuns(p)', NEW s \in LiveRuns(p)'
      PROVE  q = s
  <2>1. ASSUME NEW x \in LiveRuns(p)', x # r
        PROVE  x \in LiveRuns(p)
    BY <2>1 DEF TypeOK, LiveRuns
  <2>2. CASE q = r \/ s = r
    <3>1. row.period = p /\ row.status # "cancelled"
      BY <1>1, <2>2 DEF TypeOK, LiveRuns
    <3>2. LiveRuns(p) \subseteq {r}
      BY <3>1 DEF LiveRunIndexAllows
    <3>. QED  BY <1>1, <2>1, <2>2, <3>2
  <2>3. CASE q # r /\ s # r
    BY <1>1, <2>1, <2>3 DEF OneLiveRun
  <2>. QED  BY <2>2, <2>3
<1>. QED  BY <1>1 DEF OneLiveRun

\* The steps that write a row of payroll_runs.
LEMMA RunStep ==
  ASSUME Inv, [Next]_vars
  PROVE  \/ UNCHANGED runs
         \/ \E r \in Runs :
              /\ runs[r] = NoRow
              /\ \E row \in Run :
                   LiveRunIndexAllows(r, row) /\ runs' = [runs EXCEPT ![r] = row]
         \/ \E w \in Workers, op \in {"approve", "pay", "cancel"}, status \in RunStatus,
               approved \in BOOLEAN : CommitRun(w, op, status, approved)
<1>1. ASSUME NEW w \in Workers, NEW r \in Runs, CreateRunCommit(w, r)
      PROVE  /\ runs[r] = NoRow
             /\ \E row \in Run :
                  LiveRunIndexAllows(r, row) /\ runs' = [runs EXCEPT ![r] = row]
  <2>1. [period |-> req[w].period, status |-> "draft", approved |-> FALSE] \in Run
    BY <1>1, RequestShape DEF CreateRunCommit, Inv, TypeOK, Run, RunStatus
  <2>. QED  BY <1>1, <2>1 DEF CreateRunCommit
<1>2. ASSUME NEW w \in Workers, ApproveCommit(w) \/ PayCommit(w) \/ CancelCommit(w)
      PROVE  \E op \in {"approve", "pay", "cancel"}, status \in RunStatus,
                approved \in BOOLEAN : CommitRun(w, op, status, approved)
  BY <1>2 DEF ApproveCommit, PayCommit, CancelCommit, RunStatus
<1>3. \/ UNCHANGED runs
      \/ \E w \in Workers, r \in Runs : CreateRunCommit(w, r)
      \/ \E w \in Workers : ApproveCommit(w) \/ PayCommit(w) \/ CancelCommit(w)
  BY DEF Next, RequestStep, vars, StaffChanges, CreateContractRead, UpdateContractRead,
      CreateContractCommit, UpdateContractCommit, CreateRunCheckPeriod, CreateRunReadStaff,
      CreateRunReadContract, ReadRun, ApproveRead, PayRead, CancelRead, CreatePayrollRead,
      CreatePayrollCommit, Abort
<1>. QED  BY <1>1, <1>2, <1>3

\* A request that changes a run changes one that exists, to another row.
LEMMA CommitRunRow ==
  ASSUME Inv, NEW w \in Workers, NEW op \in {"approve", "pay", "cancel"},
         NEW status \in RunStatus, NEW approved \in BOOLEAN,
         CommitRun(w, op, status, approved)
  PROVE  /\ req[w].op = op /\ req[w].run \in Runs
         /\ \E row \in Run : /\ LiveRunIndexAllows(req[w].run, row)
                             /\ runs' = [runs EXCEPT ![req[w].run] = row]
<1>1. req[w].op = op /\ req[w].run \in Runs
  BY RequestShape DEF Inv, TypeOK, CommitRun
<1>2. runs[req[w].run] \in Run
  BY <1>1 DEF Inv, TypeOK, SeenOpen
<1>3. [runs[req[w].run] EXCEPT !.status = status, !.approved = @ \/ approved] \in Run
  BY <1>2 DEF Run
<1>. QED  BY <1>1, <1>3 DEF CommitRun

\* A month has one run that is not cancelled, for any requests that overlap.
\* Fails if the index did not see a late approval revive a cancelled run.
THEOREM OneLiveRunHolds == Spec => []OneLiveRun
<1>1. Init => OneLiveRun
  BY DEF Init, OneLiveRun, LiveRuns
<1>2. Inv /\ OneLiveRun /\ [Next]_vars => OneLiveRun'
  <2>. SUFFICES ASSUME Inv, OneLiveRun, [Next]_vars PROVE OneLiveRun'
    OBVIOUS
  <2>1. CASE UNCHANGED runs
    BY <2>1 DEF OneLiveRun, LiveRuns
  <2>2. CASE \E r \in Runs : \E row \in Run :
               LiveRunIndexAllows(r, row) /\ runs' = [runs EXCEPT ![r] = row]
    BY <2>2, RunRowKeepsOne DEF Inv
  <2>3. CASE \E w \in Workers, op \in {"approve", "pay", "cancel"}, status \in RunStatus,
                approved \in BOOLEAN : CommitRun(w, op, status, approved)
    BY <2>2, <2>3, CommitRunRow
  <2>. QED  BY <2>1, <2>2, <2>3, RunStep
<1>. QED  BY <1>1, <1>2, InvHolds, PTL DEF Spec

\* A teacher has one record for a month, whether finance wrote it by hand or
\* a run did. Fails without the unique index.
THEOREM OneRecordPerPeriodHolds == Spec => []OneRecordPerPeriod
<1>1. Init => OneRecordPerPeriod
  BY DEF Init, OneRecordPerPeriod
<1>2. Inv /\ OneRecordPerPeriod /\ [Next]_vars => OneRecordPerPeriod'
  <2>. SUFFICES ASSUME Inv, OneRecordPerPeriod, [Next]_vars PROVE OneRecordPerPeriod'
    OBVIOUS
  <2>1. ASSUME NEW w \in Workers, NEW r \in Runs, CreateRunCommit(w, r)
        PROVE  OneRecordPerPeriod'
    <3>1. \A t \in Teachers : t \in req[w].staff => records[t][req[w].period] = 0
      BY <2>1 DEF CreateRunCommit, RecordFits
    <3>2. req[w].period \in Periods
      BY <2>1, RequestShape DEF CreateRunCommit, Inv, TypeOK
    <3>. QED  BY <2>1, <3>1, <3>2 DEF CreateRunCommit, Inv, TypeOK, OneRecordPerPeriod
  <2>2. ASSUME NEW w \in Workers, CreatePayrollCommit(w)
        PROVE  OneRecordPerPeriod'
    <3>1. req[w].teacher \in Teachers /\ req[w].period \in Periods
      BY <2>2, RequestShape DEF CreatePayrollCommit, Inv, TypeOK
    <3>. QED
      BY <2>2, <3>1
      DEF CreatePayrollCommit, TeacherPeriodIndexAllows, Inv, TypeOK, OneRecordPerPeriod
  <2>3. CASE UNCHANGED records
    BY <2>3 DEF OneRecordPerPeriod
  <2>. QED
    BY <2>1, <2>2, <2>3
    DEF Next, RequestStep, vars, StaffChanges, CreateContractRead, UpdateContractRead,
        CreateContractCommit, UpdateContractCommit, CreateRunCheckPeriod, CreateRunReadStaff,
        CreateRunReadContract, ReadRun, ApproveRead, PayRead, CancelRead, CommitRun,
        ApproveCommit, PayCommit, CancelCommit, CreatePayrollRead, Abort
<1>. QED  BY <1>1, <1>2, InvHolds, PTL DEF Spec

\* A paid or cancelled run changes only at the commit of a request that read
\* another status than the run has now: a request that reads it as it is never
\* gets that far.
THEOREM ClosedRunsChange == Spec => ClosedRunsChangeOnlyByStaleReads
<1>. DEFINE Stale(w, r) == /\ req[w].op \in {"approve", "pay", "cancel"} /\ req[w].run = r
                           /\ req[w].seen # runs[r].status
                           /\ req'[w] = Idle
<1>1. ASSUME Inv, [Next]_vars, NEW r \in Runs, runs[r].status \in Closed, runs'[r] # runs[r]
      PROVE  \E w \in Workers : Stale(w, r)
  <2>1. runs[r] # NoRow
    BY <1>1 DEF NoRow, Closed
  <2>2. PICK w \in Workers, op \in {"approve", "pay", "cancel"}, status \in RunStatus,
             approved \in BOOLEAN : CommitRun(w, op, status, approved)
    BY <1>1, <2>1, RunStep DEF Inv, TypeOK
  <2>3. req[w].op = op /\ req[w].run = r
    BY <1>1, <2>2, CommitRunRow DEF Inv, TypeOK
  <2>4. req[w].seen \notin Closed
    BY <1>1, <2>3 DEF Inv, SeenOpen, Closed
  <2>5. req'[w] = Idle
    BY <1>1, <2>2, FinishType DEF Inv, CommitRun
  <2>6. Stale(w, r)
    BY <1>1, <2>3, <2>4, <2>5
  <2>. QED  BY <2>6
<1>2. Inv /\ [Next]_vars =>
        [\A r \in Runs : runs[r].status \in Closed /\ runs'[r] # runs[r] =>
           \E w \in Workers : /\ req[w].op \in {"approve", "pay", "cancel"} /\ req[w].run = r
                              /\ req[w].seen # runs[r].status
                              /\ req'[w] = Idle]_vars
  BY <1>1
<1>. QED  BY <1>2, InvHolds, PTL DEF Spec, ClosedRunsChangeOnlyByStaleReads
=============================================================================
