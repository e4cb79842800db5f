---------------------------- MODULE InvoicesProofs ----------------------------
(***************************************************************************)
(* Proofs about Invoices and the revenue report, for any number of         *)
(* requests in flight, any finite set of invoices and any amounts.         *)
(***************************************************************************)
EXTENDS RevenueReport, FiniteSetTheorems, WellFoundedInduction, TLAPS

\* The numbers handed out to requests in flight never lie beyond the next one.
HandedOut ==
  \A w \in Workers :
    req[w].op = "create" => req[w].number \in 1 .. Cardinality(Existing) + 1

NumberInv == TypeOK /\ HandedOut /\ NumbersAreGapless

\* What a transaction remembers of an invoice that its commit writes to: none
\* of them saw it paid.
NobodySawPaid ==
  /\ \A w \in Workers :
       req[w].op \in {"send", "pay.payments", "pay.commit"} => req[w].seen # "paid"
  /\ \A i \in Invoices : task # Idle /\ i \in DOMAIN task.seen => task.seen[i] # "paid"

-----------------------------------------------------------------------------
\* The shape of a request is known from its op alone.
LEMMA RequestShape ==
  ASSUME NEW q \in Request
  PROVE  /\ q.op = "create" => q.number \in Nat
         /\ q.op \in {"send", "pay.payments", "pay.commit"} =>
              q.invoice \in Invoices /\ q.seen \in InvoiceStatus
  BY DEF Request, Idle

LEMMA TaskShape ==
  ASSUME NEW q \in {Idle} \cup TaskRun, q # Idle
  PROVE  q.op = "overdue" /\ DOMAIN q.seen \subseteq Invoices
  BY DEF TaskRun

LEMMA ExistingIsFinite ==
  IsFiniteSet(Existing) /\ Cardinality(Existing) \in Nat
BY InvoicesAssumption, FS_Subset, FS_CardinalityType DEF Existing

-----------------------------------------------------------------------------
(* Types *)

LEMMA InitType == Init => TypeOK
BY DEF Init, TypeOK, InvoiceStatus, Request

\* A step that only begins, advances or ends a request.
LEMMA ServeKeepsType ==
  ASSUME TypeOK, NEW w \in Workers, NEW q \in Request, Serve(w, q)
  PROVE  req' \in [Workers -> Request]
  BY DEF TypeOK, Serve

LEMMA FinishKeepsType ==
  ASSUME TypeOK, NEW w \in Workers, Finish(w)
  PROVE  req' \in [Workers -> Request]
<1>1. Idle \in Request
  BY DEF Request
<1>. QED  BY <1>1, ServeKeepsType DEF Finish

LEMMA NextType == TypeOK /\ [Next]_vars => TypeOK'
<1>. SUFFICES ASSUME TypeOK, [Next]_vars PROVE TypeOK'
  OBVIOUS
<1>1. ASSUME NEW w \in Workers, CreateReadCount(w) PROVE TypeOK'
  <2>1. NextInvoiceNumber \in Nat
    BY ExistingIsFinite DEF NextInvoiceNumber
  <2>2. [op |-> "create", number |-> NextInvoiceNumber] \in Request
    BY <2>1 DEF Request
  <2>. QED
    BY <1>1, <2>2, ServeKeepsType DEF CreateReadCount, TypeOK, invoiceVars, paymentVars
<1>2. ASSUME NEW w \in Workers, NEW i \in Invoices, CreateCommit(w, i) PROVE TypeOK'
  <2>1. req[w].number \in Nat
    BY <1>2, RequestShape DEF TypeOK, CreateCommit
  <2>. QED
    BY <1>2, <2>1, FinishKeepsType DEF CreateCommit, TypeOK, paymentVars
<1>3. ASSUME NEW w \in Workers, NEW i \in Invoices, SendRead(w, i) PROVE TypeOK'
  <2>1. [op |-> "send", invoice |-> i, seen |-> status[i]] \in Request
    BY DEF Request, TypeOK
  <2>. QED
    BY <1>3, <2>1, ServeKeepsType DEF SendRead, TypeOK, invoiceVars, paymentVars
<1>4. ASSUME NEW w \in Workers, SendCommit(w) PROVE TypeOK'
  BY <1>4, FinishKeepsType DEF SendCommit, TypeOK, InvoiceStatus, paymentVars
<1>5. ASSUME NEW w \in Workers, NEW i \in Invoices, PayReadInvoice(w, i) PROVE TypeOK'
  <2>1. [op |-> "pay.payments", invoice |-> i, seen |-> status[i]] \in Request
    BY DEF Request, TypeOK
  <2>. QED
    BY <1>5, <2>1, ServeKeepsType DEF PayReadInvoice, TypeOK, invoiceVars, paymentVars
<1>6. ASSUME NEW w \in Workers, PayReadPayments(w) PROVE TypeOK'
  <2>1. req[w].invoice \in Invoices /\ req[w].seen \in InvoiceStatus
    BY <1>6, RequestShape DEF PayReadPayments, TypeOK
  <2>2. [op |-> "pay.commit", invoice |-> req[w].invoice, seen |-> req[w].seen] \in Request
    BY <2>1 DEF Request
  <2>. QED
    BY <1>6, <2>2, ServeKeepsType DEF PayReadPayments, TypeOK, invoiceVars, paymentVars
<1>7. ASSUME NEW w \in Workers, NEW amount \in Amounts, PayCommit(w, amount) PROVE TypeOK'
  <2>1. req[w].invoice \in Invoices /\ amount \in Nat
    BY <1>7, RequestShape, MoneyAssumption DEF PayCommit, TypeOK
  <2>2. payments' \in [Invoices -> Nat] /\ received' \in [Invoices -> Nat]
    BY <1>7, <2>1 DEF PayCommit, TypeOK
  <2>3. status' \in [Invoices -> InvoiceStatus]
    BY <1>7, <2>1 DEF PayCommit, TypeOK, InvoiceStatus
  <2>. QED
    BY <1>7, <2>2, <2>3, FinishKeepsType DEF PayCommit, TypeOK
<1>8. ASSUME NEW i \in Invoices, DueDatePasses(i) PROVE TypeOK'
  BY <1>8 DEF DueDatePasses, TypeOK, paymentVars
<1>9. ASSUME TaskRead PROVE TypeOK'
  <2>. DEFINE seen == [i \in Overdue |-> status[i]]
  <2>1. Overdue \in SUBSET Invoices /\ seen \in [Overdue -> InvoiceStatus]
    BY DEF Overdue, Existing, TypeOK
  <2>2. [op |-> "overdue", seen |-> seen] \in TaskRun
    BY <2>1 DEF TaskRun
  <2>. QED
    BY <1>9, <2>2 DEF TaskRead, TypeOK, invoiceVars, paymentVars
<1>10. ASSUME TaskCommit PROVE TypeOK'
  BY <1>10 DEF TaskCommit, TypeOK, InvoiceStatus, paymentVars
<1>11. ASSUME TaskAbort PROVE TypeOK'
  BY <1>11 DEF TaskAbort, TypeOK, invoiceVars, paymentVars
<1>12. ASSUME NEW w \in Workers, Abort(w) PROVE TypeOK'
  BY <1>12, FinishKeepsType DEF Abort, TypeOK, invoiceVars, paymentVars
<1>13. CASE UNCHANGED vars
  BY <1>13 DEF vars, invoiceVars, paymentVars, TypeOK
<1>. QED
  BY <1>1, <1>2, <1>3, <1>4, <1>5, <1>6, <1>7, <1>8, <1>9, <1>10, <1>11, <1>12, <1>13
  DEF Next

\* However requests and the task overlap, the tables keep their types.
THEOREM TypeCorrect == Spec => []TypeOK
BY InitType, NextType, PTL DEF Spec

-----------------------------------------------------------------------------
(* Invoice numbers *)

LEMMA InitNumberInv == Init => NumberInv
<1>. SUFFICES ASSUME Init PROVE NumberInv
  OBVIOUS
<1>1. TypeOK
  BY InitType
<1>2. HandedOut
  BY DEF Init, HandedOut, Idle
<1>3. Existing = {} /\ Cardinality(Existing) = 0
  <2>1. Existing = {}
    BY DEF Init, Existing
  <2>. QED  BY <2>1, FS_EmptySet
<1>4. NumbersAreGapless
  BY <1>3 DEF NumbersAreGapless
<1>. QED  BY <1>1, <1>2, <1>4 DEF NumberInv

\* An insert takes exactly the next number: the index refuses every number
\* that is taken, and none beyond the next was handed out.
LEMMA CreateKeepsNumberInv ==
  ASSUME NumberInv, NEW w \in Workers, NEW i \in Invoices, CreateCommit(w, i)
  PROVE  HandedOut' /\ NumbersAreGapless'
<1>. USE DEF NumberInv
<1>. DEFINE c == Cardinality(Existing)
<1>. HIDE DEF c
<1>0. c \in Nat /\ IsFiniteSet(Existing)
  BY ExistingIsFinite DEF c
<1>1. req[w].number \in 1 .. c + 1
  BY <1>0 DEF c, HandedOut, CreateCommit
<1>2. \A n \in 1 .. c : \E j \in Invoices : number[j] = n
  BY DEF NumbersAreGapless, c, Existing
<1>3. req[w].number = c + 1
  BY <1>0, <1>1, <1>2 DEF CreateCommit, NumberIndexAllows
<1>4. number' = [number EXCEPT ![i] = c + 1] /\ number[i] = 0
  BY <1>3 DEF CreateCommit
<1>5. Existing' = Existing \cup {i} /\ i \notin Existing
  BY <1>0, <1>4 DEF Existing, TypeOK
<1>6. Cardinality(Existing') = c + 1
  BY <1>0, <1>5, FS_AddElement DEF c
<1>7. HandedOut'
  <2>1. ASSUME NEW v \in Workers, req'[v].op = "create"
        PROVE  req'[v].number \in 1 .. Cardinality(Existing') + 1
    <3>1. v # w /\ req'[v] = req[v]
      BY <2>1 DEF CreateCommit, Finish, Serve, TypeOK, Idle
    <3>2. req[v].number \in 1 .. c + 1
      BY <2>1, <3>1 DEF HandedOut, c
    <3>. QED  BY <1>0, <1>6, <3>1, <3>2
  <2>. QED  BY <2>1 DEF HandedOut
<1>8. \A j \in Existing : number[j] \in 1 .. c /\ number'[j] = number[j]
  BY <1>4, <1>5 DEF NumbersAreGapless, c, Existing, TypeOK
<1>9. number'[i] = c + 1
  BY <1>4 DEF TypeOK
<1>10. \A j, k \in Existing' : number'[j] = number'[k] => j = k
  BY <1>0, <1>5, <1>8, <1>9 DEF NumbersAreGapless
<1>11. {number'[j] : j \in Existing'} = 1 .. Cardinality(Existing')
  <2>1. {number[j] : j \in Existing} = 1 .. c
    BY DEF NumbersAreGapless, c
  <2>2. {number'[j] : j \in Existing'} = (1 .. c) \cup {c + 1}
    BY <1>5, <1>8, <1>9, <2>1
  <2>. QED  BY <1>0, <1>6, <2>2
<1>. QED  BY <1>7, <1>10, <1>11 DEF NumbersAreGapless

LEMMA NextNumberInv == NumberInv /\ [Next]_vars => NumberInv'
<1>. SUFFICES ASSUME NumberInv, [Next]_vars PROVE NumberInv'
  OBVIOUS
<1>. USE DEF NumberInv
<1>1. TypeOK'
  BY NextType
<1>2. ASSUME NEW w \in Workers, NEW i \in Invoices, CreateCommit(w, i)
      PROVE  HandedOut' /\ NumbersAreGapless'
  BY <1>2, CreateKeepsNumberInv
<1>3. ASSUME NEW w \in Workers, CreateReadCount(w)
      PROVE  HandedOut' /\ NumbersAreGapless'
  <2>1. number' = number /\ Existing' = Existing
    BY <1>3 DEF CreateReadCount, invoiceVars, Existing
  <2>2. req'[w].number = Cardinality(Existing) + 1
    BY <1>3 DEF CreateReadCount, Serve, NextInvoiceNumber, TypeOK
  <2>3. \A v \in Workers \ {w} : req'[v] = req[v]
    BY <1>3 DEF CreateReadCount, Serve, TypeOK
  <2>4. Cardinality(Existing) + 1 \in 1 .. Cardinality(Existing) + 1
    BY ExistingIsFinite
  <2>. QED  BY <2>1, <2>2, <2>3, <2>4 DEF HandedOut, NumbersAreGapless
<1>4. ASSUME number' = number,
             \A w \in Workers : req'[w].op = "create" => req'[w] = req[w]
      PROVE  HandedOut' /\ NumbersAreGapless'
  BY <1>4 DEF HandedOut, NumbersAreGapless, Existing
<1>5. ASSUME NEW w \in Workers, NEW q, q.op # "create", Serve(w, q)
      PROVE  \A v \in Workers : req'[v].op = "create" => req'[v] = req[v]
  BY <1>5 DEF Serve, TypeOK
<1>6. ASSUME NEW w \in Workers, Finish(w)
      PROVE  \A v \in Workers : req'[v].op = "create" => req'[v] = req[v]
  BY <1>5, <1>6 DEF Finish, Idle
<1>7. ASSUME NEW w \in Workers, NEW i \in Invoices, SendRead(w, i) \/ PayReadInvoice(w, i)
      PROVE  HandedOut' /\ NumbersAreGapless'
  BY <1>4, <1>5, <1>7 DEF SendRead, PayReadInvoice, invoiceVars
<1>8. ASSUME NEW w \in Workers, PayReadPayments(w)
      PROVE  HandedOut' /\ NumbersAreGapless'
  BY <1>4, <1>5, <1>8 DEF PayReadPayments, invoiceVars
<1>9. ASSUME NEW w \in Workers,
             SendCommit(w) \/ (\E amount \in Amounts : PayCommit(w, amount)) \/ Abort(w)
      PROVE  HandedOut' /\ NumbersAreGapless'
  BY <1>4, <1>6, <1>9 DEF SendCommit, PayCommit, Abort, invoiceVars
<1>10. CASE \/ \E i \in Invoices : DueDatePasses(i)
            \/ TaskRead \/ TaskCommit \/ TaskAbort \/ UNCHANGED vars
  BY <1>1, <1>4, <1>10 DEF DueDatePasses, TaskRead, TaskCommit, TaskAbort, vars, invoiceVars
<1>. QED
  BY <1>1, <1>2, <1>3, <1>7, <1>8, <1>9, <1>10 DEF Next

\* Whatever requests create invoices at the same time, the numbers run from 1
\* without gap or duplicate: a request that counted too early loses its insert
\* to the unique index and leaves no hole.
THEOREM NumbersStayGapless == Spec => []NumbersAreGapless
<1>1. NumberInv => NumbersAreGapless
  BY DEF NumberInv
<1>. QED  BY <1>1, InitNumberInv, NextNumberInv, PTL DEF Spec

-----------------------------------------------------------------------------
(* What paid means *)

LEMMA NextPaidIsCovered == TypeOK /\ PaidIsCovered /\ [Next]_vars => PaidIsCovered'
<1>. SUFFICES ASSUME TypeOK, PaidIsCovered, [Next]_vars PROVE PaidIsCovered'
  OBVIOUS
<1>1. ASSUME NEW w \in Workers, NEW amount \in Amounts, PayCommit(w, amount)
      PROVE  PaidIsCovered'
  <2>. DEFINE i == req[w].invoice
  <2>1. i \in Invoices /\ amount \in Nat
    BY <1>1, RequestShape, MoneyAssumption DEF PayCommit, TypeOK
  <2>2. /\ received' = [received EXCEPT ![i] = @ + amount]
        /\ status' = [status EXCEPT ![i] = IF Covers(amount, i) THEN "paid" ELSE @]
        /\ total_amount' = total_amount
    BY <1>1 DEF PayCommit
  <2>3. /\ \A j \in Invoices : received[j] \in Nat /\ total_amount[j] \in Nat
        /\ \A j \in Invoices \ {i} : received'[j] = received[j] /\ status'[j] = status[j]
        /\ received'[i] = received[i] + amount
    BY <2>1, <2>2, MoneyAssumption DEF TypeOK
  <2>4. status'[i] = "paid" => received'[i] >= total_amount[i]
    <3>1. CASE Covers(amount, i)
      BY <2>1, <2>3, <3>1 DEF Covers
    <3>2. CASE ~Covers(amount, i)
      <4>1. status'[i] = status[i]
        BY <2>1, <2>2, <3>2 DEF TypeOK
      <4>2. status[i] = "paid" => received[i] >= total_amount[i]
        BY <2>1 DEF PaidIsCovered
      <4>3. /\ received[i] \in Nat /\ total_amount[i] \in Nat /\ amount \in Nat
            /\ received'[i] = received[i] + amount
        BY <2>1, <2>3
      <4>. HIDE DEF i
      <4>. QED  BY <4>1, <4>2, <4>3
    <3>. QED  BY <3>1, <3>2
  <2>. HIDE DEF i
  <2>. QED  BY <2>1, <2>2, <2>3, <2>4 DEF PaidIsCovered
<1>2. ASSUME received' = received, total_amount' = total_amount,
             \A i \in Invoices : status'[i] = "paid" => status[i] = "paid"
      PROVE  PaidIsCovered'
  BY <1>2 DEF PaidIsCovered
<1>3. ASSUME NEW w \in Workers, SendCommit(w)
      PROVE  PaidIsCovered'
  BY <1>2, <1>3 DEF SendCommit, TypeOK, paymentVars
<1>4. CASE TaskCommit
  BY <1>2, <1>4 DEF TaskCommit, paymentVars
<1>5. CASE UNCHANGED <<total_amount, status, paymentVars>>
  BY <1>2, <1>5 DEF paymentVars
<1>. QED
  BY <1>1, <1>3, <1>4, <1>5
  DEF Next, vars, invoiceVars, CreateReadCount, CreateCommit, SendRead, PayReadInvoice,
      PayReadPayments, DueDatePasses, TaskRead, TaskAbort, Abort

\* An invoice is paid only when the payments recorded on it come to its total,
\* whatever payments, sendings and task runs overlap.
THEOREM PaidStaysCovered == Spec => []PaidIsCovered
<1>1. Init => PaidIsCovered
  BY DEF Init, PaidIsCovered
<1>. QED  BY <1>1, TypeCorrect, NextPaidIsCovered, PTL DEF Spec

LEMMA NextNobodySawPaid == TypeOK /\ NobodySawPaid /\ [Next]_vars => NobodySawPaid'
<1>. SUFFICES ASSUME TypeOK, NobodySawPaid, [Next]_vars PROVE NobodySawPaid'
  OBVIOUS
<1>1. ASSUME NEW w \in Workers, NEW q, Serve(w, q), UNCHANGED task,
             q.op \in {"send", "pay.payments", "pay.commit"} => q.seen # "paid"
      PROVE  NobodySawPaid'
  BY <1>1 DEF Serve, TypeOK, NobodySawPaid
<1>2. ASSUME NEW w \in Workers, Finish(w), UNCHANGED task
      PROVE  NobodySawPaid'
  BY <1>1, <1>2 DEF Finish, Idle
<1>3. ASSUME NEW w \in Workers, NEW i \in Invoices, SendRead(w, i) \/ PayReadInvoice(w, i)
      PROVE  NobodySawPaid'
  BY <1>1, <1>3 DEF SendRead, CanBeSent, PayReadInvoice
<1>4. ASSUME NEW w \in Workers, PayReadPayments(w)
      PROVE  NobodySawPaid'
  BY <1>1, <1>4 DEF PayReadPayments, NobodySawPaid
<1>5. ASSUME NEW w \in Workers, CreateReadCount(w)
      PROVE  NobodySawPaid'
  BY <1>1, <1>5 DEF CreateReadCount
<1>6. ASSUME NEW w \in Workers,
             \/ \E i \in Invoices : CreateCommit(w, i)
             \/ SendCommit(w)
             \/ \E amount \in Amounts : PayCommit(w, amount)
             \/ Abort(w)
      PROVE  NobodySawPaid'
  BY <1>2, <1>6 DEF CreateCommit, SendCommit, PayCommit, Abort
<1>7. CASE TaskRead
  <2>. DEFINE seen == [i \in Overdue |-> status[i]]
  <2>1. task' = [op |-> "overdue", seen |-> seen] /\ req' = req
    BY <1>7 DEF TaskRead
  <2>2. \A i \in DOMAIN seen : seen[i] # "paid"
    BY DEF Overdue
  <2>. HIDE DEF seen
  <2>. QED  BY <2>1, <2>2 DEF NobodySawPaid
<1>8. CASE TaskCommit \/ TaskAbort
  BY <1>8 DEF TaskCommit, TaskAbort, NobodySawPaid
<1>9. CASE UNCHANGED <<req, task>>
  BY <1>9 DEF NobodySawPaid
<1>. QED
  BY <1>3, <1>4, <1>5, <1>6, <1>7, <1>8, <1>9 DEF Next, vars, DueDatePasses

\* A paid invoice loses its status only to a commit of a transaction that read
\* it before it was paid.
THEOREM PaidIsLostOnlyToStaleReadsHolds == Spec => PaidIsLostOnlyToStaleReads
<1>. DEFINE Inv == TypeOK /\ NobodySawPaid
            Lost(i) == status[i] = "paid" /\ status'[i] # "paid"
            Excused(i) == \/ \E w \in Workers :
                               req'[w] # req[w] /\ Writes(req[w], i) /\ ~SawPaid(req[w], i)
                          \/ task' # task /\ Writes(task, i) /\ ~SawPaid(task, i)
<1>1. Init => Inv
  BY InitType DEF Init, NobodySawPaid, Idle
<1>2. Inv /\ [Next]_vars => Inv'
  BY NextType, NextNobodySawPaid
<1>3. Inv /\ [Next]_vars => [\A i \in Invoices : Lost(i) => Excused(i)]_vars
  <2>. SUFFICES ASSUME Inv, Next, NEW i \in Invoices, Lost(i) PROVE Excused(i)
    OBVIOUS
  <2>1. ASSUME NEW w \in Workers, SendCommit(w) PROVE Excused(i)
    <3>1. req[w].invoice = i /\ req'[w] # req[w]
      BY <2>1 DEF SendCommit, Finish, Serve, TypeOK, Idle
    <3>. QED  BY <2>1, <3>1 DEF SendCommit, Writes, SawPaid, NobodySawPaid
  <2>2. ASSUME NEW w \in Workers, NEW amount \in Amounts, PayCommit(w, amount)
        PROVE  Excused(i)
    BY <2>2 DEF PayCommit, TypeOK
  <2>3. CASE TaskCommit
    <3>1. task # Idle /\ task.op = "overdue"
      BY <2>3, TaskShape DEF TaskCommit, TypeOK
    <3>2. i \in DOMAIN task.seen /\ task' # task
      BY <2>3 DEF TaskCommit, TypeOK
    <3>. QED  BY <3>1, <3>2 DEF Writes, SawPaid, NobodySawPaid
  <2>4. CASE UNCHANGED status
    BY <2>4
  <2>. QED
    BY <2>1, <2>2, <2>3, <2>4
    DEF Next, invoiceVars, CreateReadCount, CreateCommit, SendRead, PayReadInvoice,
        PayReadPayments, DueDatePasses, TaskRead, TaskAbort, Abort
<1>. QED  BY <1>1, <1>2, <1>3, PTL DEF Spec, PaidIsLostOnlyToStaleReads

-----------------------------------------------------------------------------
(* Sums over a finite set. MapThenSumSet is a recursion on its subsets; what *)
(* is said of it here is shown by a minimal counterexample.                  *)

Pick(T) == CHOOSE x \in T : TRUE

\* The recursion by which MapThenSumSet adds up v, over the sets in D.
IsSumOn(g, D, v) ==
  g = [T \in D |-> IF T = {} THEN 0 ELSE v[Pick(T)] + g[T \ {Pick(T)}]]

\* A set of numbers with a member has a least one.
LEMMA Least ==
  ASSUME NEW T \in SUBSET Nat, T # {}
  PROVE  \E n \in T : \A m \in T : n <= m
<1>1. IsWellFoundedOn(OpToRel(<, Nat), Nat)
  BY NatLessThanWellFounded
<1>2. PICK n \in T : \A m \in T : ~ (<<m, n>> \in OpToRel(<, Nat))
  BY <1>1, WFMin
<1>3. \A m \in T : ~(m < n)
  BY <1>2 DEF OpToRel
<1>. QED  BY <1>3

Small(S, n) == {T \in SUBSET S : Cardinality(T) <= n}

\* The recursion has a solution on the subsets of at most n members: there is no
\* least n for which it has none.
LEMMA SumUpTo ==
  ASSUME NEW S, IsFiniteSet(S), NEW v
  PROVE  \A n \in Nat : \E g : IsSumOn(g, Small(S, n), v)
<1>. DEFINE Bad == {n \in Nat : ~\E g : IsSumOn(g, Small(S, n), v)}
<1>0. \A T \in SUBSET S : IsFiniteSet(T) /\ Cardinality(T) \in Nat
  BY FS_Subset, FS_CardinalityType
<1>1. \E g : IsSumOn(g, Small(S, 0), v)
  <2>1. \A T \in Small(S, 0) : T = {}
    <3>1. \A T \in Small(S, 0) : IsFiniteSet(T) /\ Cardinality(T) = 0
      BY <1>0 DEF Small
    <3>. QED  BY <3>1, FS_EmptySet, Zenon
  <2>2. IsSumOn([T \in Small(S, 0) |-> 0], Small(S, 0), v)
    BY <2>1 DEF IsSumOn
  <2>. QED  BY <2>2
<1>2. ASSUME NEW n \in Nat, NEW g, IsSumOn(g, Small(S, n), v)
      PROVE  \E h : IsSumOn(h, Small(S, n + 1), v)
  <2>. DEFINE D == Small(S, n + 1)
              h == [T \in D |-> IF T = {} THEN 0 ELSE v[Pick(T)] + g[T \ {Pick(T)}]]
  <2>1. ASSUME NEW T \in D, T # {}
        PROVE  T \ {Pick(T)} \in Small(S, n) /\ T \ {Pick(T)} \in D
    <3>1. Pick(T) \in T
      BY <2>1 DEF Pick
    <3>2. IsFiniteSet(T) /\ Cardinality(T) <= n + 1 /\ T \subseteq S /\ Cardinality(T) \in Nat
      BY <1>0 DEF Small
    <3>3. Cardinality(T \ {Pick(T)}) = Cardinality(T) - 1
      BY <3>1, <3>2, FS_RemoveElement
    <3>. QED  BY <3>2, <3>3 DEF Small
  <2>2. \A T \in Small(S, n) : T \in D /\ h[T] = g[T]
    <3>1. Small(S, n) \subseteq D
      BY <1>0 DEF Small
    <3>2. \A T \in Small(S, n) : g[T] = IF T = {} THEN 0 ELSE v[Pick(T)] + g[T \ {Pick(T)}]
      BY <1>2, Zenon DEF IsSumOn
    <3>. QED  BY <3>1, <3>2
  <2>3. h = [T \in D |-> IF T = {} THEN 0 ELSE v[Pick(T)] + h[T \ {Pick(T)}]]
    <3>1. \A T \in D : T # {} => h[T \ {Pick(T)}] = g[T \ {Pick(T)}]
      BY <2>1, <2>2
    <3>. HIDE DEF D
    <3>. QED  BY <3>1
  <2>. HIDE DEF h
  <2>. QED  BY <2>3 DEF IsSumOn
<1>3. ASSUME Bad # {} PROVE FALSE
  <2>1. PICK n \in Bad : \A m \in Bad : n <= m
    BY <1>3, Least
  <2>2. n # 0
    BY <1>1
  <2>3. n - 1 \in Nat /\ n - 1 \notin Bad /\ (n - 1) + 1 = n
    BY <2>1, <2>2
  <2>4. PICK g : IsSumOn(g, Small(S, n - 1), v)
    BY <2>3
  <2>5. \E h : IsSumOn(h, Small(S, (n - 1) + 1), v)
    BY <1>2, <2>3, <2>4
  <2>. QED  BY <2>3, <2>5
<1>. QED  BY <1>3

\* So it has one on all subsets of a finite set.
LEMMA SumExists ==
  ASSUME NEW S, IsFiniteSet(S), NEW v
  PROVE  \E g : IsSumOn(g, SUBSET S, v)
<1>1. Cardinality(S) \in Nat /\ \A T \in SUBSET S : Cardinality(T) <= Cardinality(S)
  BY FS_Subset, FS_CardinalityType
<1>2. Small(S, Cardinality(S)) = SUBSET S
  BY <1>1 DEF Small
<1>3. \E g : IsSumOn(g, Small(S, Cardinality(S)), v)
  BY <1>1, SumUpTo
<1>. QED  BY <1>2, <1>3

\* A family of subsets of a finite set has a member that includes no other.
LEMMA Minimal ==
  ASSUME NEW S, IsFiniteSet(S), NEW Bad \in SUBSET SUBSET S, Bad # {}
  PROVE  \E T \in Bad : \A U \in Bad : U \subseteq T => U = T
<1>1. IsWellFoundedOn(StrictSubsetOrdering(S), SUBSET S)
  BY FS_StrictSubsetOrderingWellFounded, FS_FiniteSubsetsOfFinite
<1>2. PICK T \in Bad : \A U \in Bad : ~ (<<U, T>> \in StrictSubsetOrdering(S))
  BY <1>1, WFMin
<1>3. \A U \in Bad : U \subseteq T => U = T
  BY <1>2 DEF StrictSubsetOrdering
<1>. QED  BY <1>3

\* What the recursion says of g.
Unfolds(g, S, v) ==
  /\ g[{}] = 0
  /\ \A T \in SUBSET S : T # {} => \E x \in T : g[T] = v[x] + g[T \ {x}]

\* g adds up v over the subsets of S: any element may be taken out first.
SumOf(g, S, v) ==
  /\ g[{}] = 0
  /\ \A T \in SUBSET S : g[T] \in Nat /\ \A x \in T : g[T] = v[x] + g[T \ {x}]

LEMMA SumUnfolds ==
  ASSUME NEW S, NEW v, NEW g, IsSumOn(g, SUBSET S, v)
  PROVE  Unfolds(g, S, v)
<1>1. \A T \in SUBSET S : g[T] = IF T = {} THEN 0 ELSE v[Pick(T)] + g[T \ {Pick(T)}]
  BY Zenon DEF IsSumOn
<1>2. \A T : T # {} => Pick(T) \in T
  BY DEF Pick
<1>3. g[{}] = 0
  BY <1>1, Zenon
<1>4. ASSUME NEW T \in SUBSET S, T # {}
      PROVE  \E x \in T : g[T] = v[x] + g[T \ {x}]
  BY <1>1, <1>2, <1>4, Zenon
<1>. QED  BY <1>3, <1>4 DEF Unfolds

LEMMA SumType ==
  ASSUME NEW S, IsFiniteSet(S), NEW v, \A x \in S : v[x] \in Nat,
         NEW g, Unfolds(g, S, v)
  PROVE  \A T \in SUBSET S : g[T] \in Nat
<1>. DEFINE Bad == {T \in SUBSET S : g[T] \notin Nat}
<1>1. Bad \in SUBSET SUBSET S
  OBVIOUS
<1>2. g[{}] \in Nat
  BY DEF Unfolds
<1>3. ASSUME NEW T \in Bad, \A U \in Bad : U \subseteq T => U = T
      PROVE  FALSE
  <2>1. T \in SUBSET S /\ T # {}
    BY <1>2
  <2>2. PICK x \in T : g[T] = v[x] + g[T \ {x}]
    BY <2>1 DEF Unfolds
  <2>3. g[T \ {x}] \in Nat
    BY <1>3, <2>1, <2>2
  <2>4. v[x] \in Nat
    BY <2>1, <2>2
  <2>5. g[T] \in Nat
    BY <2>2, <2>3, <2>4
  <2>. QED  BY <2>5
<1>4. Bad = {}
  <2>. HIDE DEF Bad
  <2>. QED  BY <1>1, <1>3, Minimal
<1>. QED  BY <1>4

\* It does not matter which element the recursion takes out.
LEMMA SumAddsUp ==
  ASSUME NEW S, IsFiniteSet(S), NEW v, \A x \in S : v[x] \in Nat,
         NEW g, Unfolds(g, S, v)
  PROVE  SumOf(g, S, v)
<1>. DEFINE Bad == {T \in SUBSET S : \E x \in T : g[T] # v[x] + g[T \ {x}]}
<1>1. Bad \in SUBSET SUBSET S
  OBVIOUS
<1>2. \A T \in SUBSET S : g[T] \in Nat
  BY SumType
<1>3. ASSUME NEW T \in Bad, \A U \in Bad : U \subseteq T => U = T
      PROVE  FALSE
  <2>1. PICK x \in T : T \in SUBSET S /\ g[T] # v[x] + g[T \ {x}]
    OBVIOUS
  <2>2. PICK y \in T : g[T] = v[y] + g[T \ {y}]
    BY <2>1 DEF Unfolds
  <2>3. x # y
    BY <2>1, <2>2
  <2>4. T \ {y} \in SUBSET S /\ T \ {x} \in SUBSET S /\ T \ {y} # T /\ T \ {x} # T
    BY <2>1, <2>2
  <2>5. g[T \ {y}] = v[x] + g[(T \ {y}) \ {x}]
    BY <1>3, <2>3, <2>4
  <2>6. g[T \ {x}] = v[y] + g[(T \ {x}) \ {y}]
    BY <1>3, <2>3, <2>4
  <2>7. (T \ {x}) \ {y} = (T \ {y}) \ {x}
    OBVIOUS
  <2>8. v[x] \in Nat /\ v[y] \in Nat /\ g[(T \ {y}) \ {x}] \in Nat
    BY <1>2, <2>1
  <2>. DEFINE rest == g[(T \ {y}) \ {x}]
              a == v[x]
              b == v[y]
  <2>9. g[T] = b + (a + rest) /\ g[T \ {x}] = b + rest /\ a \in Nat /\ b \in Nat /\ rest \in Nat
    BY <2>2, <2>5, <2>6, <2>7, <2>8
  <2>10. g[T] # a + g[T \ {x}]
    BY <2>1
  <2>. HIDE DEF rest, a, b
  <2>. QED  BY <2>9, <2>10
<1>4. Bad = {}
  <2>. HIDE DEF Bad
  <2>. QED  BY <1>1, <1>3, Minimal
<1>. QED  BY <1>2, <1>4 DEF SumOf, Unfolds

\* Smaller summands over fewer elements do not come to more.
LEMMA SumMonotone ==
  ASSUME NEW S, IsFiniteSet(S), NEW R \in SUBSET S,
         NEW u, NEW v, \A x \in S : v[x] \in Nat, \A x \in R : u[x] \in Nat /\ u[x] <= v[x],
         NEW f, SumOf(f, R, u), NEW g, SumOf(g, S, v)
  PROVE  f[R] <= g[S]
<1>. DEFINE Bad == {T \in SUBSET S : ~(f[T \cap R] <= g[T])}
<1>1. Bad \in SUBSET SUBSET S
  OBVIOUS
<1>2. \A x \in R : u[x] \in Nat
  OBVIOUS
<1>3. \A T \in SUBSET S : g[T] \in Nat /\ f[T \cap R] \in Nat
  BY DEF SumOf
<1>4. \A T \in SUBSET R : \A x \in T : f[T] = u[x] + f[T \ {x}]
  BY DEF SumOf
<1>5. ASSUME NEW T \in Bad, \A U \in Bad : U \subseteq T => U = T
      PROVE  FALSE
  <2>1. T \in SUBSET S /\ ~(f[T \cap R] <= g[T])
    OBVIOUS
  <2>2. T # {}
    <3>1. SUFFICES ASSUME T = {} PROVE FALSE
      OBVIOUS
    <3>2. f[T \cap R] = 0 /\ g[T] = 0
      <4>1. T \cap R = {}
        BY <3>1
      <4>. QED  BY <3>1, <4>1 DEF SumOf
    <3>. QED  BY <2>1, <3>2
  <2>3. PICK x \in T : g[T] = v[x] + g[T \ {x}]
    BY <2>1, <2>2 DEF SumOf
  <2>. DEFINE U == T \ {x}
  <2>4. U \in SUBSET S /\ U \notin Bad
    BY <1>5, <2>1, <2>3
  <2>5. f[U \cap R] <= g[U]
    BY <2>4
  <2>6. g[U] \in Nat /\ f[U \cap R] \in Nat /\ v[x] \in Nat
    BY <1>3, <2>1, <2>4
  <2>7. f[T \cap R] <= v[x] + f[U \cap R]
    <3>1. CASE x \in R
      <4>1. f[T \cap R] = u[x] + f[(T \cap R) \ {x}]
        <5>1. T \cap R \in SUBSET R /\ x \in T \cap R
          BY <3>1
        <5>. QED  BY <1>4, <5>1
      <4>2. (T \cap R) \ {x} = U \cap R
        OBVIOUS
      <4>3. u[x] \in Nat /\ u[x] <= v[x]
        BY <3>1
      <4>4. f[T \cap R] = u[x] + f[U \cap R]
        BY <4>1, <4>2
      <4>. HIDE DEF U
      <4>. QED  BY <2>6, <4>3, <4>4
    <3>2. CASE x \notin R
      <4>1. T \cap R = U \cap R
        BY <3>2
      <4>2. f[T \cap R] = f[U \cap R]
        BY <4>1
      <4>. HIDE DEF U
      <4>. QED  BY <2>6, <4>2
    <3>. QED  BY <3>1, <3>2
  <2>8. g[T] = v[x] + g[U] /\ f[T \cap R] \in Nat
    BY <1>3, <2>1, <2>3
  <2>. HIDE DEF U, Bad
  <2>. QED  BY <2>1, <2>5, <2>6, <2>7, <2>8
<1>6. Bad = {}
  <2>. HIDE DEF Bad
  <2>. QED  BY <1>1, <1>5, Minimal
<1>7. S \in SUBSET S /\ S \cap R = R
  OBVIOUS
<1>. QED  BY <1>6, <1>7

Added(v, T) == MapThenSumSet(LAMBDA x : v[x], T)

LEMMA AddedIsSum ==
  ASSUME NEW T, IsFiniteSet(T), NEW v, \A x \in T : v[x] \in Nat
  PROVE  \E g : SumOf(g, T, v) /\ Added(v, T) = g[T]
<1>. DEFINE Iterates(g) ==
              g = [s \in SUBSET T |->
                     IF s = {} THEN 0
                     ELSE v[CHOOSE x \in s : TRUE] + g[s \ {CHOOSE x \in s : TRUE}]]
            iter == CHOOSE g : Iterates(g)
<1>1. \E g : IsSumOn(g, SUBSET T, v)
  BY SumExists
<1>2. \A g : IsSumOn(g, SUBSET T, v) <=> Iterates(g)
  BY DEF IsSumOn, Pick
<1>3. IsSumOn(iter, SUBSET T, v)
  <2>. HIDE DEF Iterates
  <2>. QED  BY <1>1, <1>2
<1>4. SumOf(iter, T, v)
  BY <1>3, SumUnfolds, SumAddsUp
<1>5. Added(v, T) = iter[T]
  BY DEF Added, MapThenSumSet, MapThenFoldSet
<1>. HIDE DEF iter
<1>. QED  BY <1>4, <1>5

-----------------------------------------------------------------------------
(* The revenue report *)

\* The paid invoices are some of the existing ones, and each was paid at least
\* its total, so their totals come to no more than all that was received.
LEMMA PaidBacksReport == TypeOK /\ PaidIsCovered => ReportIsBacked
<1>. SUFFICES ASSUME TypeOK, PaidIsCovered PROVE ReportIsBacked
  OBVIOUS
<1>. DEFINE Paid == {i \in Existing : status[i] = "paid"}
<1>1. IsFiniteSet(Existing) /\ Paid \in SUBSET Existing /\ Existing \subseteq Invoices
  BY ExistingIsFinite DEF Existing
<1>2. IsFiniteSet(Paid)
  BY <1>1, FS_Subset
<1>3. \A i \in Invoices : total_amount[i] \in Nat /\ received[i] \in Nat
  BY MoneyAssumption DEF TypeOK
<1>4. \A i \in Paid : total_amount[i] \in Nat /\ total_amount[i] <= received[i]
  BY <1>1, <1>3 DEF PaidIsCovered
<1>5. Report.collected = Added(total_amount, Paid)
  BY DEF Report, TotalWith, InvoiceStatus, Added
<1>. HIDE DEF Paid
<1>6. PICK f : SumOf(f, Paid, total_amount) /\ Added(total_amount, Paid) = f[Paid]
  BY <1>2, <1>4, AddedIsSum
<1>7. \A i \in Existing : received[i] \in Nat
  BY <1>1, <1>3
<1>8. PICK g : SumOf(g, Existing, received) /\ Added(received, Existing) = g[Existing]
  BY <1>1, <1>7, AddedIsSum
<1>9. f[Paid] <= g[Existing]
  BY <1>1, <1>4, <1>6, <1>7, <1>8, SumMonotone
<1>10. MapThenSumSet(LAMBDA i : received[i], Existing) = Added(received, Existing)
  BY DEF Added
<1>. QED  BY <1>5, <1>6, <1>8, <1>9, <1>10 DEF ReportIsBacked

\* However requests and the overdue task overlap, the report never shows as
\* collected more than the payments brought in, though it reads no payment.
THEOREM ReportStaysBacked == Spec => []ReportIsBacked
BY TypeCorrect, PaidStaysCovered, PaidBacksReport, PTL
=============================================================================
