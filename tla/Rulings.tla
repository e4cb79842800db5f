------------------------------ MODULE Rulings ------------------------------
(***************************************************************************)
(* Three kinds of rows that somebody rules on: certificates, which are     *)
(* revoked, leave requests, which are approved or rejected, and admission  *)
(* applications, which are reviewed while their batch takes new ones.      *)
(* Requests read and commit in separate steps as in Dormitory; here they   *)
(* may overlap on one row.                                                 *)
(*                                                                         *)
(* A name with an underscore is a faulty variant of the definition it      *)
(* precedes, as in Dormitory.                                              *)
(***************************************************************************)
CONSTANTS
  Workers,       \* requests that can be in flight at the same time
  Certificates,  \* keys of certificates
  Titles,        \* bound: the titles certificates are given
  Leaves,        \* keys of leave_requests
  Batches,       \* keys of admission_batches
  Applications,  \* keys of admissions
  Users          \* who revokes, approves and reviews

VARIABLES
  certificates,
  leaves,
  batches,       \* is_active of each batch, the only field a handler looks at
  applications,
  req            \* the request each worker is serving

vars == <<certificates, leaves, batches, applications, req>>

-----------------------------------------------------------------------------
NoRow == [is |-> "no row"]
Who == Users \cup {"nobody"}
Certificate == [is : {"certificate"}, title : Titles, is_revoked : BOOLEAN, revoked_by : Who]
Leave == [is : {"leave"}, status : {"pending", "approved", "rejected"}, approved_by : Who]
AdmissionStatus == {"submitted", "under_review", "accepted", "rejected"}
Application == [is : {"application"}, batch : Batches, status : AdmissionStatus, reviewed_by : Who]
Batch == {"no row", "active", "inactive"}

Idle == [op |-> "idle"]

\* before is the row as the handler found it, after as it leaves it.
Request ==
  {Idle}
  \cup [op : {"update", "revoke"}, key : Certificates, before : Certificate, after : Certificate]
  \cup [op : {"decide"}, key : Leaves, before : Leave, after : Leave]
  \cup [op : {"apply"}, key : Applications, batch : Batches, before : Batch]
  \cup [op : {"review"}, key : Applications, before : Application, after : Application]
  \cup [op : {"update_batch"}, key : Batches, before : Batch, after : Batch]

Init ==
  /\ certificates = [c \in Certificates |-> NoRow]
  /\ leaves = [l \in Leaves |-> NoRow]
  /\ batches = [b \in Batches |-> "no row"]
  /\ applications = [a \in Applications |-> NoRow]
  /\ req = [w \in Workers |-> Idle]

Serve(w, request) == req' = [req EXCEPT ![w] = request]
Finish(w) == Serve(w, Idle)
Begin(w, request) == req[w] = Idle /\ Serve(w, request)

\* The ORM writes the columns whose value is not the one that was read.
Written(r, committed) ==
  [column \in DOMAIN r.after |->
     IF r.after[column] = r.before[column] THEN committed[column] ELSE r.after[column]]

-----------------------------------------------------------------------------
(* Certificates *)

IssueCertificate(c, title) ==
  /\ certificates[c] = NoRow
  /\ certificates' = [certificates EXCEPT ![c] =
       [is |-> "certificate", title |-> title, is_revoked |-> FALSE, revoked_by |-> "nobody"]]
  /\ UNCHANGED <<leaves, batches, applications, req>>

MayChange_Revoked(certificate) == certificate # NoRow
MayChange(certificate) == certificate # NoRow /\ ~certificate.is_revoked

UpdateCertificateRead(w, c, title) ==
  /\ MayChange(certificates[c])
  /\ Begin(w, [op |-> "update", key |-> c, before |-> certificates[c],
               after |-> [certificates[c] EXCEPT !.title = title]])
  /\ UNCHANGED <<certificates, leaves, batches, applications>>

RevokeCertificateRead(w, c, user) ==
  /\ MayChange(certificates[c])
  /\ Begin(w, [op |-> "revoke", key |-> c, before |-> certificates[c],
               after |-> [certificates[c] EXCEPT !.is_revoked = TRUE, !.revoked_by = user]])
  /\ UNCHANGED <<certificates, leaves, batches, applications>>

CertificateCommit(w) ==
  /\ req[w].op \in {"update", "revoke"}
  /\ certificates' = [certificates EXCEPT ![req[w].key] = Written(req[w], @)]
  /\ Finish(w)
  /\ UNCHANGED <<leaves, batches, applications>>

-----------------------------------------------------------------------------
(* Leave requests *)

SubmitLeave(l) ==
  /\ leaves[l] = NoRow
  /\ leaves' = [leaves EXCEPT ![l] = [is |-> "leave", status |-> "pending", approved_by |-> "nobody"]]
  /\ UNCHANGED <<certificates, batches, applications, req>>

\* Whatever the status is.
Approved(leave, user) == [leave EXCEPT !.status = "approved", !.approved_by = user]

\* The approver of a request that was approved before stays.
Rejected_Reset(leave) == [leave EXCEPT !.status = "rejected", !.approved_by = "nobody"]
Rejected(leave) == [leave EXCEPT !.status = "rejected"]

DecideLeaveRead(w, l, user) ==
  /\ leaves[l] # NoRow
  /\ \E after \in {Approved(leaves[l], user), Rejected(leaves[l])} :
       Begin(w, [op |-> "decide", key |-> l, before |-> leaves[l], after |-> after])
  /\ UNCHANGED <<certificates, leaves, batches, applications>>

DecideLeaveCommit(w) ==
  /\ req[w].op = "decide"
  /\ leaves' = [leaves EXCEPT ![req[w].key] = Written(req[w], @)]
  /\ Finish(w)
  /\ UNCHANGED <<certificates, batches, applications>>

-----------------------------------------------------------------------------
(* Admissions *)

CreateBatch(b, is_active) ==
  /\ batches[b] = "no row"
  /\ batches' = [batches EXCEPT ![b] = is_active]
  /\ UNCHANGED <<certificates, leaves, applications, req>>

UpdateBatchRead(w, b, is_active) ==
  /\ batches[b] # "no row"
  /\ Begin(w, [op |-> "update_batch", key |-> b, before |-> batches[b], after |-> is_active])
  /\ UNCHANGED <<certificates, leaves, batches, applications>>

UpdateBatchCommit(w) ==
  LET r == req[w] IN
  /\ r.op = "update_batch"
  /\ batches[r.key] # "no row"
  /\ batches' = [batches EXCEPT ![r.key] = IF r.after = r.before THEN @ ELSE r.after]
  /\ Finish(w)
  /\ UNCHANGED <<certificates, leaves, applications>>

\* Its applications go with it.
DeleteBatch(b) ==
  /\ batches[b] # "no row"
  /\ batches' = [batches EXCEPT ![b] = "no row"]
  /\ applications' = [a \in Applications |->
       IF applications[a] # NoRow /\ applications[a].batch = b THEN NoRow ELSE applications[a]]
  /\ UNCHANGED <<certificates, leaves, req>>

\* Status, dates and quota of the batch are not looked at.
TakesApplications_Exists(batch) == batch # "no row"
TakesApplications(batch) == batch = "active"

ApplyRead(w, a, b) ==
  /\ applications[a] = NoRow
  /\ TakesApplications(batches[b])
  /\ Begin(w, [op |-> "apply", key |-> a, batch |-> b, before |-> batches[b]])
  /\ UNCHANGED <<certificates, leaves, batches, applications>>

ApplyCommit(w) ==
  LET r == req[w] IN
  /\ r.op = "apply"
  /\ applications[r.key] = NoRow
  /\ batches[r.batch] # "no row"
  /\ applications' = [applications EXCEPT ![r.key] =
       [is |-> "application", batch |-> r.batch, status |-> "submitted", reviewed_by |-> "nobody"]]
  /\ Finish(w)
  /\ UNCHANGED <<certificates, leaves, batches>>

\* Any status, over any status.
ReviewRead(w, a, status, user) ==
  /\ applications[a] # NoRow
  /\ Begin(w, [op |-> "review", key |-> a, before |-> applications[a],
               after |-> [applications[a] EXCEPT !.status = status, !.reviewed_by = user]])
  /\ UNCHANGED <<certificates, leaves, batches, applications>>

ReviewCommit(w) ==
  /\ req[w].op = "review"
  /\ applications[req[w].key] # NoRow
  /\ applications' = [applications EXCEPT ![req[w].key] = Written(req[w], @)]
  /\ Finish(w)
  /\ UNCHANGED <<certificates, leaves, batches>>

-----------------------------------------------------------------------------
\* get_db rolls back.
Abort(w) ==
  /\ req[w] # Idle
  /\ Finish(w)
  /\ UNCHANGED <<certificates, leaves, batches, applications>>

CertificateStep(w) ==
  \/ \E c \in Certificates, title \in Titles : UpdateCertificateRead(w, c, title)
  \/ \E c \in Certificates, user \in Users : RevokeCertificateRead(w, c, user)
  \/ CertificateCommit(w)

LeaveStep(w) ==
  \/ \E l \in Leaves, user \in Users : DecideLeaveRead(w, l, user)
  \/ DecideLeaveCommit(w)

AdmissionStep(w) ==
  \/ \E b \in Batches, is_active \in {"active", "inactive"} : UpdateBatchRead(w, b, is_active)
  \/ UpdateBatchCommit(w)
  \/ \E a \in Applications, b \in Batches : ApplyRead(w, a, b)
  \/ ApplyCommit(w)
  \/ \E a \in Applications, status \in AdmissionStatus, user \in Users : ReviewRead(w, a, status, user)
  \/ ReviewCommit(w)

AtOnce ==
  \/ \E c \in Certificates, title \in Titles : IssueCertificate(c, title)
  \/ \E l \in Leaves : SubmitLeave(l)
  \/ \E b \in Batches, is_active \in {"active", "inactive"} : CreateBatch(b, is_active)
  \/ \E b \in Batches : DeleteBatch(b)

Next ==
  \/ \E w \in Workers : CertificateStep(w) \/ LeaveStep(w) \/ AdmissionStep(w) \/ Abort(w)
  \/ AtOnce

Spec == Init /\ [][Next]_vars

-----------------------------------------------------------------------------
TypeOK ==
  /\ certificates \in [Certificates -> Certificate \cup {NoRow}]
  /\ leaves \in [Leaves -> Leave \cup {NoRow}]
  /\ batches \in [Batches -> Batch]
  /\ applications \in [Applications -> Application \cup {NoRow}]
  /\ req \in [Workers -> Request]

\* "Cannot update a revoked certificate.": a revoked certificate changes only
\* at the commit of a request that read it before it was revoked.
RevokedChangesOnlyByStaleReads ==
  [][\A c \in Certificates :
       certificates[c] # NoRow /\ certificates[c].is_revoked /\ certificates'[c] # certificates[c] =>
         \E w \in Workers :
           /\ req[w].op \in {"update", "revoke"} /\ req[w].key = c
           /\ ~req[w].before.is_revoked]_vars

\* A batch gets a new application while is_active is false only at the commit of
\* an application that read it when it was true. Its status, which may say
\* CLOSED, is looked at by no handler.
ClosedBatchesGrowOnlyByStaleReads ==
  [][\A a \in Applications :
       applications[a] = NoRow /\ applications'[a] # NoRow
       /\ batches[applications'[a].batch] # "active" =>
         \E w \in Workers :
           req[w].op = "apply" /\ req[w].key = a /\ req[w].before = "active"]_vars

\* However decisions on a leave request overlap, one that stands as approved
\* names who approved it. Each decision writes only the columns that differ
\* from what it read, so this rests on a rejection leaving the approver alone.
ApprovedHasApprover ==
  \A l \in Leaves : leaves[l] # NoRow =>
    (leaves[l].status = "approved" => leaves[l].approved_by # "nobody")
=============================================================================
