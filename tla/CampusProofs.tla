---------------------------- MODULE CampusProofs ----------------------------
(***************************************************************************)
(* Proofs about the smaller parts of the system, each on its own and as    *)
(* MCCampus puts them beside each other: the timetable, rulings, origins,  *)
(* grades, teachers and their accounts, for any number of requests in      *)
(* flight and of rows, and pay.                                            *)
(***************************************************************************)
EXTENDS MCCampus, FiniteSetTheorems, WellFoundedInduction, TLAPS

-----------------------------------------------------------------------------
(* The timetable *)

\* Nothing a request remembers is needed: both properties rest on what the
\* database checks at the commit.
Timetabled ==
  /\ DOMAIN slots = Keys /\ DOMAIN curriculum = Lessons
  /\ T!OneLessonPerStart
  /\ T!LessonsHaveParents

LEMMA LessonsInit == T!Init => Timetabled
BY DEF T!Init, Timetabled, T!OneLessonPerStart, T!LessonsHaveParents, T!Held

\* A row that passes the index and has its parents comes to stand in a slot.
LEMMA LessonPlaced ==
  ASSUME Timetabled, NEW i, NEW row,
         T!ParentsExist(row), T!SlotIndexAllows(i, row),
         slots' = [slots EXCEPT ![i] = row],
         UNCHANGED <<deleted, curriculum>>
  PROVE  Timetabled'
<1>1. /\ DOMAIN slots' = Keys /\ \A j \in Keys \ {i} : slots'[j] = slots[j]
      /\ i \in Keys => slots'[i] = row
  BY DEF Timetabled
<1>2. T!OneLessonPerStart'
  BY <1>1 DEF Timetabled, T!OneLessonPerStart, T!Held, T!SlotIndexAllows, T!check_overlap
<1>3. T!LessonsHaveParents'
  BY <1>1 DEF Timetabled, T!LessonsHaveParents, T!Held, T!ParentsExist
<1>. QED  BY <1>1, <1>2, <1>3 DEF Timetabled

\* Lessons go, and nothing comes in their place.
LEMMA LessonsGo ==
  ASSUME Timetabled, NEW gone, DOMAIN slots' = Keys,
         \A i \in Keys : slots'[i] = IF i \in gone THEN T!NoRow ELSE slots[i],
         UNCHANGED <<deleted, curriculum>>
  PROVE  Timetabled'
<1>1. \A i \in T!Held' : i \in T!Held /\ slots'[i] = slots[i]
  BY DEF T!Held
<1>2. T!OneLessonPerStart'
  BY <1>1 DEF Timetabled, T!OneLessonPerStart
<1>3. T!LessonsHaveParents'
  BY <1>1 DEF Timetabled, T!LessonsHaveParents, T!ParentsExist
<1>. QED  BY <1>2, <1>3 DEF Timetabled

LEMMA ParentGoes ==
  ASSUME Timetabled, NEW p, T!DeleteParent(p)
  PROVE  Timetabled'
<1>1. /\ DOMAIN slots' = Keys /\ DOMAIN curriculum' = Lessons
      /\ \A s \in Lessons : curriculum'[s] = IF s = p THEN "no row" ELSE curriculum[s]
      /\ deleted' = deleted \cup {p}
  BY DEF T!DeleteParent
<1>2. \A i \in T!Held' : /\ i \in T!Held /\ slots'[i] = slots[i]
                         /\ p \notin {slots[i].day, slots[i].subject}
  BY DEF T!DeleteParent, T!Held, T!Orphans
<1>3. T!OneLessonPerStart'
  BY <1>2 DEF Timetabled, T!OneLessonPerStart
<1>4. T!LessonsHaveParents'
  <2>1. ASSUME NEW i \in T!Held' PROVE T!ParentsExist(slots[i])'
    BY <1>1, <1>2, <2>1 DEF Timetabled, T!LessonsHaveParents, T!ParentsExist
  <2>2. ASSUME NEW s \in Lessons \cap deleted' PROVE curriculum'[s] = "no row"
    BY <1>1, <2>2 DEF Timetabled, T!LessonsHaveParents
  <2>. QED  BY <2>1, <2>2 DEF T!LessonsHaveParents
<1>. QED  BY <1>1, <1>3, <1>4 DEF Timetabled

LEMMA CurriculumSet ==
  ASSUME Timetabled, NEW s, NEW entry,
         s \in Lessons /\ entry # "no row" => s \notin deleted,
         curriculum' = [curriculum EXCEPT ![s] = entry],
         UNCHANGED <<deleted, slots>>
  PROVE  Timetabled'
<1>1. T!OneLessonPerStart' /\ \A i \in T!Held' : T!ParentsExist(slots[i])'
  BY DEF Timetabled, T!OneLessonPerStart, T!Held, T!LessonsHaveParents, T!ParentsExist
<1>2. \A x \in Lessons \cap deleted' : curriculum'[x] = "no row"
  BY DEF Timetabled, T!LessonsHaveParents
<1>. QED  BY <1>1, <1>2 DEF Timetabled, T!LessonsHaveParents

LEMMA LessonsNext == Timetabled /\ [T!Next]_T!vars => Timetabled'
<1>. SUFFICES ASSUME Timetabled, [T!Next]_T!vars PROVE Timetabled'
  OBVIOUS
<1>1. ASSUME UNCHANGED <<deleted, slots, curriculum>> PROVE Timetabled'
  BY <1>1 DEF Timetabled, T!OneLessonPerStart, T!LessonsHaveParents, T!Held, T!ParentsExist
<1>2. ASSUME NEW w \in Workers, T!SlotStep(w) PROVE Timetabled'
  <2>1. CASE T!CreateSlotCommit(w)
    BY <2>1, LessonPlaced DEF T!CreateSlotCommit
  <2>2. CASE T!UpdateSlotCommit(w)
    BY <2>2, LessonPlaced DEF T!UpdateSlotCommit
  <2>. QED  BY <1>1, <1>2, <2>1, <2>2
            DEF T!SlotStep, T!CreateSlotRead, T!UpdateSlotRead, T!UpdateSlotCheck
<1>3. ASSUME NEW w \in Workers, T!CurriculumStep(w) PROVE Timetabled'
  <2>1. CASE T!UpsertCommit(w)
    <3>. DEFINE r == timetableReq[w]
                entry == T!Write(r.before, r.after, curriculum[r.subject])
    <3>1. r.subject \in Lessons /\ curriculum[r.subject] # "no row" => r.subject \notin deleted
      BY DEF Timetabled, T!LessonsHaveParents
    <3>2. r.subject \in Lessons => r.subject \notin deleted
      BY <2>1, <3>1 DEF T!UpsertCommit, T!CanUpsert
    <3>3. curriculum' = [curriculum EXCEPT ![r.subject] = entry] /\ UNCHANGED <<deleted, slots>>
      BY <2>1 DEF T!UpsertCommit
    <3>. HIDE DEF entry
    <3>. QED  BY <3>2, <3>3, CurriculumSet
  <2>. QED  BY <1>1, <1>3, <2>1 DEF T!CurriculumStep, T!UpsertRead
<1>4. CASE T!Removal
  <2>1. ASSUME NEW i \in Keys, T!DeleteSlot(i) PROVE Timetabled'
    <3>1. /\ DOMAIN slots' = Keys
          /\ \A j \in Keys : slots'[j] = IF j \in {i} THEN T!NoRow ELSE slots[j]
      BY <2>1 DEF T!DeleteSlot, Timetabled
    <3>. QED  BY <2>1, <3>1, LessonsGo DEF T!DeleteSlot
  <2>2. ASSUME NEW s \in Lessons, T!RemoveCurriculum(s) PROVE Timetabled'
    BY <2>2, CurriculumSet DEF T!RemoveCurriculum
  <2>. QED  BY <1>4, <2>1, <2>2, ParentGoes DEF T!Removal
<1>5. ASSUME NEW w \in Workers, T!Abort(w) PROVE Timetabled'
  BY <1>1, <1>5 DEF T!Abort
<1>6. CASE UNCHANGED T!vars
  BY <1>1, <1>6 DEF T!vars
<1>. QED  BY <1>2, <1>3, <1>4, <1>5, <1>6 DEF T!Next

\* However creations and moves overlap, a class has one lesson at a start.
THEOREM OneLessonPerStartHolds == T!Spec => []T!OneLessonPerStart
<1>1. Timetabled => T!OneLessonPerStart
  BY DEF Timetabled
<1>. QED  BY <1>1, LessonsInit, LessonsNext, PTL DEF T!Spec

\* No lesson and no curriculum entry is left, or brought back, after its
\* class, year or subject is deleted.
THEOREM LessonsHaveParentsHolds == T!Spec => []T!LessonsHaveParents
<1>1. Timetabled => T!LessonsHaveParents
  BY DEF Timetabled
<1>. QED  BY <1>1, LessonsInit, LessonsNext, PTL DEF T!Spec

-----------------------------------------------------------------------------
(* Rulings *)

\* What a request decides, it decides on the row it read: one that it may
\* still change a certificate of, or a batch that takes applications. A leave
\* request that had an approver when it was read still has one, since no
\* decision takes an approver away.
Decided(r) ==
  /\ r.op \in {"update", "revoke"} => ~r.before.is_revoked
  /\ r.op = "apply" => r.before = "active"
  /\ r.op = "decide" => /\ r.key \in Leaves
                        /\ r.before \in R!Leave
                        /\ r.after \in {R!Rejected(r.before)}
                                       \cup {R!Approved(r.before, user) : user \in Users}

ApproverStays(r, rules) ==
  r.op = "decide" =>
    /\ rules[r.key] # R!NoRow
    /\ r.before.approved_by # "nobody" => rules[r.key].approved_by # "nobody"

Ruled ==
  /\ DOMAIN rulingsReq = Workers
  /\ DOMAIN certificates = Certificates /\ DOMAIN applications = Applications
  /\ leaves \in [Leaves -> R!Leave \cup {R!NoRow}]
  /\ \A w \in Workers : Decided(rulingsReq[w]) /\ ApproverStays(rulingsReq[w], leaves)
  /\ R!ApprovedHasApprover

LEMMA RuledInit == R!Init => Ruled
<1>. SUFFICES ASSUME R!Init PROVE Ruled
  OBVIOUS
<1>1. \A w \in Workers : rulingsReq[w] = [op |-> "idle"]
  BY DEF R!Init, R!Idle
<1>2. \A w \in Workers : Decided(rulingsReq[w]) /\ ApproverStays(rulingsReq[w], leaves)
  <2>. SUFFICES ASSUME NEW w \in Workers
                PROVE  Decided(rulingsReq[w]) /\ ApproverStays(rulingsReq[w], leaves)
    OBVIOUS
  <2>1. rulingsReq[w].op = "idle"
    BY <1>1
  <2>2. Decided(rulingsReq[w])
    BY <2>1 DEF Decided
  <2>3. ApproverStays(rulingsReq[w], leaves)
    BY <2>1 DEF ApproverStays
  <2>. QED  BY <2>2, <2>3
<1>3. \A l \in Leaves : leaves[l] = R!NoRow
  BY DEF R!Init
<1>4. leaves \in [Leaves -> R!Leave \cup {R!NoRow}]
  BY DEF R!Init
<1>5. R!ApprovedHasApprover
  BY <1>3 DEF R!ApprovedHasApprover
<1>. QED  BY <1>2, <1>4, <1>5 DEF R!Init, Ruled

LEMMA RuledServe ==
  ASSUME Ruled, NEW w \in Workers, NEW r, R!Serve(w, r)
  PROVE  /\ rulingsReq'[w] = r /\ \A v \in Workers \ {w} : rulingsReq'[v] = rulingsReq[v]
         /\ DOMAIN rulingsReq' = Workers
BY DEF Ruled, R!Serve

\* Steps that leave the leave requests alone.
LEMMA RuledElsewhere ==
  ASSUME Ruled, NEW w \in Workers, NEW r, R!Serve(w, r), Decided(r), r.op # "decide",
         UNCHANGED leaves,
         DOMAIN certificates' = Certificates, DOMAIN applications' = Applications
  PROVE  Ruled'
<1>1. \A v \in Workers : Decided(rulingsReq'[v]) /\ ApproverStays(rulingsReq'[v], leaves)
  BY RuledServe DEF Ruled, ApproverStays
<1>2. R!ApprovedHasApprover'
  BY DEF Ruled, R!ApprovedHasApprover
<1>. QED  BY <1>1, <1>2, RuledServe DEF Ruled, Decided

LEMMA LeaveFields ==
  ASSUME NEW leave \in R!Leave
  PROVE  /\ leave # R!NoRow
         /\ DOMAIN leave = {"is", "status", "approved_by"}
         /\ leave.is = "leave" /\ leave.approved_by \in R!Who
         /\ leave.status \in {"pending", "approved", "rejected"}
<1>1. leave.is = "leave" /\ leave.status \in {"pending", "approved", "rejected"}
  BY DEF R!Leave
<1>2. leave.approved_by \in R!Who
  BY DEF R!Leave
<1>3. DOMAIN leave = {"is", "status", "approved_by"}
  BY DEF R!Leave
<1>4. R!NoRow.is = "no row"
  BY DEF R!NoRow
<1>5. leave # R!NoRow
  BY <1>1, <1>4
<1>. QED  BY <1>1, <1>2, <1>3, <1>5

\* A decision on a leave request that is there: what is written is a row, one
\* that is approved has an approver, and an approver stays.
LEMMA DecisionWritten ==
  ASSUME "nobody" \notin Users, NEW r, NEW leave \in R!Leave, Decided(r), r.op = "decide",
         r.before.approved_by # "nobody" => leave.approved_by # "nobody",
         leave.status = "approved" => leave.approved_by # "nobody"
  PROVE  /\ R!Written(r, leave) \in R!Leave
         /\ R!Written(r, leave).status = "approved" =>
              R!Written(r, leave).approved_by # "nobody"
         /\ leave.approved_by # "nobody" => R!Written(r, leave).approved_by # "nobody"
<1>. DEFINE written == R!Written(r, leave)
<1>1. /\ DOMAIN r.before = {"is", "status", "approved_by"} /\ r.before.is = "leave"
      /\ r.before.approved_by \in R!Who
      /\ r.before.status \in {"pending", "approved", "rejected"}
  BY LeaveFields DEF Decided
<1>2. /\ DOMAIN leave = {"is", "status", "approved_by"} /\ leave.is = "leave"
      /\ leave.approved_by \in R!Who /\ leave.status \in {"pending", "approved", "rejected"}
  BY LeaveFields
<1>3. /\ DOMAIN r.after = {"is", "status", "approved_by"} /\ r.after.is = "leave"
      /\ \/ r.after.status = "rejected" /\ r.after.approved_by = r.before.approved_by
         \/ r.after.status = "approved" /\ r.after.approved_by \in Users
  <2>1. CASE r.after = R!Rejected(r.before)
    BY <1>1, <2>1 DEF R!Rejected
  <2>2. ASSUME NEW user \in Users, r.after = R!Approved(r.before, user)
        PROVE  /\ DOMAIN r.after = {"is", "status", "approved_by"} /\ r.after.is = "leave"
               /\ r.after.status = "approved" /\ r.after.approved_by \in Users
    BY <1>1, <2>2 DEF R!Approved
  <2>. QED  BY <2>1, <2>2 DEF Decided
<1>4. /\ written.is = "leave"
      /\ written.status = IF r.after.status = r.before.status THEN leave.status ELSE r.after.status
      /\ written.approved_by = IF r.after.approved_by = r.before.approved_by
                               THEN leave.approved_by ELSE r.after.approved_by
  BY <1>1, <1>2, <1>3 DEF R!Written
<1>5. written = [is |-> written.is, status |-> written.status,
                 approved_by |-> written.approved_by]
  BY <1>3 DEF R!Written
<1>. HIDE DEF written
<1>6. written.approved_by \in R!Who /\ written.status \in {"pending", "approved", "rejected"}
  BY <1>2, <1>3, <1>4 DEF R!Who
<1>7. written \in R!Leave
  BY <1>4, <1>5, <1>6 DEF R!Leave
<1>8. leave.approved_by # "nobody" => written.approved_by # "nobody"
  BY <1>3, <1>4
<1>9. written.status = "approved" => written.approved_by # "nobody"
  BY <1>3, <1>4
<1>. QED  BY <1>7, <1>8, <1>9 DEF written

LEMMA RuledDecision ==
  ASSUME "nobody" \notin Users, Ruled, NEW w \in Workers, R!DecideLeaveCommit(w)
  PROVE  Ruled'
<1>. DEFINE r == rulingsReq[w]
            key == r.key
            written == R!Written(r, leaves[key])
<1>1. /\ Decided(r) /\ ApproverStays(r, leaves) /\ r.op = "decide"
      /\ leaves' = [leaves EXCEPT ![key] = written]
      /\ R!Serve(w, R!Idle) /\ UNCHANGED <<certificates, batches, applications>>
  BY DEF R!DecideLeaveCommit, Ruled, R!Finish
<1>2. key \in Leaves /\ leaves[key] \in R!Leave
  BY <1>1 DEF Decided, ApproverStays, Ruled
<1>3. /\ leaves[key].status = "approved" => leaves[key].approved_by # "nobody"
      /\ r.before.approved_by # "nobody" => leaves[key].approved_by # "nobody"
  BY <1>1, <1>2, LeaveFields DEF Ruled, R!ApprovedHasApprover, ApproverStays
<1>. HIDE DEF r, key
<1>4. /\ written \in R!Leave
      /\ written.status = "approved" => written.approved_by # "nobody"
      /\ leaves[key].approved_by # "nobody" => written.approved_by # "nobody"
  BY <1>1, <1>2, <1>3, DecisionWritten
<1>5. /\ leaves' \in [Leaves -> R!Leave \cup {R!NoRow}]
      /\ leaves'[key] = written /\ \A l \in Leaves \ {key} : leaves'[l] = leaves[l]
  <2>. HIDE DEF written
  <2>1. leaves \in [Leaves -> R!Leave \cup {R!NoRow}] /\ written \in R!Leave
    BY <1>4 DEF Ruled
  <2>. QED  BY <1>1, <1>2, <2>1
<1>6. R!ApprovedHasApprover'
  BY <1>4, <1>5 DEF Ruled, R!ApprovedHasApprover
<1>7. ASSUME NEW v \in Workers
      PROVE  Decided(rulingsReq'[v]) /\ ApproverStays(rulingsReq'[v], leaves')
  <2>1. CASE v = w
    <3>1. rulingsReq'[v] = [op |-> "idle"]
      BY <1>1, <2>1, RuledServe DEF R!Idle
    <3>. QED  BY <3>1 DEF Decided, ApproverStays
  <2>2. CASE v # w
    <3>1. rulingsReq'[v] = rulingsReq[v]
      BY <1>1, <2>2, RuledServe
    <3>2. Decided(rulingsReq[v]) /\ ApproverStays(rulingsReq[v], leaves)
      BY DEF Ruled
    <3>3. ApproverStays(rulingsReq[v], leaves')
      <4>. HIDE DEF written
      <4>1. written # R!NoRow
        BY <1>4, LeaveFields
      <4>. QED  BY <1>4, <1>5, <3>2, <4>1 DEF ApproverStays, Decided
    <3>. QED  BY <3>1, <3>2, <3>3
  <2>. QED  BY <2>1, <2>2
<1>. QED  BY <1>1, <1>5, <1>6, <1>7, RuledServe DEF Ruled

\* A new leave request is pending, and one that is read is remembered as it is.
LEMMA LeaveSubmitted ==
  ASSUME Ruled, NEW l \in Leaves, R!SubmitLeave(l)
  PROVE  Ruled'
<1>. DEFINE new == [is |-> "leave", status |-> "pending", approved_by |-> "nobody"]
<1>1. /\ leaves' = [leaves EXCEPT ![l] = new] /\ leaves[l] = R!NoRow
      /\ UNCHANGED <<certificates, batches, applications, rulingsReq>>
  BY DEF R!SubmitLeave
<1>2. new \in R!Leave /\ new.status = "pending"
  BY DEF R!Leave, R!Who
<1>3. new # R!NoRow
  BY <1>2, LeaveFields
<1>. HIDE DEF new
<1>4. /\ leaves' \in [Leaves -> R!Leave \cup {R!NoRow}]
      /\ leaves'[l] = new /\ \A k \in Leaves \ {l} : leaves'[k] = leaves[k]
  BY <1>1, <1>2 DEF Ruled
<1>5. R!ApprovedHasApprover'
  BY <1>2, <1>4 DEF Ruled, R!ApprovedHasApprover
<1>6. \A w \in Workers : Decided(rulingsReq[w]) /\ ApproverStays(rulingsReq[w], leaves')
  BY <1>1, <1>4 DEF Ruled, ApproverStays, Decided
<1>. QED  BY <1>1, <1>4, <1>5, <1>6 DEF Ruled

LEMMA LeaveRead ==
  ASSUME Ruled, NEW w \in Workers, NEW l \in Leaves, NEW user \in Users,
         R!DecideLeaveRead(w, l, user)
  PROVE  Ruled'
<1>1. PICK after \in {R!Approved(leaves[l], user), R!Rejected(leaves[l])} :
        R!Serve(w, [op |-> "decide", key |-> l, before |-> leaves[l], after |-> after])
  BY DEF R!DecideLeaveRead, R!Begin
<1>2. /\ leaves[l] # R!NoRow
      /\ UNCHANGED <<certificates, leaves, batches, applications>>
  BY DEF R!DecideLeaveRead
<1>. DEFINE r == [op |-> "decide", key |-> l, before |-> leaves[l], after |-> after]
<1>3. Decided(r) /\ ApproverStays(r, leaves)
  <2>1. leaves[l] \in R!Leave
    BY <1>2 DEF Ruled
  <2>. QED  BY <1>2, <2>1 DEF Decided, ApproverStays
<1>4. rulingsReq'[w] = r /\ \A v \in Workers \ {w} : rulingsReq'[v] = rulingsReq[v]
  BY <1>1, RuledServe
<1>. HIDE DEF r
<1>5. \A v \in Workers : Decided(rulingsReq'[v]) /\ ApproverStays(rulingsReq'[v], leaves)
  BY <1>3, <1>4 DEF Ruled
<1>6. DOMAIN rulingsReq' = Workers
  BY <1>1, RuledServe
<1>. QED  BY <1>2, <1>5, <1>6 DEF Ruled, R!ApprovedHasApprover

LEMMA RuledNext ==
  ASSUME "nobody" \notin Users
  PROVE  Ruled /\ [R!Next]_R!vars => Ruled'
<1>. SUFFICES ASSUME Ruled, [R!Next]_R!vars PROVE Ruled'
  OBVIOUS
<1>1. ASSUME NEW w \in Workers, R!CertificateStep(w) PROVE Ruled'
  <2>1. ASSUME NEW c \in Certificates, NEW title \in Values, R!UpdateCertificateRead(w, c, title)
        PROVE  Ruled'
    <3>1. PICK after : R!Serve(w, [op |-> "update", key |-> c, before |-> certificates[c],
                                   after |-> after])
      BY <2>1 DEF R!UpdateCertificateRead, R!Begin
    <3>2. ~certificates[c].is_revoked
      BY <2>1 DEF R!UpdateCertificateRead, R!MayChange
    <3>. QED  BY <2>1, <3>1, <3>2, RuledElsewhere DEF R!UpdateCertificateRead, Ruled, Decided
  <2>2. ASSUME NEW c \in Certificates, NEW user \in Users, R!RevokeCertificateRead(w, c, user)
        PROVE  Ruled'
    <3>1. PICK after : R!Serve(w, [op |-> "revoke", key |-> c, before |-> certificates[c],
                                   after |-> after])
      BY <2>2 DEF R!RevokeCertificateRead, R!Begin
    <3>2. ~certificates[c].is_revoked
      BY <2>2 DEF R!RevokeCertificateRead, R!MayChange
    <3>. QED  BY <2>2, <3>1, <3>2, RuledElsewhere DEF R!RevokeCertificateRead, Ruled, Decided
  <2>3. CASE R!CertificateCommit(w)
    <3>1. R!Serve(w, [op |-> "idle"]) /\ DOMAIN certificates' = Certificates
      BY <2>3 DEF R!CertificateCommit, R!Finish, R!Idle, Ruled
    <3>. QED  BY <2>3, <3>1, RuledElsewhere DEF R!CertificateCommit, Ruled, Decided
  <2>. QED  BY <1>1, <2>1, <2>2, <2>3 DEF R!CertificateStep
<1>2. ASSUME NEW w \in Workers, R!LeaveStep(w) PROVE Ruled'
  BY <1>2, LeaveRead, RuledDecision DEF R!LeaveStep
<1>3. ASSUME NEW w \in Workers, R!AdmissionStep(w) PROVE Ruled'
  <2>1. PICK r : /\ R!Serve(w, r) /\ Decided(r) /\ r.op # "decide"
                 /\ DOMAIN applications' = Applications
                 /\ UNCHANGED <<certificates, leaves>>
    <3>. DEFINE Goal == \E r : /\ R!Serve(w, r) /\ Decided(r) /\ r.op # "decide"
                               /\ DOMAIN applications' = Applications
                               /\ UNCHANGED <<certificates, leaves>>
    <3>1. ASSUME NEW b \in AdmissionBatches, NEW is_active, R!UpdateBatchRead(w, b, is_active) PROVE Goal
      <4>. DEFINE r == [op |-> "update_batch", key |-> b, before |-> batches[b],
                        after |-> is_active]
      <4>1. R!Serve(w, r) /\ UNCHANGED <<certificates, leaves, applications>>
        BY <3>1 DEF R!UpdateBatchRead, R!Begin
      <4>2. Decided(r) /\ r.op # "decide"
        BY DEF Decided
      <4>. QED  BY <4>1, <4>2 DEF Ruled
    <3>2. ASSUME NEW a \in Applications, NEW b \in AdmissionBatches, R!ApplyRead(w, a, b) PROVE Goal
      <4>. DEFINE r == [op |-> "apply", key |-> a, batch |-> b, before |-> batches[b]]
      <4>1. R!Serve(w, r) /\ UNCHANGED <<certificates, leaves, applications>>
        BY <3>2 DEF R!ApplyRead, R!Begin
      <4>2. Decided(r) /\ r.op # "decide"
        BY <3>2 DEF R!ApplyRead, R!TakesApplications, Decided
      <4>. QED  BY <4>1, <4>2 DEF Ruled
    <3>3. ASSUME NEW a \in Applications, NEW status, NEW user, R!ReviewRead(w, a, status, user)
          PROVE  Goal
      <4>1. PICK after : R!Serve(w, [op |-> "review", key |-> a, before |-> applications[a],
                                     after |-> after])
        BY <3>3 DEF R!ReviewRead, R!Begin
      <4>. DEFINE r == [op |-> "review", key |-> a, before |-> applications[a], after |-> after]
      <4>2. R!Serve(w, r) /\ UNCHANGED <<certificates, leaves, applications>>
        BY <3>3, <4>1 DEF R!ReviewRead
      <4>3. Decided(r) /\ r.op # "decide"
        BY DEF Decided
      <4>. QED  BY <4>2, <4>3 DEF Ruled
    <3>4. CASE R!UpdateBatchCommit(w) \/ R!ApplyCommit(w) \/ R!ReviewCommit(w)
      <4>1. /\ R!Serve(w, R!Idle) /\ DOMAIN applications' = Applications
            /\ UNCHANGED <<certificates, leaves>>
        BY <3>4 DEF R!UpdateBatchCommit, R!ApplyCommit, R!ReviewCommit, R!Finish, Ruled
      <4>2. Decided(R!Idle) /\ R!Idle.op # "decide"
        BY DEF Decided, R!Idle
      <4>. QED  BY <4>1, <4>2
    <3>. QED  BY <1>3, <3>1, <3>2, <3>3, <3>4 DEF R!AdmissionStep
  <2>. QED  BY <2>1, RuledElsewhere DEF Ruled
<1>4. ASSUME NEW w \in Workers, R!Abort(w) PROVE Ruled'
  <2>1. R!Serve(w, [op |-> "idle"]) /\ UNCHANGED <<certificates, leaves, batches, applications>>
    BY <1>4 DEF R!Abort, R!Finish, R!Idle
  <2>. QED  BY <2>1, RuledElsewhere DEF Ruled, Decided
<1>5. CASE R!AtOnce
  <2>1. ASSUME UNCHANGED <<leaves, rulingsReq>>,
               DOMAIN certificates' = Certificates, DOMAIN applications' = Applications
        PROVE  Ruled'
    BY <2>1 DEF Ruled, R!ApprovedHasApprover
  <2>. QED  BY <1>5, <2>1, LeaveSubmitted
            DEF R!AtOnce, R!IssueCertificate, R!CreateBatch, R!DeleteBatch, Ruled
<1>6. CASE UNCHANGED R!vars
  BY <1>6 DEF R!vars, Ruled, R!ApprovedHasApprover
<1>. QED  BY <1>1, <1>2, <1>3, <1>4, <1>5, <1>6 DEF R!Next

\* However decisions overlap, a leave request that stands as approved names
\* its approver, provided "nobody" is no user: a rejection takes no approver
\* away, and an approval writes one where it read none.
THEOREM ApprovedHasApproverHolds ==
  ASSUME "nobody" \notin Users
  PROVE  R!Spec => []R!ApprovedHasApprover
<1>1. Ruled => R!ApprovedHasApprover
  BY DEF Ruled
<1>2. Ruled /\ [R!Next]_R!vars => Ruled'
  BY RuledNext
<1>. QED  BY <1>1, <1>2, RuledInit, PTL DEF R!Spec

\* What writes to a certificate that is there is a commit of a request for it.
LEMMA CertificateWritten ==
  ASSUME Ruled, R!Next, NEW c \in Certificates,
         certificates[c] # R!NoRow, certificates'[c] # certificates[c]
  PROVE  \E w \in Workers : /\ rulingsReq[w].op \in {"update", "revoke"}
                            /\ rulingsReq[w].key = c
<1>1. ASSUME NEW w \in Workers, R!CertificateCommit(w)
      PROVE  rulingsReq[w].op \in {"update", "revoke"} /\ rulingsReq[w].key = c
  BY <1>1 DEF R!CertificateCommit, Ruled
<1>2. ASSUME NEW d \in Certificates, NEW title \in Values, R!IssueCertificate(d, title)
      PROVE  FALSE
  BY <1>2 DEF R!IssueCertificate, Ruled
<1>. QED  BY <1>1, <1>2
  DEF R!Next, R!CertificateStep, R!LeaveStep, R!AdmissionStep, R!AtOnce, R!Abort,
      R!UpdateCertificateRead, R!RevokeCertificateRead, R!DecideLeaveRead, R!DecideLeaveCommit,
      R!UpdateBatchRead, R!UpdateBatchCommit, R!ApplyRead, R!ApplyCommit, R!ReviewRead,
      R!ReviewCommit, R!SubmitLeave, R!CreateBatch, R!DeleteBatch

\* A revoked certificate changes only at the commit of a request that read it
\* before it was revoked.
THEOREM RevokedChanges ==
  ASSUME "nobody" \notin Users
  PROVE  R!Spec => R!RevokedChangesOnlyByStaleReads
<1>1. ASSUME Ruled, R!Next, NEW c \in Certificates,
             certificates[c] # R!NoRow, certificates'[c] # certificates[c]
      PROVE  \E w \in Workers :
               /\ rulingsReq[w].op \in {"update", "revoke"} /\ rulingsReq[w].key = c
               /\ ~rulingsReq[w].before.is_revoked
  BY <1>1, CertificateWritten DEF Ruled, Decided
<1>2. Ruled /\ [R!Next]_R!vars =>
        [\A c \in Certificates :
           certificates[c] # R!NoRow /\ certificates[c].is_revoked
           /\ certificates'[c] # certificates[c] =>
             \E w \in Workers :
               /\ rulingsReq[w].op \in {"update", "revoke"} /\ rulingsReq[w].key = c
               /\ ~rulingsReq[w].before.is_revoked]_R!vars
  BY <1>1
<1>3. Ruled /\ [R!Next]_R!vars => Ruled'
  BY RuledNext
<1>. QED  BY <1>2, <1>3, RuledInit, PTL DEF R!Spec, R!RevokedChangesOnlyByStaleReads

\* A batch whose is_active is false gets a new application only at the commit of
\* an application that read it when it was true.
THEOREM ClosedBatchesGrow ==
  ASSUME "nobody" \notin Users
  PROVE  R!Spec => R!ClosedBatchesGrowOnlyByStaleReads
<1>1. ASSUME Ruled, R!Next, NEW a \in Applications,
             applications[a] = R!NoRow, applications'[a] # R!NoRow
      PROVE  \E w \in Workers : /\ rulingsReq[w].op = "apply" /\ rulingsReq[w].key = a
                                /\ rulingsReq[w].before = "active"
  <2>1. ASSUME NEW w \in Workers, R!ApplyCommit(w)
        PROVE  /\ rulingsReq[w].op = "apply" /\ rulingsReq[w].key = a
               /\ rulingsReq[w].before = "active"
    BY <1>1, <2>1 DEF R!ApplyCommit, Ruled, Decided
  <2>2. ASSUME NEW w \in Workers, R!ReviewCommit(w) PROVE FALSE
    BY <1>1, <2>2 DEF R!ReviewCommit, Ruled
  <2>3. ASSUME NEW b \in AdmissionBatches, R!DeleteBatch(b) PROVE FALSE
    BY <1>1, <2>3 DEF R!DeleteBatch
  <2>. QED  BY <1>1, <2>1, <2>2, <2>3, ZenonT(60)
    DEF R!Next, R!CertificateStep, R!LeaveStep, R!AdmissionStep, R!AtOnce, R!Abort,
        R!UpdateCertificateRead, R!RevokeCertificateRead, R!CertificateCommit,
        R!DecideLeaveRead, R!DecideLeaveCommit, R!UpdateBatchRead, R!UpdateBatchCommit,
        R!ApplyRead, R!ReviewRead, R!IssueCertificate, R!SubmitLeave, R!CreateBatch
<1>2. Ruled /\ [R!Next]_R!vars =>
        [\A a \in Applications :
           applications[a] = R!NoRow /\ applications'[a] # R!NoRow
           /\ batches[applications'[a].batch] # "active" =>
             \E w \in Workers :
               rulingsReq[w].op = "apply" /\ rulingsReq[w].key = a
               /\ rulingsReq[w].before = "active"]_R!vars
  BY <1>1
<1>3. Ruled /\ [R!Next]_R!vars => Ruled'
  BY RuledNext
<1>. QED  BY <1>2, <1>3, RuledInit, PTL DEF R!Spec, R!ClosedBatchesGrowOnlyByStaleReads

-----------------------------------------------------------------------------
(* Origins *)

\* A request of a process whose memory of its origin is right: it is the only
\* one for the origin, the row is as it read it, and it has changed memory if
\* it says so.
Underway(r, p, o) ==
  /\ r.gone = FALSE
  /\ r.op = "create" => rows[o] = "no row"
  /\ r.step = "read" => (o \in allowed[p] <=> o \in Static \cup O!Active)
  /\ r.step = "changed" =>
       (o \in allowed[p] <=> r.to = "active" \/ (r.op = "create" /\ o \in Static))

\* The memory of a process is right about an origin, or will be when the one
\* request that this process serves for it is committed.
Right(p, o) ==
  /\ \A w \in O!Pending(o) :
       originsReq[w].process = p => O!Pending(o) = {w} /\ Underway(originsReq[w], p, o)
  /\ (\A w \in O!Pending(o) : originsReq[w].process # p) =>
       (o \in allowed[p] <=> o \in Static \cup O!Active)

Tracked ==
  /\ DOMAIN rows = Entries /\ DOMAIN allowed = Keys /\ DOMAIN drifted = Keys
  /\ originsReq \in [Workers -> O!Request]
  /\ \A p \in Keys : \A o \in Entries \ drifted[p] : Right(p, o)

LEMMA TrackedMatches == Tracked => O!MemoryMatchesTable
BY DEF Tracked, Right, O!MemoryMatchesTable

LEMMA TrackedInit == O!Init => Tracked
<1>. SUFFICES ASSUME O!Init PROVE Tracked
  OBVIOUS
<1>1. \A o \in Entries : O!Pending(o) = {}
  BY DEF O!Init, O!Pending
<1>2. O!Active = {}
  BY DEF O!Init, O!Active
<1>3. \A p \in Keys, o \in Entries : Right(p, o)
  BY <1>1, <1>2 DEF Right, O!Init
<1>. QED  BY <1>3 DEF Tracked, O!Init, O!Request

\* The fields of a request that is under way.
LEMMA RequestFields ==
  ASSUME NEW r \in O!Request, r # O!Idle
  PROVE  /\ DOMAIN r = {"op", "step", "process", "origin", "to", "gone"}
         /\ r.op \in {"create", "delete", "toggle"} /\ r.step \in {"read", "changed"}
         /\ r.process \in Keys /\ r.origin \in Entries /\ r.to \in O!Row
         /\ r.gone \in BOOLEAN
<1>1. r \in [op : {"create", "delete", "toggle"}, step : {"read", "changed"},
             process : Keys, origin : Entries, to : O!Row, gone : BOOLEAN]
  BY DEF O!Request
<1>. QED  BY <1>1

\* A pair whose origin has the same requests, memory and row as before.
LEMMA RightStays ==
  ASSUME NEW p, NEW o, Right(p, o), O!Pending(o)' = O!Pending(o),
         \A w \in O!Pending(o) : originsReq'[w] = originsReq[w],
         o \in allowed'[p] <=> o \in allowed[p],
         rows'[o] = rows[o], o \in Entries
  PROVE  Right(p, o)'
<1>1. o \in O!Active' <=> o \in O!Active
  BY DEF O!Active
<1>. QED  BY <1>1 DEF Right, Underway

LEMMA OriginTypes ==
  ASSUME Tracked, NEW w \in Workers
  PROVE  originsReq[w] \in O!Request
BY DEF Tracked

\* A request begins: alone, or every process may drift.
LEMMA BeginTracked ==
  ASSUME Tracked, NEW w \in Workers, NEW op \in {"create", "delete", "toggle"},
         NEW p \in Keys, NEW o \in Entries, NEW to \in O!Row,
         O!Begin(w, op, p, o, to), op = "create" => rows[o] = "no row"
  PROVE  Tracked'
<1>. DEFINE r == [op |-> op, step |-> "read", process |-> p, origin |-> o, to |-> to,
                  gone |-> FALSE]
<1>1. r \in O!Request /\ r # O!Idle
  <2>1. r \in O!Request
    BY DEF O!Request
  <2>2. r.op # "idle" /\ O!Idle.op = "idle"
    BY DEF O!Idle
  <2>. QED  BY <2>1, <2>2
<1>2. /\ originsReq[w] = O!Idle /\ originsReq' = [originsReq EXCEPT ![w] = r]
      /\ rows' = rows /\ allowed' = allowed
      /\ drifted' = [q \in Keys |->
           drifted[q] \cup IF q \in (IF O!Pending(o) = {} THEN {} ELSE Keys)
                           THEN {o} ELSE {}]
  BY DEF O!Begin, O!Drift
<1>3. /\ originsReq'[w] = r /\ \A v \in Workers \ {w} : originsReq'[v] = originsReq[v]
      /\ originsReq' \in [Workers -> O!Request]
  BY <1>1, <1>2 DEF Tracked
<1>4. /\ r.op = op /\ r.step = "read" /\ r.process = p /\ r.origin = o /\ r.gone = FALSE
  OBVIOUS
<1>. HIDE DEF r
<1>5. O!Pending(o)' = O!Pending(o) \cup {w} /\ w \notin O!Pending(o)
  BY <1>1, <1>2, <1>3, <1>4 DEF O!Pending
<1>6. ASSUME NEW q \in Keys, NEW x \in Entries \ drifted'[q] PROVE Right(q, x)'
  <2>1. Right(q, x)
    BY <1>2, <1>6 DEF Tracked
  <2>2. CASE x # o
    <3>1. O!Pending(x)' = O!Pending(x) /\ \A v \in O!Pending(x) : originsReq'[v] = originsReq[v]
      BY <1>2, <1>3, <1>4, <2>2 DEF O!Pending
    <3>. QED  BY <1>2, <2>1, <3>1, RightStays
  <2>3. CASE x = o
    <3>1. O!Pending(o) = {}
      BY <1>2, <1>6, <2>3
    <3>2. o \in allowed[q] <=> o \in Static \cup O!Active
      BY <2>1, <2>3, <3>1 DEF Right
    <3>3. O!Pending(o)' = {w} /\ O!Active' = O!Active
      BY <1>2, <1>5, <3>1 DEF O!Active
    <3>4. Underway(r, q, o)'
      BY <1>2, <1>4, <3>2, <3>3 DEF Underway
    <3>. QED  BY <1>2, <1>3, <1>4, <2>3, <3>2, <3>3, <3>4 DEF Right
  <2>. QED  BY <2>2, <2>3
<1>. QED  BY <1>2, <1>3, <1>6 DEF Tracked

\* When a process has a request for an origin under way and is right about it,
\* no other process is waiting for a request of its own.
LEMMA NoOtherRequest ==
  ASSUME NEW p, NEW o, NEW w \in O!Pending(o), originsReq[w].process # p, Right(p, o)
  PROVE  /\ \A v \in O!Pending(o) : originsReq[v].process # p
         /\ o \in allowed[p] <=> o \in Static \cup O!Active
BY DEF Right

LEMMA ChangeTracked ==
  ASSUME Tracked, NEW w \in Workers, O!ChangeMemory(w)
  PROVE  Tracked'
<1>0. PICK r : r = originsReq[w]
  OBVIOUS
<1>. DEFINE p == r.process
            o == r.origin
<1>1. /\ r \in O!Request /\ r # O!Idle /\ r.step = "read"
      /\ allowed' = [allowed EXCEPT ![p] = O!InMemory(@, r)]
      /\ originsReq' = [originsReq EXCEPT ![w] = [r EXCEPT !.step = "changed"]]
      /\ rows' = rows /\ drifted' = drifted
  BY <1>0 DEF O!ChangeMemory, Tracked
<1>2. /\ DOMAIN r = {"op", "step", "process", "origin", "to", "gone"}
      /\ r.op \in {"create", "delete", "toggle"} /\ p \in Keys /\ o \in Entries
      /\ r.to \in O!Row /\ r.gone \in BOOLEAN
  BY <1>1, RequestFields
<1>. DEFINE s == [r EXCEPT !.step = "changed"]
<1>3. /\ s.op = r.op /\ s.step = "changed" /\ s.process = p /\ s.origin = o
      /\ s.to = r.to /\ s.gone = r.gone
  BY <1>2
<1>4. s \in O!Request
  <2>1. s = [op |-> r.op, step |-> "changed", process |-> p, origin |-> o, to |-> r.to,
             gone |-> r.gone]
    BY <1>2
  <2>. HIDE DEF s
  <2>. QED  BY <1>2, <2>1 DEF O!Request
<1>5. s # O!Idle
  <2>1. O!Idle.op = "idle"
    BY DEF O!Idle
  <2>. QED  BY <1>2, <1>3, <2>1
<1>. HIDE DEF s
<1>6. /\ originsReq'[w] = s /\ \A v \in Workers \ {w} : originsReq'[v] = originsReq[v]
      /\ originsReq' \in [Workers -> O!Request]
  <2>1. originsReq' = [originsReq EXCEPT ![w] = s]
    BY <1>1 DEF s
  <2>. QED  BY <1>4, <2>1 DEF Tracked
<1>7. \A x : O!Pending(x)' = O!Pending(x)
  BY <1>0, <1>1, <1>3, <1>5, <1>6 DEF O!Pending
<1>8. O!Active' = O!Active
  BY <1>1 DEF O!Active
<1>9. w \in O!Pending(o)
  BY <1>0, <1>1 DEF O!Pending
<1>10. /\ allowed'[p] = O!InMemory(allowed[p], r)
       /\ \A q \in Keys \ {p} : allowed'[q] = allowed[q]
       /\ DOMAIN allowed' = Keys
  BY <1>1, <1>2 DEF Tracked
<1>11. ASSUME NEW q \in Keys, NEW x \in Entries \ drifted'[q] PROVE Right(q, x)'
  <2>1. Right(q, x)
    BY <1>1, <1>11 DEF Tracked
  <2>2. CASE x # o
    <3>1. x \in allowed'[q] <=> x \in allowed[q]
      BY <1>10, <2>2 DEF O!InMemory
    <3>2. \A v \in O!Pending(x) : originsReq'[v] = originsReq[v]
      BY <1>0, <1>6, <2>2 DEF O!Pending
    <3>. QED  BY <1>1, <1>7, <2>1, <3>1, <3>2, RightStays
  <2>3. CASE x = o /\ q # p
    <3>1. /\ \A v \in O!Pending(o) : originsReq[v].process # q
          /\ o \in allowed[q] <=> o \in Static \cup O!Active
      BY <1>0, <1>9, <2>1, <2>3, NoOtherRequest
    <3>2. \A v \in O!Pending(o)' : originsReq'[v].process # q
      BY <1>3, <1>6, <1>7, <2>3, <3>1 DEF O!Pending
    <3>. QED  BY <1>8, <1>10, <2>3, <3>1, <3>2 DEF Right
  <2>4. CASE x = o /\ q = p
    <3>1. O!Pending(o) = {w} /\ Underway(r, p, o)
      BY <1>0, <1>9, <2>1, <2>4 DEF Right
    <3>2. o \in allowed'[p] <=> s.to = "active" \/ (s.op = "create" /\ o \in Static)
      <4>1. o \in allowed[p] <=> o \in Static \cup O!Active
        BY <1>1, <3>1 DEF Underway
      <4>2. r.op = "create" => o \notin O!Active
        BY <3>1 DEF Underway, O!Active
      <4>. QED  BY <1>2, <1>3, <1>10, <4>1, <4>2 DEF O!InMemory
    <3>3. Underway(s, p, o)'
      BY <1>1, <1>3, <3>1, <3>2 DEF Underway
    <3>. QED  BY <1>3, <1>6, <1>7, <2>4, <3>1, <3>3 DEF Right
  <2>. QED  BY <2>2, <2>3, <2>4
<1>. QED  BY <1>1, <1>6, <1>10, <1>11 DEF Tracked

\* A request for an origin is over. What its process remembers of the origin
\* is right afterwards if the last step did not make it drift.
LEMMA CommitTracked ==
  ASSUME Tracked, NEW w \in Workers, O!Commit(w)
  PROVE  Tracked'
<1>0. PICK r : r = originsReq[w]
  OBVIOUS
<1>. DEFINE p == r.process
            o == r.origin
<1>1. /\ r \in O!Request /\ r # O!Idle /\ r.step = "changed" /\ allowed' = allowed
      /\ r.gone => r.op = "delete"
      /\ rows' = IF r.gone THEN rows ELSE [rows EXCEPT ![o] = r.to]
  BY <1>0 DEF O!Commit, Tracked
<1>2. /\ DOMAIN r = {"op", "step", "process", "origin", "to", "gone"}
      /\ r.op \in {"create", "delete", "toggle"} /\ p \in Keys /\ o \in Entries
      /\ r.to \in O!Row /\ r.gone \in BOOLEAN
  BY <1>1, RequestFields
<1>3. originsReq' = [v \in Workers |->
           IF v = w THEN O!Idle
           ELSE IF r.op = "delete" /\ v \in O!Pending(o) \ {w} /\ originsReq[v].op # "create"
           THEN [originsReq[v] EXCEPT !.gone = TRUE]
           ELSE originsReq[v]]
  BY <1>0 DEF O!Commit
<1>4. drifted' = [q \in Keys |->
           drifted[q] \cup IF q \in O!Misled(r) THEN {o} ELSE {}]
  BY <1>0 DEF O!Commit, O!Drift
<1>5. w \in O!Pending(o)
  BY <1>0, <1>1 DEF O!Pending
<1>6. \A v \in Workers \ O!Pending(o) : originsReq'[v] = originsReq[v]
  BY <1>3, <1>5
<1>7. \A v \in O!Pending(o) : originsReq'[v] # O!Idle => originsReq'[v].origin = o
  <2>. SUFFICES ASSUME NEW v \in O!Pending(o), originsReq'[v] # O!Idle
                PROVE  originsReq'[v].origin = o
    OBVIOUS
  <2>1. /\ v \in Workers /\ originsReq[v] # O!Idle /\ originsReq[v].origin = o
        /\ "origin" \in DOMAIN originsReq[v]
    BY RequestFields, OriginTypes DEF O!Pending
  <2>. QED  BY <1>3, <2>1
<1>8. originsReq' \in [Workers -> O!Request]
  <2>1. ASSUME NEW v \in Workers PROVE originsReq'[v] \in O!Request
    <3>1. CASE originsReq'[v] = O!Idle \/ originsReq'[v] = originsReq[v]
      BY <3>1, OriginTypes DEF O!Request
    <3>2. CASE v \in O!Pending(o) /\ originsReq'[v] = [originsReq[v] EXCEPT !.gone = TRUE]
      <4>1. PICK s : s = originsReq[v]
        OBVIOUS
      <4>2. s \in O!Request /\ s # O!Idle
        BY <3>2, <4>1, OriginTypes DEF O!Pending
      <4>. DEFINE Served == [op : {"create", "delete", "toggle"}, step : {"read", "changed"},
                             process : Keys, origin : Entries, to : O!Row, gone : BOOLEAN]
      <4>3. s \in Served
        BY <4>2 DEF O!Request
      <4>4. [s EXCEPT !.gone = TRUE] \in Served
        BY <4>3
      <4>5. [s EXCEPT !.gone = TRUE] \in O!Request
        BY <4>4 DEF O!Request
      <4>. QED  BY <3>2, <4>1, <4>5
    <3>. QED  BY <1>3, <3>1, <3>2
  <2>. QED  BY <1>3, <2>1
<1>9. \A x \in Entries \ {o} : rows'[x] = rows[x]
  BY <1>1 DEF Tracked
<1>10. DOMAIN rows' = Entries
  BY <1>1 DEF Tracked
<1>11. ASSUME NEW q \in Keys, NEW x \in Entries \ drifted'[q] PROVE Right(q, x)'
  <2>1. Right(q, x) /\ x \notin drifted[q]
    BY <1>4, <1>11 DEF Tracked
  <2>2. CASE x # o
    <3>1. \A v \in O!Pending(x) : v \in Workers \ O!Pending(o)
      BY <2>2 DEF O!Pending
    <3>2. O!Pending(x)' = O!Pending(x)
      BY <1>6, <1>7, <2>2 DEF O!Pending
    <3>3. \A v \in O!Pending(x) : originsReq'[v] = originsReq[v]
      BY <1>6, <3>1
    <3>. QED  BY <1>1, <1>9, <2>1, <2>2, <3>2, <3>3, RightStays
  <2>3. CASE x = o
    <3>1. q \notin O!Misled(r)
      BY <1>4, <1>11, <2>3
    <3>2. q = p /\ ~(o \in Static /\ r.to # "active")
      BY <3>1 DEF O!Misled
    <3>3. O!Pending(o) = {w} /\ Underway(r, p, o)
      BY <1>0, <1>5, <2>1, <2>3, <3>2 DEF Right
    <3>4. O!Pending(x)' = {}
      <4>1. originsReq'[w] = O!Idle
        BY <1>3
      <4>. QED  BY <1>6, <2>3, <3>3, <4>1 DEF O!Pending
    <3>5. rows'[o] = r.to
      BY <1>1, <1>2, <3>3 DEF Tracked, Underway
    <3>6. x \in O!Active' <=> r.to = "active"
      BY <1>2, <2>3, <3>5 DEF O!Active
    <3>7. o \in allowed[p] <=> r.to = "active" \/ (r.op = "create" /\ o \in Static)
      BY <1>1, <3>3 DEF Underway
    <3>8. x \in allowed'[q] <=> x \in Static \cup O!Active'
      BY <1>1, <2>3, <3>2, <3>6, <3>7
    <3>. QED  BY <3>4, <3>8 DEF Right
  <2>. QED  BY <2>2, <2>3
<1>. QED  BY <1>1, <1>4, <1>8, <1>10, <1>11 DEF Tracked

LEMMA AbortTracked ==
  ASSUME Tracked, NEW w \in Workers, O!Abort(w)
  PROVE  Tracked'
<1>0. PICK r : r = originsReq[w]
  OBVIOUS
<1>. DEFINE p == r.process
            o == r.origin
<1>1. /\ r \in O!Request /\ r # O!Idle /\ allowed' = allowed /\ rows' = rows
      /\ originsReq' = [originsReq EXCEPT ![w] = O!Idle]
      /\ drifted' = [q \in Keys |->
           drifted[q] \cup IF q \in (IF r.step = "changed" THEN {p} ELSE {}) THEN {o} ELSE {}]
  BY <1>0 DEF O!Abort, Tracked, O!Drift
<1>2. /\ originsReq'[w] = O!Idle /\ \A v \in Workers \ {w} : originsReq'[v] = originsReq[v]
      /\ originsReq' \in [Workers -> O!Request]
  BY <1>1 DEF Tracked, O!Request
<1>3. \A x : O!Pending(x)' = O!Pending(x) \ {w}
  BY <1>2 DEF O!Pending
<1>4. w \in O!Pending(o) /\ r.step \in {"read", "changed"}
  BY <1>0, <1>1, RequestFields DEF O!Pending
<1>5. O!Active' = O!Active
  BY <1>1 DEF O!Active
<1>6. ASSUME NEW q \in Keys, NEW x \in Entries \ drifted'[q] PROVE Right(q, x)'
  <2>1. Right(q, x)
    BY <1>1, <1>6 DEF Tracked
  <2>2. CASE x # o
    <3>1. w \notin O!Pending(x)
      BY <1>0, <2>2 DEF O!Pending
    <3>2. O!Pending(x)' = O!Pending(x) /\ \A v \in O!Pending(x) : originsReq'[v] = originsReq[v]
      BY <1>2, <1>3, <3>1 DEF O!Pending
    <3>. QED  BY <1>1, <2>1, <3>2, RightStays
  <2>3. CASE x = o /\ q # p
    <3>1. /\ \A v \in O!Pending(o) : originsReq[v].process # q
          /\ o \in allowed[q] <=> o \in Static \cup O!Active
      BY <1>0, <1>4, <2>1, <2>3, NoOtherRequest
    <3>2. \A v \in O!Pending(x)' : originsReq'[v].process # q
      BY <1>2, <1>3, <2>3, <3>1 DEF O!Pending
    <3>. QED  BY <1>1, <1>5, <2>3, <3>1, <3>2 DEF Right
  <2>4. CASE x = o /\ q = p
    <3>1. r.step = "read"
      BY <1>1, <1>4, <1>6, <2>4
    <3>2. O!Pending(o) = {w} /\ Underway(r, p, o)
      BY <1>0, <1>4, <2>1, <2>4 DEF Right
    <3>3. O!Pending(x)' = {}
      BY <1>3, <2>4, <3>2
    <3>4. x \in allowed'[q] <=> x \in Static \cup O!Active'
      BY <1>1, <1>5, <2>4, <3>1, <3>2 DEF Underway
    <3>. QED  BY <3>3, <3>4 DEF Right
  <2>. QED  BY <2>2, <2>3, <2>4
<1>. QED  BY <1>1, <1>2, <1>6 DEF Tracked

\* A process starts afresh: its requests are gone, its memory is new.
LEMMA RestartTracked ==
  ASSUME Tracked, NEW p \in Keys, NEW loaded, O!Restart(p, loaded),
         loaded \subseteq O!Active
  PROVE  Tracked'
<1>1. /\ \A v \in Workers :
           originsReq'[v] = IF originsReq[v] # O!Idle /\ originsReq[v].process = p
                            THEN O!Idle ELSE originsReq[v]
      /\ originsReq' \in [Workers -> O!Request]
  BY OriginTypes DEF O!Restart, O!Request
<1>2. /\ allowed'[p] = Static \cup loaded /\ drifted'[p] = O!Active \ loaded
      /\ \A q \in Keys \ {p} : allowed'[q] = allowed[q] /\ drifted'[q] = drifted[q]
      /\ DOMAIN allowed' = Keys /\ DOMAIN drifted' = Keys /\ rows' = rows
  BY DEF O!Restart, Tracked
<1>3. \A x : O!Pending(x)' = {v \in O!Pending(x) : originsReq[v].process # p}
  BY <1>1 DEF O!Pending
<1>4. O!Active' = O!Active
  BY <1>2 DEF O!Active
<1>5. \A x : \A v \in O!Pending(x)' : originsReq'[v] = originsReq[v]
  BY <1>1, <1>3 DEF O!Pending
<1>6. ASSUME NEW q \in Keys, NEW x \in Entries \ drifted'[q] PROVE Right(q, x)'
  <2>1. CASE q = p
    <3>1. x \in allowed'[q] <=> x \in Static \cup O!Active'
      BY <1>2, <1>4, <1>6, <2>1
    <3>2. \A v \in O!Pending(x)' : originsReq'[v].process # q
      BY <1>3, <1>5, <2>1
    <3>. QED  BY <3>1, <3>2 DEF Right
  <2>2. CASE q # p
    <3>1. Right(q, x)
      BY <1>2, <1>6, <2>2 DEF Tracked
    <3>2. ASSUME NEW v \in O!Pending(x)', originsReq'[v].process = q
          PROVE  O!Pending(x)' = {v} /\ Underway(originsReq[v], q, x)'
      <4>1. v \in O!Pending(x) /\ originsReq'[v] = originsReq[v] /\ originsReq[v].process = q
        BY <1>3, <1>5, <3>2
      <4>2. O!Pending(x) = {v} /\ Underway(originsReq[v], q, x)
        BY <3>1, <4>1 DEF Right
      <4>3. O!Pending(x)' = {v}
        BY <1>3, <2>2, <4>1, <4>2
      <4>4. Underway(originsReq[v], q, x)'
        BY <1>2, <1>4, <2>2, <4>1, <4>2 DEF Underway
      <4>. QED  BY <4>3, <4>4
    <3>3. ASSUME \A v \in O!Pending(x)' : originsReq'[v].process # q
          PROVE  x \in allowed'[q] <=> x \in Static \cup O!Active'
      <4>1. \A v \in O!Pending(x) : originsReq[v].process # q
        BY <1>3, <1>5, <2>2, <3>3
      <4>. QED  BY <1>2, <1>4, <2>2, <3>1, <4>1 DEF Right
    <3>. QED  BY <3>2, <3>3 DEF Right
  <2>. QED  BY <2>1, <2>2
<1>. QED  BY <1>1, <1>2, <1>6 DEF Tracked, O!Restart

LEMMA TrackedNext == Tracked /\ [O!Next]_O!vars => Tracked'
<1>. SUFFICES ASSUME Tracked, [O!Next]_O!vars PROVE Tracked'
  OBVIOUS
<1>1. ASSUME NEW w \in Workers, O!RequestStep(w) PROVE Tracked'
  <2>1. ASSUME NEW p \in Keys, NEW o \in Entries, NEW is_active \in {"active", "inactive"},
               O!CreateRead(w, p, o, is_active)
        PROVE  Tracked'
    BY <2>1, BeginTracked DEF O!CreateRead, O!Row
  <2>2. ASSUME NEW p \in Keys, NEW o \in Entries, O!DeleteRead(w, p, o) PROVE Tracked'
    BY <2>2, BeginTracked DEF O!DeleteRead, O!Row
  <2>3. ASSUME NEW p \in Keys, NEW o \in Entries, O!ToggleRead(w, p, o) PROVE Tracked'
    BY <2>3, BeginTracked DEF O!ToggleRead, O!Row
  <2>. QED  BY <1>1, <2>1, <2>2, <2>3, ChangeTracked, CommitTracked, AbortTracked
            DEF O!RequestStep
<1>2. ASSUME NEW p \in Keys, O!Restart(p, O!Active) \/ O!Restart(p, {}) PROVE Tracked'
  <2>1. PICK loaded : loaded = O!Active
    OBVIOUS
  <2>2. ASSUME O!Restart(p, O!Active) PROVE O!Restart(p, loaded)
    BY <2>1, <2>2 DEF O!Restart
  <2>3. loaded \subseteq O!Active /\ {} \subseteq O!Active
    BY <2>1
  <2>. QED  BY <1>2, <2>2, <2>3, RestartTracked
<1>3. CASE UNCHANGED O!vars
  <2>1. \A x : O!Pending(x)' = O!Pending(x)
    BY <1>3 DEF O!vars, O!Pending
  <2>2. ASSUME NEW q \in Keys, NEW x \in Entries \ drifted'[q] PROVE Right(q, x)'
    BY <1>3, <2>1, <2>2, RightStays DEF O!vars, Tracked
  <2>. QED  BY <1>3, <2>2 DEF O!vars, Tracked
<1>. QED  BY <1>1, <1>2, <1>3 DEF O!Next

\* A process allows an origin, when no request for it is under way, exactly if
\* the environment or the table says so, unless one of the named causes made
\* it drift: for any number of processes, restarting whenever they like.
THEOREM MemoryMatchesTableHolds == O!Spec => []O!MemoryMatchesTable
BY TrackedInit, TrackedNext, TrackedMatches, PTL DEF O!Spec
-----------------------------------------------------------------------------
(* Grades *)

LEMMA LetterType == \A score : score_to_letter(score) \in Letters
BY DEF score_to_letter, Letters

LEMMA GradedType ==
  ASSUME NEW score \in Scores
  PROVE  Graded(score) \in Grade
BY LetterType DEF Graded, Grade

\* The last of some places in a sequence is one of them.
LEMMA LastIsLast ==
  ASSUME NEW n \in Nat, NEW places \in SUBSET (1..n), places # {}
  PROVE  LastAt(places) \in places /\ \A j \in places : j <= LastAt(places)
<1>. DEFINE fromEnd == {n - j : j \in places}
<1>1. IsWellFoundedOn(OpToRel(<, Nat), Nat)
  BY NatLessThanWellFounded
<1>2. fromEnd \in SUBSET Nat /\ fromEnd # {}
  <2>1. \A j \in places : j \in 1..n
    OBVIOUS
  <2>2. \A j \in places : n - j \in Nat
    BY <2>1
  <2>. QED  BY <2>2
<1>3. PICK d \in fromEnd : \A e \in fromEnd : ~ (<<e, d>> \in OpToRel(<, Nat))
  <2>. HIDE DEF fromEnd
  <2>. QED  BY <1>1, <1>2, WFMin
<1>4. \A e \in fromEnd : ~(e < d)
  BY <1>2, <1>3 DEF OpToRel
<1>5. PICK i \in places : d = n - i
  BY <1>3
<1>6. \A j \in places : j <= i
  BY <1>4, <1>5
<1>. QED  BY <1>6 DEF LastAt

\* What a batch holds when it has read all of its rows.
LEMMA BatchShape ==
  ASSUME TypeOK, NEW w \in Workers, req[w] # Idle
  PROVE  /\ req[w] \in Batch
         /\ req[w].items \in Seq(Item) /\ req[w].read \in Seq(Grade \cup {NoGrade})
BY BatchesAssumption DEF TypeOK, Batch

\* The grade a batch wants where one of its items is.
LEMMA WantedType ==
  ASSUME NEW batch, batch.items \in Seq(Item), batch.read \in Seq(Grade \cup {NoGrade}),
         Len(batch.read) = Len(batch.items), NEW i \in DOMAIN batch.read
  PROVE  batch.items[i].key \in Key /\ Wanted(batch, batch.items[i].key) \in Grade
<1>. DEFINE k == batch.items[i].key
            places == Places(batch, k)
            n == Len(batch.read)
<1>1. n \in Nat /\ DOMAIN batch.read = 1..n /\ \A j \in 1..n : batch.items[j] \in Item
  OBVIOUS
<1>2. places \in SUBSET (1..n) /\ i \in places
  BY <1>1 DEF Places
<1>3. LastAt(places) \in 1..n
  <2>. HIDE DEF places, n
  <2>. QED  BY <1>1, <1>2, LastIsLast
<1>4. batch.items[LastAt(places)].score \in Scores /\ k \in Key
  BY <1>1, <1>3 DEF Item
<1>. QED  BY <1>4, GradedType DEF Wanted

LEMMA GradeFields ==
  ASSUME NEW grade \in Grade \cup {NoGrade}
  PROVE  grade = [column \in DOMAIN NoGrade |-> grade[column]]
BY DEF Grade, NoGrade

LEMMA UpdatedType ==
  ASSUME NEW batch, NEW k, Wanted(batch, k) \in Grade, grades[k] \in Grade
  PROVE  Updated(batch, k) \in Grade
<1>. DEFINE new == Updated(batch, k)
<1>1. new = [column \in {"score", "grade_letter"} |-> new[column]]
  BY DEF Updated, NoGrade
<1>2. /\ new["score"] \in {grades[k].score, Wanted(batch, k).score}
      /\ new["grade_letter"] \in {grades[k].grade_letter, Wanted(batch, k).grade_letter}
  BY DEF Updated, NoGrade
<1>3. new["score"] \in Scores /\ new["grade_letter"] \in Letters \cup Sent
  BY <1>2 DEF Grade
<1>. HIDE DEF new
<1>4. new = [score |-> new["score"], grade_letter |-> new["grade_letter"]]
  BY <1>1
<1>5. new \in Grade
  BY <1>3, <1>4 DEF Grade
<1>. QED  BY <1>5 DEF new

LEMMA BatchCommitType ==
  ASSUME TypeOK, NEW w \in Workers, BatchCommit(w)
  PROVE  grades' \in [Key -> Grade \cup {NoGrade}]
<1>. DEFINE batch == req[w]
            Touched == {batch.items[i].key : i \in DOMAIN batch.read}
            Inserted == {batch.items[i].key : i \in Inserts(batch)}
<1>1. /\ batch.items \in Seq(Item) /\ batch.read \in Seq(Grade \cup {NoGrade})
      /\ Len(batch.read) = Len(batch.items)
      /\ grades' = [k \in Key |->
           IF k \in Inserted THEN Wanted(batch, k)
           ELSE IF k \in Touched /\ grades[k] # NoGrade THEN Updated(batch, k)
           ELSE grades[k]]
  BY BatchShape DEF BatchCommit
<1>2. \A k \in Touched : Wanted(batch, k) \in Grade
  BY <1>1, WantedType
<1>3. Inserted \subseteq Touched
  BY DEF Inserts
<1>. HIDE DEF Touched, Inserted
<1>4. ASSUME NEW k \in Key PROVE grades'[k] \in Grade \cup {NoGrade}
  <2>1. CASE k \in Inserted
    BY <1>1, <1>2, <1>3, <2>1
  <2>2. CASE k \notin Inserted /\ k \in Touched /\ grades[k] # NoGrade
    <3>1. grades[k] \in Grade
      BY <2>2 DEF TypeOK
    <3>. QED  BY <1>1, <1>2, <2>2, <3>1, UpdatedType
  <2>3. CASE k \notin Inserted /\ ~(k \in Touched /\ grades[k] # NoGrade)
    BY <1>1, <2>3 DEF TypeOK
  <2>. QED  BY <2>1, <2>2, <2>3
<1>. QED  BY <1>1, <1>4

LEMMA GradesInit == Init => TypeOK
BY DEF Init, TypeOK

LEMMA GradesNext == TypeOK /\ [Next]_vars => TypeOK'
<1>. SUFFICES ASSUME TypeOK, [Next]_vars PROVE TypeOK'
  OBVIOUS
<1>1. ASSUME NEW s \in Subjects, CreateSubject(s) \/ DeleteSubject(s) PROVE TypeOK'
  BY <1>1 DEF CreateSubject, DeleteSubject, TypeOK
<1>2. ASSUME ByHand PROVE TypeOK'
  <2>1. PICK k \in Key, score \in Scores, letter \in Sent :
          RecordGrade(k, [score |-> score, grade_letter |-> letter])
    BY <1>2 DEF ByHand
  <2>2. [score |-> score, grade_letter |-> letter] \in Grade
    BY DEF Grade
  <2>. QED  BY <2>1, <2>2 DEF RecordGrade, TypeOK
<1>3. ASSUME NEW w \in Workers, NEW items \in Batches, BatchBegin(w, items) PROVE TypeOK'
  <2>1. [op |-> "batch", items |-> items, read |-> <<>>] \in Batch
    BY DEF Batch
  <2>. QED  BY <1>3, <2>1 DEF BatchBegin, TypeOK
<1>4. ASSUME NEW w \in Workers, BatchRead(w) PROVE TypeOK'
  <2>. DEFINE item == req[w].items[Len(req[w].read) + 1]
  <2>1. /\ req[w] \in Batch /\ req[w].items \in Seq(Item)
        /\ req[w].read \in Seq(Grade \cup {NoGrade})
    BY <1>4, BatchShape DEF BatchRead
  <2>2. item \in Item
    BY <1>4, <2>1 DEF BatchRead
  <2>3. grades[item.key] \in Grade \cup {NoGrade}
    BY <2>2 DEF TypeOK, Item
  <2>4. req' = [req EXCEPT ![w].read = Append(@, grades[item.key])]
    BY <1>4 DEF BatchRead
  <2>. HIDE DEF item
  <2>5. [req[w] EXCEPT !.read = Append(@, grades[item.key])] \in Batch
    <3>1. Append(req[w].read, grades[item.key]) \in Seq(Grade \cup {NoGrade})
      BY <2>1, <2>3
    <3>. QED  BY <2>1, <3>1 DEF Batch
  <2>6. req' = [req EXCEPT ![w] = [req[w] EXCEPT !.read = Append(@, grades[item.key])]]
    BY <2>4
  <2>. QED  BY <1>4, <2>5, <2>6 DEF BatchRead, TypeOK
<1>5. ASSUME NEW w \in Workers, BatchCommit(w) PROVE TypeOK'
  BY <1>5, BatchCommitType DEF BatchCommit, TypeOK
<1>6. ASSUME NEW w \in Workers, Abort(w) PROVE TypeOK'
  BY <1>6 DEF Abort, TypeOK
<1>7. CASE UNCHANGED vars
  BY <1>7 DEF vars, TypeOK
<1>. QED  BY <1>1, <1>2, <1>3, <1>4, <1>5, <1>6, <1>7 DEF Next, BatchStep

\* Whatever batches overlap, a grade that is there has a score and a letter
\* that somebody gave, and a batch has read one row for each item it passed.
THEOREM GradesTypeCorrect == Spec => []TypeOK
BY GradesInit, GradesNext, PTL DEF Spec

\* What a commit writes where its last item for a grade is, if nobody came
\* between its read and its write.
LEMMA ItemIsRecorded ==
  ASSUME TypeOK, NEW w \in Workers, BatchCommit(w), NEW i \in DOMAIN req[w].items,
         LET items == req[w].items
             k == items[i].key
         IN  grades[k] = Read(req[w], k) /\ \A j \in DOMAIN items : j > i => items[j].key # k
  PROVE  grades'[req[w].items[i].key] = Graded(req[w].items[i].score)
<1>. DEFINE batch == req[w]
            items == batch.items
            k == items[i].key
            places == Places(batch, k)
            Touched == {batch.items[j].key : j \in DOMAIN batch.read}
            Inserted == {batch.items[j].key : j \in Inserts(batch)}
<1>1. /\ items \in Seq(Item) /\ batch.read \in Seq(Grade \cup {NoGrade})
      /\ Len(batch.read) = Len(items)
      /\ \A x \in Touched \ Inserted : grades[x] = NoGrade => Wanted(batch, x) = Read(batch, x)
      /\ grades' = [x \in Key |->
           IF x \in Inserted THEN Wanted(batch, x)
           ELSE IF x \in Touched /\ grades[x] # NoGrade THEN Updated(batch, x)
           ELSE grades[x]]
  BY BatchShape DEF BatchCommit
<1>2. i \in DOMAIN batch.read /\ i \in 1..Len(items)
  BY <1>1
<1>3. k \in Key /\ k \in Touched /\ Wanted(batch, k) \in Grade
  BY <1>1, <1>2, WantedType
<1>4. Wanted(batch, k) = Graded(items[i].score)
  <2>1. places \in SUBSET (1..Len(items)) /\ i \in places /\ \A j \in places : j <= i
    BY <1>1, <1>2 DEF Places
  <2>2. LastAt(places) = i
    <3>. HIDE DEF places
    <3>1. Len(items) \in Nat
      BY <1>1
    <3>2. LastAt(places) \in places /\ i <= LastAt(places)
      BY <2>1, <3>1, LastIsLast
    <3>. QED  BY <1>2, <2>1, <3>2
  <2>. QED  BY <2>2 DEF Wanted
<1>5. grades[k] = Read(batch, k)
  OBVIOUS
<1>. HIDE DEF k, Touched, Inserted
<1>6. CASE k \in Inserted
  BY <1>1, <1>3, <1>4, <1>6 DEF k
<1>7. CASE k \notin Inserted /\ grades[k] # NoGrade
  <2>1. grades'[k] = Updated(batch, k)
    BY <1>1, <1>3, <1>7
  <2>2. Updated(batch, k) = [column \in DOMAIN NoGrade |-> Wanted(batch, k)[column]]
    BY <1>5 DEF Updated
  <2>3. grades'[k] = Wanted(batch, k)
    BY <1>3, <2>1, <2>2, GradeFields
  <2>. QED  BY <1>4, <2>3 DEF k
<1>8. CASE k \notin Inserted /\ grades[k] = NoGrade
  BY <1>1, <1>3, <1>4, <1>5, <1>8 DEF k
<1>. QED  BY <1>6, <1>7, <1>8

\* A batch that is answered with success has recorded every grade in it where
\* no other request changed the row after it was read: the rows it inserts,
\* and the columns the update names together with those it leaves out.
THEOREM BatchIsRecordedHolds == Spec => BatchIsRecorded
<1>1. ASSUME TypeOK, Next, NEW w \in Workers, req[w] # Idle, req'[w] = Idle, grades' # grades
      PROVE  BatchCommit(w)
  <2>1. PICK v \in Workers : BatchCommit(v)
    BY <1>1 DEF Next, BatchStep, CreateSubject, DeleteSubject, ByHand, RecordGrade, BatchBegin,
                BatchRead, Abort
  <2>2. v = w
    BY <1>1, <2>1 DEF BatchCommit
  <2>. QED  BY <2>1, <2>2
<1>2. TypeOK /\ [Next]_vars =>
        [\A w \in Workers :
           req[w] # Idle /\ req'[w] = Idle /\ grades' # grades =>
             \A i \in DOMAIN req[w].items :
               LET items == req[w].items
                   k == items[i].key
               IN  grades[k] = Read(req[w], k) /\ (\A j \in DOMAIN items : j > i => items[j].key # k) =>
                     grades'[k] = Graded(items[i].score)]_vars
  BY <1>1, ItemIsRecorded
<1>. QED  BY <1>2, GradesTypeCorrect, PTL DEF Spec, BatchIsRecorded

-----------------------------------------------------------------------------
(* Teachers and their accounts *)

\* What a request found out stays so, because rows are never removed: the
\* account and the teacher it is to change are there. A phone it takes for
\* the phone of the account it found is that account's, as it was read.
Known(r, users, staff) ==
  /\ r.op = "create_user" => r.found = {}
  /\ r.op = "update_user" => users[r.user] # P!NoRow
  /\ r.op \in {"update", "save"} /\ r.seen # P!NoRow =>
       /\ staff[r.teacher] # P!NoRow
       /\ r.seen.user # "none" => users[r.seen.user] # P!NoRow
  /\ r.op = "save" =>
       /\ r.user # "new" => users[r.user] # P!NoRow
       /\ P!IsLinked(r.seen) => r.user = r.seen.user
       /\ ~P!IsLinked(r.seen) /\ r.user # "new" => r.read = r.phone

\* A teacher is linked only to an account that is there.
Linked(users, staff) ==
  \A n \in NIPs : staff[n] # P!NoRow /\ staff[n].user # "none" => users[staff[n].user] # P!NoRow

Staffed ==
  /\ P!TypeOK
  /\ Linked(accounts, teachers)
  /\ \A w \in Workers : Known(peopleReq[w], accounts, teachers)

RowsStay ==
  /\ \A a \in Keys : accounts[a] # P!NoRow => accounts'[a] # P!NoRow
  /\ \A n \in NIPs : teachers[n] # P!NoRow => teachers'[n] # P!NoRow

LEMMA PeopleFields ==
  /\ \A a \in P!Account : /\ a # P!NoRow /\ a.phone \in Values \cup {"none"}
                          /\ a.email \in Values \cup {"own"}
  /\ \A t \in P!Teacher : /\ t # P!NoRow /\ t.phone \in Values \cup {"none"}
                          /\ t.user \in Keys \cup {"none"} /\ t.is_deleted \in BOOLEAN
<1>1. P!NoRow.is = "no row"
  BY DEF P!NoRow
<1>2. ASSUME NEW a \in P!Account
      PROVE  /\ a # P!NoRow /\ a.phone \in Values \cup {"none"}
             /\ a.email \in Values \cup {"own"}
  BY <1>1 DEF P!Account
<1>3. ASSUME NEW t \in P!Teacher
      PROVE  /\ t # P!NoRow /\ t.phone \in Values \cup {"none"}
             /\ t.user \in Keys \cup {"none"} /\ t.is_deleted \in BOOLEAN
  BY <1>1 DEF P!Teacher
<1>. QED  BY <1>2, <1>3

LEMMA PeopleRequest ==
  ASSUME NEW r \in P!Request
  PROVE  /\ r.op = "create_user" => r.phone \in Values
         /\ r.op = "update_user" => /\ r.user \in Keys /\ r.phone \in Values \cup {"none"}
                                    /\ r.read \in Values \cup {"none"}
         /\ r.op = "update" => /\ r.teacher \in NIPs /\ r.phone \in Values
                               /\ r.seen \in P!Teacher
         /\ r.op = "save" => /\ r.teacher \in NIPs /\ r.phone \in Values
                             /\ r.seen \in P!Teacher \cup {P!NoRow}
                             /\ r.user \in Keys \cup {"new"} /\ r.read \in Values \cup {"none"}
BY DEF P!Request, P!Idle

LEMMA KnownStays ==
  ASSUME Staffed, RowsStay, NEW w \in Workers
  PROVE  Known(peopleReq[w], accounts', teachers')
<1>1. peopleReq[w] \in P!Request /\ Known(peopleReq[w], accounts, teachers)
  BY DEF Staffed, P!TypeOK
<1>2. \A t \in P!Teacher : t.user \in Keys \cup {"none"}
  BY PeopleFields
<1>. QED  BY <1>1, <1>2, PeopleRequest DEF Known, RowsStay

\* A step that keeps the rows it finds and serves one request at most.
LEMMA StaffedStep ==
  ASSUME Staffed, RowsStay,
         accounts' \in [Keys -> P!Account \cup {P!NoRow}],
         teachers' \in [NIPs -> P!Teacher \cup {P!NoRow}],
         Linked(accounts', teachers'),
         \/ UNCHANGED peopleReq
         \/ \E w \in Workers, r \in P!Request :
              P!Serve(w, r) /\ Known(r, accounts', teachers')
  PROVE  Staffed'
<1>1. peopleReq' \in [Workers -> P!Request]
  BY DEF Staffed, P!TypeOK, P!Serve
<1>2. \A w \in Workers : \/ peopleReq'[w] = peopleReq[w]
                         \/ Known(peopleReq'[w], accounts', teachers')
  BY DEF Staffed, P!TypeOK, P!Serve
<1>3. \A w \in Workers : Known(peopleReq'[w], accounts', teachers')
  BY <1>2, KnownStays
<1>. QED  BY <1>1, <1>3 DEF Staffed, P!TypeOK

LEMMA StaffedIdle == P!Idle \in P!Request /\ \A users, staff : Known(P!Idle, users, staff)
BY DEF P!Request, P!Idle, Known

\* Reading changes what the request knows and nothing else.
LEMMA StaffedRead ==
  ASSUME Staffed, UNCHANGED <<accounts, teachers>>, NEW w \in Workers,
         NEW r \in P!Request, P!Serve(w, r), Known(r, accounts, teachers)
  PROVE  Staffed'
<1>1. accounts' = accounts /\ teachers' = teachers
  OBVIOUS
<1>. QED  BY <1>1, StaffedStep DEF Staffed, P!TypeOK, RowsStay

LEMMA FindAccountStaffed ==
  ASSUME Staffed, NEW w \in Workers, NEW n \in NIPs, NEW phone \in Values,
         NEW row \in P!Teacher \cup {P!NoRow}, P!FindAccount(w, n, phone, row),
         row # P!NoRow => /\ teachers[n] # P!NoRow
                          /\ row.user # "none" => accounts[row.user] # P!NoRow
  PROVE  Staffed'
<1>1. PICK user \in P!AccountFor(row, phone) :
        P!Serve(w, [op |-> "save", teacher |-> n, phone |-> phone, seen |-> row, user |-> user,
                    read |-> IF user = "new" THEN "none" ELSE accounts[user].phone])
  BY DEF P!FindAccount
<1>. DEFINE read == IF user = "new" THEN "none" ELSE accounts[user].phone
            r == [op |-> "save", teacher |-> n, phone |-> phone, seen |-> row, user |-> user,
                  read |-> read]
<1>2. /\ P!IsLinked(row) => user = row.user /\ user \in Keys /\ accounts[user] # P!NoRow
      /\ ~P!IsLinked(row) /\ user # "new" =>
           user \in Keys /\ accounts[user] # P!NoRow /\ accounts[user].phone = phone
  BY PeopleFields DEF P!AccountFor, P!IsLinked, P!Holders, P!Registered
<1>3. user \in Keys \cup {"new"} /\ (user # "new" => accounts[user] # P!NoRow)
  BY <1>2
<1>4. read \in Values \cup {"none"}
  BY <1>3, PeopleFields DEF Staffed, P!TypeOK
<1>5. P!Serve(w, r) /\ UNCHANGED <<accounts, teachers>>
  BY <1>1 DEF P!FindAccount
<1>6. ~P!IsLinked(row) /\ user # "new" => read = phone
  BY <1>2
<1>. HIDE DEF read
<1>7. r \in P!Request
  BY <1>3, <1>4 DEF P!Request
<1>8. Known(r, accounts, teachers)
  BY <1>2, <1>3, <1>6 DEF Known
<1>. HIDE DEF r
<1>. QED  BY <1>5, <1>7, <1>8, StaffedRead

LEMMA ReadsStaffed ==
  ASSUME Staffed, NEW w \in Workers,
         \/ \E phone \in Values : P!CreateUserRead(w, phone)
         \/ \E a \in Keys, phone \in Values \cup {"none"} : P!UpdateUserRead(w, a, phone)
         \/ \E n \in NIPs, phone \in Values :
              P!CreateTeacherRead(w, n, phone) \/ P!UpdateTeacherRead(w, n, phone)
         \/ P!UpdateTeacherReadAccount(w)
         \/ P!Abort(w)
  PROVE  Staffed'
<1>1. ASSUME NEW phone \in Values, P!CreateUserRead(w, phone) PROVE Staffed'
  <2>. DEFINE r == [op |-> "create_user", phone |-> phone, found |-> P!Holders(phone)]
  <2>1. P!Serve(w, r) /\ UNCHANGED <<accounts, teachers>> /\ P!Holders(phone) = {}
    BY <1>1 DEF P!CreateUserRead, P!MayRegister
  <2>2. r \in P!Request /\ Known(r, accounts, teachers)
    BY <2>1 DEF P!Request, Known
  <2>. HIDE DEF r
  <2>. QED  BY <2>1, <2>2, StaffedRead
<1>2. ASSUME NEW a \in Keys, NEW phone \in Values \cup {"none"}, P!UpdateUserRead(w, a, phone)
      PROVE  Staffed'
  <2>. DEFINE r == [op |-> "update_user", user |-> a, phone |-> phone,
                    read |-> accounts[a].phone]
  <2>1. P!Serve(w, r) /\ UNCHANGED <<accounts, teachers>> /\ accounts[a] # P!NoRow
    BY <1>2 DEF P!UpdateUserRead, P!Registered
  <2>2. accounts[a].phone \in Values \cup {"none"}
    BY <2>1, PeopleFields DEF Staffed, P!TypeOK
  <2>3. r \in P!Request /\ Known(r, accounts, teachers)
    BY <2>1, <2>2 DEF P!Request, Known
  <2>. HIDE DEF r
  <2>. QED  BY <2>1, <2>3, StaffedRead
<1>3. ASSUME NEW n \in NIPs, NEW phone \in Values, P!CreateTeacherRead(w, n, phone)
      PROVE  Staffed'
  BY <1>3, FindAccountStaffed DEF P!CreateTeacherRead
<1>4. ASSUME NEW n \in NIPs, NEW phone \in Values, P!UpdateTeacherRead(w, n, phone)
      PROVE  Staffed'
  <2>. DEFINE r == [op |-> "update", teacher |-> n, phone |-> phone, seen |-> teachers[n]]
  <2>1. P!Serve(w, r) /\ UNCHANGED <<accounts, teachers>> /\ teachers[n] # P!NoRow
    BY <1>4 DEF P!UpdateTeacherRead, P!Live
  <2>2. teachers[n] \in P!Teacher
    BY <2>1 DEF Staffed, P!TypeOK
  <2>3. r \in P!Request
    BY <2>2 DEF P!Request
  <2>4. Known(r, accounts, teachers)
    BY <2>1, <2>2 DEF Known, Staffed, Linked
  <2>. HIDE DEF r
  <2>. QED  BY <2>1, <2>3, <2>4, StaffedRead
<1>5. CASE P!UpdateTeacherReadAccount(w)
  <2>1. /\ peopleReq[w].teacher \in NIPs /\ peopleReq[w].phone \in Values
        /\ peopleReq[w].seen \in P!Teacher
    BY <1>5, PeopleRequest DEF P!UpdateTeacherReadAccount, Staffed, P!TypeOK
  <2>2. Known(peopleReq[w], accounts, teachers) /\ peopleReq[w].seen # P!NoRow
    BY <2>1, PeopleFields DEF Staffed
  <2>. QED  BY <1>5, <2>1, <2>2, FindAccountStaffed DEF P!UpdateTeacherReadAccount, Known
<1>6. CASE P!Abort(w)
  BY <1>6, StaffedIdle, StaffedRead DEF P!Abort, P!Finish
<1>. QED  BY <1>1, <1>2, <1>3, <1>4, <1>5, <1>6

-----------------------------------------------------------------------------
\* An account is made.
LEMMA Registers ==
  ASSUME Staffed, NEW a \in Keys, NEW phone \in Values \cup {"none"},
         NEW email \in Values \cup {"own"}, P!Register(a, phone, email)
  PROVE  /\ accounts[a] = P!NoRow /\ accounts' \in [Keys -> P!Account \cup {P!NoRow}]
         /\ accounts'[a].phone = phone /\ accounts'[a].email = email /\ accounts'[a] # P!NoRow
         /\ \A b \in Keys \ {a} : accounts'[b] = accounts[b]
<1>. DEFINE new == [is |-> "account", phone |-> phone, email |-> email]
<1>1. new \in P!Account /\ new.phone = phone /\ new.email = email
  BY DEF P!Account
<1>. HIDE DEF new
<1>2. new # P!NoRow
  BY <1>1, PeopleFields
<1>3. accounts[a] = P!NoRow /\ accounts' = [accounts EXCEPT ![a] = new]
  BY DEF P!Register, new
<1>. QED  BY <1>1, <1>2, <1>3 DEF Staffed, P!TypeOK

\* An account that is there gets another phone and nothing else.
LEMMA PhoneWritten ==
  ASSUME Staffed, NEW a \in Keys, accounts[a] # P!NoRow, NEW phone \in Values \cup {"none"},
         accounts' = [accounts EXCEPT ![a].phone = phone]
  PROVE  /\ accounts' \in [Keys -> P!Account \cup {P!NoRow}]
         /\ accounts'[a].phone = phone /\ accounts'[a].email = accounts[a].email
         /\ accounts'[a] # P!NoRow
         /\ \A b \in Keys \ {a} : accounts'[b] = accounts[b]
<1>. DEFINE new == [accounts[a] EXCEPT !.phone = phone]
<1>1. accounts[a] \in P!Account
  BY DEF Staffed, P!TypeOK
<1>2. new \in P!Account /\ new.phone = phone /\ new.email = accounts[a].email
  BY <1>1 DEF P!Account
<1>. HIDE DEF new
<1>3. new # P!NoRow
  BY <1>2, PeopleFields
<1>4. accounts' = [accounts EXCEPT ![a] = new]
  BY DEF new
<1>. QED  BY <1>2, <1>3, <1>4 DEF Staffed, P!TypeOK

\* What a save leaves in the row of its teacher.
SavedRow(n, phone, seen, user) ==
  IF seen = P!NoRow
  THEN [is |-> "teacher", phone |-> phone, user |-> user, is_deleted |-> FALSE]
  ELSE [teachers[n] EXCEPT !.phone = P!Write(seen.phone, phone, teachers[n].phone),
                           !.user = P!Write(seen.user, user, teachers[n].user)]

LEMMA RowSaved ==
  ASSUME Staffed, NEW n \in NIPs, NEW phone \in Values \cup {"none"},
         NEW seen \in P!Teacher \cup {P!NoRow}, NEW user \in Keys \cup {"none"},
         seen # P!NoRow => teachers[n] # P!NoRow, P!SaveRow(n, phone, seen, user)
  PROVE  LET row == SavedRow(n, phone, seen, user)
         IN  /\ row \in P!Teacher /\ row # P!NoRow
             /\ row.phone = IF seen = P!NoRow THEN phone
                            ELSE P!Write(seen.phone, phone, teachers[n].phone)
             /\ row.user = IF seen = P!NoRow THEN user
                           ELSE P!Write(seen.user, user, teachers[n].user)
             /\ teachers' \in [NIPs -> P!Teacher \cup {P!NoRow}]
             /\ teachers'[n] = row /\ \A m \in NIPs \ {n} : teachers'[m] = teachers[m]
<1>. DEFINE row == SavedRow(n, phone, seen, user)
            newPhone == IF seen = P!NoRow THEN phone
                        ELSE P!Write(seen.phone, phone, teachers[n].phone)
            newUser == IF seen = P!NoRow THEN user
                       ELSE P!Write(seen.user, user, teachers[n].user)
<1>1. seen # P!NoRow => teachers[n] \in P!Teacher
  BY DEF Staffed, P!TypeOK
<1>2. newPhone \in Values \cup {"none"} /\ newUser \in Keys \cup {"none"}
  BY <1>1, PeopleFields DEF P!Write
<1>3. row \in P!Teacher /\ row.phone = newPhone /\ row.user = newUser
  <2>1. CASE seen = P!NoRow
    BY <1>2, <2>1 DEF P!Teacher, SavedRow
  <2>2. CASE seen # P!NoRow
    <3>1. row = [teachers[n] EXCEPT !.phone = newPhone, !.user = newUser]
      BY <2>2 DEF SavedRow
    <3>. HIDE DEF row, newPhone, newUser
    <3>. QED  BY <1>1, <1>2, <2>2, <3>1 DEF P!Teacher
  <2>. QED  BY <2>1, <2>2
<1>4. teachers' = [teachers EXCEPT ![n] = row]
  BY DEF P!SaveRow, SavedRow
<1>. HIDE DEF row
<1>5. row # P!NoRow
  BY <1>3, PeopleFields
<1>6. /\ teachers' \in [NIPs -> P!Teacher \cup {P!NoRow}]
      /\ teachers'[n] = row /\ \A m \in NIPs \ {n} : teachers'[m] = teachers[m]
  BY <1>3, <1>4 DEF Staffed, P!TypeOK
<1>. USE DEF row
<1>. QED  BY <1>3, <1>5, <1>6

-----------------------------------------------------------------------------
\* A request that ends, with every row where it was and the teachers' links
\* to accounts that are there, keeps the invariant; so does none at all.
LEMMA StaffedCommit ==
  ASSUME Staffed, RowsStay,
         accounts' \in [Keys -> P!Account \cup {P!NoRow}],
         teachers' \in [NIPs -> P!Teacher \cup {P!NoRow}],
         Linked(accounts', teachers'),
         UNCHANGED peopleReq \/ \E w \in Workers : P!Finish(w)
  PROVE  Staffed'
BY StaffedStep, StaffedIdle DEF P!Finish

\* Accounts that stay are linked as they were.
LEMMA LinkedStays ==
  ASSUME Staffed, RowsStay, teachers' = teachers
  PROVE  Linked(accounts', teachers')
BY PeopleFields DEF Staffed, P!TypeOK, Linked, RowsStay

LEMMA CreateUserStaffed ==
  ASSUME Staffed, NEW w \in Workers, NEW a \in Keys, P!CreateUserCommit(w, a)
  PROVE  Staffed'
<1>1. peopleReq[w].phone \in Values
  BY PeopleRequest DEF Staffed, P!TypeOK, P!CreateUserCommit
<1>2. /\ P!Register(a, peopleReq[w].phone, "own") /\ P!Finish(w) /\ teachers' = teachers
  BY DEF P!CreateUserCommit
<1>3. /\ accounts' \in [Keys -> P!Account \cup {P!NoRow}] /\ RowsStay
      /\ teachers' \in [NIPs -> P!Teacher \cup {P!NoRow}]
  BY <1>1, <1>2, Registers DEF RowsStay, Staffed, P!TypeOK
<1>. QED  BY <1>2, <1>3, LinkedStays, StaffedCommit

LEMMA UpdateUserWrites ==
  ASSUME Staffed, NEW w \in Workers, P!UpdateUserCommit(w)
  PROVE  LET r == peopleReq[w]
             a == r.user
         IN  /\ a \in Keys /\ accounts[a] # P!NoRow
             /\ accounts' \in [Keys -> P!Account \cup {P!NoRow}]
             /\ accounts'[a].phone = P!Write(r.read, r.phone, accounts[a].phone)
             /\ accounts'[a].email = accounts[a].email /\ accounts'[a] # P!NoRow
             /\ \A b \in Keys \ {a} : accounts'[b] = accounts[b]
             /\ teachers' = teachers /\ P!Finish(w)
<1>. DEFINE r == peopleReq[w]
            phone == P!Write(r.read, r.phone, accounts[r.user].phone)
<1>1. /\ r.op = "update_user" /\ P!Finish(w) /\ teachers' = teachers
      /\ accounts' = [accounts EXCEPT ![r.user].phone = phone]
  BY DEF P!UpdateUserCommit
<1>2. r.user \in Keys /\ r.phone \in Values \cup {"none"}
  BY <1>1, PeopleRequest DEF Staffed, P!TypeOK
<1>3. accounts[r.user] # P!NoRow
  BY <1>1 DEF Staffed, Known
<1>4. phone \in Values \cup {"none"}
  BY <1>2, <1>3, PeopleFields DEF P!Write, Staffed, P!TypeOK
<1>. HIDE DEF phone
<1>5. /\ accounts' \in [Keys -> P!Account \cup {P!NoRow}]
      /\ accounts'[r.user].phone = phone /\ accounts'[r.user].email = accounts[r.user].email
      /\ accounts'[r.user] # P!NoRow
      /\ \A b \in Keys \ {r.user} : accounts'[b] = accounts[b]
  BY <1>1, <1>2, <1>3, <1>4, PhoneWritten
<1>. QED  BY <1>1, <1>2, <1>3, <1>5 DEF phone

LEMMA UpdateUserStaffed ==
  ASSUME Staffed, NEW w \in Workers, P!UpdateUserCommit(w)
  PROVE  Staffed'
<1>1. RowsStay /\ teachers' \in [NIPs -> P!Teacher \cup {P!NoRow}]
  BY UpdateUserWrites DEF RowsStay, Staffed, P!TypeOK
<1>. QED  BY <1>1, UpdateUserWrites, LinkedStays, StaffedCommit

-----------------------------------------------------------------------------
\* A save that goes by an account that is there.
LEMMA SaveWrites ==
  ASSUME Staffed, NEW w \in Workers, P!SaveTeacher(w), peopleReq[w].user # "new"
  PROVE  LET r == peopleReq[w]
             n == r.teacher
             a == r.user
         IN  /\ n \in NIPs /\ r.phone \in Values
             /\ a \in Keys /\ accounts[a] # P!NoRow
             /\ accounts' \in [Keys -> P!Account \cup {P!NoRow}]
             /\ accounts'[a].phone = P!Synced(r, accounts[a].phone)
             /\ accounts'[a].email = accounts[a].email /\ accounts'[a] # P!NoRow
             /\ \A b \in Keys \ {a} : accounts'[b] = accounts[b]
             /\ r.seen # P!NoRow => teachers[n] # P!NoRow
             /\ teachers' \in [NIPs -> P!Teacher \cup {P!NoRow}]
             /\ teachers'[n] # P!NoRow
             /\ teachers'[n].phone = IF r.seen = P!NoRow THEN r.phone
                                     ELSE P!Write(r.seen.phone, r.phone, teachers[n].phone)
             /\ teachers'[n].user = IF r.seen = P!NoRow THEN a
                                    ELSE P!Write(r.seen.user, a, teachers[n].user)
             /\ \A m \in NIPs \ {n} : teachers'[m] = teachers[m]
             /\ P!Finish(w) /\ r.op = "save"
<1>. DEFINE r == peopleReq[w]
            phone == P!Synced(r, accounts[r.user].phone)
<1>1. /\ r.op = "save" /\ P!Finish(w) /\ P!SaveRow(r.teacher, r.phone, r.seen, r.user)
      /\ accounts' = [accounts EXCEPT ![r.user].phone = phone]
  BY DEF P!SaveTeacher
<1>2. /\ r.teacher \in NIPs /\ r.phone \in Values /\ r.user \in Keys
      /\ r.seen \in P!Teacher \cup {P!NoRow}
  BY <1>1, PeopleRequest DEF Staffed, P!TypeOK
<1>3. Known(r, accounts, teachers)
  BY DEF Staffed
<1>4. accounts[r.user] # P!NoRow /\ (r.seen # P!NoRow => teachers[r.teacher] # P!NoRow)
  BY <1>1, <1>3 DEF Known
<1>5. phone \in Values \cup {"none"}
  BY <1>2, <1>4, PeopleFields DEF P!Synced, P!Write, Staffed, P!TypeOK
<1>. HIDE DEF phone
<1>6. /\ accounts' \in [Keys -> P!Account \cup {P!NoRow}]
      /\ accounts'[r.user].phone = phone /\ accounts'[r.user].email = accounts[r.user].email
      /\ accounts'[r.user] # P!NoRow
      /\ \A b \in Keys \ {r.user} : accounts'[b] = accounts[b]
  BY <1>1, <1>2, <1>4, <1>5, PhoneWritten
<1>. HIDE DEF r
<1>7. LET row == SavedRow(r.teacher, r.phone, r.seen, r.user)
      IN  /\ row \in P!Teacher /\ row # P!NoRow
          /\ row.phone = IF r.seen = P!NoRow THEN r.phone
                         ELSE P!Write(r.seen.phone, r.phone, teachers[r.teacher].phone)
          /\ row.user = IF r.seen = P!NoRow THEN r.user
                        ELSE P!Write(r.seen.user, r.user, teachers[r.teacher].user)
          /\ teachers' \in [NIPs -> P!Teacher \cup {P!NoRow}]
          /\ teachers'[r.teacher] = row
          /\ \A m \in NIPs \ {r.teacher} : teachers'[m] = teachers[m]
  BY <1>1, <1>2, <1>4, RowSaved
<1>. QED  BY <1>1, <1>2, <1>4, <1>6, <1>7 DEF phone, r

\* A save that makes an account.
LEMMA SaveRegisters ==
  ASSUME Staffed, NEW w \in Workers, P!SaveTeacher(w), peopleReq[w].user = "new"
  PROVE  LET r == peopleReq[w]
             n == r.teacher
         IN  \E a \in Keys :
             /\ n \in NIPs /\ r.phone \in Values
             /\ accounts[a] = P!NoRow /\ P!Placeholders(r.phone) = {}
             /\ accounts' \in [Keys -> P!Account \cup {P!NoRow}]
             /\ accounts'[a].phone = r.phone /\ accounts'[a].email = r.phone
             /\ accounts'[a] # P!NoRow
             /\ \A b \in Keys \ {a} : accounts'[b] = accounts[b]
             /\ r.seen # P!NoRow => teachers[n] # P!NoRow
             /\ teachers' \in [NIPs -> P!Teacher \cup {P!NoRow}]
             /\ teachers'[n] # P!NoRow
             /\ teachers'[n].phone = IF r.seen = P!NoRow THEN r.phone
                                     ELSE P!Write(r.seen.phone, r.phone, teachers[n].phone)
             /\ teachers'[n].user = IF r.seen = P!NoRow THEN a
                                    ELSE P!Write(r.seen.user, a, teachers[n].user)
             /\ \A m \in NIPs \ {n} : teachers'[m] = teachers[m]
             /\ P!Finish(w) /\ r.op = "save"
<1>. DEFINE r == peopleReq[w]
<1>1. PICK a \in Keys : P!Register(a, r.phone, r.phone)
                        /\ P!SaveRow(r.teacher, r.phone, r.seen, a)
  BY DEF P!SaveTeacher
<1>2. r.op = "save" /\ P!Finish(w) /\ P!Placeholders(r.phone) = {}
  BY DEF P!SaveTeacher
<1>3. r.teacher \in NIPs /\ r.phone \in Values /\ r.seen \in P!Teacher \cup {P!NoRow}
  BY <1>2, PeopleRequest DEF Staffed, P!TypeOK
<1>4. r.seen # P!NoRow => teachers[r.teacher] # P!NoRow
  BY <1>2 DEF Staffed, Known
<1>. HIDE DEF r
<1>5. /\ accounts[a] = P!NoRow /\ accounts' \in [Keys -> P!Account \cup {P!NoRow}]
      /\ accounts'[a].phone = r.phone /\ accounts'[a].email = r.phone
      /\ accounts'[a] # P!NoRow /\ \A b \in Keys \ {a} : accounts'[b] = accounts[b]
  BY <1>1, <1>3, Registers
<1>6. LET row == SavedRow(r.teacher, r.phone, r.seen, a)
      IN  /\ row \in P!Teacher /\ row # P!NoRow
          /\ row.phone = IF r.seen = P!NoRow THEN r.phone
                         ELSE P!Write(r.seen.phone, r.phone, teachers[r.teacher].phone)
          /\ row.user = IF r.seen = P!NoRow THEN a
                        ELSE P!Write(r.seen.user, a, teachers[r.teacher].user)
          /\ teachers' \in [NIPs -> P!Teacher \cup {P!NoRow}]
          /\ teachers'[r.teacher] = row
          /\ \A m \in NIPs \ {r.teacher} : teachers'[m] = teachers[m]
  BY <1>1, <1>3, <1>4, RowSaved
<1>. QED  BY <1>2, <1>3, <1>4, <1>5, <1>6 DEF r

\* Either way the teacher is linked to an account that is there.
LEMMA SaveStaffed ==
  ASSUME Staffed, NEW w \in Workers, P!SaveTeacher(w)
  PROVE  Staffed'
<1>. DEFINE r == peopleReq[w]
            n == r.teacher
<1>1. /\ n \in NIPs /\ accounts' \in [Keys -> P!Account \cup {P!NoRow}] /\ P!Finish(w)
      /\ teachers' \in [NIPs -> P!Teacher \cup {P!NoRow}] /\ teachers'[n] # P!NoRow
      /\ \A m \in NIPs \ {n} : teachers'[m] = teachers[m]
      /\ r.seen # P!NoRow => teachers[n] # P!NoRow
  BY SaveWrites, SaveRegisters
<1>2. RowsStay
  BY <1>1, SaveWrites, SaveRegisters DEF RowsStay
<1>3. PICK a \in Keys : /\ accounts'[a] # P!NoRow
                        /\ teachers'[n].user = IF r.seen = P!NoRow THEN a
                             ELSE P!Write(r.seen.user, a, teachers[n].user)
  BY SaveWrites, SaveRegisters
<1>. HIDE DEF n, r
<1>4. \A m \in NIPs : teachers[m] # P!NoRow => teachers[m].user \in Keys \cup {"none"}
  BY PeopleFields DEF Staffed, P!TypeOK
<1>5. teachers'[n].user # "none" => accounts'[teachers'[n].user] # P!NoRow
  BY <1>1, <1>2, <1>3, <1>4 DEF P!Write, RowsStay, Staffed, Linked
<1>6. \A m \in NIPs \ {n} : teachers'[m] # P!NoRow /\ teachers'[m].user # "none" =>
        accounts'[teachers'[m].user] # P!NoRow
  BY <1>1, <1>2, <1>4 DEF RowsStay, Staffed, Linked
<1>7. Linked(accounts', teachers')
  BY <1>5, <1>6 DEF Linked
<1>. QED  BY <1>1, <1>2, <1>7, StaffedCommit

-----------------------------------------------------------------------------
\* What one call changes of a teacher's row, the accounts being as they were.
LEMMA RowChanged ==
  ASSUME Staffed, NEW n \in NIPs, NEW row \in P!Teacher,
         teachers' = [teachers EXCEPT ![n] = row], UNCHANGED <<accounts, peopleReq>>,
         row.user # "none" => accounts[row.user] # P!NoRow
  PROVE  Staffed'
<1>1. row # P!NoRow
  BY PeopleFields
<1>2. /\ teachers' \in [NIPs -> P!Teacher \cup {P!NoRow}]
      /\ teachers'[n] = row /\ \A m \in NIPs \ {n} : teachers'[m] = teachers[m]
  BY DEF Staffed, P!TypeOK
<1>3. /\ RowsStay /\ Linked(accounts', teachers')
      /\ accounts' \in [Keys -> P!Account \cup {P!NoRow}]
  BY <1>1, <1>2 DEF RowsStay, Linked, Staffed, P!TypeOK
<1>. QED  BY <1>2, <1>3, StaffedCommit

LEMMA AtOnceStaffed == ASSUME Staffed, P!AtOnce PROVE Staffed'
<1>1. ASSUME NEW a \in Keys, P!CreateUserWithoutPhone(a) PROVE Staffed'
  <2>1. P!Register(a, "none", "own") /\ teachers' = teachers /\ peopleReq' = peopleReq
    BY <1>1 DEF P!CreateUserWithoutPhone
  <2>2. /\ accounts' \in [Keys -> P!Account \cup {P!NoRow}] /\ RowsStay
        /\ teachers' \in [NIPs -> P!Teacher \cup {P!NoRow}]
    BY <2>1, Registers DEF RowsStay, Staffed, P!TypeOK
  <2>. QED  BY <2>1, <2>2, LinkedStays, StaffedCommit
<1>2. ASSUME NEW n \in NIPs, NEW user \in Keys \cup {"none"},
             P!CreateTeacherWithoutPhone(n, user)
      PROVE  Staffed'
  <2>. DEFINE row == [is |-> "teacher", phone |-> "none", user |-> user, is_deleted |-> FALSE]
  <2>1. teachers' = [teachers EXCEPT ![n] = row] /\ UNCHANGED <<accounts, peopleReq>>
    BY <1>2 DEF P!CreateTeacherWithoutPhone, P!SaveRow
  <2>2. row \in P!Teacher /\ row.user = user
    BY DEF P!Teacher
  <2>3. user # "none" => accounts[user] # P!NoRow
    BY <1>2 DEF P!CreateTeacherWithoutPhone, P!Registered
  <2>. HIDE DEF row
  <2>. QED  BY <2>1, <2>2, <2>3, RowChanged
<1>3. ASSUME NEW n \in NIPs, P!ClearPhone(n) PROVE Staffed'
  <2>. DEFINE row == [teachers[n] EXCEPT !.phone = "none"]
  <2>1. teachers' = [teachers EXCEPT ![n] = row] /\ UNCHANGED <<accounts, peopleReq>>
    BY <1>3 DEF P!ClearPhone
  <2>2. teachers[n] \in P!Teacher /\ teachers[n] # P!NoRow
    BY <1>3 DEF P!ClearPhone, P!Live, Staffed, P!TypeOK
  <2>3. row \in P!Teacher /\ row.user = teachers[n].user
    BY <2>2 DEF P!Teacher
  <2>. HIDE DEF row
  <2>. QED  BY <2>1, <2>2, <2>3, RowChanged DEF Staffed, Linked
<1>4. ASSUME NEW n \in NIPs, P!DeleteTeacher(n) PROVE Staffed'
  <2>. DEFINE row == [teachers[n] EXCEPT !.is_deleted = TRUE]
  <2>1. teachers' = [teachers EXCEPT ![n] = row] /\ UNCHANGED <<accounts, peopleReq>>
    BY <1>4 DEF P!DeleteTeacher
  <2>2. teachers[n] \in P!Teacher /\ teachers[n] # P!NoRow
    BY <1>4 DEF P!DeleteTeacher, P!Live, Staffed, P!TypeOK
  <2>3. row \in P!Teacher /\ row.user = teachers[n].user
    BY <2>2 DEF P!Teacher
  <2>. HIDE DEF row
  <2>. QED  BY <2>1, <2>2, <2>3, RowChanged DEF Staffed, Linked
<1>. QED  BY <1>1, <1>2, <1>3, <1>4 DEF P!AtOnce

LEMMA StaffedInit == P!Init => Staffed
BY StaffedIdle DEF P!Init, Staffed, P!TypeOK, Linked

LEMMA StaffedNext == Staffed /\ [P!Next]_P!vars => Staffed'
<1>. SUFFICES ASSUME Staffed, [P!Next]_P!vars PROVE Staffed'
  OBVIOUS
<1>1. ASSUME NEW w \in Workers, P!AccountStep(w) \/ P!TeacherStep(w) \/ P!Abort(w)
      PROVE  Staffed'
  BY <1>1, ReadsStaffed, CreateUserStaffed, UpdateUserStaffed, SaveStaffed
  DEF P!AccountStep, P!TeacherStep
<1>2. CASE UNCHANGED P!vars
  BY <1>2, LinkedStays, StaffedCommit DEF P!vars, Staffed, P!TypeOK, RowsStay
<1>. QED  BY <1>1, <1>2, AtOnceStaffed DEF P!Next

-----------------------------------------------------------------------------
\* A request that ends has had its row in the table of requests set to idle.
LEMMA Ended ==
  ASSUME Staffed, NEW w \in Workers, P!Finish(w), peopleReq[w].op # "idle"
  PROVE  peopleReq[w] # P!Idle /\ peopleReq'[w] = P!Idle
BY DEF Staffed, P!TypeOK, P!Finish, P!Serve, P!Idle

\* Registered accounts keep their phones and addresses.
PhonesStay ==
  \A a \in Keys : accounts[a] # P!NoRow =>
    /\ accounts'[a] # P!NoRow
    /\ accounts'[a].phone = accounts[a].phone /\ accounts'[a].email = accounts[a].email

\* An account that neither holds a phone nor has its placeholder address does
\* not change whether the phone can be used.
LEMMA UsableStays ==
  ASSUME PhonesStay, NEW phone, P!Usable(phone),
         \A a \in Keys : accounts[a] = P!NoRow /\ accounts'[a] # P!NoRow =>
           accounts'[a].phone # phone /\ accounts'[a].email # phone
  PROVE  P!Usable(phone)'
<1>1. P!Holders(phone)' = P!Holders(phone)
  BY DEF P!Holders, P!Registered, PhonesStay
<1>2. P!Placeholders(phone)' = P!Placeholders(phone)
  BY DEF P!Placeholders, P!Registered, PhonesStay
<1>. QED  BY <1>1, <1>2 DEF P!Usable

LEMMA PeopleCardinality == \A S : P!Cardinality(S) = Cardinality(S)
BY DEF P!Cardinality, Cardinality

\* The only holder of a phone makes it usable.
LEMMA FirstHolder ==
  ASSUME PhonesStay, NEW phone, P!Holders(phone) = {}, NEW a \in Keys,
         accounts'[a] # P!NoRow, accounts'[a].phone = phone,
         \A b \in Keys \ {a} : accounts'[b] = accounts[b]
  PROVE  P!Usable(phone)'
<1>1. P!Holders(phone)' = {a}
  BY DEF P!Holders, P!Registered
<1>2. Cardinality({a}) = 1
  BY FS_Singleton
<1>. QED  BY <1>1, <1>2, PeopleCardinality DEF P!Usable

LEMMA PhoneIsLostStep ==
  ASSUME {"none", "own"} \cap Values = {}, Staffed, P!Next,
         NEW phone \in Values, P!Usable(phone),
         \A a \in P!Registered : accounts'[a].phone = accounts[a].phone,
         \A w \in Workers : peopleReq'[w] = P!Idle => ~P!Overtaken(peopleReq[w])
  PROVE  P!Usable(phone)'
<1>1. CASE accounts' = accounts
  BY <1>1, UsableStays DEF PhonesStay
<1>2. ASSUME NEW w \in Workers, NEW a \in Keys, P!CreateUserCommit(w, a)
      PROVE  P!Usable(phone)'
  <2>1. /\ peopleReq[w].op = "create_user" /\ P!Register(a, peopleReq[w].phone, "own")
        /\ P!Finish(w)
    BY <1>2 DEF P!CreateUserCommit
  <2>2. peopleReq[w].phone \in Values
    BY <2>1, PeopleRequest DEF Staffed, P!TypeOK
  <2>3. /\ accounts[a] = P!NoRow /\ accounts'[a] # P!NoRow
        /\ accounts'[a].phone = peopleReq[w].phone /\ accounts'[a].email = "own"
        /\ \A b \in Keys \ {a} : accounts'[b] = accounts[b]
    BY <2>1, <2>2, Registers
  <2>4. PhonesStay
    BY <2>3 DEF PhonesStay
  <2>5. P!Holders(peopleReq[w].phone) = peopleReq[w].found /\ peopleReq[w].found = {}
    BY <2>1, Ended DEF P!Overtaken, Staffed, Known
  <2>6. CASE phone = peopleReq[w].phone
    BY <2>3, <2>4, <2>5, <2>6, FirstHolder
  <2>7. CASE phone # peopleReq[w].phone
    BY <2>3, <2>4, <2>7, UsableStays
  <2>. QED  BY <2>6, <2>7
<1>3. ASSUME NEW w \in Workers, P!UpdateUserCommit(w) PROVE P!Usable(phone)'
  BY <1>3, UpdateUserWrites, UsableStays DEF PhonesStay, P!Registered
<1>4. ASSUME NEW w \in Workers, P!SaveTeacher(w), peopleReq[w].user # "new"
      PROVE  P!Usable(phone)'
  BY <1>4, SaveWrites, UsableStays DEF PhonesStay, P!Registered
<1>5. ASSUME NEW w \in Workers, P!SaveTeacher(w), peopleReq[w].user = "new"
      PROVE  P!Usable(phone)'
  <2>1. PICK a \in Keys :
          /\ accounts[a] = P!NoRow /\ accounts'[a] # P!NoRow
          /\ accounts'[a].phone = peopleReq[w].phone
          /\ accounts'[a].email = peopleReq[w].phone
          /\ \A b \in Keys \ {a} : accounts'[b] = accounts[b]
    BY <1>5, SaveRegisters
  <2>2. PhonesStay
    BY <2>1 DEF PhonesStay
  <2>3. P!Holders(peopleReq[w].phone) = {}
    BY <1>5, SaveRegisters, Ended DEF P!Overtaken
  <2>4. CASE phone = peopleReq[w].phone
    BY <2>1, <2>2, <2>3, <2>4, FirstHolder
  <2>5. CASE phone # peopleReq[w].phone
    BY <2>1, <2>2, <2>5, UsableStays
  <2>. QED  BY <2>4, <2>5
<1>6. ASSUME NEW a \in Keys, P!CreateUserWithoutPhone(a) PROVE P!Usable(phone)'
  <2>1. /\ accounts[a] = P!NoRow /\ accounts'[a] # P!NoRow
        /\ accounts'[a].phone = "none" /\ accounts'[a].email = "own"
        /\ \A b \in Keys \ {a} : accounts'[b] = accounts[b]
    BY <1>6, Registers DEF P!CreateUserWithoutPhone
  <2>. QED  BY <2>1, UsableStays DEF PhonesStay
<1>7. \/ accounts' = accounts
      \/ \E w \in Workers, a \in Keys : P!CreateUserCommit(w, a)
      \/ \E w \in Workers : P!UpdateUserCommit(w) \/ P!SaveTeacher(w)
      \/ \E a \in Keys : P!CreateUserWithoutPhone(a)
  <2>1. ASSUME NEW w \in Workers, P!AccountStep(w) \/ P!TeacherStep(w) \/ P!Abort(w)
        PROVE  \/ accounts' = accounts
               \/ \E a \in Keys : P!CreateUserCommit(w, a)
               \/ P!UpdateUserCommit(w) \/ P!SaveTeacher(w)
    BY <2>1 DEF P!AccountStep, P!TeacherStep, P!Abort, P!CreateUserRead, P!UpdateUserRead,
                P!CreateTeacherRead, P!UpdateTeacherRead, P!UpdateTeacherReadAccount,
                P!FindAccount
  <2>2. P!AtOnce => accounts' = accounts \/ \E a \in Keys : P!CreateUserWithoutPhone(a)
    BY DEF P!AtOnce, P!CreateTeacherWithoutPhone, P!ClearPhone, P!DeleteTeacher
  <2>. QED  BY <2>1, <2>2 DEF P!Next
<1>. QED  BY <1>1, <1>2, <1>3, <1>4, <1>5, <1>6, <1>7

\* A phone by which an account is found or can be made stops being so only
\* because an account changes its phone, or because an account is made whose
\* lookup was overtaken by another: for any number of requests, accounts and
\* teachers. The marks for no phone and an own address must not be phones.
THEOREM PhoneIsLost ==
  ASSUME {"none", "own"} \cap Values = {}
  PROVE  P!Spec => P!PhoneIsLostOnlyToChanges
<1>1. Staffed /\ [P!Next]_P!vars =>
        [\A phone \in Values : P!Usable(phone) /\ ~P!Usable(phone)' =>
           \/ \E a \in P!Registered : accounts'[a].phone # accounts[a].phone
           \/ \E w \in Workers : peopleReq'[w] = P!Idle /\ P!Overtaken(peopleReq[w])]_P!vars
  <2>1. Staffed /\ P!Next =>
          \A phone \in Values : P!Usable(phone) /\ ~P!Usable(phone)' =>
            \/ \E a \in P!Registered : accounts'[a].phone # accounts[a].phone
            \/ \E w \in Workers : peopleReq'[w] = P!Idle /\ P!Overtaken(peopleReq[w])
    BY PhoneIsLostStep
  <2>. QED  BY <2>1
<1>. QED  BY <1>1, StaffedInit, StaffedNext, PTL DEF P!Spec, P!PhoneIsLostOnlyToChanges

-----------------------------------------------------------------------------
\* Who may part a teacher's phone from the phone of their account.
PartedBy(n, w) ==
  /\ peopleReq[w] # P!Idle /\ peopleReq'[w] = P!Idle
  /\ \/ peopleReq[w].op = "update_user"
     \/ peopleReq[w].op = "save" /\ (peopleReq[w].teacher # n \/ P!OutOfDate(peopleReq[w]))

\* A teacher whose row and whose account stay as they are.
LEMMA AgreeStays ==
  ASSUME NEW n \in NIPs, P!Agree(n), teachers'[n] = teachers[n],
         teachers[n] # P!NoRow /\ teachers[n].user # "none" =>
           accounts'[teachers[n].user] = accounts[teachers[n].user]
  PROVE  P!Agree(n)'
BY DEF P!Agree

\* A save that goes by rows as they are leaves the teacher with the phone of
\* the account.
LEMMA SaveAgrees ==
  ASSUME Staffed, NEW w \in Workers, P!SaveTeacher(w), NEW n \in NIPs,
         peopleReq[w].teacher = n, ~P!OutOfDate(peopleReq[w])
  PROVE  P!Agree(n)'
<1>. DEFINE r == peopleReq[w]
<1>1. r.seen = teachers[n] /\ (r.user # "new" => r.read = accounts[r.user].phone)
  BY DEF P!OutOfDate
<1>2. CASE r.user # "new"
  <2>1. /\ accounts'[r.user].phone = P!Synced(r, accounts[r.user].phone)
        /\ teachers'[n].phone = IF r.seen = P!NoRow THEN r.phone
                                ELSE P!Write(r.seen.phone, r.phone, teachers[n].phone)
        /\ teachers'[n].user = IF r.seen = P!NoRow THEN r.user
                               ELSE P!Write(r.seen.user, r.user, teachers[n].user)
        /\ r.op = "save"
    BY <1>2, SaveWrites
  <2>2. teachers'[n].phone = r.phone /\ teachers'[n].user = r.user
    BY <1>1, <2>1 DEF P!Write
  <2>3. accounts'[r.user].phone = r.phone
    BY <1>1, <1>2, <2>1 DEF P!Synced, P!Write, Staffed, Known
  <2>. QED  BY <2>2, <2>3 DEF P!Agree
<1>3. CASE r.user = "new"
  <2>1. PICK a \in Keys :
          /\ accounts'[a].phone = r.phone
          /\ teachers'[n].phone = IF r.seen = P!NoRow THEN r.phone
                                  ELSE P!Write(r.seen.phone, r.phone, teachers[n].phone)
          /\ teachers'[n].user = IF r.seen = P!NoRow THEN a
                                 ELSE P!Write(r.seen.user, a, teachers[n].user)
    BY <1>3, SaveRegisters
  <2>2. teachers'[n].phone = r.phone /\ teachers'[n].user = a
    BY <1>1, <2>1 DEF P!Write
  <2>. QED  BY <2>1, <2>2 DEF P!Agree
<1>. QED  BY <1>2, <1>3

LEMMA PhonesPartStep ==
  ASSUME Staffed, P!Next, NEW n \in NIPs, P!Agree(n), ~P!Agree(n)'
  PROVE  \E w \in Workers : PartedBy(n, w)
<1>1. ASSUME NEW w \in Workers, P!UpdateUserCommit(w) PROVE PartedBy(n, w)
  BY <1>1, UpdateUserWrites, Ended DEF P!UpdateUserCommit, PartedBy
<1>2. ASSUME NEW w \in Workers, P!SaveTeacher(w) PROVE PartedBy(n, w)
  <2>1. peopleReq[w].op = "save" /\ P!Finish(w)
    BY <1>2 DEF P!SaveTeacher
  <2>2. peopleReq[w].teacher # n \/ P!OutOfDate(peopleReq[w])
    BY <1>2, SaveAgrees
  <2>. QED  BY <2>1, <2>2, Ended DEF PartedBy
<1>3. ASSUME NEW a \in Keys, NEW phone, NEW email, P!Register(a, phone, email),
             teachers' = teachers
      PROVE  FALSE
  <2>1. accounts[a] = P!NoRow /\ \A b : b # a => accounts'[b] = accounts[b]
    BY <1>3 DEF P!Register, Staffed, P!TypeOK
  <2>2. teachers[n] # P!NoRow /\ teachers[n].user # "none" => teachers[n].user # a
    BY <2>1 DEF Staffed, Linked
  <2>. QED  BY <1>3, <2>1, <2>2, AgreeStays
<1>4. ASSUME accounts' = accounts, teachers' = teachers PROVE FALSE
  BY <1>4, AgreeStays
<1>5. ASSUME NEW m \in NIPs, NEW user \in Keys \cup {"none"}, P!CreateTeacherWithoutPhone(m, user)
      PROVE  FALSE
  <2>1. CASE m # n
    BY <1>5, <2>1, AgreeStays DEF P!CreateTeacherWithoutPhone, P!SaveRow, Staffed, P!TypeOK
  <2>2. CASE m = n
    <3>1. teachers'[n].phone = "none"
      BY <1>5, <2>2 DEF P!CreateTeacherWithoutPhone, P!SaveRow, Staffed, P!TypeOK
    <3>. QED  BY <3>1 DEF P!Agree
  <2>. QED  BY <2>1, <2>2
<1>6. ASSUME NEW m \in NIPs, P!ClearPhone(m) PROVE FALSE
  <2>1. CASE m # n
    BY <1>6, <2>1, AgreeStays DEF P!ClearPhone, Staffed, P!TypeOK
  <2>2. CASE m = n
    <3>1. teachers'[n].phone = "none"
      BY <1>6, <2>2 DEF P!ClearPhone, P!Live, P!Teacher, Staffed, P!TypeOK
    <3>. QED  BY <3>1 DEF P!Agree
  <2>. QED  BY <2>1, <2>2
<1>7. ASSUME NEW m \in NIPs, P!DeleteTeacher(m) PROVE FALSE
  <2>1. CASE m # n
    BY <1>7, <2>1, AgreeStays DEF P!DeleteTeacher, Staffed, P!TypeOK
  <2>2. CASE m = n
    <3>1. teachers[n] \in P!Teacher /\ teachers[n] # P!NoRow /\ accounts' = accounts
      BY <1>7, <2>2 DEF P!DeleteTeacher, P!Live, Staffed, P!TypeOK
    <3>2. teachers'[n].phone = teachers[n].phone /\ teachers'[n].user = teachers[n].user
      BY <1>7, <2>2, <3>1 DEF P!DeleteTeacher, P!Teacher, Staffed, P!TypeOK
    <3>. QED  BY <3>1, <3>2 DEF P!Agree
  <2>. QED  BY <2>1, <2>2
<1>8. ASSUME NEW w \in Workers, P!AccountStep(w) \/ P!TeacherStep(w) \/ P!Abort(w)
      PROVE  \/ accounts' = accounts /\ teachers' = teachers
             \/ P!UpdateUserCommit(w) \/ P!SaveTeacher(w)
             \/ \E a \in Keys : P!CreateUserCommit(w, a)
  BY <1>8 DEF P!AccountStep, P!TeacherStep, P!Abort, P!CreateUserRead, P!UpdateUserRead,
              P!CreateTeacherRead, P!UpdateTeacherRead, P!UpdateTeacherReadAccount,
              P!FindAccount
<1>9. P!AtOnce => FALSE
  BY <1>3, <1>5, <1>6, <1>7 DEF P!AtOnce, P!CreateUserWithoutPhone
<1>10. ASSUME NEW w \in Workers, NEW a \in Keys, P!CreateUserCommit(w, a) PROVE FALSE
  BY <1>3, <1>10 DEF P!CreateUserCommit
<1>. QED  BY <1>1, <1>2, <1>4, <1>8, <1>9, <1>10 DEF P!Next

\* A teacher can sign in with the phone in their file until somebody changes
\* the account itself, a teacher linked to the same account changes theirs, or
\* a save goes by rows that have changed since it read them: for any number of
\* requests, accounts and teachers.
THEOREM PhonesPart == P!Spec => P!PhonesPartOnlyByOthers
<1>1. Staffed /\ [P!Next]_P!vars =>
        [\A n \in NIPs : P!Agree(n) /\ ~P!Agree(n)' =>
           \E w \in Workers :
             /\ peopleReq[w] # P!Idle /\ peopleReq'[w] = P!Idle
             /\ \/ peopleReq[w].op = "update_user"
                \/ peopleReq[w].op = "save"
                   /\ (peopleReq[w].teacher # n \/ P!OutOfDate(peopleReq[w]))]_P!vars
  BY PhonesPartStep DEF PartedBy
<1>. QED  BY <1>1, StaffedInit, StaffedNext, PTL DEF P!Spec, P!PhonesPartOnlyByOthers

-----------------------------------------------------------------------------
(* Pay *)

\* A table of tax rates: every bracket has a bound and a rate, and the last
\* bound is above every pay there is.
Rates == {r \in Nat : r <= 3400}

IsBracket(b) == b[1] \in Nat /\ b[2] \in Rates

Rated(table) ==
  /\ Len(table) \in Nat \ {0} /\ DOMAIN table = 1..Len(table)
  /\ \A i \in 1..Len(table) : IsBracket(table[i])
  /\ table[Len(table)][1] > Pay!TopGross

LEMMA TableIsRated ==
  ASSUME NEW table, NEW n \in Nat \ {0}, Len(table) = n, DOMAIN table = 1..n,
         \A i \in 1..n : IsBracket(table[i]), table[n][1] = Pay!NoBound
  PROVE  Rated(table)
<1>1. Pay!NoBound > Pay!TopGross
  BY DEF Pay!NoBound, Pay!TopGross
<1>. QED  BY <1>1, ZenonT(60) DEF Rated

\* The tables themselves, bracket by bracket.
LEMMA TablesAreRated == Rated(Pay!TER_A) /\ Rated(Pay!TER_B) /\ Rated(Pay!TER_C)
<1>1. Pay!NoBound \in Nat
  BY DEF Pay!NoBound, Pay!TopGross
<1>2. Rated(Pay!TER_A)
  <2>1. /\ Len(Pay!TER_A) = 31 /\ DOMAIN Pay!TER_A = 1..31
        /\ Pay!TER_A[31][1] = Pay!NoBound
    BY DEF Pay!TER_A
  <2>2.
        /\ IsBracket(Pay!TER_A[1]) /\ IsBracket(Pay!TER_A[2]) /\ IsBracket(Pay!TER_A[3])
        /\ IsBracket(Pay!TER_A[4]) /\ IsBracket(Pay!TER_A[5]) /\ IsBracket(Pay!TER_A[6])
        /\ IsBracket(Pay!TER_A[7]) /\ IsBracket(Pay!TER_A[8]) /\ IsBracket(Pay!TER_A[9])
        /\ IsBracket(Pay!TER_A[10]) /\ IsBracket(Pay!TER_A[11]) /\ IsBracket(Pay!TER_A[12])
        /\ IsBracket(Pay!TER_A[13]) /\ IsBracket(Pay!TER_A[14]) /\ IsBracket(Pay!TER_A[15])
        /\ IsBracket(Pay!TER_A[16]) /\ IsBracket(Pay!TER_A[17]) /\ IsBracket(Pay!TER_A[18])
        /\ IsBracket(Pay!TER_A[19]) /\ IsBracket(Pay!TER_A[20]) /\ IsBracket(Pay!TER_A[21])
        /\ IsBracket(Pay!TER_A[22]) /\ IsBracket(Pay!TER_A[23]) /\ IsBracket(Pay!TER_A[24])
        /\ IsBracket(Pay!TER_A[25]) /\ IsBracket(Pay!TER_A[26]) /\ IsBracket(Pay!TER_A[27])
        /\ IsBracket(Pay!TER_A[28]) /\ IsBracket(Pay!TER_A[29]) /\ IsBracket(Pay!TER_A[30])
        /\ IsBracket(Pay!TER_A[31])
    BY <1>1 DEF IsBracket, Rates, Pay!TER_A
  <2>3. 31 \in Nat \ {0} /\ \A i \in 1..31 : IsBracket(Pay!TER_A[i])
    BY <2>2
  <2>. QED  BY <2>1, <2>3, TableIsRated, ZenonT(60)
<1>3. Rated(Pay!TER_B)
  <2>1. /\ Len(Pay!TER_B) = 27 /\ DOMAIN Pay!TER_B = 1..27
        /\ Pay!TER_B[27][1] = Pay!NoBound
    BY DEF Pay!TER_B
  <2>2.
        /\ IsBracket(Pay!TER_B[1]) /\ IsBracket(Pay!TER_B[2]) /\ IsBracket(Pay!TER_B[3])
        /\ IsBracket(Pay!TER_B[4]) /\ IsBracket(Pay!TER_B[5]) /\ IsBracket(Pay!TER_B[6])
        /\ IsBracket(Pay!TER_B[7]) /\ IsBracket(Pay!TER_B[8]) /\ IsBracket(Pay!TER_B[9])
        /\ IsBracket(Pay!TER_B[10]) /\ IsBracket(Pay!TER_B[11]) /\ IsBracket(Pay!TER_B[12])
        /\ IsBracket(Pay!TER_B[13]) /\ IsBracket(Pay!TER_B[14]) /\ IsBracket(Pay!TER_B[15])
        /\ IsBracket(Pay!TER_B[16]) /\ IsBracket(Pay!TER_B[17]) /\ IsBracket(Pay!TER_B[18])
        /\ IsBracket(Pay!TER_B[19]) /\ IsBracket(Pay!TER_B[20]) /\ IsBracket(Pay!TER_B[21])
        /\ IsBracket(Pay!TER_B[22]) /\ IsBracket(Pay!TER_B[23]) /\ IsBracket(Pay!TER_B[24])
        /\ IsBracket(Pay!TER_B[25]) /\ IsBracket(Pay!TER_B[26]) /\ IsBracket(Pay!TER_B[27])
    BY <1>1 DEF IsBracket, Rates, Pay!TER_B
  <2>3. 27 \in Nat \ {0} /\ \A i \in 1..27 : IsBracket(Pay!TER_B[i])
    BY <2>2
  <2>. QED  BY <2>1, <2>3, TableIsRated, ZenonT(60)
<1>4. Rated(Pay!TER_C)
  <2>1. /\ Len(Pay!TER_C) = 28 /\ DOMAIN Pay!TER_C = 1..28
        /\ Pay!TER_C[28][1] = Pay!NoBound
    BY DEF Pay!TER_C
  <2>2.
        /\ IsBracket(Pay!TER_C[1]) /\ IsBracket(Pay!TER_C[2]) /\ IsBracket(Pay!TER_C[3])
        /\ IsBracket(Pay!TER_C[4]) /\ IsBracket(Pay!TER_C[5]) /\ IsBracket(Pay!TER_C[6])
        /\ IsBracket(Pay!TER_C[7]) /\ IsBracket(Pay!TER_C[8]) /\ IsBracket(Pay!TER_C[9])
        /\ IsBracket(Pay!TER_C[10]) /\ IsBracket(Pay!TER_C[11]) /\ IsBracket(Pay!TER_C[12])
        /\ IsBracket(Pay!TER_C[13]) /\ IsBracket(Pay!TER_C[14]) /\ IsBracket(Pay!TER_C[15])
        /\ IsBracket(Pay!TER_C[16]) /\ IsBracket(Pay!TER_C[17]) /\ IsBracket(Pay!TER_C[18])
        /\ IsBracket(Pay!TER_C[19]) /\ IsBracket(Pay!TER_C[20]) /\ IsBracket(Pay!TER_C[21])
        /\ IsBracket(Pay!TER_C[22]) /\ IsBracket(Pay!TER_C[23]) /\ IsBracket(Pay!TER_C[24])
        /\ IsBracket(Pay!TER_C[25]) /\ IsBracket(Pay!TER_C[26]) /\ IsBracket(Pay!TER_C[27])
        /\ IsBracket(Pay!TER_C[28])
    BY <1>1 DEF IsBracket, Rates, Pay!TER_C
  <2>3. 28 \in Nat \ {0} /\ \A i \in 1..28 : IsBracket(Pay!TER_C[i])
    BY <2>2
  <2>. QED  BY <2>1, <2>3, TableIsRated, ZenonT(60)
<1>. QED  BY <1>2, <1>3, <1>4

\* The lowest of some natural numbers is one of them.
LEMMA LowestIsOne ==
  ASSUME NEW S \in SUBSET Nat, S # {}
  PROVE  Pay!Min(S) \in S
<1>1. IsWellFoundedOn(OpToRel(<, Nat), Nat)
  BY NatLessThanWellFounded
<1>2. PICK i \in S : \A j \in S : ~ (<<j, i>> \in OpToRel(<, Nat))
  BY <1>1, WFMin
<1>3. \A j \in S : ~(j < i)
  BY <1>2 DEF OpToRel
<1>4. \A j \in S : i <= j
  BY <1>3
<1>. QED  BY <1>4 DEF Pay!Min

\* The brackets a wage is under.
Under(wage, table) == {i \in 1..Len(table) : wage < table[i][1]}

LEMMA LookupIsLowest ==
  ASSUME NEW table, Rated(table), NEW wage \in 0..Pay!TopGross
  PROVE  /\ Under(wage, table) # {} /\ Under(wage, table) \in SUBSET Nat
         /\ Pay!lookup_ter_rate(wage, table) = table[Pay!Min(Under(wage, table))][2]
<1>1. Len(table) \in Under(wage, table)
  <2>. DEFINE b == table[Len(table)]
  <2>1. IsBracket(b) /\ b[1] > Pay!TopGross
    BY DEF Rated
  <2>2. Pay!TopGross \in Nat
    BY DEF Pay!TopGross
  <2>. HIDE DEF b
  <2>3. wage < b[1]
    BY <2>1, <2>2 DEF IsBracket
  <2>. QED  BY <2>3 DEF Rated, Under, b
<1>2. Under(wage, table) \in SUBSET Nat
  BY DEF Under, Rated
<1>3. Pay!lookup_ter_rate(wage, table) =
        table[IF Under(wage, table) # {} THEN Pay!Min(Under(wage, table)) ELSE 0][2]
  BY DEF Pay!lookup_ter_rate, Pay!SelectInSeq, Pay!IsUnder, Under
<1>. QED  BY <1>1, <1>2, <1>3

LEMMA LookupIsRate ==
  ASSUME NEW table, Rated(table), NEW wage \in 0..Pay!TopGross
  PROVE  Pay!lookup_ter_rate(wage, table) \in Rates
<1>1. Pay!Min(Under(wage, table)) \in Under(wage, table)
  BY LookupIsLowest, LowestIsOne
<1>. DEFINE i == Pay!Min(Under(wage, table))
<1>2. i \in 1..Len(table)
  BY <1>1 DEF Under
<1>3. Pay!lookup_ter_rate(wage, table) = table[i][2]
  BY LookupIsLowest
<1>. HIDE DEF i
<1>. DEFINE b == table[i]
<1>4. IsBracket(b) /\ Pay!lookup_ter_rate(wage, table) = b[2]
  BY <1>2, <1>3 DEF Rated
<1>. HIDE DEF b
<1>. QED  BY <1>4 DEF IsBracket

\* Two pays that have reached the same bounds have the same rate.
LEMMA SameBoundsSameRate ==
  ASSUME NEW table, Rated(table), NEW p \in 0..Pay!TopGross, NEW q \in 0..Pay!TopGross,
         {i \in DOMAIN table : table[i][1] <= p} = {i \in DOMAIN table : table[i][1] <= q}
  PROVE  Pay!lookup_ter_rate(p, table) = Pay!lookup_ter_rate(q, table)
<1>1. DOMAIN table = 1..Len(table) /\ \A i \in 1..Len(table) : IsBracket(table[i])
  BY DEF Rated
<1>2. Pay!TopGross \in Nat
  BY DEF Pay!TopGross
<1>3. ASSUME NEW i \in 1..Len(table) PROVE p < table[i][1] <=> q < table[i][1]
  <2>. DEFINE b == table[i]
  <2>1. IsBracket(b) /\ (b[1] <= p <=> b[1] <= q)
    BY <1>1
  <2>. HIDE DEF b
  <2>2. p < b[1] <=> q < b[1]
    BY <1>2, <2>1 DEF IsBracket
  <2>. QED  BY <2>2 DEF b
<1>4. Under(p, table) = Under(q, table)
  BY <1>3 DEF Under
<1>. QED  BY <1>4, LookupIsLowest

LEMMA TaxRateIsRate ==
  ASSUME Pay!TypeOK, NEW wage \in 0..Pay!TopGross
  PROVE  Pay!TaxRate(wage) \in Rates
<1>1. CASE Pay!UsesTable
  <2>. DEFINE table == Pay!Table
  <2>1. Rated(table)
    BY TablesAreRated DEF Pay!Table, Pay!TableOf
  <2>. HIDE DEF table
  <2>2. Pay!lookup_ter_rate(wage, table) \in Rates
    BY <2>1, LookupIsRate
  <2>. USE DEF table
  <2>3. Pay!TaxRate(wage) = Pay!lookup_ter_rate(wage, Pay!Table)
    BY <1>1 DEF Pay!TaxRate, Pay!UsesTable
  <2>. QED  BY <2>2, <2>3
<1>2. CASE ~Pay!UsesTable
  BY <1>2 DEF Pay!TaxRate, Pay!UsesTable, Pay!TypeOK, Pay!TaxConfig, Pay!EmploymentType,
              Pay!Mandatory, Pay!Honorary, Rates
<1>. QED  BY <1>1, <1>2

LEMMA SameBoundsSameTaxRate ==
  ASSUME Pay!TypeOK, NEW p \in 0..Pay!TopGross, NEW q \in 0..Pay!TopGross,
         Pay!BoundsReached(p) = Pay!BoundsReached(q)
  PROVE  Pay!TaxRate(p) = Pay!TaxRate(q)
<1>1. CASE Pay!UsesTable
  <2>1. Rated(Pay!Table)
    BY TablesAreRated DEF Pay!Table, Pay!TableOf
  <2>2. {i \in DOMAIN Pay!Table : Pay!Table[i][1] <= p} =
        {i \in DOMAIN Pay!Table : Pay!Table[i][1] <= q}
    BY <1>1 DEF Pay!BoundsReached
  <2>. QED  BY <1>1, <2>1, <2>2, SameBoundsSameRate DEF Pay!TaxRate
<1>2. CASE ~Pay!UsesTable
  <2>1. tax_config.method = "none" /\ employment_type \in Pay!Honorary => (50 <= p <=> 50 <= q)
    BY <1>2 DEF Pay!BoundsReached
  <2>2. Pay!TopGross \in Nat
    BY DEF Pay!TopGross
  <2>. QED  BY <1>2, <2>1, <2>2 DEF Pay!TaxRate, Pay!UsesTable, Pay!TypeOK, Pay!TaxConfig,
                              Pay!EmploymentType, Pay!Mandatory, Pay!Honorary
<1>. QED  BY <1>1, <1>2

LEMMA PayTypeNext == Pay!TypeOK /\ [Pay!Next]_Pay!vars => Pay!TypeOK'
BY DEF Pay!TypeOK, Pay!Next, Pay!Raise, Pay!vars, Pay!TopGross

LEMMA RaiseCountsStep ==
  ASSUME Pay!TypeOK, Pay!Next, Pay!BoundsReached(gross') = Pay!BoundsReached(gross)
  PROVE  Pay!net_salary(gross') - Pay!net_salary(gross) \in (10000 - 3400 - 400)..10000
<1>. DEFINE rate == Pay!TaxRate(gross)
            insured == Pay!Insurance.bpjs_kes_employee + Pay!Insurance.jht_employee
                       + Pay!Insurance.jp_employee
<1>1. /\ gross \in 0..Pay!TopGross /\ gross' \in 0..Pay!TopGross /\ gross' = gross + 1
      /\ employment_type' = employment_type /\ tax_config' = tax_config
  BY DEF Pay!TypeOK, Pay!Next, Pay!Raise, Pay!TopGross
<1>2. Pay!TaxRate(gross') = rate /\ rate \in Rates
  BY <1>1, TaxRateIsRate, SameBoundsSameTaxRate
<1>3. insured \in 0..400
  BY DEF Pay!Insurance, Pay!Mandatory, Pay!Honorary, Pay!TypeOK, Pay!EmploymentType
<1>4. Pay!net_salary(gross) = 10000 * gross - gross * rate - gross * insured
  BY DEF Pay!net_salary, Pay!calculate_pph21, Pay!calculate_bpjs_employee
<1>5. Pay!net_salary(gross') = 10000 * gross' - gross' * rate - gross' * insured
  BY <1>2 DEF Pay!net_salary, Pay!calculate_pph21, Pay!calculate_bpjs_employee
<1>6. 10000 * (gross + 1) = 10000 * gross + 10000 /\ (gross + 1) * rate = gross * rate + rate
      /\ (gross + 1) * insured = gross * insured + insured
  <2>. HIDE DEF rate, insured
  <2>1. gross \in Int /\ rate \in Int /\ insured \in Int
    BY <1>1, <1>2, <1>3 DEF Pay!TopGross, Rates
  <2>. QED  BY <2>1
<1>. HIDE DEF rate, insured
<1>7. gross \in Int /\ gross * rate \in Int /\ gross * insured \in Int
  BY <1>1, <1>2, <1>3 DEF Pay!TopGross, Rates
<1>8. Pay!net_salary(gross') - Pay!net_salary(gross) = 10000 - rate - insured
  BY <1>1, <1>2, <1>3, <1>4, <1>5, <1>6, <1>7 DEF Rates
<1>. DEFINE worth == Pay!net_salary(gross') - Pay!net_salary(gross)
<1>9. worth = 10000 - rate - insured
  BY <1>8
<1>. HIDE DEF worth
<1>10. rate \in 0..3400
  BY <1>2 DEF Rates
<1>11. worth \in (10000 - 3400 - 400)..10000
  BY <1>3, <1>9, <1>10
<1>. QED  BY <1>11 DEF worth

\* A raise under the same bounds is worth what the highest rate and the full
\* insurance leave of it, or more, and never more than itself: for every kind of
\* contract, every table and every pay.
THEOREM RaiseCounts == Pay!Spec => Pay!RaiseCountsInBracket
<1>1. Pay!TypeOK /\ [Pay!Next]_Pay!vars =>
        [gross' > gross /\ Pay!BoundsReached(gross') = Pay!BoundsReached(gross) =>
           Pay!net_salary(gross') - Pay!net_salary(gross)
             \in (10000 - 3400 - 400)..10000]_Pay!vars
  BY RaiseCountsStep
<1>2. Pay!Init => Pay!TypeOK
  BY DEF Pay!Init, Pay!TypeOK, Pay!TopGross
<1>. QED  BY <1>1, <1>2, PayTypeNext, PTL DEF Pay!Spec, Pay!RaiseCountsInBracket

-----------------------------------------------------------------------------
(* Beside each other *)

\* A behaviour of the whole is one of each part: what the other parts do
\* leaves it standing still.
LEMMA PartsBegin ==
  CampusInit => Init /\ T!Init /\ P!Init /\ R!Init /\ O!Init /\ Pay!Init
BY DEF CampusInit

LEMMA PartsStep ==
  [CampusNext]_all =>
    /\ [Next]_vars /\ [T!Next]_T!vars /\ [P!Next]_P!vars
    /\ [R!Next]_R!vars /\ [O!Next]_O!vars /\ [Pay!Next]_Pay!vars
<1>. SUFFICES ASSUME [CampusNext]_all
              PROVE  /\ [Next]_vars /\ [T!Next]_T!vars /\ [P!Next]_P!vars
                     /\ [R!Next]_R!vars /\ [O!Next]_O!vars /\ [Pay!Next]_Pay!vars
  OBVIOUS
<1>1. Next \/ UNCHANGED vars
  BY DEF CampusNext, all, vars
<1>2. T!Next \/ UNCHANGED T!vars
  BY DEF CampusNext, all, timetable, T!vars
<1>3. P!Next \/ UNCHANGED P!vars
  BY DEF CampusNext, all, people, P!vars
<1>4. R!Next \/ UNCHANGED R!vars
  BY DEF CampusNext, all, rulings, R!vars
<1>5. O!Next \/ UNCHANGED O!vars
  BY DEF CampusNext, all, origins, O!vars
<1>6. Pay!Next \/ UNCHANGED Pay!vars
  BY DEF CampusNext, all, pay, Pay!vars
<1>. QED  BY <1>1, <1>2, <1>3, <1>4, <1>5, <1>6

LEMMA CampusHasParts ==
  CampusSpec => Spec /\ T!Spec /\ P!Spec /\ R!Spec /\ O!Spec /\ Pay!Spec
BY PartsBegin, PartsStep, PTL
DEF CampusSpec, Spec, T!Spec, P!Spec, R!Spec, O!Spec, Pay!Spec

\* In the system as a whole, a batch of grades is recorded whole.
THEOREM CampusGrades == CampusSpec => BatchIsRecorded
BY CampusHasParts, BatchIsRecordedHolds, PTL

\* In the system as a whole, a phone is lost only to changes of accounts and
\* to overtaken lookups.
THEOREM CampusPhones ==
  ASSUME {"none", "own"} \cap Values = {}
  PROVE  CampusSpec => PhoneIsLostOnlyToChanges
<1>1. P!Spec => P!PhoneIsLostOnlyToChanges
  BY PhoneIsLost
<1>. QED  BY <1>1, CampusHasParts, PTL DEF PhoneIsLostOnlyToChanges

\* In the system as a whole, a teacher and their account part only by others.
THEOREM CampusPhonesPart == CampusSpec => PhonesPartOnlyByOthers
BY CampusHasParts, PhonesPart, PTL DEF PhonesPartOnlyByOthers

\* In the system as a whole, a raise counts in its bracket.
THEOREM CampusRaises == CampusSpec => RaiseCountsInBracket
BY CampusHasParts, RaiseCounts, PTL DEF RaiseCountsInBracket

\* In the system as a whole, a class has one lesson at a start.
THEOREM CampusLessons == CampusSpec => []OneLessonPerStart
BY CampusHasParts, OneLessonPerStartHolds, PTL DEF OneLessonPerStart

\* In the system as a whole, an approved leave request names its approver.
THEOREM CampusApprovals ==
  ASSUME "nobody" \notin Users
  PROVE  CampusSpec => []ApprovedHasApprover
<1>1. R!Spec => []R!ApprovedHasApprover
  BY ApprovedHasApproverHolds
<1>. QED  BY <1>1, CampusHasParts, PTL DEF ApprovedHasApprover

\* In the system as a whole, a revoked certificate changes only by stale reads.
THEOREM CampusRevocations ==
  ASSUME "nobody" \notin Users
  PROVE  CampusSpec => RevokedChangesOnlyByStaleReads
<1>1. R!Spec => R!RevokedChangesOnlyByStaleReads
  BY RevokedChanges
<1>. QED  BY <1>1, CampusHasParts, PTL DEF RevokedChangesOnlyByStaleReads

\* In the system as a whole, a batch that is not active grows only by stale reads.
THEOREM CampusAdmissions ==
  ASSUME "nobody" \notin Users
  PROVE  CampusSpec => ClosedBatchesGrowOnlyByStaleReads
<1>1. R!Spec => R!ClosedBatchesGrowOnlyByStaleReads
  BY ClosedBatchesGrow
<1>. QED  BY <1>1, CampusHasParts, PTL DEF ClosedBatchesGrowOnlyByStaleReads

\* In the system as a whole, memory matches the table where nothing made a
\* process drift.
THEOREM CampusOrigins == CampusSpec => []MemoryMatchesTable
BY CampusHasParts, MemoryMatchesTableHolds, PTL DEF MemoryMatchesTable
=============================================================================
