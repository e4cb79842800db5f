----------------------------- MODULE Timetable -----------------------------
(***************************************************************************)
(* The timetable of the classes and the curriculum of one grade level: the *)
(* rows of schedule_slots and grade_curricula under the classes, years and *)
(* subjects they belong to. Requests read and commit in separate steps as  *)
(* in Dormitory.                                                           *)
(*                                                                         *)
(* A name with an underscore is a faulty variant of the definition it      *)
(* precedes, as in Dormitory.                                              *)
(***************************************************************************)
EXTENDS Naturals

CONSTANTS
  Workers,   \* requests that can be in flight at the same time
  Slots,     \* keys of schedule_slots
  Days,      \* one weekday of one class in one year each
  Subjects,
  Times      \* values of time_start and time_end: strings nobody compares by order

VARIABLES
  deleted,     \* the parents, days and subjects, whose row is gone
  slots,       \* the row of each slot
  curriculum,  \* is_lead of each subject's row, where there is one
  req          \* the request each worker is serving

vars == <<deleted, slots, curriculum, req>>

-----------------------------------------------------------------------------
NoRow == [is |-> "no row"]
Slot == [is : {"slot"}, day : Days, subject : Subjects, time_start : Times, time_end : Times]
Row == {NoRow} \cup Slot
Entry == {"no row", "lead", "not lead"}

Idle == [op |-> "idle"]

\* after is the row as the handler leaves it, before as it found it.
Request ==
  {Idle}
  \cup [op : {"create"}, slot : Slots, after : Slot]
  \cup [op : {"check", "update"}, slot : Slots, before : Slot, after : Slot]
  \cup [op : {"upsert"}, subject : Subjects, before : Entry, after : Entry]

Init ==
  /\ deleted = {}
  /\ slots = [i \in Slots |-> NoRow]
  /\ curriculum = [s \in Subjects |-> "no row"]
  /\ req = [w \in Workers |-> Idle]

Serve(w, request) == req' = [req EXCEPT ![w] = request]
Finish(w) == Serve(w, Idle)

\* The ORM leaves a column alone when the handler set it to the value it read.
Write(read, set, committed) == IF set = read THEN committed ELSE set

Held == {i \in Slots : slots[i] # NoRow}

\* check_overlap: another lesson of the day that starts at the same time. When
\* it ends is not looked at.
check_overlap(day, start, exclude) ==
  \E i \in Held \ exclude : slots[i].day = day /\ slots[i].time_start = start

\* uq_slot_class_day_time, for a row of key i.
SlotIndexAllows_NoIndex(i, row) == TRUE
SlotIndexAllows(i, row) == ~check_overlap(row.day, row.time_start, {i})

ParentsExist(row) == {row.day, row.subject} \cap deleted = {}

-----------------------------------------------------------------------------
(* Lessons *)

CreateSlotRead(w, i, row) ==
  /\ req[w] = Idle
  /\ slots[i] = NoRow
  /\ ~check_overlap(row.day, row.time_start, {})
  /\ Serve(w, [op |-> "create", slot |-> i, after |-> row])
  /\ UNCHANGED <<deleted, slots, curriculum>>

CreateSlotCommit(w) ==
  LET r == req[w] IN
  /\ r.op = "create"
  /\ slots[r.slot] = NoRow
  /\ ParentsExist(r.after)
  /\ SlotIndexAllows(r.slot, r.after)
  /\ slots' = [slots EXCEPT ![r.slot] = r.after]
  /\ Finish(w)
  /\ UNCHANGED <<deleted, curriculum>>

\* The day of a slot is not among the fields of an update.
UpdateSlotRead(w, i, row) ==
  /\ req[w] = Idle
  /\ slots[i] # NoRow
  /\ row.day = slots[i].day
  /\ Serve(w, [op |-> IF row.time_start # slots[i].time_start THEN "check" ELSE "update",
               slot |-> i, before |-> slots[i], after |-> row])
  /\ UNCHANGED <<deleted, slots, curriculum>>

\* A lesson that moves has its new start looked up by another SELECT.
UpdateSlotCheck(w) ==
  LET r == req[w] IN
  /\ r.op = "check"
  /\ ~check_overlap(r.after.day, r.after.time_start, {r.slot})
  /\ Serve(w, [r EXCEPT !.op = "update"])
  /\ UNCHANGED <<deleted, slots, curriculum>>

Updated(r) ==
  [field \in DOMAIN r.after |-> Write(r.before[field], r.after[field], slots[r.slot][field])]

\* An update of a row that is gone fails, unless it has nothing to write.
UpdateSlotCommit(w) ==
  LET r == req[w] IN
  /\ r.op = "update"
  /\ slots[r.slot] # NoRow
  /\ ParentsExist(Updated(r))
  /\ SlotIndexAllows(r.slot, Updated(r))
  /\ slots' = [slots EXCEPT ![r.slot] = Updated(r)]
  /\ Finish(w)
  /\ UNCHANGED <<deleted, curriculum>>

\* Looked up and deleted; a delete that comes second changes nothing.
DeleteSlot(i) ==
  /\ slots[i] # NoRow
  /\ slots' = [slots EXCEPT ![i] = NoRow]
  /\ UNCHANGED <<deleted, curriculum, req>>

-----------------------------------------------------------------------------
(* The curriculum *)

UpsertRead(w, s, is_lead) ==
  /\ req[w] = Idle
  /\ Serve(w, [op |-> "upsert", subject |-> s, before |-> curriculum[s], after |-> is_lead])
  /\ UNCHANGED <<deleted, slots, curriculum>>

\* uq_grade_curriculum and the foreign key, for an insert; an update needs
\* its row.
CanUpsert(r) ==
  IF r.before = "no row"
  THEN curriculum[r.subject] = "no row" /\ r.subject \notin deleted
  ELSE curriculum[r.subject] # "no row"

UpsertCommit(w) ==
  LET r == req[w] IN
  /\ r.op = "upsert"
  /\ CanUpsert(r)
  /\ curriculum' = [curriculum EXCEPT ![r.subject] = Write(r.before, r.after, @)]
  /\ Finish(w)
  /\ UNCHANGED <<deleted, slots>>

RemoveCurriculum(s) ==
  /\ curriculum[s] # "no row"
  /\ curriculum' = [curriculum EXCEPT ![s] = "no row"]
  /\ UNCHANGED <<deleted, slots, req>>

-----------------------------------------------------------------------------
\* ON DELETE CASCADE takes what refers to the parent.
Orphans(p) == {i \in Held : p \in {slots[i].day, slots[i].subject}}

\* A class, its year or a subject is deleted.
DeleteParent(p) ==
  /\ p \notin deleted
  /\ deleted' = deleted \cup {p}
  /\ slots' = [i \in Slots |-> IF i \in Orphans(p) THEN NoRow ELSE slots[i]]
  /\ curriculum' = [s \in Subjects |-> IF s = p THEN "no row" ELSE curriculum[s]]
  /\ UNCHANGED req

\* get_db rolls back.
Abort(w) ==
  /\ req[w] # Idle
  /\ Finish(w)
  /\ UNCHANGED <<deleted, slots, curriculum>>

SlotStep(w) ==
  \/ \E i \in Slots, row \in Slot : CreateSlotRead(w, i, row) \/ UpdateSlotRead(w, i, row)
  \/ CreateSlotCommit(w)
  \/ UpdateSlotCheck(w)
  \/ UpdateSlotCommit(w)

CurriculumStep(w) ==
  \/ \E s \in Subjects, is_lead \in Entry \ {"no row"} : UpsertRead(w, s, is_lead)
  \/ UpsertCommit(w)

Removal ==
  \/ \E i \in Slots : DeleteSlot(i)
  \/ \E s \in Subjects : RemoveCurriculum(s)
  \/ \E p \in Days \cup Subjects : DeleteParent(p)

Next ==
  \/ \E w \in Workers : SlotStep(w) \/ CurriculumStep(w) \/ Abort(w)
  \/ Removal

Spec == Init /\ [][Next]_vars

-----------------------------------------------------------------------------
TypeOK ==
  /\ deleted \subseteq Days \cup Subjects
  /\ slots \in [Slots -> Row]
  /\ curriculum \in [Subjects -> Entry]
  /\ req \in [Workers -> Request]

\* No two lessons of a class on one day start at the same time, whichever way
\* creations and moves overlap: check_overlap uses scalar_one_or_none, which
\* would raise for every later lesson at that time.
OneLessonPerStart ==
  \A i, j \in Held :
    slots[i].day = slots[j].day /\ slots[i].time_start = slots[j].time_start => i = j

\* Lessons and curriculum entries go with the class, year and subject they
\* belong to, and a request that read before that does not bring them back.
LessonsHaveParents ==
  /\ \A i \in Held : ParentsExist(slots[i])
  /\ \A s \in Subjects \cap deleted : curriculum[s] = "no row"
=============================================================================
