----------------------------- MODULE Gradebook -----------------------------
(***************************************************************************)
(* Grades: single ones recorded by hand, and the batches a teacher saves   *)
(* from the grade matrix, which read row after row and write them all at   *)
(* the end of the request, inserting what was not there and updating what  *)
(* was. One academic year and one semester; a grade is of a student and a  *)
(* subject.                                                                *)
(*                                                                         *)
(* A name with an underscore is a faulty variant of the definition it      *)
(* precedes, as in Dormitory.                                              *)
(***************************************************************************)
EXTENDS Naturals, Sequences

CONSTANTS
  Workers,   \* requests that can be in flight at the same time
  Students,
  Subjects,
  Scores,    \* bound: the scores anybody gives
  Sent,      \* bound: the letters clients send with a grade of their own
  Batches    \* bound: the batches teachers save

\* The schemas take any number; these are the ones of a report.
ASSUME ScoresAssumption == Scores \subseteq 0..100

VARIABLES
  subjectIs,  \* where the life of each subjects row stands
  grades,     \* the grades row of each student and subject
  req         \* the request each worker is serving

vars == <<subjectIs, grades, req>>

-----------------------------------------------------------------------------
Key == Students \X Subjects
Letters == {"A", "B+", "B", "C+", "C", "D"}

NoGrade == [score |-> 0, grade_letter |-> "no row"]
Grade == [score : Scores, grade_letter : Letters \cup Sent]
Item == [key : Key, score : Scores]

ASSUME BatchesAssumption == Batches \subseteq Seq(Item) \ {<<>>}

Idle == [op |-> "idle"]
Batch == [op : {"batch"}, items : Batches, read : Seq(Grade \cup {NoGrade})]

Init ==
  /\ subjectIs = [s \in Subjects |-> "new"]
  /\ grades = [k \in Key |-> NoGrade]
  /\ req = [w \in Workers |-> Idle]

score_to_letter(score) ==
  CASE score >= 90 -> "A"
    [] score \in 80..89 -> "B+"
    [] score \in 70..79 -> "B"
    [] score \in 60..69 -> "C+"
    [] score \in 50..59 -> "C"
    [] OTHER -> "D"

Graded(score) == [score |-> score, grade_letter |-> score_to_letter(score)]

\* The foreign key and the unique constraint of the table.
CanInsert(k) == subjectIs[k[2]] = "live" /\ grades[k] = NoGrade

-----------------------------------------------------------------------------
(* Subjects and single grades *)

CreateSubject(s) ==
  /\ subjectIs[s] = "new"
  /\ subjectIs' = [subjectIs EXCEPT ![s] = "live"]
  /\ UNCHANGED <<grades, req>>

\* The grades of the subject go with it.
DeleteSubject(s) ==
  /\ subjectIs[s] = "live"
  /\ subjectIs' = [subjectIs EXCEPT ![s] = "deleted"]
  /\ grades' = [k \in Key |-> IF k[2] = s THEN NoGrade ELSE grades[k]]
  /\ UNCHANGED req

\* record_grade: the letter is what the client sent, if anything.
RecordGrade(k, grade) ==
  /\ CanInsert(k)
  /\ grades' = [grades EXCEPT ![k] = grade]
  /\ UNCHANGED <<subjectIs, req>>

-----------------------------------------------------------------------------
(* batch_upsert_grades *)

BatchBegin(w, items) ==
  /\ req[w] = Idle
  /\ req' = [req EXCEPT ![w] = [op |-> "batch", items |-> items, read |-> <<>>]]
  /\ UNCHANGED <<subjectIs, grades>>

\* Each SELECT sees what is committed by then.
BatchRead(w) ==
  /\ req[w] # Idle
  /\ Len(req[w].read) < Len(req[w].items)
  /\ LET item == req[w].items[Len(req[w].read) + 1]
     IN  req' = [req EXCEPT ![w].read = Append(@, grades[item.key])]
  /\ UNCHANGED <<subjectIs, grades>>

Places(batch, k) == {i \in DOMAIN batch.read : batch.items[i].key = k}
FirstAt(places) == CHOOSE i \in places : \A j \in places : i <= j
LastAt(places) == CHOOSE i \in places : \A j \in places : j <= i

Inserts(batch) == {i \in DOMAIN batch.read : batch.read[i] = NoGrade}

\* What the row of k held when the batch first read it.
Read(batch, k) == batch.read[FirstAt(Places(batch, k))]

\* The last of the items for one grade counts.
Wanted_First(batch, k) == Graded(batch.items[FirstAt(Places(batch, k))].score)
Wanted(batch, k) == Graded(batch.items[LastAt(Places(batch, k))].score)

\* The UPDATE names only the columns whose value is not the one that was read.
Updated(batch, k) ==
  [column \in DOMAIN NoGrade |->
     IF Wanted(batch, k)[column] = Read(batch, k)[column]
     THEN grades[k][column]
     ELSE Wanted(batch, k)[column]]

\* One row that cannot be inserted or that is gone when it is to be updated
\* rolls all of them back: then the step cannot be taken, only Abort.
BatchCommit(w) ==
  LET batch == req[w]
      Touched == {batch.items[i].key : i \in DOMAIN batch.read}
      Inserted == {batch.items[i].key : i \in Inserts(batch)}
  IN  /\ batch # Idle
      /\ Len(batch.read) = Len(batch.items)
      /\ \A i \in Inserts(batch) : CanInsert(batch.items[i].key)
      /\ \A k \in Inserted : Places(batch, k) = {FirstAt(Places(batch, k))}
      /\ \A k \in Touched \ Inserted :
           grades[k] = NoGrade => Wanted(batch, k) = Read(batch, k)
      /\ grades' = [k \in Key |->
           IF k \in Inserted THEN Wanted(batch, k)
           ELSE IF k \in Touched /\ grades[k] # NoGrade THEN Updated(batch, k)
           ELSE grades[k]]
      /\ req' = [req EXCEPT ![w] = Idle]
      /\ UNCHANGED subjectIs

\* get_db rolls back.
Abort(w) ==
  /\ req[w] # Idle
  /\ req' = [req EXCEPT ![w] = Idle]
  /\ UNCHANGED <<subjectIs, grades>>

-----------------------------------------------------------------------------
ByHand ==
  \E k \in Key, score \in Scores, letter \in Sent :
    RecordGrade(k, [score |-> score, grade_letter |-> letter])

BatchStep(w) ==
  \/ \E items \in Batches : BatchBegin(w, items)
  \/ BatchRead(w)
  \/ BatchCommit(w)
  \/ Abort(w)

Next ==
  \/ \E s \in Subjects : CreateSubject(s) \/ DeleteSubject(s)
  \/ ByHand
  \/ \E w \in Workers : BatchStep(w)

Spec == Init /\ [][Next]_vars

-----------------------------------------------------------------------------
TypeOK ==
  /\ subjectIs \in [Subjects -> {"new", "live", "deleted"}]
  /\ grades \in [Key -> Grade \cup {NoGrade}]
  /\ req \in [Workers -> {Idle} \cup Batch]

\* A batch that is answered with success has recorded every grade in it, the
\* last one where it names a grade twice, each with the letter of its score.
\* The exception is a row that another request changed after this one read it:
\* there score and letter can come from different requests.
BatchIsRecorded ==
  [][\A w \in Workers :
       req[w] # Idle /\ req'[w] = Idle /\ grades' # grades =>
         \A i \in DOMAIN req[w].items :
           LET items == req[w].items
               k == items[i].key
           IN  grades[k] = Read(req[w], k) /\ (\A j \in DOMAIN items : j > i => items[j].key # k) =>
                 grades'[k] = Graded(items[i].score)]_vars
=============================================================================
