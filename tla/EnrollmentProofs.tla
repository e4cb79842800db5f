-------------------------- MODULE EnrollmentProofs --------------------------
(***************************************************************************)
(* Proofs about Enrollment, for any number of requests in flight,          *)
(* students, years, classes and capacities.                                *)
(***************************************************************************)
EXTENDS Enrollment, FiniteSetTheorems, TLAPS

\* What the constraints on class_enrollments keep true of its rows: keys are
\* taken in order, and a student has one row for a year. The rows are finitely
\* many, so they can be counted.
RowsSound ==
  /\ IsFiniteSet(enrollments)
  /\ \A e \in enrollments : e.id < nextRow
  /\ \A e, f \in enrollments : e.id = f.id => e = f
  /\ \A e, f \in enrollments : e.student = f.student /\ e.year = f.year => e = f

\* An enrollment about to commit has seen a place.
PlaceSeen ==
  \A w \in Workers : req[w].op = "enroll.commit" => req[w].count < req[w].seen.capacity

\* The inductive invariant: a request remembers a count, and that is a number
\* because the rows counted are finitely many.
Inv == TypeOK /\ RowsSound /\ PlaceSeen

-----------------------------------------------------------------------------
\* The shape of a request is known from its op alone.
LEMMA RequestShape ==
  ASSUME NEW q \in Request
  PROVE  /\ q.op = "enroll.count" =>
              q.class \in Classes /\ q.student \in Students /\ q.year \in Years /\ q.seen \in Seen
         /\ q.op = "enroll.commit" =>
              /\ q.class \in Classes /\ q.student \in Students /\ q.year \in Years
              /\ q.seen \in Seen /\ q.count \in Nat
         /\ q.op = "remove.row" => q.class \in Classes /\ q.student \in Students /\ q.seen \in Seen
         /\ q.op = "remove.commit" => q.class \in Classes /\ q.row \in Enrolled /\ q.seen \in Seen
         /\ q.op = "update_class" => q.class \in Classes /\ q.seen \in Seen
         /\ q.op = "delete_class" => q.class \in Classes
         /\ q.op = "delete_year" => q.year \in Years
  BY DEF Request, Idle

LEMMA ReadClassType ==
  ASSUME TypeOK, NEW c \in Classes
  PROVE  ReadClass(c) \in Seen
  BY DEF TypeOK, ReadClass, Seen

\* A request that is not being served now keeps what it remembers.
LEMMA ServeType ==
  ASSUME TypeOK, NEW w \in Workers, NEW q \in Request, Serve(w, q)
  PROVE  /\ req' \in [Workers -> Request]
         /\ req'[w] = q
         /\ \A v \in Workers \ {w} : req'[v] = req[v]
  BY DEF TypeOK, Serve

\* A request that ends remembers nothing.
LEMMA FinishType ==
  ASSUME Inv, NEW w \in Workers, Finish(w)
  PROVE  /\ req' \in [Workers -> Request]
         /\ req'[w] = Idle
         /\ \A v \in Workers \ {w} : req'[v] = req[v]
         /\ PlaceSeen'
<1>1. Idle \in Request
  BY DEF Request
<1>2. /\ req' \in [Workers -> Request]
      /\ req'[w] = Idle
      /\ \A v \in Workers \ {w} : req'[v] = req[v]
  BY <1>1, ServeType DEF Inv, Finish
<1>. QED
  BY <1>2 DEF Inv, PlaceSeen, Idle

\* The steps that only change what a request remembers.
LEMMA ReadKeepsInv ==
  ASSUME Inv,
         NEW w \in Workers, NEW q \in Request, Serve(w, q),
         q.op = "enroll.commit" => q.count < q.seen.capacity,
         UNCHANGED <<yearIs, classVars, enrollments, nextRow>>
  PROVE  Inv'
<1>1. TypeOK'
  BY ServeType DEF Inv, TypeOK, classVars
<1>2. RowsSound'
  BY DEF Inv, RowsSound
<1>3. PlaceSeen'
  BY ServeType DEF Inv, PlaceSeen
<1>. QED  BY <1>1, <1>2, <1>3 DEF Inv

-----------------------------------------------------------------------------
(* Counting *)

LEMMA ActiveCountType ==
  ASSUME RowsSound, NEW c
  PROVE  ActiveCount(c) \in Nat
<1>. DEFINE active == {e \in enrollments : e.class = c /\ e.is_active}
<1>1. active \in SUBSET enrollments
  OBVIOUS
<1>2. IsFiniteSet(active)
  BY <1>1, FS_Subset DEF RowsSound
<1>. QED  BY <1>2, FS_CardinalityType DEF ActiveCount

LEMMA HeadcountIsActiveCount ==
  ASSUME NEW c
  PROVE  Headcount(c) = ActiveCount(c)
  BY DEF Headcount, ActiveCount

\* A class has no more students when every student it has was there before.
LEMMA FewerRowsCountLess ==
  ASSUME RowsSound, NEW c,
         \A e \in enrollments' : e.class = c /\ e.is_active => e \in enrollments
  PROVE  Headcount(c)' \in Nat /\ Headcount(c)' <= Headcount(c)
<1>. DEFINE before == {e \in enrollments : e.class = c /\ e.is_active}
            after == {e \in enrollments' : e.class = c /\ e.is_active}
<1>1. after \in SUBSET before
  OBVIOUS
<1>2. IsFiniteSet(before)
  <2>1. before \in SUBSET enrollments
    OBVIOUS
  <2>. QED  BY <2>1, FS_Subset DEF RowsSound
<1>3. Cardinality(after) \in Nat /\ Cardinality(after) <= Cardinality(before)
  BY ONLY <1>1, <1>2, FS_Subset, FS_CardinalityType
<1>. QED  BY <1>3 DEF Headcount

-----------------------------------------------------------------------------
(* The steps that change the rows *)

\* A cascade leaves rows that were there before.
LEMMA FewerRowsSound ==
  ASSUME RowsSound, enrollments' \subseteq enrollments, UNCHANGED nextRow
  PROVE  RowsSound'
<1>1. IsFiniteSet(enrollments')
  BY FS_Subset DEF RowsSound
<1>. QED  BY <1>1 DEF RowsSound

LEMMA DropClassesKeepsTables ==
  ASSUME Inv, NEW classes, NEW years, DropClasses(classes, years), UNCHANGED nextRow
  PROVE  /\ classIs' \in [Classes -> Life]
         /\ academic_year_id' \in [Classes -> Years]
         /\ capacity' \in [Classes -> Capacities]
         /\ current_count' \in [Classes -> Nat]
         /\ enrollments' \subseteq enrollments
         /\ RowsSound'
<1>1. enrollments' \subseteq enrollments
  BY DEF DropClasses, Cascade
<1>2. RowsSound'
  BY <1>1, FewerRowsSound DEF Inv
<1>. QED  BY <1>1, <1>2 DEF Inv, TypeOK, DropClasses, Life

\* What EnrollCommit does to the rows, whoever commits.
LEMMA EnrollCommitRows ==
  ASSUME Inv, NEW w \in Workers, EnrollCommit(w)
  PROVE  \E new \in Enrolled :
           /\ new.id = nextRow /\ new.is_active
           /\ new.class = req[w].class
           /\ new.student = req[w].student /\ new.year = req[w].year
           /\ new \notin enrollments
           /\ enrollments' = enrollments \cup {new}
<1>. DEFINE new == [id |-> nextRow, student |-> req[w].student, class |-> req[w].class,
                    year |-> req[w].year, is_active |-> TRUE]
<1>1. /\ req[w].class \in Classes
      /\ req[w].student \in Students
      /\ req[w].year \in Years
  BY RequestShape DEF Inv, TypeOK, EnrollCommit
<1>2. new \in Enrolled
  BY <1>1 DEF Inv, TypeOK, Enrolled
<1>3. new \notin enrollments
  BY DEF EnrollCommit, StudentYearIndexAllows
<1>4. enrollments' = enrollments \cup {new}
  BY DEF EnrollCommit
<1>. QED  BY <1>2, <1>3, <1>4

LEMMA EnrollCommitRowsSound ==
  ASSUME Inv, NEW w \in Workers, EnrollCommit(w)
  PROVE  RowsSound' /\ enrollments' \subseteq Enrolled
<1>1. PICK new \in Enrolled :
           /\ new.id = nextRow /\ new.is_active
           /\ new.class = req[w].class
           /\ new.student = req[w].student /\ new.year = req[w].year
           /\ new \notin enrollments
           /\ enrollments' = enrollments \cup {new}
  BY EnrollCommitRows
<1>2. IsFiniteSet(enrollments')
  BY <1>1, FS_AddElement DEF Inv, RowsSound
<1>3. nextRow \in Nat /\ nextRow' = nextRow + 1
  BY DEF Inv, TypeOK, EnrollCommit
<1>4. \A e \in enrollments : e.id \in Nat /\ e.id < nextRow
  BY DEF Inv, TypeOK, RowsSound, Enrolled
<1>5. \A e \in enrollments' : e.id < nextRow'
  BY <1>1, <1>3, <1>4
<1>6. \A e, f \in enrollments' : e.id = f.id => e = f
  BY <1>1, <1>3, <1>4 DEF Inv, RowsSound
<1>7. \A e \in enrollments : ~(e.student = new.student /\ e.year = new.year)
  BY <1>1 DEF EnrollCommit, StudentYearIndexAllows
<1>8. \A e, f \in enrollments' : e.student = f.student /\ e.year = f.year => e = f
  BY <1>1, <1>7 DEF Inv, RowsSound
<1>. QED  BY <1>1, <1>2, <1>5, <1>6, <1>8 DEF RowsSound, Inv, TypeOK

\* What RemoveCommit does to the rows: one of them becomes inactive.
LEMMA RemoveCommitRows ==
  ASSUME Inv, NEW w \in Workers, RemoveCommit(w)
  PROVE  \E row \in enrollments, left \in Enrolled :
           /\ left.id = row.id /\ left.class = row.class
           /\ left.student = row.student /\ left.year = row.year
           /\ ~left.is_active
           /\ enrollments' = (enrollments \ {row}) \cup {left}
<1>1. PICK row \in enrollments : row.id = req[w].row.id
  BY DEF RemoveCommit
<1>. DEFINE left == [row EXCEPT !.is_active = FALSE]
<1>2. \A e \in enrollments : e.id = req[w].row.id <=> e = row
  BY <1>1 DEF Inv, RowsSound
<1>3. enrollments' =
        {IF e.id = req[w].row.id THEN [e EXCEPT !.is_active = FALSE] ELSE e : e \in enrollments}
  BY DEF RemoveCommit
<1>4. enrollments' = (enrollments \ {row}) \cup {left}
  BY <1>1, <1>2, <1>3
<1>5. /\ left \in Enrolled
      /\ left.id = row.id /\ left.class = row.class
      /\ left.student = row.student /\ left.year = row.year
      /\ ~left.is_active
  BY <1>1 DEF Inv, TypeOK, Enrolled
<1>. QED  BY <1>1, <1>4, <1>5

LEMMA RemoveCommitRowsSound ==
  ASSUME Inv, NEW w \in Workers, RemoveCommit(w)
  PROVE  RowsSound' /\ enrollments' \subseteq Enrolled
<1>1. PICK row \in enrollments, left \in Enrolled :
           /\ left.id = row.id /\ left.class = row.class
           /\ left.student = row.student /\ left.year = row.year
           /\ ~left.is_active
           /\ enrollments' = (enrollments \ {row}) \cup {left}
  BY RemoveCommitRows
<1>2. IsFiniteSet(enrollments')
  <2>1. IsFiniteSet(enrollments \ {row})
    BY FS_Subset DEF Inv, RowsSound
  <2>. QED  BY <1>1, <2>1, FS_AddElement
<1>3. UNCHANGED nextRow
  BY DEF RemoveCommit
<1>4. \A e \in enrollments' : e.id < nextRow'
  BY <1>1, <1>3 DEF Inv, RowsSound
<1>5. \A e, f \in enrollments' : e.id = f.id => e = f
  BY <1>1 DEF Inv, RowsSound
<1>6. \A e, f \in enrollments' : e.student = f.student /\ e.year = f.year => e = f
  BY <1>1 DEF Inv, RowsSound
<1>. QED  BY <1>1, <1>2, <1>4, <1>5, <1>6 DEF RowsSound, Inv, TypeOK

-----------------------------------------------------------------------------
(* The inductive invariant *)

LEMMA InitInv == Init => Inv
<1>. SUFFICES ASSUME Init PROVE Inv
  OBVIOUS
<1>1. TypeOK
  BY DEF Init, TypeOK, Life, Request
<1>2. RowsSound
  BY FS_EmptySet DEF Init, RowsSound
<1>3. PlaceSeen
  BY DEF Init, PlaceSeen, Idle
<1>. QED  BY <1>1, <1>2, <1>3 DEF Inv

LEMMA NextInv == Inv /\ [Next]_vars => Inv'
<1>. SUFFICES ASSUME Inv, [Next]_vars PROVE Inv'
  OBVIOUS
<1>1. ASSUME NEW w \in Workers, NEW y \in Years, CreateYear(w, y)
      PROVE  Inv'
  BY <1>1 DEF CreateYear, Inv, TypeOK, RowsSound, PlaceSeen, Life, classVars
<1>2. ASSUME NEW w \in Workers, NEW y \in Years, DeleteYearRead(w, y)
      PROVE  Inv'
  <2>1. [op |-> "delete_year", year |-> y] \in Request
    BY DEF Request
  <2>. QED  BY <1>2, <2>1, ReadKeepsInv DEF DeleteYearRead
<1>3. ASSUME NEW w \in Workers, NEW c \in Classes, CreateClass(w, c)
      PROVE  Inv'
  BY <1>3 DEF CreateClass, Inv, TypeOK, RowsSound, PlaceSeen, Life
<1>4. ASSUME NEW w \in Workers, NEW c \in Classes, UpdateClassRead(w, c)
      PROVE  Inv'
  <2>1. [op |-> "update_class", class |-> c, seen |-> ReadClass(c)] \in Request
    BY ReadClassType DEF Request, Inv
  <2>. QED  BY <1>4, <2>1, ReadKeepsInv DEF UpdateClassRead
<1>5. ASSUME NEW w \in Workers, NEW c \in Classes, DeleteClassRead(w, c)
      PROVE  Inv'
  <2>1. [op |-> "delete_class", class |-> c] \in Request
    BY DEF Request
  <2>. QED  BY <1>5, <2>1, ReadKeepsInv DEF DeleteClassRead
<1>6. ASSUME NEW w \in Workers, NEW c \in Classes, NEW s \in Students, RemoveReadClass(w, c, s)
      PROVE  Inv'
  <2>1. [op |-> "remove.row", class |-> c, student |-> s, seen |-> ReadClass(c)] \in Request
    BY ReadClassType DEF Request, Inv
  <2>. QED  BY <1>6, <2>1, ReadKeepsInv DEF RemoveReadClass
<1>7. ASSUME NEW w \in Workers, NEW c \in Classes, NEW s \in Students, NEW y \in Years,
             EnrollReadClass(w, c, s, y)
      PROVE  Inv'
  <2>1. [op |-> "enroll.count", class |-> c, student |-> s, year |-> y, seen |-> ReadClass(c)]
          \in Request
    BY ReadClassType DEF Request, Inv
  <2>. QED  BY <1>7, <2>1, ReadKeepsInv DEF EnrollReadClass
<1>8. ASSUME NEW w \in Workers, UpdateClassCommit(w)
      PROVE  Inv'
  <2>1. req[w].class \in Classes /\ req[w].seen \in Seen
    BY <1>8, RequestShape DEF Inv, TypeOK, UpdateClassCommit
  <2>2. capacity' \in [Classes -> Capacities]
    BY <1>8, <2>1 DEF Inv, TypeOK, UpdateClassCommit, Write
  <2>3. current_count' \in [Classes -> Nat]
    BY <1>8, <2>1, NumbersAssumption DEF Inv, TypeOK, UpdateClassCommit, Write, Seen
  <2>4. req' \in [Workers -> Request] /\ PlaceSeen'
    BY <1>8, FinishType DEF UpdateClassCommit
  <2>. QED  BY <1>8, <2>2, <2>3, <2>4 DEF UpdateClassCommit, Inv, TypeOK, RowsSound
<1>9. ASSUME NEW w \in Workers, DeleteClassCommit(w)
      PROVE  Inv'
  <2>1. req' \in [Workers -> Request] /\ PlaceSeen'
    BY <1>9, FinishType DEF DeleteClassCommit
  <2>. QED  BY <1>9, <2>1, DropClassesKeepsTables DEF DeleteClassCommit, Inv, TypeOK
<1>10. ASSUME NEW w \in Workers, DeleteYearCommit(w)
       PROVE  Inv'
  <2>1. req' \in [Workers -> Request] /\ PlaceSeen'
    BY <1>10, FinishType DEF DeleteYearCommit
  <2>2. yearIs' \in [Years -> Life]
    BY <1>10 DEF DeleteYearCommit, Inv, TypeOK, Life
  <2>. QED  BY <1>10, <2>1, <2>2, DropClassesKeepsTables DEF DeleteYearCommit, Inv, TypeOK
<1>11. ASSUME NEW w \in Workers, EnrollReadCount(w)
       PROVE  Inv'
  <2>. DEFINE q == [op |-> "enroll.commit", class |-> req[w].class,
                    student |-> req[w].student, year |-> req[w].year,
                    seen |-> req[w].seen, count |-> ActiveCount(req[w].class)]
  <2>1. /\ req[w].class \in Classes /\ req[w].student \in Students
        /\ req[w].year \in Years /\ req[w].seen \in Seen
    BY <1>11, RequestShape DEF Inv, TypeOK, EnrollReadCount
  <2>2. q \in Request
    BY <2>1, ActiveCountType DEF Request, Inv
  <2>3. q.count < q.seen.capacity
    BY <1>11 DEF EnrollReadCount, HasPlace
  <2>. QED  BY <1>11, <2>2, <2>3, ReadKeepsInv DEF EnrollReadCount
<1>12. ASSUME NEW w \in Workers, EnrollCommit(w)
       PROVE  Inv'
  <2>1. req[w].class \in Classes /\ req[w].seen \in Seen /\ req[w].count \in Nat
    BY <1>12, RequestShape DEF Inv, TypeOK, EnrollCommit
  <2>2. current_count' \in [Classes -> Nat] /\ nextRow' \in Nat
    BY <1>12, <2>1 DEF Inv, TypeOK, EnrollCommit, Write
  <2>3. RowsSound' /\ enrollments' \subseteq Enrolled
    BY <1>12, EnrollCommitRowsSound
  <2>4. req' \in [Workers -> Request] /\ PlaceSeen'
    BY <1>12, FinishType DEF EnrollCommit
  <2>. QED  BY <1>12, <2>2, <2>3, <2>4 DEF EnrollCommit, Inv, TypeOK
<1>13. ASSUME NEW w \in Workers, RemoveReadRow(w)
       PROVE  Inv'
  <2>1. req[w].class \in Classes /\ req[w].seen \in Seen
    BY <1>13, RequestShape DEF Inv, TypeOK, RemoveReadRow
  <2>2. PICK row \in enrollments :
          Serve(w, [op |-> "remove.commit", class |-> req[w].class, row |-> row,
                    seen |-> req[w].seen])
    BY <1>13 DEF RemoveReadRow
  <2>3. [op |-> "remove.commit", class |-> req[w].class, row |-> row, seen |-> req[w].seen]
          \in Request
    BY <2>1 DEF Request, Inv, TypeOK
  <2>. QED  BY <1>13, <2>2, <2>3, ReadKeepsInv DEF RemoveReadRow
<1>14. ASSUME NEW w \in Workers, RemoveCommit(w)
       PROVE  Inv'
  <2>1. req[w].class \in Classes /\ req[w].seen \in Seen
    BY <1>14, RequestShape DEF Inv, TypeOK, RemoveCommit
  <2>2. CountAfterRemoval(req[w].seen.current_count) \in Nat
    BY <2>1 DEF Seen, CountAfterRemoval
  <2>3. current_count' \in [Classes -> Nat]
    BY <1>14, <2>1, <2>2 DEF Inv, TypeOK, RemoveCommit, Write
  <2>4. RowsSound' /\ enrollments' \subseteq Enrolled
    BY <1>14, RemoveCommitRowsSound
  <2>5. req' \in [Workers -> Request] /\ PlaceSeen'
    BY <1>14, FinishType DEF RemoveCommit
  <2>. QED  BY <1>14, <2>3, <2>4, <2>5 DEF RemoveCommit, Inv, TypeOK
<1>15. ASSUME NEW w \in Workers, Abort(w)
       PROVE  Inv'
  <2>1. req' \in [Workers -> Request] /\ PlaceSeen'
    BY <1>15, FinishType DEF Abort
  <2>. QED  BY <1>15, <2>1 DEF Abort, Inv, TypeOK, RowsSound, classVars
<1>16. ASSUME UNCHANGED vars
       PROVE  Inv'
  BY <1>16 DEF vars, classVars, Inv, TypeOK, RowsSound, PlaceSeen
<1>. QED
  BY <1>1, <1>2, <1>3, <1>4, <1>5, <1>6, <1>7, <1>8, <1>9, <1>10, <1>11, <1>12, <1>13,
     <1>14, <1>15, <1>16 DEF Next

LEMMA InvHolds == Spec => []Inv
<1>. QED  BY InitInv, NextInv, PTL DEF Spec

\* Every reachable state has its type; in particular no removal takes a count
\* below zero and every count an enrollment remembers is a number.
THEOREM TypeCorrect == Spec => []TypeOK
<1>1. Inv => TypeOK
  BY DEF Inv
<1>. QED  BY <1>1, InvHolds, PTL

-----------------------------------------------------------------------------
(* Parents *)

\* A read changes neither rows nor parents.
LEMMA SameTablesSameParents ==
  ASSUME EnrollmentsHaveParents, UNCHANGED <<yearIs, classIs, academic_year_id, enrollments>>
  PROVE  EnrollmentsHaveParents'
  BY DEF EnrollmentsHaveParents

LEMMA NextParents ==
  Inv /\ EnrollmentsHaveParents /\ [Next]_vars => EnrollmentsHaveParents'
<1>. SUFFICES ASSUME Inv, EnrollmentsHaveParents, [Next]_vars
              PROVE  EnrollmentsHaveParents'
  OBVIOUS
<1>1. ASSUME NEW w \in Workers, NEW y \in Years, CreateYear(w, y)
      PROVE  EnrollmentsHaveParents'
  BY <1>1 DEF CreateYear, EnrollmentsHaveParents, classVars, Inv, TypeOK, Enrolled
<1>2. ASSUME NEW w \in Workers, NEW c \in Classes, CreateClass(w, c)
      PROVE  EnrollmentsHaveParents'
  BY <1>2 DEF CreateClass, EnrollmentsHaveParents, Inv, TypeOK, Enrolled
<1>3. ASSUME NEW w \in Workers, DeleteClassCommit(w)
      PROVE  EnrollmentsHaveParents'
  BY <1>3 DEF DeleteClassCommit, DropClasses, Cascade, EnrollmentsHaveParents, Inv, TypeOK,
              Enrolled
<1>4. ASSUME NEW w \in Workers, DeleteYearCommit(w)
      PROVE  EnrollmentsHaveParents'
  <2>. DEFINE y == req[w].year
  <2>1. y \in Years
    BY <1>4, RequestShape DEF Inv, TypeOK, DeleteYearCommit
  <2>2. /\ classIs' = [c \in Classes |-> IF c \in ClassesOf(y) THEN "deleted" ELSE classIs[c]]
        /\ yearIs' = [yearIs EXCEPT ![y] = "deleted"]
        /\ enrollments' = {e \in enrollments : e.class \notin ClassesOf(y) /\ e.year # y}
        /\ UNCHANGED academic_year_id
    BY <1>4 DEF DeleteYearCommit, DropClasses, Cascade
  <2>3. \A e \in enrollments' : classIs'[e.class] = "live" /\ yearIs'[e.year] = "live"
    BY <2>1, <2>2 DEF EnrollmentsHaveParents, Inv, TypeOK, Enrolled
  <2>4. \A c \in Classes : classIs'[c] = "live" => yearIs'[academic_year_id'[c]] = "live"
    BY <2>1, <2>2 DEF EnrollmentsHaveParents, Inv, TypeOK, ClassesOf
  <2>. QED  BY <2>3, <2>4 DEF EnrollmentsHaveParents
<1>5. ASSUME NEW w \in Workers, EnrollCommit(w)
      PROVE  EnrollmentsHaveParents'
  BY <1>5 DEF EnrollCommit, EnrollmentsHaveParents
<1>6. ASSUME NEW w \in Workers, RemoveCommit(w)
      PROVE  EnrollmentsHaveParents'
  <2>1. PICK row \in enrollments, left \in Enrolled :
           /\ left.id = row.id /\ left.class = row.class
           /\ left.student = row.student /\ left.year = row.year
           /\ ~left.is_active
           /\ enrollments' = (enrollments \ {row}) \cup {left}
    BY <1>6, RemoveCommitRows
  <2>. QED  BY <1>6, <2>1 DEF RemoveCommit, EnrollmentsHaveParents
<1>7. CASE UNCHANGED <<yearIs, classIs, academic_year_id, enrollments>>
  BY <1>7, SameTablesSameParents
<1>. QED
  BY <1>1, <1>2, <1>3, <1>4, <1>5, <1>6, <1>7
  DEF Next, vars, classVars, DeleteYearRead, UpdateClassRead, DeleteClassRead,
      RemoveReadClass, EnrollReadClass, UpdateClassCommit, EnrollReadCount, RemoveReadRow, Abort

\* No enrollment outlives its class or its year, and no class its year,
\* however deletions and enrollments overlap.
THEOREM ParentsAlwaysHold == Spec => []EnrollmentsHaveParents
<1>1. Init => EnrollmentsHaveParents
  BY DEF Init, EnrollmentsHaveParents
<1>. QED  BY <1>1, NextParents, InvHolds, PTL DEF Spec

-----------------------------------------------------------------------------
(* What a step may do *)

\* Every step but a commit of an enrollment leaves rows that were there, or
\* rows that have become inactive.
LEMMA OtherStepsAddNoActiveRow ==
  ASSUME Inv, [Next]_vars, \A w \in Workers : ~EnrollCommit(w)
  PROVE  /\ \A f \in enrollments' : f.is_active => f \in enrollments
         /\ \A f \in enrollments' : \E e \in enrollments :
              f.student = e.student /\ f.year = e.year /\ (f = e \/ ~f.is_active)
<1>1. ASSUME NEW w \in Workers, RemoveCommit(w)
      PROVE  /\ \A f \in enrollments' : f.is_active => f \in enrollments
             /\ \A f \in enrollments' : \E e \in enrollments :
                  f.student = e.student /\ f.year = e.year /\ (f = e \/ ~f.is_active)
  <2>1. PICK row \in enrollments, left \in Enrolled :
           /\ left.id = row.id /\ left.class = row.class
           /\ left.student = row.student /\ left.year = row.year
           /\ ~left.is_active
           /\ enrollments' = (enrollments \ {row}) \cup {left}
    BY <1>1, RemoveCommitRows
  <2>. QED  BY <2>1
<1>2. CASE enrollments' \subseteq enrollments
  BY <1>2
<1>. QED
  BY <1>1, <1>2
  DEF Next, vars, classVars, CreateYear, DeleteYearRead, CreateClass, UpdateClassRead,
      DeleteClassRead, RemoveReadClass, EnrollReadClass, UpdateClassCommit, DeleteClassCommit,
      DeleteYearCommit, DropClasses, Cascade, EnrollReadCount, RemoveReadRow, Abort

\* A student who left a class is in no class for that year again: the unique
\* constraint refuses the only step that could put one there.
THEOREM LeavingIsFinalHolds == Spec => LeavingIsFinal
<1>1. ASSUME Inv, [Next]_vars,
             NEW e \in enrollments, ~e.is_active, e \in enrollments',
             NEW f \in enrollments', f.student = e.student, f.year = e.year
      PROVE  ~f.is_active
  <2>1. CASE \E w \in Workers : EnrollCommit(w)
    <3>1. PICK w \in Workers : EnrollCommit(w)
      BY <2>1
    <3>2. PICK new \in Enrolled :
            /\ new.student = req[w].student /\ new.year = req[w].year
            /\ enrollments' = enrollments \cup {new}
      BY <1>1, <3>1, EnrollCommitRows
    <3>3. f # new
      BY <1>1, <3>1, <3>2 DEF EnrollCommit, StudentYearIndexAllows
    <3>4. f \in enrollments
      BY <1>1, <3>2, <3>3
    <3>. QED  BY <1>1, <3>4 DEF Inv, RowsSound
  <2>2. CASE \A w \in Workers : ~EnrollCommit(w)
    <3>1. f.is_active => f \in enrollments
      BY <1>1, <2>2, OtherStepsAddNoActiveRow
    <3>. QED  BY <1>1, <3>1 DEF Inv, RowsSound
  <2>. QED  BY <2>1, <2>2
<1>2. Inv /\ [Next]_vars =>
        [\A e \in enrollments :
           ~e.is_active /\ e \in enrollments' =>
             \A f \in enrollments' :
               f.student = e.student /\ f.year = e.year => ~f.is_active]_vars
  BY <1>1
<1>. QED  BY <1>2, InvHolds, PTL DEF Spec, LeavingIsFinal

\* An enrollment that commits adds one to the head count of its class.
LEMMA EnrollCommitCounts ==
  ASSUME Inv, NEW w \in Workers, EnrollCommit(w), NEW c \in Classes
  PROVE  Headcount(c)' = IF c = req[w].class THEN Headcount(c) + 1 ELSE Headcount(c)
<1>. DEFINE before == {e \in enrollments : e.class = c /\ e.is_active}
            after == {e \in enrollments' : e.class = c /\ e.is_active}
<1>1. PICK new \in Enrolled :
           /\ new.is_active
           /\ new.class = req[w].class
           /\ new \notin enrollments
           /\ enrollments' = enrollments \cup {new}
  BY EnrollCommitRows
<1>2. IsFiniteSet(before)
  <2>1. before \in SUBSET enrollments
    OBVIOUS
  <2>. QED  BY <2>1, FS_Subset DEF Inv, RowsSound
<1>3. CASE c = req[w].class
  <2>1. after = before \cup {new} /\ new \notin before
    BY <1>1, <1>3
  <2>2. Cardinality(after) = Cardinality(before) + 1
    BY ONLY <1>2, <2>1, FS_AddElement
  <2>. QED  BY <1>3, <2>2 DEF Headcount
<1>4. CASE c # req[w].class
  <2>1. after = before
    BY <1>1, <1>4
  <2>. QED  BY <1>4, <2>1 DEF Headcount
<1>. QED  BY <1>3, <1>4

\* A class gets more students than it has places only at the commit of an
\* enrollment that decided on what was no longer so.
THEOREM OverfilledOnlyByStaleReadsHolds == Spec => OverfilledOnlyByStaleReads
<1>1. ASSUME Inv, [Next]_vars,
             NEW c \in Classes, Headcount(c)' > Headcount(c), Headcount(c)' > capacity[c]
      PROVE  \E w \in Workers :
               /\ req[w].op = "enroll.commit" /\ req[w].class = c
               /\ req'[w] = Idle
               /\ ~Fresh(req[w])
  <2>1. Headcount(c) \in Nat
    BY <1>1, ActiveCountType, HeadcountIsActiveCount DEF Inv
  <2>2. PICK w \in Workers : EnrollCommit(w)
    <3>1. CASE \A w \in Workers : ~EnrollCommit(w)
      <4>1. Headcount(c)' \in Nat /\ Headcount(c)' <= Headcount(c)
        BY <1>1, <3>1, OtherStepsAddNoActiveRow, FewerRowsCountLess DEF Inv
      <4>. QED  BY <1>1, <2>1, <4>1
    <3>. QED  BY <3>1
  <2>3. c = req[w].class /\ Headcount(c)' = Headcount(c) + 1
    BY <1>1, <2>1, <2>2, EnrollCommitCounts
  <2>4. req[w].op = "enroll.commit" /\ req'[w] = Idle
    BY <1>1, <2>2, FinishType DEF EnrollCommit
  <2>5. ~Fresh(req[w])
    <3>. SUFFICES ASSUME Fresh(req[w]) PROVE FALSE
      OBVIOUS
    <3>1. req[w].seen.capacity = capacity[c] /\ req[w].count = Headcount(c)
      BY <2>3, HeadcountIsActiveCount DEF Fresh, ReadClass
    <3>2. req[w].count < req[w].seen.capacity
      BY <1>1, <2>4 DEF Inv, PlaceSeen
    <3>3. capacity[c] \in Nat
      BY <1>1, NumbersAssumption DEF Inv, TypeOK
    <3>. QED  BY <1>1, <2>1, <2>3, <3>1, <3>2, <3>3
  <2>. QED  BY <2>3, <2>4, <2>5
<1>2. Inv /\ [Next]_vars =>
        [\A c \in Classes :
           Headcount(c)' > Headcount(c) /\ Headcount(c)' > capacity[c] =>
             \E w \in Workers :
               /\ req[w].op = "enroll.commit" /\ req[w].class = c
               /\ req'[w] = Idle
               /\ ~Fresh(req[w])]_vars
  BY <1>1
<1>. QED  BY <1>2, InvHolds, PTL DEF Spec, OverfilledOnlyByStaleReads

\* Only the commit of an enrollment takes a new key, and it ends its request
\* alone.
LEMMA NewRowIsEnrolled ==
  ASSUME Inv, [Next]_vars, nextRow' # nextRow, NEW w \in Workers, req'[w] # req[w]
  PROVE  EnrollCommit(w)
<1>1. PICK v \in Workers : EnrollCommit(v)
  BY DEF Next, vars, classVars, CreateYear, DeleteYearRead, CreateClass, UpdateClassRead,
         DeleteClassRead, RemoveReadClass, EnrollReadClass, UpdateClassCommit,
         DeleteClassCommit, DeleteYearCommit, EnrollReadCount, RemoveReadRow, RemoveCommit, Abort
<1>2. w = v
  BY <1>1, FinishType DEF EnrollCommit
<1>. QED  BY <1>1, <1>2

\* The count of a class may drift, but an enrollment that decided on what is
\* still so sets it right, whatever it was before.
THEOREM EnrollingRecountsHolds == Spec => EnrollingRecounts
<1>1. ASSUME Inv, [Next]_vars,
             NEW w \in Workers, NEW c \in Classes,
             req[w].class = c, nextRow' # nextRow, req'[w] # req[w], Fresh(req[w])
      PROVE  current_count'[c] = Headcount(c)'
  <2>1. EnrollCommit(w)
    BY <1>1, NewRowIsEnrolled
  <2>2. Headcount(c)' = Headcount(c) + 1
    BY <1>1, <2>1, EnrollCommitCounts
  <2>3. req[w].count = Headcount(c) /\ req[w].seen.current_count = current_count[c]
    BY <1>1, HeadcountIsActiveCount DEF Fresh, ReadClass
  <2>4. current_count'[c] = req[w].count + 1
    BY <1>1, <2>1, <2>3 DEF EnrollCommit, Write, Inv, TypeOK
  <2>. QED  BY <2>2, <2>3, <2>4
<1>2. Inv /\ [Next]_vars =>
        [\A w \in Workers, c \in Classes :
           /\ req[w].op = "enroll.commit" /\ req[w].class = c
           /\ nextRow' # nextRow /\ req'[w] # req[w]
           /\ Fresh(req[w])
           => current_count'[c] = Headcount(c)']_vars
  BY <1>1
<1>. QED  BY <1>2, InvHolds, PTL DEF Spec, EnrollingRecounts
=============================================================================
