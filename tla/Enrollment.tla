----------------------------- MODULE Enrollment -----------------------------
(***************************************************************************)
(* The academics domain as far as places in classes go: academic years,    *)
(* classes with a capacity and a denormalised head count, and the          *)
(* enrollments of students. A request is one step per SELECT whose rows it *)
(* goes on to use and one commit step, with nothing locked in between, as  *)
(* in Dormitory; SELECTs that only check that a row exists are one step    *)
(* with the SELECT after them.                                             *)
(*                                                                         *)
(* A name with an underscore, such as HasPlace_OffByOne, is a faulty       *)
(* variant of the definition it precedes, as in Dormitory.                 *)
(***************************************************************************)
EXTENDS Naturals, FiniteSets

CONSTANTS
  Workers,         \* requests that can be in flight at the same time
  Students,
  Years,
  Classes,
  Capacities,      \* the capacities classes are created with and changed to
  Counts,          \* what a client may set current_count to
  MaxEnrollments   \* bound: how many enrollment rows are ever inserted

\* The schemas take any integers; they are numbers of students here.
ASSUME NumbersAssumption == Capacities \subseteq Nat /\ Counts \subseteq Nat
ASSUME MaxEnrollmentsAssumption == MaxEnrollments \in Nat

VARIABLES
  yearIs,            \* where the life of each academic_years row stands
  classIs,           \* the same for each class_rooms row
  academic_year_id,  \* the year of each class
  capacity,          \* ClassRoom.capacity
  current_count,     \* ClassRoom.current_count
  enrollments,       \* the rows of class_enrollments
  nextRow,           \* the key of the next enrollment row
  req                \* the request each worker is serving

classVars == <<classIs, academic_year_id, capacity, current_count>>
vars == <<yearIs, classVars, enrollments, nextRow, req>>

-----------------------------------------------------------------------------
Life == {"new", "live", "deleted"}

\* A row of class_enrollments. Its year is the one in the request, which need
\* not be the year of its class.
Enrolled == [id : Nat, student : Students, class : Classes, year : Years, is_active : BOOLEAN]

\* What a request keeps of a class row that it read.
Seen == [capacity : Capacities, current_count : Nat]

Idle == [op |-> "idle"]

Request ==
  {Idle}
  \cup [op : {"enroll.count"}, class : Classes, student : Students, year : Years, seen : Seen]
  \cup [op : {"enroll.commit"}, class : Classes, student : Students, year : Years, seen : Seen,
        count : Nat]
  \cup [op : {"remove.row"}, class : Classes, student : Students, seen : Seen]
  \cup [op : {"remove.commit"}, class : Classes, row : Enrolled, seen : Seen]
  \cup [op : {"update_class"}, class : Classes, seen : Seen]
  \cup [op : {"delete_class"}, class : Classes]
  \cup [op : {"delete_year"}, year : Years]

Init ==
  /\ yearIs = [y \in Years |-> "new"]
  /\ classIs = [c \in Classes |-> "new"]
  /\ academic_year_id \in [Classes -> Years]
  /\ capacity \in [Classes -> Capacities]
  /\ current_count = [c \in Classes |-> 0]
  /\ enrollments = {}
  /\ nextRow = 0
  /\ req = [w \in Workers |-> Idle]

Serve(w, request) == req' = [req EXCEPT ![w] = request]
Finish(w) == Serve(w, Idle)

\* The ORM leaves a column alone when the handler set it to the value it read.
Write(read, set, committed) == IF set = read THEN committed ELSE set

ReadClass(c) == [capacity |-> capacity[c], current_count |-> current_count[c]]

\* ON DELETE CASCADE from years to classes and enrollments, and from classes
\* to enrollments. The count of a deleted class has no value; it is set to 0.
Cascade_ByClass(classes, years) == {e \in enrollments : e.class \notin classes}
Cascade(classes, years) ==
  {e \in enrollments : e.class \notin classes /\ e.year \notin years}

DropClasses(classes, years) ==
  /\ classIs' = [c \in Classes |-> IF c \in classes THEN "deleted" ELSE classIs[c]]
  /\ current_count' = [c \in Classes |-> IF c \in classes THEN 0 ELSE current_count[c]]
  /\ enrollments' = Cascade(classes, years)
  /\ UNCHANGED <<academic_year_id, capacity>>

-----------------------------------------------------------------------------
(* Years and classes *)

CreateYear(w, y) ==
  /\ req[w] = Idle
  /\ yearIs[y] = "new"
  /\ yearIs' = [yearIs EXCEPT ![y] = "live"]
  /\ UNCHANGED <<classVars, enrollments, nextRow, req>>

\* The year and capacity of a class are fixed by Init; the insert needs the
\* year to exist (foreign key).
CreateClass(w, c) ==
  /\ req[w] = Idle
  /\ classIs[c] = "new"
  /\ yearIs[academic_year_id[c]] = "live"
  /\ classIs' = [classIs EXCEPT ![c] = "live"]
  /\ UNCHANGED <<yearIs, academic_year_id, capacity, current_count, enrollments, nextRow, req>>

UpdateClassRead(w, c) ==
  /\ req[w] = Idle
  /\ classIs[c] = "live"
  /\ Serve(w, [op |-> "update_class", class |-> c, seen |-> ReadClass(c)])
  /\ UNCHANGED <<yearIs, classVars, enrollments, nextRow>>

\* The request may set the capacity and the count itself; leaving a field out
\* of the body is setting it to the value read.
UpdateClassCommit(w) ==
  /\ req[w].op = "update_class"
  /\ LET c == req[w].class
         seen == req[w].seen
     IN /\ classIs[c] = "live"
        /\ \E places \in Capacities, count \in Counts \cup {seen.current_count} :
             /\ capacity' = [capacity EXCEPT ![c] = Write(seen.capacity, places, @)]
             /\ current_count' =
                  [current_count EXCEPT ![c] = Write(seen.current_count, count, @)]
  /\ Finish(w)
  /\ UNCHANGED <<yearIs, classIs, academic_year_id, enrollments, nextRow>>

\* No check: the enrollments go with the class.
DeleteClassRead(w, c) ==
  /\ req[w] = Idle
  /\ classIs[c] = "live"
  /\ Serve(w, [op |-> "delete_class", class |-> c])
  /\ UNCHANGED <<yearIs, classVars, enrollments, nextRow>>

DeleteClassCommit(w) ==
  /\ req[w].op = "delete_class"
  /\ DropClasses({req[w].class}, {})
  /\ Finish(w)
  /\ UNCHANGED <<yearIs, nextRow>>

ClassesOf(y) == {c \in Classes : classIs[c] = "live" /\ academic_year_id[c] = y}

DeleteYearRead(w, y) ==
  /\ req[w] = Idle
  /\ yearIs[y] = "live"
  /\ ClassesOf(y) = {}
  /\ Serve(w, [op |-> "delete_year", year |-> y])
  /\ UNCHANGED <<yearIs, classVars, enrollments, nextRow>>

DeleteYearCommit(w) ==
  /\ req[w].op = "delete_year"
  /\ yearIs' = [yearIs EXCEPT ![req[w].year] = "deleted"]
  /\ DropClasses(ClassesOf(req[w].year), {req[w].year})
  /\ Finish(w)
  /\ UNCHANGED nextRow

-----------------------------------------------------------------------------
(* enroll_student *)

EnrollReadClass(w, c, s, y) ==
  /\ req[w] = Idle
  /\ classIs[c] = "live"
  /\ yearIs[y] # "new"
  /\ Serve(w, [op |-> "enroll.count", class |-> c, student |-> s, year |-> y,
               seen |-> ReadClass(c)])
  /\ UNCHANGED <<yearIs, classVars, enrollments, nextRow>>

ActiveRows(s, y) == {e \in enrollments : e.student = s /\ e.year = y /\ e.is_active}

\* count_active_by_class
ActiveCount_All(c) == Cardinality({e \in enrollments : e.class = c})
ActiveCount(c) == Cardinality({e \in enrollments : e.class = c /\ e.is_active})

HasPlace_OffByOne(count, seen) == count <= seen.capacity
HasPlace(count, seen) == count < seen.capacity

EnrollReadCount(w) ==
  /\ req[w].op = "enroll.count"
  /\ LET q == req[w]
     IN /\ ActiveRows(q.student, q.year) = {}
        /\ HasPlace(ActiveCount(q.class), q.seen)
        /\ Serve(w, [op |-> "enroll.commit", class |-> q.class, student |-> q.student,
                     year |-> q.year, seen |-> q.seen, count |-> ActiveCount(q.class)])
  /\ UNCHANGED <<yearIs, classVars, enrollments, nextRow>>

\* uq_enrollment_student_year covers the inactive rows as well.
StudentYearIndexAllows_Active(s, y) == ActiveRows(s, y) = {}
StudentYearIndexAllows(s, y) == \A e \in enrollments : ~(e.student = s /\ e.year = y)

EnrollCommit(w) ==
  /\ req[w].op = "enroll.commit"
  /\ nextRow < MaxEnrollments
  /\ LET q == req[w]
     IN /\ classIs[q.class] = "live"
        /\ yearIs[q.year] = "live"
        /\ StudentYearIndexAllows(q.student, q.year)
        /\ enrollments' = enrollments \cup
             {[id |-> nextRow, student |-> q.student, class |-> q.class, year |-> q.year,
               is_active |-> TRUE]}
        /\ current_count' = [current_count EXCEPT ![q.class] =
                               Write(q.seen.current_count, q.count + 1, @)]
  /\ nextRow' = nextRow + 1
  /\ Finish(w)
  /\ UNCHANGED <<yearIs, classIs, academic_year_id, capacity>>

-----------------------------------------------------------------------------
(* remove_enrollment *)

RemoveReadClass(w, c, s) ==
  /\ req[w] = Idle
  /\ classIs[c] = "live"
  /\ Serve(w, [op |-> "remove.row", class |-> c, student |-> s, seen |-> ReadClass(c)])
  /\ UNCHANGED <<yearIs, classVars, enrollments, nextRow>>

\* scalar_one_or_none raises when the student is in the class for two years.
RemoveReadRow(w) ==
  /\ req[w].op = "remove.row"
  /\ LET q == req[w]
         rows == {e \in enrollments : e.class = q.class /\ e.student = q.student /\ e.is_active}
     IN \E row \in rows :
          /\ rows = {row}
          /\ Serve(w, [op |-> "remove.commit", class |-> q.class, row |-> row, seen |-> q.seen])
  /\ UNCHANGED <<yearIs, classVars, enrollments, nextRow>>

CountAfterRemoval(n) == IF n = 0 THEN 0 ELSE n - 1

\* StaleDataError when the row, or the class with it, is gone.
RemoveCommit(w) ==
  /\ req[w].op = "remove.commit"
  /\ LET q == req[w]
     IN /\ \E e \in enrollments : e.id = q.row.id
        /\ enrollments' =
             {IF e.id = q.row.id THEN [e EXCEPT !.is_active = FALSE] ELSE e : e \in enrollments}
        /\ current_count' =
             [current_count EXCEPT ![q.class] =
                Write(q.seen.current_count, CountAfterRemoval(q.seen.current_count), @)]
  /\ Finish(w)
  /\ UNCHANGED <<yearIs, classIs, academic_year_id, capacity, nextRow>>

-----------------------------------------------------------------------------
\* get_db rolls back: a domain error, an integrity error, a stale row, a
\* cancelled request or a lost connection.
Abort(w) ==
  /\ req[w] # Idle
  /\ Finish(w)
  /\ UNCHANGED <<yearIs, classVars, enrollments, nextRow>>

Next ==
  \E w \in Workers :
    \/ \E y \in Years : CreateYear(w, y) \/ DeleteYearRead(w, y)
    \/ \E c \in Classes : CreateClass(w, c) \/ UpdateClassRead(w, c) \/ DeleteClassRead(w, c)
    \/ \E c \in Classes, s \in Students : RemoveReadClass(w, c, s)
    \/ \E c \in Classes, s \in Students, y \in Years : EnrollReadClass(w, c, s, y)
    \/ UpdateClassCommit(w)
    \/ DeleteClassCommit(w)
    \/ DeleteYearCommit(w)
    \/ EnrollReadCount(w)
    \/ EnrollCommit(w)
    \/ RemoveReadRow(w)
    \/ RemoveCommit(w)
    \/ Abort(w)

Spec == Init /\ [][Next]_vars

-----------------------------------------------------------------------------
TypeOK ==
  /\ yearIs \in [Years -> Life]
  /\ classIs \in [Classes -> Life]
  /\ academic_year_id \in [Classes -> Years]
  /\ capacity \in [Classes -> Capacities]
  /\ current_count \in [Classes -> Nat]
  /\ enrollments \subseteq Enrolled
  /\ nextRow \in Nat
  /\ req \in [Workers -> Request]

\* A student who has been taken out of a class is in no class for that year
\* again, unless the year or the class is deleted: the row stays, inactive,
\* where no request finds it and the unique constraint does.
LeavingIsFinal ==
  [][\A e \in enrollments :
       ~e.is_active /\ e \in enrollments' =>
         \A f \in enrollments' :
           f.student = e.student /\ f.year = e.year => ~f.is_active]_vars

\* Every enrollment has its class and its year, and every class its year,
\* although the year of an enrollment need not be that of its class and the
\* deletion of a year only looks for classes.
EnrollmentsHaveParents ==
  /\ \A e \in enrollments : classIs[e.class] = "live" /\ yearIs[e.year] = "live"
  /\ \A c \in Classes : classIs[c] = "live" => yearIs[academic_year_id[c]] = "live"

Headcount(c) == Cardinality({e \in enrollments : e.class = c /\ e.is_active})

\* What an enrollment about to commit remembers is still so.
Fresh(q) == ReadClass(q.class) = q.seen /\ ActiveCount(q.class) = q.count

\* "Kelas sudah penuh." (the class is full): a class gets more students than
\* it has places only from a request that decided on what was no longer so.
OverfilledOnlyByStaleReads ==
  [][\A c \in Classes :
       Headcount(c)' > Headcount(c) /\ Headcount(c)' > capacity[c] =>
         \E w \in Workers :
           /\ req[w].op = "enroll.commit" /\ req[w].class = c
           /\ req'[w] = Idle
           /\ ~Fresh(req[w])]_vars

\* The count of a class drifts: clients set it, removals compute it from
\* itself, and the deletion of a year leaves it alone. An enrollment that
\* decided on what is still so sets it right, whatever it was before.
EnrollingRecounts ==
  [][\A w \in Workers, c \in Classes :
       /\ req[w].op = "enroll.commit" /\ req[w].class = c
       /\ nextRow' # nextRow /\ req'[w] # req[w]
       /\ Fresh(req[w])
       => current_count'[c] = Headcount(c)']_vars
=============================================================================
