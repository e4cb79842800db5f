------------------------------ MODULE Dormitory ------------------------------
(***************************************************************************)
(* The dormitory domain: buildings, rooms with a denormalised occupancy    *)
(* counter, and the assignments of students to rooms.                      *)
(*                                                                         *)
(* A request runs in one database transaction at READ COMMITTED and takes  *)
(* no row lock, so it is modelled as one step per SELECT, each of which    *)
(* sees the tables as committed at that moment, and one commit step that   *)
(* writes what the handler computed from the rows it saw. SELECTs that     *)
(* only check that some row exists are one step with the SELECT after      *)
(* them: the commit checks again, by foreign key or row count, what a      *)
(* change in between could break. The ORM writes only the columns whose    *)
(* value differs from the one that was read. Every request that raises, or *)
(* whose connection is lost, ends in Abort.                                *)
(* One tenant is modelled; requests of different tenants share no row.     *)
(*                                                                         *)
(* A name with an underscore, such as HasBed_OffByOne, is a faulty variant *)
(* of the definition it precedes. No specification uses it: substituted    *)
(* for that definition, it must make a property fail.                      *)
(***************************************************************************)
EXTENDS Naturals, FiniteSets

CONSTANTS
  Workers,         \* requests that can be in flight at the same time
  Students,
  Buildings,
  Rooms,
  Teachers,        \* who may supervise a building
  Capacities,      \* the capacities rooms are created with and changed to
  MaxAssignments   \* bound: how many assignment rows are ever inserted

\* The schemas take any integer as a capacity; it is a number of beds here.
ASSUME CapacitiesAssumption == Capacities \subseteq Nat /\ Capacities # {}
ASSUME MaxAssignmentsAssumption == MaxAssignments \in Nat
ASSUME WorkersAssumption == IsFiniteSet(Workers)

VARIABLES
  buildingIs,         \* where the life of each building row stands
  roomIs,             \* the same for each room row
  building_id,        \* the building of each room
  capacity,           \* DormitoryRoom.capacity
  current_occupancy,  \* DormitoryRoom.current_occupancy
  status,             \* DormitoryRoom.status
  assignments,        \* the rows of dormitory_assignments
  nextRow,            \* the key of the next assignment row
  supervisors,        \* how many dormitory_supervisors rows each pair has
  req                 \* the request each worker is serving

roomVars == <<roomIs, building_id, capacity, current_occupancy, status>>
vars == <<buildingIs, roomVars, assignments, nextRow, supervisors, req>>

-----------------------------------------------------------------------------
Life == {"new", "live", "deleted"}
RoomStatus == {"available", "occupied", "maintenance"}

\* A row of dormitory_assignments. Inserted active, later vacated, and removed
\* with its room; bed and dates are left out.
Assignment == [id : Nat, student : Students, room : Rooms, is_active : BOOLEAN]

\* What a request keeps of a room row that it read.
Seen == [capacity : Capacities, occupancy : Nat, status : RoomStatus]

Idle == [op |-> "idle"]

Request ==
  {Idle}
  \cup [op : {"assign.room"}, student : Students, room : Rooms]
  \cup [op : {"assign.commit"}, student : Students, room : Rooms, seen : Seen]
  \cup [op : {"vacate.room"}, row : Assignment]
  \cup [op : {"vacate.commit"}, row : Assignment, seen : Seen]
  \cup [op : {"vacate.commit.row"}, row : Assignment]
  \cup [op : {"update_room"}, room : Rooms, seen : Seen]
  \cup [op : {"delete_room"}, room : Rooms]
  \cup [op : {"delete_building"}, building : Buildings]
  \cup [op : {"assign_supervisor"}, teacher : Teachers, building : Buildings]

Init ==
  /\ buildingIs = [b \in Buildings |-> "new"]
  /\ roomIs = [r \in Rooms |-> "new"]
  /\ building_id \in [Rooms -> Buildings]
  /\ capacity \in [Rooms -> Capacities]
  /\ current_occupancy = [r \in Rooms |-> 0]
  /\ status = [r \in Rooms |-> "available"]
  /\ assignments = {}
  /\ nextRow = 0
  /\ supervisors = [t \in Teachers |-> [b \in Buildings |-> 0]]
  /\ req = [w \in Workers |-> Idle]

-----------------------------------------------------------------------------
(* Queries *)

\* get_active_by_student: the active assignments of a student. The service
\* takes scalar_one_or_none of it.
ActiveOf(s) == {a \in assignments : a.student = s /\ a.is_active}

Occupants(r) == {a \in assignments : a.room = r /\ a.is_active}

RoomsIn(b) == {r \in Rooms : roomIs[r] = "live" /\ building_id[r] = b}

ReadRoom(r) ==
  [capacity |-> capacity[r], occupancy |-> current_occupancy[r], status |-> status[r]]

\* The ORM leaves a column alone when the handler set it to the value it read.
Write(read, set, committed) == IF set = read THEN committed ELSE set

Serve(w, request) == req' = [req EXCEPT ![w] = request]
Finish(w) == Serve(w, Idle)

\* ON DELETE CASCADE from rooms to their assignments.
Survivors_KeepHistory(gone) == {a \in assignments : a.room \in gone => ~a.is_active}
Survivors(gone) == {a \in assignments : a.room \notin gone}

\* The columns of a deleted room have no value; they are set to their defaults.
DropRooms(gone) ==
  /\ roomIs' = [r \in Rooms |-> IF r \in gone THEN "deleted" ELSE roomIs[r]]
  /\ current_occupancy' = [r \in Rooms |-> IF r \in gone THEN 0 ELSE current_occupancy[r]]
  /\ status' = [r \in Rooms |-> IF r \in gone THEN "available" ELSE status[r]]
  /\ assignments' = Survivors(gone)
  /\ UNCHANGED <<building_id, capacity>>

-----------------------------------------------------------------------------
(* Buildings and rooms *)

CreateBuilding(w, b) ==
  /\ req[w] = Idle
  /\ buildingIs[b] = "new"
  /\ buildingIs' = [buildingIs EXCEPT ![b] = "live"]
  /\ UNCHANGED <<roomVars, assignments, nextRow, supervisors, req>>

\* The capacity and building of a room are fixed by Init; the insert needs its
\* building to exist (foreign key).
CreateRoom(w, r) ==
  /\ req[w] = Idle
  /\ roomIs[r] = "new"
  /\ buildingIs[building_id[r]] = "live"
  /\ roomIs' = [roomIs EXCEPT ![r] = "live"]
  /\ UNCHANGED <<buildingIs, building_id, capacity, current_occupancy, status,
                 assignments, nextRow, supervisors, req>>

UpdateRoomRead(w, r) ==
  /\ req[w] = Idle
  /\ roomIs[r] = "live"
  /\ Serve(w, [op |-> "update_room", room |-> r, seen |-> ReadRoom(r)])
  /\ UNCHANGED <<buildingIs, roomVars, assignments, nextRow, supervisors>>

\* The request may set the capacity and the status; leaving a field out of the
\* body is setting it to the value read.
UpdateRoomCommit(w) ==
  /\ req[w].op = "update_room"
  /\ LET r == req[w].room
         seen == req[w].seen
     IN /\ roomIs[r] = "live"
        /\ \E c \in Capacities, st \in RoomStatus :
             /\ capacity' = [capacity EXCEPT ![r] = Write(seen.capacity, c, @)]
             /\ status' = [status EXCEPT ![r] = Write(seen.status, st, @)]
  /\ Finish(w)
  /\ UNCHANGED <<buildingIs, roomIs, building_id, current_occupancy, assignments, nextRow,
                 supervisors>>

RoomIsEmpty_NotFull(r) == status[r] # "occupied"
RoomIsEmpty(r) == current_occupancy[r] = 0

DeleteRoomRead(w, r) ==
  /\ req[w] = Idle
  /\ roomIs[r] = "live"
  /\ RoomIsEmpty(r)
  /\ Serve(w, [op |-> "delete_room", room |-> r])
  /\ UNCHANGED <<buildingIs, roomVars, assignments, nextRow, supervisors>>

\* Deleting a room that is already gone affects no row and is not an error.
DeleteRoomCommit(w) ==
  /\ req[w].op = "delete_room"
  /\ DropRooms({req[w].room})
  /\ Finish(w)
  /\ UNCHANGED <<buildingIs, nextRow, supervisors>>

DeleteBuildingRead(w, b) ==
  /\ req[w] = Idle
  /\ buildingIs[b] = "live"
  /\ RoomsIn(b) = {}
  /\ Serve(w, [op |-> "delete_building", building |-> b])
  /\ UNCHANGED <<buildingIs, roomVars, assignments, nextRow, supervisors>>

\* ON DELETE CASCADE from a building to its supervisors and its rooms, and on
\* to their assignments.
DeleteBuildingCommit(w) ==
  /\ req[w].op = "delete_building"
  /\ supervisors' = [t \in Teachers |-> [supervisors[t] EXCEPT ![req[w].building] = 0]]
  /\ buildingIs' = [buildingIs EXCEPT ![req[w].building] = "deleted"]
  /\ DropRooms(RoomsIn(req[w].building))
  /\ Finish(w)
  /\ UNCHANGED nextRow

-----------------------------------------------------------------------------
(* Assigning a student to a room *)

\* The body names a room that exists or has existed.
AssignCheckStudent(w, s, r) ==
  /\ req[w] = Idle
  /\ roomIs[r] # "new"
  /\ ActiveOf(s) = {}
  /\ Serve(w, [op |-> "assign.room", student |-> s, room |-> r])
  /\ UNCHANGED <<buildingIs, roomVars, assignments, nextRow, supervisors>>

HasBed_OffByOne(r) == current_occupancy[r] <= capacity[r]
HasBed(r) == current_occupancy[r] < capacity[r]

AssignReadRoom(w) ==
  /\ req[w].op = "assign.room"
  /\ LET r == req[w].room
     IN /\ roomIs[r] = "live"
        /\ HasBed(r)
        /\ Serve(w, [op |-> "assign.commit", student |-> req[w].student,
                     room |-> r, seen |-> ReadRoom(r)])
  /\ UNCHANGED <<buildingIs, roomVars, assignments, nextRow, supervisors>>

\* The status an assignment leaves behind, given the room row that was read.
StatusAfterAssign(seen) ==
  IF seen.occupancy + 1 >= seen.capacity THEN "occupied" ELSE seen.status

\* uq_dormitory_assignment_active_student: one active row per student.
ActiveStudentIndexAllows_NoIndex(s) == s \in Students
ActiveStudentIndexAllows(s) == ActiveOf(s) = {}

AssignCommit(w) ==
  /\ req[w].op = "assign.commit"
  /\ nextRow < MaxAssignments
  /\ LET r == req[w].room
         s == req[w].student
         seen == req[w].seen
     IN /\ roomIs[r] = "live"
        /\ ActiveStudentIndexAllows(s)
        /\ assignments' = assignments \cup
             {[id |-> nextRow, student |-> s, room |-> r, is_active |-> TRUE]}
        /\ current_occupancy' = [current_occupancy EXCEPT ![r] = seen.occupancy + 1]
        /\ status' = [status EXCEPT ![r] = Write(seen.status, StatusAfterAssign(seen), @)]
  /\ nextRow' = nextRow + 1
  /\ Finish(w)
  /\ UNCHANGED <<buildingIs, roomIs, building_id, capacity, supervisors>>

-----------------------------------------------------------------------------
(* Vacating *)

VacateReadAssignment(w, s) ==
  /\ req[w] = Idle
  /\ \E a \in ActiveOf(s) : Serve(w, [op |-> "vacate.room", row |-> a])
  /\ UNCHANGED <<buildingIs, roomVars, assignments, nextRow, supervisors>>

\* A room that is gone, or whose counter is at zero, is left alone.
Counted_FullOnly(r) == roomIs[r] = "live" /\ status[r] = "occupied"
Counted(r) == roomIs[r] = "live" /\ current_occupancy[r] > 0

VacateReadRoom(w) ==
  /\ req[w].op = "vacate.room"
  /\ LET r == req[w].row.room
     IN IF Counted(r)
        THEN Serve(w, [op |-> "vacate.commit", row |-> req[w].row, seen |-> ReadRoom(r)])
        ELSE Serve(w, [op |-> "vacate.commit.row", row |-> req[w].row])
  /\ UNCHANGED <<buildingIs, roomVars, assignments, nextRow, supervisors>>

\* The UPDATE of the assignment row; StaleDataError when the row is gone.
Deactivate(row) ==
  /\ \E a \in assignments : a.id = row.id
  /\ assignments' =
       {IF a.id = row.id THEN [a EXCEPT !.is_active = FALSE] ELSE a : a \in assignments}

StatusAfterVacate(seen) ==
  IF seen.status = "occupied" THEN "available" ELSE seen.status

VacateCommit(w) ==
  /\ req[w].op = "vacate.commit"
  /\ LET r == req[w].row.room
         seen == req[w].seen
     IN /\ roomIs[r] = "live"
        /\ current_occupancy' = [current_occupancy EXCEPT ![r] = seen.occupancy - 1]
        /\ status' = [status EXCEPT ![r] = Write(seen.status, StatusAfterVacate(seen), @)]
  /\ Deactivate(req[w].row)
  /\ Finish(w)
  /\ UNCHANGED <<buildingIs, roomIs, building_id, capacity, nextRow, supervisors>>

VacateCommitRowOnly(w) ==
  /\ req[w].op = "vacate.commit.row"
  /\ Deactivate(req[w].row)
  /\ Finish(w)
  /\ UNCHANGED <<buildingIs, roomVars, nextRow, supervisors>>

-----------------------------------------------------------------------------
(* Supervisors *)

\* get_by_teacher_building finds no row; with one row the request is refused,
\* with more scalar_one_or_none raises.
NotYetSupervising_OffByOne(t, b) == supervisors[t][b] <= 1
NotYetSupervising(t, b) == supervisors[t][b] = 0

AssignSupervisorRead(w, t, b) ==
  /\ req[w] = Idle
  /\ buildingIs[b] # "new"
  /\ NotYetSupervising(t, b)
  /\ Serve(w, [op |-> "assign_supervisor", teacher |-> t, building |-> b])
  /\ UNCHANGED <<buildingIs, roomVars, assignments, nextRow, supervisors>>

\* No unique index covers the pair.
AssignSupervisorCommit(w) ==
  /\ req[w].op = "assign_supervisor"
  /\ buildingIs[req[w].building] = "live"
  /\ supervisors' = [supervisors EXCEPT ![req[w].teacher][req[w].building] = @ + 1]
  /\ Finish(w)
  /\ UNCHANGED <<buildingIs, roomVars, assignments, nextRow>>

-----------------------------------------------------------------------------
\* get_db rolls back: a domain error, an integrity error, a stale row, a
\* cancelled request or a lost connection.
Abort(w) ==
  /\ req[w] # Idle
  /\ Finish(w)
  /\ UNCHANGED <<buildingIs, roomVars, assignments, nextRow, supervisors>>

Next ==
  \E w \in Workers :
    \/ \E b \in Buildings : CreateBuilding(w, b) \/ DeleteBuildingRead(w, b)
    \/ \E r \in Rooms : CreateRoom(w, r) \/ UpdateRoomRead(w, r) \/ DeleteRoomRead(w, r)
    \/ \E s \in Students, r \in Rooms : AssignCheckStudent(w, s, r)
    \/ \E s \in Students : VacateReadAssignment(w, s)
    \/ \E t \in Teachers, b \in Buildings : AssignSupervisorRead(w, t, b)
    \/ AssignSupervisorCommit(w)
    \/ UpdateRoomCommit(w)
    \/ DeleteRoomCommit(w)
    \/ DeleteBuildingCommit(w)
    \/ AssignReadRoom(w)
    \/ AssignCommit(w)
    \/ VacateReadRoom(w)
    \/ VacateCommit(w)
    \/ VacateCommitRowOnly(w)
    \/ Abort(w)

Spec == Init /\ [][Next]_vars

-----------------------------------------------------------------------------
TypeOK ==
  /\ buildingIs \in [Buildings -> Life]
  /\ roomIs \in [Rooms -> Life]
  /\ building_id \in [Rooms -> Buildings]
  /\ capacity \in [Rooms -> Capacities]
  /\ current_occupancy \in [Rooms -> Nat]
  /\ status \in [Rooms -> RoomStatus]
  /\ assignments \subseteq Assignment
  /\ nextRow \in Nat
  /\ supervisors \in [Teachers -> [Buildings -> Nat]]
  /\ req \in [Workers -> Request]

\* Whatever requests overlap, a student is active in one room at most.
OneActiveAssignment ==
  \A a, b \in assignments :
    a.is_active /\ b.is_active /\ a.student = b.student => a = b

\* Lost updates of the counter never push it past the largest capacity a room
\* can have, nor below zero (it stays in Nat, see TypeOK).
CounterBounded ==
  \A r \in Rooms : \E c \in Capacities : current_occupancy[r] <= c

\* No assignment outlives its room, and no room its building, although the
\* checks before a deletion are made on rows that may have changed since.
ReferencesHold ==
  /\ \A a \in assignments : roomIs[a.room] = "live"
  /\ \A r \in Rooms : roomIs[r] = "live" => buildingIs[building_id[r]] = "live"

\* The counter a room shows is the number of students living in it. True as
\* long as requests do not overlap.
OccupancyIsHeadcount ==
  \A r \in Rooms :
    roomIs[r] = "live" => current_occupancy[r] = Cardinality(Occupants(r))

\* No index keeps a teacher from being listed twice for a building, and a second
\* row makes every later attempt for the pair fail. Rows come only from requests
\* that found none, so that a pair has no more of them than requests overlapped.
SupervisedOncePerWorker ==
  \A t \in Teachers, b \in Buildings : supervisors[t][b] <= Cardinality(Workers)
=============================================================================
