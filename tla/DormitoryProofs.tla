--------------------------- MODULE DormitoryProofs ---------------------------
(***************************************************************************)
(* Proofs about Dormitory, for any number of students, rooms and           *)
(* capacities: what holds for any number of requests in flight, and, for   *)
(* one request at a time, that occupancy is the head count and that        *)
(* Dormitory implements Residence.                                         *)
(***************************************************************************)
EXTENDS MCDormitory, FiniteSetTheorems, TLAPS

\* What a request remembers about the room row it read: the checks it made
\* on the counter, and that the counter it saw was within bounds.
SeenSound ==
  \A w \in Workers :
    /\ req[w].op = "assign.commit" => req[w].seen.occupancy < req[w].seen.capacity
    /\ req[w].op = "vacate.commit" =>
         /\ req[w].seen.occupancy > 0
         /\ \E c \in Capacities : req[w].seen.occupancy <= c

\* The inductive invariant behind the type of the counter and its bound.
CounterInv == TypeOK /\ SeenSound /\ CounterBounded

-----------------------------------------------------------------------------
\* The shape of a request is known from its op alone.
LEMMA RequestShape ==
  ASSUME NEW q \in Request
  PROVE  /\ q.op = "assign.room" => q.student \in Students /\ q.room \in Rooms
         /\ q.op = "assign.commit" =>
              q.student \in Students /\ q.room \in Rooms /\ q.seen \in Seen
         /\ q.op = "vacate.room" => q.row \in Assignment
         /\ q.op = "vacate.commit" => q.row \in Assignment /\ q.seen \in Seen
         /\ q.op = "vacate.commit.row" => q.row \in Assignment
         /\ q.op = "update_room" => q.room \in Rooms /\ q.seen \in Seen
         /\ q.op = "delete_room" => q.room \in Rooms
         /\ q.op = "delete_building" => q.building \in Buildings
         /\ q.op = "assign_supervisor" => q.teacher \in Teachers /\ q.building \in Buildings
  BY DEF Request, Idle

LEMMA ReadRoomType ==
  ASSUME TypeOK, NEW r \in Rooms
  PROVE  ReadRoom(r) \in Seen
  BY DEF TypeOK, ReadRoom, Seen

\* A request that is not being served now keeps what it remembers.
LEMMA ServeType ==
  ASSUME TypeOK, NEW w \in Workers, NEW q \in Request, Serve(w, q)
  PROVE  /\ req' \in [Workers -> Request]
         /\ req'[w] = q
         /\ \A v \in Workers \ {w} : req'[v] = req[v]
  BY DEF TypeOK, Serve

-----------------------------------------------------------------------------
(* The counter *)

LEMMA InitCounterInv == Init => CounterInv
<1>. SUFFICES ASSUME Init PROVE CounterInv
  OBVIOUS
<1>1. TypeOK
  BY MaxAssignmentsAssumption
  DEF Init, TypeOK, Life, RoomStatus, Request
<1>2. SeenSound
  BY DEF Init, SeenSound, Idle
<1>3. CounterBounded
  <2>1. PICK c \in Capacities : c \in Nat
    BY CapacitiesAssumption
  <2>2. \A r \in Rooms : current_occupancy[r] = 0
    BY DEF Init
  <2>. QED  BY <2>1, <2>2 DEF CounterBounded
<1>. QED  BY <1>1, <1>2, <1>3 DEF CounterInv

\* The steps that only change what a request remembers.
LEMMA ReadKeepsCounterInv ==
  ASSUME CounterInv,
         NEW w \in Workers, NEW q \in Request, Serve(w, q),
         q.op = "assign.commit" => q.seen.occupancy < q.seen.capacity,
         q.op = "vacate.commit" => /\ q.seen.occupancy > 0
                                   /\ \E c \in Capacities : q.seen.occupancy <= c,
         UNCHANGED <<buildingIs, roomVars, assignments, nextRow, supervisors>>
  PROVE  CounterInv'
<1>1. TypeOK'
  BY ServeType DEF CounterInv, TypeOK, roomVars
<1>2. SeenSound'
  BY ServeType DEF CounterInv, SeenSound
<1>3. CounterBounded'
  BY DEF CounterInv, CounterBounded, roomVars
<1>. QED  BY <1>1, <1>2, <1>3 DEF CounterInv

\* A request that ends remembers nothing.
LEMMA FinishKeepsSeenSound ==
  ASSUME CounterInv, NEW w \in Workers, Finish(w)
  PROVE  req' \in [Workers -> Request] /\ SeenSound'
<1>1. Idle \in Request
  BY DEF Request
<1>. QED
  BY <1>1, ServeType DEF CounterInv, SeenSound, Finish, Idle

LEMMA DropRoomsKeepsTables ==
  ASSUME CounterInv, NEW gone, DropRooms(gone)
  PROVE  /\ roomIs' \in [Rooms -> Life]
         /\ building_id' \in [Rooms -> Buildings]
         /\ capacity' \in [Rooms -> Capacities]
         /\ current_occupancy' \in [Rooms -> Nat]
         /\ status' \in [Rooms -> RoomStatus]
         /\ assignments' \subseteq Assignment
         /\ CounterBounded'
<1>1. CounterBounded'
  <2>1. PICK c \in Capacities : c \in Nat
    BY CapacitiesAssumption
  <2>2. \A r \in Rooms : current_occupancy'[r] \in {0, current_occupancy[r]}
    BY DEF DropRooms, Survivors
  <2>3. ASSUME NEW r \in Rooms
        PROVE  \E d \in Capacities : current_occupancy'[r] <= d
    <3>1. CASE current_occupancy'[r] = 0
      BY <2>1, <3>1
    <3>2. CASE current_occupancy'[r] = current_occupancy[r]
      BY <3>2 DEF CounterInv, CounterBounded
    <3>. QED  BY <2>2, <3>1, <3>2
  <2>. QED  BY <2>3 DEF CounterBounded
<1>. QED
  BY <1>1 DEF CounterInv, TypeOK, DropRooms, Survivors, Life, RoomStatus

LEMMA DeactivateType ==
  ASSUME TypeOK, NEW row \in Assignment, Deactivate(row)
  PROVE  assignments' \subseteq Assignment
  BY ZenonT(60) DEF TypeOK, Deactivate, Assignment

LEMMA NextCounterInv == CounterInv /\ [Next]_vars => CounterInv'
<1>. SUFFICES ASSUME CounterInv, [Next]_vars PROVE CounterInv'
  OBVIOUS
<1>. USE DEF CounterInv
<1>1. ASSUME NEW w \in Workers, NEW b \in Buildings, CreateBuilding(w, b)
      PROVE  CounterInv'
  BY <1>1 DEF CreateBuilding, TypeOK, SeenSound, CounterBounded, Life, roomVars
<1>2. ASSUME NEW w \in Workers, NEW b \in Buildings, DeleteBuildingRead(w, b)
      PROVE  CounterInv'
  <2>1. [op |-> "delete_building", building |-> b] \in Request
    BY DEF Request
  <2>. QED  BY <1>2, <2>1, ReadKeepsCounterInv DEF DeleteBuildingRead
<1>3. ASSUME NEW w \in Workers, NEW r \in Rooms, CreateRoom(w, r)
      PROVE  CounterInv'
  BY <1>3 DEF CreateRoom, TypeOK, SeenSound, CounterBounded, Life
<1>4. ASSUME NEW w \in Workers, NEW r \in Rooms, UpdateRoomRead(w, r)
      PROVE  CounterInv'
  <2>1. [op |-> "update_room", room |-> r, seen |-> ReadRoom(r)] \in Request
    BY ReadRoomType DEF Request
  <2>. QED  BY <1>4, <2>1, ReadKeepsCounterInv DEF UpdateRoomRead
<1>5. ASSUME NEW w \in Workers, NEW r \in Rooms, DeleteRoomRead(w, r)
      PROVE  CounterInv'
  <2>1. [op |-> "delete_room", room |-> r] \in Request
    BY DEF Request
  <2>. QED  BY <1>5, <2>1, ReadKeepsCounterInv DEF DeleteRoomRead
<1>6. ASSUME NEW w \in Workers, NEW s \in Students, NEW r \in Rooms,
             AssignCheckStudent(w, s, r)
      PROVE  CounterInv'
  <2>1. [op |-> "assign.room", student |-> s, room |-> r] \in Request
    BY DEF Request
  <2>. QED  BY <1>6, <2>1, ReadKeepsCounterInv DEF AssignCheckStudent
<1>7. ASSUME NEW w \in Workers, NEW s \in Students, VacateReadAssignment(w, s)
      PROVE  CounterInv'
  <2>1. PICK a \in ActiveOf(s) : Serve(w, [op |-> "vacate.room", row |-> a])
    BY <1>7 DEF VacateReadAssignment
  <2>2. [op |-> "vacate.room", row |-> a] \in Request
    BY DEF Request, TypeOK, ActiveOf
  <2>. QED  BY <1>7, <2>1, <2>2, ReadKeepsCounterInv DEF VacateReadAssignment
<1>8. ASSUME NEW w \in Workers, NEW t \in Teachers, NEW b \in Buildings,
             AssignSupervisorRead(w, t, b)
      PROVE  CounterInv'
  <2>1. [op |-> "assign_supervisor", teacher |-> t, building |-> b] \in Request
    BY DEF Request
  <2>. QED  BY <1>8, <2>1, ReadKeepsCounterInv DEF AssignSupervisorRead
<1>9. ASSUME NEW w \in Workers, AssignSupervisorCommit(w)
      PROVE  CounterInv'
  <2>1. req[w].teacher \in Teachers /\ req[w].building \in Buildings
    BY <1>9, RequestShape DEF TypeOK, AssignSupervisorCommit
  <2>2. supervisors' \in [Teachers -> [Buildings -> Nat]]
    BY <1>9, <2>1 DEF TypeOK, AssignSupervisorCommit
  <2>3. req' \in [Workers -> Request] /\ SeenSound'
    BY <1>9, FinishKeepsSeenSound DEF AssignSupervisorCommit
  <2>. QED  BY <1>9, <2>2, <2>3 DEF AssignSupervisorCommit, TypeOK, CounterBounded, roomVars
<1>10. ASSUME NEW w \in Workers, UpdateRoomCommit(w)
       PROVE  CounterInv'
  <2>1. req[w].room \in Rooms /\ req[w].seen \in Seen
    BY <1>10, RequestShape DEF TypeOK, UpdateRoomCommit
  <2>2. capacity' \in [Rooms -> Capacities] /\ status' \in [Rooms -> RoomStatus]
    BY <1>10, <2>1 DEF TypeOK, UpdateRoomCommit, Write
  <2>3. req' \in [Workers -> Request] /\ SeenSound'
    BY <1>10, FinishKeepsSeenSound DEF UpdateRoomCommit
  <2>. QED  BY <1>10, <2>2, <2>3 DEF UpdateRoomCommit, TypeOK, CounterBounded
<1>11. ASSUME NEW w \in Workers, DeleteRoomCommit(w)
       PROVE  CounterInv'
  <2>1. req' \in [Workers -> Request] /\ SeenSound'
    BY <1>11, FinishKeepsSeenSound DEF DeleteRoomCommit
  <2>. QED  BY <1>11, <2>1, DropRoomsKeepsTables DEF DeleteRoomCommit, TypeOK
<1>12. ASSUME NEW w \in Workers, DeleteBuildingCommit(w)
       PROVE  CounterInv'
  <2>1. req' \in [Workers -> Request] /\ SeenSound'
    BY <1>12, FinishKeepsSeenSound DEF DeleteBuildingCommit
  <2>2. /\ buildingIs' \in [Buildings -> Life]
        /\ supervisors' \in [Teachers -> [Buildings -> Nat]]
    BY <1>12 DEF DeleteBuildingCommit, TypeOK, Life
  <2>. QED  BY <1>12, <2>1, <2>2, DropRoomsKeepsTables DEF DeleteBuildingCommit, TypeOK
<1>13. ASSUME NEW w \in Workers, AssignReadRoom(w)
       PROVE  CounterInv'
  <2>1. req[w].room \in Rooms /\ req[w].student \in Students
    BY <1>13, RequestShape DEF TypeOK, AssignReadRoom, HasBed
  <2>. DEFINE q == [op |-> "assign.commit", student |-> req[w].student,
                    room |-> req[w].room, seen |-> ReadRoom(req[w].room)]
  <2>2. q \in Request
    BY <2>1, ReadRoomType DEF Request
  <2>3. q.seen.occupancy < q.seen.capacity
    BY <1>13 DEF AssignReadRoom, HasBed, ReadRoom
  <2>. QED  BY <1>13, <2>2, <2>3, ReadKeepsCounterInv DEF AssignReadRoom, HasBed
<1>14. ASSUME NEW w \in Workers, AssignCommit(w)
       PROVE  CounterInv'
  <2>1. req[w].room \in Rooms /\ req[w].student \in Students /\ req[w].seen \in Seen
    BY <1>14, RequestShape DEF TypeOK, AssignCommit
  <2>2. req' \in [Workers -> Request] /\ SeenSound'
    BY <1>14, FinishKeepsSeenSound DEF AssignCommit
  <2>3. status' \in [Rooms -> RoomStatus]
    BY <1>14, <2>1 DEF TypeOK, AssignCommit, Write, StatusAfterAssign, Seen, RoomStatus
  <2>4. assignments' \subseteq Assignment /\ nextRow' \in Nat
    <3>. DEFINE row == [id |-> nextRow, student |-> req[w].student,
                        room |-> req[w].room, is_active |-> TRUE]
    <3>1. row \in Assignment /\ nextRow + 1 \in Nat
      BY <2>1 DEF TypeOK, Assignment
    <3>2. assignments' = assignments \cup {row} /\ nextRow' = nextRow + 1
      BY <1>14 DEF AssignCommit
    <3>. QED  BY <3>1, <3>2 DEF TypeOK
  <2>5. current_occupancy' \in [Rooms -> Nat]
    BY <1>14, <2>1 DEF TypeOK, AssignCommit, Seen
  <2>6. CounterBounded'
    <3>1. req[w].seen.occupancy < req[w].seen.capacity
      BY <1>14 DEF SeenSound, AssignCommit
    <3>2. /\ req[w].seen.occupancy \in Nat
          /\ req[w].seen.capacity \in Capacities
          /\ req[w].seen.capacity \in Nat
      BY <2>1, CapacitiesAssumption DEF Seen
    <3>3. current_occupancy' =
            [current_occupancy EXCEPT ![req[w].room] = req[w].seen.occupancy + 1]
      BY <1>14 DEF AssignCommit
    <3>4. req[w].seen.occupancy + 1 <= req[w].seen.capacity
      BY <3>1, <3>2
    <3>. QED  BY <2>1, <3>2, <3>3, <3>4 DEF CounterBounded, TypeOK
  <2>. QED  BY <1>14, <2>2, <2>3, <2>4, <2>5, <2>6 DEF AssignCommit, TypeOK
<1>15. ASSUME NEW w \in Workers, VacateReadRoom(w)
       PROVE  CounterInv'
  <2>1. req[w].row \in Assignment /\ req[w].row.room \in Rooms
    BY <1>15, RequestShape DEF TypeOK, VacateReadRoom, Counted, Assignment
  <2>. DEFINE r == req[w].row.room
  <2>2. CASE roomIs[r] = "live" /\ current_occupancy[r] > 0
    <3>. DEFINE q == [op |-> "vacate.commit", row |-> req[w].row, seen |-> ReadRoom(r)]
    <3>1. q \in Request
      BY <2>1, ReadRoomType DEF Request
    <3>2. q.seen.occupancy > 0 /\ \E c \in Capacities : q.seen.occupancy <= c
      BY <2>1, <2>2 DEF CounterBounded, ReadRoom
    <3>3. Serve(w, q)
      BY <1>15, <2>2 DEF VacateReadRoom, Counted
    <3>. QED  BY <1>15, <3>1, <3>2, <3>3, ReadKeepsCounterInv DEF VacateReadRoom, Counted
  <2>3. CASE ~(roomIs[r] = "live" /\ current_occupancy[r] > 0)
    <3>. DEFINE q == [op |-> "vacate.commit.row", row |-> req[w].row]
    <3>1. q \in Request
      BY <2>1 DEF Request
    <3>2. Serve(w, q)
      BY <1>15, <2>3 DEF VacateReadRoom, Counted
    <3>. QED  BY <1>15, <3>1, <3>2, ReadKeepsCounterInv DEF VacateReadRoom, Counted
  <2>. QED  BY <2>2, <2>3
<1>16. ASSUME NEW w \in Workers, VacateCommit(w)
       PROVE  CounterInv'
  <2>1. req[w].row \in Assignment /\ req[w].row.room \in Rooms /\ req[w].seen \in Seen
    BY <1>16, RequestShape DEF TypeOK, VacateCommit, Assignment
  <2>2. req' \in [Workers -> Request] /\ SeenSound'
    BY <1>16, FinishKeepsSeenSound DEF VacateCommit
  <2>3. status' \in [Rooms -> RoomStatus]
    BY <1>16, <2>1 DEF TypeOK, VacateCommit, Write, StatusAfterVacate, Seen, RoomStatus
  <2>4. assignments' \subseteq Assignment
    BY <1>16, <2>1, DeactivateType DEF VacateCommit
  <2>. DEFINE seen == req[w].seen
  <2>5. PICK c \in Capacities : /\ seen.occupancy \in Nat /\ seen.occupancy > 0
                                /\ seen.occupancy <= c
    BY <1>16, <2>1 DEF SeenSound, VacateCommit, Seen
  <2>6. current_occupancy' =
          [current_occupancy EXCEPT ![req[w].row.room] = seen.occupancy - 1]
    BY <1>16 DEF VacateCommit
  <2>7. current_occupancy' \in [Rooms -> Nat]
    BY <2>1, <2>5, <2>6 DEF TypeOK
  <2>8. CounterBounded'
    BY <2>1, <2>5, <2>6, CapacitiesAssumption DEF CounterBounded, TypeOK
  <2>. QED  BY <1>16, <2>2, <2>3, <2>4, <2>7, <2>8 DEF VacateCommit, TypeOK
<1>17. ASSUME NEW w \in Workers, VacateCommitRowOnly(w)
       PROVE  CounterInv'
  <2>1. req[w].row \in Assignment
    BY <1>17, RequestShape DEF TypeOK, VacateCommitRowOnly
  <2>2. req' \in [Workers -> Request] /\ SeenSound'
    BY <1>17, FinishKeepsSeenSound DEF VacateCommitRowOnly
  <2>3. assignments' \subseteq Assignment
    BY <1>17, <2>1, DeactivateType DEF VacateCommitRowOnly
  <2>. QED  BY <1>17, <2>2, <2>3 DEF VacateCommitRowOnly, TypeOK, CounterBounded, roomVars
<1>18. ASSUME NEW w \in Workers, Abort(w)
       PROVE  CounterInv'
  <2>1. Idle \in Request /\ Idle.op = "idle"
    BY DEF Request, Idle
  <2>. QED  BY <1>18, <2>1, ReadKeepsCounterInv DEF Abort, Finish
<1>19. CASE UNCHANGED vars
  BY <1>19 DEF vars, roomVars, TypeOK, SeenSound, CounterBounded
<1>. QED
  BY <1>1, <1>2, <1>3, <1>4, <1>5, <1>6, <1>7, <1>8, <1>9, <1>10, <1>11, <1>12,
     <1>13, <1>14, <1>15, <1>16, <1>17, <1>18, <1>19 DEF Next

\* Whatever requests overlap or fail, the tables keep their types; in
\* particular the occupancy counter never turns negative.
THEOREM TypeCorrect == Spec => []TypeOK
<1>1. CounterInv => TypeOK
  BY DEF CounterInv
<1>. QED  BY <1>1, InitCounterInv, NextCounterInv, PTL DEF Spec

\* Lost updates cannot push the occupancy counter of a room past the largest
\* capacity a room can have: what is written was computed from a counter that
\* was below the capacity read with it.
THEOREM CounterStaysBounded == Spec => []CounterBounded
<1>1. CounterInv => CounterBounded
  BY DEF CounterInv
<1>. QED  BY <1>1, InitCounterInv, NextCounterInv, PTL DEF Spec

-----------------------------------------------------------------------------
(* The assignments *)

\* A deactivated row is inactive, the others are as they were.
LEMMA DeactivateRows ==
  ASSUME TypeOK, NEW row, Deactivate(row), NEW x \in assignments', x.is_active
  PROVE  x \in assignments
<1>1. PICK a \in assignments :
        x = IF a.id = row.id THEN [a EXCEPT !.is_active = FALSE] ELSE a
  BY DEF Deactivate
<1>2. a \in Assignment
  BY DEF TypeOK
<1>3. [a EXCEPT !.is_active = FALSE].is_active = FALSE
  BY <1>2 DEF Assignment
<1>. QED  BY <1>1, <1>3

\* The rooms of the rows after a deactivation are those before it.
LEMMA DeactivateRooms ==
  ASSUME TypeOK, NEW row, Deactivate(row), NEW x \in assignments'
  PROVE  \E a \in assignments : a.room = x.room
<1>1. PICK a \in assignments :
        x = IF a.id = row.id THEN [a EXCEPT !.is_active = FALSE] ELSE a
  BY DEF Deactivate
<1>2. a \in Assignment
  BY DEF TypeOK
<1>3. [a EXCEPT !.is_active = FALSE].room = a.room
  BY <1>2 DEF Assignment
<1>. QED  BY <1>1, <1>3

LEMMA NextOneActive ==
  TypeOK /\ OneActiveAssignment /\ [Next]_vars => OneActiveAssignment'
<1>. SUFFICES ASSUME TypeOK, OneActiveAssignment, [Next]_vars
              PROVE  OneActiveAssignment'
  OBVIOUS
<1>1. ASSUME assignments' \subseteq assignments
      PROVE  OneActiveAssignment'
  BY <1>1 DEF OneActiveAssignment
<1>2. ASSUME NEW w \in Workers, AssignCommit(w)
      PROVE  OneActiveAssignment'
  <2>. DEFINE row == [id |-> nextRow, student |-> req[w].student,
                      room |-> req[w].room, is_active |-> TRUE]
  <2>1. assignments' = assignments \cup {row} /\ ActiveOf(row.student) = {}
    BY <1>2 DEF AssignCommit, ActiveStudentIndexAllows
  <2>2. \A a \in assignments : a.is_active => a.student # row.student
    BY <2>1 DEF ActiveOf
  <2>. HIDE DEF row
  <2>. QED  BY <2>1, <2>2 DEF OneActiveAssignment
<1>3. ASSUME NEW row, Deactivate(row)
      PROVE  OneActiveAssignment'
  BY <1>3, DeactivateRows DEF OneActiveAssignment
<1>4. CASE \E w \in Workers : VacateCommit(w) \/ VacateCommitRowOnly(w)
  BY <1>3, <1>4 DEF VacateCommit, VacateCommitRowOnly
<1>5. ASSUME NEW w \in Workers, DeleteRoomCommit(w) \/ DeleteBuildingCommit(w)
      PROVE  OneActiveAssignment'
  BY <1>1, <1>5 DEF DeleteRoomCommit, DeleteBuildingCommit, DropRooms, Survivors
<1>6. CASE UNCHANGED assignments
  BY <1>1, <1>6
<1>. QED
  BY <1>2, <1>4, <1>5, <1>6
  DEF Next, vars, CreateBuilding, DeleteBuildingRead, CreateRoom, UpdateRoomRead,
      DeleteRoomRead, AssignCheckStudent, VacateReadAssignment, AssignSupervisorRead,
      AssignSupervisorCommit, UpdateRoomCommit, AssignReadRoom, VacateReadRoom, Abort

\* However many assign and vacate requests overlap, no student is ever active
\* in two rooms: the partial unique index refuses what the stale check let by.
THEOREM OneActiveAssignmentHolds == Spec => []OneActiveAssignment
<1>1. Init => OneActiveAssignment
  BY DEF Init, OneActiveAssignment
<1>. QED  BY <1>1, TypeCorrect, NextOneActive, PTL DEF Spec

-----------------------------------------------------------------------------
(* References between the tables *)

LEMMA NextReferences ==
  TypeOK /\ ReferencesHold /\ [Next]_vars => ReferencesHold'
<1>. SUFFICES ASSUME TypeOK, ReferencesHold, [Next]_vars
              PROVE  ReferencesHold'
  OBVIOUS
<1>1. ASSUME NEW w \in Workers, NEW b \in Buildings, CreateBuilding(w, b)
      PROVE  ReferencesHold'
  BY <1>1 DEF CreateBuilding, ReferencesHold, TypeOK, roomVars
<1>2. ASSUME NEW w \in Workers, NEW r \in Rooms, CreateRoom(w, r)
      PROVE  ReferencesHold'
  BY <1>2 DEF CreateRoom, ReferencesHold, TypeOK
<1>3. ASSUME NEW w \in Workers, DeleteRoomCommit(w)
      PROVE  ReferencesHold'
  BY <1>3 DEF DeleteRoomCommit, DropRooms, Survivors, ReferencesHold, TypeOK, Assignment
<1>4. ASSUME NEW w \in Workers, DeleteBuildingCommit(w)
      PROVE  ReferencesHold'
  <2>1. \A r \in Rooms : roomIs'[r] = "live" =>
          building_id'[r] # req[w].building /\ roomIs[r] = "live"
    BY <1>4 DEF DeleteBuildingCommit, DropRooms, Survivors, RoomsIn
  <2>2. \A a \in assignments' : roomIs'[a.room] = "live"
    BY <1>4 DEF DeleteBuildingCommit, DropRooms, Survivors, ReferencesHold, TypeOK, Assignment
  <2>. QED  BY <1>4, <2>1, <2>2 DEF DeleteBuildingCommit, DropRooms, Survivors, ReferencesHold, TypeOK
<1>5. ASSUME NEW w \in Workers, AssignCommit(w)
      PROVE  ReferencesHold'
  <2>1. \A a \in assignments' : roomIs'[a.room] = "live"
    BY <1>5 DEF AssignCommit, ReferencesHold
  <2>. QED  BY <1>5, <2>1 DEF AssignCommit, ReferencesHold
<1>6. ASSUME NEW row, Deactivate(row), UNCHANGED <<buildingIs, roomIs, building_id>>
      PROVE  ReferencesHold'
  BY <1>6, DeactivateRooms DEF ReferencesHold
<1>7. CASE \E w \in Workers : VacateCommit(w) \/ VacateCommitRowOnly(w)
  BY <1>6, <1>7 DEF VacateCommit, VacateCommitRowOnly, roomVars
<1>8. CASE UNCHANGED <<buildingIs, roomIs, building_id, assignments>>
  BY <1>8 DEF ReferencesHold
<1>. QED
  BY <1>1, <1>2, <1>3, <1>4, <1>5, <1>7, <1>8
  DEF Next, vars, roomVars, DeleteBuildingRead, UpdateRoomRead,
      DeleteRoomRead, AssignCheckStudent, VacateReadAssignment, AssignSupervisorRead,
      AssignSupervisorCommit, UpdateRoomCommit, AssignReadRoom, VacateReadRoom, Abort

\* A deletion that passed its check on stale rows still leaves no assignment
\* without its room and no room without its building.
THEOREM ReferencesAlwaysHold == Spec => []ReferencesHold
<1>1. Init => ReferencesHold
  BY DEF Init, ReferencesHold
<1>. QED  BY <1>1, TypeCorrect, NextReferences, PTL DEF Spec
-----------------------------------------------------------------------------
(* Supervisors *)

\* The requests on their way to list the teacher for the building.
Listing(t, b) ==
  {w \in Workers :
     req[w].op = "assign_supervisor" /\ req[w].teacher = t /\ req[w].building = b}

\* The rows of a pair and the requests about to add one are together no more
\* than the workers: as long as a request finds no row all the rows to come are
\* in flight, and once there is a row no request sets out.
ListingInv ==
  \A t \in Teachers, b \in Buildings :
    supervisors[t][b] + Cardinality(Listing(t, b)) <= Cardinality(Workers)

LEMMA ListingFinite ==
  ASSUME NEW t, NEW b
  PROVE  /\ IsFiniteSet(Listing(t, b))
         /\ Cardinality(Listing(t, b)) \in Nat /\ Cardinality(Workers) \in Nat
         /\ Cardinality(Listing(t, b)) <= Cardinality(Workers)
<1>1. Listing(t, b) \in SUBSET Workers
  BY DEF Listing
<1>. QED  BY <1>1, WorkersAssumption, FS_Subset, FS_CardinalityType

\* A step that neither lists a teacher nor sets out to.
LEMMA FewerListings ==
  ASSUME ListingInv, TypeOK,
         NEW t \in Teachers, NEW b \in Buildings,
         supervisors'[t][b] \in {0, supervisors[t][b]},
         Listing(t, b)' \subseteq Listing(t, b)
  PROVE  supervisors'[t][b] + Cardinality(Listing(t, b)') <= Cardinality(Workers)
<1>1. IsFiniteSet(Listing(t, b)) /\ Cardinality(Listing(t, b)) \in Nat /\ Cardinality(Workers) \in Nat
  BY ListingFinite
<1>2. /\ Cardinality(Listing(t, b)') \in Nat
      /\ Cardinality(Listing(t, b)') <= Cardinality(Listing(t, b))
  <2>. DEFINE before == Listing(t, b)
              after == Listing(t, b)'
  <2>1. IsFiniteSet(before) /\ after \in SUBSET before
    BY <1>1
  <2>. HIDE DEF before, after
  <2>2. IsFiniteSet(after) /\ Cardinality(after) \in Nat /\ Cardinality(after) <= Cardinality(before)
    BY <2>1, FS_Subset, FS_CardinalityType
  <2>. QED  BY <2>2 DEF before, after
<1>3. supervisors[t][b] \in Nat /\ supervisors[t][b] + Cardinality(Listing(t, b)) <= Cardinality(Workers)
  BY DEF ListingInv, TypeOK
<1>. QED  BY <1>1, <1>2, <1>3

LEMMA ReadsToList ==
  ASSUME ListingInv, TypeOK,
         NEW w \in Workers, NEW t \in Teachers, NEW b \in Buildings, AssignSupervisorRead(w, t, b)
  PROVE  ListingInv'
<1>1. /\ supervisors' = supervisors /\ supervisors[t][b] = 0
      /\ req[w].op = "idle"
      /\ req' = [req EXCEPT ![w] = [op |-> "assign_supervisor", teacher |-> t, building |-> b]]
  BY DEF AssignSupervisorRead, NotYetSupervising, Serve, Idle
<1>2. ASSUME NEW x \in Teachers, NEW y \in Buildings
      PROVE  supervisors'[x][y] + Cardinality(Listing(x, y)') <= Cardinality(Workers)
  <2>1. CASE x = t /\ y = b
    <3>1. Listing(x, y)' \in SUBSET Workers
      BY DEF Listing
    <3>2. /\ Cardinality(Listing(x, y)') <= Cardinality(Workers)
          /\ Cardinality(Listing(x, y)') \in Nat
      BY <3>1, WorkersAssumption, FS_Subset, FS_CardinalityType
    <3>. QED  BY <1>1, <2>1, <3>2
  <2>2. CASE ~(x = t /\ y = b)
    <3>1. Listing(x, y)' \subseteq Listing(x, y)
      BY <1>1, <2>2 DEF Listing, TypeOK
    <3>. QED  BY <1>1, <3>1, FewerListings
  <2>. QED  BY <2>1, <2>2
<1>. QED  BY <1>2 DEF ListingInv

LEMMA Lists ==
  ASSUME ListingInv, TypeOK, NEW w \in Workers, AssignSupervisorCommit(w)
  PROVE  ListingInv'
<1>. DEFINE t == req[w].teacher
            b == req[w].building
<1>1. /\ t \in Teachers /\ b \in Buildings /\ w \in Listing(t, b)
      /\ supervisors' = [supervisors EXCEPT ![t][b] = supervisors[t][b] + 1]
      /\ req' = [req EXCEPT ![w] = Idle]
  BY RequestShape DEF TypeOK, AssignSupervisorCommit, Listing, Finish, Serve
<1>2. ASSUME NEW x, NEW y
      PROVE  Listing(x, y)' = Listing(x, y) \ {w}
  BY <1>1 DEF Listing, TypeOK, Idle
<1>. HIDE DEF t, b
<1>3. ASSUME NEW x \in Teachers, NEW y \in Buildings
      PROVE  supervisors'[x][y] + Cardinality(Listing(x, y)') <= Cardinality(Workers)
  <2>1. CASE x = t /\ y = b
    <3>. DEFINE before == Listing(x, y)
    <3>1. IsFiniteSet(before) /\ Cardinality(before) \in Nat /\ w \in before
      BY <1>1, <2>1, ListingFinite
    <3>. HIDE DEF before
    <3>2. Cardinality(before \ {w}) = Cardinality(before) - 1
      BY <3>1, FS_RemoveElement
    <3>3. Cardinality(Listing(x, y)') = Cardinality(before) - 1
      BY <1>2, <3>2 DEF before
    <3>4. supervisors'[x][y] = supervisors[x][y] + 1 /\ supervisors[x][y] \in Nat
      BY <1>1, <2>1 DEF TypeOK
    <3>5. supervisors[x][y] + Cardinality(before) <= Cardinality(Workers)
      BY DEF ListingInv, before
    <3>. QED  BY <3>1, <3>3, <3>4, <3>5, ListingFinite
  <2>2. CASE ~(x = t /\ y = b)
    <3>1. supervisors'[x][y] = supervisors[x][y]
      BY <1>1, <2>2 DEF TypeOK
    <3>. QED  BY <1>2, <3>1, FewerListings
  <2>. QED  BY <2>1, <2>2
<1>. QED  BY <1>3 DEF ListingInv

\* Every other step serves some other request, or ends one.
LEMMA OthersKeepListings ==
  ASSUME ListingInv, TypeOK, NEW w \in Workers, NEW q,
         q.op # "assign_supervisor", Serve(w, q) \/ req' = req,
         \A t \in Teachers, b \in Buildings : supervisors'[t][b] \in {0, supervisors[t][b]}
  PROVE  ListingInv'
<1>1. ASSUME NEW t \in Teachers, NEW b \in Buildings
      PROVE  Listing(t, b)' \subseteq Listing(t, b)
  BY DEF Listing, Serve, TypeOK
<1>. QED  BY <1>1, FewerListings DEF ListingInv

LEMMA NextListing == TypeOK /\ ListingInv /\ [Next]_vars => ListingInv'
<1>. SUFFICES ASSUME TypeOK, ListingInv, [Next]_vars PROVE ListingInv'
  OBVIOUS
<1>1. ASSUME NEW w \in Workers, NEW t \in Teachers, NEW b \in Buildings,
             AssignSupervisorRead(w, t, b)
      PROVE  ListingInv'
  BY <1>1, ReadsToList
<1>2. ASSUME NEW w \in Workers, AssignSupervisorCommit(w)
      PROVE  ListingInv'
  BY <1>2, Lists
<1>3. ASSUME NEW w \in Workers, DeleteBuildingCommit(w)
      PROVE  ListingInv'
  <2>1. /\ Serve(w, Idle) /\ Idle.op # "assign_supervisor"
        /\ \A t \in Teachers, b \in Buildings : supervisors'[t][b] \in {0, supervisors[t][b]}
    BY <1>3 DEF DeleteBuildingCommit, Finish, TypeOK, Idle
  <2>. QED  BY <2>1, OthersKeepListings
<1>4. ASSUME NEW w \in Workers,
             UpdateRoomCommit(w) \/ DeleteRoomCommit(w) \/ AssignCommit(w) \/ VacateCommit(w)
             \/ VacateCommitRowOnly(w) \/ Abort(w)
      PROVE  ListingInv'
  <2>1. Serve(w, Idle) /\ Idle.op # "assign_supervisor" /\ supervisors' = supervisors
    BY <1>4 DEF UpdateRoomCommit, DeleteRoomCommit, AssignCommit, VacateCommit,
                VacateCommitRowOnly, Abort, Finish, Idle
  <2>. QED  BY <2>1, OthersKeepListings
<1>5. ASSUME NEW w \in Workers,
             (\E b \in Buildings : CreateBuilding(w, b)) \/ (\E r \in Rooms : CreateRoom(w, r))
      PROVE  ListingInv'
  <2>1. req' = req /\ Idle.op # "assign_supervisor" /\ supervisors' = supervisors
    BY <1>5 DEF CreateBuilding, CreateRoom, Idle
  <2>. QED  BY <2>1, OthersKeepListings
<1>6. ASSUME NEW w \in Workers,
             \/ \E b \in Buildings : DeleteBuildingRead(w, b)
             \/ \E r \in Rooms : UpdateRoomRead(w, r) \/ DeleteRoomRead(w, r)
             \/ \E s \in Students, r \in Rooms : AssignCheckStudent(w, s, r)
             \/ \E s \in Students : VacateReadAssignment(w, s)
             \/ AssignReadRoom(w) \/ VacateReadRoom(w)
      PROVE  ListingInv'
  <2>1. supervisors' = supervisors
    BY <1>6 DEF DeleteBuildingRead, UpdateRoomRead, DeleteRoomRead, AssignCheckStudent,
                VacateReadAssignment, AssignReadRoom, VacateReadRoom
  <2>2. \E q : Serve(w, q) /\ q.op # "assign_supervisor"
    <3>1. ASSUME NEW b \in Buildings, DeleteBuildingRead(w, b)
          PROVE  \E q : Serve(w, q) /\ q.op # "assign_supervisor"
      BY <3>1 DEF DeleteBuildingRead
    <3>2. ASSUME NEW r \in Rooms, UpdateRoomRead(w, r) \/ DeleteRoomRead(w, r)
          PROVE  \E q : Serve(w, q) /\ q.op # "assign_supervisor"
      BY <3>2 DEF UpdateRoomRead, DeleteRoomRead
    <3>3. ASSUME NEW s \in Students, NEW r \in Rooms, AssignCheckStudent(w, s, r)
          PROVE  \E q : Serve(w, q) /\ q.op # "assign_supervisor"
      BY <3>3 DEF AssignCheckStudent
    <3>4. ASSUME NEW s \in Students, VacateReadAssignment(w, s)
          PROVE  \E q : Serve(w, q) /\ q.op # "assign_supervisor"
      BY <3>4 DEF VacateReadAssignment
    <3>5. CASE AssignReadRoom(w)
      BY <3>5 DEF AssignReadRoom
    <3>6. CASE VacateReadRoom(w)
      BY <3>6 DEF VacateReadRoom
    <3>. QED  BY <1>6, <3>1, <3>2, <3>3, <3>4, <3>5, <3>6
  <2>. QED  BY <2>1, <2>2, OthersKeepListings
<1>7. CASE UNCHANGED vars
  BY <1>7 DEF vars, ListingInv, Listing
<1>. QED  BY <1>1, <1>2, <1>3, <1>4, <1>5, <1>6, <1>7 DEF Next

\* However requests to list a teacher overlap with each other, with failures and
\* with deletions of the building, the pair ends up with at most one row for
\* each worker: nothing but the check before the insert keeps rows from piling
\* up over a long run.
THEOREM SupervisorsStayBounded == Spec => []SupervisedOncePerWorker
<1>1. Init => ListingInv
  <2>. SUFFICES ASSUME Init PROVE ListingInv
    OBVIOUS
  <2>1. ASSUME NEW t \in Teachers, NEW b \in Buildings
        PROVE  supervisors[t][b] = 0
    BY DEF Init
  <2>. QED  BY <2>1, ListingFinite DEF ListingInv
<1>2. TypeOK /\ ListingInv => SupervisedOncePerWorker
  <2>. SUFFICES ASSUME TypeOK, ListingInv, NEW t \in Teachers, NEW b \in Buildings
                PROVE  supervisors[t][b] <= Cardinality(Workers)
    BY DEF SupervisedOncePerWorker
  <2>1. supervisors[t][b] \in Nat /\ supervisors[t][b] + Cardinality(Listing(t, b)) <= Cardinality(Workers)
    BY DEF TypeOK, ListingInv
  <2>. QED  BY <2>1, ListingFinite
<1>. QED  BY <1>1, <1>2, TypeCorrect, NextListing, PTL DEF Spec
-----------------------------------------------------------------------------
(* One request at a time *)

\* Requests do not overlap where there is one worker to serve them.
Alone == \A v, w \in Workers : v = w

\* What the only request checked and remembers is still so. An assignment that
\* is active is counted, so a vacation always finds its room to count down.
UpToDate(q) ==
  /\ q.op \in {"assign.room", "assign.commit"} => ActiveOf(q.student) = {}
  /\ q.op = "assign.commit" =>
       roomIs[q.room] = "live" /\ q.seen = ReadRoom(q.room) /\ HasBed(q.room)
  /\ q.op \in {"vacate.room", "vacate.commit"} => q.row \in assignments /\ q.row.is_active
  /\ q.op = "vacate.commit" => Counted(q.row.room) /\ q.seen = ReadRoom(q.row.room)
  /\ q.op # "vacate.commit.row"
  /\ q.op = "delete_room" => roomIs[q.room] = "live" /\ RoomIsEmpty(q.room)
  /\ q.op = "delete_building" => RoomsIn(q.building) = {}

\* The rows of assignments are told apart by their keys, and the counter of
\* every room, even of one not yet created or deleted, is its headcount.
KeysInv ==
  /\ IsFiniteSet(assignments)
  /\ \A a \in assignments : a.id < nextRow
  /\ \A a, b \in assignments : a.id = b.id => a = b

Headcounts == \A r \in Rooms : current_occupancy[r] = Cardinality(Occupants(r))

RowsInv == KeysInv /\ Headcounts

SerialInv ==
  /\ CounterInv /\ OneActiveAssignment /\ ReferencesHold
  /\ RowsInv
  /\ \A w \in Workers : UpToDate(req[w])

tables == <<buildingIs, roomVars, assignments, nextRow, supervisors>>

LEMMA AloneFinishes ==
  ASSUME Alone, TypeOK, NEW w \in Workers, Finish(w)
  PROVE  \A v \in Workers : UpToDate(req[v])'
<1>1. \A v \in Workers : req'[v] = [op |-> "idle"]
  BY DEF Alone, TypeOK, Finish, Serve, Idle
<1>. QED  BY <1>1 DEF UpToDate

LEMMA AloneReads ==
  ASSUME Alone, SerialInv, UNCHANGED tables, NEW w \in Workers, NEW q, Serve(w, q), UpToDate(q)
  PROVE  RowsInv' /\ \A v \in Workers : UpToDate(req[v])'
<1>1. \A v \in Workers : req'[v] = q
  BY DEF Alone, SerialInv, CounterInv, TypeOK, Serve
<1>2. \A v \in Workers : UpToDate(req[v])'
  BY <1>1 DEF tables, roomVars, UpToDate, ActiveOf, ReadRoom, HasBed, Counted, RoomIsEmpty,
              RoomsIn
<1>3. RowsInv'
  BY DEF SerialInv, RowsInv, KeysInv, Headcounts, Occupants, tables, roomVars
<1>. QED  BY <1>2, <1>3

\* Every row of assignments that is active is counted.
LEMMA ActiveIsCounted ==
  ASSUME TypeOK, ReferencesHold, KeysInv, Headcounts, NEW a \in assignments, a.is_active
  PROVE  Counted(a.room)
<1>1. a.room \in Rooms /\ roomIs[a.room] = "live"
  BY DEF TypeOK, Assignment, ReferencesHold
<1>2. a \in Occupants(a.room) /\ IsFiniteSet(Occupants(a.room))
  <2>1. Occupants(a.room) \in SUBSET assignments
    BY DEF Occupants
  <2>. QED  BY <2>1, FS_Subset DEF KeysInv, Occupants
<1>3. Cardinality(Occupants(a.room)) # 0 /\ Cardinality(Occupants(a.room)) \in Nat
  BY <1>2, FS_EmptySet, FS_CardinalityType
<1>4. current_occupancy[a.room] > 0
  BY <1>1, <1>3 DEF Headcounts
<1>. QED  BY <1>1, <1>4 DEF Counted

LEMMA SerialReads ==
  ASSUME Alone, SerialInv, NEW w \in Workers,
         \/ \E b \in Buildings : DeleteBuildingRead(w, b)
         \/ \E r \in Rooms : UpdateRoomRead(w, r) \/ DeleteRoomRead(w, r)
         \/ \E s \in Students, r \in Rooms : AssignCheckStudent(w, s, r)
         \/ \E s \in Students : VacateReadAssignment(w, s)
         \/ \E t \in Teachers, b \in Buildings : AssignSupervisorRead(w, t, b)
         \/ AssignReadRoom(w) \/ VacateReadRoom(w) \/ Abort(w)
  PROVE  UNCHANGED tables /\ RowsInv' /\ \A v \in Workers : UpToDate(req[v])'
<1>. DEFINE Goal == UNCHANGED tables /\ RowsInv' /\ \A v \in Workers : UpToDate(req[v])'
<1>0. UpToDate(req[w]) /\ TypeOK /\ req[w] \in Request
  BY DEF SerialInv, CounterInv, TypeOK
<1>1. ASSUME NEW b \in Buildings, DeleteBuildingRead(w, b) PROVE Goal
  <2>1. Serve(w, [op |-> "delete_building", building |-> b]) /\ UNCHANGED tables /\ RoomsIn(b) = {}
    BY <1>1 DEF DeleteBuildingRead, tables
  <2>2. UpToDate([op |-> "delete_building", building |-> b])
    BY <2>1 DEF UpToDate
  <2>. QED  BY <2>1, <2>2, AloneReads
<1>2. ASSUME NEW r \in Rooms, UpdateRoomRead(w, r) PROVE Goal
  <2>. DEFINE q == [op |-> "update_room", room |-> r, seen |-> ReadRoom(r)]
  <2>1. Serve(w, q) /\ UNCHANGED tables
    BY <1>2 DEF UpdateRoomRead, tables
  <2>2. UpToDate(q)
    BY DEF UpToDate
  <2>. HIDE DEF q
  <2>. QED  BY <2>1, <2>2, AloneReads
<1>3. ASSUME NEW r \in Rooms, DeleteRoomRead(w, r) PROVE Goal
  <2>1. /\ Serve(w, [op |-> "delete_room", room |-> r]) /\ UNCHANGED tables
        /\ roomIs[r] = "live" /\ RoomIsEmpty(r)
    BY <1>3 DEF DeleteRoomRead, tables
  <2>2. UpToDate([op |-> "delete_room", room |-> r])
    BY <2>1 DEF UpToDate
  <2>. QED  BY <2>1, <2>2, AloneReads
<1>4. ASSUME NEW s \in Students, NEW r \in Rooms, AssignCheckStudent(w, s, r) PROVE Goal
  <2>1. /\ Serve(w, [op |-> "assign.room", student |-> s, room |-> r]) /\ UNCHANGED tables
        /\ ActiveOf(s) = {}
    BY <1>4 DEF AssignCheckStudent, tables
  <2>2. UpToDate([op |-> "assign.room", student |-> s, room |-> r])
    BY <2>1 DEF UpToDate
  <2>. QED  BY <2>1, <2>2, AloneReads
<1>5. ASSUME NEW s \in Students, VacateReadAssignment(w, s) PROVE Goal
  <2>1. PICK a \in ActiveOf(s) : Serve(w, [op |-> "vacate.room", row |-> a])
    BY <1>5 DEF VacateReadAssignment
  <2>2. UNCHANGED tables /\ a \in assignments /\ a.is_active
    BY <1>5 DEF VacateReadAssignment, tables, ActiveOf
  <2>3. UpToDate([op |-> "vacate.room", row |-> a])
    BY <2>2 DEF UpToDate
  <2>. QED  BY <2>1, <2>2, <2>3, AloneReads
<1>6. ASSUME NEW t \in Teachers, NEW b \in Buildings, AssignSupervisorRead(w, t, b) PROVE Goal
  <2>1. /\ Serve(w, [op |-> "assign_supervisor", teacher |-> t, building |-> b])
        /\ UNCHANGED tables
    BY <1>6 DEF AssignSupervisorRead, tables
  <2>2. UpToDate([op |-> "assign_supervisor", teacher |-> t, building |-> b])
    BY DEF UpToDate
  <2>. QED  BY <2>1, <2>2, AloneReads
<1>7. CASE AssignReadRoom(w)
  <2>. DEFINE s == req[w].student
              r == req[w].room
              q == [op |-> "assign.commit", student |-> s, room |-> r, seen |-> ReadRoom(r)]
  <2>1. /\ Serve(w, q) /\ UNCHANGED tables
        /\ req[w].op = "assign.room" /\ roomIs[r] = "live" /\ HasBed(r)
    BY <1>7 DEF AssignReadRoom, tables
  <2>2. ActiveOf(s) = {}
    BY <1>0, <2>1 DEF UpToDate
  <2>3. UpToDate(q)
    BY <2>1, <2>2 DEF UpToDate
  <2>. HIDE DEF q
  <2>. QED  BY <2>1, <2>3, AloneReads
<1>8. CASE VacateReadRoom(w)
  <2>. DEFINE r == req[w].row.room
              q == [op |-> "vacate.commit", row |-> req[w].row, seen |-> ReadRoom(r)]
  <2>1. req[w].row \in assignments /\ req[w].row.is_active
    BY <1>0, <1>8 DEF UpToDate, VacateReadRoom
  <2>2. Counted(r)
    BY <1>0, <2>1, ActiveIsCounted DEF SerialInv, RowsInv
  <2>3. Serve(w, q) /\ UNCHANGED tables
    BY <1>8, <2>2 DEF VacateReadRoom, tables
  <2>4. UpToDate(q)
    BY <2>1, <2>2 DEF UpToDate
  <2>. HIDE DEF q
  <2>. QED  BY <2>3, <2>4, AloneReads
<1>9. CASE Abort(w)
  <2>1. Serve(w, [op |-> "idle"]) /\ UNCHANGED tables
    BY <1>9 DEF Abort, Finish, Idle, tables
  <2>2. UpToDate([op |-> "idle"])
    BY DEF UpToDate
  <2>. QED  BY <2>1, <2>2, AloneReads
<1>. HIDE DEF Goal
<1>. QED  BY <1>1, <1>2, <1>3, <1>4, <1>5, <1>6, <1>7, <1>8, <1>9 DEF Goal

-----------------------------------------------------------------------------
(* The commits of the only request *)

\* The assignment goes to a room with a bed and a student without one.
LEMMA AssignAlone ==
  ASSUME SerialInv, NEW w \in Workers, AssignCommit(w)
  PROVE  LET r == req[w].room
             s == req[w].student
         IN /\ r \in Rooms /\ s \in Students
            /\ roomIs[r] = "live" /\ HasBed(r) /\ ActiveOf(s) = {}
            /\ assignments' = assignments \cup
                 {[id |-> nextRow, student |-> s, room |-> r, is_active |-> TRUE]}
            /\ nextRow' = nextRow + 1
            /\ current_occupancy' = [current_occupancy EXCEPT ![r] = current_occupancy[r] + 1]
            /\ UNCHANGED <<buildingIs, roomIs, building_id, capacity, supervisors>>
<1>1. UpToDate(req[w]) /\ TypeOK
  BY DEF SerialInv, CounterInv
<1>2. req[w].room \in Rooms /\ req[w].student \in Students
  BY <1>1, RequestShape DEF TypeOK, AssignCommit
<1>3. req[w].seen.occupancy = current_occupancy[req[w].room]
  BY <1>1 DEF UpToDate, AssignCommit, ReadRoom
<1>. QED  BY <1>1, <1>2, <1>3 DEF UpToDate, AssignCommit

\* What becomes of a row that is vacated.
Vacated(row) == [row EXCEPT !.is_active = FALSE]

LEMMA VacateAlone ==
  ASSUME SerialInv, NEW w \in Workers, VacateCommit(w)
  PROVE  LET row == req[w].row
             r == row.room
         IN /\ row \in assignments /\ row \in Assignment /\ row.is_active /\ r \in Rooms
            /\ assignments' = (assignments \ {row}) \cup {Vacated(row)}
            /\ current_occupancy' = [current_occupancy EXCEPT ![r] = current_occupancy[r] - 1]
            /\ UNCHANGED <<buildingIs, roomIs, building_id, capacity, nextRow, supervisors>>
<1>. DEFINE row == req[w].row
            r == row.room
<1>1. UpToDate(req[w]) /\ TypeOK /\ KeysInv
  BY DEF SerialInv, CounterInv, RowsInv
<1>2. row \in assignments /\ row \in Assignment /\ row.is_active /\ r \in Rooms
  BY <1>1 DEF UpToDate, VacateCommit, TypeOK, Assignment
<1>3. req[w].seen.occupancy = current_occupancy[r]
  BY <1>1 DEF UpToDate, VacateCommit, ReadRoom
<1>4. assignments' = {IF a.id = row.id THEN Vacated(a) ELSE a : a \in assignments}
  BY DEF VacateCommit, Deactivate, Vacated
<1>5. \A a \in assignments : a.id = row.id <=> a = row
  BY <1>1, <1>2 DEF KeysInv
<1>. HIDE DEF row
<1>6. assignments' = (assignments \ {row}) \cup {Vacated(row)}
  BY <1>2, <1>4, <1>5
<1>. USE DEF row
<1>. QED  BY <1>2, <1>3, <1>6 DEF VacateCommit

LEMMA AssignKeepsRows ==
  ASSUME SerialInv, NEW w \in Workers, AssignCommit(w)
  PROVE  RowsInv'
<1>. DEFINE r == req[w].room
            row == [id |-> nextRow, student |-> req[w].student, room |-> r, is_active |-> TRUE]
<1>0. TypeOK /\ RowsInv
  BY DEF SerialInv, CounterInv
<1>1. /\ r \in Rooms /\ assignments' = assignments \cup {row} /\ nextRow' = nextRow + 1
      /\ current_occupancy' = [current_occupancy EXCEPT ![r] = current_occupancy[r] + 1]
      /\ supervisors' = supervisors
  BY AssignAlone
<1>2. row.id = nextRow /\ row.room = r /\ row.is_active
  OBVIOUS
<1>. HIDE DEF r, row
<1>3. nextRow \in Nat /\ \A a \in assignments : a.id \in Nat /\ a.id < nextRow
  BY <1>0 DEF TypeOK, Assignment, RowsInv, KeysInv
<1>4. KeysInv'
  <2>1. IsFiniteSet(assignments')
    BY <1>0, <1>1, FS_AddElement DEF RowsInv, KeysInv
  <2>2. \A a \in assignments' : a.id < nextRow'
    BY <1>1, <1>2, <1>3
  <2>3. \A a, b \in assignments' : a.id = b.id => a = b
    BY <1>0, <1>1, <1>2, <1>3 DEF RowsInv, KeysInv
  <2>. QED  BY <2>1, <2>2, <2>3 DEF KeysInv
<1>5. row \notin assignments
  BY <1>2, <1>3
<1>6. ASSUME NEW x \in Rooms
      PROVE  current_occupancy'[x] = Cardinality(Occupants(x)')
  <2>1. CASE x = r
    <3>1. Occupants(x)' = Occupants(x) \cup {row} /\ row \notin Occupants(x)
      BY <1>1, <1>2, <1>5, <2>1 DEF Occupants
    <3>2. IsFiniteSet(Occupants(x))
      <4>1. Occupants(x) \in SUBSET assignments
        BY DEF Occupants
      <4>. QED  BY <1>0, <4>1, FS_Subset DEF RowsInv, KeysInv
    <3>3. Cardinality(Occupants(x)') = Cardinality(Occupants(x)) + 1
      BY <3>1, <3>2, FS_AddElement
    <3>. QED  BY <1>0, <1>1, <2>1, <3>3 DEF RowsInv, Headcounts, TypeOK
  <2>2. CASE x # r
    <3>1. Occupants(x)' = Occupants(x)
      BY <1>1, <1>2, <2>2 DEF Occupants
    <3>. QED  BY <1>0, <1>1, <2>2, <3>1 DEF RowsInv, Headcounts, TypeOK
  <2>. QED  BY <2>1, <2>2
<1>7. Headcounts'
  BY <1>6 DEF Headcounts
<1>. QED  BY <1>0, <1>1, <1>4, <1>7 DEF RowsInv

LEMMA VacateKeepsRows ==
  ASSUME SerialInv, NEW w \in Workers, VacateCommit(w)
  PROVE  RowsInv'
<1>. DEFINE row == req[w].row
            r == row.room
<1>0. TypeOK /\ RowsInv
  BY DEF SerialInv, CounterInv
<1>1. /\ row \in assignments /\ row \in Assignment /\ row.is_active /\ r \in Rooms
      /\ assignments' = (assignments \ {row}) \cup {Vacated(row)}
      /\ current_occupancy' = [current_occupancy EXCEPT ![r] = current_occupancy[r] - 1]
      /\ nextRow' = nextRow /\ supervisors' = supervisors
  BY VacateAlone
<1>2. /\ Vacated(row).id = row.id /\ Vacated(row).room = r /\ Vacated(row).is_active = FALSE
  BY <1>1 DEF Vacated, Assignment
<1>. HIDE DEF row
<1>4. KeysInv'
  <2>1. IsFiniteSet(assignments')
    BY <1>0, <1>1, FS_AddElement, FS_RemoveElement DEF RowsInv, KeysInv
  <2>2. \A a \in assignments' : a.id < nextRow'
    BY <1>0, <1>1, <1>2 DEF RowsInv, KeysInv
  <2>3. \A a, b \in assignments' : a.id = b.id => a = b
    BY <1>0, <1>1, <1>2 DEF RowsInv, KeysInv
  <2>. QED  BY <2>1, <2>2, <2>3 DEF KeysInv
<1>6. ASSUME NEW x \in Rooms
      PROVE  current_occupancy'[x] = Cardinality(Occupants(x)')
  <2>1. CASE x = r
    <3>1. Occupants(x)' = Occupants(x) \ {row} /\ row \in Occupants(x)
      BY <1>1, <1>2, <2>1 DEF Occupants
    <3>2. IsFiniteSet(Occupants(x))
      <4>1. Occupants(x) \in SUBSET assignments
        BY DEF Occupants
      <4>. QED  BY <1>0, <4>1, FS_Subset DEF RowsInv, KeysInv
    <3>3. Cardinality(Occupants(x)') = Cardinality(Occupants(x)) - 1
      BY <3>1, <3>2, FS_RemoveElement
    <3>. QED  BY <1>0, <1>1, <2>1, <3>3 DEF RowsInv, Headcounts, TypeOK
  <2>2. CASE x # r
    <3>1. Occupants(x)' = Occupants(x)
      BY <1>1, <1>2, <2>2 DEF Occupants
    <3>. QED  BY <1>0, <1>1, <2>2, <3>1 DEF RowsInv, Headcounts, TypeOK
  <2>. QED  BY <2>1, <2>2
<1>7. Headcounts'
  BY <1>6 DEF Headcounts
<1>. QED  BY <1>0, <1>1, <1>4, <1>7 DEF RowsInv

\* A room is deleted while nobody lives in it; what goes with it is history.
LEMMA DropKeepsRows ==
  ASSUME TypeOK, KeysInv, Headcounts, NEW gone \in SUBSET Rooms, DropRooms(gone),
         UNCHANGED nextRow
  PROVE  KeysInv' /\ Headcounts'
<1>1. assignments' = {a \in assignments : a.room \notin gone}
  BY DEF DropRooms, Survivors
<1>2. KeysInv'
  <2>1. assignments' \in SUBSET assignments
    BY <1>1
  <2>. QED  BY <2>1, FS_Subset DEF KeysInv
<1>3. ASSUME NEW r \in Rooms
      PROVE  current_occupancy'[r] = Cardinality(Occupants(r)')
  <2>1. CASE r \in gone
    <3>1. Occupants(r)' = {}
      BY <1>1, <2>1 DEF Occupants
    <3>. QED  BY <2>1, <3>1, FS_EmptySet DEF DropRooms
  <2>2. CASE r \notin gone
    <3>1. Occupants(r)' = Occupants(r)
      BY <1>1, <2>2 DEF Occupants
    <3>. QED  BY <2>2, <3>1 DEF DropRooms, Headcounts
  <2>. QED  BY <2>1, <2>2
<1>. QED  BY <1>2, <1>3 DEF Headcounts

LEMMA SerialWrites ==
  ASSUME SerialInv, NEW w \in Workers,
         UpdateRoomCommit(w) \/ DeleteRoomCommit(w) \/ DeleteBuildingCommit(w) \/ AssignCommit(w)
         \/ VacateCommit(w) \/ VacateCommitRowOnly(w) \/ AssignSupervisorCommit(w)
  PROVE  RowsInv'
<1>0. UpToDate(req[w]) /\ TypeOK /\ RowsInv /\ req[w] \in Request
  BY DEF SerialInv, CounterInv, TypeOK
<1>1. CASE UpdateRoomCommit(w)
  BY <1>0, <1>1 DEF UpdateRoomCommit, RowsInv, KeysInv, Headcounts, Occupants
<1>2. CASE DeleteRoomCommit(w)
  <2>1. {req[w].room} \in SUBSET Rooms
    BY <1>0, <1>2, RequestShape DEF DeleteRoomCommit
  <2>. QED  BY <1>0, <1>2, <2>1, DropKeepsRows DEF DeleteRoomCommit, RowsInv
<1>3. CASE DeleteBuildingCommit(w)
  <2>1. RoomsIn(req[w].building) \in SUBSET Rooms
    BY DEF RoomsIn
  <2>. QED  BY <1>0, <1>3, <2>1, DropKeepsRows DEF DeleteBuildingCommit, RowsInv
<1>4. CASE AssignCommit(w)
  BY <1>4, AssignKeepsRows
<1>5. CASE VacateCommit(w)
  BY <1>5, VacateKeepsRows
<1>6. CASE VacateCommitRowOnly(w)
  BY <1>0, <1>6 DEF VacateCommitRowOnly, UpToDate
<1>7. CASE AssignSupervisorCommit(w)
  BY <1>0, <1>7 DEF AssignSupervisorCommit, RowsInv, KeysInv, Headcounts, Occupants, roomVars
<1>. QED  BY <1>1, <1>2, <1>3, <1>4, <1>5, <1>6, <1>7

LEMMA InitSerial == Init => SerialInv
<1>. SUFFICES ASSUME Init PROVE SerialInv
  OBVIOUS
<1>1. OneActiveAssignment /\ ReferencesHold
  BY DEF Init, OneActiveAssignment, ReferencesHold
<1>2. KeysInv
  BY FS_EmptySet DEF Init, KeysInv
<1>3. Headcounts
  <2>1. \A r \in Rooms : Occupants(r) = {} /\ current_occupancy[r] = 0
    BY DEF Init, Occupants
  <2>. QED  BY <2>1, FS_EmptySet DEF Headcounts
<1>5. \A w \in Workers : UpToDate(req[w])
  BY DEF Init, UpToDate, Idle
<1>. QED  BY <1>1, <1>2, <1>3, <1>5, InitCounterInv DEF SerialInv, RowsInv

LEMMA NextSerial == Alone /\ SerialInv /\ [Next]_vars => SerialInv'
<1>. SUFFICES ASSUME Alone, SerialInv, [Next]_vars PROVE SerialInv'
  OBVIOUS
<1>0. CounterInv' /\ OneActiveAssignment' /\ ReferencesHold' /\ TypeOK
  BY NextCounterInv, NextOneActive, NextReferences DEF SerialInv, CounterInv
<1>. SUFFICES RowsInv' /\ \A v \in Workers : UpToDate(req[v])'
  BY <1>0 DEF SerialInv
<1>1. ASSUME NEW w \in Workers,
             UpdateRoomCommit(w) \/ DeleteRoomCommit(w) \/ DeleteBuildingCommit(w)
             \/ AssignCommit(w) \/ VacateCommit(w) \/ VacateCommitRowOnly(w)
             \/ AssignSupervisorCommit(w)
      PROVE  RowsInv' /\ \A v \in Workers : UpToDate(req[v])'
  <2>1. Finish(w)
    BY <1>1 DEF UpdateRoomCommit, DeleteRoomCommit, DeleteBuildingCommit, AssignCommit,
                VacateCommit, VacateCommitRowOnly, AssignSupervisorCommit
  <2>. QED  BY <1>0, <1>1, <2>1, SerialWrites, AloneFinishes
\* The rows that no request reads before it inserts them.
<1>2. ASSUME NEW w \in Workers,
             (\E b \in Buildings : CreateBuilding(w, b)) \/ (\E r \in Rooms : CreateRoom(w, r))
      PROVE  RowsInv' /\ \A v \in Workers : UpToDate(req[v])'
  <2>1. /\ req' = req /\ req[w] = Idle
        /\ UNCHANGED <<current_occupancy, assignments, nextRow, supervisors>>
    BY <1>2 DEF CreateBuilding, CreateRoom, roomVars
  <2>2. \A v \in Workers : req'[v] = [op |-> "idle"]
    BY <2>1 DEF Alone, Idle
  <2>3. \A v \in Workers : UpToDate(req[v])'
    BY <2>2 DEF UpToDate
  <2>. QED  BY <2>1, <2>3 DEF SerialInv, RowsInv, KeysInv, Headcounts, Occupants
<1>3. CASE UNCHANGED vars
  <2>1. RowsInv'
    BY <1>3 DEF vars, roomVars, SerialInv, RowsInv, KeysInv, Headcounts, Occupants
  <2>2. \A v \in Workers : UpToDate(req[v])'
    BY <1>3 DEF SerialInv, vars, roomVars, UpToDate, ActiveOf, ReadRoom, HasBed, Counted,
                RoomIsEmpty, RoomsIn
  <2>. QED  BY <2>1, <2>2
<1>. QED  BY <1>1, <1>2, <1>3, SerialReads DEF Next

\* With requests that do not overlap, the occupancy counter of a room is the
\* number of its active assignments: every assignment counts up and every
\* vacation counts down exactly the counter it read.
THEOREM OccupancyStaysHeadcount ==
  ASSUME Alone
  PROVE  Spec => []OccupancyIsHeadcount
<1>1. SerialInv => OccupancyIsHeadcount
  BY DEF SerialInv, RowsInv, Headcounts, OccupancyIsHeadcount
<1>2. SerialInv /\ [Next]_vars => SerialInv'
  BY NextSerial
<1>. QED  BY <1>1, <1>2, InitSerial, PTL DEF Spec

-----------------------------------------------------------------------------
(* The promise of the dormitory is kept *)

ActiveIn(rows, s) == {a \in rows : a.student = s /\ a.is_active}

HomeIn(rows, s) ==
  IF ActiveIn(rows, s) = {} THEN Nowhere ELSE (CHOOSE a \in ActiveIn(rows, s) : TRUE).room

LEMMA HomeIs ==
  /\ Home = [s \in Students |-> HomeIn(assignments, s)]
  /\ Home' = [s \in Students |-> HomeIn(assignments', s)]
BY DEF Home, HomeIn, ActiveIn, ActiveOf

\* A student lives where the only active row says.
LEMMA HomeOfActive ==
  ASSUME NEW rows, NEW a \in rows, a.is_active,
         \A b \in rows : b.is_active /\ b.student = a.student => a = b
  PROVE  HomeIn(rows, a.student) = a.room
<1>1. ActiveIn(rows, a.student) = {a}
  BY DEF ActiveIn
<1>. QED  BY <1>1 DEF HomeIn

\* The module Residence counts as this one does.
LEMMA SameCount == \A S : Promise!Cardinality(S) = Cardinality(S)
BY DEF Promise!Cardinality, Cardinality

LEMMA ResidentsOccupy ==
  ASSUME TypeOK, IsFiniteSet(assignments), NEW r \in Rooms
  PROVE  /\ IsFiniteSet(Occupants(r)) /\ IsFiniteSet(Promise!Residents(r))
         /\ Cardinality(Promise!Residents(r)) <= Cardinality(Occupants(r))
<1>. DEFINE residents == Promise!Residents(r)
            row(s) == CHOOSE a \in ActiveOf(s) : TRUE
            rowOf == [s \in residents |-> row(s)]
<1>1. IsFiniteSet(Occupants(r))
  <2>1. Occupants(r) \in SUBSET assignments
    BY DEF Occupants
  <2>. QED  BY <2>1, FS_Subset
<1>2. ASSUME NEW s \in residents
      PROVE  row(s) \in Occupants(r) /\ row(s).student = s
  <2>1. s \in Students /\ Home[s] = r
    BY DEF Promise!Residents
  <2>2. ActiveOf(s) # {} /\ row(s).room = r
    BY <2>1, NowhereAssumption DEF Home
  <2>3. row(s) \in ActiveOf(s)
    BY <2>2
  <2>. HIDE DEF row
  <2>. QED  BY <2>2, <2>3 DEF ActiveOf, Occupants
<1>. HIDE DEF residents, row
<1>3. rowOf \in Injection(residents, Occupants(r))
  BY <1>2 DEF Injection, IsInjective
<1>4. IsFiniteSet(residents) /\ Cardinality(residents) <= Cardinality(Occupants(r))
  BY <1>1, <1>3, FS_Injection
<1>. QED  BY <1>1, <1>4 DEF residents

LEMMA AssignPromised ==
  ASSUME SerialInv, NEW w \in Workers, AssignCommit(w)
  PROVE  \E s \in Students, r \in Rooms : Promise!MoveIn(s, r)
<1>. DEFINE s == req[w].student
            r == req[w].room
            row == [id |-> nextRow, student |-> s, room |-> r, is_active |-> TRUE]
<1>0. TypeOK /\ IsFiniteSet(assignments) /\ current_occupancy[r] = Cardinality(Occupants(r))
  BY AssignAlone DEF SerialInv, CounterInv, RowsInv, KeysInv, Headcounts
<1>1. /\ r \in Rooms /\ s \in Students /\ roomIs[r] = "live" /\ HasBed(r) /\ ActiveOf(s) = {}
      /\ assignments' = assignments \cup {row}
      /\ roomIs' = roomIs /\ capacity' = capacity
  BY AssignAlone
<1>2. row.student = s /\ row.room = r /\ row.is_active
  OBVIOUS
<1>. HIDE DEF s, r, row
<1>3. Home[s] = Nowhere
  BY <1>1 DEF Home
<1>4. Home' = [Home EXCEPT ![s] = r]
  <2>1. HomeIn(assignments', s) = r
    <3>1. \A b \in assignments' : b.is_active /\ b.student = s => row = b
      BY <1>1 DEF ActiveOf
    <3>. QED  BY <1>1, <1>2, <3>1, HomeOfActive
  <2>2. ASSUME NEW t \in Students \ {s}
        PROVE  HomeIn(assignments', t) = HomeIn(assignments, t)
    <3>1. ActiveIn(assignments', t) = ActiveIn(assignments, t)
      BY <1>1, <1>2 DEF ActiveIn
    <3>. QED  BY <3>1 DEF HomeIn
  <2>. QED  BY <1>1, <2>1, <2>2, HomeIs
<1>5. Cardinality(Promise!Residents(r)) < capacity[r]
  <2>1. capacity[r] \in Nat /\ current_occupancy[r] < capacity[r]
    BY <1>0, <1>1, CapacitiesAssumption DEF TypeOK, HasBed
  <2>2. /\ Cardinality(Promise!Residents(r)) <= Cardinality(Occupants(r))
        /\ Cardinality(Promise!Residents(r)) \in Nat /\ Cardinality(Occupants(r)) \in Nat
    BY <1>0, <1>1, ResidentsOccupy, FS_CardinalityType
  <2>. QED  BY <1>0, <2>1, <2>2
<1>. QED  BY <1>1, <1>3, <1>4, <1>5, SameCount DEF Promise!MoveIn

LEMMA VacatePromised ==
  ASSUME SerialInv, NEW w \in Workers, VacateCommit(w)
  PROVE  \E s \in Students : Promise!MoveOut(s)
<1>. DEFINE row == req[w].row
            s == row.student
<1>1. /\ row \in assignments /\ row \in Assignment /\ row.is_active /\ row.room \in Rooms
      /\ assignments' = (assignments \ {row}) \cup {Vacated(row)}
      /\ roomIs' = roomIs /\ capacity' = capacity
  BY VacateAlone
<1>2. Vacated(row).student = s /\ Vacated(row).is_active = FALSE /\ s \in Students
  BY <1>1 DEF Vacated, Assignment
<1>. HIDE DEF row
<1>3. \A b \in assignments : b.is_active /\ b.student = s => row = b
  BY <1>1 DEF SerialInv, OneActiveAssignment
<1>4. Home[s] # Nowhere
  BY <1>1, <1>2, <1>3, HomeOfActive, HomeIs, NowhereAssumption
<1>5. Home' = [Home EXCEPT ![s] = Nowhere]
  <2>1. HomeIn(assignments', s) = Nowhere
    <3>1. ActiveIn(assignments', s) = {}
      BY <1>1, <1>2, <1>3 DEF ActiveIn
    <3>. QED  BY <3>1 DEF HomeIn
  <2>2. ASSUME NEW t \in Students \ {s}
        PROVE  HomeIn(assignments', t) = HomeIn(assignments, t)
    <3>1. ActiveIn(assignments', t) = ActiveIn(assignments, t)
      BY <1>1, <1>2 DEF ActiveIn
    <3>. QED  BY <3>1 DEF HomeIn
  <2>. QED  BY <1>2, <2>1, <2>2, HomeIs
<1>. QED  BY <1>1, <1>2, <1>4, <1>5 DEF Promise!MoveOut

\* Nobody lives in a room that is deleted: its counter was at zero.
LEMMA DeletePromised ==
  ASSUME SerialInv, NEW w \in Workers, DeleteRoomCommit(w)
  PROVE  \E r \in Rooms : Promise!Close(r)
<1>. DEFINE r == req[w].room
            live == {x \in Rooms : roomIs[x] = "live"}
<1>0. TypeOK /\ UpToDate(req[w]) /\ req[w] \in Request /\ KeysInv /\ Headcounts
  BY DEF SerialInv, CounterInv, TypeOK, RowsInv
<1>1. r \in Rooms /\ roomIs[r] = "live" /\ current_occupancy[r] = 0
  BY <1>0, RequestShape DEF DeleteRoomCommit, UpToDate, RoomIsEmpty
<1>2. /\ assignments' = {a \in assignments : a.room # r}
      /\ roomIs' = [x \in Rooms |-> IF x = r THEN "deleted" ELSE roomIs[x]]
      /\ capacity' = capacity
  BY DEF DeleteRoomCommit, DropRooms, Survivors
<1>. HIDE DEF r
<1>3. Occupants(r) = {} /\ Promise!Residents(r) = {}
  <2>1. Cardinality(Occupants(r)) = 0
    BY <1>0, <1>1 DEF Headcounts
  <2>2. /\ IsFiniteSet(Occupants(r)) /\ IsFiniteSet(Promise!Residents(r))
        /\ Cardinality(Promise!Residents(r)) <= Cardinality(Occupants(r))
    BY <1>0, <1>1, ResidentsOccupy DEF KeysInv
  <2>3. Cardinality(Promise!Residents(r)) = 0
    BY <2>1, <2>2, FS_CardinalityType
  <2>. QED  BY <2>1, <2>2, <2>3, FS_EmptySet
<1>4. Home' = Home
  <2>1. ASSUME NEW s \in Students
        PROVE  HomeIn(assignments', s) = HomeIn(assignments, s)
    <3>1. ActiveIn(assignments', s) = ActiveIn(assignments, s)
      BY <1>2, <1>3 DEF ActiveIn, Occupants
    <3>. QED  BY <3>1 DEF HomeIn
  <2>. QED  BY <2>1, HomeIs
<1>5. {x \in Rooms : roomIs'[x] = "live"} = live \ {r}
  BY <1>1, <1>2
<1>. QED  BY <1>1, <1>2, <1>3, <1>4, <1>5 DEF Promise!Close

LEMMA RoomsPromised ==
  ASSUME TypeOK, NEW w \in Workers,
         UpdateRoomCommit(w) \/ (\E r \in Rooms : CreateRoom(w, r))
  PROVE  \E r \in Rooms : Promise!Open(r) \/ \E c \in Capacities : Promise!Resize(r, c)
<1>. DEFINE live == {x \in Rooms : roomIs[x] = "live"}
<1>1. CASE UpdateRoomCommit(w)
  <2>. DEFINE r == req[w].room
  <2>1. r \in Rooms /\ roomIs[r] = "live" /\ req[w].seen \in Seen
    BY <1>1, RequestShape DEF TypeOK, UpdateRoomCommit
  <2>2. PICK c \in Capacities :
          capacity' = [capacity EXCEPT ![r] = Write(req[w].seen.capacity, c, capacity[r])]
    BY <1>1 DEF UpdateRoomCommit
  <2>3. Write(req[w].seen.capacity, c, capacity[r]) \in Capacities
    BY <2>1 DEF TypeOK, Write
  <2>4. Home' = Home /\ roomIs' = roomIs
    BY <1>1, HomeIs DEF UpdateRoomCommit
  <2>. QED  BY <2>1, <2>2, <2>3, <2>4 DEF Promise!Resize
<1>2. ASSUME NEW r \in Rooms, CreateRoom(w, r)
      PROVE  Promise!Open(r)
  <2>1. r \notin live /\ capacity' = capacity
    BY <1>2 DEF CreateRoom
  <2>2. Home' = Home
    BY <1>2, HomeIs DEF CreateRoom
  <2>3. {x \in Rooms : roomIs'[x] = "live"} = live \cup {r}
    BY <1>2 DEF CreateRoom, TypeOK
  <2>. QED  BY <2>1, <2>2, <2>3 DEF Promise!Open
<1>. QED  BY <1>1, <1>2

LEMMA InitPromised == Init => Promise!Init
<1>. SUFFICES ASSUME Init PROVE Promise!Init
  OBVIOUS
<1>1. Home = [s \in Students |-> Nowhere]
  BY DEF Init, Home, ActiveOf
<1>2. {r \in Rooms : roomIs[r] = "live"} = {}
  BY DEF Init
<1>. QED  BY <1>1, <1>2 DEF Init, Promise!Init

LEMMA NextPromised == Alone /\ SerialInv /\ [Next]_vars => [Promise!Next]_(Promise!vars)
<1>. DEFINE Goal == Promise!Next \/ UNCHANGED <<Home, {r \in Rooms : roomIs[r] = "live"}, capacity>>
<1>. SUFFICES ASSUME Alone, SerialInv, [Next]_vars
              PROVE  Goal
  BY DEF Promise!vars
<1>0. TypeOK
  BY DEF SerialInv, CounterInv
<1>1. ASSUME UNCHANGED <<roomIs, capacity, assignments>>
      PROVE  Goal
  BY <1>1, HomeIs
<1>2. ASSUME NEW w \in Workers,
             AssignCommit(w) \/ VacateCommit(w) \/ DeleteRoomCommit(w) \/ UpdateRoomCommit(w)
             \/ (\E r \in Rooms : CreateRoom(w, r))
      PROVE  Promise!Next
  BY <1>0, <1>2, AssignPromised, VacatePromised, DeletePromised, RoomsPromised DEF Promise!Next
<1>3. ASSUME NEW w \in Workers, DeleteBuildingCommit(w)
      PROVE  UNCHANGED <<roomIs, capacity, assignments>>
  <2>1. RoomsIn(req[w].building) = {}
    BY <1>3 DEF SerialInv, UpToDate, DeleteBuildingCommit
  <2>2. DropRooms({})
    BY <1>3, <2>1 DEF DeleteBuildingCommit
  <2>. QED  BY <1>0, <2>2 DEF DropRooms, Survivors, TypeOK
<1>4. ASSUME NEW w \in Workers, VacateCommitRowOnly(w)
      PROVE  FALSE
  BY <1>4 DEF VacateCommitRowOnly, SerialInv, UpToDate
<1>5. ASSUME NEW w \in Workers,
             AssignSupervisorCommit(w) \/ (\E b \in Buildings : CreateBuilding(w, b))
      PROVE  UNCHANGED <<roomIs, capacity, assignments>>
  BY <1>5 DEF AssignSupervisorCommit, CreateBuilding, roomVars
<1>6. UNCHANGED tables \/ UNCHANGED vars => UNCHANGED <<roomIs, capacity, assignments>>
  BY DEF tables, vars, roomVars
<1>. HIDE DEF Goal
<1>7. Promise!Next => Goal
  BY DEF Goal
<1>. QED  BY <1>1, <1>2, <1>3, <1>4, <1>5, <1>6, <1>7, SerialReads DEF Next

\* Requests that do not overlap implement Residence: nobody moves into a full
\* room and no room is closed over its residents, although the handlers only
\* look at the counter.
THEOREM KeepsResidencePromise ==
  ASSUME Alone
  PROVE  Spec => ImplementsResidence
<1>1. SerialInv /\ [Next]_vars => SerialInv'
  BY NextSerial
<1>2. SerialInv /\ [Next]_vars => [Promise!Next]_(Promise!vars)
  BY NextPromised
<1>. QED  BY <1>1, <1>2, InitSerial, InitPromised, PTL DEF Spec, ImplementsResidence, Promise!Spec
=============================================================================
