------------------------- MODULE NotificationsProofs -------------------------
(***************************************************************************)
(* Proofs about Notifications, for any finite number of workers, any set   *)
(* of notifications and any bound on redeliveries.                         *)
(***************************************************************************)
EXTENDS Notifications, FiniteSetTheorems, TLAPS

-----------------------------------------------------------------------------
(* Types *)

LEMMA MessageType ==
  ASSUME NEW n \in Notifications
  PROVE  Bulk(n) \in Message /\ Deliver(n) \in Message /\ Bulk(n) # Deliver(n)
  BY DEF Bulk, Deliver, Message

\* A worker that is not idle has a message and is at a step.
LEMMA BusyShape ==
  ASSUME TypeOK, NEW w \in Workers, ~At(w, "idle")
  PROVE  /\ worker[w] \in Busy
         /\ worker[w].message \in Message
         /\ worker[w].message.id \in Notifications
         /\ worker[w].message.task \in {"bulk", "deliver"}
         /\ worker[w].step \in Steps
<1>1. worker[w] \in {Idle} \cup Busy
  BY DEF TypeOK
<1>2. worker[w] # Idle
  BY DEF At, Idle
<1>3. worker[w] \in Busy
  BY <1>1, <1>2
<1>. QED  BY <1>3 DEF Busy, Message

LEMMA GotoType ==
  ASSUME TypeOK, NEW w \in Workers, ~At(w, "idle"), NEW step \in Steps, Goto(w, step)
  PROVE  /\ worker' \in [Workers -> {Idle} \cup Busy]
         /\ worker'[w].step = step /\ worker'[w].message = worker[w].message
         /\ \A v \in Workers \ {w} : worker'[v] = worker[v]
<1>1. worker[w] \in Busy
  BY BusyShape
<1>2. worker' = [worker EXCEPT ![w] = [worker[w] EXCEPT !.step = step]]
  BY DEF Goto
<1>3. [worker[w] EXCEPT !.step = step] \in Busy
  BY <1>1 DEF Busy
<1>. QED  BY <1>1, <1>2, <1>3 DEF TypeOK, Busy

LEMMA RestType ==
  ASSUME TypeOK, NEW w \in Workers, worker' = [worker EXCEPT ![w] = Idle]
  PROVE  /\ worker' \in [Workers -> {Idle} \cup Busy]
         /\ worker'[w] = Idle
         /\ \A v \in Workers \ {w} : worker'[v] = worker[v]
  BY DEF TypeOK

\* One copy more, or one less, of a message that waits.
LEMMA QueueMore ==
  ASSUME TypeOK, NEW m \in Message, queue' = [queue EXCEPT ![m] = @ + 1]
  PROVE  /\ queue' \in [Message -> Nat]
         /\ queue'[m] = queue[m] + 1
         /\ \A x \in Message \ {m} : queue'[x] = queue[x]
<1>1. queue \in [Message -> Nat]
  BY DEF TypeOK
<1>. QED  BY <1>1

LEMMA QueueLess ==
  ASSUME TypeOK, NEW m \in Message, queue[m] > 0, queue' = [queue EXCEPT ![m] = @ - 1]
  PROVE  /\ queue' \in [Message -> Nat]
         /\ queue'[m] = queue[m] - 1
         /\ \A x \in Message \ {m} : queue'[x] = queue[x]
<1>1. queue \in [Message -> Nat]
  BY DEF TypeOK
<1>. QED  BY <1>1

LEMMA HandedMore ==
  ASSUME TypeOK, NEW n \in Notifications, handed' = [handed EXCEPT ![n] = @ + 1]
  PROVE  /\ handed' \in [Notifications -> Nat]
         /\ handed'[n] = handed[n] + 1
         /\ \A x \in Notifications \ {n} : handed'[x] = handed[x]
<1>1. handed \in [Notifications -> Nat]
  BY DEF TypeOK
<1>. QED  BY <1>1

LEMMA InitType == Init => TypeOK
  BY RedeliveriesAssumption DEF Init, TypeOK

LEMMA WorkerStepType ==
  ASSUME TypeOK, NEW w \in Workers, WorkerStep(w)
  PROVE  TypeOK'
<1>1. ASSUME NEW m \in Message, Take(w, m) PROVE TypeOK'
  <2>2. queue' \in [Message -> Nat]
    BY <1>1, QueueLess DEF Take
  <2>3. [message |-> m, step |-> FirstStep(m.task)] \in Busy
    BY DEF Busy, FirstStep, Steps
  <2>. QED  BY <1>1, <2>2, <2>3 DEF Take, TypeOK
<1>2. CASE Fetch(w)
  <2>1. ~At(w, "idle") /\ worker[w].message.id \in Notifications
    BY <1>2, BusyShape DEF Fetch, At
  <2>2. worker' \in [Workers -> {Idle} \cup Busy]
    BY <1>2, <2>1, GotoType DEF Fetch, Steps
  <2>. QED  BY <1>2, <2>1, <2>2 DEF Fetch, TypeOK
<1>3. CASE Publish(w)
  <2>1. ~At(w, "idle") /\ worker[w].message.id \in Notifications
    BY <1>3, BusyShape DEF Publish, At
  <2>2. worker' \in [Workers -> {Idle} \cup Busy]
    BY <1>3, <2>1, GotoType DEF Publish, Steps
  <2>3. queue' \in [Message -> Nat]
    BY <1>3, <2>1, MessageType, QueueMore DEF Publish
  <2>. QED  BY <1>3, <2>2, <2>3 DEF Publish, TypeOK
<1>4. CASE HandOver(w)
  <2>1. ~At(w, "idle") /\ worker[w].message.id \in Notifications
    BY <1>4, BusyShape DEF HandOver, At
  <2>2. worker' \in [Workers -> {Idle} \cup Busy]
    BY <1>4, <2>1, GotoType DEF HandOver, Steps
  <2>3. handed' \in [Notifications -> Nat]
    BY <1>4, <2>1, HandedMore DEF HandOver
  <2>. QED  BY <1>4, <2>2, <2>3 DEF HandOver, TypeOK
<1>5. CASE Record(w)
  <2>1. ~At(w, "idle")
    BY <1>5 DEF Record, At
  <2>2. worker' \in [Workers -> {Idle} \cup Busy]
    BY <1>5, <2>1, GotoType DEF Record, Steps
  <2>. QED  BY <1>5, <2>2 DEF Record, TypeOK
<1>6. CASE Acknowledge(w)
  BY <1>6 DEF Acknowledge, TypeOK
<1>. QED  BY <1>1, <1>2, <1>3, <1>4, <1>5, <1>6 DEF WorkerStep

LEMMA FaultType ==
  ASSUME TypeOK, NEW w \in Workers, Fault(w)
  PROVE  TypeOK'
<1>1. CASE StepFails(w)
  <2>1. ~At(w, "idle") /\ worker[w].message.id \in Notifications
    BY <1>1, BusyShape DEF StepFails, At
  <2>2. worker' \in [Workers -> {Idle} \cup Busy]
    BY <1>1, <2>1, GotoType DEF StepFails, AfterFailure, Steps
  <2>. QED  BY <1>1, <2>1, <2>2 DEF StepFails, TypeOK
<1>2. CASE WorkerLost(w)
  <2>1. worker[w].message \in Message
    BY <1>2, BusyShape DEF WorkerLost
  <2>2. queue' \in [Message -> Nat]
    BY <1>2, <2>1, QueueMore DEF WorkerLost, GivenBack
  <2>3. redeliveries' \in 0..MaxRedeliveries
    <3>1. redeliveries \in 0..MaxRedeliveries
      BY DEF TypeOK
    <3>. QED  BY <1>2, <3>1, RedeliveriesAssumption DEF WorkerLost
  <2>. QED  BY <1>2, <2>2, <2>3 DEF WorkerLost, TypeOK
<1>3. CASE ChildLost(w)
  <2>1. worker[w].message.id \in Notifications
    BY <1>3, BusyShape DEF ChildLost
  <2>. QED  BY <1>3, <2>1 DEF ChildLost, TypeOK
<1>. QED  BY <1>1, <1>2, <1>3 DEF Fault

LEMMA NextType == TypeOK /\ [Next]_vars => TypeOK'
<1>. SUFFICES ASSUME TypeOK, [Next]_vars PROVE TypeOK'
  OBVIOUS
<1>1. ASSUME NEW n \in Notifications, RequestStep(n) PROVE TypeOK'
  <2>1. CASE Send(n)
    <3>1. queue' \in [Message -> Nat]
      BY <2>1, MessageType, QueueMore DEF Send
    <3>. QED  BY <2>1, <3>1 DEF Send, TypeOK
  <2>2. CASE Commit(n)
    BY <2>2 DEF Commit, TypeOK
  <2>3. CASE RollBack(n)
    BY <2>3 DEF RollBack, TypeOK
  <2>. QED  BY <1>1, <2>1, <2>2, <2>3 DEF RequestStep
<1>2. CASE UNCHANGED vars
  BY <1>2 DEF vars, TypeOK
<1>. QED  BY <1>1, <1>2, WorkerStepType, FaultType DEF Next

\* However workers die and requests race, rows, queues and workers keep their
\* types.
THEOREM TypeCorrect == Spec => []TypeOK
BY InitType, NextType, PTL DEF Spec

-----------------------------------------------------------------------------
(* What the log says *)

\* A row exists because its request was committed.
RowsAreCommitted == \A n \in Notifications : status[n] # "none" => request[n] = "committed"

Sound == TypeOK /\ RowsAreCommitted /\ SentWasHandedOver

LEMMA InitSound == Init => Sound
<1>. SUFFICES ASSUME Init PROVE Sound
  OBVIOUS
<1>1. TypeOK
  BY InitType
<1>. QED  BY <1>1 DEF Init, Sound, RowsAreCommitted, SentWasHandedOver, At, Idle

\* What one step of a worker leaves true of the log, when no row appears, none
\* becomes sent without a hand-over, and no task comes to "record" without one.
LEMMA StaysSound ==
  ASSUME Sound, TypeOK', request' = request,
         \A n \in Notifications : handed'[n] >= handed[n],
         \A n \in Notifications : status'[n] # status[n] => status[n] # "none" /\ handed[n] > 0,
         \A w \in Workers : At(w, "record")' =>
           \/ At(w, "record") /\ worker'[w] = worker[w]
           \/ handed'[worker'[w].message.id] > 0
  PROVE  Sound'
<1>1. /\ handed \in [Notifications -> Nat] /\ handed' \in [Notifications -> Nat]
  BY DEF Sound, TypeOK
<1>2. RowsAreCommitted'
  BY DEF Sound, RowsAreCommitted
<1>3. \A n \in Notifications : handed[n] > 0 => handed'[n] > 0
  <2>1. ASSUME NEW n \in Notifications, handed[n] > 0 PROVE handed'[n] > 0
    <3>1. handed[n] \in Nat /\ handed'[n] \in Nat /\ handed'[n] >= handed[n]
      BY <1>1
    <3>. QED  BY <2>1, <3>1
  <2>. QED  BY <2>1
<1>4. ASSUME NEW n \in Notifications, status'[n] = "sent"
      PROVE  handed'[n] > 0 /\ request'[n] = "committed"
  <2>1. handed[n] > 0
    BY <1>4 DEF Sound, SentWasHandedOver
  <2>2. request'[n] = "committed"
    BY <1>2, <1>4 DEF RowsAreCommitted
  <2>. QED  BY <1>3, <2>1, <2>2
<1>5. ASSUME NEW w \in Workers, At(w, "record")'
      PROVE  handed'[worker'[w].message.id] > 0
  <2>1. CASE At(w, "record") /\ worker'[w] = worker[w]
    <3>1. handed[worker[w].message.id] > 0
      BY <2>1 DEF Sound, SentWasHandedOver
    <3>2. worker[w].message.id \in Notifications
      BY <2>1, BusyShape DEF At, Sound
    <3>. QED  BY <1>3, <2>1, <3>1, <3>2
  <2>. QED  BY <1>5, <2>1
<1>. QED  BY <1>2, <1>4, <1>5 DEF Sound, SentWasHandedOver

\* A worker that comes to a step other than "record", or to "idle".
LEMMA WorkerMoved ==
  ASSUME Sound, NEW w \in Workers,
         \A v \in Workers \ {w} : worker'[v] = worker[v],
         ~At(w, "record")'
  PROVE  \A v \in Workers : At(v, "record")' => At(v, "record") /\ worker'[v] = worker[v]
BY DEF At

LEMMA WorkerStepSound ==
  ASSUME Sound, NEW w \in Workers, WorkerStep(w)
  PROVE  Sound'
<1>. USE DEF Sound
<1>0. TypeOK' /\ handed \in [Notifications -> Nat]
  BY WorkerStepType DEF TypeOK
<1>1. ASSUME NEW m \in Message, Take(w, m) PROVE Sound'
  <2>1. \A v \in Workers \ {w} : worker'[v] = worker[v]
    BY <1>1 DEF Take, TypeOK
  <2>2. worker'[w].step = FirstStep(m.task)
    BY <1>1 DEF Take, TypeOK
  <2>3. ~At(w, "record")'
    BY <2>2 DEF At, FirstStep
  <2>. QED  BY <1>0, <1>1, <2>1, <2>3, WorkerMoved, StaysSound DEF Take
<1>2. CASE Fetch(w)
  <2>1. ~At(w, "idle")
    BY <1>2 DEF Fetch, At
  <2>2. PICK step \in {"acknowledge", "publish"} : Goto(w, step)
    BY <1>2 DEF Fetch
  <2>3. ~At(w, "record")' /\ \A v \in Workers \ {w} : worker'[v] = worker[v]
    BY <2>1, <2>2, GotoType DEF At, Steps
  <2>. QED  BY <1>0, <1>2, <2>3, WorkerMoved, StaysSound DEF Fetch
<1>3. CASE Publish(w)
  <2>1. ~At(w, "idle")
    BY <1>3 DEF Publish, At
  <2>3. ~At(w, "record")' /\ \A v \in Workers \ {w} : worker'[v] = worker[v]
    BY <1>3, <2>1, GotoType DEF Publish, At, Steps
  <2>. QED  BY <1>0, <1>3, <2>3, WorkerMoved, StaysSound DEF Publish
<1>4. CASE HandOver(w)
  <2>1. ~At(w, "idle") /\ worker[w].message.id \in Notifications
    BY <1>4, BusyShape DEF HandOver, At
  <2>2. /\ worker'[w].message = worker[w].message
        /\ \A v \in Workers \ {w} : worker'[v] = worker[v]
    BY <1>4, <2>1, GotoType DEF HandOver, Steps
  <2>3. /\ handed'[worker[w].message.id] = handed[worker[w].message.id] + 1
        /\ \A n \in Notifications \ {worker[w].message.id} : handed'[n] = handed[n]
    BY <1>4, <2>1, HandedMore DEF HandOver
  <2>4. handed'[worker'[w].message.id] > 0 /\ \A n \in Notifications : handed'[n] >= handed[n]
    BY <1>0, <2>1, <2>2, <2>3
  <2>5. \A v \in Workers : At(v, "record")' =>
           \/ At(v, "record") /\ worker'[v] = worker[v]
           \/ handed'[worker'[v].message.id] > 0
    BY <2>2, <2>4 DEF At
  <2>. QED  BY <1>0, <1>4, <2>4, <2>5, StaysSound DEF HandOver
<1>5. CASE Record(w)
  <2>1. ~At(w, "idle") /\ At(w, "record")
    BY <1>5 DEF Record, At
  <2>2. ~At(w, "record")' /\ \A v \in Workers \ {w} : worker'[v] = worker[v]
    BY <1>5, <2>1, GotoType DEF Record, At, Steps
  <2>3. worker[w].message.id \in Notifications /\ handed[worker[w].message.id] > 0
    BY <2>1, BusyShape DEF SentWasHandedOver
  <2>4. \A n \in Notifications : status'[n] # status[n] => status[n] # "none" /\ handed[n] > 0
    BY <1>5, <2>3 DEF Record, TypeOK
  <2>. QED  BY <1>0, <1>5, <2>2, <2>4, WorkerMoved, StaysSound DEF Record
<1>6. CASE Acknowledge(w)
  <2>1. ~At(w, "record")' /\ \A v \in Workers \ {w} : worker'[v] = worker[v]
    BY <1>6, RestType DEF Acknowledge, At, Idle
  <2>. QED  BY <1>0, <1>6, <2>1, WorkerMoved, StaysSound DEF Acknowledge
<1>. QED  BY <1>1, <1>2, <1>3, <1>4, <1>5, <1>6 DEF WorkerStep

LEMMA FaultSound ==
  ASSUME Sound, NEW w \in Workers, Fault(w)
  PROVE  Sound'
<1>. USE DEF Sound
<1>0. TypeOK' /\ handed \in [Notifications -> Nat]
  BY FaultType DEF TypeOK
<1>1. CASE StepFails(w)
  <2>1. ~At(w, "idle")
    BY <1>1 DEF StepFails, At
  <2>2. ~At(w, "record")' /\ \A v \in Workers \ {w} : worker'[v] = worker[v]
    BY <1>1, <2>1, GotoType DEF StepFails, AfterFailure, At, Steps
  <2>. QED  BY <1>0, <1>1, <2>2, WorkerMoved, StaysSound DEF StepFails
<1>2. CASE WorkerLost(w)
  <2>1. ~At(w, "record")' /\ \A v \in Workers \ {w} : worker'[v] = worker[v]
    BY <1>2, RestType DEF WorkerLost, At, Idle
  <2>. QED  BY <1>0, <1>2, <2>1, WorkerMoved, StaysSound DEF WorkerLost
<1>3. CASE ChildLost(w)
  <2>1. ~At(w, "record")' /\ \A v \in Workers \ {w} : worker'[v] = worker[v]
    BY <1>3, RestType DEF ChildLost, At, Idle
  <2>. QED  BY <1>0, <1>3, <2>1, WorkerMoved, StaysSound DEF ChildLost
<1>. QED  BY <1>1, <1>2, <1>3 DEF Fault

LEMMA NextSound == Sound /\ [Next]_vars => Sound'
<1>. SUFFICES ASSUME Sound, [Next]_vars PROVE Sound'
  OBVIOUS
<1>0. TypeOK' /\ TypeOK
  BY NextType DEF Sound
<1>1. ASSUME NEW n \in Notifications, RequestStep(n) PROVE Sound'
  <2>1. CASE Send(n)
    BY <1>0, <2>1 DEF Send, Sound, RowsAreCommitted, SentWasHandedOver, At, TypeOK
  <2>2. CASE Commit(n)
    BY <1>0, <2>2 DEF Commit, Sound, RowsAreCommitted, SentWasHandedOver, At, TypeOK
  <2>3. CASE RollBack(n)
    BY <1>0, <2>3 DEF RollBack, Sound, RowsAreCommitted, SentWasHandedOver, At, TypeOK
  <2>. QED  BY <1>1, <2>1, <2>2, <2>3 DEF RequestStep
<1>2. CASE UNCHANGED vars
  BY <1>0, <1>2 DEF vars, Sound, RowsAreCommitted, SentWasHandedOver, At
<1>. QED  BY <1>1, <1>2, WorkerStepSound, FaultSound DEF Next

\* A log row says sent only of what was handed to the provider, in whatever
\* order the tasks, their deaths and the request's commit come.
THEOREM SentWasHandedOverHolds == Spec => []SentWasHandedOver
<1>1. Sound => SentWasHandedOver
  BY DEF Sound
<1>. QED  BY <1>1, InitSound, NextSound, PTL DEF Spec

-----------------------------------------------------------------------------
(* How often a notification is handed over *)

\* The worker has a message that can still lead to a hand-over.
Holds(w, n) ==
  /\ worker[w].step \in {"fetch", "publish", "hand over"}
  /\ worker[w].message.id = n

Holders(n) == {w \in Workers : Holds(w, n)}
Asked(n) == IF request[n] = "new" THEN 1 ELSE 0
Waiting(n) == queue[Bulk(n)] + queue[Deliver(n)]

\* What was handed over and what still can be never grows but by a redelivery.
Weighed ==
  \A n \in Notifications :
    handed[n] + Waiting(n) + Cardinality(Holders(n)) + Asked(n) <= 1 + redeliveries

Bounded == TypeOK /\ Weighed

LEMMA CountTypes ==
  ASSUME TypeOK, NEW n \in Notifications
  PROVE  /\ handed[n] \in Nat /\ queue[Bulk(n)] \in Nat /\ queue[Deliver(n)] \in Nat
         /\ Waiting(n) \in Nat /\ Asked(n) \in 0..1 /\ redeliveries \in Nat
         /\ IsFiniteSet(Holders(n)) /\ Cardinality(Holders(n)) \in Nat
<1>1. queue[Bulk(n)] \in Nat /\ queue[Deliver(n)] \in Nat
  BY MessageType DEF TypeOK
<1>2. redeliveries \in Nat
  <2>1. redeliveries \in 0..MaxRedeliveries
    BY DEF TypeOK
  <2>. QED  BY <2>1, RedeliveriesAssumption
<1>3. IsFiniteSet(Holders(n))
  BY WorkersAssumption, FS_Subset DEF Holders
<1>4. Cardinality(Holders(n)) \in Nat
  BY <1>3, FS_CardinalityType
<1>5. handed[n] \in Nat
  BY DEF TypeOK
<1>. QED  BY <1>1, <1>2, <1>3, <1>4, <1>5 DEF Asked, Waiting

\* One worker moves: the count follows whether it held a message of n before
\* and whether it holds one now.
LEMMA HoldersAfter ==
  ASSUME TypeOK, NEW w \in Workers, NEW n \in Notifications,
         \A v \in Workers \ {w} : worker'[v] = worker[v]
  PROVE  /\ Holds(w, n) /\ ~Holds(w, n)' =>
              Cardinality(Holders(n)') = Cardinality(Holders(n)) - 1
         /\ ~Holds(w, n) /\ Holds(w, n)' =>
              Cardinality(Holders(n)') = Cardinality(Holders(n)) + 1
         /\ (Holds(w, n) <=> Holds(w, n)') =>
              Cardinality(Holders(n)') = Cardinality(Holders(n))
<1>1. IsFiniteSet(Holders(n))
  BY CountTypes
<1>2. \A v \in Workers \ {w} : Holds(v, n)' <=> Holds(v, n)
  BY DEF Holds
<1>3. ASSUME Holds(w, n), ~Holds(w, n)'
      PROVE  Cardinality(Holders(n)') = Cardinality(Holders(n)) - 1
  <2>1. Holders(n)' = Holders(n) \ {w} /\ w \in Holders(n)
    BY <1>2, <1>3 DEF Holders
  <2>. QED  BY <1>1, <2>1, FS_RemoveElement
<1>4. ASSUME ~Holds(w, n), Holds(w, n)'
      PROVE  Cardinality(Holders(n)') = Cardinality(Holders(n)) + 1
  <2>1. Holders(n)' = Holders(n) \cup {w} /\ w \notin Holders(n)
    BY <1>2, <1>4 DEF Holders
  <2>. QED  BY <1>1, <2>1, FS_AddElement
<1>5. ASSUME Holds(w, n) <=> Holds(w, n)'
      PROVE  Cardinality(Holders(n)') = Cardinality(Holders(n))
  <2>1. Holders(n)' = Holders(n)
    BY <1>2, <1>5 DEF Holders
  <2>. QED  BY <2>1
<1>. QED  BY <1>3, <1>4, <1>5

LEMMA HoldersNoMore ==
  ASSUME TypeOK, NEW w \in Workers, NEW n \in Notifications,
         \A v \in Workers \ {w} : worker'[v] = worker[v],
         Holds(w, n)' => Holds(w, n)
  PROVE  /\ Cardinality(Holders(n)') \in Nat
         /\ Cardinality(Holders(n)') <= Cardinality(Holders(n))
<1>1. \A v \in Workers \ {w} : Holds(v, n)' <=> Holds(v, n)
  BY DEF Holds
<1>2. Holders(n)' \subseteq Holders(n)
  BY <1>1 DEF Holders
<1>3. IsFiniteSet(Holders(n))
  BY CountTypes
<1>. QED  BY <1>2, <1>3, FS_Subset, FS_CardinalityType

\* A step that hands nothing over and puts nothing into the queue.
LEMMA LighterIsBounded ==
  ASSUME Bounded, TypeOK', request' = request, handed' = handed, queue' = queue,
         redeliveries' = redeliveries, NEW w \in Workers,
         \A v \in Workers \ {w} : worker'[v] = worker[v],
         \A n \in Notifications : Holds(w, n)' => Holds(w, n)
  PROVE  Bounded'
<1>1. ASSUME NEW n \in Notifications
      PROVE  (handed[n] + Waiting(n) + Cardinality(Holders(n)) + Asked(n) <= 1 + redeliveries)'
  <2>1. /\ Cardinality(Holders(n)') \in Nat
        /\ Cardinality(Holders(n)') <= Cardinality(Holders(n))
    BY HoldersNoMore DEF Bounded
  <2>2. handed[n] + Waiting(n) + Cardinality(Holders(n)) + Asked(n) <= 1 + redeliveries
    BY DEF Bounded, Weighed
  <2>3. Waiting(n)' = Waiting(n) /\ Asked(n)' = Asked(n)
    BY DEF Waiting, Asked
  <2>. HIDE DEF Waiting, Asked, Holders
  <2>. QED  BY <2>1, <2>2, <2>3, CountTypes DEF Bounded
<1>. QED  BY <1>1 DEF Bounded, Weighed

LEMMA MessageIsEither ==
  ASSUME NEW m \in Message
  PROVE  m.id \in Notifications /\ (m = Bulk(m.id) \/ m = Deliver(m.id))
<1>1. PICK task \in {"bulk", "deliver"}, n \in Notifications : m = [task |-> task, id |-> n]
  BY DEF Message
<1>. QED  BY <1>1 DEF Bulk, Deliver

LEMMA WaitingMore ==
  ASSUME TypeOK, NEW m \in Message, queue' = [queue EXCEPT ![m] = @ + 1],
         NEW n \in Notifications
  PROVE  Waiting(n)' = Waiting(n) + (IF n = m.id THEN 1 ELSE 0)
<1>1. queue'[m] = queue[m] + 1 /\ \A x \in Message \ {m} : queue'[x] = queue[x]
  BY QueueMore
<1>2. queue[Bulk(n)] \in Nat /\ queue[Deliver(n)] \in Nat
  BY CountTypes
<1>3. Bulk(n) \in Message /\ Deliver(n) \in Message /\ Bulk(n) # Deliver(n)
  BY MessageType
<1>4. CASE n = m.id
  <2>1. m = Bulk(n) \/ m = Deliver(n)
    BY <1>4, MessageIsEither
  <2>. QED  BY <1>1, <1>2, <1>3, <1>4, <2>1 DEF Waiting
<1>5. CASE n # m.id
  <2>1. m # Bulk(n) /\ m # Deliver(n)
    BY <1>5 DEF Bulk, Deliver
  <2>. QED  BY <1>1, <1>2, <1>3, <1>5, <2>1 DEF Waiting
<1>. QED  BY <1>4, <1>5

LEMMA WaitingLess ==
  ASSUME TypeOK, NEW m \in Message, queue[m] > 0, queue' = [queue EXCEPT ![m] = @ - 1],
         NEW n \in Notifications
  PROVE  Waiting(n)' = Waiting(n) - (IF n = m.id THEN 1 ELSE 0)
<1>1. queue'[m] = queue[m] - 1 /\ \A x \in Message \ {m} : queue'[x] = queue[x]
  BY QueueLess
<1>2. queue[Bulk(n)] \in Nat /\ queue[Deliver(n)] \in Nat
  BY CountTypes
<1>3. Bulk(n) \in Message /\ Deliver(n) \in Message /\ Bulk(n) # Deliver(n)
  BY MessageType
<1>4. CASE n = m.id
  <2>1. m = Bulk(n) \/ m = Deliver(n)
    BY <1>4, MessageIsEither
  <2>. QED  BY <1>1, <1>2, <1>3, <1>4, <2>1 DEF Waiting
<1>5. CASE n # m.id
  <2>1. m # Bulk(n) /\ m # Deliver(n)
    BY <1>5 DEF Bulk, Deliver
  <2>. QED  BY <1>1, <1>2, <1>3, <1>5, <2>1 DEF Waiting
<1>. QED  BY <1>4, <1>5

\* A worker turns the message it holds into one that waits, or one that waits
\* into the message it holds; either way the sum stays as it was.
LEMMA TakeBounded ==
  ASSUME Bounded, NEW w \in Workers, NEW m \in Message, Take(w, m)
  PROVE  Bounded'
<1>0. TypeOK /\ TypeOK'
  BY WorkerStepType DEF Bounded, WorkerStep
<1>1. /\ \A v \in Workers \ {w} : worker'[v] = worker[v]
      /\ worker'[w].message = m /\ worker'[w].step = FirstStep(m.task)
  BY <1>0 DEF Take, TypeOK
<1>2. \A n \in Notifications : ~Holds(w, n) /\ (Holds(w, n)' <=> n = m.id)
  BY <1>1 DEF Holds, Take, At, FirstStep
<1>3. ASSUME NEW n \in Notifications
      PROVE  (handed[n] + Waiting(n) + Cardinality(Holders(n)) + Asked(n) <= 1 + redeliveries)'
  <2>1. Waiting(n)' = Waiting(n) - (IF n = m.id THEN 1 ELSE 0)
    BY <1>0, WaitingLess DEF Take
  <2>2. Cardinality(Holders(n)') = Cardinality(Holders(n)) + (IF n = m.id THEN 1 ELSE 0)
    <3>1. CASE n = m.id
      <4>1. ~Holds(w, n) /\ Holds(w, n)'
        BY <1>2, <3>1
      <4>2. Cardinality(Holders(n)') = Cardinality(Holders(n)) + 1
        BY <1>0, <1>1, <4>1, HoldersAfter
      <4>. QED  BY <3>1, <4>2
    <3>2. CASE n # m.id
      <4>1. Holds(w, n) <=> Holds(w, n)'
        BY <1>2, <3>2
      <4>2. Cardinality(Holders(n)') = Cardinality(Holders(n))
        BY <1>0, <1>1, <4>1, HoldersAfter
      <4>3. Cardinality(Holders(n)) \in Nat
        BY <1>0, CountTypes
      <4>. QED  BY <3>2, <4>2, <4>3
    <3>. QED  BY <3>1, <3>2
  <2>3. handed[n] + Waiting(n) + Cardinality(Holders(n)) + Asked(n) <= 1 + redeliveries
    BY DEF Bounded, Weighed
  <2>4. Asked(n)' = Asked(n) /\ handed'[n] = handed[n] /\ redeliveries' = redeliveries
    BY DEF Take, Asked
  <2>5. /\ handed[n] \in Nat /\ Waiting(n) \in Nat /\ Asked(n) \in 0..1
        /\ redeliveries \in Nat /\ Cardinality(Holders(n)) \in Nat
    BY <1>0, CountTypes
  <2>. QED  BY <2>1, <2>2, <2>3, <2>4, <2>5
<1>. QED  BY <1>0, <1>3 DEF Bounded, Weighed

LEMMA PublishBounded ==
  ASSUME Bounded, NEW w \in Workers, Publish(w)
  PROVE  Bounded'
<1>0. TypeOK /\ TypeOK'
  BY WorkerStepType DEF Bounded, WorkerStep
<1>. DEFINE k == worker[w].message.id
<1>1. k \in Notifications /\ ~At(w, "idle")
  BY <1>0, BusyShape DEF Publish, At
<1>2. /\ \A v \in Workers \ {w} : worker'[v] = worker[v]
      /\ worker'[w].step = "acknowledge"
  BY <1>0, <1>1, GotoType DEF Publish, Steps
<1>3. \A n \in Notifications : ~Holds(w, n)' /\ (Holds(w, n) <=> n = k)
  BY <1>2 DEF Holds, Publish, At
<1>4. Deliver(k) \in Message /\ Deliver(k).id = k
  BY <1>1, MessageType DEF Deliver
<1>5. queue' = [queue EXCEPT ![Deliver(k)] = @ + 1]
  BY DEF Publish
<1>. HIDE DEF k
<1>6. ASSUME NEW n \in Notifications
      PROVE  (handed[n] + Waiting(n) + Cardinality(Holders(n)) + Asked(n) <= 1 + redeliveries)'
  <2>1. Waiting(n)' = Waiting(n) + (IF n = k THEN 1 ELSE 0)
    BY <1>0, <1>4, <1>5, WaitingMore
  <2>5. /\ handed[n] \in Nat /\ Waiting(n) \in Nat /\ Asked(n) \in 0..1
        /\ redeliveries \in Nat /\ Cardinality(Holders(n)) \in Nat
    BY <1>0, CountTypes
  <2>2. Cardinality(Holders(n)') = Cardinality(Holders(n)) - (IF n = k THEN 1 ELSE 0)
    <3>1. CASE n = k
      <4>1. Holds(w, n) /\ ~Holds(w, n)'
        BY <1>3, <3>1
      <4>2. Cardinality(Holders(n)') = Cardinality(Holders(n)) - 1
        BY <1>0, <1>2, <4>1, HoldersAfter
      <4>. QED  BY <3>1, <4>2
    <3>2. CASE n # k
      <4>1. Holds(w, n) <=> Holds(w, n)'
        BY <1>3, <3>2
      <4>2. Cardinality(Holders(n)') = Cardinality(Holders(n))
        BY <1>0, <1>2, <4>1, HoldersAfter
      <4>. QED  BY <2>5, <3>2, <4>2
    <3>. QED  BY <3>1, <3>2
  <2>3. handed[n] + Waiting(n) + Cardinality(Holders(n)) + Asked(n) <= 1 + redeliveries
    BY DEF Bounded, Weighed
  <2>4. Asked(n)' = Asked(n) /\ handed'[n] = handed[n] /\ redeliveries' = redeliveries
    BY DEF Publish, Asked
  <2>. QED  BY <2>1, <2>2, <2>3, <2>4, <2>5
<1>. QED  BY <1>0, <1>6 DEF Bounded, Weighed

LEMMA HandOverBounded ==
  ASSUME Bounded, NEW w \in Workers, HandOver(w)
  PROVE  Bounded'
<1>0. TypeOK /\ TypeOK'
  BY WorkerStepType DEF Bounded, WorkerStep
<1>. DEFINE k == worker[w].message.id
<1>1. k \in Notifications /\ ~At(w, "idle")
  BY <1>0, BusyShape DEF HandOver, At
<1>2. /\ \A v \in Workers \ {w} : worker'[v] = worker[v]
      /\ worker'[w].step = "record"
  BY <1>0, <1>1, GotoType DEF HandOver, Steps
<1>3. \A n \in Notifications : ~Holds(w, n)' /\ (Holds(w, n) <=> n = k)
  BY <1>2 DEF Holds, HandOver, At
<1>4. handed' = [handed EXCEPT ![k] = @ + 1]
  BY DEF HandOver
<1>. HIDE DEF k
<1>5. handed'[k] = handed[k] + 1 /\ \A x \in Notifications \ {k} : handed'[x] = handed[x]
  BY <1>0, <1>1, <1>4, HandedMore
<1>6. ASSUME NEW n \in Notifications
      PROVE  (handed[n] + Waiting(n) + Cardinality(Holders(n)) + Asked(n) <= 1 + redeliveries)'
  <2>3. handed[n] + Waiting(n) + Cardinality(Holders(n)) + Asked(n) <= 1 + redeliveries
    BY DEF Bounded, Weighed
  <2>4. Asked(n)' = Asked(n) /\ Waiting(n)' = Waiting(n) /\ redeliveries' = redeliveries
    BY DEF HandOver, Asked, Waiting
  <2>5. /\ handed[n] \in Nat /\ Waiting(n) \in Nat /\ Asked(n) \in 0..1
        /\ redeliveries \in Nat /\ Cardinality(Holders(n)) \in Nat
    BY <1>0, CountTypes
  <2>6. CASE n = k
    <3>1. Holds(w, n) /\ ~Holds(w, n)'
      BY <1>3, <2>6
    <3>2. Cardinality(Holders(n)') = Cardinality(Holders(n)) - 1
      BY <1>0, <1>2, <3>1, HoldersAfter
    <3>. QED  BY <1>5, <2>3, <2>4, <2>5, <2>6, <3>2
  <2>7. CASE n # k
    <3>1. Holds(w, n) <=> Holds(w, n)'
      BY <1>3, <2>7
    <3>2. Cardinality(Holders(n)') = Cardinality(Holders(n))
      BY <1>0, <1>2, <3>1, HoldersAfter
    <3>. QED  BY <1>5, <2>3, <2>4, <2>5, <2>7, <3>2
  <2>. QED  BY <2>6, <2>7
<1>. QED  BY <1>0, <1>6 DEF Bounded, Weighed

LEMMA WorkerLostBounded ==
  ASSUME Bounded, NEW w \in Workers, WorkerLost(w)
  PROVE  Bounded'
<1>0. TypeOK /\ TypeOK'
  BY FaultType DEF Bounded, Fault
<1>. DEFINE m == worker[w].message
<1>1. m \in Message
  BY <1>0, BusyShape DEF WorkerLost
<1>2. /\ \A v \in Workers \ {w} : worker'[v] = worker[v]
      /\ worker'[w].step = "idle"
  BY <1>0, RestType DEF WorkerLost, Idle
<1>3. queue' = [queue EXCEPT ![m] = @ + 1]
  BY DEF WorkerLost, GivenBack
<1>4. \A n \in Notifications : ~Holds(w, n)'
  BY <1>2 DEF Holds
<1>. HIDE DEF m
<1>5. ASSUME NEW n \in Notifications
      PROVE  (handed[n] + Waiting(n) + Cardinality(Holders(n)) + Asked(n) <= 1 + redeliveries)'
  <2>1. Waiting(n)' = Waiting(n) + (IF n = m.id THEN 1 ELSE 0)
    BY <1>0, <1>1, <1>3, WaitingMore
  <2>2. /\ Cardinality(Holders(n)') \in Nat
        /\ Cardinality(Holders(n)') <= Cardinality(Holders(n))
    BY <1>0, <1>2, <1>4, HoldersNoMore
  <2>3. handed[n] + Waiting(n) + Cardinality(Holders(n)) + Asked(n) <= 1 + redeliveries
    BY DEF Bounded, Weighed
  <2>4. Asked(n)' = Asked(n) /\ handed'[n] = handed[n] /\ redeliveries' = redeliveries + 1
    BY DEF WorkerLost, Asked
  <2>5. /\ handed[n] \in Nat /\ Waiting(n) \in Nat /\ Asked(n) \in 0..1
        /\ redeliveries \in Nat /\ Cardinality(Holders(n)) \in Nat
    BY <1>0, CountTypes
  <2>. QED  BY <2>1, <2>2, <2>3, <2>4, <2>5
<1>. QED  BY <1>0, <1>5 DEF Bounded, Weighed

LEMMA WorkerStepBounded ==
  ASSUME Bounded, NEW w \in Workers, WorkerStep(w)
  PROVE  Bounded'
<1>0. TypeOK /\ TypeOK'
  BY WorkerStepType DEF Bounded
<1>1. ASSUME NEW m \in Message, Take(w, m) PROVE Bounded'
  BY <1>1, TakeBounded
<1>2. CASE Fetch(w)
  <2>1. ~At(w, "idle")
    BY <1>2 DEF Fetch, At
  <2>2. PICK step \in {"acknowledge", "publish"} : Goto(w, step)
    BY <1>2 DEF Fetch
  <2>3. /\ worker'[w].message = worker[w].message
        /\ \A v \in Workers \ {w} : worker'[v] = worker[v]
    BY <1>0, <2>1, <2>2, GotoType DEF Steps
  <2>4. \A n \in Notifications : Holds(w, n)' => Holds(w, n)
    BY <1>2, <2>3 DEF Holds, Fetch, At
  <2>. QED  BY <1>0, <1>2, <2>3, <2>4, LighterIsBounded DEF Fetch
<1>3. CASE Publish(w)
  BY <1>3, PublishBounded
<1>4. CASE HandOver(w)
  BY <1>4, HandOverBounded
<1>5. CASE Record(w)
  <2>1. ~At(w, "idle")
    BY <1>5 DEF Record, At
  <2>2. /\ worker'[w].step = "acknowledge"
        /\ \A v \in Workers \ {w} : worker'[v] = worker[v]
    BY <1>0, <1>5, <2>1, GotoType DEF Record, Steps
  <2>3. \A n \in Notifications : ~Holds(w, n)'
    BY <2>2 DEF Holds
  <2>. QED  BY <1>0, <1>5, <2>2, <2>3, LighterIsBounded DEF Record
<1>6. CASE Acknowledge(w)
  <2>1. /\ worker'[w].step = "idle"
        /\ \A v \in Workers \ {w} : worker'[v] = worker[v]
    BY <1>0, <1>6, RestType DEF Acknowledge, Idle
  <2>2. \A n \in Notifications : ~Holds(w, n)'
    BY <2>1 DEF Holds
  <2>. QED  BY <1>0, <1>6, <2>1, <2>2, LighterIsBounded DEF Acknowledge
<1>. QED  BY <1>1, <1>2, <1>3, <1>4, <1>5, <1>6 DEF WorkerStep

LEMMA FaultBounded ==
  ASSUME Bounded, NEW w \in Workers, Fault(w)
  PROVE  Bounded'
<1>0. TypeOK /\ TypeOK'
  BY FaultType DEF Bounded
<1>1. CASE StepFails(w)
  <2>1. ~At(w, "idle")
    BY <1>1 DEF StepFails, At
  <2>2. /\ worker'[w].step = "acknowledge"
        /\ \A v \in Workers \ {w} : worker'[v] = worker[v]
    BY <1>0, <1>1, <2>1, GotoType DEF StepFails, AfterFailure, Steps
  <2>3. \A n \in Notifications : ~Holds(w, n)'
    BY <2>2 DEF Holds
  <2>. QED  BY <1>0, <1>1, <2>2, <2>3, LighterIsBounded DEF StepFails
<1>2. CASE WorkerLost(w)
  BY <1>2, WorkerLostBounded
<1>3. CASE ChildLost(w)
  <2>1. /\ worker'[w].step = "idle"
        /\ \A v \in Workers \ {w} : worker'[v] = worker[v]
    BY <1>0, <1>3, RestType DEF ChildLost, Idle
  <2>2. \A n \in Notifications : ~Holds(w, n)'
    BY <2>1 DEF Holds
  <2>. QED  BY <1>0, <1>3, <2>1, <2>2, LighterIsBounded DEF ChildLost
<1>. QED  BY <1>1, <1>2, <1>3 DEF Fault

\* A request that asks enqueues one message; the others only commit or not.
LEMMA RequestBounded ==
  ASSUME Bounded, NEW k \in Notifications, RequestStep(k)
  PROVE  Bounded'
<1>0. TypeOK /\ TypeOK'
  <2>1. Next
    BY DEF Next
  <2>. QED  BY <2>1, NextType DEF Bounded
<1>1. \A n \in Notifications : Holders(n)' = Holders(n)
  BY DEF RequestStep, Send, Commit, RollBack, Holders, Holds
<1>2. ASSUME NEW n \in Notifications
      PROVE  (handed[n] + Waiting(n) + Cardinality(Holders(n)) + Asked(n) <= 1 + redeliveries)'
  <2>1. handed[n] + Waiting(n) + Cardinality(Holders(n)) + Asked(n) <= 1 + redeliveries
    BY DEF Bounded, Weighed
  <2>2. /\ handed[n] \in Nat /\ Waiting(n) \in Nat /\ Asked(n) \in 0..1
        /\ redeliveries \in Nat /\ Cardinality(Holders(n)) \in Nat
    BY <1>0, CountTypes
  <2>3. handed'[n] = handed[n] /\ redeliveries' = redeliveries
    BY DEF RequestStep, Send, Commit, RollBack
  <2>4. Cardinality(Holders(n)') = Cardinality(Holders(n))
    BY <1>1
  <2>5. Waiting(n)' + Asked(n)' = Waiting(n) + Asked(n)
    <3>1. CASE Send(k)
      <4>1. Bulk(k) \in Message /\ Bulk(k).id = k
        BY MessageType DEF Bulk
      <4>2. Waiting(n)' = Waiting(n) + (IF n = k THEN 1 ELSE 0)
        BY <1>0, <3>1, <4>1, WaitingMore DEF Send
      <4>3. Asked(n)' = Asked(n) - (IF n = k THEN 1 ELSE 0)
        <5>1. DOMAIN request = Notifications
          BY <1>0 DEF TypeOK
        <5>2. request[k] = "new" /\ request' = [request EXCEPT ![k] = "open"]
          BY <3>1 DEF Send
        <5>3. CASE n = k
          BY <5>1, <5>2, <5>3 DEF Asked
        <5>4. CASE n # k
          <6>1. Asked(n)' = Asked(n)
            BY <5>1, <5>2, <5>4 DEF Asked
          <6>. QED  BY <2>2, <5>4, <6>1
        <5>. QED  BY <5>3, <5>4
      <4>. QED  BY <2>2, <4>2, <4>3
    <3>2. CASE Commit(k) \/ RollBack(k)
      <4>1. Asked(n)' = Asked(n)
        BY <1>0, <3>2 DEF Commit, RollBack, Asked, TypeOK
      <4>2. Waiting(n)' = Waiting(n)
        BY <3>2 DEF Commit, RollBack, Waiting
      <4>. QED  BY <4>1, <4>2
    <3>. QED  BY <3>1, <3>2 DEF RequestStep
  <2>6. Waiting(n)' \in Nat /\ Asked(n)' \in 0..1
    <3>1. Waiting(n)' \in Nat
      <4>1. queue' \in [Message -> Nat]
        BY <1>0 DEF TypeOK
      <4>2. queue'[Bulk(n)] \in Nat /\ queue'[Deliver(n)] \in Nat
        BY <4>1, MessageType
      <4>. QED  BY <4>2 DEF Waiting, Bulk, Deliver
    <3>. QED  BY <3>1 DEF Asked
  <2>. QED  BY <2>1, <2>2, <2>3, <2>4, <2>5, <2>6
<1>. QED  BY <1>0, <1>2 DEF Bounded, Weighed

LEMMA InitBounded == Init => Bounded
<1>. SUFFICES ASSUME Init PROVE Bounded
  OBVIOUS
<1>1. TypeOK
  BY InitType
<1>2. ASSUME NEW n \in Notifications
      PROVE  handed[n] + Waiting(n) + Cardinality(Holders(n)) + Asked(n) <= 1 + redeliveries
  <2>1. Holders(n) = {}
    BY DEF Init, Holders, Holds, Idle
  <2>2. Cardinality(Holders(n)) = 0
    BY <2>1, FS_EmptySet
  <2>3. Waiting(n) = 0
    BY MessageType DEF Init, Waiting
  <2>4. handed[n] = 0 /\ Asked(n) = 1 /\ redeliveries = 0
    BY DEF Init, Asked
  <2>. QED  BY <2>2, <2>3, <2>4
<1>. QED  BY <1>1, <1>2 DEF Bounded, Weighed

LEMMA NextBounded == Bounded /\ [Next]_vars => Bounded'
<1>. SUFFICES ASSUME Bounded, [Next]_vars PROVE Bounded'
  OBVIOUS
<1>1. CASE UNCHANGED vars
  <2>1. TypeOK'
    BY <1>1, NextType DEF Bounded
  <2>2. \A n \in Notifications : Holders(n)' = Holders(n)
    BY <1>1 DEF vars, Holders, Holds
  <2>. QED  BY <1>1, <2>1, <2>2 DEF vars, Bounded, Weighed, Waiting, Asked
<1>. QED  BY <1>1, RequestBounded, WorkerStepBounded, FaultBounded DEF Next

\* A notification is handed to the provider at most once more than messages
\* were delivered again, for any number of workers and of deaths: publishing
\* the second task and handing over each use up what they started from.
THEOREM DoubledOnlyByRedeliveryHolds == Spec => []DoubledOnlyByRedelivery
<1>1. Bounded => DoubledOnlyByRedelivery
  <2>. SUFFICES ASSUME Bounded, NEW n \in Notifications PROVE handed[n] <= 1 + redeliveries
    BY DEF DoubledOnlyByRedelivery
  <2>1. handed[n] + Waiting(n) + Cardinality(Holders(n)) + Asked(n) <= 1 + redeliveries
    BY DEF Bounded, Weighed
  <2>2. /\ handed[n] \in Nat /\ Waiting(n) \in Nat /\ Asked(n) \in 0..1
        /\ redeliveries \in Nat /\ Cardinality(Holders(n)) \in Nat
    BY CountTypes DEF Bounded
  <2>. QED  BY <2>1, <2>2
<1>. QED  BY <1>1, InitBounded, NextBounded, PTL DEF Spec
=============================================================================
