--------------------------- MODULE Notifications ---------------------------
(***************************************************************************)
(* Sending a notification: the request that writes its log row and         *)
(* enqueues a task, the task that looks the row up and enqueues a second   *)
(* one for its channel, and the task that delivers it and marks the row.   *)
(* The request publishes before it commits, the tasks swallow their        *)
(* errors, and a message is acknowledged only when its task has ended, so  *)
(* that a worker that dies gets it delivered again.                        *)
(*                                                                         *)
(* The broker and the workers are Celery's and are modelled by what        *)
(* celery_app.conf asks of them. The provider does not exist yet: what is  *)
(* counted is how often a delivery task comes to the place of its call.    *)
(*                                                                         *)
(* A name with an underscore is a faulty variant of the definition it      *)
(* precedes, as in Dormitory.                                              *)
(***************************************************************************)
EXTENDS Naturals, FiniteSets

CONSTANTS
  Workers,         \* worker processes that consume the queues
  Notifications,   \* keys of notification_logs, one for each request
  Silent,          \* those whose channel no task delivers to
  MaxRedeliveries  \* bound: how often a message is delivered again

ASSUME WorkersAssumption == IsFiniteSet(Workers)
ASSUME SilentAssumption == Silent \subseteq Notifications
ASSUME RedeliveriesAssumption == MaxRedeliveries \in Nat

VARIABLES
  request,       \* how far the request of each notification has come
  status,        \* NotificationLog.status of committed rows
  queue,         \* how many copies of each message wait in the broker
  worker,        \* the message each worker has taken and the step it is at
  handed,        \* how often each notification was handed to the provider
  redeliveries,  \* how many messages were delivered again
  missed,        \* notifications whose row was looked for before its commit
  dropped        \* notifications some step of which failed for good

vars == <<request, status, queue, worker, handed, redeliveries, missed, dropped>>

-----------------------------------------------------------------------------
\* "bulk" is send_bulk_notification; "deliver" is send_email_notification or
\* send_whatsapp_notification, which differ in wording only.
Message == [task : {"bulk", "deliver"}, id : Notifications]
Steps == {"fetch", "publish", "hand over", "record", "acknowledge"}
Idle == [step |-> "idle"]
Busy == [message : Message, step : Steps]

Init ==
  /\ request = [n \in Notifications |-> "new"]
  /\ status = [n \in Notifications |-> "none"]
  /\ queue = [m \in Message |-> 0]
  /\ worker = [w \in Workers |-> Idle]
  /\ handed = [n \in Notifications |-> 0]
  /\ redeliveries = 0
  /\ missed = {}
  /\ dropped = {}

Bulk(n) == [task |-> "bulk", id |-> n]
Deliver(n) == [task |-> "deliver", id |-> n]
At(w, step) == worker[w].step = step
Goto(w, step) == worker' = [worker EXCEPT ![w].step = step]

-----------------------------------------------------------------------------
(* The request *)

\* send: the row is flushed and the task enqueued, in an open transaction.
Send(n) ==
  /\ request[n] = "new"
  /\ request' = [request EXCEPT ![n] = "open"]
  /\ queue' = [queue EXCEPT ![Bulk(n)] = @ + 1]
  /\ UNCHANGED <<status, worker, handed, redeliveries, missed, dropped>>

Commit(n) ==
  /\ request[n] = "open"
  /\ request' = [request EXCEPT ![n] = "committed"]
  /\ status' = [status EXCEPT ![n] = "pending"]
  /\ UNCHANGED <<queue, worker, handed, redeliveries, missed, dropped>>

\* The enqueued task stays where it is.
RollBack(n) ==
  /\ request[n] = "open"
  /\ request' = [request EXCEPT ![n] = "rolled back"]
  /\ UNCHANGED <<status, queue, worker, handed, redeliveries, missed, dropped>>

-----------------------------------------------------------------------------
(* The tasks *)

FirstStep_Record(task) == IF task = "bulk" THEN "fetch" ELSE "record"
FirstStep(task) == IF task = "bulk" THEN "fetch" ELSE "hand over"

Take(w, m) ==
  /\ At(w, "idle")
  /\ queue[m] > 0
  /\ queue' = [queue EXCEPT ![m] = @ - 1]
  /\ worker' = [worker EXCEPT ![w] = [message |-> m, step |-> FirstStep(m.task)]]
  /\ UNCHANGED <<request, status, handed, redeliveries, missed, dropped>>

\* A row that is not there is logged and forgotten, and a channel without a
\* task is passed over.
Fetch(w) ==
  /\ At(w, "fetch")
  /\ LET n == worker[w].message.id
     IN  /\ Goto(w, IF status[n] = "none" \/ n \in Silent THEN "acknowledge" ELSE "publish")
         /\ missed' = IF status[n] = "none" THEN missed \cup {n} ELSE missed
  /\ UNCHANGED <<request, status, queue, handed, redeliveries, dropped>>

Publish(w) ==
  /\ At(w, "publish")
  /\ queue' = [queue EXCEPT ![Deliver(worker[w].message.id)] = @ + 1]
  /\ Goto(w, "acknowledge")
  /\ UNCHANGED <<request, status, handed, redeliveries, missed, dropped>>

HandOver(w) ==
  /\ At(w, "hand over")
  /\ handed' = [handed EXCEPT ![worker[w].message.id] = @ + 1]
  /\ Goto(w, "record")
  /\ UNCHANGED <<request, status, queue, redeliveries, missed, dropped>>

\* _update_notification_log. "failed" is never written: between the try and
\* its handler only this call could raise, and it swallows what it meets.
Record(w) ==
  /\ At(w, "record")
  /\ status' = [status EXCEPT ![worker[w].message.id] = IF @ = "none" THEN @ ELSE "sent"]
  /\ Goto(w, "acknowledge")
  /\ UNCHANGED <<request, queue, handed, redeliveries, missed, dropped>>

Acknowledge(w) ==
  /\ At(w, "acknowledge")
  /\ worker' = [worker EXCEPT ![w] = Idle]
  /\ UNCHANGED <<request, status, queue, handed, redeliveries, missed, dropped>>

-----------------------------------------------------------------------------
(* What goes wrong *)

\* The database or the broker does not answer: the exception is logged, and
\* the task ends as if nothing had happened. Autoretry never sees it.
AfterFailure_Retry(step) == IF step = "record" THEN "hand over" ELSE "acknowledge"
AfterFailure(step) == "acknowledge"

StepFails(w) ==
  /\ worker[w].step \in {"fetch", "publish", "record"}
  /\ Goto(w, AfterFailure(worker[w].step))
  /\ dropped' = dropped \cup {worker[w].message.id}
  /\ UNCHANGED <<request, status, queue, handed, redeliveries, missed>>

\* The worker dies and the broker delivers what it had not acknowledged.
GivenBack_Early(m) == queue
GivenBack(m) == [queue EXCEPT ![m] = @ + 1]

WorkerLost(w) ==
  /\ ~At(w, "idle")
  /\ redeliveries < MaxRedeliveries
  /\ redeliveries' = redeliveries + 1
  /\ queue' = GivenBack(worker[w].message)
  /\ worker' = [worker EXCEPT ![w] = Idle]
  /\ UNCHANGED <<request, status, handed, missed, dropped>>

\* Only the process that runs the task dies, of the time limit of ten minutes
\* or for want of memory: the worker acknowledges the message and goes on.
ChildLost(w) ==
  /\ ~At(w, "idle")
  /\ worker' = [worker EXCEPT ![w] = Idle]
  /\ dropped' = dropped \cup {worker[w].message.id}
  /\ UNCHANGED <<request, status, queue, handed, redeliveries, missed>>

-----------------------------------------------------------------------------
RequestStep(n) == Send(n) \/ Commit(n) \/ RollBack(n)

WorkerStep(w) ==
  \/ \E m \in Message : Take(w, m)
  \/ Fetch(w)
  \/ Publish(w)
  \/ HandOver(w)
  \/ Record(w)
  \/ Acknowledge(w)

Fault(w) == StepFails(w) \/ WorkerLost(w) \/ ChildLost(w)

Next ==
  \/ \E n \in Notifications : RequestStep(n)
  \/ \E w \in Workers : WorkerStep(w) \/ Fault(w)

\* Workers go on working. Nothing is assumed of requests.
Spec == Init /\ [][Next]_vars /\ \A w \in Workers : WF_vars(WorkerStep(w))

-----------------------------------------------------------------------------
TypeOK ==
  /\ request \in [Notifications -> {"new", "open", "committed", "rolled back"}]
  /\ status \in [Notifications -> {"none", "pending", "sent"}]
  /\ queue \in [Message -> Nat]
  /\ worker \in [Workers -> {Idle} \cup Busy]
  /\ handed \in [Notifications -> Nat]
  /\ redeliveries \in 0..MaxRedeliveries
  /\ missed \subseteq Notifications
  /\ dropped \subseteq Notifications

\* The log does not claim what was not done: a row that says sent, or a task
\* about to make it say so, is of a notification that was handed over, and
\* its row was committed by then.
SentWasHandedOver ==
  /\ \A n \in Notifications : status[n] = "sent" => handed[n] > 0 /\ request[n] = "committed"
  /\ \A w \in Workers : At(w, "record") => handed[worker[w].message.id] > 0

\* Nobody gets a message twice unless a worker has died: failures that are
\* swallowed cost messages but never double one.
DoubledOnlyByRedelivery ==
  \A n \in Notifications : handed[n] <= 1 + redeliveries

\* "Actual delivery is handled by Celery workers": a committed notification is
\* handed over and marked sent in the end, however often workers die on the
\* way, except when a worker was faster than the commit or a step failed.
CommittedIsSent ==
  \A n \in Notifications \ Silent :
    request[n] = "committed" ~> status[n] = "sent" \/ n \in missed \cup dropped
=============================================================================
