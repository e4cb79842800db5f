# A formal model of the boarding-school backend

TLA+ modules, TLC configurations and TLAPS proofs for the FastAPI backend in `src/`. The
backend is a set of CRUD-like domains over one PostgreSQL database. What makes it hard is that
most of its rules are kept by handlers that *read, decide, and write what they computed*, with
no row locked in between, while other requests and a nightly task do the same to the same
rows. The modules model exactly that: which rows a handler reads and when, what it checks, what
it writes from what it read, and what the database itself still enforces at the commit.

## 1. The system

### How it runs

* **Requests.** `uvicorn` serves FastAPI on an event loop; handlers are `async` and interleave
  at every `await`. Several server processes may run beside each other. `get_db`
  (`app/core/database.py`) opens one `AsyncSession` for a request, commits when the handler
  returns and rolls back when it raises.
* **Transactions.** SQLAlchemy 2.0 over asyncpg at PostgreSQL's default isolation, READ
  COMMITTED: each SELECT sees what was committed when it began. No handler takes a lock
  (`with_for_update` does not occur). The session is made with `autoflush=False` and
  `expire_on_commit=False`. An UPDATE of the ORM contains only the columns whose value differs
  from the one that was loaded; an UPDATE that finds no row raises `StaleDataError`; a violated
  unique index or foreign key raises `IntegrityError`. All of these roll back.
* **Background work.** A Celery worker and Celery beat (`app/infrastructure/queue/`) are other
  processes with transactions of their own. `mark_overdue_invoices` is the only scheduled task
  that changes tables by schedule; the notification tasks are started by requests and mark the
  rows those requests wrote.
* **Tenants.** Every query filters on `tenant_id`; requests of different tenants share no row
  that is modelled, so each module has one tenant.

The only existing tests are those of `admin_apps` (`src/tests/test_admin_apps.py`).

### Components

| component | state | operations | what is hard | what makes it correct |
|---|---|---|---|---|
| **dormitory** | buildings, rooms with `capacity`, `current_occupancy`, `status`; assignments; supervisors | create/update/delete building and room, assign, vacate, assign supervisor | the counter is a copy of a head count kept by read-modify-write; deletions are decided on rows read earlier and cascade | counter = head count; one active room per student; no overbooked room; no orphan rows |
| **finance** | invoices, payments; revenue report from statuses | create, send, record payment, report; nightly overdue task | number from a count; three writers of one status, one of them another process; float against Decimal | numbers without gaps; paid means covered; the report is backed by money; every overdue invoice is found |
| **exams** | exam status, sessions, answers with points, scores | publish, activate, complete, delete; start, save, submit; grade | the student, the end of the exam and the teacher write one session row, each from what it read | a total is what was earned; results are not taken back; completing hands in every session |
| **academics** | years, classes with `current_count`, enrolments; subjects and grades; timetable and curriculum | enrol, remove; grade by hand or in batches; lessons and curriculum entries | capacity check and counter as in dormitory; full unique constraint against soft removal; batches that read row after row and write at the end; an overlap check of equal starts only | class not overfilled; counter = active enrolments; a batch is recorded as answered; one lesson at a time |
| **hr**, and payroll records of finance | contracts, payroll runs, payroll records, tax tables | create/approve/pay/cancel run, contract changes, a record by hand; gross to net | a status machine with stale checks; contracts and runs come back to life; a whole run fails with one record; brackets with exclusive bounds | one active contract; one live run and one record per month; a paid run was approved and is not cancelled; every month can be paid; a raise counts |
| **auth, users** | accounts' flags, user sessions, one-time codes, reset tokens | register, login, logout, reset, request and verify a code, deactivate | a reset revokes the sessions it saw while logins commit beside it; a code is sent before it is committed, by a call of up to ten seconds; updates by what differs from what was read | a reset ends the older sessions; a new code ends the older codes; deactivation holds |
| **notifications** | log rows, the Celery queues | send, look up and dispatch, deliver and record | the task is enqueued before the row is committed; errors are swallowed; messages are acknowledged late and delivered again | the log does not claim what was not done; nothing is doubled but by a lost worker; what is committed is sent |
| **teachers** and their accounts | teachers, users by telephone number | create, update, delete; accounts found or made | look-up by phone, then insert, with no constraint on phones | a phone leads to one account; a teacher's phone is the account's |
| **admissions, certificates, leave** | batches and applications, certificates, leave requests | open, close, apply, review; issue, update, revoke; submit, approve, reject | each decision looks at the status it read, or at none | revoked stays revoked; a closed batch takes nobody; who approved is known |
| **cors registry** | a table, and a set in each process's memory | register, switch, remove, restart | memory is changed before the commit and in one process | memory = table |
| students, assets, attendance records, tenants, subscriptions, admin_apps, events | plain rows | insert, update, soft delete | unique constraints against checks | nothing that is not a constraint |
| reports, exam monitor, event bus, cache, storage, security, middleware | none, or not called by any service | | | |

Components interact through shared tables (a dormitory assignment and an invoice reference a
student; deletions cascade over foreign keys), through Celery (notifications, the overdue task)
and by nothing else: the event bus has no subscriber that changes a table, and no service calls
another domain's service while it holds rows of its own.

## 2. Modules

| module | models | source |
|---|---|---|
| `Dormitory` | buildings, rooms, assignments, supervisors; every handler but `update_building` | `domains/dormitory/` and its migrations |
| `Residence` | what a dormitory promises: where students live, which rooms are open, how many beds | abstract |
| `MCDormitory` | symmetry, the refinement mapping `Dormitory` -> `Residence` | |
| `DormitoryProofs` | theorems about `Dormitory`, and that it implements `Residence` | |
| `Invoices` | invoices, payments, the overdue task | `domains/finance/`, `infrastructure/queue/tasks/finance_tasks.py` |
| `RevenueReport` | the report over the invoices (extends `Invoices`) | `finance/repository.py`, `finance/service.py` |
| `MCInvoices` | the two together, for TLC | |
| `InvoicesProofs` | theorems about `Invoices` and `RevenueReport` | |
| `Exams` | exam, sessions, answers, submission, completion, grading | `domains/exams/` |
| `Examination` | what an exam promises: phases, and where each student stands | abstract |
| `MCExams` | symmetry, the refinement mapping `Exams` -> `Examination` | |
| `ExamsProofs` | theorems about `Exams`, and that it implements `Examination` | |
| `Enrollment` | academic years, classes with a capacity and a count, enrolment of students | `domains/academics/`, migrations 001 and 009 |
| `MCEnrollment` | symmetry | |
| `EnrollmentProofs` | theorems about `Enrollment` | |
| `Payroll` | contracts, payroll runs, payroll records | `domains/hr/`, `create_payroll` of `domains/finance/`, migrations 004 and 005 |
| `MCPayroll` | symmetry | |
| `PayrollProofs` | theorems about `Payroll` | |
| `Sessions` | accounts' flags, sessions, one-time codes, reset tokens | `domains/auth/`, `domains/users/` |
| `MCSessions` | symmetry | |
| `SessionsProofs` | theorems about `Sessions` | |
| `Notifications` | a notification's row, request, queue and workers | `domains/notifications/`, `infrastructure/queue/` |
| `MCNotifications` | for TLC | |
| `NotificationsProofs` | theorems about `Notifications` | |
| `Gradebook` | subjects, grades, batches of grades | `domains/academics/` |
| `Timetable` | lessons, curriculum, cascades | `domains/academics/` and its migrations |
| `People` | teachers and the accounts found by telephone number | `domains/teachers/`, `domains/users/` |
| `Rulings` | certificates, leave requests, admission batches and applications | `domains/certificates/`, `attendance/`, `admissions/` |
| `Origins` | the table of origins and the memory of each process | `core/cors_registry.py`, `domains/cors/`, `endpoints/cors.py`, `main.py` |
| `PayTables` | brackets, methods, insurance, net pay | `domains/hr/tax_tables.py` |
| `MCCampus` | the last six beside each other | |
| `CampusProofs` | theorems about the six parts, carried over to `MCCampus` | |

`PROJECT.json` maps every definition to the lines it stands for.

### How a handler becomes actions

`req[w]` is the request that worker `w` is serving: `Idle`, or a record with the operation, the
point it has reached and what it keeps of the rows it read. A handler is

1. one action for each SELECT whose result it uses later, guarded by the checks the handler
   makes on that result (a check that fails ends the request, which changes nothing: this is
   `Abort`);
2. one commit action that writes, from the remembered rows, everything the handler flushes, and
   is enabled only if the database accepts it (unique index, foreign key, row still there).

A SELECT that only checks that a row exists is one step with the SELECT after it when the commit
checks again what a change in between could break. A handler with one statement that matters
(`create_building`, `create_room`) is a single action. `Abort(w)` is possible at any point: a
refused request, a lost connection and a cancelled request all roll back.

`Write(read, set, committed)` is the ORM's rule that a column set to the value that was read is
not written, so that another request's change of that column survives. It matters: after two
overlapping assignments the counter and the status of a room may come from different requests.

Row data that no property tells apart is left out (names, dates, notes, option texts). Line
items, discount and tax of an invoice are a total chosen by `Init`; the capacity and building of
a room are chosen by `Init` as well, for the moment it is created.

**Variants.** A definition with an underscore in its name, such as `HasBed_OffByOne`, is a faulty
variant of the definition that follows it. No specification uses it. Substituted for that
definition, each must make TLC report the property named beside it under `mutants` in
`PROJECT.json`; this shows that the property depends on the code it is about.

### Dormitory

`current_occupancy` is read in `AssignReadRoom` or `VacateReadRoom` and written by
`AssignCommit` or `VacateCommit` as the value read plus or minus one (`service.py`, lines 59-113).
`ActiveStudentIndexAllows` is the partial unique index `uq_dormitory_assignment_active_student`.
`DropRooms` and `Survivors` are the foreign keys with ON DELETE CASCADE. Vacating leaves the
counter alone when the room is gone or the counter is 0, which is what keeps it from becoming
negative. `supervisors[t][b]` counts the rows of a pair, since nothing makes a pair unique:
`NotYetSupervising` is the look-up before the insert, and `scalar_one_or_none` raises on two rows.

### Invoices

The status of an invoice is written by `SendCommit`, `PayCommit` and `TaskCommit`, each from an
earlier read. `NumberIndexAllows` is the unique constraint on the number; a create request that
loses the race for a number is refused and the next count gives the number again.
`SumIsDefined` is Python's arithmetic: amounts come back from NUMERIC columns as `Decimal`, the
request's amount is a `float`, and the sum of the two is a `TypeError` unless there is no earlier
payment (the sum is then the integer 0). `Covers` compares a double with a Decimal exactly, so
an amount whose double is slightly below the decimal it stands for (`Inexact`) does not cover
an equal total. `past_due` is the clock.

### Exams

A session's scores and status are written by `SubmitCommit`, `CompleteCommit` and `GradeCommit`
from sheets read earlier, and answers by those and `SaveCommit`. The sheet a session starts with
is any set of the bank's questions, since adding and removing exam questions looks at no status.
`time_up` is the clock: it only ever goes from false to true, because `started_at` does not
change and `duration_minutes` is treated as fixed.

`Replies` is what `AnswerRequest` lets through: an option and a text for a question of either kind.
So a choice question may have a text, whose answer is then in both filters that make up a total,
and an essay may have an option selected, which has to be graded before the session can be.
`CanMark` is the look-up of the option (`service.py`, line 323): an option that is negative and
further down than the question has options raises, and nothing of the submission is committed, nor
of a `complete_exam` that came upon it. `Written` allows for values the model does not tell apart:
when the value read and the new one are both "wrong", or both a text, the column may have been
written or not. `GraderFits` is the foreign key of `graded_by`: the endpoint gives it the key of the
user, and `KeysAssumption` says that no such key is a teacher's, since each row draws a fresh
UUID. So a grading that matches an answer is rolled back, and one that matches none may still
set the session to graded. `TotalIsEarned` and `GradedEssaysMarked` are about this build and their
proofs use the assumption: were the grader's key a teacher's, a choice question graded by hand
would count in both scores too. `TypeOK` and the three properties of overlapping requests do not
use it.

### Enrollment

`enroll_student` keeps more than `assign_student` does: the capacity and the count of the class it
read, and a head count from a second SELECT (`service.py`, lines 205-231). `EnrollCommit` writes
`current_count` from the head count, not from the old `current_count`, so a wrong count is set
right by the next enrolment; `RemoveCommit` computes it from the old one. `StudentYearIndexAllows`
is `uq_enrollment_student_year`, which covers inactive rows: what `remove_enrollment` takes out
of a class it does not free for another. `Cascade` is ON DELETE CASCADE from both parents of an
enrollment: its class, and the year named in the request, which nobody compares with the year of
the class.

### Payroll

`create_run` is one action for each SELECT it uses: the run of the month (`CreateRunCheckPeriod`),
the employees (`CreateRunReadStaff`), the contract of each (`CreateRunReadContract`); then one
commit that inserts the run and all its records, or nothing. `ActiveContractIndexAllows` and
`LiveRunIndexAllows` are the partial unique indexes of migrations 004 and 005, which also guard an
UPDATE that brings a contract or a run back into the index. `RecordFits` is the foreign key and
the unique constraint on `payroll_records.teacher_id`; the key it is given is the user's
(`service.py`, line 290), and `KeysAssumption` says that no user's key is a teacher's, since both are
fresh UUIDs. So only a run without employees can be committed; it is such runs that the status
properties are about in this build, and the theorems, which do not use `KeysAssumption`, say the
same of runs with employees. `approve_run`, `mark_paid` and `cancel_run` check the status they read and
write their own over whatever is there. Amounts of money decide nothing but the figures and are
left out.

### Sessions

A request that brings a code or a token is taken to bring the right one: wrong ones change
nothing. `nextRow` is one key sequence for sessions, codes and tokens in the order of their commits,
and `began`, which no handler keeps, dates a request by it, so that the properties can say "older
than". `RequestOtpSend` makes the UPDATE of earlier codes, with the rows visible to it then;
`ServiceAnswers` is the call of the delivery service, after which `RequestOtpCommit` or `Abort`
follows. `Found` is the order of `get_by_phone`: two accounts may have one phone. `Verified` and
`SetActive` write what differs from what was read: an update of another field does not bring
`is_active` back. The rows of `otp_sessions` are modelled from `models.py`; no migration creates that
table (003 only adds a column to it).

Left out: `refresh`, which writes nothing and hands out an access token for the session it is shown;
`change_password`, which changes a value that is not modelled; the development environment's
swallowing of a failed delivery.

### Notifications

`Send` enqueues in the open transaction; `Commit` and `RollBack` come later and do not touch the
queue. A worker takes a message, goes through its steps and acknowledges it at the end
(`task_acks_late`), so `WorkerLost` gives it back to the queue; `ChildLost` is the death of the
process that runs the task, after which the worker acknowledges. `StepFails` is an exception: the
tasks catch what they meet and end as if done, so `autoretry_for` never sees anything, and "failed"
is written by no path that exists. The provider's call is a TODO in the source; `handed` counts how
often a task comes to its place.

The model assumes what the repository does not set up: workers for every queue. The server
process never imports `celery_app`, so its `.delay` publishes by Celery's default application and
queue, the worker's image starts a worker without `-Q` while routes and beat use named queues, and
no image starts beat. With that configuration alone nothing would be consumed and no property about
delivery would mean anything. Templates and marking as read are plain rows and left out.

### The smaller parts

`Gradebook`: `BatchRead` is one SELECT of `batch_upsert_grades`, `BatchCommit` the flush of them all;
inserts carry both columns, updates only what differs. `Timetable`: `check_overlap` compares equal
starts only, as the source does, so lessons that overlap otherwise are accepted; an update reads
the lesson and looks the new start up in two steps. `People`:
`Holders` and `Placeholders` are what `get_by_phone` and the placeholder address find;
`scalar_one_or_none` raises on two rows. A phone is a number as it is spelled in a row; `users` and
`teachers` normalize differently (section 5), so a number may be two phones. `update_user` stores
what it is given, and a spelling that no look-up asks for is the same as none. The unique
constraint of a NIP admits one row, deleted ones included, while `get_by_nip` skips deleted rows.
Two teachers linked to one account make the look-up of `/teachers/me` raise; the model has the link
and no property about it. `Rulings`: three machines of the same shape; a decision on a leave request
or an application looks at no status, and of a batch only `is_active` is looked at. `Origins`: memory is changed in `ChangeMemory`, before
`Commit`; the image starts one process, the module allows several. `Restart` is the SELECT at startup:
until `set_origins` the process serves nobody, and a commit in between, which can only be one of
another process, is not heard of. `drifted` is a history variable
that the properties need and no code keeps. `PayTables`: amounts are in units of 50,000 IDR, of which
every bound is a multiple, so the functions are exact; statuses the table does not list (TK/2 and
TK/3 among them) are taxed as TK/0, as in the source. In some ranges between 8.85 and 13.6 million
table C is dearer than table B, so "more dependants never pay more tax" is not true of the tables
and is not stated.

`MCCampus` lets one of these parts take steps, chosen at the start. The parts share no table but
subjects, whose deletion each models for its own rows, so a step of one changes nothing another
reads, and following one at a time loses no behaviour of any part.

## 3. Runs

| run | instance | shows | expected |
|---|---|---|---|
| `dormitory_racing` | 2 overlapping requests, 2 students, 2 rooms, 1 building, 1 teacher, capacities 0 and 1, 2 assignment rows | what survives every interleaving: `OneActiveAssignment`, `CounterBounded`, `ReferencesHold`, `SupervisedOncePerWorker` | pass |
| `dormitory_serial` | 1 request at a time, 2 students, 2 rooms, capacities 1 and 2, 1 teacher, 3 assignment rows | `OccupancyIsHeadcount`, and that `Dormitory` implements `Residence` | pass |
| `invoices` | 2 requests and the task, 2 invoices over 1 or 2, payments of 1 and 2, 1 of them inexact, 2 payments per invoice | `NumbersAreGapless`, `PaidIsCovered`, `ReportIsBacked`, `PaidIsLostOnlyToStaleReads`, and under fairness of the task `SentIsSettledOrOverdue` | pass |
| `invoices_instalments` | a payer who keeps paying | `InstalmentsComplete` fails | violation |
| `exams_serial` | 1 request at a time, 1 student, 2 choice and 1 essay question, points 0 and 1 | `TotalIsEarned`, `GradedEssaysMarked`, and that `Exams` implements `Examination` | pass |
| `exams_racing` | 2 overlapping requests, 2 students, 1 essay | `GradedHasTotal`, `ResultsWithdrawnOnlyByStaleReads`, `LeftWritingOnlyByLateStart` | pass |
| `enrollment` | 2 overlapping requests, 2 students, 2 classes, 2 years, capacities 1 and 2, 2 enrolment rows | `EnrollmentsHaveParents`, `LeavingIsFinal`, `OverfilledOnlyByStaleReads`, `EnrollingRecounts` | pass |
| `payroll` | 2 overlapping requests, 1 user, 1 teacher, 2 months, 2 contracts, 2 runs | `OneActiveContract`, `OneLiveRun`, `PaidWasApproved`, `ClosedRunsChangeOnlyByStaleReads` | pass |
| `payroll_unpaid` | an office that keeps asking for payroll | `EveryMonthIsPaid` fails | violation |
| `sessions` | 2 overlapping requests, 2 users who may share a phone, 3 rows of sessions, codes and tokens | `ResetEndsOlderSessions`, `NewCodeEndsOlderCodes`, `DeactivationHolds` | pass |
| `delivery` | 2 workers, 2 notifications, 1 of a channel without a task, 2 redeliveries | `SentWasHandedOver`, `DoubledOnlyByRedelivery`, and under fairness of the workers `CommittedIsSent` | pass |
| `campus` | 2 overlapping requests in each part, 2 keys and 2 values of each kind | one or two properties of each part: `BatchIsRecorded`; `OneLessonPerStart`; `PhoneIsLostOnlyToChanges`, `PhonesPartOnlyByOthers`; `RevokedChangesOnlyByStaleReads`; `ApprovedHasApprover`; `ClosedBatchesGrowOnlyByStaleReads`; `MemoryMatchesTable`; `RaiseCountsInBracket` | pass |

**Serial and racing.** Several properties one would like (the counter is the head count, the
abstract specifications) hold only while requests do not overlap; with overlap the code loses
updates. They are checked with one worker, over every *sequence* of calls, and the racing runs
check what the code does guarantee whatever overlaps. Where something is lost to an overlap, the
racing run has a property that names the only way it can be lost
(`PaidIsLostOnlyToStaleReads`, `OverfilledOnlyByStaleReads`, ...): the loss is a behaviour of the
model, and any other way to the same loss would be reported. The two violation runs are about
what fails without any overlap.

Type invariants are theorems of the components with proofs, and in no run's list there.

**Bounds.** `MaxAssignments`, `MaxPayments`, `MaxEnrollments` and `MaxRows` (`Sessions`) cap counters, each in the
guard of the commit that inserts the row, and `MaxRedeliveries` how often workers are lost; in `Payroll` the sets of keys `Contracts` and `Runs` bound the
inserts. Two overlapping requests are enough for every race here,
because each handler has one read-to-commit window per row and a race is one commit inside
another's window; the theorems below do not have this bound. Two rooms and two students let an
assignment race with one to another room and let both students take one bed; capacity 0 makes
the floor of the counter reachable; three assignment rows allow assign, vacate and assign again
with another student in between. Two invoices are enough for two requests to take one number.
Two payments are enough to reach the `TypeError`, and an inexact payment of 1 meets an equal
total. Amounts are not negative: `PaymentCreate` does not check it, and with a negative payment that
commits after an overlapping one, `PaidIsCovered` would not hold. In `exams_serial` two choice
questions let one be handed in with a text and one without, and one student is enough because a
request writes one student's rows, or each student's from their own; the theorems have any number. Two enrolment rows
allow two students to race for one place, and one to leave and try again; two capacities let
the capacity change while an enrolment is under way. Two
contracts of one user are needed for a second active one, two runs for a second live run of a
month, and a cancelled run with its successor for the approval that comes late. Three rows let a session be
opened, a reset requested and a login race with it, or a code replaced while another is verified. Two
redeliveries lose a worker before and after the hand-over; the second notification is there for
the channel that nobody delivers. In `campus` one teacher's number is enough for the phone
properties but not for the case of two teachers with one account, which `PhonesPartOnlyByOthers`
excepts and this run does not reach; a student, two subjects and three scores give batches that
name a grade twice and batches that overlap in one grade; `gross` runs through every unit up to the
highest bound, for every method and status. `CHECK_DEADLOCK FALSE` is set everywhere
because a system that has no request left to serve (all rows inserted, all rooms deleted, the
bound reached) may stop.

**Symmetry** permutes workers and students (in `enrollment`, `payroll`, `sessions` and `campus` also the other keys), in runs without liveness properties only.

**Fairness.** `TaskFairness` in `invoices`: the task's SELECT is weakly fair and its commit strongly fair.
Beat starts the task every night (`celery_app.py`, lines 46-77) whether or not the run before
failed, so a failed run delays but does not end the marking. The assumption is that it does not
fail every night for ever. The task runs its coroutine with `asyncio.run` against a module-level
engine, so a pooled connection of an earlier, closed event loop may fail one attempt; the pool
drops that connection and the attempts after it get a fresh one. No fairness is assumed of
requests: a payment may never come. `PayerFairness`, used only in `invoices_instalments`, is as
generous as it can be to the code: the payer keeps trying, every request ends, and one that can
go on to its commit does. The invoice is still never paid after a first partial payment.
`OfficeFairness`, used only in `payroll_unpaid`, is the same for the office that runs payroll.
In `delivery` the steps of each worker are weakly fair, its faults are not: a worker that is up goes
on, and `MaxRedeliveries` says that it is lost only so often. Nothing is assumed of requests, and
`CommittedIsSent` excepts what a faster worker missed and what a swallowed failure dropped, since
nothing in the code tries those again.

## 4. Proofs

The eight modules whose names end in `Proofs` are checked by TLAPS, for every finite or
infinite set of workers, students, rooms, classes and so on, every capacity set and every bound.

* `Spec => []TypeOK` and `Spec => []CounterBounded` (`Dormitory`). Neither is inductive: a commit
  writes a value computed from a row read long ago. The invariant is
  `CounterInv == TypeOK /\ SeenSound /\ CounterBounded`, where `SeenSound` says what the
  remembered rows satisfy: an assignment under way read an occupancy below the capacity it read;
  a vacation under way read an occupancy above 0 and at most the largest capacity. So however
  stale a write is, it lies between 0 and the largest capacity.
* `Spec => []OneActiveAssignment`, from `TypeOK`, by the index alone: an active row appears only in
  `AssignCommit`, and deactivation merges no two rows.
* `Spec => []ReferencesHold`, from `TypeOK`: rooms die only with their assignments, buildings only
  with their rooms, and an insert needs its parent alive at the commit.
* `Spec => []SupervisedOncePerWorker`, for finitely many workers that overlap in any way. The
  invariant `ListingInv` says that the rows of a pair and the requests that are about to insert one
  are together at most the number of workers: a request sets out only while there is no row, so that
  the sum is then a number of requests, and an insert moves one from one side to the other.
* For one worker at a time (`Alone`): `OccupancyIsHeadcount`, and that `Dormitory`
  implements `Residence`. With two workers they are false, and `dormitory_racing` takes the steps that
  break them. The invariant `SerialInv` adds to the three above `UpToDate`, that what the only request
  checked is still so when it commits, and `RowsInv`: keys tell assignments apart, there are finitely
  many, and the counter of *every* room is the number of its active assignments, also of rooms
  that are not there yet and of deleted ones: a room that opens must start with both at 0.
  In the refinement, a full room is refused because the counter is the head count, and a room that is
  closed has nobody in it for the same reason, although the handlers look at the counter alone.
* `Spec => []TypeOK`, `Spec => []NumbersAreGapless` (`Invoices`, for finitely many invoices). The
  invariant `NumberInv` adds `HandedOut`: the number a create request holds is at most the count
  plus one. If the count has moved on, the number is taken and the index refuses it; so an
  insert that succeeds inserts exactly the next number.
* `Spec => []PaidIsCovered`, and `Spec => PaidIsLostOnlyToStaleReads` from the invariant
  `NobodySawPaid` (no transaction in flight read, as paid, an invoice it will write).
* `Spec => []ReportIsBacked`: the collected total never exceeds what was received. It follows from `PaidIsCovered`
  and the type invariant by facts about sums: a sum over fewer invoices, of amounts that are no larger,
  is no larger. The library's sum is a recursive function, and its induction theorem is out of
  reach, so those facts are shown by contradiction from a least counterexample; that one exists is
  what the well-foundedness of `<` and of strict subsets says.
* All five properties of `Enrollment`. Its inductive invariant is
  `Inv == TypeOK /\ RowsSound /\ PlaceSeen`. `RowsSound` is what the unique constraints keep: keys
  in order, one row for a student and a year, and finitely many rows, without which a remembered
  head count need not be a number. `PlaceSeen` says that an enrolment about to commit saw a place.
  `LeavingIsFinal` follows from uniqueness: the only step that adds an active row needs that no
  row of the pair exists. `OverfilledOnlyByStaleReads` and `EnrollingRecounts` compare cardinalities
  before and after each step: only `EnrollCommit` adds to a head count, and it adds one to the
  count it remembers when that is still right.
* All properties of `Payroll` that a run checks, and `OneRecordPerPeriod` besides. The invariant is
  `Inv == TypeOK /\ SeenOpen /\ ApprovedSaysSo /\ ContractKnown`. `SeenOpen` is what a request on a run
  remembers: it read a status it may change, and the run it wants to pay has been approved, which
  no later step undoes. `ApprovedSaysSo` adds the approved runs to the paid ones; without it a
  payment could find a run that is approved and does not say so. `ContractKnown` says that the row
  an update will write exists. `OneActiveContract`, `OneLiveRun` and `OneRecordPerPeriod` follow from the
  indexes, because every step that writes a row goes through the index of its table.
* `ResultsWithdrawnOnlyByStaleReads` and `LeftWritingOnlyByLateStart` (`Exams`). Their invariant,
  `Inv == Shape /\ Statuses /\ AllRemembered`, is about statuses alone: a submission under way read a
  session in progress, and everybody whom the end of the exam found neither open nor absent has
  handed in, which no later step undoes.
* `Spec => []TypeOK` and `Spec => []GradedHasTotal` (`Exams`), for any number of workers. `TotalInv` says that
  a session which a grading read with a total still has one, unless the exam is gone and its sessions
  with it; so however late the grading commits, it adds the status to a row that has a total.
* For one worker at a time: `TotalIsEarned`, `GradedEssaysMarked`, and that `Exams` implements `Examination`.
  `SerialInv` consists of `TypeOK`, of `RowsInv` (the only marks in a sheet are those of a submission,
  a point or none for an answer to a choice question; the session's score counts them; and
  there are sessions only once the exam is
  active) and of `UpToDate`, which says for each point of each handler that what it read is what is there.
  That no other marks are there is `KeysAssumption`: a grading that is committed graded nothing.
  `EarnedCounts` turns the library's sum over such a sheet into a cardinality, by the least
  counterexample described for the report.
* All three properties of `Sessions`. What makes them provable is that keys are in the order of the
  commits: every row of a table is older than `nextRow`, and a request knows the key at which it
  began. A reset that began at key *k* reads after that, so it sees every session of the user older than
  *k* that is open, and revocation is never undone. The same holds of the codes that a new code replaces.
* `SentWasHandedOver` and `DoubledOnlyByRedelivery` (`Notifications`). The first needs
  `RowsAreCommitted`. The second counts: `Weighed` says that what was handed over, the waiting copies of
  its two messages, the workers that hold one and have not handed over yet, and one more while nobody
  has asked for it, are together at most one plus the redeliveries. A publication moves one from one
  place to another; only a lost worker adds one. This needs finitely many workers.
* Of the smaller parts: `OneLessonPerStart` from the unique index, with `LessonsHaveParents`, which no
  run checks; `ApprovedHasApprover`, `RevokedChangesOnlyByStaleReads` and
  `ClosedBatchesGrowOnlyByStaleReads` from what requests remember (`Ruled`), where
  `ApprovedHasApprover` needs that a request never clears an approver; `MemoryMatchesTable` from
  `Tracked`: an origin that has not drifted in a process has at most one request of that process, it
  is the only one anywhere, and memory is what the table says or what that request will make it
  say.
* `BatchIsRecorded` (`Gradebook`) from `TypeOK` alone, which says what the rows remembered by a batch are:
  a row unchanged since it was read gets the score and the letter of the last grade that names it,
  whether it is inserted or updated, and whatever order the batch has.
* `PhoneIsLostOnlyToChanges` and `PhonesPartOnlyByOthers` (`People`). The invariant `Staffed` adds to `TypeOK`
  that a teacher linked to an account is linked to one that exists, and `Known`: a row that a request found
  is still there. It is inductive because neither table ever loses a row; what may have changed since
  is the contents, and the two properties say whose change that was.
* `RaiseCountsInBracket` (`PayTables`). The module has no constants and the run already looks at every pay;
  the proof says why. The lookup finds the lowest bracket whose bound is above the pay, so two pays
  that reach the same bounds have the same rate, and no rate is above 34 % of tax and 4 % of insurance.
* `CampusHasParts` shows that `CampusSpec` implies the specification of each of the six parts, so that these
  theorems are about the composition that the run checks as well.

Assumed: the named assumptions on constants in the modules (capacities are a non-empty set of
naturals, amounts and totals are naturals, finitely many invoices and workers, the place of those who
live nowhere is no room, ...), which TLC evaluates in the runs. A few theorems have hypotheses of
their own: `Alone`, as said; those on rulings, that no user is called "nobody"; the one on lost phones,
that the marks "none" and "own", which stand for the absence of a number, are not numbers.

Model-checked only: the liveness properties `SentIsSettledOrOverdue` and `CommittedIsSent`, which are out
of the prover's reach (so are ENABLED and induction over an operator), and the two violations of section 5.
Every other property of a passing run is a theorem.

## 5. Where the code and its own words disagree

1. **A room is overbooked.** Two assignments read the same occupancy before either commits; both
   pass `service.py:80`, both write 1. No run states it: `dormitory_racing` takes these steps, and
   `CounterBounded` is what is left.
2. **A paid invoice becomes overdue.** The task writes `OVERDUE` over everything it selected; a
   payment that committed in between is overwritten, and the report counts the invoice as
   outstanding. `PaidIsLostOnlyToStaleReads` in `invoices` says that nothing else does this.
3. **An invoice cannot be paid in instalments** (run `invoices_instalments`). The second payment adds
   a float to a Decimal.
4. **A graded session is handed in again.** `submit_session` checks the status of a row it does not
   lock; grading commits in between. `ResultsWithdrawnOnlyByStaleReads` in `exams_racing` says that
   nothing else takes a result back.
5. **Payroll cannot be run for anybody** (run `payroll_unpaid`). Each record of a run gets a user's key
   where the table wants a teacher's; the insert fails and takes the run with it. The comment at
   `hr/service.py`, line 287, calls it a best-effort substitution.
   Two handlers of exams have the same defect. `grade_essays` (`exams/service.py`, line 413) writes the key of
   the user (`endpoints/exams.py`, line 221) into `graded_by`, a foreign key to teachers
   (`models.py`, lines 131-134), so that grading an existing answer always fails and an answered essay is never
   graded; `GraderFits` in `Exams`. `create_question` (`service.py`, line 74; `endpoints/exams.py`, line 80) does the
   same with `created_by` (`models.py`, lines 24-27), so that no question is created through the endpoint;
   the question bank is outside the model.
6. **Honorary staff pay insurance.** `tax_tables.py`, line 208, says that their rates default to 0;
   lines 280-286 give them 1 %. `PayTables` has what the code does.
7. **Points of a choice question count twice** when a text was sent with its answer: its points are in
   `score_mcq`, and `exams/service.py`, lines 422-426, adds the points of every answer with a text.
   `TotalIsEarned` names this as the only difference between a total and what was earned.
8. **A batch whose status is CLOSED takes applications.** The comment at `admissions/service.py`, line 90, says
   that the batch is open; line 94 looks at `is_active` only, and no handler looks at the status. In
   `ClosedBatchesGrowOnlyByStaleReads`, as in the code, a batch is closed when `is_active` is false.
9. **One number, two spellings.** `teachers/service.py`, lines 17-23, adds a dial code that is missing,
   `users/service.py`, lines 13-17, does not: a person who registers as 812... and is hired
   with the same number gets a second account. The properties of `People` are about spellings.

The docstring of `assign_student` (`dormitory/service.py`, line 70) and its check disagree in a smaller way: it speaks
of vacating an existing assignment, and the code refuses the request.

## 6. Not modelled, and the plan

Not modelled within modelled components: `update_building` (names, notes, nominal capacity, which
no handler reads); fee categories of finance; the preview and the payslips of hr, the employer's
share of the insurance and the deductions of one month; the question bank, `update_exam` and the
statistics of `get_results`; `refresh` and `change_password` of auth; templates of notifications; the
number of a certificate, which is the current second.

Not modelled at all: students (one row with a unique number and a soft-delete flag, whose key other
parts take as given), attendance records (inserts without any uniqueness), assets, tenants,
subscriptions, admin_apps and events, whose rows relate to nothing else, so that a property could
only restate a constraint; I/O; stateless checks. Two steps of `Exams` are in the model and have no
property, because the code says nowhere what it wants there: an activation that commits after the
exam was completed, and an answer saved after submission. `PROJECT.json` gives the reason for each.

What is left, in order:

1. Students: the unique number against soft deletion, with the key of a student in enrolment.
2. The fee categories of finance and the preview of hr, which share rows with what is modelled.
3. `CommittedIsSent` reduced to its safety part (a notification that is neither sent nor failed always
   has a message or a worker that will get to it), which can be proved; the rest is fairness.
4. `SerialInv` of `Dormitory` and `Exams` for workers that overlap on different rooms or students only.
