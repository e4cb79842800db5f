-------------------------------- MODULE Exams --------------------------------
(***************************************************************************)
(* One exam of one tenant: its life, the sessions of the students who sit  *)
(* it, their answers, submission and grading.                              *)
(*                                                                         *)
(* A request is one step per SELECT whose rows it goes on to use and one   *)
(* commit step; nothing is locked in between. The ORM writes a column only *)
(* when the handler changed it from the value it read. Each choice         *)
(* question is worth one point, and the option selected in it is right,    *)
(* wrong, or none that can be looked up; the question bank itself does not *)
(* change.                                                                 *)
(*                                                                         *)
(* A name with an underscore, such as Ungraded_TextOnly, is a faulty       *)
(* variant of the definition it precedes, as in Dormitory.                 *)
(***************************************************************************)
EXTENDS Naturals, FiniteSetsExt

CONSTANTS
  Workers,    \* requests that can be in flight at the same time
  Students,
  MCQs,       \* the multiple-choice questions of the bank
  EssayQs,    \* its essay questions
  Graders,    \* the keys of the users who grade
  Teachers,   \* the keys of the teachers rows
  Points,     \* what a grader can give for an answer
  None        \* a column without a value

ASSUME PointsAssumption == Points \subseteq Nat
ASSUME NoneAssumption == None \notin Nat
ASSUME QuestionsAssumption ==
  IsFiniteSet(MCQs) /\ IsFiniteSet(EssayQs) /\ MCQs \cap EssayQs = {}
\* Every row draws its own random key.
ASSUME KeysAssumption == Graders \cap Teachers = {}

VARIABLES
  exam,      \* Exam.status, or "deleted"
  session,   \* the exam_sessions row of each student
  answers,   \* the exam_answers rows of each session, by question
  time_up,   \* whether duration_minutes have passed since started_at
  req        \* the request each worker is serving

tables == <<exam, session, answers, time_up>>
vars == <<tables, req>>

-----------------------------------------------------------------------------
Questions == MCQs \cup EssayQs
ExamStatus == {"DRAFT", "PUBLISHED", "ACTIVE", "COMPLETED"}
SessionStatus == {"IN_PROGRESS", "SUBMITTED", "GRADED"}
Score == Nat \cup {None}

\* A session row; its status is "none" while the student has not started.
Session ==
  [status : SessionStatus \cup {"none"}, score_mcq : Score, score_essay : Score,
   total_score : Score]
NoSession ==
  [status |-> "none", score_mcq |-> None, score_essay |-> None, total_score |-> None]

\* An answer row: what was selected, whether there is an essay text, the
\* points earned, and whether a teacher graded it. An option is "beyond" when
\* its number is negative and the question has not that many options.
Option == {"none", "right", "wrong", "beyond"}
Answer ==
  [selected : Option, essay : BOOLEAN, points : Points \cup {0, 1, None}, graded : BOOLEAN]
Blank == [selected |-> "none", essay |-> FALSE, points |-> None, graded |-> FALSE]

\* The answer rows of a session: one for each question it started with.
Sheet == UNION {[S -> Answer] : S \in SUBSET Questions}
NoSheet == [q \in {} |-> Blank]

Idle == [op |-> "idle"]

\* absent, who had no session when the end of the exam read them, is not kept
\* by the handler: it is there for a property to speak of.
Request ==
  {Idle}
  \cup [op : {"transition"}, to : ExamStatus]
  \cup [op : {"delete", "complete.sessions"}]
  \cup [op : {"complete"}, open : SUBSET Students, absent : SUBSET Students,
        left : SUBSET Students, seen : [Students -> Sheet]]
  \cup [op : {"start"}, student : Students, questions : SUBSET Questions]
  \cup [op : {"save"}, student : Students, question : Questions, seen : Answer]
  \cup [op : {"submit.answers"}, student : Students, row : Session]
  \cup [op : {"submit"}, student : Students, row : Session, seen : Sheet]
  \cup [op : {"grade.answers"}, student : Students, row : Session, items : Sheet]
  \cup [op : {"grade"}, student : Students, row : Session, items : SUBSET Questions,
        seen : Sheet]

Init ==
  /\ exam = "DRAFT"
  /\ session = [s \in Students |-> NoSession]
  /\ answers = [s \in Students |-> NoSheet]
  /\ time_up = [s \in Students |-> FALSE]
  /\ req = [w \in Workers |-> Idle]

Serve(w, request) == req' = [req EXCEPT ![w] = request]
Finish(w) == Serve(w, Idle)

\* The ORM leaves a column alone when the handler set it to the value it read.
Write(read, set, committed) == IF set = read THEN committed ELSE set

-----------------------------------------------------------------------------
(* The life of the exam *)

\* _transition, for publish_exam and activate_exam
TransitionRead(w, from, to) ==
  /\ req[w] = Idle
  /\ exam = from
  /\ Serve(w, [op |-> "transition", to |-> to])
  /\ UNCHANGED tables

TransitionCommit(w) ==
  /\ req[w].op = "transition"
  /\ exam # "deleted"
  /\ exam' = req[w].to
  /\ Finish(w)
  /\ UNCHANGED <<session, answers, time_up>>

DeleteRead(w) ==
  /\ req[w] = Idle
  /\ exam = "DRAFT"
  /\ Serve(w, [op |-> "delete"])
  /\ UNCHANGED tables

\* ON DELETE CASCADE to the sessions and their answers.
DeleteCommit(w) ==
  /\ req[w].op = "delete"
  /\ exam' = "deleted"
  /\ session' = [s \in Students |-> NoSession]
  /\ answers' = [s \in Students |-> NoSheet]
  /\ time_up' = [s \in Students |-> FALSE]
  /\ Finish(w)

-----------------------------------------------------------------------------
(* Sitting the exam *)

\* add_question_to_exam and remove_question_from_exam look at no status, so
\* whenever a student starts the exam may have any of the questions.
StartRead(w, s) ==
  /\ req[w] = Idle
  /\ exam = "ACTIVE"
  /\ session[s] = NoSession
  /\ \E questions \in SUBSET Questions :
       Serve(w, [op |-> "start", student |-> s, questions |-> questions])
  /\ UNCHANGED tables

\* uq_exam_session refuses a second row, the foreign key a deleted exam.
StartCommit(w) ==
  /\ req[w].op = "start"
  /\ exam # "deleted"
  /\ session[req[w].student] = NoSession
  /\ session' = [session EXCEPT ![req[w].student].status = "IN_PROGRESS"]
  /\ answers' = [answers EXCEPT ![req[w].student] = [q \in req[w].questions |-> Blank]]
  /\ Finish(w)
  /\ UNCHANGED <<exam, time_up>>

TimeRunsOut(s) ==
  /\ session[s] # NoSession
  /\ ~time_up[s]
  /\ time_up' = [time_up EXCEPT ![s] = TRUE]
  /\ UNCHANGED <<exam, session, answers, req>>

\* Only the clock is checked, not the status of the session or of the exam.
SaveRead(w, s, q) ==
  /\ req[w] = Idle
  /\ session[s] # NoSession
  /\ ~time_up[s]
  /\ q \in DOMAIN answers[s]
  /\ Serve(w, [op |-> "save", student |-> s, question |-> q, seen |-> answers[s][q]])
  /\ UNCHANGED tables

\* A client sends an option and a text, or neither, for a question of any kind.
\* What is selected in an essay is never compared with anything.
Replies(q) ==
  [selected : IF q \in MCQs THEN Option ELSE {"none", "wrong"}, essay : BOOLEAN]

\* What a column may hold after Write: two values that the model does not tell
\* apart, such as two wrong options or two texts, may differ in the row.
Written(read, set, unique, committed) ==
  IF set = read /\ set \notin unique THEN {set, committed} ELSE {Write(read, set, committed)}

SaveCommit(w) ==
  /\ req[w].op = "save"
  /\ LET s == req[w].student
         q == req[w].question
         seen == req[w].seen
     IN /\ q \in DOMAIN answers[s]
        /\ \E reply \in Replies(q) :
           \E selected \in
                Written(seen.selected, reply.selected, {"none", "right"}, answers[s][q].selected),
              essay \in Written(seen.essay, reply.essay, {FALSE}, answers[s][q].essay) :
             answers' = [answers EXCEPT ![s][q].selected = selected, ![s][q].essay = essay]
  /\ Finish(w)
  /\ UNCHANGED <<exam, session, time_up>>

-----------------------------------------------------------------------------
(* Submission: _do_submit, called by submit_session and complete_exam *)

\* Looking up an option beyond the first one of its question raises, and the
\* whole request is rolled back.
CanMark(sheet) == \A q \in DOMAIN sheet \cap MCQs : sheet[q].selected # "beyond"

ScoreOn(sheet) ==
  Cardinality({q \in DOMAIN sheet \cap MCQs : sheet[q].selected = "right"})

\* The session row after the sheet that was read is submitted.
Submitted_NoTotal(row, sheet) ==
  [row EXCEPT !.score_mcq = ScoreOn(sheet),
              !.status = IF DOMAIN sheet \cap EssayQs = {} THEN "GRADED" ELSE "SUBMITTED"]
Submitted(row, sheet) ==
  IF DOMAIN sheet \cap EssayQs = {}
  THEN [row EXCEPT !.score_mcq = ScoreOn(sheet), !.total_score = ScoreOn(sheet),
                   !.status = "GRADED"]
  ELSE [row EXCEPT !.score_mcq = ScoreOn(sheet), !.status = "SUBMITTED"]

\* The answer rows after it: the option selected for a choice question earns
\* its point or nothing.
Marked(committed, seen) ==
  [q \in DOMAIN committed |->
     IF q \notin MCQs \/ seen[q].selected = "none"
     THEN committed[q]
     ELSE LET points == IF seen[q].selected = "right" THEN 1 ELSE 0
          IN [committed[q] EXCEPT !.points = Write(seen[q].points, points, @)]]

CanSubmit_Twice(row) == row.status \in {"IN_PROGRESS", "SUBMITTED", "GRADED"}
CanSubmit(row) == row.status = "IN_PROGRESS"

SubmitReadSession(w, s) ==
  /\ req[w] = Idle
  /\ CanSubmit(session[s])
  /\ Serve(w, [op |-> "submit.answers", student |-> s, row |-> session[s]])
  /\ UNCHANGED tables

SubmitReadAnswers(w) ==
  /\ req[w].op = "submit.answers"
  /\ Serve(w, [op |-> "submit", student |-> req[w].student, row |-> req[w].row,
               seen |-> answers[req[w].student]])
  /\ UNCHANGED tables

\* The row is gone when the exam was deleted meanwhile.
SubmitCommit(w) ==
  /\ req[w].op = "submit"
  /\ LET s == req[w].student
     IN /\ session[s] # NoSession
        /\ CanMark(req[w].seen)
        /\ session' = [session EXCEPT ![s] = Submitted(@, req[w].seen)]
        /\ answers' = [answers EXCEPT ![s] = Marked(@, req[w].seen)]
  /\ Finish(w)
  /\ UNCHANGED <<exam, time_up>>

-----------------------------------------------------------------------------
(* complete_exam: submits every session that is still open *)

CompleteReadExam(w) ==
  /\ req[w] = Idle
  /\ exam = "ACTIVE"
  /\ Serve(w, [op |-> "complete.sessions"])
  /\ UNCHANGED tables

StillOpen_TimeUp(s) == session[s].status = "IN_PROGRESS" /\ time_up[s]
StillOpen(s) == session[s].status = "IN_PROGRESS"

CompleteReadSessions(w) ==
  /\ req[w].op = "complete.sessions"
  /\ LET open == {s \in Students : StillOpen(s)}
     IN Serve(w, [op |-> "complete", open |-> open, left |-> open,
                  absent |-> {s \in Students : session[s] = NoSession},
                  seen |-> [s \in Students |-> NoSheet]])
  /\ UNCHANGED tables

\* The answers are read one session after the other.
CompleteReadAnswers(w, s) ==
  /\ req[w].op = "complete"
  /\ s \in req[w].left
  /\ Serve(w, [req[w] EXCEPT !.left = @ \ {s}, !.seen[s] = answers[s]])
  /\ UNCHANGED tables

CompleteCommit(w) ==
  /\ req[w].op = "complete"
  /\ req[w].left = {}
  /\ exam # "deleted"
  /\ LET open == req[w].open
         seen == req[w].seen
     IN /\ \A s \in open : CanMark(seen[s])
        /\ session' = [s \in Students |->
                         IF s \in open THEN Submitted(session[s], seen[s]) ELSE session[s]]
        /\ answers' = [s \in Students |->
                         IF s \in open THEN Marked(answers[s], seen[s]) ELSE answers[s]]
  /\ exam' = "COMPLETED"
  /\ Finish(w)
  /\ UNCHANGED time_up

-----------------------------------------------------------------------------
(* grade_essays: the grades may be for questions of any kind and the session *)
(* in any status.                                                            *)

GradeReadSession(w, s) ==
  /\ req[w] = Idle
  /\ session[s] # NoSession
  /\ Serve(w, [op |-> "grade.answers", student |-> s, row |-> session[s], items |-> NoSheet])
  /\ UNCHANGED tables

\* One answer is read for each grade in the body.
GradeReadAnswer(w, q) ==
  /\ req[w].op = "grade.answers"
  /\ LET s == req[w].student
         items == req[w].items
     IN /\ q \in DOMAIN answers[s] \ DOMAIN items
        /\ Serve(w, [req[w] EXCEPT !.items =
                       [p \in DOMAIN items \cup {q} |->
                          IF p = q THEN answers[s][q] ELSE items[p]]])
  /\ UNCHANGED tables

\* list_by_session gives the answers already loaded as they were then.
GradeReadRest(w) ==
  /\ req[w].op = "grade.answers"
  /\ LET s == req[w].student
         items == req[w].items
     IN /\ DOMAIN items \subseteq DOMAIN answers[s]
        /\ Serve(w, [op |-> "grade", student |-> s, row |-> req[w].row, items |-> DOMAIN items,
                     seen |-> [q \in DOMAIN answers[s] |->
                                 IF q \in DOMAIN items THEN items[q] ELSE answers[s][q]]])
  /\ UNCHANGED tables

\* An answer that keeps its session from being graded.
Ungraded_TextOnly(a) == a.points = None /\ a.essay
Ungraded(a) == a.points = None /\ (a.selected # "none" \/ a.essay)

OrZero(score) == IF score = None THEN 0 ELSE score

EarnedOn(sheet, questions) == MapThenSumSet(LAMBDA q : OrZero(sheet[q].points), questions)

\* Whatever a teacher graded counts, and every answer with a text.
EssayScore(sheet) == EarnedOn(sheet, {q \in DOMAIN sheet : sheet[q].essay \/ sheet[q].graded})

Total_EssaysOnly(row, essayScore) == essayScore
Total(row, essayScore) == OrZero(row.score_mcq) + essayScore

\* The session row when nothing is left to grade.
Graded(row, essayScore, committed) ==
  [status |-> Write(row.status, "GRADED", committed.status),
   score_mcq |-> committed.score_mcq,
   score_essay |-> Write(row.score_essay, essayScore, committed.score_essay),
   total_score |-> Write(row.total_score, Total(row, essayScore), committed.total_score)]

\* graded_by, a foreign key to teachers, is given the key of the user who
\* grades.
GraderFits(user) == user \in Teachers

\* An answer that is graded has its grader written with it. A body may grade
\* nothing, or nothing the session has.
GradeCommit(w) ==
  /\ req[w].op = "grade"
  /\ LET s == req[w].student
         row == req[w].row
         items == req[w].items
         seen == req[w].seen
     IN \E user \in Graders, given \in [items -> Points] :
          LET sheet == [q \in DOMAIN seen |->
                          IF q \in items
                          THEN [seen[q] EXCEPT !.points = given[q], !.graded = TRUE]
                          ELSE seen[q]]
              essayScore == EssayScore(sheet)
              allGraded == \A q \in DOMAIN sheet : ~Ungraded(sheet[q])
          IN /\ session[s] # NoSession
             /\ items # {} => GraderFits(user)
             /\ answers' = [answers EXCEPT ![s] =
                  [q \in DOMAIN answers[s] |->
                     IF q \in items
                     THEN [answers[s][q] EXCEPT
                             !.points = Write(seen[q].points, given[q], @), !.graded = TRUE]
                     ELSE answers[s][q]]]
             /\ session' = [session EXCEPT ![s] =
                  IF allGraded THEN Graded(row, essayScore, @) ELSE @]
  /\ Finish(w)
  /\ UNCHANGED <<exam, time_up>>

-----------------------------------------------------------------------------
\* get_db rolls back: a domain error, an integrity error, a stale row, a
\* cancelled request or a lost connection.
Abort(w) ==
  /\ req[w] # Idle
  /\ Finish(w)
  /\ UNCHANGED tables

Next ==
  \/ \E w \in Workers :
       \/ TransitionRead(w, "DRAFT", "PUBLISHED")
       \/ TransitionRead(w, "PUBLISHED", "ACTIVE")
       \/ TransitionCommit(w)
       \/ DeleteRead(w) \/ DeleteCommit(w)
       \/ \E s \in Students : StartRead(w, s) \/ SubmitReadSession(w, s) \/ GradeReadSession(w, s)
       \/ \E s \in Students, q \in Questions : SaveRead(w, s, q)
       \/ StartCommit(w)
       \/ SaveCommit(w)
       \/ SubmitReadAnswers(w) \/ SubmitCommit(w)
       \/ CompleteReadExam(w) \/ CompleteReadSessions(w)
       \/ \E s \in Students : CompleteReadAnswers(w, s)
       \/ CompleteCommit(w)
       \/ \E q \in Questions : GradeReadAnswer(w, q)
       \/ GradeReadRest(w) \/ GradeCommit(w)
       \/ Abort(w)
  \/ \E s \in Students : TimeRunsOut(s)

Spec == Init /\ [][Next]_vars

-----------------------------------------------------------------------------
TypeOK ==
  /\ exam \in ExamStatus \cup {"deleted"}
  /\ session \in [Students -> Session]
  /\ answers \in [Students -> Sheet]
  /\ time_up \in [Students -> BOOLEAN]
  /\ req \in [Workers -> Request]

\* A session shown as graded has a total, whichever of grading, submission and
\* the end of the exam made it so and however they overlapped.
GradedHasTotal ==
  \A s \in Students : session[s].status = "GRADED" => session[s].total_score # None

\* The commit of a submission, by the student or the end of the exam, that
\* read the session while it was in progress.
HandsInOpen(q, s) ==
  \/ q.op = "submit" /\ q.student = s /\ q.row.status = "IN_PROGRESS"
  \/ q.op = "complete" /\ s \in q.open

\* A result once shown is taken back only by a submission that was already
\* under way when the session was still in progress, or with the whole exam.
ResultsWithdrawnOnlyByStaleReads ==
  [][\A s \in Students :
       session[s].status = "GRADED" /\ session'[s].status # "GRADED" =>
         \/ exam' = "deleted"
         \/ \E w \in Workers : HandsInOpen(req[w], s) /\ req'[w] = Idle]_vars

\* A student still writing in a completed exam, whom nobody will hand in any
\* more, was late: the session was not there yet when the end of the exam read
\* the sessions, whatever else overlapped.
StillWriting(s) == session[s].status = "IN_PROGRESS" /\ exam = "COMPLETED"

LeftWritingOnlyByLateStart ==
  [][\A s \in Students : ~StillWriting(s) /\ StillWriting(s)' =>
       \E w \in Workers :
         /\ req'[w] = Idle
         /\ \/ req[w].op = "start" /\ req[w].student = s
            \/ req[w].op = "complete" /\ s \in req[w].absent]_vars

\* When requests do not overlap, a total that is written is what the answers of
\* the session have earned, with the points of an answer to a choice question
\* counted once more at most, and only if the student sent a text with it.
TotalIsEarned ==
  [][\A s \in Students :
       LET sheet == answers'[s]
           total == session'[s].total_score
       IN session'[s] # NoSession /\ total # session[s].total_score =>
            total \in {EarnedOn(sheet, DOMAIN sheet),
                       EarnedOn(sheet, DOMAIN sheet)
                         + EarnedOn(sheet, {q \in DOMAIN sheet \cap MCQs : sheet[q].essay})}]_vars

\* When requests do not overlap, a session becomes graded only once every essay
\* the student has answered has points. None has at present, see GraderFits, so
\* that an answered essay keeps its session from becoming graded.
GradedEssaysMarked ==
  [][\A s \in Students :
       session[s].status # "GRADED" /\ session'[s].status = "GRADED" =>
         \A q \in DOMAIN answers'[s] \cap EssayQs :
           LET a == answers'[s][q]
           IN a.points = None => a.selected = "none" /\ ~a.essay]_vars
=============================================================================
