----------------------------- MODULE ExamsProofs -----------------------------
(***************************************************************************)
(* Proofs about Exams, for any number of requests in flight, of students   *)
(* and of questions: what may take a result back and who is left writing,  *)
(* by an invariant that speaks of statuses only; types and what a graded   *)
(* session shows; and, for one request at a time, that totals are sums,    *)
(* that graded means marked, and that Exams implements Examination.        *)
(***************************************************************************)
EXTENDS MCExams, FiniteSetTheorems, WellFoundedInduction, TLAPS

HandedIn == {"SUBMITTED", "GRADED"}

\* Rows and requests are functions with the columns and fields the proofs name.
Shape ==
  /\ DOMAIN session = Students
  /\ \A s \in Students : "status" \in DOMAIN session[s]
  /\ DOMAIN req = Workers
  /\ \A w \in Workers : "op" \in DOMAIN req[w]

\* What a request remembers of the sessions was so when it read them, and
\* still is as far as it can no longer change: a session handed in is not
\* opened again, and one that the end of the exam found neither open nor
\* absent was handed in.
Remembered(q, phase, rows) ==
  /\ q.op = "transition" => q.to \in {"PUBLISHED", "ACTIVE"}
  /\ q.op \in {"submit.answers", "submit"} => q.row.status = "IN_PROGRESS"
  /\ q.op = "complete" =>
       /\ {"open", "absent"} \subseteq DOMAIN q
       /\ \A s \in Students \ (q.open \cup q.absent) :
            phase = "deleted" \/ rows[s].status \in HandedIn

AllRemembered == \A w \in Workers : Remembered(req[w], exam, session)

\* A session has one of the statuses, and only one without a row has none.
Statuses ==
  \A s \in Students :
    /\ session[s].status \in SessionStatus \cup {"none"}
    /\ session[s].status = "none" => session[s] = NoSession

Inv == Shape /\ Statuses /\ AllRemembered

-----------------------------------------------------------------------------
(* What a step does to a session *)

Unopened(s) == session[s].status = "none"

\* The ways the status of a session may go.
StatusMoves(s) ==
  \/ session'[s] = session[s]
  \/ exam' = "deleted" /\ session'[s] = NoSession
  \/ /\ ~Unopened(s)
     /\ session'[s].status = "GRADED" \/ session'[s].status = session[s].status
  \/ /\ session'[s].status \in HandedIn
     /\ \E w \in Workers : HandsInOpen(req[w], s) /\ req'[w] = Idle
  \/ /\ Unopened(s) /\ session'[s].status = "IN_PROGRESS"
     /\ \E w \in Workers : req[w].op = "start" /\ req[w].student = s /\ req'[w] = Idle

LEMMA SubmittedStatus ==
  ASSUME NEW row, NEW sheet, "status" \in DOMAIN row
  PROVE  /\ Submitted(row, sheet).status \in HandedIn
         /\ "status" \in DOMAIN Submitted(row, sheet)
BY DEF Submitted, HandedIn

LEMMA FinishIdle ==
  ASSUME Shape, NEW w \in Workers, NEW r, Serve(w, r)
  PROVE  /\ req'[w] = r /\ \A v \in Workers \ {w} : req'[v] = req[v]
         /\ DOMAIN req' = Workers
BY DEF Shape, Serve

\* The requests that leave every session as it is.
KeepsSessions(w) ==
  \/ TransitionRead(w, "DRAFT", "PUBLISHED") \/ TransitionRead(w, "PUBLISHED", "ACTIVE")
  \/ TransitionCommit(w) \/ DeleteRead(w)
  \/ \E s \in Students : StartRead(w, s) \/ SubmitReadSession(w, s) \/ GradeReadSession(w, s)
  \/ \E s \in Students, q \in Questions : SaveRead(w, s, q)
  \/ SaveCommit(w)
  \/ SubmitReadAnswers(w) \/ CompleteReadExam(w) \/ CompleteReadSessions(w)
  \/ \E s \in Students : CompleteReadAnswers(w, s)
  \/ \E q \in Questions : GradeReadAnswer(w, q)
  \/ GradeReadRest(w) \/ Abort(w)

LEMMA StartMoves ==
  ASSUME Inv, NEW w \in Workers, StartCommit(w), NEW s \in Students
  PROVE  StatusMoves(s) /\ "status" \in DOMAIN session'[s]
<1>1. req'[w] = Idle
  BY FinishIdle DEF Inv, StartCommit, Finish
<1>2. CASE req[w].student = s
  <2>1. session[s] = NoSession /\ session' = [session EXCEPT ![s].status = "IN_PROGRESS"]
    BY <1>2 DEF StartCommit
  <2>2. session'[s] = [NoSession EXCEPT !.status = "IN_PROGRESS"]
    BY <2>1 DEF Inv, Shape
  <2>3. session'[s].status = "IN_PROGRESS" /\ "status" \in DOMAIN session'[s]
    BY <2>2 DEF NoSession
  <2>4. Unopened(s) /\ req[w].op = "start"
    BY <2>1 DEF Unopened, NoSession, StartCommit
  <2>. QED  BY <1>1, <1>2, <2>3, <2>4 DEF StatusMoves
<1>3. CASE req[w].student # s
  <2>1. session'[s] = session[s]
    BY <1>3 DEF StartCommit, Inv, Shape
  <2>. QED  BY <2>1 DEF StatusMoves, Inv, Shape
<1>. QED  BY <1>2, <1>3

LEMMA SubmitMoves ==
  ASSUME Inv, NEW w \in Workers, SubmitCommit(w), NEW s \in Students
  PROVE  StatusMoves(s) /\ "status" \in DOMAIN session'[s]
<1>1. req'[w] = Idle
  BY FinishIdle DEF Inv, SubmitCommit, Finish
<1>2. CASE req[w].student = s
  <2>1. session'[s] = Submitted(session[s], req[w].seen)
    BY <1>2 DEF SubmitCommit, Inv, Shape
  <2>2. session'[s].status \in HandedIn /\ "status" \in DOMAIN session'[s]
    BY <2>1, SubmittedStatus DEF Inv, Shape
  <2>3. HandsInOpen(req[w], s)
    BY <1>2 DEF SubmitCommit, HandsInOpen, Inv, AllRemembered, Remembered
  <2>. QED  BY <1>1, <2>2, <2>3 DEF StatusMoves
<1>3. CASE req[w].student # s
  <2>1. session'[s] = session[s]
    BY <1>3 DEF SubmitCommit, Inv, Shape
  <2>. QED  BY <2>1 DEF StatusMoves, Inv, Shape
<1>. QED  BY <1>2, <1>3

LEMMA CompleteMoves ==
  ASSUME Inv, NEW w \in Workers, CompleteCommit(w), NEW s \in Students
  PROVE  /\ StatusMoves(s) /\ "status" \in DOMAIN session'[s]
         /\ s \in req[w].open => session'[s].status \in HandedIn
         /\ s \notin req[w].open => session'[s] = session[s]
<1>1. req'[w] = Idle
  BY FinishIdle DEF Inv, CompleteCommit, Finish
<1>2. CASE s \in req[w].open
  <2>1. session'[s] = Submitted(session[s], req[w].seen[s])
    BY <1>2 DEF CompleteCommit
  <2>2. session'[s].status \in HandedIn /\ "status" \in DOMAIN session'[s]
    BY <2>1, SubmittedStatus DEF Inv, Shape
  <2>3. HandsInOpen(req[w], s)
    BY <1>2 DEF CompleteCommit, HandsInOpen
  <2>. QED  BY <1>1, <1>2, <2>2, <2>3 DEF StatusMoves
<1>3. CASE s \notin req[w].open
  <2>1. session'[s] = session[s]
    BY <1>3 DEF CompleteCommit
  <2>. QED  BY <1>3, <2>1 DEF StatusMoves, Inv, Shape
<1>. QED  BY <1>2, <1>3

LEMMA GradeWrites ==
  ASSUME Inv, NEW w \in Workers, GradeCommit(w), NEW s \in Students, req[w].student = s
  PROVE  \E essayScore : session'[s] \in {session[s], Graded(req[w].row, essayScore, session[s])}
<1>1. PICK essayScore, allGraded :
        session' = [session EXCEPT ![s] =
                      IF allGraded THEN Graded(req[w].row, essayScore, session[s])
                      ELSE session[s]]
  BY DEF GradeCommit
<1>2. session'[s] \in {session[s], Graded(req[w].row, essayScore, session[s])}
  BY <1>1 DEF Inv, Shape
<1>. QED  BY <1>2

\* Grading writes the status it decided on, or leaves the one it finds.
LEMMA GradeMoves ==
  ASSUME Inv, NEW w \in Workers, GradeCommit(w), NEW s \in Students
  PROVE  StatusMoves(s) /\ "status" \in DOMAIN session'[s]
<1>2. CASE req[w].student = s
  <2>. DEFINE row == req[w].row
  <2>1. PICK essayScore :
          session'[s] \in {session[s], Graded(row, essayScore, session[s])}
    BY <1>2, GradeWrites DEF Inv, Shape
  <2>2. CASE session'[s] = session[s]
    BY <2>2 DEF StatusMoves, Inv, Shape
  <2>3. CASE session'[s] = Graded(row, essayScore, session[s])
    <3>1. /\ session'[s].status = Write(row.status, "GRADED", session[s].status)
          /\ "status" \in DOMAIN session'[s]
      BY <2>3 DEF Graded
    <3>2. ~Unopened(s)
      BY <1>2 DEF GradeCommit, Unopened, Inv, Statuses
    <3>. QED  BY <3>1, <3>2 DEF StatusMoves, Write
  <2>. QED  BY <2>1, <2>2, <2>3
<1>3. CASE req[w].student # s
  <2>1. session'[s] = session[s]
    BY <1>3 DEF GradeCommit, Inv, Shape
  <2>. QED  BY <2>1 DEF StatusMoves, Inv, Shape
<1>. QED  BY <1>2, <1>3

\* The steps of Next by what they do to the sessions.
WritesSessions(w) ==
  DeleteCommit(w) \/ StartCommit(w) \/ SubmitCommit(w) \/ CompleteCommit(w) \/ GradeCommit(w)

LEMMA NextCases ==
  Next => \/ \E w \in Workers : KeepsSessions(w) \/ WritesSessions(w)
          \/ \E s \in Students : TimeRunsOut(s)
BY DEF Next, KeepsSessions, WritesSessions

LEMMA KeepsUnchanged ==
  ASSUME NEW w \in Workers, KeepsSessions(w)
  PROVE  session' = session
BY DEF KeepsSessions, TransitionRead, TransitionCommit, DeleteRead, StartRead,
       SubmitReadSession, GradeReadSession, SaveRead, SaveCommit, SubmitReadAnswers,
       CompleteReadExam, CompleteReadSessions, CompleteReadAnswers, GradeReadAnswer,
       GradeReadRest, Abort, tables

LEMMA WritesMove ==
  ASSUME Inv, NEW w \in Workers, WritesSessions(w)
  PROVE  /\ DOMAIN session' = Students
         /\ \A s \in Students : StatusMoves(s) /\ "status" \in DOMAIN session'[s]
         /\ Finish(w)
<1>1. CASE DeleteCommit(w)
  <2>1. DOMAIN session' = Students /\ \A s \in Students : session'[s] = NoSession
    BY <1>1 DEF DeleteCommit
  <2>2. "status" \in DOMAIN NoSession
    BY DEF NoSession
  <2>. QED  BY <1>1, <2>1, <2>2 DEF DeleteCommit, StatusMoves
<1>2. CASE StartCommit(w)
  <2>1. DOMAIN session' = Students
    BY <1>2 DEF StartCommit, Inv, Shape
  <2>. QED  BY <1>2, <2>1, StartMoves DEF StartCommit
<1>3. CASE SubmitCommit(w)
  <2>1. DOMAIN session' = Students
    BY <1>3 DEF SubmitCommit, Inv, Shape
  <2>. QED  BY <1>3, <2>1, SubmitMoves DEF SubmitCommit
<1>4. CASE CompleteCommit(w)
  <2>1. DOMAIN session' = Students
    BY <1>4 DEF CompleteCommit
  <2>. QED  BY <1>4, <2>1, CompleteMoves DEF CompleteCommit
<1>5. CASE GradeCommit(w)
  <2>1. DOMAIN session' = Students
    BY <1>5 DEF GradeCommit, Inv, Shape
  <2>. QED  BY <1>5, <2>1, GradeMoves DEF GradeCommit
<1>. QED  BY <1>1, <1>2, <1>3, <1>4, <1>5 DEF WritesSessions

\* A deleted exam stays deleted.
LEMMA DeletedStays ==
  ASSUME Next, exam = "deleted"
  PROVE  exam' = "deleted"
BY ZenonT(60)
   DEF Next, TransitionRead, TransitionCommit, DeleteRead, DeleteCommit, StartRead, StartCommit,
       SubmitReadSession, GradeReadSession, SaveRead, SaveCommit, SubmitReadAnswers,
       SubmitCommit, CompleteReadExam, CompleteReadSessions, CompleteReadAnswers,
       CompleteCommit, GradeReadAnswer, GradeReadRest, GradeCommit, Abort, TimeRunsOut, tables

-----------------------------------------------------------------------------
(* The invariant is kept *)

\* A session handed in stays so, as long as its exam is there.
LEMMA HandedInStays ==
  ASSUME Inv, NEW s \in Students, StatusMoves(s), session[s].status \in HandedIn
  PROVE  exam' = "deleted" \/ session'[s].status \in HandedIn
BY DEF StatusMoves, Unopened, HandedIn

LEMMA StatusesStay ==
  ASSUME Inv, NEW s \in Students, StatusMoves(s)
  PROVE  /\ session'[s].status \in SessionStatus \cup {"none"}
         /\ session'[s].status = "none" => session'[s] = NoSession
<1>1. /\ session[s].status \in SessionStatus \cup {"none"}
      /\ session[s].status = "none" => session[s] = NoSession
  BY DEF Inv, Statuses
<1>. QED  BY <1>1 DEF StatusMoves, Unopened, HandedIn, SessionStatus, NoSession

\* What a request remembers stays true while it does nothing itself.
LEMMA RememberedStays ==
  ASSUME Inv, Next, NEW q, Remembered(q, exam, session), \A s \in Students : StatusMoves(s)
  PROVE  Remembered(q, exam', session')
BY HandedInStays, DeletedStays DEF Remembered

\* The new request of a step that keeps the sessions.
LEMMA KeepsRemembered ==
  ASSUME Inv, NEW w \in Workers, KeepsSessions(w)
  PROVE  /\ "op" \in DOMAIN req'[w]
         /\ Remembered(req'[w], exam', session')
         /\ \A v \in Workers \ {w} : req'[v] = req[v]
         /\ DOMAIN req' = Workers
<1>0. Shape /\ Statuses /\ Remembered(req[w], exam, session)
  BY DEF Inv, AllRemembered
<1>1. CASE TransitionRead(w, "DRAFT", "PUBLISHED") \/ TransitionRead(w, "PUBLISHED", "ACTIVE")
  <2>1. \E to \in {"PUBLISHED", "ACTIVE"} : Serve(w, [op |-> "transition", to |-> to])
    BY <1>1 DEF TransitionRead
  <2>. QED  BY <1>0, <2>1, FinishIdle DEF Remembered
<1>2. CASE TransitionCommit(w) \/ SaveCommit(w) \/ Abort(w)
  <2>1. Serve(w, [op |-> "idle"])
    BY <1>2 DEF TransitionCommit, SaveCommit, Abort, Finish, Idle
  <2>. QED  BY <1>0, <2>1, FinishIdle DEF Remembered
<1>3. CASE DeleteRead(w) \/ CompleteReadExam(w)
  <2>1. \E op \in {"delete", "complete.sessions"} : Serve(w, [op |-> op])
    BY <1>3 DEF DeleteRead, CompleteReadExam
  <2>. QED  BY <1>0, <2>1, FinishIdle DEF Remembered
<1>4. ASSUME NEW s \in Students, StartRead(w, s)
      PROVE  /\ "op" \in DOMAIN req'[w]
             /\ Remembered(req'[w], exam', session')
             /\ \A v \in Workers \ {w} : req'[v] = req[v]
             /\ DOMAIN req' = Workers
  <2>1. PICK questions \in SUBSET Questions :
          Serve(w, [op |-> "start", student |-> s, questions |-> questions])
    BY <1>4 DEF StartRead
  <2>. QED  BY <1>0, <2>1, FinishIdle DEF Remembered
<1>5. ASSUME NEW s \in Students, SubmitReadSession(w, s)
      PROVE  /\ "op" \in DOMAIN req'[w]
             /\ Remembered(req'[w], exam', session')
             /\ \A v \in Workers \ {w} : req'[v] = req[v]
             /\ DOMAIN req' = Workers
  <2>1. Serve(w, [op |-> "submit.answers", student |-> s, row |-> session[s]])
    BY <1>5 DEF SubmitReadSession
  <2>2. session[s].status = "IN_PROGRESS"
    BY <1>5 DEF SubmitReadSession, CanSubmit
  <2>. QED  BY <1>0, <2>1, <2>2, FinishIdle DEF Remembered
<1>6. ASSUME NEW s \in Students, GradeReadSession(w, s)
      PROVE  /\ "op" \in DOMAIN req'[w]
             /\ Remembered(req'[w], exam', session')
             /\ \A v \in Workers \ {w} : req'[v] = req[v]
             /\ DOMAIN req' = Workers
  <2>1. Serve(w, [op |-> "grade.answers", student |-> s, row |-> session[s], items |-> NoSheet])
    BY <1>6 DEF GradeReadSession
  <2>. QED  BY <1>0, <2>1, FinishIdle DEF Remembered
<1>7. ASSUME NEW s \in Students, NEW q \in Questions, SaveRead(w, s, q)
      PROVE  /\ "op" \in DOMAIN req'[w]
             /\ Remembered(req'[w], exam', session')
             /\ \A v \in Workers \ {w} : req'[v] = req[v]
             /\ DOMAIN req' = Workers
  <2>1. Serve(w, [op |-> "save", student |-> s, question |-> q, seen |-> answers[s][q]])
    BY <1>7 DEF SaveRead
  <2>. QED  BY <1>0, <2>1, FinishIdle DEF Remembered
<1>8. CASE SubmitReadAnswers(w)
  <2>1. Serve(w, [op |-> "submit", student |-> req[w].student, row |-> req[w].row,
                  seen |-> answers[req[w].student]])
    BY <1>8 DEF SubmitReadAnswers
  <2>2. req[w].row.status = "IN_PROGRESS"
    BY <1>0, <1>8 DEF SubmitReadAnswers, Remembered
  <2>. QED  BY <1>0, <2>1, <2>2, FinishIdle DEF Remembered
<1>9. CASE CompleteReadSessions(w)
  <2>. DEFINE open == {s \in Students : StillOpen(s)}
              absent == {s \in Students : session[s] = NoSession}
              none == [s \in Students |-> NoSheet]
  <2>1. Serve(w, [op |-> "complete", open |-> open, left |-> open, absent |-> absent,
                  seen |-> none])
    BY <1>9 DEF CompleteReadSessions
  <2>2. session' = session
    BY <1>9 DEF CompleteReadSessions, tables
  <2>3. \A s \in Students \ (open \cup absent) : session[s].status \in HandedIn
    BY <1>0 DEF StillOpen, Statuses, SessionStatus, HandedIn
  <2>. HIDE DEF open, absent, none
  <2>. QED  BY <1>0, <2>1, <2>2, <2>3, FinishIdle DEF Remembered
<1>10. ASSUME NEW s \in Students, CompleteReadAnswers(w, s)
       PROVE  /\ "op" \in DOMAIN req'[w]
              /\ Remembered(req'[w], exam', session')
              /\ \A v \in Workers \ {w} : req'[v] = req[v]
              /\ DOMAIN req' = Workers
  <2>1. /\ Serve(w, [req[w] EXCEPT !.left = @ \ {s}, !.seen[s] = answers[s]])
        /\ session' = session /\ exam' = exam
    BY <1>10 DEF CompleteReadAnswers, tables
  <2>2. req'[w] = [req[w] EXCEPT !.left = @ \ {s}, !.seen[s] = answers[s]]
    BY <1>0, <2>1, FinishIdle
  <2>3. /\ DOMAIN req'[w] = DOMAIN req[w]
        /\ "op" \in DOMAIN req[w] /\ {"open", "absent"} \subseteq DOMAIN req[w]
        /\ req[w].op = "complete"
    BY <1>0, <1>10, <2>2 DEF CompleteReadAnswers, Remembered, Shape
  <2>4. req'[w].op = "complete" /\ req'[w].open = req[w].open /\ req'[w].absent = req[w].absent
    BY <2>2, <2>3
  <2>. QED  BY <1>0, <2>1, <2>3, <2>4, FinishIdle DEF Remembered
<1>11. ASSUME NEW q \in Questions, GradeReadAnswer(w, q)
       PROVE  /\ "op" \in DOMAIN req'[w]
              /\ Remembered(req'[w], exam', session')
              /\ \A v \in Workers \ {w} : req'[v] = req[v]
              /\ DOMAIN req' = Workers
  <2>1. PICK items : Serve(w, [req[w] EXCEPT !.items = items])
    BY <1>11 DEF GradeReadAnswer
  <2>2. req'[w] = [req[w] EXCEPT !.items = items]
    BY <1>0, <2>1, FinishIdle
  <2>3. "op" \in DOMAIN req'[w] /\ req'[w].op = "grade.answers"
    BY <1>0, <1>11, <2>2 DEF GradeReadAnswer, Shape
  <2>. QED  BY <1>0, <2>1, <2>3, FinishIdle DEF Remembered
<1>12. CASE GradeReadRest(w)
  <2>1. PICK student, row, items, seen :
          Serve(w, [op |-> "grade", student |-> student, row |-> row, items |-> items,
                    seen |-> seen])
    BY <1>12 DEF GradeReadRest
  <2>. QED  BY <1>0, <2>1, FinishIdle DEF Remembered
<1>. QED  BY <1>1, <1>2, <1>3, <1>4, <1>5, <1>6, <1>7, <1>8, <1>9, <1>10, <1>11, <1>12
          DEF KeepsSessions

LEMMA TimeKeeps ==
  ASSUME NEW s \in Students, TimeRunsOut(s)
  PROVE  session' = session /\ req' = req /\ exam' = exam
BY DEF TimeRunsOut

\* Every step moves the sessions in one of the ways.
LEMMA NextMoves ==
  ASSUME Inv, Next
  PROVE  /\ DOMAIN session' = Students
         /\ \A s \in Students : StatusMoves(s) /\ "status" \in DOMAIN session'[s]
<1>1. CASE session' = session
  BY <1>1 DEF Inv, Shape, StatusMoves
<1>. QED  BY <1>1, NextCases, KeepsUnchanged, WritesMove, TimeKeeps

LEMMA InitInv == Init => Inv
<1>. SUFFICES ASSUME Init PROVE Inv
  OBVIOUS
<1>1. \A s \in Students : session[s] = NoSession
  BY DEF Init
<1>2. "status" \in DOMAIN NoSession /\ NoSession.status = "none"
  BY DEF NoSession
<1>3. \A w \in Workers : req[w] = [op |-> "idle"]
  BY DEF Init, Idle
<1>4. Shape
  BY <1>1, <1>2, <1>3 DEF Init, Shape
<1>5. AllRemembered
  BY <1>3 DEF AllRemembered, Remembered
<1>. QED  BY <1>1, <1>2, <1>4, <1>5 DEF Inv, Statuses

LEMMA NextInv == Inv /\ [Next]_vars => Inv'
<1>1. ASSUME Inv, Next PROVE Inv'
  <2>1. /\ DOMAIN session' = Students
        /\ \A s \in Students : StatusMoves(s) /\ "status" \in DOMAIN session'[s]
    BY <1>1, NextMoves
  <2>2. Statuses'
    BY <1>1, <2>1, StatusesStay DEF Statuses
  <2>3. \A w \in Workers : Remembered(req[w], exam', session') /\ "op" \in DOMAIN req[w]
    BY <1>1, <2>1, RememberedStays DEF Inv, AllRemembered, Shape
  <2>4. /\ DOMAIN req' = Workers
        /\ \A v \in Workers : Remembered(req'[v], exam', session') /\ "op" \in DOMAIN req'[v]
    <3>1. ASSUME NEW w \in Workers, KeepsSessions(w)
          PROVE  /\ DOMAIN req' = Workers
                 /\ \A v \in Workers :
                      Remembered(req'[v], exam', session') /\ "op" \in DOMAIN req'[v]
      BY <1>1, <2>3, <3>1, KeepsRemembered
    <3>2. ASSUME NEW w \in Workers, WritesSessions(w)
          PROVE  /\ DOMAIN req' = Workers
                 /\ \A v \in Workers :
                      Remembered(req'[v], exam', session') /\ "op" \in DOMAIN req'[v]
      <4>1. /\ req'[w] = Idle /\ \A v \in Workers \ {w} : req'[v] = req[v]
            /\ DOMAIN req' = Workers
        BY <1>1, <3>2, WritesMove, FinishIdle DEF Finish, Inv
      <4>2. Remembered(Idle, exam', session') /\ "op" \in DOMAIN Idle
        BY DEF Remembered, Idle
      <4>. QED  BY <2>3, <4>1, <4>2
    <3>3. ASSUME NEW s \in Students, TimeRunsOut(s)
          PROVE  /\ DOMAIN req' = Workers
                 /\ \A v \in Workers :
                      Remembered(req'[v], exam', session') /\ "op" \in DOMAIN req'[v]
      BY <1>1, <2>3, <3>3, TimeKeeps DEF Inv, Shape
    <3>. QED  BY <1>1, <3>1, <3>2, <3>3, NextCases
  <2>. QED  BY <2>1, <2>2, <2>4 DEF Inv, Shape, AllRemembered
<1>2. ASSUME Inv, UNCHANGED vars PROVE Inv'
  BY <1>2 DEF vars, tables, Inv, Shape, Statuses, AllRemembered
<1>. QED  BY <1>1, <1>2

-----------------------------------------------------------------------------
(* Results and latecomers *)

\* A graded session loses its grade only with its exam, or at the commit of a
\* submission that read the session before: every request remembers a session
\* that was in progress if it is going to submit it.
THEOREM ResultsWithdrawn == Spec => ResultsWithdrawnOnlyByStaleReads
<1>1. Inv /\ [Next]_vars =>
        [\A s \in Students :
           session[s].status = "GRADED" /\ session'[s].status # "GRADED" =>
             \/ exam' = "deleted"
             \/ \E w \in Workers : HandsInOpen(req[w], s) /\ req'[w] = Idle]_vars
  <2>1. ASSUME Inv, Next, NEW s \in Students,
               session[s].status = "GRADED", session'[s].status # "GRADED"
        PROVE  exam' = "deleted" \/ \E w \in Workers : HandsInOpen(req[w], s) /\ req'[w] = Idle
    BY <2>1, NextMoves DEF StatusMoves, Unopened
  <2>. QED  BY <2>1
<1>. QED  BY <1>1, InitInv, NextInv, PTL DEF Spec, ResultsWithdrawnOnlyByStaleReads

\* The exam becomes completed at the commit that hands in every session its
\* request found open.
LEMMA CompletedBy ==
  ASSUME Inv, Next, exam # "COMPLETED", exam' = "COMPLETED"
  PROVE  \E w \in Workers : CompleteCommit(w)
<1>1. \A w \in Workers : TransitionCommit(w) => exam' # "COMPLETED"
  BY DEF TransitionCommit, Inv, AllRemembered, Remembered
<1>. QED  BY <1>1, ZenonT(60)
  DEF Next, TransitionRead, DeleteRead, DeleteCommit, StartRead, StartCommit,
      SubmitReadSession, GradeReadSession, SaveRead, SaveCommit, SubmitReadAnswers,
      SubmitCommit, CompleteReadExam, CompleteReadSessions, CompleteReadAnswers,
      GradeReadAnswer, GradeReadRest, GradeCommit, Abort, TimeRunsOut, tables

\* A student is left writing in a completed exam only by a start that commits
\* after it, or by an end of the exam that did not find a session of his.
THEOREM LeftWriting == Spec => LeftWritingOnlyByLateStart
<1>1. ASSUME Inv, Next, NEW s \in Students, ~StillWriting(s), StillWriting(s)'
      PROVE  \E w \in Workers :
               /\ req'[w] = Idle
               /\ \/ req[w].op = "start" /\ req[w].student = s
                  \/ req[w].op = "complete" /\ s \in req[w].absent
  <2>1. session'[s].status = "IN_PROGRESS" /\ exam' = "COMPLETED"
    BY <1>1 DEF StillWriting
  <2>2. CASE session[s].status # "IN_PROGRESS"
    BY <1>1, <2>1, <2>2, NextMoves DEF StatusMoves, HandedIn
  <2>3. CASE session[s].status = "IN_PROGRESS"
    <3>1. exam # "COMPLETED"
      BY <1>1, <2>3 DEF StillWriting
    <3>2. PICK w \in Workers : CompleteCommit(w)
      BY <1>1, <2>1, <3>1, CompletedBy
    <3>3. s \notin req[w].open
      BY <1>1, <2>1, <3>2, CompleteMoves DEF HandedIn
    <3>4. exam # "deleted" /\ req[w].op = "complete" /\ Finish(w)
      BY <3>2 DEF CompleteCommit
    <3>5. s \in req[w].absent
      BY <1>1, <2>3, <3>3, <3>4 DEF Inv, AllRemembered, Remembered, HandedIn
    <3>6. req'[w] = Idle
      BY <1>1, <3>4, FinishIdle DEF Finish, Inv
    <3>. QED  BY <3>4, <3>5, <3>6
  <2>. QED  BY <2>2, <2>3
<1>2. Inv /\ [Next]_vars =>
        [\A s \in Students : ~StillWriting(s) /\ StillWriting(s)' =>
           \E w \in Workers :
             /\ req'[w] = Idle
             /\ \/ req[w].op = "start" /\ req[w].student = s
                \/ req[w].op = "complete" /\ s \in req[w].absent]_vars
  BY <1>1
<1>. QED  BY <1>2, InitInv, NextInv, PTL DEF Spec, LeftWritingOnlyByLateStart

-----------------------------------------------------------------------------
(* Sums over a finite set. MapThenSumSet is a recursion on its subsets; what *)
(* is said of it here is shown by a minimal counterexample.                  *)

Pick(T) == CHOOSE x \in T : TRUE

\* The recursion by which MapThenSumSet adds up v, over the sets in D.
IsSumOn(g, D, v) ==
  g = [T \in D |-> IF T = {} THEN 0 ELSE v[Pick(T)] + g[T \ {Pick(T)}]]

\* A set of numbers with a member has a least one.
LEMMA Least ==
  ASSUME NEW T \in SUBSET Nat, T # {}
  PROVE  \E n \in T : \A m \in T : n <= m
<1>1. IsWellFoundedOn(OpToRel(<, Nat), Nat)
  BY NatLessThanWellFounded
<1>2. PICK n \in T : \A m \in T : ~ (<<m, n>> \in OpToRel(<, Nat))
  BY <1>1, WFMin
<1>3. \A m \in T : ~(m < n)
  BY <1>2 DEF OpToRel
<1>. QED  BY <1>3

Small(S, n) == {T \in SUBSET S : Cardinality(T) <= n}

\* The recursion has a solution on the subsets of at most n members: there is no
\* least n for which it has none.
LEMMA SumUpTo ==
  ASSUME NEW S, IsFiniteSet(S), NEW v
  PROVE  \A n \in Nat : \E g : IsSumOn(g, Small(S, n), v)
<1>. DEFINE Bad == {n \in Nat : ~\E g : IsSumOn(g, Small(S, n), v)}
<1>0. \A T \in SUBSET S : IsFiniteSet(T) /\ Cardinality(T) \in Nat
  BY FS_Subset, FS_CardinalityType
<1>1. \E g : IsSumOn(g, Small(S, 0), v)
  <2>1. \A T \in Small(S, 0) : T = {}
    <3>1. \A T \in Small(S, 0) : IsFiniteSet(T) /\ Cardinality(T) = 0
      BY <1>0 DEF Small
    <3>. QED  BY <3>1, FS_EmptySet, Zenon
  <2>2. IsSumOn([T \in Small(S, 0) |-> 0], Small(S, 0), v)
    BY <2>1 DEF IsSumOn
  <2>. QED  BY <2>2
<1>2. ASSUME NEW n \in Nat, NEW g, IsSumOn(g, Small(S, n), v)
      PROVE  \E h : IsSumOn(h, Small(S, n + 1), v)
  <2>. DEFINE D == Small(S, n + 1)
              h == [T \in D |-> IF T = {} THEN 0 ELSE v[Pick(T)] + g[T \ {Pick(T)}]]
  <2>1. ASSUME NEW T \in D, T # {}
        PROVE  T \ {Pick(T)} \in Small(S, n) /\ T \ {Pick(T)} \in D
    <3>1. Pick(T) \in T
      BY <2>1 DEF Pick
    <3>2. IsFiniteSet(T) /\ Cardinality(T) <= n + 1 /\ T \subseteq S /\ Cardinality(T) \in Nat
      BY <1>0 DEF Small
    <3>3. Cardinality(T \ {Pick(T)}) = Cardinality(T) - 1
      BY <3>1, <3>2, FS_RemoveElement
    <3>. QED  BY <3>2, <3>3 DEF Small
  <2>2. \A T \in Small(S, n) : T \in D /\ h[T] = g[T]
    <3>1. Small(S, n) \subseteq D
      BY <1>0 DEF Small
    <3>2. \A T \in Small(S, n) : g[T] = IF T = {} THEN 0 ELSE v[Pick(T)] + g[T \ {Pick(T)}]
      BY <1>2, Zenon DEF IsSumOn
    <3>. QED  BY <3>1, <3>2
  <2>3. h = [T \in D |-> IF T = {} THEN 0 ELSE v[Pick(T)] + h[T \ {Pick(T)}]]
    <3>1. \A T \in D : T # {} => h[T \ {Pick(T)}] = g[T \ {Pick(T)}]
      BY <2>1, <2>2
    <3>. HIDE DEF D
    <3>. QED  BY <3>1
  <2>. HIDE DEF h
  <2>. QED  BY <2>3 DEF IsSumOn
<1>3. ASSUME Bad # {} PROVE FALSE
  <2>1. PICK n \in Bad : \A m \in Bad : n <= m
    BY <1>3, Least
  <2>2. n # 0
    BY <1>1
  <2>3. n - 1 \in Nat /\ n - 1 \notin Bad /\ (n - 1) + 1 = n
    BY <2>1, <2>2
  <2>4. PICK g : IsSumOn(g, Small(S, n - 1), v)
    BY <2>3
  <2>5. \E h : IsSumOn(h, Small(S, (n - 1) + 1), v)
    BY <1>2, <2>3, <2>4
  <2>. QED  BY <2>3, <2>5
<1>. QED  BY <1>3

\* So it has one on all subsets of a finite set.
LEMMA SumExists ==
  ASSUME NEW S, IsFiniteSet(S), NEW v
  PROVE  \E g : IsSumOn(g, SUBSET S, v)
<1>1. Cardinality(S) \in Nat /\ \A T \in SUBSET S : Cardinality(T) <= Cardinality(S)
  BY FS_Subset, FS_CardinalityType
<1>2. Small(S, Cardinality(S)) = SUBSET S
  BY <1>1 DEF Small
<1>3. \E g : IsSumOn(g, Small(S, Cardinality(S)), v)
  BY <1>1, SumUpTo
<1>. QED  BY <1>2, <1>3

\* A family of subsets of a finite set has a member that includes no other.
LEMMA Minimal ==
  ASSUME NEW S, IsFiniteSet(S), NEW Bad \in SUBSET SUBSET S, Bad # {}
  PROVE  \E T \in Bad : \A U \in Bad : U \subseteq T => U = T
<1>1. IsWellFoundedOn(StrictSubsetOrdering(S), SUBSET S)
  BY FS_StrictSubsetOrderingWellFounded, FS_FiniteSubsetsOfFinite
<1>2. PICK T \in Bad : \A U \in Bad : ~ (<<U, T>> \in StrictSubsetOrdering(S))
  BY <1>1, WFMin
<1>3. \A U \in Bad : U \subseteq T => U = T
  BY <1>2 DEF StrictSubsetOrdering
<1>. QED  BY <1>3

\* What the recursion says of g.
Unfolds(g, S, v) ==
  /\ g[{}] = 0
  /\ \A T \in SUBSET S : T # {} => \E x \in T : g[T] = v[x] + g[T \ {x}]

LEMMA SumUnfolds ==
  ASSUME NEW S, NEW v, NEW g, IsSumOn(g, SUBSET S, v)
  PROVE  Unfolds(g, S, v)
<1>1. \A T \in SUBSET S : g[T] = IF T = {} THEN 0 ELSE v[Pick(T)] + g[T \ {Pick(T)}]
  BY Zenon DEF IsSumOn
<1>2. \A T : T # {} => Pick(T) \in T
  BY DEF Pick
<1>3. g[{}] = 0
  BY <1>1, Zenon
<1>4. ASSUME NEW T \in SUBSET S, T # {}
      PROVE  \E x \in T : g[T] = v[x] + g[T \ {x}]
  BY <1>1, <1>2, <1>4, Zenon
<1>. QED  BY <1>3, <1>4 DEF Unfolds

LEMMA SumType ==
  ASSUME NEW S, IsFiniteSet(S), NEW v, \A x \in S : v[x] \in Nat,
         NEW g, Unfolds(g, S, v)
  PROVE  \A T \in SUBSET S : g[T] \in Nat
<1>. DEFINE Bad == {T \in SUBSET S : g[T] \notin Nat}
<1>1. Bad \in SUBSET SUBSET S
  OBVIOUS
<1>2. g[{}] \in Nat
  BY DEF Unfolds
<1>3. ASSUME NEW T \in Bad, \A U \in Bad : U \subseteq T => U = T
      PROVE  FALSE
  <2>1. T \in SUBSET S /\ T # {}
    BY <1>2
  <2>2. PICK x \in T : g[T] = v[x] + g[T \ {x}]
    BY <2>1 DEF Unfolds
  <2>3. g[T \ {x}] \in Nat
    BY <1>3, <2>1, <2>2
  <2>4. v[x] \in Nat
    BY <2>1, <2>2
  <2>5. g[T] \in Nat
    BY <2>2, <2>3, <2>4
  <2>. QED  BY <2>5
<1>4. Bad = {}
  <2>. HIDE DEF Bad
  <2>. QED  BY <1>1, <1>3, Minimal
<1>. QED  BY <1>4

\* Where every member is worth one or nothing, the sum counts those worth one.
OneOn(v, S, R) == \A x \in S : v[x] = IF x \in R THEN 1 ELSE 0

LEMMA SumCounts ==
  ASSUME NEW S, IsFiniteSet(S), NEW v, NEW R, OneOn(v, S, R), NEW g, Unfolds(g, S, v)
  PROVE  g[S] = Cardinality(S \cap R)
<1>. DEFINE Bad == {T \in SUBSET S : g[T] # Cardinality(T \cap R)}
<1>1. Bad \in SUBSET SUBSET S
  OBVIOUS
<1>2. g[{}] = Cardinality({} \cap R)
  <2>1. {} \cap R = {}
    OBVIOUS
  <2>. QED  BY <2>1, FS_EmptySet DEF Unfolds
<1>3. ASSUME NEW T \in Bad, \A U \in Bad : U \subseteq T => U = T
      PROVE  FALSE
  <2>1. T \in SUBSET S /\ T # {} /\ g[T] # Cardinality(T \cap R)
    BY <1>2
  <2>2. PICK x \in T : g[T] = v[x] + g[T \ {x}]
    BY <2>1 DEF Unfolds
  <2>3. g[T \ {x}] = Cardinality((T \ {x}) \cap R)
    BY <1>3, <2>1, <2>2
  <2>4. IsFiniteSet(T \cap R) /\ Cardinality(T \cap R) \in Nat
    BY <2>1, FS_Subset, FS_CardinalityType
  <2>5. CASE x \in R
    <3>1. (T \ {x}) \cap R = (T \cap R) \ {x} /\ x \in T \cap R
      BY <2>5
    <3>2. Cardinality((T \cap R) \ {x}) = Cardinality(T \cap R) - 1
      BY <2>4, <3>1, FS_RemoveElement
    <3>3. g[T] = 1 + (Cardinality(T \cap R) - 1)
      BY <2>1, <2>2, <2>3, <2>5, <3>1, <3>2 DEF OneOn
    <3>. QED  BY <2>1, <2>4, <3>3
  <2>6. CASE x \notin R
    <3>1. (T \ {x}) \cap R = T \cap R
      BY <2>6
    <3>2. g[T] = 0 + Cardinality(T \cap R)
      BY <2>1, <2>2, <2>3, <2>6, <3>1 DEF OneOn
    <3>. QED  BY <2>1, <2>4, <3>2
  <2>. QED  BY <2>5, <2>6
<1>4. Bad = {}
  <2>. HIDE DEF Bad
  <2>. QED  BY <1>1, <1>3, Minimal
<1>. QED  BY <1>4

-----------------------------------------------------------------------------
(* Types *)

LEMMA SheetShape ==
  ASSUME NEW sheet \in Sheet
  PROVE  /\ DOMAIN sheet \subseteq Questions /\ IsFiniteSet(DOMAIN sheet)
         /\ \A q \in DOMAIN sheet : sheet[q] \in Answer
<1>1. PICK S \in SUBSET Questions : sheet \in [S -> Answer]
  BY DEF Sheet
<1>2. IsFiniteSet(Questions)
  BY QuestionsAssumption, FS_Union DEF Questions
<1>. QED  BY <1>1, <1>2, FS_Subset

LEMMA SheetOf ==
  ASSUME NEW S \in SUBSET Questions, NEW sheet \in [S -> Answer]
  PROVE  sheet \in Sheet
BY DEF Sheet

LEMMA BlankAnswer == Blank \in Answer /\ NoSheet \in Sheet
<1>1. Blank \in Answer
  BY DEF Blank, Answer, Option
<1>2. NoSheet \in [{} -> Answer]
  BY DEF NoSheet
<1>. QED  BY <1>1, <1>2, SheetOf

LEMMA NoSessionType == NoSession \in Session
BY DEF NoSession, Session, Score

LEMMA ScoreOnType ==
  ASSUME NEW sheet \in Sheet
  PROVE  ScoreOn(sheet) \in Nat
<1>1. IsFiniteSet({q \in DOMAIN sheet \cap MCQs : sheet[q].selected = "right"})
  BY SheetShape, FS_Subset
<1>. QED  BY <1>1, FS_CardinalityType DEF ScoreOn

LEMMA SubmittedType ==
  ASSUME NEW row \in Session, NEW sheet \in Sheet
  PROVE  /\ Submitted(row, sheet) \in Session
         /\ Submitted(row, sheet).status \in {"SUBMITTED", "GRADED"}
         /\ Submitted(row, sheet).status = "GRADED" => Submitted(row, sheet).total_score \in Nat
         /\ row.total_score \in Nat => Submitted(row, sheet).total_score \in Nat
<1>1. ScoreOn(sheet) \in Nat
  BY ScoreOnType
<1>2. CASE DOMAIN sheet \cap EssayQs = {}
  BY <1>1, <1>2 DEF Submitted, Session, Score, SessionStatus
<1>3. CASE DOMAIN sheet \cap EssayQs # {}
  BY <1>1, <1>3 DEF Submitted, Session, Score, SessionStatus
<1>. QED  BY <1>2, <1>3

LEMMA MarkedType ==
  ASSUME NEW committed \in Sheet, NEW seen
  PROVE  Marked(committed, seen) \in Sheet
<1>1. DOMAIN committed \subseteq Questions /\ \A q \in DOMAIN committed : committed[q] \in Answer
  BY SheetShape
<1>2. ASSUME NEW q \in DOMAIN committed
      PROVE  Marked(committed, seen)[q] \in Answer
  <2>1. ASSUME NEW points \in {0, 1}
        PROVE  [committed[q] EXCEPT !.points = Write(seen[q].points, points, @)] \in Answer
    BY <1>1 DEF Answer, Write
  <2>2. Marked(committed, seen)[q] = committed[q] \/
          \E points \in {0, 1} :
            Marked(committed, seen)[q] =
              [committed[q] EXCEPT !.points = Write(seen[q].points, points, @)]
    BY DEF Marked
  <2>. QED  BY <1>1, <2>1, <2>2
<1>3. Marked(committed, seen) \in [DOMAIN committed -> Answer]
  BY <1>2 DEF Marked
<1>. QED  BY <1>1, <1>3, SheetOf

\* A grade put into an answer, over what was read of it.
LEMMA GradedAnswerType ==
  ASSUME NEW a \in Answer, NEW read, NEW points \in Points
  PROVE  /\ [a EXCEPT !.points = Write(read, points, @), !.graded = TRUE] \in Answer
         /\ [a EXCEPT !.points = points, !.graded = TRUE] \in Answer
BY DEF Answer, Write

LEMMA GradedType ==
  ASSUME NEW row \in Session, NEW committed \in Session, NEW essayScore \in Nat
  PROVE  /\ Graded(row, essayScore, committed) \in Session
         /\ Total(row, essayScore) \in Nat
         /\ Graded(row, essayScore, committed).total_score =
              Write(row.total_score, Total(row, essayScore), committed.total_score)
<1>1. Total(row, essayScore) \in Nat
  BY DEF Total, OrZero, Session, Score
<1>2. /\ Write(row.status, "GRADED", committed.status) \in SessionStatus \cup {"none"}
      /\ committed.score_mcq \in Score
      /\ Write(row.score_essay, essayScore, committed.score_essay) \in Score
      /\ Write(row.total_score, Total(row, essayScore), committed.total_score) \in Score
  BY <1>1 DEF Write, Session, Score, SessionStatus
<1>. QED  BY <1>1, <1>2 DEF Graded, Session

LEMMA RequestShape ==
  ASSUME NEW q \in Request
  PROVE  /\ q.op = "transition" => q.to \in ExamStatus
         /\ q.op \in {"start", "save", "submit.answers", "submit", "grade.answers", "grade"} =>
              q.student \in Students
         /\ q.op = "start" => q.questions \in SUBSET Questions
         /\ q.op = "save" => q.question \in Questions /\ q.seen \in Answer
         /\ q.op \in {"submit.answers", "submit", "grade.answers", "grade"} => q.row \in Session
         /\ q.op \in {"submit", "grade"} => q.seen \in Sheet
         /\ q.op = "grade.answers" => q.items \in Sheet
         /\ q.op = "grade" => q.items \in SUBSET Questions
         /\ q.op = "complete" =>
              /\ q \in [op : {"complete"}, open : SUBSET Students, absent : SUBSET Students,
                        left : SUBSET Students, seen : [Students -> Sheet]]
              /\ q.seen \in [Students -> Sheet] /\ q.open \in SUBSET Students
BY DEF Request, Idle

LEMMA ServeType ==
  ASSUME TypeOK, NEW w \in Workers, NEW q \in Request, Serve(w, q)
  PROVE  /\ req' \in [Workers -> Request]
         /\ req'[w] = q
         /\ \A v \in Workers \ {w} : req'[v] = req[v]
BY DEF TypeOK, Serve

LEMMA FinishType ==
  ASSUME TypeOK, NEW w \in Workers, Finish(w)
  PROVE  req' \in [Workers -> Request] /\ req'[w] = Idle /\ \A v \in Workers \ {w} : req'[v] = req[v]
<1>1. Idle \in Request
  BY DEF Request
<1>. QED  BY <1>1, ServeType DEF Finish

LEMMA PointsType ==
  ASSUME NEW a \in Answer
  PROVE  a.points \in Nat \cup {None}
<1>1. a.points \in Points \/ a.points \in {0, 1} \/ a.points = None
  BY DEF Answer
<1>2. a.points \in Points => a.points \in Nat
  BY PointsAssumption
<1>3. a.points \in {0, 1} => a.points \in Nat
  OBVIOUS
<1>. QED  BY <1>1, <1>2, <1>3

PointsOn(sheet, T) == [q \in T |-> OrZero(sheet[q].points)]

LEMMA PointsOnType ==
  ASSUME NEW sheet \in Sheet, NEW T \in SUBSET DOMAIN sheet
  PROVE  IsFiniteSet(T) /\ \A q \in T : PointsOn(sheet, T)[q] \in Nat
<1>1. IsFiniteSet(T)
  BY SheetShape, FS_Subset
<1>2. \A q \in T : sheet[q].points \in Nat \cup {None}
  BY SheetShape, PointsType
<1>. QED  BY <1>1, <1>2 DEF PointsOn, OrZero

\* EarnedOn adds up as the recursion does.
LEMMA EarnedOnUnfolds ==
  ASSUME NEW sheet \in Sheet, NEW T \in SUBSET DOMAIN sheet
  PROVE  \E g : Unfolds(g, T, PointsOn(sheet, T)) /\ EarnedOn(sheet, T) = g[T]
<1>. DEFINE points == PointsOn(sheet, T)
            Iterates(g) ==
              g = [s \in SUBSET T |->
                     IF s = {} THEN 0
                     ELSE OrZero(sheet[CHOOSE q \in s : TRUE].points)
                            + g[s \ {CHOOSE q \in s : TRUE}]]
            iter == CHOOSE g : Iterates(g)
<1>1. IsFiniteSet(T)
  BY PointsOnType
<1>2. \A s \in SUBSET T : s # {} => points[Pick(s)] = OrZero(sheet[Pick(s)].points)
  BY DEF Pick, PointsOn
<1>3. \E g : IsSumOn(g, SUBSET T, points)
  <2>. HIDE DEF points
  <2>. QED  BY <1>1, SumExists
<1>4. ASSUME NEW g, IsSumOn(g, SUBSET T, points)
      PROVE  Iterates(g)
  <2>. HIDE DEF points
  <2>1. g = [s \in SUBSET T |->
               IF s = {} THEN 0 ELSE OrZero(sheet[Pick(s)].points) + g[s \ {Pick(s)}]]
    BY <1>2, <1>4 DEF IsSumOn
  <2>. QED  BY <2>1 DEF Pick
<1>5. Iterates(iter)
  <2>. HIDE DEF Iterates
  <2>. QED  BY <1>3, <1>4
<1>6. IsSumOn(iter, SUBSET T, points)
  <2>1. iter = [s \in SUBSET T |->
                  IF s = {} THEN 0 ELSE OrZero(sheet[Pick(s)].points) + iter[s \ {Pick(s)}]]
    <3>. HIDE DEF points, iter
    <3>. QED  BY <1>5 DEF Pick
  <2>. HIDE DEF points, iter
  <2>. QED  BY <1>2, <2>1 DEF IsSumOn
<1>7. EarnedOn(sheet, T) = iter[T]
  BY DEF EarnedOn, MapThenSumSet, MapThenFoldSet
<1>. HIDE DEF points, iter
<1>8. Unfolds(iter, T, points)
  BY <1>6, SumUnfolds
<1>. QED  BY <1>7, <1>8 DEF points

LEMMA EarnedOnType ==
  ASSUME NEW sheet \in Sheet, NEW T \in SUBSET DOMAIN sheet
  PROVE  EarnedOn(sheet, T) \in Nat
<1>1. PICK g : Unfolds(g, T, PointsOn(sheet, T)) /\ EarnedOn(sheet, T) = g[T]
  BY EarnedOnUnfolds
<1>2. \A U \in SUBSET T : g[U] \in Nat
  BY <1>1, PointsOnType, SumType
<1>. QED  BY <1>1, <1>2

\* What counts of a sheet adds up to a number.
LEMMA EssayScoreType ==
  ASSUME NEW sheet \in Sheet
  PROVE  EssayScore(sheet) \in Nat
BY EarnedOnType DEF EssayScore

\* The rows a step leaves and the request it serves have their types.
LEMMA InitType == Init => TypeOK
<1>. SUFFICES ASSUME Init PROVE TypeOK
  OBVIOUS
<1>1. session \in [Students -> Session] /\ answers \in [Students -> Sheet]
  BY NoSessionType, BlankAnswer DEF Init
<1>2. req \in [Workers -> Request]
  BY DEF Init, Request
<1>. QED  BY <1>1, <1>2 DEF Init, TypeOK, ExamStatus

LEMMA TransitionType ==
  ASSUME TypeOK, NEW w \in Workers,
         \/ TransitionRead(w, "DRAFT", "PUBLISHED") \/ TransitionRead(w, "PUBLISHED", "ACTIVE")
         \/ TransitionCommit(w) \/ DeleteRead(w) \/ DeleteCommit(w) \/ CompleteReadExam(w)
         \/ Abort(w)
  PROVE  TypeOK'
<1>1. CASE TransitionRead(w, "DRAFT", "PUBLISHED") \/ TransitionRead(w, "PUBLISHED", "ACTIVE")
  <2>1. PICK to \in ExamStatus : Serve(w, [op |-> "transition", to |-> to])
    BY <1>1 DEF TransitionRead, ExamStatus
  <2>2. [op |-> "transition", to |-> to] \in Request
    BY DEF Request
  <2>. QED  BY <1>1, <2>1, <2>2, ServeType DEF TransitionRead, TypeOK, tables
<1>2. CASE TransitionCommit(w)
  BY <1>2, RequestShape, FinishType DEF TransitionCommit, TypeOK
<1>3. CASE DeleteRead(w) \/ CompleteReadExam(w)
  <2>1. PICK op \in {"delete", "complete.sessions"} : Serve(w, [op |-> op])
    BY <1>3 DEF DeleteRead, CompleteReadExam
  <2>2. [op |-> op] \in Request
    BY DEF Request
  <2>. QED  BY <1>3, <2>1, <2>2, ServeType DEF DeleteRead, CompleteReadExam, TypeOK, tables
<1>4. CASE DeleteCommit(w)
  <2>1. session' \in [Students -> Session] /\ answers' \in [Students -> Sheet]
    BY <1>4, NoSessionType, BlankAnswer DEF DeleteCommit
  <2>. QED  BY <1>4, <2>1, FinishType DEF DeleteCommit, TypeOK
<1>5. CASE Abort(w)
  BY <1>5, FinishType DEF Abort, TypeOK, tables
<1>. QED  BY <1>1, <1>2, <1>3, <1>4, <1>5

\* A save writes what was sent, or leaves what was there.
LEMMA SavedReply ==
  ASSUME TypeOK, NEW w \in Workers, SaveCommit(w)
  PROVE  LET s == req[w].student
             q == req[w].question
         IN \E sel \in Option, ess \in BOOLEAN :
              answers' = [answers EXCEPT ![s][q].selected = sel, ![s][q].essay = ess]
<1>. DEFINE s == req[w].student
            q == req[w].question
            seen == req[w].seen
            Sel(reply) == Written(seen.selected, reply.selected, {"none", "right"},
                                  answers[s][q].selected)
            Ess(reply) == Written(seen.essay, reply.essay, {FALSE}, answers[s][q].essay)
<1>0. PICK reply \in Replies(q) :
        \E sel \in Sel(reply), ess \in Ess(reply) :
          answers' = [answers EXCEPT ![s][q].selected = sel, ![s][q].essay = ess]
  BY DEF SaveCommit
<1>1. PICK sel \in Sel(reply), ess \in Ess(reply) :
        answers' = [answers EXCEPT ![s][q].selected = sel, ![s][q].essay = ess]
  BY <1>0
<1>2. answers[s][q] \in Answer
  <2>1. s \in Students /\ q \in DOMAIN answers[s] /\ answers[s] \in Sheet
    BY RequestShape DEF SaveCommit, TypeOK
  <2>. QED  BY <2>1, SheetShape
<1>3. reply.selected \in Option /\ reply.essay \in BOOLEAN
  BY DEF Replies, Option
<1>4. sel \in {reply.selected, answers[s][q].selected}
  BY <1>1 DEF Written, Write
<1>5. ess \in {reply.essay, answers[s][q].essay}
  BY <1>1 DEF Written, Write
<1>6. sel \in Option /\ ess \in BOOLEAN
  BY <1>2, <1>3, <1>4, <1>5 DEF Answer
<1>. QED  BY <1>1, <1>6

LEMMA SittingType ==
  ASSUME TypeOK, NEW w \in Workers,
         \/ \E s \in Students : StartRead(w, s)
         \/ \E s \in Students, q \in Questions : SaveRead(w, s, q)
         \/ StartCommit(w) \/ SaveCommit(w)
  PROVE  TypeOK'
<1>1. ASSUME NEW s \in Students, StartRead(w, s) PROVE TypeOK'
  <2>1. PICK questions \in SUBSET Questions :
          Serve(w, [op |-> "start", student |-> s, questions |-> questions])
    BY <1>1 DEF StartRead
  <2>2. [op |-> "start", student |-> s, questions |-> questions] \in Request
    BY DEF Request
  <2>. QED  BY <1>1, <2>1, <2>2, ServeType DEF StartRead, TypeOK, tables
<1>2. CASE StartCommit(w)
  <2>. DEFINE s == req[w].student
              sheet == [q \in req[w].questions |-> Blank]
  <2>1. s \in Students /\ req[w].questions \in SUBSET Questions
    BY <1>2, RequestShape DEF StartCommit, TypeOK
  <2>2. sheet \in Sheet
    BY <2>1, BlankAnswer, SheetOf
  <2>3. [session[s] EXCEPT !.status = "IN_PROGRESS"] \in Session
    BY <2>1 DEF TypeOK, Session, SessionStatus
  <2>4. session' = [session EXCEPT ![s] = [session[s] EXCEPT !.status = "IN_PROGRESS"]]
    BY <1>2 DEF StartCommit
  <2>5. answers' = [answers EXCEPT ![s] = sheet]
    BY <1>2 DEF StartCommit
  <2>. HIDE DEF s, sheet
  <2>6. session' \in [Students -> Session] /\ answers' \in [Students -> Sheet]
    BY <2>1, <2>2, <2>3, <2>4, <2>5 DEF TypeOK
  <2>. QED  BY <1>2, <2>6, FinishType DEF StartCommit, TypeOK
<1>3. ASSUME NEW s \in Students, NEW q \in Questions, SaveRead(w, s, q) PROVE TypeOK'
  <2>1. answers[s][q] \in Answer
    BY <1>3, SheetShape DEF SaveRead, TypeOK
  <2>2. [op |-> "save", student |-> s, question |-> q, seen |-> answers[s][q]] \in Request
    BY <2>1 DEF Request
  <2>. QED  BY <1>3, <2>2, ServeType DEF SaveRead, TypeOK, tables
<1>4. CASE SaveCommit(w)
  <2>. DEFINE s == req[w].student
              q == req[w].question
              seen == req[w].seen
  <2>1. s \in Students /\ q \in DOMAIN answers[s] /\ answers[s] \in Sheet
    BY <1>4, RequestShape DEF SaveCommit, TypeOK
  <2>2. PICK sel \in Option, ess \in BOOLEAN :
          answers' = [answers EXCEPT ![s][q].selected = sel, ![s][q].essay = ess]
    BY <1>4, <2>1, SavedReply
  <2>. DEFINE after == [answers[s][q] EXCEPT !.selected = sel, !.essay = ess]
  <2>4. answers[s][q] \in Answer
    BY <2>1, SheetShape
  <2>5. after \in Answer
    BY <2>4 DEF Answer
  <2>6. answers' = [answers EXCEPT ![s] = [answers[s] EXCEPT ![q] = after]]
    BY <2>1, <2>2 DEF TypeOK
  <2>. HIDE DEF s, q, after
  <2>7. [answers[s] EXCEPT ![q] = after] \in Sheet
    <3>1. PICK S \in SUBSET Questions : answers[s] \in [S -> Answer]
      BY <2>1 DEF Sheet
    <3>2. [answers[s] EXCEPT ![q] = after] \in [S -> Answer]
      BY <2>1, <2>5, <3>1
    <3>. QED  BY <3>2, SheetOf
  <2>8. answers' \in [Students -> Sheet]
    BY <2>1, <2>6, <2>7 DEF TypeOK
  <2>. QED  BY <1>4, <2>8, FinishType DEF SaveCommit, TypeOK
<1>. QED  BY <1>1, <1>2, <1>3, <1>4

LEMMA HandInType ==
  ASSUME TypeOK, NEW w \in Workers,
         \/ \E s \in Students : SubmitReadSession(w, s)
         \/ SubmitReadAnswers(w) \/ SubmitCommit(w)
         \/ CompleteReadSessions(w) \/ \E s \in Students : CompleteReadAnswers(w, s)
         \/ CompleteCommit(w)
  PROVE  TypeOK'
<1>1. ASSUME NEW s \in Students, SubmitReadSession(w, s) PROVE TypeOK'
  <2>1. [op |-> "submit.answers", student |-> s, row |-> session[s]] \in Request
    BY DEF Request, TypeOK
  <2>. QED  BY <1>1, <2>1, ServeType DEF SubmitReadSession, TypeOK, tables
<1>2. CASE SubmitReadAnswers(w)
  <2>1. req[w].student \in Students /\ req[w].row \in Session
    BY <1>2, RequestShape DEF SubmitReadAnswers, TypeOK
  <2>2. [op |-> "submit", student |-> req[w].student, row |-> req[w].row,
         seen |-> answers[req[w].student]] \in Request
    BY <2>1 DEF Request, TypeOK
  <2>. QED  BY <1>2, <2>2, ServeType DEF SubmitReadAnswers, TypeOK, tables
<1>3. CASE SubmitCommit(w)
  <2>. DEFINE s == req[w].student
              seen == req[w].seen
  <2>1. s \in Students /\ seen \in Sheet
    BY <1>3, RequestShape DEF SubmitCommit, TypeOK
  <2>2. /\ session' = [session EXCEPT ![s] = Submitted(session[s], seen)]
        /\ answers' = [answers EXCEPT ![s] = Marked(answers[s], seen)]
    BY <1>3 DEF SubmitCommit
  <2>3. session[s] \in Session /\ answers[s] \in Sheet
    BY <2>1 DEF TypeOK
  <2>4. Submitted(session[s], seen) \in Session /\ Marked(answers[s], seen) \in Sheet
    BY <2>1, <2>3, SubmittedType, MarkedType
  <2>. HIDE DEF s, seen
  <2>5. session' \in [Students -> Session] /\ answers' \in [Students -> Sheet]
    BY <2>1, <2>2, <2>4 DEF TypeOK
  <2>. QED  BY <1>3, <2>5, FinishType DEF SubmitCommit, TypeOK
<1>4. CASE CompleteReadSessions(w)
  <2>. DEFINE open == {s \in Students : StillOpen(s)}
              absent == {s \in Students : session[s] = NoSession}
              none == [s \in Students |-> NoSheet]
              request == [op |-> "complete", open |-> open, left |-> open, absent |-> absent,
                          seen |-> none]
  <2>1. none \in [Students -> Sheet] /\ open \in SUBSET Students /\ absent \in SUBSET Students
    BY BlankAnswer
  <2>2. Serve(w, request)
    BY <1>4 DEF CompleteReadSessions
  <2>. HIDE DEF open, absent, none
  <2>3. request \in Request
    BY <2>1 DEF Request
  <2>. QED  BY <1>4, <2>2, <2>3, ServeType DEF CompleteReadSessions, TypeOK, tables
<1>5. ASSUME NEW s \in Students, CompleteReadAnswers(w, s) PROVE TypeOK'
  <2>. DEFINE request == [req[w] EXCEPT !.left = @ \ {s}, !.seen[s] = answers[s]]
  <2>1. req[w] \in [op : {"complete"}, open : SUBSET Students, absent : SUBSET Students,
                    left : SUBSET Students, seen : [Students -> Sheet]]
    BY <1>5, RequestShape DEF CompleteReadAnswers, TypeOK
  <2>2. answers[s] \in Sheet
    BY DEF TypeOK
  <2>3. request \in [op : {"complete"}, open : SUBSET Students, absent : SUBSET Students,
                     left : SUBSET Students, seen : [Students -> Sheet]]
    BY <2>1, <2>2
  <2>4. request \in Request
    BY <2>3 DEF Request
  <2>. QED  BY <1>5, <2>4, ServeType DEF CompleteReadAnswers, TypeOK, tables
<1>6. CASE CompleteCommit(w)
  <2>. DEFINE seen == req[w].seen
  <2>1. seen \in [Students -> Sheet]
    BY <1>6, RequestShape DEF CompleteCommit, TypeOK
  <2>2. ASSUME NEW s \in Students
        PROVE  /\ Submitted(session[s], seen[s]) \in Session /\ session[s] \in Session
               /\ Marked(answers[s], seen[s]) \in Sheet /\ answers[s] \in Sheet
    BY <2>1, SubmittedType, MarkedType DEF TypeOK
  <2>3. session' \in [Students -> Session] /\ answers' \in [Students -> Sheet]
    BY <1>6, <2>2 DEF CompleteCommit
  <2>. QED  BY <1>6, <2>3, FinishType DEF CompleteCommit, TypeOK, ExamStatus
<1>. QED  BY <1>1, <1>2, <1>3, <1>4, <1>5, <1>6

\* The sheet a grading computes with.
GradedSheet(seen, items, given) ==
  [q \in DOMAIN seen |->
     IF q \in items
     THEN [seen[q] EXCEPT !.points = given[q], !.graded = TRUE]
     ELSE seen[q]]

LEMMA GradedSheetType ==
  ASSUME NEW seen \in Sheet, NEW items, NEW given \in [items -> Points]
  PROVE  GradedSheet(seen, items, given) \in Sheet
<1>1. DOMAIN seen \subseteq Questions /\ \A q \in DOMAIN seen : seen[q] \in Answer
  BY SheetShape
<1>2. ASSUME NEW q \in DOMAIN seen
      PROVE  GradedSheet(seen, items, given)[q] \in Answer
  BY <1>1, GradedAnswerType DEF GradedSheet
<1>3. GradedSheet(seen, items, given) \in [DOMAIN seen -> Answer]
  BY <1>2 DEF GradedSheet
<1>. QED  BY <1>1, <1>3, SheetOf

\* The answer rows after the grades were put into what was read of them.
WithGrades(committed, seen, items, given) ==
  [q \in DOMAIN committed |->
     IF q \in items
     THEN [committed[q] EXCEPT
             !.points = Write(seen[q].points, given[q], @), !.graded = TRUE]
     ELSE committed[q]]

LEMMA WithGradesType ==
  ASSUME NEW committed \in Sheet, NEW seen, NEW items, NEW given \in [items -> Points]
  PROVE  WithGrades(committed, seen, items, given) \in Sheet
<1>1. DOMAIN committed \subseteq Questions /\ \A q \in DOMAIN committed : committed[q] \in Answer
  BY SheetShape
<1>2. ASSUME NEW q \in DOMAIN committed
      PROVE  WithGrades(committed, seen, items, given)[q] \in Answer
  BY <1>1, GradedAnswerType DEF WithGrades
<1>3. WithGrades(committed, seen, items, given) \in [DOMAIN committed -> Answer]
  BY <1>2 DEF WithGrades
<1>. QED  BY <1>1, <1>3, SheetOf

\* What a grading commits.
LEMMA GradeCommits ==
  ASSUME TypeOK, NEW w \in Workers, GradeCommit(w)
  PROVE  LET s == req[w].student
             row == req[w].row
             items == req[w].items
             seen == req[w].seen
         IN /\ s \in Students /\ row \in Session /\ seen \in Sheet
            /\ session[s] \in Session /\ session[s] # NoSession
            /\ \E given \in [items -> Points], essayScore \in Nat, allGraded \in BOOLEAN :
                 /\ answers' = [answers EXCEPT ![s] = WithGrades(answers[s], seen, items, given)]
                 /\ session' = [session EXCEPT ![s] =
                      IF allGraded THEN Graded(row, essayScore, @) ELSE @]
                 /\ LET sheet == GradedSheet(seen, items, given)
                    IN allGraded => \A q \in DOMAIN sheet : ~Ungraded(sheet[q])
<1>. DEFINE s == req[w].student
            row == req[w].row
            items == req[w].items
            seen == req[w].seen
            Graded0(given) == GradedSheet(seen, items, given)
            All(given) == \A q \in DOMAIN Graded0(given) : ~Ungraded(Graded0(given)[q])
<1>1. s \in Students /\ row \in Session /\ seen \in Sheet
  BY RequestShape DEF GradeCommit, TypeOK
<1>2. PICK user \in Graders, given \in [items -> Points] :
        /\ session[s] # NoSession
        /\ answers' = [answers EXCEPT ![s] = WithGrades(answers[s], seen, items, given)]
        /\ session' = [session EXCEPT ![s] =
             IF All(given) THEN Graded(row, EssayScore(Graded0(given)), @) ELSE @]
  BY DEF GradeCommit, GradedSheet, WithGrades
<1>. DEFINE sheet == Graded0(given)
            allGraded == All(given)
<1>3. EssayScore(sheet) \in Nat
  BY <1>1, GradedSheetType, EssayScoreType
<1>4. session[s] \in Session
  BY <1>1 DEF TypeOK
<1>5. allGraded \in BOOLEAN /\ (allGraded => \A q \in DOMAIN sheet : ~Ungraded(sheet[q]))
  OBVIOUS
<1>6. session' = [session EXCEPT ![s] = IF allGraded THEN Graded(row, EssayScore(sheet), @) ELSE @]
  BY <1>2
<1>. HIDE DEF All
<1>. QED  BY <1>1, <1>2, <1>3, <1>4, <1>5, <1>6

LEMMA GradeAnswersType ==
  ASSUME TypeOK, NEW w \in Workers, GradeCommit(w)
  PROVE  answers' \in [Students -> Sheet]
<1>. DEFINE s == req[w].student
<1>1. PICK given \in [req[w].items -> Points] :
        answers' = [answers EXCEPT ![s] = WithGrades(answers[s], req[w].seen, req[w].items, given)]
  BY GradeCommits
<1>2. s \in Students
  BY GradeCommits
<1>3. WithGrades(answers[s], req[w].seen, req[w].items, given) \in Sheet
  BY <1>2, WithGradesType DEF TypeOK
<1>. HIDE DEF s
<1>. QED  BY <1>1, <1>2, <1>3 DEF TypeOK

LEMMA GradingType ==
  ASSUME TypeOK, NEW w \in Workers,
         \/ \E s \in Students : GradeReadSession(w, s)
         \/ \E q \in Questions : GradeReadAnswer(w, q)
         \/ GradeReadRest(w) \/ GradeCommit(w)
  PROVE  TypeOK'
<1>1. ASSUME NEW s \in Students, GradeReadSession(w, s) PROVE TypeOK'
  <2>1. [op |-> "grade.answers", student |-> s, row |-> session[s], items |-> NoSheet] \in Request
    BY BlankAnswer DEF Request, TypeOK
  <2>. QED  BY <1>1, <2>1, ServeType DEF GradeReadSession, TypeOK, tables
<1>2. ASSUME NEW q \in Questions, GradeReadAnswer(w, q) PROVE TypeOK'
  <2>. DEFINE s == req[w].student
              items == req[w].items
              more == [p \in DOMAIN items \cup {q} |-> IF p = q THEN answers[s][q] ELSE items[p]]
  <2>1. /\ req[w] \in [op : {"grade.answers"}, student : Students, row : Session, items : Sheet]
        /\ q \in DOMAIN answers[s] /\ Serve(w, [req[w] EXCEPT !.items = more])
    BY <1>2 DEF GradeReadAnswer, TypeOK, Request, Idle
  <2>2. s \in Students /\ items \in Sheet /\ answers[s] \in Sheet
    BY <2>1 DEF TypeOK
  <2>3. /\ DOMAIN items \subseteq Questions
        /\ \A p \in DOMAIN items : items[p] \in Answer
        /\ answers[s][q] \in Answer
    BY <2>1, <2>2, SheetShape
  <2>4. more \in [DOMAIN items \cup {q} -> Answer]
    BY <2>3
  <2>5. more \in Sheet
    BY <2>3, <2>4, SheetOf
  <2>. HIDE DEF s, items, more
  <2>6. [req[w] EXCEPT !.items = more] \in Request
    BY <2>1, <2>5 DEF Request
  <2>. QED  BY <1>2, <2>1, <2>6, ServeType DEF GradeReadAnswer, TypeOK, tables
<1>3. CASE GradeReadRest(w)
  <2>. DEFINE s == req[w].student
              items == req[w].items
              seen == [q \in DOMAIN answers[s] |->
                         IF q \in DOMAIN items THEN items[q] ELSE answers[s][q]]
              request == [op |-> "grade", student |-> s, row |-> req[w].row,
                          items |-> DOMAIN items, seen |-> seen]
  <2>1. s \in Students /\ items \in Sheet /\ req[w].row \in Session
    BY <1>3, RequestShape DEF GradeReadRest, TypeOK
  <2>2. answers[s] \in Sheet
    BY <2>1 DEF TypeOK
  <2>3. /\ DOMAIN items \subseteq Questions /\ DOMAIN answers[s] \subseteq Questions
        /\ \A q \in DOMAIN items : items[q] \in Answer
        /\ \A q \in DOMAIN answers[s] : answers[s][q] \in Answer
    BY <2>1, <2>2, SheetShape
  <2>4. seen \in [DOMAIN answers[s] -> Answer]
    BY <2>3
  <2>5. seen \in Sheet
    BY <2>3, <2>4, SheetOf
  <2>6. Serve(w, request)
    BY <1>3 DEF GradeReadRest
  <2>. HIDE DEF s, items, seen
  <2>7. request \in Request
    BY <2>1, <2>3, <2>5 DEF Request
  <2>. HIDE DEF request
  <2>. QED  BY <1>3, <2>6, <2>7, ServeType DEF GradeReadRest, TypeOK, tables
<1>4. CASE GradeCommit(w)
  <2>. DEFINE s == req[w].student
  <2>1. PICK essayScore \in Nat, allGraded \in BOOLEAN :
          session' = [session EXCEPT ![s] =
                        IF allGraded THEN Graded(req[w].row, essayScore, @) ELSE @]
    BY <1>4, GradeCommits
  <2>2. s \in Students /\ req[w].row \in Session /\ session[s] \in Session
    BY <1>4, GradeCommits
  <2>. HIDE DEF s
  <2>3. session' \in [Students -> Session]
    BY <2>1, <2>2, GradedType DEF TypeOK
  <2>. QED  BY <1>4, <2>3, GradeAnswersType, FinishType DEF GradeCommit, TypeOK
<1>. QED  BY <1>1, <1>2, <1>3, <1>4

LEMMA NextType == TypeOK /\ [Next]_vars => TypeOK'
<1>. SUFFICES ASSUME TypeOK, [Next]_vars PROVE TypeOK'
  OBVIOUS
<1>1. ASSUME NEW s \in Students, TimeRunsOut(s) PROVE TypeOK'
  BY <1>1 DEF TimeRunsOut, TypeOK
<1>2. CASE UNCHANGED vars
  BY <1>2 DEF vars, tables, TypeOK
<1>. QED  BY <1>1, <1>2, TransitionType, SittingType, HandInType, GradingType DEF Next

\* However requests overlap, the exam, its sessions, their answers and what the
\* requests remember of them keep their types; the essay score is a number.
THEOREM TypeCorrect == Spec => []TypeOK
BY InitType, NextType, PTL DEF Spec

-----------------------------------------------------------------------------
(* Totals *)

\* A session that a grading saw with a total has one, unless the exam is gone;
\* a gone exam has no sessions.
KeepsTotal(q, phase, rows) ==
  q.op \in {"grade.answers", "grade"} /\ q.row.total_score # None =>
    phase = "deleted" \/ rows[q.student].total_score # None

TotalInv ==
  /\ exam = "deleted" => \A s \in Students : session[s] = NoSession
  /\ \A w \in Workers : KeepsTotal(req[w], exam, session)

\* What a step may do to a session as far as totals go.
TotalMoves(s) ==
  \/ session'[s] = session[s]
  \/ session'[s] = NoSession /\ exam' = "deleted"
  \/ session[s] = NoSession /\ session'[s].status = "IN_PROGRESS" /\ exam # "deleted"
  \/ /\ session'[s].status = "GRADED" => session'[s].total_score # None
     /\ session[s].total_score # None => session'[s].total_score # None
     /\ exam # "deleted"

LEMMA StartTotals ==
  ASSUME TypeOK, NEW w \in Workers, StartCommit(w), NEW s \in Students
  PROVE  TotalMoves(s)
<1>1. CASE req[w].student = s
  <2>1. session[s] = NoSession /\ session' = [session EXCEPT ![s].status = "IN_PROGRESS"]
    BY <1>1 DEF StartCommit
  <2>2. session'[s] = [NoSession EXCEPT !.status = "IN_PROGRESS"]
    BY <2>1 DEF TypeOK
  <2>3. session'[s].status = "IN_PROGRESS"
    BY <2>2 DEF NoSession
  <2>. QED  BY <2>1, <2>3 DEF TotalMoves, StartCommit
<1>2. CASE req[w].student # s
  <2>1. session'[s] = session[s]
    BY <1>2 DEF StartCommit, TypeOK
  <2>. QED  BY <2>1 DEF TotalMoves
<1>. QED  BY <1>1, <1>2

\* A submission leaves a total that was there, and puts one where it grades.
LEMMA HandInTotals ==
  ASSUME TypeOK, NEW s \in Students, NEW sheet \in Sheet, exam # "deleted",
         session'[s] = Submitted(session[s], sheet)
  PROVE  TotalMoves(s)
<1>1. session[s] \in Session
  BY DEF TypeOK
<1>2. session[s].total_score # None => session[s].total_score \in Nat
  BY <1>1 DEF Session, Score
<1>. QED  BY <1>1, <1>2, SubmittedType, NoneAssumption DEF TotalMoves

LEMMA SubmitTotals ==
  ASSUME TypeOK, TotalInv, NEW w \in Workers, SubmitCommit(w), NEW s \in Students
  PROVE  TotalMoves(s)
<1>1. CASE req[w].student = s
  <2>1. session'[s] = Submitted(session[s], req[w].seen) /\ session[s] # NoSession
    BY <1>1 DEF SubmitCommit, TypeOK
  <2>2. req[w].seen \in Sheet
    BY RequestShape DEF SubmitCommit, TypeOK
  <2>3. exam # "deleted"
    BY <2>1 DEF TotalInv
  <2>. QED  BY <2>1, <2>2, <2>3, HandInTotals
<1>2. CASE req[w].student # s
  <2>1. session'[s] = session[s]
    BY <1>2 DEF SubmitCommit, TypeOK
  <2>. QED  BY <2>1 DEF TotalMoves
<1>. QED  BY <1>1, <1>2

LEMMA CompleteTotals ==
  ASSUME TypeOK, NEW w \in Workers, CompleteCommit(w), NEW s \in Students
  PROVE  TotalMoves(s)
<1>1. CASE s \in req[w].open
  <2>1. session'[s] = Submitted(session[s], req[w].seen[s]) /\ exam # "deleted"
    BY <1>1 DEF CompleteCommit
  <2>2. req[w].seen[s] \in Sheet
    BY RequestShape DEF CompleteCommit, TypeOK
  <2>. QED  BY <2>1, <2>2, HandInTotals
<1>2. CASE s \notin req[w].open
  BY <1>2 DEF CompleteCommit, TotalMoves
<1>. QED  BY <1>1, <1>2

\* Grading writes a total that is a number. Where it leaves the column alone
\* because it read the same number there, a number still stands there.
LEMMA GradeTotals ==
  ASSUME TypeOK, TotalInv, NEW w \in Workers, GradeCommit(w), NEW s \in Students
  PROVE  TotalMoves(s)
<1>. DEFINE t == req[w].student
<1>0. /\ t \in Students /\ req[w].row \in Session
      /\ session[t] \in Session /\ session[t] # NoSession
  BY GradeCommits
<1>1. PICK essayScore \in Nat, allGraded \in BOOLEAN :
        session' = [session EXCEPT ![t] =
                      IF allGraded THEN Graded(req[w].row, essayScore, @) ELSE @]
  BY GradeCommits
<1>. HIDE DEF t
<1>2. CASE s # t \/ ~allGraded
  <2>1. session'[s] = session[s]
    BY <1>0, <1>1, <1>2 DEF TypeOK
  <2>. QED  BY <2>1 DEF TotalMoves
<1>3. CASE s = t /\ allGraded
  <2>. DEFINE row == req[w].row
              total == Total(row, essayScore)
  <2>1. session'[s] = Graded(row, essayScore, session[s])
    BY <1>0, <1>1, <1>3 DEF TypeOK
  <2>2. total \in Nat /\ session'[s].total_score = Write(row.total_score, total, session[s].total_score)
    <3>1. row \in Session /\ session[s] \in Session
      BY <1>0, <1>3
    <3>. HIDE DEF row
    <3>2. /\ Total(row, essayScore) \in Nat
          /\ Graded(row, essayScore, session[s]).total_score =
               Write(row.total_score, Total(row, essayScore), session[s].total_score)
      BY <3>1, GradedType
    <3>. QED  BY <2>1, <3>2
  <2>3. exam # "deleted"
    BY <1>0 DEF TotalInv
  <2>4. row.total_score # None => session[s].total_score # None
    BY <1>0, <1>3, <2>3 DEF TotalInv, KeepsTotal, GradeCommit, t
  <2>. HIDE DEF total, row
  <2>5. session'[s].total_score # None
    BY <2>2, <2>4, NoneAssumption DEF Write
  <2>. QED  BY <2>3, <2>5 DEF TotalMoves
<1>. QED  BY <1>2, <1>3

LEMMA NextTotals ==
  ASSUME TypeOK, TotalInv, Next, NEW s \in Students
  PROVE  TotalMoves(s)
<1>1. CASE session' = session
  BY <1>1 DEF TotalMoves
<1>2. ASSUME NEW w \in Workers, DeleteCommit(w) PROVE TotalMoves(s)
  BY <1>2 DEF DeleteCommit, TotalMoves
<1>. QED  BY <1>1, <1>2, NextCases, KeepsUnchanged, TimeKeeps, StartTotals, SubmitTotals,
             CompleteTotals, GradeTotals DEF WritesSessions

LEMMA DeletedBy ==
  ASSUME TypeOK, Next, exam # "deleted", exam' = "deleted"
  PROVE  \E w \in Workers : DeleteCommit(w)
<1>1. \A w \in Workers : TransitionCommit(w) => exam' # "deleted"
  BY RequestShape DEF TransitionCommit, TypeOK, ExamStatus
<1>. QED  BY <1>1, ZenonT(60)
  DEF Next, TransitionRead, DeleteRead, StartRead, StartCommit,
      SubmitReadSession, GradeReadSession, SaveRead, SaveCommit, SubmitReadAnswers,
      SubmitCommit, CompleteReadExam, CompleteReadSessions, CompleteReadAnswers,
      CompleteCommit, GradeReadAnswer, GradeReadRest, GradeCommit, Abort, TimeRunsOut, tables

\* A grading in flight goes on from the row it read.
LEMMA GradingReads ==
  ASSUME TypeOK, Next, NEW v \in Workers, req'[v].op \in {"grade.answers", "grade"}
  PROVE  \/ req'[v] = req[v]
         \/ \E s \in Students : /\ req'[v].student = s /\ req'[v].row = session[s]
                                /\ session' = session
         \/ /\ req[v].op = "grade.answers" /\ session' = session
            /\ req'[v].student = req[v].student /\ req'[v].row = req[v].row
<1>1. ASSUME NEW w \in Workers, NEW q, Serve(w, q), q.op \notin {"grade.answers", "grade"}
      PROVE  req'[v] = req[v]
  BY <1>1 DEF Serve, TypeOK
<1>2. ASSUME NEW w \in Workers, Finish(w)
      PROVE  req'[v] = req[v]
  BY <1>1, <1>2 DEF Finish, Idle
<1>3. ASSUME NEW w \in Workers,
             \/ TransitionRead(w, "DRAFT", "PUBLISHED") \/ TransitionRead(w, "PUBLISHED", "ACTIVE")
             \/ DeleteRead(w) \/ CompleteReadExam(w)
             \/ \E s \in Students : StartRead(w, s) \/ SubmitReadSession(w, s)
             \/ \E s \in Students, q \in Questions : SaveRead(w, s, q)
             \/ SubmitReadAnswers(w) \/ CompleteReadSessions(w)
      PROVE  req'[v] = req[v]
  BY <1>1, <1>3 DEF TransitionRead, DeleteRead, CompleteReadExam, StartRead, SubmitReadSession,
                    SaveRead, SubmitReadAnswers, CompleteReadSessions
<1>4. ASSUME NEW w \in Workers,
             \/ TransitionCommit(w) \/ DeleteCommit(w) \/ StartCommit(w) \/ SaveCommit(w)
             \/ SubmitCommit(w) \/ CompleteCommit(w) \/ GradeCommit(w) \/ Abort(w)
      PROVE  req'[v] = req[v]
  BY <1>2, <1>4 DEF TransitionCommit, DeleteCommit, StartCommit, SaveCommit, SubmitCommit,
                    CompleteCommit, GradeCommit, Abort
<1>5. ASSUME NEW w \in Workers, NEW s \in Students, CompleteReadAnswers(w, s)
      PROVE  req'[v] = req[v]
  <2>. DEFINE q == [req[w] EXCEPT !.left = @ \ {s}, !.seen[s] = answers[s]]
  <2>1. Serve(w, q) /\ req[w].op = "complete"
    BY <1>5 DEF CompleteReadAnswers
  <2>2. req[w] \in [op : {"complete"}, open : SUBSET Students, absent : SUBSET Students,
                    left : SUBSET Students, seen : [Students -> Sheet]]
    BY <2>1, RequestShape DEF TypeOK
  <2>3. q.op = "complete"
    BY <2>2
  <2>. HIDE DEF q
  <2>. QED  BY <1>1, <2>1, <2>3
<1>6. ASSUME NEW w \in Workers, NEW s \in Students, GradeReadSession(w, s)
      PROVE  \/ req'[v] = req[v]
             \/ req'[v].student = s /\ req'[v].row = session[s] /\ session' = session
  <2>1. /\ Serve(w, [op |-> "grade.answers", student |-> s, row |-> session[s],
                     items |-> NoSheet])
        /\ session' = session
    BY <1>6 DEF GradeReadSession, tables
  <2>. QED  BY <2>1 DEF Serve, TypeOK
<1>7. ASSUME NEW w \in Workers, NEW q \in Questions, GradeReadAnswer(w, q)
      PROVE  \/ req'[v] = req[v]
             \/ /\ req[v].op = "grade.answers" /\ session' = session
                /\ req'[v].student = req[v].student /\ req'[v].row = req[v].row
  <2>1. PICK items : /\ Serve(w, [req[w] EXCEPT !.items = items])
                     /\ session' = session /\ req[w].op = "grade.answers"
    BY <1>7 DEF GradeReadAnswer, tables
  <2>. QED  BY <2>1 DEF Serve, TypeOK
<1>8. ASSUME NEW w \in Workers, GradeReadRest(w)
      PROVE  \/ req'[v] = req[v]
             \/ /\ req[v].op = "grade.answers" /\ session' = session
                /\ req'[v].student = req[v].student /\ req'[v].row = req[v].row
  <2>1. PICK items, seen :
          /\ Serve(w, [op |-> "grade", student |-> req[w].student, row |-> req[w].row,
                       items |-> items, seen |-> seen])
          /\ session' = session /\ req[w].op = "grade.answers"
    BY <1>8 DEF GradeReadRest, tables
  <2>. QED  BY <2>1 DEF Serve, TypeOK
<1>9. ASSUME NEW s \in Students, TimeRunsOut(s)
      PROVE  req'[v] = req[v]
  BY <1>9 DEF TimeRunsOut
<1>. QED  BY <1>3, <1>4, <1>5, <1>6, <1>7, <1>8, <1>9 DEF Next

LEMMA NextTotalInv == TypeOK /\ TotalInv /\ [Next]_vars => TotalInv'
<1>1. ASSUME TypeOK, TotalInv, Next PROVE TotalInv'
  <2>1. \A s \in Students : TotalMoves(s)
    BY <1>1, NextTotals
  <2>2. exam' = "deleted" => \A s \in Students : session'[s] = NoSession
    <3>1. CASE exam = "deleted"
      BY <1>1, <2>1, <3>1 DEF TotalMoves, TotalInv
    <3>2. CASE exam # "deleted"
      BY <1>1, <3>2, DeletedBy DEF DeleteCommit
    <3>. QED  BY <3>1, <3>2
  <2>3. ASSUME NEW q \in Request, KeepsTotal(q, exam, session)
        PROVE  KeepsTotal(q, exam', session')
    <3>1. SUFFICES ASSUME q.op \in {"grade.answers", "grade"}, q.row.total_score # None,
                          exam' # "deleted"
                   PROVE  session'[q.student].total_score # None
      BY DEF KeepsTotal
    <3>2. q.student \in Students /\ exam # "deleted"
      BY <1>1, <3>1, RequestShape, DeletedStays
    <3>3. session[q.student].total_score # None
      BY <2>3, <3>1, <3>2 DEF KeepsTotal
    <3>. QED  BY <2>1, <3>1, <3>2, <3>3 DEF TotalMoves, NoSession
  <2>4. ASSUME NEW v \in Workers
        PROVE  KeepsTotal(req'[v], exam', session')
    <3>1. CASE req'[v].op \notin {"grade.answers", "grade"}
      BY <3>1 DEF KeepsTotal
    <3>2. CASE req'[v] = req[v]
      BY <1>1, <2>3, <3>2 DEF TotalInv, TypeOK
    <3>3. ASSUME NEW s \in Students, req'[v].student = s, req'[v].row = session[s],
                 session' = session
          PROVE  KeepsTotal(req'[v], exam', session')
      BY <3>3 DEF KeepsTotal
    <3>4. CASE /\ req[v].op = "grade.answers" /\ session' = session
               /\ req'[v].student = req[v].student /\ req'[v].row = req[v].row
      <4>1. KeepsTotal(req[v], exam, session) /\ (exam = "deleted" => exam' = "deleted")
        BY <1>1, DeletedStays DEF TotalInv
      <4>. QED  BY <3>4, <4>1 DEF KeepsTotal
    <3>. QED  BY <1>1, <3>1, <3>2, <3>3, <3>4, GradingReads
  <2>. QED  BY <2>2, <2>4 DEF TotalInv
<1>2. ASSUME TotalInv, UNCHANGED vars PROVE TotalInv'
  BY <1>2 DEF TotalInv, vars, tables
<1>. QED  BY <1>1, <1>2

\* A session shown as graded has a total: submission writes both columns at
\* once, and a grading that leaves the total alone read a total, which nothing
\* but the deletion of the exam takes away.
THEOREM GradedKeepsTotal == Spec => []GradedHasTotal
<1>1. Init => TotalInv /\ GradedHasTotal
  BY DEF Init, TotalInv, KeepsTotal, GradedHasTotal, Idle, NoSession
<1>2. TypeOK /\ TotalInv /\ GradedHasTotal /\ [Next]_vars => GradedHasTotal'
  <2>1. ASSUME TypeOK, TotalInv, GradedHasTotal, Next PROVE GradedHasTotal'
    BY <2>1, NextTotals DEF TotalMoves, GradedHasTotal, NoSession
  <2>2. ASSUME GradedHasTotal, UNCHANGED vars PROVE GradedHasTotal'
    BY <2>2 DEF GradedHasTotal, vars, tables
  <2>. QED  BY <2>1, <2>2
<1>. QED  BY <1>1, <1>2, TypeCorrect, NextTotalInv, PTL DEF Spec
-----------------------------------------------------------------------------
(* One request at a time *)

\* Requests do not overlap where there is one worker to serve them.
Alone == \A v, w \in Workers : v = w

\* What the only request remembers is still so.
UpToDate(q, phase, rows, sheets) ==
  /\ q.op = "transition" =>
       <<phase, q.to>> \in {<<"DRAFT", "PUBLISHED">>, <<"PUBLISHED", "ACTIVE">>}
  /\ q.op = "delete" => phase = "DRAFT"
  /\ q.op \in {"start", "complete.sessions", "complete"} => phase = "ACTIVE"
  /\ q.op \in {"submit.answers", "submit"} => q.row.status = "IN_PROGRESS"
  /\ q.op \in {"submit.answers", "submit", "grade.answers", "grade"} =>
       q.row = rows[q.student] /\ rows[q.student] # NoSession
  /\ q.op = "grade.answers" =>
       \A p \in DOMAIN q.items : q.items[p] = sheets[q.student][p]
  /\ q.op \in {"submit", "grade"} => q.seen = sheets[q.student]
  /\ q.op = "complete" =>
       /\ q.open = {s \in Students : rows[s].status = "IN_PROGRESS"}
       /\ \A s \in q.open \ q.left : q.seen[s] = sheets[s]

Ones(sheet) == {q \in DOMAIN sheet : sheet[q].points = 1}

\* Only the marks of a submission are ever in a sheet, a point or none for an
\* answer to a choice question, and the session counts its points.
SheetAgrees(row, sheet) ==
  /\ row.status = "IN_PROGRESS" => \A q \in DOMAIN sheet : sheet[q].points = None
  /\ \A q \in DOMAIN sheet :
       /\ sheet[q].points \in {None, 0, 1}
       /\ q \notin MCQs => sheet[q].points = None
       /\ ~sheet[q].graded
  /\ OrZero(row.score_mcq) = Cardinality(Ones(sheet))

RowAgrees(row, sheet) ==
  /\ row.status = "none" => row = NoSession
  /\ SheetAgrees(row, sheet)

\* Nobody sits an exam before it is active.
RowsInv ==
  /\ \A s \in Students : RowAgrees(session[s], answers[s])
  /\ exam \in {"DRAFT", "PUBLISHED", "deleted"} => \A s \in Students : session[s] = NoSession

SerialInv ==
  /\ TypeOK
  /\ RowsInv
  /\ \A w \in Workers : UpToDate(req[w], exam, session, answers)

LEMMA NoPoints ==
  ASSUME NEW sheet, \A q \in DOMAIN sheet : sheet[q].points = None
  PROVE  Cardinality(Ones(sheet)) = 0
<1>1. Ones(sheet) = {}
  BY NoneAssumption DEF Ones
<1>. QED  BY <1>1, FS_EmptySet

LEMMA NoSessionAgrees == RowAgrees(NoSession, NoSheet) /\ NoSession.status = "none"
<1>1. DOMAIN NoSheet = {}
  BY DEF NoSheet
<1>2. Cardinality(Ones(NoSheet)) = 0
  BY <1>1, NoPoints
<1>3. NoSession.status = "none" /\ OrZero(NoSession.score_mcq) = 0
  BY DEF NoSession, OrZero
<1>. QED  BY <1>1, <1>2, <1>3 DEF RowAgrees, SheetAgrees

\* What the marks of a sheet that is in agreement add up to.
LEMMA EarnedCounts ==
  ASSUME NEW row, NEW sheet \in Sheet, SheetAgrees(row, sheet), NEW T \in SUBSET DOMAIN sheet
  PROVE  EarnedOn(sheet, T) = Cardinality(T \cap Ones(sheet))
<1>1. PICK g : Unfolds(g, T, PointsOn(sheet, T)) /\ EarnedOn(sheet, T) = g[T]
  BY EarnedOnUnfolds
<1>2. ASSUME NEW q \in T
      PROVE  PointsOn(sheet, T)[q] = IF q \in Ones(sheet) THEN 1 ELSE 0
  <2>1. sheet[q].points \in {None, 0, 1} /\ q \in DOMAIN sheet
    BY DEF SheetAgrees
  <2>. QED  BY <2>1, NoneAssumption DEF PointsOn, OrZero, Ones
<1>3. IsFiniteSet(T)
  BY PointsOnType
<1>4. OneOn(PointsOn(sheet, T), T, Ones(sheet))
  BY <1>2 DEF OneOn
<1>. QED  BY <1>1, <1>3, <1>4, SumCounts

\* The marks a submission leaves on a sheet that had none.
LEMMA MarkedRows ==
  ASSUME NEW sheet \in Sheet, NEW q \in DOMAIN sheet, sheet[q].points = None
  PROVE  LET a == Marked(sheet, sheet)[q]
         IN /\ a.points = IF q \notin MCQs \/ sheet[q].selected = "none" THEN None
                          ELSE IF sheet[q].selected = "right" THEN 1 ELSE 0
            /\ a.graded = sheet[q].graded
<1>1. sheet[q] \in Answer
  BY SheetShape
<1>. QED  BY <1>1, NoneAssumption DEF Marked, Write, Answer

\* A sheet handed in, and what it leaves in a session in progress.
LEMMA SubmittedAgrees ==
  ASSUME NEW row \in Session, NEW sheet \in Sheet, SheetAgrees(row, sheet),
         row.status = "IN_PROGRESS"
  PROVE  RowAgrees(Submitted(row, sheet), Marked(sheet, sheet))
<1>. DEFINE after == Submitted(row, sheet)
            marked == Marked(sheet, sheet)
<1>1. ScoreOn(sheet) \in Nat /\ DOMAIN marked = DOMAIN sheet
  BY ScoreOnType DEF Marked
<1>2. after.status \in {"SUBMITTED", "GRADED"} /\ after.score_mcq = ScoreOn(sheet)
  <2>1. CASE DOMAIN sheet \cap EssayQs = {}
    BY <2>1 DEF Submitted, Session
  <2>2. CASE DOMAIN sheet \cap EssayQs # {}
    BY <2>2 DEF Submitted, Session
  <2>. QED  BY <2>1, <2>2
<1>3. ASSUME NEW q \in DOMAIN sheet
      PROVE  /\ marked[q].points =
                  IF q \notin MCQs \/ sheet[q].selected = "none" THEN None
                  ELSE IF sheet[q].selected = "right" THEN 1 ELSE 0
             /\ ~marked[q].graded
  BY MarkedRows DEF SheetAgrees
<1>. HIDE DEF after, marked
<1>4. Ones(marked) = {q \in DOMAIN sheet \cap MCQs : sheet[q].selected = "right"}
  <2>1. ASSUME NEW q \in DOMAIN sheet
        PROVE  marked[q].points = 1 <=> q \in MCQs /\ sheet[q].selected = "right"
    BY <1>3, NoneAssumption
  <2>. QED  BY <1>1, <2>1 DEF Ones
<1>5. OrZero(after.score_mcq) = Cardinality(Ones(marked))
  BY <1>1, <1>2, <1>4, NoneAssumption DEF OrZero, ScoreOn
<1>6. SheetAgrees(after, marked)
  BY <1>1, <1>2, <1>3, <1>5 DEF SheetAgrees
<1>. QED  BY <1>2, <1>6 DEF RowAgrees, after, marked

\* No grader's key is a teacher's, so a grading that is committed graded nothing.
LEMMA GradesNothing ==
  ASSUME NEW w \in Workers, GradeCommit(w)
  PROVE  req[w].items = {}
BY KeysAssumption DEF GradeCommit, GraderFits

LEMMA NothingGraded ==
  ASSUME NEW sheet \in Sheet, NEW given
  PROVE  /\ WithGrades(sheet, sheet, {}, given) = sheet
         /\ GradedSheet(sheet, {}, given) = sheet
<1>1. sheet = [q \in DOMAIN sheet |-> sheet[q]]
  BY DEF Sheet
<1>2. WithGrades(sheet, sheet, {}, given) = [q \in DOMAIN sheet |-> sheet[q]]
  BY DEF WithGrades
<1>3. GradedSheet(sheet, {}, given) = [q \in DOMAIN sheet |-> sheet[q]]
  BY DEF GradedSheet
<1>. QED  BY <1>1, <1>2, <1>3

LEMMA GradedAgrees ==
  ASSUME NEW row \in Session, NEW sheet, NEW essayScore, RowAgrees(row, sheet)
  PROVE  /\ RowAgrees(Graded(row, essayScore, row), sheet)
         /\ Graded(row, essayScore, row).status = "GRADED"
         /\ Graded(row, essayScore, row).total_score = OrZero(row.score_mcq) + essayScore
<1>. DEFINE after == Graded(row, essayScore, row)
<1>1. /\ after.status = "GRADED" /\ after.score_mcq = row.score_mcq
      /\ after.total_score = OrZero(row.score_mcq) + essayScore
  BY DEF Graded, Write, Total
<1>. HIDE DEF after
<1>2. RowAgrees(after, sheet)
  BY <1>1 DEF RowAgrees, SheetAgrees
<1>. QED  BY <1>1, <1>2 DEF after

\* The only worker's next request is the only one to be up to date.
LEMMA AloneServes ==
  ASSUME Alone, TypeOK, NEW w \in Workers, NEW q, Serve(w, q),
         UpToDate(q, exam', session', answers')
  PROVE  \A v \in Workers : UpToDate(req'[v], exam', session', answers')
BY DEF Alone, TypeOK, Serve

LEMMA AloneFinishes ==
  ASSUME Alone, TypeOK, NEW w \in Workers, Finish(w)
  PROVE  \A v \in Workers : UpToDate(req'[v], exam', session', answers')
<1>1. UpToDate(Idle, exam', session', answers')
  BY DEF UpToDate, Idle
<1>. QED  BY <1>1, AloneServes DEF Finish

LEMMA AloneReads ==
  ASSUME Alone, SerialInv, UNCHANGED tables, NEW w \in Workers, NEW q, Serve(w, q),
         UpToDate(q, exam, session, answers)
  PROVE  RowsInv' /\ \A v \in Workers : UpToDate(req'[v], exam', session', answers')
<1>1. exam' = exam /\ session' = session /\ answers' = answers
  BY DEF tables
<1>2. RowsInv'
  BY <1>1 DEF SerialInv, RowsInv
<1>. QED  BY <1>1, <1>2, AloneServes DEF SerialInv

LEMMA SerialReads ==
  ASSUME Alone, SerialInv, NEW w \in Workers,
         \/ TransitionRead(w, "DRAFT", "PUBLISHED") \/ TransitionRead(w, "PUBLISHED", "ACTIVE")
         \/ DeleteRead(w) \/ CompleteReadExam(w) \/ Abort(w)
         \/ \E s \in Students : StartRead(w, s) \/ SubmitReadSession(w, s) \/ GradeReadSession(w, s)
         \/ \E s \in Students, q \in Questions : SaveRead(w, s, q)
         \/ SubmitReadAnswers(w) \/ CompleteReadSessions(w)
         \/ \E s \in Students : CompleteReadAnswers(w, s)
         \/ \E q \in Questions : GradeReadAnswer(w, q)
         \/ GradeReadRest(w)
  PROVE  /\ UNCHANGED tables
         /\ RowsInv' /\ \A v \in Workers : UpToDate(req'[v], exam', session', answers')
<1>. DEFINE Goal == /\ UNCHANGED tables
                    /\ RowsInv'
                    /\ \A v \in Workers : UpToDate(req'[v], exam', session', answers')
<1>0. UpToDate(req[w], exam, session, answers) /\ TypeOK /\ req[w] \in Request
  BY DEF SerialInv, TypeOK
<1>1. CASE TransitionRead(w, "DRAFT", "PUBLISHED") \/ TransitionRead(w, "PUBLISHED", "ACTIVE")
  <2>1. PICK to : /\ <<exam, to>> \in {<<"DRAFT", "PUBLISHED">>, <<"PUBLISHED", "ACTIVE">>}
                  /\ Serve(w, [op |-> "transition", to |-> to]) /\ UNCHANGED tables
    BY <1>1 DEF TransitionRead
  <2>2. UpToDate([op |-> "transition", to |-> to], exam, session, answers)
    BY <2>1 DEF UpToDate
  <2>. QED  BY <2>1, <2>2, AloneReads
<1>2. CASE DeleteRead(w)
  <2>1. Serve(w, [op |-> "delete"]) /\ UNCHANGED tables /\ exam = "DRAFT"
    BY <1>2 DEF DeleteRead
  <2>2. UpToDate([op |-> "delete"], exam, session, answers)
    BY <2>1 DEF UpToDate
  <2>. QED  BY <2>1, <2>2, AloneReads
<1>3. CASE CompleteReadExam(w)
  <2>1. Serve(w, [op |-> "complete.sessions"]) /\ UNCHANGED tables /\ exam = "ACTIVE"
    BY <1>3 DEF CompleteReadExam
  <2>2. UpToDate([op |-> "complete.sessions"], exam, session, answers)
    BY <2>1 DEF UpToDate
  <2>. QED  BY <2>1, <2>2, AloneReads
<1>4. CASE Abort(w)
  <2>1. Serve(w, [op |-> "idle"]) /\ UNCHANGED tables
    BY <1>4 DEF Abort, Finish, Idle
  <2>2. UpToDate([op |-> "idle"], exam, session, answers)
    BY DEF UpToDate
  <2>. QED  BY <2>1, <2>2, AloneReads
<1>5. ASSUME NEW s \in Students, StartRead(w, s) PROVE Goal
  <2>1. PICK questions :
          /\ Serve(w, [op |-> "start", student |-> s, questions |-> questions])
          /\ UNCHANGED tables /\ exam = "ACTIVE"
    BY <1>5 DEF StartRead
  <2>2. UpToDate([op |-> "start", student |-> s, questions |-> questions], exam, session, answers)
    BY <2>1 DEF UpToDate
  <2>. QED  BY <2>1, <2>2, AloneReads
<1>6. ASSUME NEW s \in Students, SubmitReadSession(w, s) PROVE Goal
  <2>1. /\ Serve(w, [op |-> "submit.answers", student |-> s, row |-> session[s]])
        /\ UNCHANGED tables /\ session[s].status = "IN_PROGRESS"
    BY <1>6 DEF SubmitReadSession, CanSubmit
  <2>2. session[s] # NoSession
    BY <2>1 DEF NoSession
  <2>3. UpToDate([op |-> "submit.answers", student |-> s, row |-> session[s]],
                 exam, session, answers)
    BY <2>1, <2>2 DEF UpToDate
  <2>. QED  BY <2>1, <2>3, AloneReads
<1>7. ASSUME NEW s \in Students, GradeReadSession(w, s) PROVE Goal
  <2>1. /\ Serve(w, [op |-> "grade.answers", student |-> s, row |-> session[s],
                     items |-> NoSheet])
        /\ UNCHANGED tables /\ session[s] # NoSession
    BY <1>7 DEF GradeReadSession
  <2>2. UpToDate([op |-> "grade.answers", student |-> s, row |-> session[s], items |-> NoSheet],
                 exam, session, answers)
    BY <2>1 DEF UpToDate, NoSheet
  <2>. QED  BY <2>1, <2>2, AloneReads
<1>8. ASSUME NEW s \in Students, NEW q \in Questions, SaveRead(w, s, q) PROVE Goal
  <2>. DEFINE request == [op |-> "save", student |-> s, question |-> q, seen |-> answers[s][q]]
  <2>1. Serve(w, request) /\ UNCHANGED tables
    BY <1>8 DEF SaveRead
  <2>2. UpToDate(request, exam, session, answers)
    BY DEF UpToDate
  <2>. HIDE DEF request
  <2>. QED  BY <2>1, <2>2, AloneReads
<1>9. CASE SubmitReadAnswers(w)
  <2>. DEFINE request == [op |-> "submit", student |-> req[w].student, row |-> req[w].row,
                          seen |-> answers[req[w].student]]
  <2>1. Serve(w, request) /\ UNCHANGED tables /\ req[w].op = "submit.answers"
    BY <1>9 DEF SubmitReadAnswers
  <2>2. UpToDate(request, exam, session, answers)
    BY <1>0, <2>1 DEF UpToDate
  <2>. HIDE DEF request
  <2>. QED  BY <2>1, <2>2, AloneReads
<1>10. CASE CompleteReadSessions(w)
  <2>. DEFINE open == {s \in Students : StillOpen(s)}
              absent == {s \in Students : session[s] = NoSession}
              none == [s \in Students |-> NoSheet]
              request == [op |-> "complete", open |-> open, left |-> open, absent |-> absent,
                          seen |-> none]
  <2>1. Serve(w, request) /\ UNCHANGED tables /\ exam = "ACTIVE"
    BY <1>0, <1>10 DEF CompleteReadSessions, UpToDate
  <2>2. open = {s \in Students : session[s].status = "IN_PROGRESS"}
    BY DEF StillOpen
  <2>. HIDE DEF open, absent, none
  <2>3. UpToDate(request, exam, session, answers)
    BY <2>1, <2>2 DEF UpToDate
  <2>. HIDE DEF request
  <2>. QED  BY <2>1, <2>3, AloneReads
<1>11. ASSUME NEW s \in Students, CompleteReadAnswers(w, s) PROVE Goal
  <2>. DEFINE request == [req[w] EXCEPT !.left = @ \ {s}, !.seen[s] = answers[s]]
  <2>1. Serve(w, request) /\ UNCHANGED tables /\ req[w].op = "complete"
    BY <1>11 DEF CompleteReadAnswers
  <2>2. req[w] \in [op : {"complete"}, open : SUBSET Students, absent : SUBSET Students,
                    left : SUBSET Students, seen : [Students -> Sheet]]
    BY <1>0, <2>1, RequestShape
  <2>3. /\ request.op = "complete" /\ request.open = req[w].open
        /\ request.left = req[w].left \ {s}
        /\ request.seen = [req[w].seen EXCEPT ![s] = answers[s]]
    BY <2>2
  <2>4. \A t \in request.open \ request.left : request.seen[t] = answers[t]
    BY <1>0, <2>1, <2>2, <2>3 DEF UpToDate
  <2>. HIDE DEF request
  <2>5. UpToDate(request, exam, session, answers)
    BY <1>0, <2>1, <2>3, <2>4 DEF UpToDate
  <2>. QED  BY <2>1, <2>5, AloneReads
<1>12. ASSUME NEW q \in Questions, GradeReadAnswer(w, q) PROVE Goal
  <2>. DEFINE s == req[w].student
              items == req[w].items
              more == [p \in DOMAIN items \cup {q} |-> IF p = q THEN answers[s][q] ELSE items[p]]
              request == [req[w] EXCEPT !.items = more]
  <2>1. Serve(w, request) /\ UNCHANGED tables /\ req[w].op = "grade.answers"
    BY <1>12 DEF GradeReadAnswer
  <2>2. req[w] \in [op : {"grade.answers"}, student : Students, row : Session, items : Sheet]
    BY <1>0, <2>1 DEF Request, Idle
  <2>3. \A p \in DOMAIN more : more[p] = answers[s][p]
    BY <1>0, <2>1 DEF UpToDate
  <2>. HIDE DEF more
  <2>4. /\ request.op = "grade.answers" /\ request.items = more
        /\ request.student = s /\ request.row = req[w].row
    BY <2>2
  <2>. HIDE DEF request
  <2>5. UpToDate(request, exam, session, answers)
    BY <1>0, <2>1, <2>3, <2>4 DEF UpToDate
  <2>. QED  BY <2>1, <2>5, AloneReads
<1>13. CASE GradeReadRest(w)
  <2>. DEFINE s == req[w].student
              items == req[w].items
              seen == [q \in DOMAIN answers[s] |->
                         IF q \in DOMAIN items THEN items[q] ELSE answers[s][q]]
              request == [op |-> "grade", student |-> s, row |-> req[w].row,
                          items |-> DOMAIN items, seen |-> seen]
  <2>1. Serve(w, request) /\ UNCHANGED tables /\ req[w].op = "grade.answers"
    BY <1>13 DEF GradeReadRest
  <2>2. s \in Students /\ answers[s] \in Sheet
    BY <1>0, <2>1, RequestShape DEF TypeOK
  <2>3. answers[s] = [q \in DOMAIN answers[s] |-> answers[s][q]]
    BY <2>2 DEF Sheet
  <2>4. seen = answers[s]
    BY <1>0, <2>1, <2>3 DEF UpToDate
  <2>. HIDE DEF seen
  <2>5. UpToDate(request, exam, session, answers)
    BY <1>0, <2>1, <2>4 DEF UpToDate
  <2>. HIDE DEF request
  <2>. QED  BY <2>1, <2>5, AloneReads
<1>. HIDE DEF Goal
<1>. QED  BY <1>1, <1>2, <1>3, <1>4, <1>5, <1>6, <1>7, <1>8, <1>9, <1>10, <1>11, <1>12, <1>13 DEF Goal

LEMMA SubmitAlone ==
  ASSUME SerialInv, NEW w \in Workers, SubmitCommit(w)
  PROVE  LET s == req[w].student
         IN /\ s \in Students /\ session[s].status = "IN_PROGRESS"
            /\ session[s] \in Session /\ answers[s] \in Sheet
            /\ session' = [session EXCEPT ![s] = Submitted(session[s], answers[s])]
            /\ answers' = [answers EXCEPT ![s] = Marked(answers[s], answers[s])]
            /\ exam' = exam
<1>1. UpToDate(req[w], exam, session, answers) /\ TypeOK
  BY DEF SerialInv
<1>2. req[w].student \in Students
  BY <1>1, RequestShape DEF TypeOK, SubmitCommit
<1>. QED  BY <1>1, <1>2 DEF UpToDate, SubmitCommit, TypeOK

LEMMA CompleteAlone ==
  ASSUME SerialInv, NEW w \in Workers, CompleteCommit(w)
  PROVE  /\ exam = "ACTIVE" /\ exam' = "COMPLETED"
         /\ session' = [s \in Students |-> IF session[s].status = "IN_PROGRESS"
                                           THEN Submitted(session[s], answers[s])
                                           ELSE session[s]]
         /\ answers' = [s \in Students |-> IF session[s].status = "IN_PROGRESS"
                                           THEN Marked(answers[s], answers[s])
                                           ELSE answers[s]]
<1>1. UpToDate(req[w], exam, session, answers)
  BY DEF SerialInv
<1>2. /\ req[w].op = "complete" /\ req[w].left = {} /\ exam' = "COMPLETED"
      /\ session' = [s \in Students |->
                       IF s \in req[w].open THEN Submitted(session[s], req[w].seen[s])
                       ELSE session[s]]
      /\ answers' = [s \in Students |->
                       IF s \in req[w].open THEN Marked(answers[s], req[w].seen[s])
                       ELSE answers[s]]
  BY DEF CompleteCommit
<1>3. /\ exam = "ACTIVE"
      /\ \A s \in Students : s \in req[w].open <=> session[s].status = "IN_PROGRESS"
      /\ \A s \in req[w].open : req[w].seen[s] = answers[s]
  BY <1>1, <1>2 DEF UpToDate
<1>. QED  BY <1>2, <1>3

LEMMA GradeAlone ==
  ASSUME SerialInv, NEW w \in Workers, GradeCommit(w)
  PROVE  LET s == req[w].student
             allGraded == \A q \in DOMAIN answers[s] : ~Ungraded(answers[s][q])
         IN /\ s \in Students /\ session[s] # NoSession /\ session[s] \in Session
            /\ answers[s] \in Sheet /\ exam' = exam /\ answers' = answers
            /\ session' = [session EXCEPT ![s] =
                 IF allGraded THEN Graded(session[s], EssayScore(answers[s]), session[s])
                 ELSE session[s]]
<1>. DEFINE s == req[w].student
<1>0. TypeOK /\ UpToDate(req[w], exam, session, answers)
  BY DEF SerialInv
<1>1. s \in Students /\ session[s] # NoSession /\ session[s] \in Session /\ answers[s] \in Sheet
  BY <1>0, GradeCommits DEF TypeOK
<1>2. req[w].row = session[s] /\ req[w].seen = answers[s] /\ req[w].items = {}
  BY <1>0, GradesNothing DEF UpToDate, GradeCommit
<1>. DEFINE Sheet0(given) == GradedSheet(answers[s], {}, given)
<1>3. \E given :
        /\ answers' = [answers EXCEPT ![s] = WithGrades(answers[s], answers[s], {}, given)]
        /\ session' = [session EXCEPT ![s] =
             IF \A q \in DOMAIN Sheet0(given) : ~Ungraded(Sheet0(given)[q])
             THEN Graded(session[s], EssayScore(Sheet0(given)), session[s]) ELSE session[s]]
  BY <1>2 DEF GradeCommit, GradedSheet, WithGrades
<1>4. PICK given :
        /\ answers' = [answers EXCEPT ![s] = WithGrades(answers[s], answers[s], {}, given)]
        /\ session' = [session EXCEPT ![s] =
             IF \A q \in DOMAIN Sheet0(given) : ~Ungraded(Sheet0(given)[q])
             THEN Graded(session[s], EssayScore(Sheet0(given)), session[s]) ELSE session[s]]
  BY <1>3
<1>5. WithGrades(answers[s], answers[s], {}, given) = answers[s] /\ Sheet0(given) = answers[s]
  BY <1>1, NothingGraded
<1>6. exam' = exam /\ answers' = answers
  BY <1>0, <1>1, <1>4, <1>5 DEF GradeCommit, TypeOK
<1>. HIDE DEF Sheet0
<1>. QED  BY <1>1, <1>4, <1>5, <1>6

\* The commits leave rows that agree, where nothing else was written.
LEMMA SerialWrites ==
  ASSUME Alone, SerialInv, NEW w \in Workers,
         TransitionCommit(w) \/ DeleteCommit(w) \/ StartCommit(w) \/ SaveCommit(w)
         \/ SubmitCommit(w) \/ CompleteCommit(w) \/ GradeCommit(w)
  PROVE  RowsInv'
<1>0. /\ UpToDate(req[w], exam, session, answers) /\ TypeOK /\ RowsInv
      /\ \A s \in Students : /\ RowAgrees(session[s], answers[s])
                             /\ session[s] \in Session /\ answers[s] \in Sheet
  BY DEF SerialInv, TypeOK, RowsInv
<1>1. CASE TransitionCommit(w)
  <2>1. session' = session /\ answers' = answers /\ exam' = req[w].to /\ req[w].op = "transition"
    BY <1>1 DEF TransitionCommit
  <2>2. <<exam, exam'>> \in {<<"DRAFT", "PUBLISHED">>, <<"PUBLISHED", "ACTIVE">>}
    BY <1>0, <2>1 DEF UpToDate
  <2>. QED  BY <1>0, <2>1, <2>2 DEF RowsInv
<1>2. CASE DeleteCommit(w)
  BY <1>2, NoSessionAgrees DEF DeleteCommit, RowsInv
<1>3. CASE StartCommit(w)
  <2>. DEFINE s == req[w].student
              sheet == [q \in req[w].questions |-> Blank]
              row == [NoSession EXCEPT !.status = "IN_PROGRESS"]
  <2>1. exam = "ACTIVE" /\ exam' = exam /\ s \in Students
    BY <1>0, <1>3, RequestShape DEF StartCommit, UpToDate, TypeOK
  <2>2. session'[s] = row /\ answers'[s] = sheet
    BY <1>0, <1>3, <2>1 DEF StartCommit, TypeOK
  <2>3. row.status = "IN_PROGRESS" /\ OrZero(row.score_mcq) = 0
    BY DEF NoSession, OrZero
  <2>4. \A q \in DOMAIN sheet : sheet[q].points = None /\ sheet[q].graded = FALSE
    BY DEF Blank
  <2>5. \A t \in Students \ {s} : session'[t] = session[t] /\ answers'[t] = answers[t]
    BY <1>0, <1>3, <2>1 DEF StartCommit, TypeOK
  <2>. HIDE DEF s, sheet, row
  <2>6. RowAgrees(row, sheet)
    BY <2>3, <2>4, NoPoints DEF RowAgrees, SheetAgrees
  <2>. QED  BY <1>0, <2>1, <2>2, <2>5, <2>6 DEF RowsInv
<1>4. CASE SaveCommit(w)
  <2>. DEFINE s == req[w].student
              q == req[w].question
  <2>1. s \in Students /\ q \in DOMAIN answers[s] /\ session' = session /\ exam' = exam
    BY <1>0, <1>4, RequestShape DEF SaveCommit, TypeOK
  <2>2. PICK sel \in Option, ess \in BOOLEAN :
          answers' = [answers EXCEPT ![s][q].selected = sel, ![s][q].essay = ess]
    BY <1>0, <1>4, SavedReply
  <2>3. /\ DOMAIN answers'[s] = DOMAIN answers[s]
        /\ \A p \in DOMAIN answers[s] : /\ answers'[s][p].points = answers[s][p].points
                                       /\ answers'[s][p].graded = answers[s][p].graded
    <3>1. answers[s][q] \in Answer
      BY <1>0, <2>1, SheetShape
    <3>. QED  BY <1>0, <2>1, <2>2, <3>1 DEF TypeOK, Answer
  <2>4. \A t \in Students \ {s} : answers'[t] = answers[t]
    BY <1>0, <2>1, <2>2 DEF TypeOK
  <2>5. RowAgrees(session[s], answers'[s])
    <3>. DEFINE before == answers[s]
                after == answers'[s]
    <3>1. RowAgrees(session[s], before)
      BY <1>0, <2>1
    <3>2. /\ DOMAIN after = DOMAIN before
          /\ \A p \in DOMAIN before : after[p].points = before[p].points /\ after[p].graded = before[p].graded
      BY <2>3
    <3>. HIDE DEF before, after
    <3>3. Ones(after) = Ones(before)
      BY <3>2 DEF Ones
    <3>4. RowAgrees(session[s], after)
      BY <3>1, <3>2, <3>3 DEF RowAgrees, SheetAgrees
    <3>. QED  BY <3>4 DEF after
  <2>. HIDE DEF s, q
  <2>. QED  BY <1>0, <2>1, <2>4, <2>5 DEF RowsInv
<1>5. CASE SubmitCommit(w)
  <2>. DEFINE s == req[w].student
  <2>1. /\ s \in Students /\ session[s].status = "IN_PROGRESS"
        /\ session' = [session EXCEPT ![s] = Submitted(session[s], answers[s])]
        /\ answers' = [answers EXCEPT ![s] = Marked(answers[s], answers[s])]
        /\ exam' = exam
    BY <1>5, SubmitAlone
  <2>. HIDE DEF s
  <2>2. RowAgrees(Submitted(session[s], answers[s]), Marked(answers[s], answers[s]))
    BY <1>0, <2>1, SubmittedAgrees DEF RowAgrees
  <2>3. exam \notin {"DRAFT", "PUBLISHED", "deleted"}
    BY <1>0, <2>1 DEF RowsInv, NoSession
  <2>4. \A t \in Students : RowAgrees(session'[t], answers'[t])
    BY <1>0, <2>1, <2>2 DEF TypeOK
  <2>. QED  BY <2>1, <2>3, <2>4 DEF RowsInv
<1>6. CASE CompleteCommit(w)
  <2>1. exam' = "COMPLETED"
    BY <1>6, CompleteAlone
  <2>2. ASSUME NEW s \in Students
        PROVE  RowAgrees(session'[s], answers'[s])
    <3>1. CASE session[s].status = "IN_PROGRESS"
      <4>1. /\ session'[s] = Submitted(session[s], answers[s])
            /\ answers'[s] = Marked(answers[s], answers[s])
        BY <1>6, <3>1, CompleteAlone
      <4>. QED  BY <1>0, <3>1, <4>1, SubmittedAgrees DEF RowAgrees
    <3>2. CASE session[s].status # "IN_PROGRESS"
      <4>1. session'[s] = session[s] /\ answers'[s] = answers[s]
        BY <1>6, <3>2, CompleteAlone
      <4>. QED  BY <1>0, <4>1
    <3>. QED  BY <3>1, <3>2
  <2>. QED  BY <2>1, <2>2 DEF RowsInv
<1>7. CASE GradeCommit(w)
  <2>. DEFINE s == req[w].student
              row == IF \A q \in DOMAIN answers[s] : ~Ungraded(answers[s][q])
                     THEN Graded(session[s], EssayScore(answers[s]), session[s])
                     ELSE session[s]
  <2>1. /\ s \in Students /\ session[s] # NoSession /\ exam' = exam
        /\ answers' = answers /\ session' = [session EXCEPT ![s] = row]
    BY <1>7, GradeAlone
  <2>2. RowAgrees(row, answers[s])
    BY <1>0, <2>1, GradedAgrees
  <2>. HIDE DEF s, row
  <2>3. \A t \in Students : RowAgrees(session'[t], answers'[t])
    BY <1>0, <2>1, <2>2 DEF TypeOK
  <2>4. exam \notin {"DRAFT", "PUBLISHED", "deleted"}
    BY <1>0, <2>1 DEF RowsInv
  <2>. QED  BY <2>1, <2>3, <2>4 DEF RowsInv
<1>. QED  BY <1>1, <1>2, <1>3, <1>4, <1>5, <1>6, <1>7

LEMMA InitSerial == Init => SerialInv
<1>1. Init => RowsInv
  BY NoSessionAgrees DEF Init, RowsInv
<1>2. Init => \A w \in Workers : UpToDate(req[w], exam, session, answers)
  BY DEF Init, UpToDate, Idle
<1>. QED  BY <1>1, <1>2, InitType DEF SerialInv

LEMMA NextSerial == Alone /\ SerialInv /\ [Next]_vars => SerialInv'
<1>1. ASSUME Alone, SerialInv, Next PROVE SerialInv'
  <2>0. TypeOK /\ TypeOK'
    BY <1>1, NextType DEF SerialInv
  <2>1. ASSUME NEW w \in Workers,
               TransitionCommit(w) \/ DeleteCommit(w) \/ StartCommit(w) \/ SaveCommit(w)
               \/ SubmitCommit(w) \/ CompleteCommit(w) \/ GradeCommit(w)
        PROVE  SerialInv'
    <3>1. Finish(w)
      BY <2>1 DEF TransitionCommit, DeleteCommit, StartCommit, SaveCommit, SubmitCommit,
                  CompleteCommit, GradeCommit
    <3>. QED  BY <1>1, <2>0, <2>1, <3>1, SerialWrites, AloneFinishes DEF SerialInv
  <2>2. ASSUME NEW s \in Students, TimeRunsOut(s)
        PROVE  SerialInv'
    BY <1>1, <2>0, <2>2 DEF TimeRunsOut, SerialInv, RowsInv
  <2>. QED  BY <1>1, <2>0, <2>1, <2>2, SerialReads DEF Next, SerialInv
<1>2. ASSUME SerialInv, UNCHANGED vars PROVE SerialInv'
  BY <1>2 DEF SerialInv, TypeOK, RowsInv, vars, tables
<1>. QED  BY <1>1, <1>2

\* The steps after which a session can have another status or another total.
LEMMA SessionMoves ==
  ASSUME Alone, SerialInv, Next, NEW s \in Students,
         session'[s].status = "GRADED" \/ session'[s].total_score # session[s].total_score,
         session'[s] # session[s], session'[s] # NoSession
  PROVE  \/ /\ session[s].status = "IN_PROGRESS"
            /\ session'[s] = Submitted(session[s], answers[s])
            /\ answers'[s] = Marked(answers[s], answers[s])
         \/ /\ \A q \in DOMAIN answers[s] : ~Ungraded(answers[s][q])
            /\ session'[s] = Graded(session[s], EssayScore(answers[s]), session[s])
            /\ answers'[s] = answers[s]
<1>. DEFINE Goal ==
       \/ /\ session[s].status = "IN_PROGRESS"
          /\ session'[s] = Submitted(session[s], answers[s])
          /\ answers'[s] = Marked(answers[s], answers[s])
       \/ /\ \A q \in DOMAIN answers[s] : ~Ungraded(answers[s][q])
          /\ session'[s] = Graded(session[s], EssayScore(answers[s]), session[s])
          /\ answers'[s] = answers[s]
<1>0. TypeOK
  BY DEF SerialInv
<1>1. ASSUME NEW w \in Workers, SubmitCommit(w) PROVE Goal
  <2>1. s = req[w].student
    BY <1>0, <1>1, SubmitAlone DEF TypeOK
  <2>. QED  BY <1>0, <1>1, <2>1, SubmitAlone DEF TypeOK
<1>2. ASSUME NEW w \in Workers, CompleteCommit(w) PROVE Goal
  BY <1>2, CompleteAlone
<1>3. ASSUME NEW w \in Workers, GradeCommit(w) PROVE Goal
  <2>. DEFINE t == req[w].student
              row == IF \A q \in DOMAIN answers[t] : ~Ungraded(answers[t][q])
                     THEN Graded(session[t], EssayScore(answers[t]), session[t])
                     ELSE session[t]
  <2>1. t \in Students /\ session' = [session EXCEPT ![t] = row] /\ answers' = answers
    BY <1>3, GradeAlone
  <2>2. s = t /\ session'[s] = row
    BY <1>0, <2>1 DEF TypeOK
  <2>. QED  BY <2>1, <2>2
<1>4. ASSUME NEW w \in Workers, StartCommit(w) PROVE FALSE
  <2>1. session[req[w].student] = NoSession
    BY <1>4 DEF StartCommit
  <2>2. \/ session'[s] = session[s]
        \/ s = req[w].student /\ session'[s] = [NoSession EXCEPT !.status = "IN_PROGRESS"]
    BY <1>0, <1>4, <2>1 DEF StartCommit, TypeOK
  <2>. QED  BY <2>1, <2>2 DEF NoSession
<1>5. ASSUME NEW w \in Workers, DeleteCommit(w) PROVE FALSE
  BY <1>5 DEF DeleteCommit
<1>6. session' # session
  OBVIOUS
<1>. QED  BY <1>1, <1>2, <1>3, <1>4, <1>5, <1>6, NextCases, KeepsUnchanged, TimeKeeps
          DEF WritesSessions

LEMMA TotalsEarned ==
  ASSUME Alone, SerialInv, Next, NEW s \in Students,
         session'[s] # NoSession, session'[s].total_score # session[s].total_score
  PROVE  LET sheet == answers'[s]
         IN session'[s].total_score \in
              {EarnedOn(sheet, DOMAIN sheet),
               EarnedOn(sheet, DOMAIN sheet)
                 + EarnedOn(sheet, {q \in DOMAIN sheet \cap MCQs : sheet[q].essay})}
<1>0. /\ session[s] \in Session /\ answers[s] \in Sheet
      /\ SheetAgrees(session[s], answers[s])
  BY DEF SerialInv, TypeOK, RowsInv, RowAgrees
<1>1. CASE /\ session[s].status = "IN_PROGRESS"
           /\ session'[s] = Submitted(session[s], answers[s])
           /\ answers'[s] = Marked(answers[s], answers[s])
  <2>. DEFINE sheet == Marked(answers[s], answers[s])
              row == Submitted(session[s], answers[s])
  <2>1. sheet \in Sheet /\ SheetAgrees(row, sheet)
    BY <1>0, <1>1, MarkedType, SubmittedAgrees DEF RowAgrees
  <2>2. DOMAIN answers[s] \cap EssayQs = {}
    BY <1>0, <1>1 DEF Submitted, Session
  <2>3. row.total_score = ScoreOn(answers[s]) /\ row.score_mcq = ScoreOn(answers[s])
    BY <1>0, <2>2 DEF Submitted, Session
  <2>4. ScoreOn(answers[s]) \in Nat
    BY <1>0, ScoreOnType
  <2>. HIDE DEF sheet, row
  <2>5. row.total_score = Cardinality(Ones(sheet))
    BY <2>1, <2>3, <2>4, NoneAssumption DEF SheetAgrees, OrZero
  <2>6. DOMAIN sheet \cap Ones(sheet) = Ones(sheet) /\ DOMAIN sheet \in SUBSET DOMAIN sheet
    BY DEF Ones
  <2>7. EarnedOn(sheet, DOMAIN sheet) = Cardinality(Ones(sheet))
    BY <2>1, <2>6, EarnedCounts
  <2>. QED  BY <1>1, <2>5, <2>7 DEF sheet, row
<1>2. CASE /\ session'[s] = Graded(session[s], EssayScore(answers[s]), session[s])
           /\ answers'[s] = answers[s]
  <2>. DEFINE sheet == answers[s]
              texts == {q \in DOMAIN sheet : sheet[q].essay \/ sheet[q].graded}
              twice == {q \in DOMAIN sheet \cap MCQs : sheet[q].essay}
  <2>0. sheet \in Sheet /\ SheetAgrees(session[s], sheet)
    BY <1>0
  <2>1. session'[s].total_score = Cardinality(Ones(sheet)) + EarnedOn(sheet, texts)
    <3>1. RowAgrees(session[s], answers[s])
      BY DEF SerialInv, RowsInv
    <3>. QED  BY <1>0, <1>2, <3>1, GradedAgrees DEF SheetAgrees, EssayScore
  <2>. HIDE DEF sheet
  <2>2. texts \cap Ones(sheet) = twice \cap Ones(sheet)
    <3>1. ASSUME NEW q \in Ones(sheet)
          PROVE  q \in DOMAIN sheet /\ q \in MCQs /\ ~sheet[q].graded
      BY <2>0, NoneAssumption DEF SheetAgrees, Ones
    <3>. QED  BY <3>1
  <2>3. texts \in SUBSET DOMAIN sheet /\ twice \in SUBSET DOMAIN sheet
    OBVIOUS
  <2>. HIDE DEF texts, twice
  <2>4. EarnedOn(sheet, texts) = EarnedOn(sheet, twice)
    BY <2>0, <2>2, <2>3, EarnedCounts
  <2>5. DOMAIN sheet \cap Ones(sheet) = Ones(sheet) /\ DOMAIN sheet \in SUBSET DOMAIN sheet
    BY DEF Ones
  <2>6. EarnedOn(sheet, DOMAIN sheet) = Cardinality(Ones(sheet))
    BY <2>0, <2>5, EarnedCounts
  <2>. QED  BY <1>2, <2>1, <2>4, <2>6 DEF sheet, twice
<1>3. session'[s] # session[s]
  OBVIOUS
<1>. QED  BY <1>1, <1>2, <1>3, SessionMoves

\* With requests that do not overlap, a total that is written is what the
\* answers have earned, counted once more at most for an answer to a choice
\* question that has a text: no marks but those of the submission are ever in
\* the sheet, and the score of the session counts exactly these.
THEOREM TotalsAreEarned ==
  ASSUME Alone
  PROVE  Spec => TotalIsEarned
<1>1. SerialInv /\ [Next]_vars => SerialInv'
  BY NextSerial
<1>2. SerialInv /\ [Next]_vars =>
        [\A s \in Students :
           LET sheet == answers'[s]
               total == session'[s].total_score
           IN session'[s] # NoSession /\ total # session[s].total_score =>
                total \in {EarnedOn(sheet, DOMAIN sheet),
                           EarnedOn(sheet, DOMAIN sheet)
                             + EarnedOn(sheet, {q \in DOMAIN sheet \cap MCQs :
                                                  sheet[q].essay})}]_vars
  BY TotalsEarned
<1>. QED  BY <1>1, <1>2, InitSerial, PTL DEF Spec, TotalIsEarned

\* With requests that do not overlap, a session becomes graded only once every
\* essay the student has answered has points: a submission leaves a session
\* with essays to the grading, and the grading leaves it as long as an answer
\* is without points.
THEOREM GradedMeansEssaysMarked ==
  ASSUME Alone
  PROVE  Spec => GradedEssaysMarked
<1>1. SerialInv /\ [Next]_vars => SerialInv'
  BY NextSerial
<1>2. ASSUME SerialInv, Next, NEW s \in Students,
             session[s].status # "GRADED", session'[s].status = "GRADED",
             NEW q \in DOMAIN answers'[s] \cap EssayQs, answers'[s][q].points = None
      PROVE  answers'[s][q].selected = "none" /\ ~answers'[s][q].essay
  <2>1. session[s] \in Session /\ answers[s] \in Sheet
    BY <1>2 DEF SerialInv, TypeOK
  <2>2. session'[s] # session[s] /\ session'[s] # NoSession
    BY <1>2 DEF NoSession
  <2>3. CASE /\ session'[s] = Submitted(session[s], answers[s])
             /\ answers'[s] = Marked(answers[s], answers[s])
    <3>1. DOMAIN answers[s] \cap EssayQs = {}
      BY <1>2, <2>1, <2>3 DEF Submitted, Session
    <3>. QED  BY <1>2, <2>3, <3>1 DEF Marked
  <2>4. CASE /\ \A p \in DOMAIN answers[s] : ~Ungraded(answers[s][p])
             /\ answers'[s] = answers[s]
    BY <1>2, <2>4 DEF Ungraded
  <2>. QED  BY <1>2, <2>2, <2>3, <2>4, SessionMoves
<1>3. SerialInv /\ [Next]_vars =>
        [\A s \in Students :
           session[s].status # "GRADED" /\ session'[s].status = "GRADED" =>
             \A q \in DOMAIN answers'[s] \cap EssayQs :
               LET a == answers'[s][q]
               IN a.points = None => a.selected = "none" /\ ~a.essay]_vars
  BY <1>2
<1>. QED  BY <1>1, <1>3, InitSerial, PTL DEF Spec, GradedEssaysMarked
-----------------------------------------------------------------------------
(* The promise of an exam is kept *)

StandsAs(status) ==
  CASE status = "none" -> "absent"
    [] status = "IN_PROGRESS" -> "writing"
    [] status = "SUBMITTED" -> "handed in"
    [] status = "GRADED" -> "graded"

LEMMA Stands ==
  /\ StandsAs("none") = "absent" /\ StandsAs("IN_PROGRESS") = "writing"
  /\ StandsAs("SUBMITTED") = "handed in" /\ StandsAs("GRADED") = "graded"
BY DEF StandsAs

LEMMA SittingIs ==
  /\ Sitting = [s \in Students |-> StandsAs(session[s].status)]
  /\ Sitting' = [s \in Students |-> StandsAs(session'[s].status)]
BY DEF Sitting, StandsAs

\* A row written for one student moves that student alone.
LEMMA OneMoves ==
  ASSUME TypeOK, NEW s \in Students, NEW row, session' = [session EXCEPT ![s] = row]
  PROVE  Sitting' = [Sitting EXCEPT ![s] = StandsAs(row.status)]
BY SittingIs DEF TypeOK

LEMMA SubmittedStands ==
  ASSUME NEW row \in Session, NEW sheet
  PROVE  StandsAs(Submitted(row, sheet).status) \in {"handed in", "graded"}
<1>1. Submitted(row, sheet).status \in {"SUBMITTED", "GRADED"}
  BY DEF Submitted, Session
<1>. QED  BY <1>1 DEF StandsAs

LEMMA SubmitPromised ==
  ASSUME SerialInv, NEW w \in Workers, SubmitCommit(w)
  PROVE  \E s \in Students : Promise!HandIn(s)
<1>. DEFINE s == req[w].student
            row == Submitted(session[s], answers[s])
<1>1. /\ s \in Students /\ session[s].status = "IN_PROGRESS" /\ session[s] \in Session
      /\ session' = [session EXCEPT ![s] = row] /\ exam' = exam
  BY SubmitAlone
<1>2. StandsAs(row.status) \in {"handed in", "graded"}
  BY <1>1, SubmittedStands
<1>. HIDE DEF s, row
<1>3. Sitting' = [Sitting EXCEPT ![s] = StandsAs(row.status)] /\ Sitting[s] = "writing"
  BY <1>1, OneMoves, SittingIs DEF SerialInv, StandsAs
<1>4. Phase' = Phase
  BY <1>1 DEF Phase
<1>. QED  BY <1>1, <1>2, <1>3, <1>4 DEF Promise!HandIn

LEMMA CompletePromised ==
  ASSUME SerialInv, NEW w \in Workers, CompleteCommit(w)
  PROVE  Promise!Close
<1>1. Phase = "open" /\ Phase' = "closed"
  BY CompleteAlone DEF Phase
<1>. DEFINE after == [s \in Students |->
                        IF session[s].status = "IN_PROGRESS"
                        THEN StandsAs(Submitted(session[s], answers[s]).status)
                        ELSE "graded"]
<1>2. after \in [Students -> {"handed in", "graded"}]
  BY SubmittedStands DEF SerialInv, TypeOK
<1>3. ASSUME NEW s \in Students
      PROVE  /\ Sitting[s] = "writing" <=> session[s].status = "IN_PROGRESS"
             /\ Sitting'[s] = IF Sitting[s] = "writing" THEN after[s] ELSE Sitting[s]
  <2>1. session[s].status \in {"none", "IN_PROGRESS", "SUBMITTED", "GRADED"}
    BY DEF SerialInv, TypeOK, Session, SessionStatus
  <2>2. Sitting[s] = "writing" <=> session[s].status = "IN_PROGRESS"
    BY <2>1, SittingIs DEF StandsAs
  <2>3. CASE session[s].status = "IN_PROGRESS"
    <3>1. session'[s] = Submitted(session[s], answers[s])
      BY <2>3, CompleteAlone
    <3>2. Sitting'[s] = after[s]
      BY <2>3, <3>1, SittingIs
    <3>. QED  BY <2>2, <2>3, <3>2
  <2>4. CASE session[s].status # "IN_PROGRESS"
    <3>1. session'[s] = session[s]
      BY <2>4, CompleteAlone
    <3>2. Sitting'[s] = Sitting[s]
      BY <3>1, SittingIs
    <3>. QED  BY <2>2, <2>4, <3>2
  <2>. QED  BY <2>2, <2>3, <2>4
<1>. HIDE DEF after
<1>4. Sitting' = [s \in Students |-> IF Sitting[s] = "writing" THEN after[s] ELSE Sitting[s]]
  <2>1. Sitting' = [s \in Students |-> Sitting'[s]]
    BY SittingIs
  <2>. QED  BY <1>3, <2>1
<1>. QED  BY <1>1, <1>2, <1>4 DEF Promise!Close

LEMMA GradePromised ==
  ASSUME SerialInv, NEW w \in Workers, GradeCommit(w)
  PROVE  \/ \E s \in Students : Promise!Grade(s)
         \/ UNCHANGED <<Phase, Sitting>>
<1>. DEFINE s == req[w].student
<1>1. s \in Students /\ session[s] # NoSession /\ session[s] \in Session /\ exam' = exam
  BY GradeAlone
<1>. DEFINE essayScore == EssayScore(answers[s])
            allGraded == \A q \in DOMAIN answers[s] : ~Ungraded(answers[s][q])
<1>2. session' = [session EXCEPT ![s] =
        IF allGraded THEN Graded(session[s], essayScore, session[s]) ELSE session[s]]
  BY GradeAlone
<1>. HIDE DEF essayScore, allGraded
<1>6. Graded(session[s], essayScore, session[s]).status = "GRADED"
  BY <1>1, GradedAgrees DEF SerialInv, RowsInv
<1>. HIDE DEF s
<1>3. Phase' = Phase
  BY <1>1 DEF Phase
<1>4. CASE ~allGraded \/ session[s].status = "GRADED"
  <2>1. \A t \in Students : session'[t].status = session[t].status
    BY <1>1, <1>2, <1>4, <1>6 DEF SerialInv, TypeOK
  <2>2. Sitting' = Sitting
    BY <2>1, SittingIs
  <2>. QED  BY <1>3, <2>2
<1>5. CASE allGraded /\ session[s].status # "GRADED"
  <2>. DEFINE row == Graded(session[s], essayScore, session[s])
  <2>1. session' = [session EXCEPT ![s] = row] /\ row.status = "GRADED"
    BY <1>1, <1>2, <1>5, <1>6
  <2>. HIDE DEF row
  <2>2. Sitting' = [Sitting EXCEPT ![s] = "graded"]
    <3>1. Sitting' = [Sitting EXCEPT ![s] = StandsAs(row.status)]
      BY <1>1, <2>1, OneMoves DEF SerialInv
    <3>. QED  BY <2>1, <3>1, Stands
  <2>3. session[s].status \in {"IN_PROGRESS", "SUBMITTED"}
    BY <1>1, <1>5 DEF SerialInv, RowsInv, RowAgrees, Session, SessionStatus
  <2>4. Sitting[s] \in {"writing", "handed in"}
    BY <1>1, <2>3, SittingIs DEF StandsAs
  <2>. QED  BY <1>1, <1>3, <2>2, <2>4 DEF Promise!Grade
<1>. QED  BY <1>4, <1>5

LEMMA StartPromised ==
  ASSUME SerialInv, NEW w \in Workers, StartCommit(w)
  PROVE  \E s \in Students : Promise!Sit(s)
<1>. DEFINE s == req[w].student
            row == [NoSession EXCEPT !.status = "IN_PROGRESS"]
<1>0. TypeOK /\ UpToDate(req[w], exam, session, answers)
  BY DEF SerialInv
<1>1. s \in Students /\ exam = "ACTIVE" /\ exam' = exam
  BY <1>0, RequestShape DEF StartCommit, UpToDate, TypeOK
<1>2. session[s] = NoSession /\ session' = [session EXCEPT ![s] = row]
  BY DEF StartCommit
<1>3. row.status = "IN_PROGRESS" /\ NoSession.status = "none"
  BY DEF NoSession
<1>. HIDE DEF s, row
<1>4. Sitting' = [Sitting EXCEPT ![s] = "writing"] /\ Sitting[s] = "absent"
  BY <1>0, <1>1, <1>2, <1>3, OneMoves, SittingIs DEF StandsAs
<1>5. Phase = "open" /\ Phase' = Phase
  BY <1>1 DEF Phase
<1>. QED  BY <1>1, <1>4, <1>5 DEF Promise!Sit

\* Publishing is not visible, activation opens the exam, and a draft that is
\* deleted had no sessions.
LEMMA LifePromised ==
  ASSUME SerialInv, NEW w \in Workers, TransitionCommit(w) \/ DeleteCommit(w)
  PROVE  Promise!Open \/ Promise!Cancel \/ UNCHANGED <<Phase, Sitting>>
<1>0. UpToDate(req[w], exam, session, answers)
  BY DEF SerialInv
<1>1. CASE TransitionCommit(w)
  <2>1. Sitting' = Sitting
    BY <1>1, SittingIs DEF TransitionCommit
  <2>2. <<exam, exam'>> \in {<<"DRAFT", "PUBLISHED">>, <<"PUBLISHED", "ACTIVE">>}
    BY <1>0, <1>1 DEF UpToDate, TransitionCommit
  <2>3. Phase = "prepared" /\ Phase' \in {"prepared", "open"}
    BY <2>2 DEF Phase
  <2>. QED  BY <2>1, <2>3 DEF Promise!Open
<1>2. CASE DeleteCommit(w)
  <2>1. exam = "DRAFT" /\ exam' = "deleted"
    BY <1>0, <1>2 DEF UpToDate, DeleteCommit
  <2>2. \A s \in Students : session[s] = NoSession /\ session'[s] = NoSession
    BY <1>2, <2>1 DEF DeleteCommit, SerialInv, RowsInv
  <2>3. NoSession.status = "none"
    BY DEF NoSession
  <2>4. Sitting' = Sitting /\ \A s \in Students : Sitting[s] = "absent"
    BY <2>2, <2>3, SittingIs, Stands
  <2>5. Phase = "prepared" /\ Phase' = "cancelled"
    BY <2>1 DEF Phase
  <2>. QED  BY <2>4, <2>5 DEF Promise!Cancel
<1>. QED  BY <1>1, <1>2

LEMMA InitPromised == Init => Promise!Init
<1>. SUFFICES ASSUME Init PROVE Promise!Init
  OBVIOUS
<1>1. NoSession.status = "none"
  BY DEF NoSession
<1>2. \A s \in Students : session[s] = NoSession
  BY DEF Init
<1>3. Sitting = [s \in Students |-> "absent"]
  BY <1>1, <1>2, SittingIs, Stands
<1>4. Phase = "prepared"
  BY DEF Init, Phase
<1>. QED  BY <1>3, <1>4 DEF Promise!Init

LEMMA NextPromised == Alone /\ SerialInv /\ [Next]_vars => [Promise!Next]_(Promise!vars)
<1>. SUFFICES ASSUME Alone, SerialInv, [Next]_vars
              PROVE  Promise!Next \/ UNCHANGED <<Phase, Sitting>>
  BY DEF Promise!vars
<1>1. ASSUME exam' = exam, session' = session
      PROVE  UNCHANGED <<Phase, Sitting>>
  BY <1>1, SittingIs DEF Phase
<1>2. CASE UNCHANGED vars
  BY <1>1, <1>2 DEF vars, tables
<1>3. ASSUME NEW w \in Workers, SaveCommit(w)
      PROVE  exam' = exam /\ session' = session
  BY <1>3 DEF SaveCommit
<1>4. ASSUME NEW s \in Students, TimeRunsOut(s)
      PROVE  exam' = exam /\ session' = session
  BY <1>4 DEF TimeRunsOut
<1>5. UNCHANGED tables => exam' = exam /\ session' = session
  BY DEF tables
<1>6. ASSUME NEW w \in Workers,
             TransitionCommit(w) \/ DeleteCommit(w) \/ StartCommit(w)
             \/ SubmitCommit(w) \/ CompleteCommit(w) \/ GradeCommit(w)
      PROVE  Promise!Next \/ UNCHANGED <<Phase, Sitting>>
  BY <1>6, LifePromised, StartPromised, SubmitPromised, CompletePromised, GradePromised
     DEF Promise!Next
<1>. QED  BY <1>1, <1>2, <1>3, <1>4, <1>5, <1>6, SerialReads DEF Next

\* Requests that do not overlap implement Examination: the exam and its
\* students go only through the stages it allows, and the end of the exam
\* leaves nobody writing.
THEOREM KeepsExamPromise ==
  ASSUME Alone
  PROVE  Spec => ImplementsExamination
<1>1. SerialInv /\ [Next]_vars => SerialInv'
  BY NextSerial
<1>2. SerialInv /\ [Next]_vars => [Promise!Next]_(Promise!vars)
  BY NextPromised
<1>. QED  BY <1>1, <1>2, InitSerial, InitPromised, PTL DEF Spec, ImplementsExamination, Promise!Spec
=============================================================================
