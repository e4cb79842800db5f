------------------------------- MODULE MCExams -------------------------------
(* Exams on small instances, with its mapping to Examination. *)
EXTENDS Exams, TLC

\* Students and workers are interchangeable.
StudentsAndWorkers == Permutations(Students) \cup Permutations(Workers)

Phase ==
  CASE exam \in {"DRAFT", "PUBLISHED"} -> "prepared"
    [] exam = "ACTIVE" -> "open"
    [] exam = "COMPLETED" -> "closed"
    [] exam = "deleted" -> "cancelled"

Sitting ==
  [s \in Students |->
     CASE session[s].status = "none" -> "absent"
       [] session[s].status = "IN_PROGRESS" -> "writing"
       [] session[s].status = "SUBMITTED" -> "handed in"
       [] session[s].status = "GRADED" -> "graded"]

Promise == INSTANCE Examination WITH phase <- Phase, sitting <- Sitting

\* Requests that do not overlap take the exam and its students only through
\* the stages Examination allows: nobody sits a closed exam, a result is not
\* taken back, and completing the exam hands in every open session.
ImplementsExamination == Promise!Spec
=============================================================================
