----------------------------- MODULE Examination -----------------------------
(***************************************************************************)
(* What an exam promises, without questions, scores or requests: students  *)
(* sit it only while it is open, and when it closes nobody is still        *)
(* writing. Exams is shown to implement this as long as its requests do    *)
(* not overlap.                                                            *)
(***************************************************************************)
CONSTANT Students

VARIABLES
  phase,    \* where the exam stands
  sitting   \* where each student stands

vars == <<phase, sitting>>

Init ==
  /\ phase = "prepared"
  /\ sitting = [s \in Students |-> "absent"]

Cancel ==
  /\ phase = "prepared"
  /\ \A s \in Students : sitting[s] = "absent"
  /\ phase' = "cancelled"
  /\ UNCHANGED sitting

Open ==
  /\ phase = "prepared"
  /\ phase' = "open"
  /\ UNCHANGED sitting

Sit(s) ==
  /\ phase = "open"
  /\ sitting[s] = "absent"
  /\ sitting' = [sitting EXCEPT ![s] = "writing"]
  /\ UNCHANGED phase

\* A paper without essays is graded as it is handed in.
HandIn(s) ==
  /\ sitting[s] = "writing"
  /\ \E after \in {"handed in", "graded"} : sitting' = [sitting EXCEPT ![s] = after]
  /\ UNCHANGED phase

\* A teacher may grade before the paper is handed in, which ends the sitting.
Grade(s) ==
  /\ sitting[s] \in {"writing", "handed in"}
  /\ sitting' = [sitting EXCEPT ![s] = "graded"]
  /\ UNCHANGED phase

Close ==
  /\ phase = "open"
  /\ phase' = "closed"
  /\ \E after \in [Students -> {"handed in", "graded"}] :
       sitting' = [s \in Students |-> IF sitting[s] = "writing" THEN after[s] ELSE sitting[s]]

Next ==
  \/ Cancel \/ Open \/ Close
  \/ \E s \in Students : Sit(s) \/ HandIn(s) \/ Grade(s)

Spec == Init /\ [][Next]_vars
=============================================================================
