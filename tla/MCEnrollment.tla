---------------------------- MODULE MCEnrollment ----------------------------
(* Enrollment on small instances. *)
EXTENDS Enrollment, TLC

\* Nothing tells one student, year, class or worker from another.
Interchangeable ==
  Permutations(Students) \cup Permutations(Years) \cup Permutations(Classes)
    \cup Permutations(Workers)
=============================================================================
