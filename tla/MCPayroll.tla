----------------------------- MODULE MCPayroll -----------------------------
(* Payroll on small instances. *)
EXTENDS Payroll, TLC

\* Nothing tells one user, teacher, month, key or worker from another.
Interchangeable ==
  Permutations(Staff) \cup Permutations(Teachers) \cup Permutations(Periods)
    \cup Permutations(Contracts) \cup Permutations(Runs) \cup Permutations(Workers)
=============================================================================
