----------------------------- MODULE MCSessions -----------------------------
(* Sessions on small instances. *)
EXTENDS Sessions, TLC

\* Nothing tells one user, phone or worker from another.
Interchangeable == Permutations(Users) \cup Permutations(Phones) \cup Permutations(Workers)
=============================================================================
