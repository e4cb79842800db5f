----------------------------- MODULE MCDormitory -----------------------------
(* Dormitory on small instances, with its mapping to Residence. *)
EXTENDS Dormitory, TLC

CONSTANT Nowhere

ASSUME NowhereAssumption == Nowhere \notin Rooms

\* Students and workers are interchangeable.
StudentsAndWorkers == Permutations(Students) \cup Permutations(Workers)

Home ==
  [s \in Students |->
     IF ActiveOf(s) = {} THEN Nowhere ELSE (CHOOSE a \in ActiveOf(s) : TRUE).room]

Promise ==
  INSTANCE Residence WITH
    home <- Home,
    open <- {r \in Rooms : roomIs[r] = "live"},
    beds <- capacity

\* Requests that do not overlap move students in and out, resize and close
\* rooms exactly as Residence allows: nobody moves into a full room, and no
\* room is deleted over its residents, although the handlers only look at the
\* occupancy counter.
ImplementsResidence == Promise!Spec
=============================================================================
