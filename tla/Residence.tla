------------------------------ MODULE Residence ------------------------------
(***************************************************************************)
(* What the dormitory promises, without rows, counters or requests: every  *)
(* student lives in one room at most, nobody moves into a full room, and   *)
(* no room is closed over its residents. Dormitory is shown to implement   *)
(* this as long as its requests do not overlap.                            *)
(***************************************************************************)
EXTENDS Naturals, FiniteSets

CONSTANTS Students, Rooms, Capacities, Nowhere

VARIABLES
  home,   \* where each student lives
  open,   \* the rooms in use
  beds    \* how many students a room may house

vars == <<home, open, beds>>

Residents(r) == {s \in Students : home[s] = r}

Init ==
  /\ home = [s \in Students |-> Nowhere]
  /\ open = {}
  /\ beds \in [Rooms -> Capacities]

Open(r) ==
  /\ r \notin open
  /\ open' = open \cup {r}
  /\ UNCHANGED <<home, beds>>

Close(r) ==
  /\ r \in open
  /\ Residents(r) = {}
  /\ open' = open \ {r}
  /\ UNCHANGED <<home, beds>>

Resize(r, c) ==
  /\ r \in open
  /\ beds' = [beds EXCEPT ![r] = c]
  /\ UNCHANGED <<home, open>>

MoveIn(s, r) ==
  /\ home[s] = Nowhere
  /\ r \in open
  /\ Cardinality(Residents(r)) < beds[r]
  /\ home' = [home EXCEPT ![s] = r]
  /\ UNCHANGED <<open, beds>>

MoveOut(s) ==
  /\ home[s] # Nowhere
  /\ home' = [home EXCEPT ![s] = Nowhere]
  /\ UNCHANGED <<open, beds>>

Next ==
  \/ \E r \in Rooms : Open(r) \/ Close(r) \/ (\E c \in Capacities : Resize(r, c))
  \/ \E s \in Students : MoveOut(s) \/ (\E r \in Rooms : MoveIn(s, r))

Spec == Init /\ [][Next]_vars
=============================================================================
