------------------------------ MODULE Origins ------------------------------
(***************************************************************************)
(* The origins browsers may call from: a table, and in the memory of each  *)
(* server process a set that is loaded at startup and then changed by the  *)
(* requests that this process serves, each before its own commit. A        *)
(* request reads, changes memory and commits in separate steps.            *)
(*                                                                         *)
(* A name with an underscore is a faulty variant of the definition it      *)
(* precedes, as in Dormitory.                                              *)
(***************************************************************************)
CONSTANTS
  Workers,    \* requests that can be in flight at the same time
  Processes,  \* server processes; the image starts one
  Entries,    \* origins
  Static      \* those of settings.CORS_ORIGINS

VARIABLES
  rows,     \* the row of each origin
  allowed,  \* _allowed in each process
  drifted,  \* for the properties: origins whose memory may be wrong, by process
  req       \* the request each worker is serving

vars == <<rows, allowed, drifted, req>>

-----------------------------------------------------------------------------
Row == {"no row", "active", "inactive"}
Idle == [op |-> "idle"]

\* to is the row as the request leaves it. After its first step a request has
\* read; after the second memory is changed and only the commit is missing.
\* gone says that the row it read was deleted meanwhile, key and all.
Request ==
  {Idle}
  \cup [op : {"create", "delete", "toggle"}, step : {"read", "changed"}, process : Processes,
        origin : Entries, to : Row, gone : BOOLEAN]

Init ==
  /\ rows = [o \in Entries |-> "no row"]
  /\ allowed = [p \in Processes |-> Static]
  /\ drifted = [p \in Processes |-> {}]
  /\ req = [w \in Workers |-> Idle]

Active == {o \in Entries : rows[o] = "active"}
Pending(o) == {w \in Workers : req[w] # Idle /\ req[w].origin = o}

Drift(o, processes) ==
  drifted' = [p \in Processes |-> drifted[p] \cup IF p \in processes THEN {o} ELSE {}]

-----------------------------------------------------------------------------
(* Requests *)

\* Overlapping requests may change memory in one order and commit in another.
Begin(w, op, p, o, to) ==
  /\ req[w] = Idle
  /\ Drift(o, IF Pending(o) = {} THEN {} ELSE Processes)
  /\ req' = [req EXCEPT ![w] =
       [op |-> op, step |-> "read", process |-> p, origin |-> o, to |-> to, gone |-> FALSE]]
  /\ UNCHANGED <<rows, allowed>>

CreateRead(w, p, o, is_active) ==
  /\ rows[o] = "no row"
  /\ Begin(w, "create", p, o, is_active)

DeleteRead(w, p, o) ==
  /\ rows[o] # "no row"
  /\ Begin(w, "delete", p, o, "no row")

ToggleRead(w, p, o) ==
  /\ rows[o] # "no row"
  /\ Begin(w, "toggle", p, o, IF rows[o] = "active" THEN "inactive" ELSE "active")

\* A create has flushed its insert by then, which fails on a row that is there
\* and waits for one that is being inserted.
CanInsert(o) ==
  /\ rows[o] = "no row"
  /\ \A v \in Pending(o) : ~(req[v].op = "create" /\ req[v].step = "changed")

\* add_origin or remove_origin; the environment's origins are not spared, and
\* a row created inactive leaves memory alone.
InMemory_Kept(set, r) ==
  IF r.to = "active" THEN set \cup {r.origin} ELSE IF r.op = "toggle" THEN set \ {r.origin} ELSE set
InMemory(set, r) ==
  IF r.to = "active" THEN set \cup {r.origin} ELSE IF r.op = "create" THEN set ELSE set \ {r.origin}

ChangeMemory(w) ==
  LET r == req[w] IN
  /\ r # Idle /\ r.step = "read"
  /\ r.op = "create" => CanInsert(r.origin)
  /\ allowed' = [allowed EXCEPT ![r.process] = InMemory(@, r)]
  /\ req' = [req EXCEPT ![w].step = "changed"]
  /\ UNCHANGED <<rows, drifted>>

\* No other process hears of it, and an origin of the environment that was
\* deleted or switched off stays out of memory until the next start.
Misled(r) ==
  (Processes \ {r.process})
  \cup IF r.origin \in Static /\ r.to # "active" THEN {r.process} ELSE {}

\* A toggle of a row that is gone fails; a delete of it changes nothing.
Commit(w) ==
  LET r == req[w]
      Others == Pending(r.origin) \ {w}
  IN  /\ r # Idle /\ r.step = "changed"
      /\ r.gone => r.op = "delete"
      /\ rows' = IF r.gone THEN rows ELSE [rows EXCEPT ![r.origin] = r.to]
      /\ req' = [v \in Workers |->
           IF v = w THEN Idle
           ELSE IF r.op = "delete" /\ v \in Others /\ req[v].op # "create"
           THEN [req[v] EXCEPT !.gone = TRUE]
           ELSE req[v]]
      /\ Drift(r.origin, Misled(r))
      /\ UNCHANGED allowed

\* get_db rolls back; memory stays as it was changed.
Abort(w) ==
  LET r == req[w] IN
  /\ r # Idle
  /\ req' = [req EXCEPT ![w] = Idle]
  /\ Drift(r.origin, IF r.step = "changed" THEN {r.process} ELSE {})
  /\ UNCHANGED <<rows, allowed>>

-----------------------------------------------------------------------------
(* Processes *)

\* The requests of the process end with it. This is the step of the SELECT: the
\* process serves nobody until it has called set_origins with the result, so a
\* commit in between is one of another process, of which it does not hear, here
\* as in the code. When the table cannot be read, the process goes on with the
\* origins of the environment.
Restart(p, loaded) ==
  /\ allowed' = [allowed EXCEPT ![p] = Static \cup loaded]
  /\ drifted' = [drifted EXCEPT ![p] = Active \ loaded]
  /\ req' = [w \in Workers |-> IF req[w] # Idle /\ req[w].process = p THEN Idle ELSE req[w]]
  /\ UNCHANGED rows

RequestStep(w) ==
  \/ \E p \in Processes, o \in Entries :
       \/ \E is_active \in {"active", "inactive"} : CreateRead(w, p, o, is_active)
       \/ DeleteRead(w, p, o)
       \/ ToggleRead(w, p, o)
  \/ ChangeMemory(w)
  \/ Commit(w)
  \/ Abort(w)

Next ==
  \/ \E w \in Workers : RequestStep(w)
  \/ \E p \in Processes : Restart(p, Active) \/ Restart(p, {})

Spec == Init /\ [][Next]_vars

-----------------------------------------------------------------------------
TypeOK ==
  /\ rows \in [Entries -> Row]
  /\ allowed \in [Processes -> SUBSET Entries]
  /\ drifted \in [Processes -> SUBSET Entries]
  /\ req \in [Workers -> Request]

\* While no request for an origin is under way, each process allows it exactly
\* when the environment names it or its row is active. What makes a process
\* drift until its next start, and nothing else does: a rollback after it
\* changed memory, a commit in another process, overlapping requests for the
\* origin, an origin of the environment deleted or switched off, or a table
\* that could not be read at startup.
MemoryMatchesTable ==
  \A p \in Processes : \A o \in Entries \ drifted[p] :
    Pending(o) = {} => (o \in allowed[p] <=> o \in Static \cup Active)
=============================================================================
