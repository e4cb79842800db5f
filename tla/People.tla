------------------------------- MODULE People -------------------------------
(***************************************************************************)
(* Teachers and the user accounts they sign in with, which are found and   *)
(* made by telephone number. A teacher's own number (NIP) is the key: its  *)
(* unique constraint admits one row of each, deleted ones included.        *)
(* Requests read and commit in separate steps as in Dormitory.             *)
(* A phone is a number as it is spelled in a row. Only teachers normalize  *)
(* a number by adding a missing dial code, users do not: one number may be *)
(* two phones here, and what is said of phones is said of spellings.       *)
(* update_user stores what it is given; a spelling no lookup asks for is   *)
(* "none" here, as no number at all.                                       *)
(*                                                                         *)
(* A name with an underscore is a faulty variant of the definition it      *)
(* precedes, as in Dormitory.                                              *)
(***************************************************************************)
EXTENDS FiniteSets

CONSTANTS
  Workers,   \* requests that can be in flight at the same time
  Accounts,  \* keys of users
  NIPs,      \* numbers of teachers
  Phones

VARIABLES
  accounts,  \* the row of each account
  teachers,  \* the row that has each NIP, deleted ones included
  req        \* the request each worker is serving

vars == <<accounts, teachers, req>>

-----------------------------------------------------------------------------
NoRow == [is |-> "no row"]

\* email is the phone of a placeholder address, or "own": people's own
\* addresses never collide with those.
Account == [is : {"account"}, phone : Phones \cup {"none"}, email : Phones \cup {"own"}]
Teacher == [is : {"teacher"}, phone : Phones \cup {"none"},
            user : Accounts \cup {"none"}, is_deleted : BOOLEAN]

Idle == [op |-> "idle"]

\* seen is the teacher's row when it was read, NoRow for a new one. user is
\* the account that is linked or was found, "new" for one to be made, and
\* read the phone it had.
Request ==
  {Idle}
  \cup [op : {"create_user"}, phone : Phones, found : SUBSET Accounts]
  \cup [op : {"update_user"}, user : Accounts, phone : Phones \cup {"none"},
        read : Phones \cup {"none"}]
  \cup [op : {"update"}, teacher : NIPs, phone : Phones, seen : Teacher]
  \cup [op : {"save"}, teacher : NIPs, phone : Phones, seen : Teacher \cup {NoRow},
        user : Accounts \cup {"new"}, read : Phones \cup {"none"}]

Init ==
  /\ accounts = [a \in Accounts |-> NoRow]
  /\ teachers = [n \in NIPs |-> NoRow]
  /\ req = [w \in Workers |-> Idle]

Serve(w, request) == req' = [req EXCEPT ![w] = request]
Finish(w) == Serve(w, Idle)

\* The ORM leaves a column alone when the handler set it to the value it read.
Write(read, set, committed) == IF set = read THEN committed ELSE set

Registered == {a \in Accounts : accounts[a] # NoRow}
Live == {n \in NIPs : teachers[n] # NoRow /\ ~teachers[n].is_deleted}

Holders(phone) == {a \in Registered : accounts[a].phone = phone}
Placeholders(phone) == {a \in Registered : accounts[a].email = phone}

-----------------------------------------------------------------------------
(* Accounts *)

MayRegister_NoLookup(phone) == TRUE
MayRegister(phone) == Holders(phone) = {}

CreateUserRead(w, phone) ==
  /\ req[w] = Idle
  /\ MayRegister(phone)
  /\ Serve(w, [op |-> "create_user", phone |-> phone, found |-> Holders(phone)])
  /\ UNCHANGED <<accounts, teachers>>

Register(a, phone, email) ==
  /\ accounts[a] = NoRow
  /\ accounts' = [accounts EXCEPT ![a] = [is |-> "account", phone |-> phone, email |-> email]]

CreateUserCommit(w, a) ==
  /\ req[w].op = "create_user"
  /\ Register(a, req[w].phone, "own")
  /\ Finish(w)
  /\ UNCHANGED teachers

CreateUserWithoutPhone(a) ==
  /\ Register(a, "none", "own")
  /\ UNCHANGED <<teachers, req>>

\* update_user takes any phone and looks for no other holder.
UpdateUserRead(w, a, phone) ==
  /\ req[w] = Idle
  /\ a \in Registered
  /\ Serve(w, [op |-> "update_user", user |-> a, phone |-> phone, read |-> accounts[a].phone])
  /\ UNCHANGED <<accounts, teachers>>

UpdateUserCommit(w) ==
  LET r == req[w] IN
  /\ r.op = "update_user"
  /\ accounts' = [accounts EXCEPT ![r.user].phone = Write(r.read, r.phone, @)]
  /\ Finish(w)
  /\ UNCHANGED teachers

-----------------------------------------------------------------------------
(* Teachers *)

\* The unique constraint on the number covers deleted rows, the lookup does not.
NumberIsFree(row) == row = NoRow

IsLinked(row) == row # NoRow /\ row.user # "none"

\* The linked account is read by its key, any other by the phone: there two
\* holders make get_by_phone raise.
AccountFor(row, phone) ==
  IF IsLinked(row) THEN {row.user}
  ELSE IF Holders(phone) = {} THEN {"new"}
  ELSE Holders(phone)

FindAccount(w, n, phone, row) ==
  /\ Cardinality(AccountFor(row, phone)) = 1
  /\ \E user \in AccountFor(row, phone) :
       Serve(w, [op |-> "save", teacher |-> n, phone |-> phone, seen |-> row, user |-> user,
                 read |-> IF user = "new" THEN "none" ELSE accounts[user].phone])
  /\ UNCHANGED <<accounts, teachers>>

\* Both lookups are one step: the number's only refuses, and what it may
\* miss before the other the constraint refuses in the end.
CreateTeacherRead(w, n, phone) ==
  /\ req[w] = Idle
  /\ n \notin Live
  /\ FindAccount(w, n, phone, NoRow)

UpdateTeacherRead(w, n, phone) ==
  /\ req[w] = Idle
  /\ n \in Live
  /\ Serve(w, [op |-> "update", teacher |-> n, phone |-> phone, seen |-> teachers[n]])
  /\ UNCHANGED <<accounts, teachers>>

UpdateTeacherReadAccount(w) ==
  /\ req[w].op = "update"
  /\ FindAccount(w, req[w].teacher, req[w].phone, req[w].seen)

SaveRow(n, phone, seen, user) ==
  teachers' = [teachers EXCEPT ![n] =
    IF seen = NoRow
    THEN [is |-> "teacher", phone |-> phone, user |-> user, is_deleted |-> FALSE]
    ELSE [teachers[n] EXCEPT !.phone = Write(seen.phone, phone, @),
                             !.user = Write(seen.user, user, @)]]

\* The account keeps its phone unless it is the teacher's own.
Synced_Never(r, committed) == committed
Synced(r, committed) == IF IsLinked(r.seen) THEN Write(r.read, r.phone, committed) ELSE committed

SaveTeacher(w) ==
  LET r == req[w] IN
  /\ r.op = "save"
  /\ r.seen = NoRow => NumberIsFree(teachers[r.teacher])
  /\ \/ /\ r.user # "new"
        /\ accounts' = [accounts EXCEPT ![r.user].phone = Synced(r, @)]
        /\ SaveRow(r.teacher, r.phone, r.seen, r.user)
     \/ /\ r.user = "new"
        /\ Placeholders(r.phone) = {}
        /\ \E a \in Accounts :
             /\ Register(a, r.phone, r.phone)
             /\ SaveRow(r.teacher, r.phone, r.seen, a)
  /\ Finish(w)

\* Without a phone: user_id is what the client sent, if anything.
CreateTeacherWithoutPhone(n, user) ==
  /\ NumberIsFree(teachers[n])
  /\ user \in Registered \cup {"none"}
  /\ SaveRow(n, "none", NoRow, user)
  /\ UNCHANGED <<accounts, req>>

\* The account keeps the phone its teacher gives up.
ClearPhone(n) ==
  /\ n \in Live
  /\ teachers' = [teachers EXCEPT ![n].phone = "none"]
  /\ UNCHANGED <<accounts, req>>

DeleteTeacher(n) ==
  /\ n \in Live
  /\ teachers' = [teachers EXCEPT ![n].is_deleted = TRUE]
  /\ UNCHANGED <<accounts, req>>

-----------------------------------------------------------------------------
\* get_db rolls back.
Abort(w) ==
  /\ req[w] # Idle
  /\ Finish(w)
  /\ UNCHANGED <<accounts, teachers>>

AccountStep(w) ==
  \/ \E phone \in Phones : CreateUserRead(w, phone)
  \/ \E a \in Accounts : CreateUserCommit(w, a)
  \/ \E a \in Accounts, phone \in Phones \cup {"none"} : UpdateUserRead(w, a, phone)
  \/ UpdateUserCommit(w)

TeacherStep(w) ==
  \/ \E n \in NIPs, phone \in Phones :
       CreateTeacherRead(w, n, phone) \/ UpdateTeacherRead(w, n, phone)
  \/ UpdateTeacherReadAccount(w)
  \/ SaveTeacher(w)

AtOnce ==
  \/ \E a \in Accounts : CreateUserWithoutPhone(a)
  \/ \E n \in NIPs, user \in Accounts \cup {"none"} : CreateTeacherWithoutPhone(n, user)
  \/ \E n \in NIPs : ClearPhone(n) \/ DeleteTeacher(n)

Next ==
  \/ \E w \in Workers : AccountStep(w) \/ TeacherStep(w) \/ Abort(w)
  \/ AtOnce

Spec == Init /\ [][Next]_vars

-----------------------------------------------------------------------------
TypeOK ==
  /\ accounts \in [Accounts -> Account \cup {NoRow}]
  /\ teachers \in [NIPs -> Teacher \cup {NoRow}]
  /\ req \in [Workers -> Request]

\* A teacher with this phone can be given an account: the one that holds the
\* phone, or a new one at the phone's placeholder address.
Usable(phone) ==
  \/ Cardinality(Holders(phone)) = 1
  \/ Holders(phone) = {} /\ Placeholders(phone) = {}

\* The lookup of an account to be made no longer says who holds the phone.
Overtaken(r) ==
  \/ r.op = "create_user" /\ Holders(r.phone) # r.found
  \/ r.op = "save" /\ r.user = "new" /\ Holders(r.phone) # {}

\* A phone stops being usable only because an account changes its phone, or
\* an account is made whose lookup was overtaken by another: then two accounts
\* hold it and get_by_phone raises, or its placeholder address is taken by an
\* account that no longer holds it.
PhoneIsLostOnlyToChanges ==
  [][\A phone \in Phones : Usable(phone) /\ ~Usable(phone)' =>
       \/ \E a \in Registered : accounts'[a].phone # accounts[a].phone
       \/ \E w \in Workers : req'[w] = Idle /\ Overtaken(req[w])]_vars

Agree(n) ==
  LET t == teachers[n] IN
  t # NoRow /\ t.user # "none" /\ t.phone # "none" => accounts[t.user].phone = t.phone

OutOfDate(r) ==
  \/ r.seen # teachers[r.teacher]
  \/ r.user # "new" /\ r.read # accounts[r.user].phone

\* A teacher can sign in with the phone in their file, and this ends only when
\* somebody changes the account itself, another teacher linked to the same
\* account changes theirs, or a save goes by rows that changed since it read
\* them.
PhonesPartOnlyByOthers ==
  [][\A n \in NIPs : Agree(n) /\ ~Agree(n)' =>
       \E w \in Workers :
         /\ req[w] # Idle /\ req'[w] = Idle
         /\ \/ req[w].op = "update_user"
            \/ req[w].op = "save" /\ (req[w].teacher # n \/ OutOfDate(req[w]))]_vars
=============================================================================
