------------------------------ MODULE Sessions ------------------------------
(***************************************************************************)
(* Signing in: the active and verified flags of user accounts, their       *)
(* sessions (refresh tokens), one-time codes sent by WhatsApp and          *)
(* password-reset tokens. A request is one step per SELECT whose rows it   *)
(* goes on to use and one commit step, with nothing locked in between, as  *)
(* in Dormitory; the call of the code-delivery service is a step of its    *)
(* own. Passwords, codes and tokens are left out as values: a request is   *)
(* taken to bring the right one, and refusals change nothing.              *)
(*                                                                         *)
(* A name with an underscore is a faulty variant of the definition it      *)
(* precedes, as in Dormitory.                                              *)
(***************************************************************************)
EXTENDS Naturals

CONSTANTS
  Workers,   \* requests that can be in flight at the same time
  Users,     \* keys of users
  Phones,
  MaxRows    \* bound: how many sessions, codes and tokens are ever inserted

ASSUME MaxRowsAssumption == MaxRows \in Nat

VARIABLES
  users,     \* the flags of each users row
  phone,     \* User.phone
  sessions,  \* the rows of user_sessions
  codes,     \* the rows of otp_sessions
  tokens,    \* the rows of password_reset_tokens
  nextRow,   \* the key of the next row; keys are in the order of the commits
  req        \* the request each worker is serving

vars == <<users, phone, sessions, codes, tokens, nextRow, req>>

-----------------------------------------------------------------------------
NoRow == [is_active |-> FALSE, is_verified |-> FALSE, exists |-> FALSE]
User == [is_active : BOOLEAN, is_verified : BOOLEAN, exists : BOOLEAN]

Session == [id : Nat, user : Users, is_revoked : BOOLEAN]

\* usable is FALSE once the row is_used or past expires_at: no request tells
\* the two apart.
Code == [id : Nat, user : Users, usable : BOOLEAN]
Token == [id : Nat, user : Users, usable : BOOLEAN]

Idle == [op |-> "idle"]

\* began is the key the next row had when the request began. No handler
\* keeps it: it dates the request, for the properties to speak of.
Request ==
  {Idle}
  \cup [op : {"login"}, user : Users]
  \cup [op : {"logout"}, session : Nat]
  \cup [op : {"reset.sessions"}, user : Users, token : Nat, began : Nat]
  \cup [op : {"reset.commit"}, user : Users, token : Nat, began : Nat, open : SUBSET Nat]
  \cup [op : {"otp.send"}, user : Users, began : Nat]
  \cup [op : {"otp.wait", "otp.commit"}, user : Users, began : Nat, replaced : SUBSET Nat]
  \cup [op : {"verify.user"}, user : Users, code : Nat]
  \cup [op : {"verify.commit"}, user : Users, code : Nat, seen : User]
  \cup [op : {"deactivate", "update_user"}, user : Users, seen : User]

Init ==
  /\ users = [u \in Users |-> NoRow]
  /\ phone \in [Users -> Phones]
  /\ sessions = {}
  /\ codes = {}
  /\ tokens = {}
  /\ nextRow = 0
  /\ req = [w \in Workers |-> Idle]

Serve(w, request) == req' = [req EXCEPT ![w] = request]
Finish(w) == Serve(w, Idle)

\* The ORM leaves a column alone when the handler set it to the value it read.
Write(read, set, committed) == IF set = read THEN committed ELSE set

\* The account has not been deactivated; one that nobody has verified yet
\* is inactive to begin with.
MayVerify(user) == user.is_active \/ ~user.is_verified

-----------------------------------------------------------------------------
(* Accounts *)

\* create_user: inactive until the phone is verified.
CreateUser(u) ==
  /\ ~users[u].exists
  /\ users' = [users EXCEPT ![u] = [is_active |-> FALSE, is_verified |-> FALSE, exists |-> TRUE]]
  /\ UNCHANGED <<phone, sessions, codes, tokens, nextRow, req>>

Open(u) == [id |-> nextRow, user |-> u, is_revoked |-> FALSE]

\* register: the tenant, its administrator and a session in one transaction.
Register(u) ==
  /\ ~users[u].exists
  /\ nextRow < MaxRows
  /\ users' = [users EXCEPT ![u] = [is_active |-> TRUE, is_verified |-> FALSE, exists |-> TRUE]]
  /\ sessions' = sessions \cup {Open(u)}
  /\ nextRow' = nextRow + 1
  /\ UNCHANGED <<phone, codes, tokens, req>>

ReadUser(w, u, op) ==
  /\ req[w] = Idle
  /\ users[u].exists
  /\ Serve(w, [op |-> op, user |-> u, seen |-> users[u]])
  /\ UNCHANGED <<users, phone, sessions, codes, tokens, nextRow>>

DeactivateRead(w, u) == ReadUser(w, u, "deactivate")
UpdateUserRead(w, u) == ReadUser(w, u, "update_user")

SetActive_Always(u, seen, value) == users' = [users EXCEPT ![u].is_active = value]
SetActive(u, seen, value) ==
  users' = [users EXCEPT ![u].is_active = Write(seen.is_active, value, @)]

\* Open sessions stay open.
DeactivateCommit(w) ==
  /\ req[w].op = "deactivate"
  /\ SetActive(req[w].user, req[w].seen, FALSE)
  /\ Finish(w)
  /\ UNCHANGED <<phone, sessions, codes, tokens, nextRow>>

\* update_user may set is_active either way. Other fields are left out.
UpdateUserCommit(w) ==
  /\ req[w].op = "update_user"
  /\ \E value \in BOOLEAN : SetActive(req[w].user, req[w].seen, value)
  /\ Finish(w)
  /\ UNCHANGED <<phone, sessions, codes, tokens, nextRow>>

-----------------------------------------------------------------------------
(* login, logout and the password reset *)

LoginRead(w, u) ==
  /\ req[w] = Idle
  /\ users[u].is_active
  /\ Serve(w, [op |-> "login", user |-> u])
  /\ UNCHANGED <<users, phone, sessions, codes, tokens, nextRow>>

LoginCommit(w) ==
  /\ req[w].op = "login"
  /\ nextRow < MaxRows
  /\ sessions' = sessions \cup {Open(req[w].user)}
  /\ nextRow' = nextRow + 1
  /\ Finish(w)
  /\ UNCHANGED <<users, phone, codes, tokens>>

OpenSessions(u) == {s.id : s \in {t \in sessions : t.user = u /\ ~t.is_revoked}}

Revoked(ids) == {[s EXCEPT !.is_revoked = @ \/ s.id \in ids] : s \in sessions}

LogoutRead(w, s) ==
  /\ req[w] = Idle
  /\ s \in sessions /\ ~s.is_revoked
  /\ Serve(w, [op |-> "logout", session |-> s.id])
  /\ UNCHANGED <<users, phone, sessions, codes, tokens, nextRow>>

LogoutCommit(w) ==
  /\ req[w].op = "logout"
  /\ sessions' = Revoked({req[w].session})
  /\ Finish(w)
  /\ UNCHANGED <<users, phone, codes, tokens, nextRow>>

ForgotPassword(u) ==
  /\ users[u].exists
  /\ nextRow < MaxRows
  /\ tokens' = tokens \cup {[id |-> nextRow, user |-> u, usable |-> TRUE]}
  /\ nextRow' = nextRow + 1
  /\ UNCHANGED <<users, phone, sessions, codes, req>>

\* get_valid_reset_token, and the user it is for, whose row always exists.
ResetRead(w, t) ==
  /\ req[w] = Idle
  /\ t \in tokens /\ t.usable
  /\ Serve(w, [op |-> "reset.sessions", user |-> t.user, token |-> t.id, began |-> nextRow])
  /\ UNCHANGED <<users, phone, sessions, codes, tokens, nextRow>>

\* revoke_all_sessions
ToRevoke_Newest(u) == {i \in OpenSessions(u) : \A j \in OpenSessions(u) : j <= i}
ToRevoke(u) == OpenSessions(u)

ResetReadSessions(w) ==
  /\ req[w].op = "reset.sessions"
  /\ Serve(w, [op |-> "reset.commit", user |-> req[w].user, token |-> req[w].token,
               began |-> req[w].began, open |-> ToRevoke(req[w].user)])
  /\ UNCHANGED <<users, phone, sessions, codes, tokens, nextRow>>

SpendToken(t) == {[row EXCEPT !.usable = @ /\ row.id # t] : row \in tokens}

ResetCommit(w) ==
  /\ req[w].op = "reset.commit"
  /\ tokens' = SpendToken(req[w].token)
  /\ sessions' = Revoked(req[w].open)
  /\ Finish(w)
  /\ UNCHANGED <<users, phone, codes, nextRow>>

-----------------------------------------------------------------------------
(* One-time codes *)

\* get_by_phone: verified accounts before others, then active ones, then the
\* oldest, which is any of them here.
Found(p) ==
  LET Rank(u) == (IF users[u].is_verified THEN 2 ELSE 0) + (IF users[u].is_active THEN 1 ELSE 0)
      holders == {u \in Users : users[u].exists /\ phone[u] = p}
  IN  {u \in holders : \A v \in holders : Rank(v) <= Rank(u)}

UsableCodes(p) == {c.id : c \in {d \in codes : phone[d.user] = p /\ d.usable}}

Spent(ids) == {[c EXCEPT !.usable = @ /\ c.id \notin ids] : c \in codes}

RequestOtpRead(w, p) ==
  /\ req[w] = Idle
  /\ \E u \in Found(p) :
       /\ MayVerify(users[u])
       /\ Serve(w, [op |-> "otp.send", user |-> u, began |-> nextRow])
  /\ UNCHANGED <<users, phone, sessions, codes, tokens, nextRow>>

\* invalidate_previous_otps, by an UPDATE of the rows that are visible to it.
Replaces_Nothing(p) == {}
Replaces(p) == UsableCodes(p)

\* The UPDATE and the INSERT, uncommitted, then the call of the service.
RequestOtpSend(w) ==
  /\ req[w].op = "otp.send"
  /\ Serve(w, [op |-> "otp.wait", user |-> req[w].user, began |-> req[w].began,
               replaced |-> Replaces(phone[req[w].user])])
  /\ UNCHANGED <<users, phone, sessions, codes, tokens, nextRow>>

\* The service answers within ten seconds. When it answers with an error or
\* not in time the request is aborted, wherever the message is by then
\* (in the development environment it is not, which is left out).
ServiceAnswers(w) ==
  /\ req[w].op = "otp.wait"
  /\ Serve(w, [req[w] EXCEPT !.op = "otp.commit"])
  /\ UNCHANGED <<users, phone, sessions, codes, tokens, nextRow>>

RequestOtpCommit(w) ==
  /\ req[w].op = "otp.commit"
  /\ nextRow < MaxRows
  /\ codes' = Spent(req[w].replaced) \cup {[id |-> nextRow, user |-> req[w].user, usable |-> TRUE]}
  /\ nextRow' = nextRow + 1
  /\ Finish(w)
  /\ UNCHANGED <<users, phone, sessions, tokens>>

\* get_valid_otp
VerifyOtpReadCode(w, c) ==
  /\ req[w] = Idle
  /\ c \in codes /\ c.usable
  /\ Serve(w, [op |-> "verify.user", user |-> c.user, code |-> c.id])
  /\ UNCHANGED <<users, phone, sessions, codes, tokens, nextRow>>

VerifyOtpReadUser(w) ==
  /\ req[w].op = "verify.user"
  /\ MayVerify(users[req[w].user])
  /\ Serve(w, [op |-> "verify.commit", user |-> req[w].user, code |-> req[w].code,
               seen |-> users[req[w].user]])
  /\ UNCHANGED <<users, phone, sessions, codes, tokens, nextRow>>

\* A first verification activates the account as well.
Verified(u, seen) ==
  IF seen.is_verified THEN users
  ELSE [users EXCEPT ![u].is_active = Write(seen.is_active, TRUE, @), ![u].is_verified = TRUE]

VerifyOtpCommit(w) ==
  /\ req[w].op = "verify.commit"
  /\ nextRow < MaxRows
  /\ codes' = Spent({req[w].code})
  /\ users' = Verified(req[w].user, req[w].seen)
  /\ sessions' = sessions \cup {Open(req[w].user)}
  /\ nextRow' = nextRow + 1
  /\ Finish(w)
  /\ UNCHANGED <<phone, tokens>>

-----------------------------------------------------------------------------
\* Five minutes for a code, an hour for a token.
CodeExpires(c) ==
  /\ c \in codes /\ c.usable
  /\ codes' = Spent({c.id})
  /\ UNCHANGED <<users, phone, sessions, tokens, nextRow, req>>

TokenExpires(t) ==
  /\ t \in tokens /\ t.usable
  /\ tokens' = SpendToken(t.id)
  /\ UNCHANGED <<users, phone, sessions, codes, nextRow, req>>

\* get_db rolls back: an error, a cancelled request, a lost connection, or the
\* code-delivery service failing or answering too late.
Abort(w) ==
  /\ req[w] # Idle
  /\ Finish(w)
  /\ UNCHANGED <<users, phone, sessions, codes, tokens, nextRow>>

AccountStep(w) ==
  \/ \E u \in Users : DeactivateRead(w, u) \/ UpdateUserRead(w, u)
  \/ DeactivateCommit(w)
  \/ UpdateUserCommit(w)

PasswordStep(w) ==
  \/ \E u \in Users : LoginRead(w, u)
  \/ LoginCommit(w)
  \/ \E s \in sessions : LogoutRead(w, s)
  \/ LogoutCommit(w)
  \/ \E t \in tokens : ResetRead(w, t)
  \/ ResetReadSessions(w)
  \/ ResetCommit(w)

CodeStep(w) ==
  \/ \E p \in Phones : RequestOtpRead(w, p)
  \/ RequestOtpSend(w)
  \/ ServiceAnswers(w)
  \/ RequestOtpCommit(w)
  \/ \E c \in codes : VerifyOtpReadCode(w, c)
  \/ VerifyOtpReadUser(w)
  \/ VerifyOtpCommit(w)

Next ==
  \/ \E u \in Users : CreateUser(u) \/ Register(u) \/ ForgotPassword(u)
  \/ \E c \in codes : CodeExpires(c)
  \/ \E t \in tokens : TokenExpires(t)
  \/ \E w \in Workers : AccountStep(w) \/ PasswordStep(w) \/ CodeStep(w) \/ Abort(w)

Spec == Init /\ [][Next]_vars

-----------------------------------------------------------------------------
TypeOK ==
  /\ users \in [Users -> User]
  /\ phone \in [Users -> Phones]
  /\ sessions \subseteq Session
  /\ codes \subseteq Code
  /\ tokens \subseteq Token
  /\ nextRow \in Nat
  /\ req \in [Workers -> Request]

\* "Revoke all active sessions": when a password reset is done, no session of
\* its user is open that was there before the reset began, although logins,
\* logouts and other resets of the user go on beside it.
ResetEndsOlderSessions ==
  [][\A w \in Workers :
       req[w].op = "reset.commit" /\ req'[w] = Idle /\ tokens' # tokens =>
         \A s \in sessions' : s.user = req[w].user /\ s.id < req[w].began => s.is_revoked]_vars

\* "Invalidate any pending OTPs for this phone before creating a new one":
\* when a new code is there, every other code that still works for the phone
\* was made by a request that this one overlapped.
NewCodeEndsOlderCodes ==
  [][\A w \in Workers :
       req[w].op = "otp.commit" /\ nextRow' # nextRow /\ req'[w] # req[w] =>
         \A c \in codes' :
           c.usable /\ phone[c.user] = phone[req[w].user] =>
             c.id >= req[w].began]_vars

\* An account that was verified and then deactivated becomes active again only
\* by an update that found it inactive, or by a verification that read it
\* before it was first verified; not by an update of another of its fields
\* that read it before it was deactivated.
DeactivationHolds ==
  [][\A u \in Users :
       users[u].is_verified /\ ~users[u].is_active /\ users'[u].is_active =>
         \E w \in Workers :
           /\ req[w] # Idle /\ req'[w] = Idle
           /\ \/ req[w].op = "update_user" /\ req[w].user = u /\ ~req[w].seen.is_active
              \/ /\ req[w].op = "verify.commit" /\ req[w].user = u
                 /\ ~req[w].seen.is_verified]_vars
=============================================================================
