--------------------------- MODULE SessionsProofs ---------------------------
(***************************************************************************)
(* Proofs about Sessions, for any number of requests in flight, users,     *)
(* phones and rows.                                                        *)
(***************************************************************************)
EXTENDS Sessions, TLAPS

-----------------------------------------------------------------------------
(* Shapes *)

\* The shape of a request is known from its op alone.
LEMMA RequestShape ==
  ASSUME NEW q \in Request
  PROVE  /\ q.op # "idle" /\ q.op # "logout" => q.user \in Users
         /\ q.op = "logout" => q.session \in Nat
         /\ q.op \in {"reset.sessions", "reset.commit"} => q.token \in Nat /\ q.began \in Nat
         /\ q.op = "reset.commit" => q.open \in SUBSET Nat
         /\ q.op \in {"otp.send", "otp.wait", "otp.commit"} => q.began \in Nat
         /\ q.op \in {"otp.wait", "otp.commit"} => q.replaced \in SUBSET Nat
         /\ q.op \in {"verify.user", "verify.commit"} => q.code \in Nat
         /\ q.op \in {"verify.commit", "deactivate", "update_user"} => q.seen \in User
  BY DEF Request, Idle

\* A request that is served keeps its type, and nobody else's is touched.
LEMMA ServeType ==
  ASSUME TypeOK, NEW w \in Workers, NEW q \in Request, Serve(w, q)
  PROVE  /\ req' \in [Workers -> Request]
         /\ req'[w] = q
         /\ \A v \in Workers \ {w} : req'[v] = req[v]
  BY DEF TypeOK, Serve

LEMMA FinishType ==
  ASSUME TypeOK, NEW w \in Workers, Finish(w)
  PROVE  /\ req' \in [Workers -> Request]
         /\ req'[w] = Idle
         /\ \A v \in Workers \ {w} : req'[v] = req[v]
<1>1. Idle \in Request
  BY DEF Request
<1>. QED  BY <1>1, ServeType DEF Finish

\* What the helpers do to the rows of a table.
LEMMA RevokedRows ==
  ASSUME TypeOK, NEW ids
  PROVE  /\ Revoked(ids) \subseteq Session
         /\ \A r \in Revoked(ids) : \E s \in sessions :
              /\ r.id = s.id /\ r.user = s.user
              /\ s.is_revoked => r.is_revoked
              /\ s.id \in ids => r.is_revoked
<1>. DEFINE Row(s) == [s EXCEPT !.is_revoked = @ \/ s.id \in ids]
<1>1. ASSUME NEW s \in sessions
      PROVE  /\ Row(s) \in Session /\ Row(s).id = s.id /\ Row(s).user = s.user
             /\ s.is_revoked => Row(s).is_revoked
             /\ s.id \in ids => Row(s).is_revoked
  <2>1. s \in Session
    BY DEF TypeOK
  <2>. DEFINE b == s.is_revoked \/ s.id \in ids
  <2>2. b \in BOOLEAN
    OBVIOUS
  <2>. HIDE DEF b
  <2>3. LET r == [s EXCEPT !.is_revoked = b]
        IN  r \in Session /\ r.id = s.id /\ r.user = s.user /\ r.is_revoked = b
    BY <2>1, <2>2 DEF Session
  <2>. USE DEF b
  <2>. QED  BY <2>3
<1>2. Revoked(ids) = {Row(s) : s \in sessions}
  BY DEF Revoked
<1>. HIDE DEF Row
<1>. QED  BY <1>1, <1>2

LEMMA SpentRows ==
  ASSUME TypeOK, NEW ids
  PROVE  /\ Spent(ids) \subseteq Code
         /\ \A r \in Spent(ids) : \E c \in codes :
              /\ r.id = c.id /\ r.user = c.user
              /\ r.usable => c.usable /\ c.id \notin ids
<1>. DEFINE Row(c) == [c EXCEPT !.usable = @ /\ c.id \notin ids]
<1>1. ASSUME NEW c \in codes
      PROVE  /\ Row(c) \in Code /\ Row(c).id = c.id /\ Row(c).user = c.user
             /\ Row(c).usable => c.usable /\ c.id \notin ids
  <2>1. c \in Code
    BY DEF TypeOK
  <2>. DEFINE b == c.usable /\ c.id \notin ids
  <2>2. b \in BOOLEAN
    OBVIOUS
  <2>. HIDE DEF b
  <2>3. LET r == [c EXCEPT !.usable = b]
        IN  r \in Code /\ r.id = c.id /\ r.user = c.user /\ r.usable = b
    BY <2>1, <2>2 DEF Code
  <2>. USE DEF b
  <2>. QED  BY <2>3
<1>2. Spent(ids) = {Row(c) : c \in codes}
  BY DEF Spent
<1>. HIDE DEF Row
<1>. QED  BY <1>1, <1>2

LEMMA SpendTokenType ==
  ASSUME TypeOK, NEW t
  PROVE  SpendToken(t) \subseteq Token
<1>1. ASSUME NEW row \in tokens PROVE [row EXCEPT !.usable = @ /\ row.id # t] \in Token
  <2>1. row \in Token
    BY DEF TypeOK
  <2>. DEFINE b == row.usable /\ row.id # t
  <2>2. b \in BOOLEAN
    OBVIOUS
  <2>. HIDE DEF b
  <2>3. [row EXCEPT !.usable = b] \in Token
    BY <2>1, <2>2 DEF Token
  <2>. USE DEF b
  <2>. QED  BY <2>3
<1>. QED  BY <1>1 DEF SpendToken

LEMMA OpenType ==
  ASSUME TypeOK, NEW u \in Users
  PROVE  Open(u) \in Session /\ Open(u).id = nextRow /\ nextRow + 1 \in Nat
  BY DEF TypeOK, Session, Open

\* What an update of the flags of an account does to it.
LEMMA SetActiveFlags ==
  ASSUME TypeOK, NEW u \in Users, NEW seen \in User, NEW value \in BOOLEAN,
         SetActive(u, seen, value)
  PROVE  /\ users' \in [Users -> User]
         /\ \A v \in Users : users'[v].exists = users[v].exists
         /\ \A v \in Users : users'[v].is_verified = users[v].is_verified
         /\ \A v \in Users :
              users'[v].is_active /\ ~users[v].is_active => v = u /\ value /\ ~seen.is_active
<1>. DEFINE b == Write(seen.is_active, value, users[u].is_active)
<1>1. /\ users[u] \in User
      /\ users[u].is_active \in BOOLEAN
      /\ seen.is_active \in BOOLEAN
  BY DEF TypeOK, User
<1>2. b \in BOOLEAN
  BY <1>1 DEF Write
<1>3. b /\ ~users[u].is_active => value /\ ~seen.is_active
  BY <1>1, Zenon DEF Write
<1>4. users' = [users EXCEPT ![u].is_active = b]
  BY DEF SetActive
<1>. HIDE DEF b
<1>5. /\ users'[u] \in User
      /\ users'[u].is_active = b
      /\ users'[u].is_verified = users[u].is_verified
      /\ users'[u].exists = users[u].exists
      /\ \A v \in Users \ {u} : users'[v] = users[v]
      /\ users' \in [Users -> User]
  BY <1>1, <1>2, <1>4 DEF TypeOK, User
<1>6. ASSUME NEW v \in Users, users'[v].is_active, ~users[v].is_active
      PROVE  v = u /\ value /\ ~seen.is_active
  <2>1. v = u
    BY <1>5, <1>6
  <2>. QED  BY <1>3, <1>5, <1>6, <2>1
<1>. QED  BY <1>5, <1>6

LEMMA VerifiedFlags ==
  ASSUME TypeOK, NEW u \in Users, NEW seen \in User, users' = Verified(u, seen)
  PROVE  /\ users' \in [Users -> User]
         /\ \A v \in Users : users'[v].exists = users[v].exists
         /\ \A v \in Users \ {u} : users'[v] = users[v]
         /\ seen.is_verified => users' = users
<1>1. CASE seen.is_verified
  BY <1>1 DEF TypeOK, Verified
<1>2. CASE ~seen.is_verified
  <2>. DEFINE b == Write(seen.is_active, TRUE, users[u].is_active)
  <2>1. users[u] \in User /\ users[u].is_active \in BOOLEAN
    BY DEF TypeOK, User
  <2>2. b \in BOOLEAN
    BY <2>1 DEF Write
  <2>3. users' = [users EXCEPT ![u].is_active = b, ![u].is_verified = TRUE]
    BY <1>2 DEF Verified
  <2>. HIDE DEF b
  <2>. QED  BY <1>2, <2>1, <2>2, <2>3, ZenonT(60) DEF TypeOK, User
<1>. QED  BY <1>1, <1>2

-----------------------------------------------------------------------------
(* Types, and what every step does to the tables *)

\* A row of sessions or codes is new, with the next key, or it is an old one
\* that was not revived. Nobody's phone changes, no account disappears, and
\* one becomes verified only by a verification.
Grows ==
  /\ phone' = phone
  /\ nextRow' >= nextRow
  /\ \A u \in Users : users[u].exists => users'[u].exists
  /\ \A r \in sessions' :
       \/ r.id = nextRow
       \/ \E s \in sessions : r.id = s.id /\ r.user = s.user /\ (s.is_revoked => r.is_revoked)
  /\ \A r \in codes' :
       \/ r.id = nextRow /\ \E w \in Workers : req[w].op = "otp.commit" /\ req[w].user = r.user
       \/ \E c \in codes : r.id = c.id /\ r.user = c.user /\ (r.usable => c.usable)
  /\ \A u \in Users : users'[u].is_verified =>
       \/ users[u].is_verified
       \/ \E w \in Workers : req[w].op = "verify.commit" /\ req[w].user = u

LEMMA InitType == Init => TypeOK
  BY DEF Init, TypeOK, NoRow, User, Request

\* A step that only begins, advances or ends a request.
LEMMA ServeKeepsType ==
  ASSUME TypeOK, NEW w \in Workers, NEW q \in Request, Serve(w, q),
         UNCHANGED <<users, phone, sessions, codes, tokens, nextRow>>
  PROVE  TypeOK' /\ Grows
  BY ServeType DEF TypeOK, Grows

LEMMA AccountStepType ==
  ASSUME TypeOK, NEW w \in Workers, AccountStep(w)
  PROVE  TypeOK' /\ Grows
<1>1. ASSUME NEW u \in Users, NEW op \in {"deactivate", "update_user"}, ReadUser(w, u, op)
      PROVE  TypeOK' /\ Grows
  <2>1. [op |-> op, user |-> u, seen |-> users[u]] \in Request
    BY DEF Request, TypeOK
  <2>. QED  BY <1>1, <2>1, ServeKeepsType DEF ReadUser
<1>2. ASSUME NEW value \in BOOLEAN, req[w].op \in {"deactivate", "update_user"},
             SetActive(req[w].user, req[w].seen, value), Finish(w),
             UNCHANGED <<phone, sessions, codes, tokens, nextRow>>
      PROVE  TypeOK' /\ Grows
  <2>1. req[w].user \in Users /\ req[w].seen \in User
    BY <1>2, RequestShape DEF TypeOK
  <2>2. /\ users' \in [Users -> User]
        /\ \A v \in Users : users'[v].exists = users[v].exists
        /\ \A v \in Users : users'[v].is_verified = users[v].is_verified
    BY <1>2, <2>1, SetActiveFlags
  <2>. QED  BY <1>2, <2>2, FinishType DEF TypeOK, Grows
<1>. QED  BY <1>1, <1>2
  DEF AccountStep, DeactivateRead, UpdateUserRead, DeactivateCommit, UpdateUserCommit

LEMMA PasswordStepType ==
  ASSUME TypeOK, NEW w \in Workers, PasswordStep(w)
  PROVE  TypeOK' /\ Grows
<1>1. ASSUME NEW u \in Users, LoginRead(w, u) PROVE TypeOK' /\ Grows
  <2>1. [op |-> "login", user |-> u] \in Request
    BY DEF Request
  <2>. QED  BY <1>1, <2>1, ServeKeepsType DEF LoginRead
<1>2. CASE LoginCommit(w)
  <2>1. Open(req[w].user) \in Session /\ Open(req[w].user).id = nextRow /\ nextRow + 1 \in Nat
    BY <1>2, RequestShape, OpenType DEF LoginCommit, TypeOK
  <2>. QED  BY <1>2, <2>1, FinishType DEF LoginCommit, TypeOK, Grows
<1>3. ASSUME NEW s \in sessions, LogoutRead(w, s) PROVE TypeOK' /\ Grows
  <2>1. [op |-> "logout", session |-> s.id] \in Request
    BY DEF Request, TypeOK, Session
  <2>. QED  BY <1>3, <2>1, ServeKeepsType DEF LogoutRead
<1>4. ASSUME NEW ids, sessions' = Revoked(ids), tokens' \subseteq Token, Finish(w),
             UNCHANGED <<users, phone, codes, nextRow>>
      PROVE  TypeOK' /\ Grows
  BY <1>4, RevokedRows, FinishType DEF TypeOK, Grows
<1>5. CASE LogoutCommit(w)
  BY <1>4, <1>5 DEF LogoutCommit, TypeOK
<1>6. ASSUME NEW t \in tokens, ResetRead(w, t) PROVE TypeOK' /\ Grows
  <2>1. [op |-> "reset.sessions", user |-> t.user, token |-> t.id, began |-> nextRow] \in Request
    BY DEF Request, TypeOK, Token
  <2>. QED  BY <1>6, <2>1, ServeKeepsType DEF ResetRead
<1>7. CASE ResetReadSessions(w)
  <2>1. ToRevoke(req[w].user) \in SUBSET Nat
    BY DEF ToRevoke, OpenSessions, TypeOK, Session
  <2>2. [op |-> "reset.commit", user |-> req[w].user, token |-> req[w].token,
         began |-> req[w].began, open |-> ToRevoke(req[w].user)] \in Request
    BY <1>7, <2>1, RequestShape DEF Request, ResetReadSessions, TypeOK
  <2>. QED  BY <1>7, <2>2, ServeKeepsType DEF ResetReadSessions
<1>8. CASE ResetCommit(w)
  BY <1>4, <1>8, SpendTokenType DEF ResetCommit
<1>. QED  BY <1>1, <1>2, <1>3, <1>5, <1>6, <1>7, <1>8 DEF PasswordStep

LEMMA CodeStepType ==
  ASSUME TypeOK, NEW w \in Workers, CodeStep(w)
  PROVE  TypeOK' /\ Grows
<1>1. ASSUME NEW p \in Phones, RequestOtpRead(w, p) PROVE TypeOK' /\ Grows
  <2>1. PICK u \in Found(p) : Serve(w, [op |-> "otp.send", user |-> u, began |-> nextRow])
    BY <1>1 DEF RequestOtpRead
  <2>2. [op |-> "otp.send", user |-> u, began |-> nextRow] \in Request
    BY DEF Request, TypeOK, Found
  <2>. QED  BY <1>1, <2>1, <2>2, ServeKeepsType DEF RequestOtpRead
<1>2. CASE RequestOtpSend(w)
  <2>1. Replaces(phone[req[w].user]) \in SUBSET Nat
    BY DEF Replaces, UsableCodes, TypeOK, Code
  <2>2. [op |-> "otp.wait", user |-> req[w].user, began |-> req[w].began,
         replaced |-> Replaces(phone[req[w].user])] \in Request
    BY <1>2, <2>1, RequestShape DEF Request, RequestOtpSend, TypeOK
  <2>. QED  BY <1>2, <2>2, ServeKeepsType DEF RequestOtpSend
<1>3. CASE ServiceAnswers(w)
  <2>. DEFINE Waits == [op : {"otp.wait", "otp.commit"}, user : Users, began : Nat,
                        replaced : SUBSET Nat]
  <2>1. req[w] \in Waits
    BY <1>3 DEF Request, Idle, ServiceAnswers, TypeOK
  <2>2. [req[w] EXCEPT !.op = "otp.commit"] \in Waits
    BY <2>1
  <2>3. [req[w] EXCEPT !.op = "otp.commit"] \in Request
    BY <2>2 DEF Request
  <2>. QED  BY <1>3, <2>3, ServeKeepsType DEF ServiceAnswers
<1>4. CASE RequestOtpCommit(w)
  <2>. DEFINE new == [id |-> nextRow, user |-> req[w].user, usable |-> TRUE]
  <2>1. new \in Code /\ new.id = nextRow /\ nextRow + 1 \in Nat
    BY <1>4, RequestShape DEF RequestOtpCommit, TypeOK, Code
  <2>2. codes' = Spent(req[w].replaced) \cup {new}
    BY <1>4 DEF RequestOtpCommit
  <2>. HIDE DEF new
  <2>. QED  BY <1>4, <2>1, <2>2, SpentRows, FinishType DEF RequestOtpCommit, TypeOK, Grows
<1>5. ASSUME NEW c \in codes, VerifyOtpReadCode(w, c) PROVE TypeOK' /\ Grows
  <2>1. [op |-> "verify.user", user |-> c.user, code |-> c.id] \in Request
    BY DEF Request, TypeOK, Code
  <2>. QED  BY <1>5, <2>1, ServeKeepsType DEF VerifyOtpReadCode
<1>6. CASE VerifyOtpReadUser(w)
  <2>1. [op |-> "verify.commit", user |-> req[w].user, code |-> req[w].code,
         seen |-> users[req[w].user]] \in Request
    BY <1>6, RequestShape DEF Request, VerifyOtpReadUser, TypeOK
  <2>. QED  BY <1>6, <2>1, ServeKeepsType DEF VerifyOtpReadUser
<1>7. CASE VerifyOtpCommit(w)
  <2>1. req[w].user \in Users /\ req[w].seen \in User
    BY <1>7, RequestShape DEF VerifyOtpCommit, TypeOK
  <2>2. Open(req[w].user) \in Session /\ Open(req[w].user).id = nextRow /\ nextRow + 1 \in Nat
    BY <2>1, OpenType
  <2>3. /\ users' \in [Users -> User]
        /\ \A v \in Users : users'[v].exists = users[v].exists
        /\ \A v \in Users \ {req[w].user} : users'[v] = users[v]
    BY <1>7, <2>1, VerifiedFlags DEF VerifyOtpCommit
  <2>. QED
    BY <1>7, <2>2, <2>3, SpentRows, FinishType DEF VerifyOtpCommit, TypeOK, Grows
<1>. QED  BY <1>1, <1>2, <1>3, <1>4, <1>5, <1>6, <1>7 DEF CodeStep

LEMMA NextType ==
  ASSUME TypeOK, [Next]_vars
  PROVE  TypeOK' /\ Grows
<1>1. ASSUME NEW u \in Users, CreateUser(u) PROVE TypeOK' /\ Grows
  BY <1>1 DEF CreateUser, TypeOK, Grows, User
<1>2. ASSUME NEW u \in Users, Register(u) PROVE TypeOK' /\ Grows
  <2>1. Open(u) \in Session /\ Open(u).id = nextRow /\ nextRow + 1 \in Nat
    BY OpenType
  <2>. QED  BY <1>2, <2>1 DEF Register, TypeOK, Grows, User
<1>3. ASSUME NEW u \in Users, ForgotPassword(u) PROVE TypeOK' /\ Grows
  <2>1. [id |-> nextRow, user |-> u, usable |-> TRUE] \in Token /\ nextRow + 1 \in Nat
    BY DEF TypeOK, Token
  <2>2. tokens' \subseteq Token
    BY <1>3, <2>1 DEF ForgotPassword, TypeOK
  <2>3. Grows
    BY <1>3 DEF ForgotPassword, TypeOK, Grows
  <2>. QED  BY <1>3, <2>1, <2>2, <2>3 DEF ForgotPassword, TypeOK
<1>4. ASSUME NEW c \in codes, CodeExpires(c) PROVE TypeOK' /\ Grows
  BY <1>4, SpentRows DEF CodeExpires, TypeOK, Grows
<1>5. ASSUME NEW t \in tokens, TokenExpires(t) PROVE TypeOK' /\ Grows
  BY <1>5, SpendTokenType DEF TokenExpires, TypeOK, Grows
<1>6. ASSUME NEW w \in Workers, Abort(w) PROVE TypeOK' /\ Grows
  BY <1>6, FinishType DEF Abort, TypeOK, Grows
<1>7. CASE UNCHANGED vars
  BY <1>7 DEF vars, TypeOK, Grows
<1>. QED
  BY <1>1, <1>2, <1>3, <1>4, <1>5, <1>6, <1>7, AccountStepType, PasswordStepType, CodeStepType
  DEF Next

\* However requests overlap, accounts, sessions, codes, tokens and requests
\* keep their types.
THEOREM TypeCorrect == Spec => []TypeOK
<1>1. TypeOK /\ [Next]_vars => TypeOK'
  BY NextType
<1>. QED  BY <1>1, InitType, PTL DEF Spec

-----------------------------------------------------------------------------
(* Which step did it *)

\* A request changes only by a step of its own.
LEMMA OwnStep ==
  ASSUME TypeOK, [Next]_vars, NEW w \in Workers, req'[w] # req[w]
  PROVE  AccountStep(w) \/ PasswordStep(w) \/ CodeStep(w) \/ Abort(w)
<1>1. ASSUME NEW v \in Workers, v # w, NEW q, Serve(v, q) PROVE FALSE
  BY <1>1 DEF Serve, TypeOK
<1>2. ASSUME NEW v \in Workers, v # w PROVE ~AccountStep(v)
  BY <1>1, <1>2 DEF AccountStep, DeactivateRead, UpdateUserRead, ReadUser, DeactivateCommit,
     UpdateUserCommit, Finish
<1>3. ASSUME NEW v \in Workers, v # w PROVE ~PasswordStep(v)
  BY <1>1, <1>3 DEF PasswordStep, LoginRead, LoginCommit, LogoutRead, LogoutCommit, ResetRead,
     ResetReadSessions, ResetCommit, Finish
<1>4. ASSUME NEW v \in Workers, v # w PROVE ~CodeStep(v)
  BY <1>1, <1>4 DEF CodeStep, RequestOtpRead, RequestOtpSend, ServiceAnswers, RequestOtpCommit,
     VerifyOtpReadCode, VerifyOtpReadUser, VerifyOtpCommit, Finish
<1>5. ASSUME NEW v \in Workers, v # w PROVE ~Abort(v)
  BY <1>1, <1>5 DEF Abort, Finish
<1>. QED
  BY <1>2, <1>3, <1>4, <1>5 DEF Next, CreateUser, Register, ForgotPassword, CodeExpires,
     TokenExpires, vars

\* What a request has become tells the step it took.
LEMMA StepInto ==
  ASSUME TypeOK, [Next]_vars, NEW w \in Workers, req'[w] # req[w]
  PROVE  /\ req'[w].op = "reset.sessions" => \E t \in tokens : ResetRead(w, t)
         /\ req'[w].op = "reset.commit" => ResetReadSessions(w)
         /\ req'[w].op = "otp.send" => \E p \in Phones : RequestOtpRead(w, p)
         /\ req'[w].op = "otp.wait" => RequestOtpSend(w)
         /\ req'[w].op = "otp.commit" => ServiceAnswers(w)
         /\ req'[w].op = "verify.user" => \E c \in codes : VerifyOtpReadCode(w, c)
         /\ req'[w].op = "verify.commit" => VerifyOtpReadUser(w)
<1>. DEFINE Ops(ops) == req'[w].op \in ops
<1>1. req \in [Workers -> Request]
  BY DEF TypeOK
<1>2. ASSUME Finish(w) PROVE Ops({"idle"})
  BY <1>1, <1>2 DEF Serve, Finish, Idle
<1>3. CASE AccountStep(w)
  <2>1. ASSUME NEW u \in Users, NEW op \in {"deactivate", "update_user"}, ReadUser(w, u, op)
        PROVE  Ops({"deactivate", "update_user"})
    BY <1>1, <2>1 DEF ReadUser, Serve
  <2>2. Ops({"idle", "deactivate", "update_user"})
    BY <1>2, <1>3, <2>1
    DEF AccountStep, DeactivateRead, UpdateUserRead, DeactivateCommit, UpdateUserCommit
  <2>. QED  BY <2>2
<1>4. CASE PasswordStep(w)
  <2>1. ASSUME NEW u \in Users, LoginRead(w, u) PROVE Ops({"login"})
    BY <1>1, <2>1 DEF LoginRead, Serve
  <2>2. ASSUME NEW s \in sessions, LogoutRead(w, s) PROVE Ops({"logout"})
    BY <1>1, <2>2 DEF LogoutRead, Serve
  <2>3. ASSUME NEW t \in tokens, ResetRead(w, t) PROVE Ops({"reset.sessions"})
    BY <1>1, <2>3 DEF ResetRead, Serve
  <2>4. ASSUME ResetReadSessions(w) PROVE Ops({"reset.commit"})
    BY <1>1, <2>4 DEF ResetReadSessions, Serve
  <2>5. \/ Ops({"idle", "login", "logout"})
        \/ Ops({"reset.sessions"}) /\ \E t \in tokens : ResetRead(w, t)
        \/ Ops({"reset.commit"}) /\ ResetReadSessions(w)
    BY <1>2, <1>4, <2>1, <2>2, <2>3, <2>4
    DEF PasswordStep, LoginCommit, LogoutCommit, ResetCommit
  <2>. QED  BY <2>5
<1>5. CASE CodeStep(w)
  <2>1. ASSUME NEW p \in Phones, RequestOtpRead(w, p) PROVE Ops({"otp.send"})
    BY <1>1, <2>1 DEF RequestOtpRead, Serve
  <2>2. ASSUME RequestOtpSend(w) PROVE Ops({"otp.wait"})
    BY <1>1, <2>2 DEF RequestOtpSend, Serve
  <2>3. ASSUME ServiceAnswers(w) PROVE Ops({"otp.commit"})
    <3>. DEFINE q == [req[w] EXCEPT !.op = "otp.commit"]
    <3>1. q.op = "otp.commit"
      BY <1>1, <2>3 DEF ServiceAnswers, Request, Idle
    <3>. HIDE DEF q
    <3>2. Serve(w, q)
      BY <2>3 DEF ServiceAnswers, q
    <3>. QED  BY <1>1, <3>1, <3>2 DEF Serve
  <2>4. ASSUME NEW c \in codes, VerifyOtpReadCode(w, c) PROVE Ops({"verify.user"})
    BY <1>1, <2>4 DEF VerifyOtpReadCode, Serve
  <2>5. ASSUME VerifyOtpReadUser(w) PROVE Ops({"verify.commit"})
    BY <1>1, <2>5 DEF VerifyOtpReadUser, Serve
  <2>6. \/ Ops({"idle"})
        \/ Ops({"otp.send"}) /\ \E p \in Phones : RequestOtpRead(w, p)
        \/ Ops({"otp.wait"}) /\ RequestOtpSend(w)
        \/ Ops({"otp.commit"}) /\ ServiceAnswers(w)
        \/ Ops({"verify.user"}) /\ \E c \in codes : VerifyOtpReadCode(w, c)
        \/ Ops({"verify.commit"}) /\ VerifyOtpReadUser(w)
    BY <1>2, <1>5, <2>1, <2>2, <2>3, <2>4, <2>5 DEF CodeStep, RequestOtpCommit, VerifyOtpCommit
  <2>. QED  BY <2>6
<1>6. CASE Abort(w)
  BY <1>2, <1>6 DEF Abort
<1>. QED  BY <1>3, <1>4, <1>5, <1>6, OwnStep

\* What a request was tells how it ended.
LEMMA StepOutOf ==
  ASSUME TypeOK, [Next]_vars, NEW w \in Workers, req'[w] # req[w]
  PROVE  /\ req[w].op = "reset.commit" => ResetCommit(w) \/ Abort(w)
         /\ req[w].op = "otp.commit" => RequestOtpCommit(w) \/ Abort(w)
<1>. DEFINE Commits == req[w].op \in {"reset.commit", "otp.commit"}
<1>1. ASSUME req[w] = Idle PROVE ~Commits
  BY <1>1 DEF Idle
<1>2. AccountStep(w) => ~Commits
  BY <1>1 DEF AccountStep, DeactivateRead, UpdateUserRead, ReadUser, DeactivateCommit,
     UpdateUserCommit
<1>3. PasswordStep(w) /\ Commits => req[w].op = "reset.commit" /\ ResetCommit(w)
  BY <1>1 DEF PasswordStep, LoginRead, LoginCommit, LogoutRead, LogoutCommit, ResetRead,
     ResetReadSessions, ResetCommit
<1>4. CodeStep(w) /\ Commits => req[w].op = "otp.commit" /\ RequestOtpCommit(w)
  BY <1>1 DEF CodeStep, RequestOtpRead, RequestOtpSend, ServiceAnswers, RequestOtpCommit,
     VerifyOtpReadCode, VerifyOtpReadUser, VerifyOtpCommit
<1>. QED  BY <1>2, <1>3, <1>4, OwnStep

-----------------------------------------------------------------------------
(* The inductive invariant *)

Dating == {"reset.sessions", "reset.commit", "otp.send", "otp.wait", "otp.commit"}
Known == {"otp.send", "otp.wait", "otp.commit", "verify.user", "verify.commit"}

\* A request began before now.
Dated == \A w \in Workers : req[w].op \in Dating => req[w].began <= nextRow

\* Codes and those who ask for or use one are of accounts that exist, and so
\* is whoever is verified.
AccountsExist ==
  /\ \A c \in codes : users[c.user].exists
  /\ \A w \in Workers : req[w].op \in Known => users[req[w].user].exists
  /\ \A u \in Users : users[u].is_verified => users[u].exists

\* A reset that is about to commit has seen every open session of its user
\* that was there when it began.
ResetSaw ==
  \A w \in Workers : req[w].op = "reset.commit" =>
    \A s \in sessions :
      s.user = req[w].user /\ s.id < req[w].began => s.is_revoked \/ s.id \in req[w].open

\* So has a request for a code of the usable codes of its phone.
CodeSaw ==
  \A w \in Workers : req[w].op \in {"otp.wait", "otp.commit"} =>
    \A c \in codes :
      c.usable /\ phone[c.user] = phone[req[w].user] /\ c.id < req[w].began =>
        c.id \in req[w].replaced

Inv == TypeOK /\ Dated /\ AccountsExist /\ ResetSaw /\ CodeSaw

LEMMA InitInv == Init => Inv
<1>. SUFFICES ASSUME Init PROVE Inv
  OBVIOUS
<1>1. TypeOK
  BY InitType
<1>2. Dated /\ AccountsExist /\ ResetSaw /\ CodeSaw
  BY DEF Init, Dated, Dating, AccountsExist, Known, ResetSaw, CodeSaw, NoRow, Idle
<1>. QED  BY <1>1, <1>2 DEF Inv

\* What a request takes with it from the state it reads.
LEMMA Remembers ==
  ASSUME TypeOK, [Next]_vars, NEW w \in Workers, req'[w] # req[w]
  PROVE  /\ req'[w].op \in {"reset.sessions", "otp.send"} => req'[w].began = nextRow
         /\ req'[w].op \in {"reset.commit", "otp.wait", "otp.commit"} =>
              req[w].op \in Dating /\ req'[w].began = req[w].began /\ req'[w].user = req[w].user
         /\ req'[w].op = "reset.commit" => req'[w].open = OpenSessions(req[w].user)
         /\ req'[w].op = "otp.send" => users[req'[w].user].exists
         /\ req'[w].op = "otp.wait" => req'[w].replaced = UsableCodes(phone[req[w].user])
         /\ req'[w].op = "otp.commit" =>
              req[w].op = "otp.wait" /\ req'[w].replaced = req[w].replaced
         /\ req'[w].op = "verify.user" => \E c \in codes : req'[w].user = c.user
         /\ req'[w].op \in {"otp.wait", "otp.commit", "verify.commit"} =>
              req[w].op \in Known /\ req'[w].user = req[w].user
         /\ req'[w].op \in {"reset.sessions", "reset.commit"} \cup Known =>
              UNCHANGED <<users, phone, sessions, codes, nextRow>>
<1>1. req \in [Workers -> Request]
  BY DEF TypeOK
<1>2. ASSUME req'[w].op = "reset.sessions"
      PROVE  req'[w].began = nextRow /\ UNCHANGED <<users, phone, sessions, codes, nextRow>>
  BY <1>1, <1>2, StepInto DEF ResetRead, Serve
<1>3. ASSUME req'[w].op = "reset.commit"
      PROVE  /\ req[w].op \in Dating /\ req'[w].began = req[w].began
             /\ req'[w].user = req[w].user /\ req'[w].open = OpenSessions(req[w].user)
             /\ UNCHANGED <<users, phone, sessions, codes, nextRow>>
  BY <1>1, <1>3, StepInto DEF ResetReadSessions, Serve, ToRevoke, Dating
<1>4. ASSUME req'[w].op = "otp.send"
      PROVE  /\ req'[w].began = nextRow /\ users[req'[w].user].exists
             /\ UNCHANGED <<users, phone, sessions, codes, nextRow>>
  <2>1. PICK p \in Phones : RequestOtpRead(w, p)
    BY <1>4, StepInto
  <2>2. PICK u \in Found(p) : Serve(w, [op |-> "otp.send", user |-> u, began |-> nextRow])
    BY <2>1 DEF RequestOtpRead
  <2>3. req'[w] = [op |-> "otp.send", user |-> u, began |-> nextRow]
    BY <1>1, <2>2 DEF Serve
  <2>4. users[u].exists
    BY DEF Found
  <2>. QED  BY <2>1, <2>3, <2>4 DEF RequestOtpRead
<1>5. ASSUME req'[w].op = "otp.wait"
      PROVE  /\ req[w].op \in Dating \cap Known /\ req'[w].began = req[w].began
             /\ req'[w].user = req[w].user
             /\ req'[w].replaced = UsableCodes(phone[req[w].user])
             /\ UNCHANGED <<users, phone, sessions, codes, nextRow>>
  BY <1>1, <1>5, StepInto DEF RequestOtpSend, Serve, Replaces, Dating, Known
<1>6. ASSUME req'[w].op = "otp.commit"
      PROVE  /\ req[w].op = "otp.wait" /\ req'[w].began = req[w].began
             /\ req'[w].user = req[w].user /\ req'[w].replaced = req[w].replaced
             /\ UNCHANGED <<users, phone, sessions, codes, nextRow>>
  <2>1. req[w].op = "otp.wait" /\ req'[w] = [req[w] EXCEPT !.op = "otp.commit"]
    BY <1>1, <1>6, StepInto DEF ServiceAnswers, Serve
  <2>2. req[w] \in [op : {"otp.wait"}, user : Users, began : Nat, replaced : SUBSET Nat]
    BY <1>1, <2>1 DEF Request, Idle
  <2>3. UNCHANGED <<users, phone, sessions, codes, nextRow>>
    BY <1>6, StepInto DEF ServiceAnswers
  <2>. QED  BY <2>1, <2>2, <2>3
<1>7. ASSUME req'[w].op = "verify.user"
      PROVE  /\ \E c \in codes : req'[w].user = c.user
             /\ UNCHANGED <<users, phone, sessions, codes, nextRow>>
  BY <1>1, <1>7, StepInto DEF VerifyOtpReadCode, Serve
<1>8. ASSUME req'[w].op = "verify.commit"
      PROVE  /\ req[w].op \in Known /\ req'[w].user = req[w].user
             /\ UNCHANGED <<users, phone, sessions, codes, nextRow>>
  BY <1>1, <1>8, StepInto DEF VerifyOtpReadUser, Serve, Known
<1>. QED
  BY <1>2, <1>3, <1>4, <1>5, <1>6, <1>7, <1>8 DEF Dating, Known

LEMMA NextDated ==
  ASSUME Inv, [Next]_vars
  PROVE  Dated'
<1>. SUFFICES ASSUME NEW w \in Workers, req'[w].op \in Dating
              PROVE  req'[w].began <= nextRow'
  BY DEF Dated
<1>1. TypeOK /\ Grows /\ nextRow \in Nat /\ nextRow' \in Nat
  BY NextType DEF Inv, TypeOK
<1>2. CASE req'[w] = req[w]
  <2>1. req[w].began \in Nat /\ req[w].began <= nextRow
    BY <1>1, <1>2, RequestShape DEF Inv, Dated, Dating, TypeOK
  <2>. QED  BY <1>1, <1>2, <2>1 DEF Grows
<1>3. CASE req'[w] # req[w]
  BY <1>1, <1>3, Remembers DEF Inv, Dated, Dating, Known
<1>. QED  BY <1>2, <1>3

LEMMA NextAccountsExist ==
  ASSUME Inv, [Next]_vars
  PROVE  AccountsExist'
<1>1. TypeOK /\ TypeOK' /\ Grows
  BY NextType DEF Inv
<1>2. ASSUME NEW w \in Workers, req[w].op \in Known
      PROVE  req[w].user \in Users /\ users[req[w].user].exists
  BY <1>1, <1>2, RequestShape DEF Inv, AccountsExist, Known, TypeOK
<1>3. ASSUME NEW c \in codes PROVE c.user \in Users /\ users[c.user].exists
  BY <1>1 DEF Inv, AccountsExist, TypeOK, Code
<1>4. ASSUME NEW r \in codes' PROVE users'[r.user].exists
  <2>1. r.user \in Users /\ users[r.user].exists
    BY <1>1, <1>2, <1>3, <1>4 DEF Grows, Known
  <2>. QED  BY <1>1, <2>1 DEF Grows
<1>5. ASSUME NEW w \in Workers, req'[w].op \in Known
      PROVE  users'[req'[w].user].exists
  <2>1. req'[w].user \in Users
    BY <1>1, <1>5, RequestShape DEF TypeOK, Known
  <2>2. users[req'[w].user].exists
    BY <1>1, <1>2, <1>3, <1>5, Remembers DEF Known
  <2>. QED  BY <1>1, <2>1, <2>2 DEF Grows
<1>6. ASSUME NEW u \in Users, users'[u].is_verified PROVE users'[u].exists
  <2>1. users[u].exists
    BY <1>1, <1>2, <1>6 DEF Grows, Inv, AccountsExist, Known
  <2>. QED  BY <1>1, <2>1 DEF Grows
<1>. QED  BY <1>4, <1>5, <1>6 DEF AccountsExist

LEMMA NextResetSaw ==
  ASSUME Inv, [Next]_vars
  PROVE  ResetSaw'
<1>. SUFFICES ASSUME NEW w \in Workers, req'[w].op = "reset.commit",
                     NEW r \in sessions', r.user = req'[w].user, r.id < req'[w].began
              PROVE  r.is_revoked \/ r.id \in req'[w].open
  BY DEF ResetSaw
<1>1. TypeOK /\ Grows
  BY NextType DEF Inv
<1>2. CASE req'[w] = req[w]
  <2>1. req[w].began \in Nat /\ req[w].began <= nextRow /\ nextRow \in Nat
    BY <1>1, <1>2, RequestShape DEF Inv, Dated, Dating, TypeOK
  <2>2. PICK s \in sessions :
          r.id = s.id /\ r.user = s.user /\ (s.is_revoked => r.is_revoked)
    BY <1>1, <1>2, <2>1 DEF Grows
  <2>. QED  BY <1>2, <2>2 DEF Inv, ResetSaw
<1>3. CASE req'[w] # req[w]
  <2>1. r \in sessions /\ r.user = req[w].user /\ req'[w].open = OpenSessions(req[w].user)
    BY <1>1, <1>3, Remembers
  <2>. QED  BY <2>1 DEF OpenSessions
<1>. QED  BY <1>2, <1>3

LEMMA NextCodeSaw ==
  ASSUME Inv, [Next]_vars
  PROVE  CodeSaw'
<1>. SUFFICES ASSUME NEW w \in Workers, req'[w].op \in {"otp.wait", "otp.commit"},
                     NEW r \in codes', r.usable, phone'[r.user] = phone'[req'[w].user],
                     r.id < req'[w].began
              PROVE  r.id \in req'[w].replaced
  BY DEF CodeSaw
<1>1. TypeOK /\ Grows
  BY NextType DEF Inv
<1>2. CASE req'[w] = req[w]
  <2>1. req[w].began \in Nat /\ req[w].began <= nextRow /\ nextRow \in Nat
    BY <1>1, <1>2, RequestShape DEF Inv, Dated, Dating, TypeOK
  <2>2. PICK c \in codes : r.id = c.id /\ r.user = c.user /\ (r.usable => c.usable)
    BY <1>1, <1>2, <2>1 DEF Grows
  <2>. QED  BY <1>1, <1>2, <2>2 DEF Inv, CodeSaw, Grows
<1>3. CASE req'[w] # req[w] /\ req'[w].op = "otp.wait"
  <2>1. /\ r \in codes /\ phone[r.user] = phone[req[w].user]
        /\ req'[w].replaced = UsableCodes(phone[req[w].user])
    BY <1>1, <1>3, Remembers DEF Known
  <2>. QED  BY <2>1 DEF UsableCodes
<1>4. CASE req'[w] # req[w] /\ req'[w].op = "otp.commit"
  <2>1. /\ r \in codes /\ phone' = phone
        /\ req[w].op = "otp.wait" /\ req'[w].replaced = req[w].replaced
        /\ req'[w].user = req[w].user /\ req'[w].began = req[w].began
    BY <1>1, <1>4, Remembers DEF Known
  <2>. QED  BY <2>1 DEF Inv, CodeSaw
<1>. QED  BY <1>2, <1>3, <1>4

LEMMA InvHolds == Spec => []Inv
<1>1. Inv /\ [Next]_vars => Inv'
  BY NextType, NextDated, NextAccountsExist, NextResetSaw, NextCodeSaw DEF Inv
<1>. QED  BY <1>1, InitInv, PTL DEF Spec

-----------------------------------------------------------------------------
(* What commits achieve *)

\* No session that was open before a password reset began survives it,
\* whatever commits while the reset is under way.
THEOREM ResetEndsOlderSessionsHolds == Spec => ResetEndsOlderSessions
<1>1. ASSUME Inv, [Next]_vars, NEW w \in Workers,
             req[w].op = "reset.commit", req'[w] = Idle, tokens' # tokens,
             NEW r \in sessions', r.user = req[w].user, r.id < req[w].began
      PROVE  r.is_revoked
  <2>1. req'[w] # req[w]
    BY <1>1 DEF Idle
  <2>2. ResetCommit(w)
    BY <1>1, <2>1, StepOutOf DEF Inv, Abort
  <2>3. PICK s \in sessions :
          /\ r.id = s.id /\ r.user = s.user
          /\ s.is_revoked => r.is_revoked
          /\ s.id \in req[w].open => r.is_revoked
    BY <1>1, <2>2, RevokedRows DEF Inv, ResetCommit
  <2>. QED  BY <1>1, <2>3 DEF Inv, ResetSaw
<1>2. Inv /\ [Next]_vars =>
        [\A w \in Workers :
           req[w].op = "reset.commit" /\ req'[w] = Idle /\ tokens' # tokens =>
             \A s \in sessions' : s.user = req[w].user /\ s.id < req[w].began => s.is_revoked]_vars
  BY <1>1
<1>. QED  BY <1>2, InvHolds, PTL DEF Spec, ResetEndsOlderSessions

\* A new code leaves no older code of its phone usable, except those of
\* requests that it overlapped.
THEOREM NewCodeEndsOlderCodesHolds == Spec => NewCodeEndsOlderCodes
<1>1. ASSUME Inv, [Next]_vars, NEW w \in Workers,
             req[w].op = "otp.commit", nextRow' # nextRow, req'[w] # req[w],
             NEW r \in codes', r.usable, phone[r.user] = phone[req[w].user]
      PROVE  r.id >= req[w].began
  <2>1. RequestOtpCommit(w)
    BY <1>1, StepOutOf DEF Inv, Abort
  <2>2. req[w].began \in Nat /\ req[w].began <= nextRow /\ nextRow \in Nat
    BY <1>1, RequestShape DEF Inv, Dated, Dating, TypeOK
  <2>3. CASE r.id = nextRow
    BY <2>2, <2>3
  <2>4. CASE r \in Spent(req[w].replaced)
    <3>1. PICK c \in codes :
            r.id = c.id /\ r.user = c.user /\ c.usable /\ c.id \notin req[w].replaced
      BY <1>1, <2>4, SpentRows DEF Inv
    <3>2. c.id \in Nat
      BY <1>1 DEF Inv, TypeOK, Code
    <3>. QED  BY <1>1, <2>2, <3>1, <3>2 DEF Inv, CodeSaw
  <2>. QED  BY <1>1, <2>1, <2>3, <2>4 DEF RequestOtpCommit
<1>2. Inv /\ [Next]_vars =>
        [\A w \in Workers :
           req[w].op = "otp.commit" /\ nextRow' # nextRow /\ req'[w] # req[w] =>
             \A c \in codes' :
               c.usable /\ phone[c.user] = phone[req[w].user] => c.id >= req[w].began]_vars
  BY <1>1
<1>. QED  BY <1>2, InvHolds, PTL DEF Spec, NewCodeEndsOlderCodes

\* The steps that change an account without a request of its own do not meet
\* one that was verified.
LEMMA OnlyCommitsActivate ==
  ASSUME Inv, [Next]_vars, NEW u \in Users,
         users[u].is_verified, ~users[u].is_active, users'[u].is_active
  PROVE  \E w \in Workers : DeactivateCommit(w) \/ UpdateUserCommit(w) \/ VerifyOtpCommit(w)
<1>1. users[u].exists
  BY DEF Inv, AccountsExist
<1>2. users' # users
  OBVIOUS
<1>3. ASSUME NEW v \in Users, CreateUser(v) \/ Register(v) PROVE FALSE
  <2>1. users'[u] = users[u]
    BY <1>1, <1>3 DEF CreateUser, Register, Inv, TypeOK
  <2>. QED  BY <2>1
<1>4. ASSUME NEW w \in Workers, AccountStep(w)
      PROVE  DeactivateCommit(w) \/ UpdateUserCommit(w)
  BY <1>2, <1>4 DEF AccountStep, DeactivateRead, UpdateUserRead, ReadUser
<1>5. ASSUME NEW w \in Workers PROVE ~PasswordStep(w)
  BY <1>2 DEF PasswordStep, LoginRead, LoginCommit, LogoutRead, LogoutCommit, ResetRead,
     ResetReadSessions, ResetCommit
<1>6. ASSUME NEW w \in Workers, CodeStep(w) PROVE VerifyOtpCommit(w)
  BY <1>2, <1>6 DEF CodeStep, RequestOtpRead, RequestOtpSend, ServiceAnswers, RequestOtpCommit,
     VerifyOtpReadCode, VerifyOtpReadUser
<1>7. ASSUME NEW w \in Workers PROVE ~Abort(w)
  BY <1>2 DEF Abort
<1>. QED
  BY <1>2, <1>3, <1>4, <1>5, <1>6, <1>7
  DEF Next, ForgotPassword, CodeExpires, TokenExpires, vars

\* A deactivated account is not brought back by an update of another of its
\* fields, nor by a verification that found it verified.
THEOREM DeactivationHoldsAlways == Spec => DeactivationHolds
<1>1. ASSUME Inv, [Next]_vars, NEW u \in Users,
             users[u].is_verified, ~users[u].is_active, users'[u].is_active
      PROVE  \E w \in Workers :
               /\ req[w] # Idle /\ req'[w] = Idle
               /\ \/ req[w].op = "update_user" /\ req[w].user = u /\ ~req[w].seen.is_active
                  \/ /\ req[w].op = "verify.commit" /\ req[w].user = u
                     /\ ~req[w].seen.is_verified
  <2>1. PICK w \in Workers : DeactivateCommit(w) \/ UpdateUserCommit(w) \/ VerifyOtpCommit(w)
    BY <1>1, OnlyCommitsActivate
  <2>2. /\ req[w].op \in {"deactivate", "update_user", "verify.commit"}
        /\ req[w] # Idle /\ req'[w] = Idle
        /\ req[w].user \in Users /\ req[w].seen \in User
    <3>1. req[w].op \in {"deactivate", "update_user", "verify.commit"} /\ Finish(w)
      BY <2>1 DEF DeactivateCommit, UpdateUserCommit, VerifyOtpCommit
    <3>2. req[w] # Idle /\ req'[w] = Idle
      BY <1>1, <3>1, FinishType DEF Idle, Inv
    <3>3. req[w] \in Request
      BY <1>1 DEF Inv, TypeOK
    <3>. QED  BY <3>1, <3>2, <3>3, RequestShape
  <2>3. ASSUME NEW value \in BOOLEAN, SetActive(req[w].user, req[w].seen, value)
        PROVE  req[w].user = u /\ value /\ ~req[w].seen.is_active
    BY <1>1, <2>2, <2>3, SetActiveFlags DEF Inv
  <2>4. CASE DeactivateCommit(w)
    BY <2>3, <2>4 DEF DeactivateCommit
  <2>5. CASE UpdateUserCommit(w)
    BY <2>2, <2>3, <2>5 DEF UpdateUserCommit
  <2>6. CASE VerifyOtpCommit(w)
    <3>1. req[w].user = u /\ ~req[w].seen.is_verified
      BY <1>1, <2>2, <2>6, VerifiedFlags DEF VerifyOtpCommit, Inv
    <3>. QED  BY <2>2, <2>6, <3>1 DEF VerifyOtpCommit
  <2>. QED  BY <2>1, <2>4, <2>5, <2>6
<1>2. Inv /\ [Next]_vars =>
        [\A u \in Users :
           users[u].is_verified /\ ~users[u].is_active /\ users'[u].is_active =>
             \E w \in Workers :
               /\ req[w] # Idle /\ req'[w] = Idle
               /\ \/ req[w].op = "update_user" /\ req[w].user = u /\ ~req[w].seen.is_active
                  \/ /\ req[w].op = "verify.commit" /\ req[w].user = u
                     /\ ~req[w].seen.is_verified]_vars
  BY <1>1
<1>. QED  BY <1>2, InvHolds, PTL DEF Spec, DeactivationHolds
=============================================================================
