---------------------------- MODULE AccountsProofs ----------------------------
(***************************************************************************)
(* For any users and any number of requests in flight: no TOTP code is     *)
(* accepted twice, a token of somebody with MFA was given for a code, and  *)
(* a security change ends the sessions before it.                          *)
(***************************************************************************)
EXTENDS Accounts, TLAPS

\* A secret is held by one user, in one place, and a secret that was never
\* generated by nobody.
SecretsAreOwn ==
  \A u, v \in UserIds :
    /\ users[u].secret <= secrets /\ users[u].pending <= secrets
    /\ users[u].secret # 0 => users[u].secret # users[v].pending
    /\ users[u].secret # 0 /\ users[u].secret = users[v].secret => u = v
    /\ users[u].pending # 0 /\ users[u].pending = users[v].pending => u = v

\* The codes accepted of a secret that is on are not later than the last one on
\* record; none was accepted of a secret that is not confirmed yet.
CodesAreRecorded ==
  \A p \in accepted :
    /\ 1 <= p[1] /\ p[1] <= secrets
    /\ \A u \in UserIds : /\ p[1] = users[u].secret => p[2] <= users[u].last
                          /\ p[1] # users[u].pending

\* An account without a token version has no password and is not an admin's.
VersionZero ==
  \A u \in UserIds : users[u].version = 0 => ~users[u].password /\ users[u].role = "member"

\* What a handler that is about to issue a token has read of the account was so
\* once; when it still is so, and MFA is on, the password was not enough.
CopyIsOld(r) ==
  /\ users[r.id].state # "free"
  /\ r.user.version <= users[r.id].version
  /\ r.user.version = 0 => r.op = "sso" /\ r.user.role = "member"
  /\ r.op # "sso" /\ r.user.version = users[r.id].version /\ users[r.id].secret # 0
       => r.pc = "mfa" \/ r.code

CopiesAreOld == \A h \in Handlers : req[h].pc \in {"mfa", "issue"} => CopyIsOld(req[h])

\* So it is with the token, or the Studio code: its sign-in read the account so, and
\* if the account still has the version read then, it was not changed since.  The
\* token is of that version, or of version 1.
TokenIsOld ==
  token # NoToken =>
    /\ users[token.id].state # "free"
    /\ token.version = 1 \/ (token.from # 0 /\ token.version = token.from)
    /\ token.from <= users[token.id].version
    /\ token.from = 0 => token.sso /\ token.role = "member"
    /\ token.from = users[token.id].version =>
         /\ token.changes = users[token.id].changes
         /\ ~token.sso /\ users[token.id].secret # 0 => token.code

\* The inductive invariant.
IInv ==
  /\ TypeOK
  /\ SecretsAreOwn
  /\ CodesAreRecorded
  /\ CodesAreUsedOnce
  /\ VersionZero
  /\ CopiesAreOld
  /\ TokenIsOld

-----------------------------------------------------------------------------
(* Accounts *)

\* What may become of an account: it is never free again, and once it exists
\* either its version, its changes and that MFA is off stay, or it has a later
\* version.
Later(a, b) ==
  /\ b.state = "free" => a.state = "free"
  /\ a.state # "free" =>
       \/ b.version = a.version /\ b.changes = a.changes /\ (a.secret = 0 => b.secret = 0)
       \/ b.version > a.version

\* MFA is as it was, or off.
MfaKept(a, b) ==
  \/ b.secret = a.secret /\ b.pending = a.pending /\ b.last = a.last
  \/ b.secret = 0 /\ b.pending = 0 /\ b.last = 0

Sound(a) ==
  /\ a.version = 0 => ~a.password /\ a.role = "member"
  /\ a.state = "live" => (a.secret = 0 <=> a.last = 0)

LEMMA SecurityChangeFacts ==
  ASSUME NEW a \in Account
  PROVE  LET b == SecurityChange(a)
         IN  /\ b \in Account
             /\ b.version > a.version
             /\ b.state = a.state /\ b.role = a.role /\ b.password = a.password
             /\ b.secret = a.secret /\ b.pending = a.pending /\ b.last = a.last
<1>1. a.version \in Nat /\ a.changes + 1 \in Nat
  BY DEF Account
<1>2. nextTokenVersion(a.version) \in Nat /\ nextTokenVersion(a.version) > a.version
  BY <1>1 DEF nextTokenVersion
<1>3. \A n, m \in Nat : [a EXCEPT !.version = n, !.changes = m] \in Account
  BY DEF Account
<1> QED
  BY <1>1, <1>2, <1>3 DEF SecurityChange, Account

LEMMA NewAccountFacts ==
  /\ NoAccount \in Account
  /\ \A role \in Platform :
       LET b == [NoAccount EXCEPT !.state = "live", !.role = role, !.password = TRUE,
                                  !.version = 1]
       IN  /\ b \in Account /\ Sound(b)
           /\ b.state = "live" /\ b.version = 1
           /\ b.secret = 0 /\ b.pending = 0 /\ b.last = 0
  /\ LET b == [NoAccount EXCEPT !.state = "live"]
     IN  /\ b \in Account /\ Sound(b)
         /\ b.state = "live"
         /\ b.secret = 0 /\ b.pending = 0 /\ b.last = 0
<1>1. NoAccount \in Account
  BY DEF NoAccount, Account, Platform
<1> DEFINE New(role) == [NoAccount EXCEPT !.state = "live", !.role = role, !.password = TRUE,
                                         !.version = 1]
           Invited == [NoAccount EXCEPT !.state = "live"]
<1>2. ASSUME NEW role \in Platform
      PROVE  /\ New(role) \in Account
             /\ New(role).state = "live" /\ New(role).version = 1
             /\ New(role).secret = 0 /\ New(role).pending = 0 /\ New(role).last = 0
  BY DEF NoAccount, Account
<1>3. /\ Invited \in Account
      /\ Invited.state = "live" /\ Invited.role = "member" /\ Invited.password = FALSE
      /\ Invited.secret = 0 /\ Invited.pending = 0 /\ Invited.last = 0
  BY DEF NoAccount, Account, Platform
<1> HIDE DEF New, Invited
<1>4. ASSUME NEW role \in Platform PROVE Sound(New(role))
  BY <1>2 DEF Sound
<1>5. Sound(Invited)
  BY <1>3 DEF Sound
<1> QED
  BY <1>1, <1>2, <1>3, <1>4, <1>5 DEF New, Invited

\* One account changes.
LEMMA OneAccount ==
  ASSUME users \in [UserIds -> Account], NEW u \in UserIds, NEW b \in Account,
         users' = [users EXCEPT ![u] = b]
  PROVE  /\ users' \in [UserIds -> Account]
         /\ users'[u] = b
         /\ \A v \in UserIds : v # u => users'[v] = users[v]
  OBVIOUS

\* A step of the accounts that leaves MFA as it is, or turns it off.
Moved ==
  /\ users' \in [UserIds -> Account]
  /\ \A u \in UserIds : /\ Later(users[u], users'[u])
                        /\ MfaKept(users[u], users'[u])
                        /\ Sound(users[u])'

LEMMA SoundAccounts ==
  ASSUME IInv, NEW u \in UserIds PROVE users[u] \in Account /\ Sound(users[u])
  BY DEF IInv, TypeOK, VersionZero, Sound, live

LEMMA OneMoved ==
  ASSUME IInv, NEW u \in UserIds, NEW b \in Account, users' = [users EXCEPT ![u] = b],
         Later(users[u], b), MfaKept(users[u], b), Sound(b)
  PROVE  Moved
<1>1. /\ users' \in [UserIds -> Account]
      /\ users'[u] = b
      /\ \A v \in UserIds : v # u => users'[v] = users[v]
  BY OneAccount DEF IInv, TypeOK
<1>2. \A v \in UserIds : Later(users[v], users[v]) /\ MfaKept(users[v], users[v])
  BY DEF Later, MfaKept
<1> QED
  BY <1>1, <1>2, SoundAccounts DEF Moved, Sound

LEMMA CreateUserMoved ==
  ASSUME IInv, NEW u \in UserIds, NEW role \in Platform, CreateUser(u, role)
  PROVE  /\ Moved
         /\ users[u].state = "free"
         /\ users'[u].state = "live" /\ users'[u].version = 1 /\ users'[u].secret = 0
<1> DEFINE b == [NoAccount EXCEPT !.state = "live", !.role = role, !.password = TRUE,
                                  !.version = 1]
<1>1. /\ b \in Account /\ Sound(b)
      /\ b.state = "live" /\ b.version = 1
      /\ b.secret = 0 /\ b.pending = 0 /\ b.last = 0
  BY NewAccountFacts
<1>2. users[u].state = "free" /\ users' = [users EXCEPT ![u] = b]
  BY DEF CreateUser
<1> HIDE DEF b
<1>3. Later(users[u], b) /\ MfaKept(users[u], b)
  BY <1>1, <1>2 DEF Later, MfaKept
<1>4. users'[u] = b
  BY <1>1, <1>2 DEF IInv, TypeOK
<1> QED
  BY <1>1, <1>2, <1>3, <1>4, OneMoved

LEMMA InviteUserMoved ==
  ASSUME IInv, NEW u \in UserIds, InviteUser(u) PROVE Moved
<1> DEFINE b == [NoAccount EXCEPT !.state = "live"]
<1>1. /\ b \in Account /\ Sound(b)
      /\ b.state = "live"
      /\ b.secret = 0 /\ b.pending = 0 /\ b.last = 0
  BY NewAccountFacts
<1>2. users[u].state = "free" /\ users' = [users EXCEPT ![u] = b]
  BY DEF InviteUser
<1> HIDE DEF b
<1>3. Later(users[u], b) /\ MfaKept(users[u], b)
  BY <1>1, <1>2 DEF Later, MfaKept
<1> QED
  BY <1>1, <1>2, <1>3, OneMoved

LEMMA UpdateUserMoved ==
  ASSUME IInv, NEW u \in UserIds, NEW role \in Platform, NEW password \in BOOLEAN,
         NEW email \in BOOLEAN, UpdateUser(u, role, password, email)
  PROVE  Moved
<1> DEFINE a == users[u]
           b == [a EXCEPT !.role = role, !.password = a.password \/ password]
<1>1. a \in Account /\ Sound(a) /\ a.state = "live"
  BY SoundAccounts DEF UpdateUser
<1>2. a.password \in BOOLEAN /\ (a.password \/ password) \in BOOLEAN
  BY <1>1 DEF Account
<1>3. \A q \in BOOLEAN : [a EXCEPT !.role = role, !.password = q] \in Account
  BY <1>1 DEF Account
<1>4. /\ b \in Account
      /\ b.role = role /\ b.password = (a.password \/ password)
      /\ b.state = a.state /\ b.version = a.version /\ b.changes = a.changes
      /\ b.secret = a.secret /\ b.pending = a.pending /\ b.last = a.last
  BY <1>1, <1>2, <1>3 DEF Account
<1>5. users' = [users EXCEPT ![u] = IF role # a.role \/ password \/ email
                                    THEN SecurityChange(b) ELSE b]
  BY DEF UpdateUser
<1> HIDE DEF a, b
<1>6. CASE role # a.role \/ password \/ email
  <2>1. users' = [users EXCEPT ![u] = SecurityChange(b)]
    BY <1>5, <1>6
  <2>2. /\ SecurityChange(b) \in Account
        /\ Later(a, SecurityChange(b)) /\ MfaKept(a, SecurityChange(b))
        /\ Sound(SecurityChange(b))
    BY <1>1, <1>4, SecurityChangeFacts DEF Later, MfaKept, Sound, Account
  <2> QED
    BY <2>1, <2>2, OneMoved DEF a
<1>7. CASE ~(role # a.role \/ password \/ email)
  <2>1. users' = [users EXCEPT ![u] = b]
    BY <1>5, <1>7
  <2>2. Later(a, b) /\ MfaKept(a, b)
    BY <1>1, <1>4 DEF Later, MfaKept
  <2>3. Sound(b)
    BY <1>1, <1>4, <1>7 DEF Sound
  <2> QED
    BY <1>4, <2>1, <2>2, <2>3, OneMoved DEF a
<1> QED
  BY <1>6, <1>7

LEMMA DeleteUserMoved ==
  ASSUME IInv, NEW u \in UserIds, DeleteUser(u) PROVE Moved
<1> DEFINE a == users[u]
           b == [a EXCEPT !.state = "deleted"]
<1>1. a \in Account /\ Sound(a)
  BY SoundAccounts
<1>2. /\ b \in Account
      /\ b.state = "deleted" /\ b.role = a.role /\ b.password = a.password
      /\ b.version = a.version /\ b.changes = a.changes
      /\ b.secret = a.secret /\ b.pending = a.pending /\ b.last = a.last
  BY <1>1 DEF Account
<1>3. users' = [users EXCEPT ![u] = b]
  BY DEF DeleteUser, IInv, TypeOK
<1> HIDE DEF b
<1>4. Later(a, b) /\ MfaKept(a, b) /\ Sound(b)
  BY <1>1, <1>2 DEF Later, MfaKept, Sound
<1> QED
  BY <1>2, <1>3, <1>4, OneMoved

-----------------------------------------------------------------------------
(* What the steps of the accounts keep *)

AllLater ==
  users' \in [UserIds -> Account] /\ \A u \in UserIds : Later(users[u], users'[u])

\* A request or a token of any kind is typed, and so is the account it names.
LEMMA RequestAccount ==
  ASSUME IInv, NEW h \in Handlers, req[h].pc # "idle"
  PROVE  /\ req[h] \in Request
         /\ users[req[h].id] \in Account
         /\ req[h].user.version \in Nat
<1>1. req[h] \in Request
  BY DEF IInv, TypeOK, Idle
<1> QED
  BY <1>1 DEF IInv, TypeOK, Request

LEMMA CopyStays ==
  ASSUME IInv, AllLater, NEW h \in Handlers, req'[h] = req[h],
         req[h].pc \in {"mfa", "issue"}
  PROVE  CopyIsOld(req[h])'
<1>1. req[h] \in Request /\ users[req[h].id] \in Account /\ req[h].user.version \in Nat
  BY RequestAccount
<1>2. CopyIsOld(req[h])
  BY DEF IInv, CopiesAreOld
<1>3. Later(users[req[h].id], users'[req[h].id]) /\ users'[req[h].id] \in Account
  BY <1>1 DEF AllLater, Request
<1> QED
  BY <1>1, <1>2, <1>3 DEF CopyIsOld, Later, Account

LEMMA TokenStays ==
  ASSUME IInv, AllLater, token' = token PROVE TokenIsOld'
<1> SUFFICES ASSUME token # NoToken PROVE TokenIsOld'
  BY DEF TokenIsOld
<1>1. token \in Token
  BY DEF IInv, TypeOK
<1>2. /\ users[token.id] \in Account /\ users'[token.id] \in Account
      /\ Later(users[token.id], users'[token.id])
      /\ token.from \in Nat
  BY <1>1 DEF IInv, TypeOK, AllLater, Token
<1>3. TokenIsOld
  BY DEF IInv
<1>4. token.from <= users'[token.id].version
  BY <1>2, <1>3 DEF TokenIsOld, Later, Account
<1>5. token.from = users'[token.id].version =>
        /\ token.changes = users'[token.id].changes
        /\ ~token.sso /\ users'[token.id].secret # 0 => token.code
  BY <1>2, <1>3 DEF TokenIsOld, Later, Account
<1> QED
  BY <1>2, <1>3, <1>4, <1>5 DEF TokenIsOld, Later

LEMMA MovedKeeps ==
  ASSUME IInv, Moved, UNCHANGED <<secrets, accepted, reused>>
  PROVE  /\ AllLater
         /\ SecretsAreOwn' /\ CodesAreRecorded' /\ CodesAreUsedOnce' /\ VersionZero'
         /\ \A u \in live' : users'[u].secret = 0 <=> users'[u].last = 0
<1>1. AllLater
  BY DEF Moved, AllLater
<1>2. SecretsAreOwn'
  <2>1. secrets \in Nat /\ secrets' = secrets
    BY DEF IInv, TypeOK
  <2>2. ASSUME NEW u \in UserIds, NEW v \in UserIds
        PROVE  /\ users'[u].secret <= secrets /\ users'[u].pending <= secrets
               /\ users'[u].secret # 0 => users'[u].secret # users'[v].pending
               /\ users'[u].secret # 0 /\ users'[u].secret = users'[v].secret => u = v
               /\ users'[u].pending # 0 /\ users'[u].pending = users'[v].pending => u = v
    <3>1. MfaKept(users[u], users'[u]) /\ MfaKept(users[v], users'[v])
      BY DEF Moved
    <3> QED
      BY <2>1, <3>1 DEF IInv, SecretsAreOwn, MfaKept
  <2> QED
    BY <2>1, <2>2 DEF SecretsAreOwn
<1>3. CodesAreRecorded'
  <2> SUFFICES ASSUME NEW p \in accepted, NEW u \in UserIds
               PROVE  /\ 1 <= p[1] /\ p[1] <= secrets
                      /\ p[1] = users'[u].secret => p[2] <= users'[u].last
                      /\ p[1] # users'[u].pending
    BY DEF CodesAreRecorded, IInv
  <2>1. MfaKept(users[u], users'[u])
    BY DEF Moved
  <2>2. p[1] \in Nat
    BY DEF IInv, TypeOK
  <2> QED
    BY <2>1, <2>2 DEF IInv, CodesAreRecorded, MfaKept
<1>4. CodesAreUsedOnce'
  BY DEF IInv, CodesAreUsedOnce
<1>5. VersionZero' /\ \A u \in live' : users'[u].secret = 0 <=> users'[u].last = 0
  BY DEF Moved, VersionZero, Sound, live
<1> QED
  BY <1>1, <1>2, <1>3, <1>4, <1>5

LEMMA StillMoved == ASSUME IInv, users' = users PROVE Moved
<1>1. \A v \in UserIds : Later(users[v], users[v]) /\ MfaKept(users[v], users[v])
  BY DEF Later, MfaKept
<1>2. users \in [UserIds -> Account]
  BY DEF IInv, TypeOK
<1> QED
  BY <1>1, <1>2, SoundAccounts DEF Moved, Sound

-----------------------------------------------------------------------------
(* What a step does to the requests *)

\* Requests change in no other way than that one of them ends, or that one goes
\* on with a copy that is up to date, or with none.
Turn(h) ==
  /\ req' = [req EXCEPT ![h] = req'[h]]
  /\ req'[h] = Idle \/ req'[h] \in Request
  /\ req'[h].pc \in {"mfa", "issue"} => CopyIsOld(req[h])'

LEMMA RequestsStay ==
  ASSUME IInv, AllLater, req' = req \/ \E h \in Handlers : Turn(h)
  PROVE  CopiesAreOld' /\ req' \in [Handlers -> Request \cup {Idle}]
<1>1. CASE req' = req
  BY <1>1, CopyStays DEF CopiesAreOld, IInv, TypeOK
<1>2. CASE \E h \in Handlers : Turn(h)
  <2>1. PICK h \in Handlers : Turn(h)
    BY <1>2
  <2>2. \A g \in Handlers : g # h => req'[g] = req[g]
    BY <2>1 DEF Turn, IInv, TypeOK
  <2>3. req' \in [Handlers -> Request \cup {Idle}]
    BY <2>1 DEF Turn, IInv, TypeOK
  <2>4. CopiesAreOld'
    BY <2>1, <2>2, CopyStays DEF CopiesAreOld, Turn
  <2> QED
    BY <2>3, <2>4
<1> QED
  BY <1>1, <1>2

LEMMA FinishTurn ==
  ASSUME IInv, NEW h \in Handlers, Finish(h) PROVE Turn(h)
<1>1. req'[h] = Idle /\ req' = [req EXCEPT ![h] = req'[h]]
  BY DEF Finish, IInv, TypeOK
<1>2. Idle.pc = "idle"
  BY DEF Idle
<1> QED
  BY <1>1, <1>2 DEF Turn

\* A step that leaves MFA as it is, or turns it off, keeps the invariant.
LEMMA QuietStep ==
  ASSUME IInv, Moved, UNCHANGED <<secrets, accepted, reused>>,
         clock' \in Nat \ {0, 1},
         token' \in Token \cup {NoToken}, token' = token \/ TokenIsOld',
         req' = req \/ \E h \in Handlers : Turn(h)
  PROVE  IInv'
<1>1. /\ AllLater
      /\ SecretsAreOwn' /\ CodesAreRecorded' /\ CodesAreUsedOnce' /\ VersionZero'
      /\ \A u \in live' : users'[u].secret = 0 <=> users'[u].last = 0
  BY MovedKeeps
<1>2. CopiesAreOld' /\ req' \in [Handlers -> Request \cup {Idle}]
  BY <1>1, RequestsStay
<1>3. TokenIsOld'
  BY <1>1, TokenStays
<1>4. TypeOK'
  BY <1>1, <1>2 DEF IInv, TypeOK, Moved
<1> QED
  BY <1>1, <1>2, <1>3, <1>4 DEF IInv

-----------------------------------------------------------------------------
(* The actions *)

LEMMA ServeFacts ==
  ASSUME NEW op \in {"login", "sso", "bootstrap", "update", "delete", "password"},
         NEW pc \in {"mfa", "issue", "create", "count", "apply"},
         NEW u \in UserIds, NEW a \in Account
  PROVE  /\ Serve(op, pc, u, a) \in Request
         /\ Serve(op, pc, u, a).op = op
         /\ Serve(op, pc, u, a).pc = pc
         /\ Serve(op, pc, u, a).id = u
         /\ Serve(op, pc, u, a).user.role = a.role
         /\ Serve(op, pc, u, a).user.version = a.version
<1>1. Copy(a) \in [role : Platform, version : Nat]
  BY DEF Copy, Account
<1>2. Serve(op, pc, u, a) \in Request
  BY <1>1 DEF Serve, Request, Platform
<1>3. /\ Serve(op, pc, u, a).op = op /\ Serve(op, pc, u, a).pc = pc
      /\ Serve(op, pc, u, a).id = u /\ Serve(op, pc, u, a).user = Copy(a)
  BY DEF Serve
<1>4. Copy(a).role = a.role /\ Copy(a).version = a.version
  BY DEF Copy
<1> QED
  BY <1>2, <1>3, <1>4

\* A request with its payload.
LEMMA PayloadFacts ==
  ASSUME NEW r \in Request, NEW role \in Platform, NEW password \in BOOLEAN
  PROVE  /\ [r EXCEPT !.role = role, !.password = password] \in Request
         /\ [r EXCEPT !.role = role, !.password = password].pc = r.pc
  BY DEF Request

\* A request starts: with an up-to-date copy of an account that exists, and
\* with MFA on only when it has to be asked for a code; or for something else.
LEMMA StartTurn ==
  ASSUME IInv, NEW h \in Handlers, NEW r \in Request, Start(h, r),
         r.pc \in {"mfa", "issue"} =>
           /\ users'[r.id].state # "free"
           /\ users'[r.id] \in Account
           /\ r.user.version = users'[r.id].version
           /\ r.user.version = 0 => r.op = "sso" /\ r.user.role = "member"
           /\ r.op # "sso" /\ users'[r.id].secret # 0 => r.pc = "mfa"
  PROVE  Turn(h)
<1>1. req'[h] = r /\ req' = [req EXCEPT ![h] = req'[h]]
  BY DEF Start, IInv, TypeOK
<1> QED
  BY <1>1 DEF Turn, CopyIsOld, Account

LEMMA AuthenticateIInv ==
  ASSUME IInv, NEW h \in Handlers, NEW u \in UserIds, Authenticate(h, u) PROVE IInv'
<1> DEFINE pc == IF users[u].secret # 0 THEN "mfa" ELSE "issue"
           r == Serve("login", pc, u, users[u])
<1>1. users[u] \in Account /\ Sound(users[u]) /\ users[u].state = "live" /\ users[u].password
  BY SoundAccounts DEF Authenticate, live
<1>2. /\ r \in Request /\ r.op = "login" /\ r.pc = pc /\ r.id = u
      /\ r.user.version = users[u].version
  BY <1>1, ServeFacts
<1>3. Start(h, r) /\ users' = users
  BY DEF Authenticate
<1> HIDE DEF r
<1>4. Turn(h)
  BY <1>1, <1>2, <1>3, StartTurn DEF Sound
<1> QED
  BY <1>3, <1>4, StillMoved, QuietStep DEF Authenticate, mfaVars, IInv, TypeOK

LEMMA SSOUserIInv ==
  ASSUME IInv, NEW h \in Handlers, NEW u \in UserIds, SSOUser(h, u) PROVE IInv'
<1> DEFINE r == Serve("sso", "issue", u, users'[u])
<1>1. Moved /\ users'[u].state = "live"
  BY StillMoved, CreateUserMoved DEF SSOUser, live
<1>2. users'[u] \in Account /\ Sound(users[u])'
  BY <1>1 DEF Moved
<1>3. /\ r \in Request /\ r.op = "sso" /\ r.pc = "issue" /\ r.id = u
      /\ r.user.role = users'[u].role /\ r.user.version = users'[u].version
  BY <1>2, ServeFacts
<1>4. Start(h, r)
  BY DEF SSOUser
<1> HIDE DEF r
<1>5. Turn(h)
  BY <1>1, <1>2, <1>3, <1>4, StartTurn DEF Sound
<1> QED
  BY <1>1, <1>5, QuietStep DEF SSOUser, mfaVars, IInv, TypeOK

LEMMA IssueIInv ==
  ASSUME IInv, NEW h \in Handlers, Issue(h) PROVE IInv'
<1> DEFINE r == req[h]
           a == users[r.id]
           t == Issued(r)
<1>1. Moved /\ Turn(h) /\ users' = users
  BY StillMoved, FinishTurn DEF Issue
<1>2. UNCHANGED <<secrets, accepted, reused, clock>> /\ clock' \in Nat \ {0, 1}
  BY DEF Issue, mfaVars, IInv, TypeOK
<1>3. CASE token' = token
  BY <1>1, <1>2, <1>3, QuietStep DEF IInv, TypeOK
<1>4. CASE token' = Issued(r)
  <2>1. r \in Request /\ a \in Account /\ r.user.version \in Nat /\ CopyIsOld(r)
    BY RequestAccount DEF Issue, IInv, CopiesAreOld
  <2>2. /\ nextTokenVersion(r.user.version - 1) \in Nat \ {0}
        /\ nextTokenVersion(r.user.version - 1)
             = IF r.user.version = 0 THEN 1 ELSE r.user.version
    BY <2>1 DEF nextTokenVersion
  <2>3. /\ t \in Token
        /\ t.id = r.id /\ t.role = r.user.role /\ t.changes = a.changes /\ t.code = r.code
        /\ t.sso = (r.op = "sso") /\ t.from = r.user.version
        /\ t.version = IF r.user.version = 0 THEN 1 ELSE r.user.version
    <3>1. r.user.role \in Platform /\ r.id \in UserIds /\ r.code \in BOOLEAN /\ a.changes \in Nat
      BY <2>1 DEF Request, Account
    <3>2. (r.op = "sso") \in BOOLEAN
      OBVIOUS
    <3> QED
      BY <2>1, <2>2, <3>1, <3>2 DEF Issued, Token
  <2>4. r.pc = "issue"
    BY DEF Issue
  <2> HIDE DEF t
  <2>5. /\ a.state # "free" /\ r.user.version <= a.version
        /\ r.user.version = 0 => r.op = "sso" /\ r.user.role = "member"
    BY <2>1 DEF CopyIsOld
  <2>6. t.from = a.version /\ ~t.sso /\ a.secret # 0 => t.code
    BY <2>1, <2>3, <2>4 DEF CopyIsOld
  <2>7. TokenIsOld'
    <3> SUFFICES /\ a.state # "free"
                 /\ t.version = 1 \/ (t.from # 0 /\ t.version = t.from)
                 /\ t.from <= a.version
                 /\ t.from = 0 => t.sso /\ t.role = "member"
                 /\ t.from = a.version =>
                      /\ t.changes = a.changes
                      /\ ~t.sso /\ a.secret # 0 => t.code
      BY <1>1, <1>4, <2>3 DEF TokenIsOld, t
    <3> QED
      BY <2>3, <2>5, <2>6
  <2> QED
    BY <1>1, <1>2, <1>4, <2>3, <2>7, QuietStep DEF t
<1> QED
  BY <1>3, <1>4 DEF Issue

\* A code or a token of version 1 in the place of a token or a code keeps what the
\* sign-in knew.
LEMMA StudioIInv ==
  ASSUME IInv, StudioSession \/ StudioVerify PROVE IInv'
<1>1. token \in Token /\ TokenIsOld /\ token # NoToken
  BY DEF StudioSession, StudioVerify, Current, IInv, TypeOK
<1>2. Moved /\ UNCHANGED <<users, req, clock, secrets, accepted, reused>>
  BY StillMoved DEF StudioSession, StudioVerify, mfaVars
<1>3. nextTokenVersion(0 - 1) = 1
  BY DEF nextTokenVersion
<1>4. /\ token' \in Token
      /\ token'.version = 1 \/ token'.version = token.version
      /\ token'.id = token.id /\ token'.role = token.role /\ token'.from = token.from
      /\ token'.changes = token.changes /\ token'.code = token.code /\ token'.sso = token.sso
  <2>1. CASE StudioSession
    BY <1>1, <2>1 DEF StudioSession, Token
  <2>2. CASE StudioVerify
    <3>1. token' = [token EXCEPT !.studio = FALSE, !.version = 1]
      BY <1>3, <2>2 DEF StudioVerify
    <3>2. \A n \in Nat \ {0} : \A q \in BOOLEAN :
            [token EXCEPT !.studio = q, !.version = n] \in Token
      BY <1>1 DEF Token
    <3>3. 1 \in Nat \ {0} /\ FALSE \in BOOLEAN
      OBVIOUS
    <3>4. token' \in Token
      BY <3>1, <3>2, <3>3
    <3>5. /\ token'.version = 1
          /\ token'.id = token.id /\ token'.role = token.role /\ token'.from = token.from
          /\ token'.changes = token.changes /\ token'.code = token.code
          /\ token'.sso = token.sso
      BY <1>1, <3>1 DEF Token
    <3> QED
      BY <3>4, <3>5
  <2> QED
    BY <2>1, <2>2
<1>5. TokenIsOld'
  BY <1>1, <1>2, <1>4 DEF TokenIsOld
<1>6. clock' \in Nat \ {0, 1}
  BY <1>2 DEF IInv, TypeOK
<1> QED
  BY <1>2, <1>4, <1>5, <1>6, QuietStep

LEMMA BootstrapIInv ==
  ASSUME IInv, NEW h \in Handlers, NEW u \in UserIds, Bootstrap(h, u) PROVE IInv'
<1> DEFINE r == Serve("bootstrap", "create", u, NoAccount)
<1>0. NoAccount \in Account
  BY NewAccountFacts
<1>1. r \in Request /\ r.pc = "create"
  BY <1>0, ServeFacts
<1>2. Start(h, r) /\ users' = users
  BY DEF Bootstrap
<1> HIDE DEF r
<1>3. Turn(h)
  BY <1>1, <1>2, StartTurn
<1> QED
  BY <1>2, <1>3, StillMoved, QuietStep DEF Bootstrap, mfaVars, IInv, TypeOK

LEMMA BootstrapCreateIInv ==
  ASSUME IInv, NEW h \in Handlers, BootstrapCreate(h) PROVE IInv'
<1> DEFINE u == req[h].id
<1>1. req[h] \in Request /\ u \in UserIds /\ req[h].op = "bootstrap"
  BY RequestAccount DEF BootstrapCreate, at, Request
<1>2. CASE Finish(h) /\ UNCHANGED users
  BY <1>2, FinishTurn, StillMoved, QuietStep DEF BootstrapCreate, mfaVars, IInv, TypeOK
<1>3. CASE /\ CreateUser(u, "admin")
           /\ req' = [req EXCEPT ![h] = [@ EXCEPT !.pc = "issue", !.user = Copy(users'[u])]]
  <2>1. Moved /\ users'[u].state = "live" /\ users'[u].version = 1 /\ users'[u].secret = 0
    BY <1>1, <1>3, CreateUserMoved DEF Platform
  <2>2. users'[u] \in Account
    BY <1>1, <2>1 DEF Moved
  <2>3. /\ Copy(users'[u]) \in [role : Platform, version : Nat]
        /\ Copy(users'[u]).version = 1
    BY <2>1, <2>2 DEF Copy, Account
  <2>4. req'[h] = [req[h] EXCEPT !.pc = "issue", !.user = Copy(users'[u])]
    BY <1>3 DEF IInv, TypeOK
  <2>5. /\ req'[h] \in Request
        /\ req'[h].pc = "issue" /\ req'[h].user = Copy(users'[u])
        /\ req'[h].id = u /\ req'[h].op = "bootstrap"
    BY <1>1, <2>3, <2>4 DEF Request
  <2>6. Turn(h)
    <3>1. req' = [req EXCEPT ![h] = req'[h]]
      BY <1>3, <2>4
    <3>2. CopyIsOld(req[h])'
      BY <2>1, <2>3, <2>5 DEF CopyIsOld
    <3> QED
      BY <2>5, <3>1, <3>2 DEF Turn
  <2> QED
    BY <2>1, <2>6, QuietStep DEF BootstrapCreate, mfaVars, IInv, TypeOK
<1> QED
  BY <1>2, <1>3 DEF BootstrapCreate

\* The handlers of administrators and of an account's owner read their target.
LEMMA ReadIInv ==
  ASSUME IInv, NEW h \in Handlers, NEW u \in UserIds, NEW role \in Platform,
         NEW password \in BOOLEAN,
         \/ ReadTarget(h, "update", u, role, password)
         \/ ReadTarget(h, "delete", u, role, password)
         \/ ReadOwnAccount(h, u)
  PROVE  IInv'
<1>0. NoAccount \in Account /\ users[u].role \in Platform
  BY NewAccountFacts, SoundAccounts DEF Account
<1>1. ASSUME NEW op \in {"update", "delete", "password"}, NEW pc \in {"count", "apply"},
             NEW r \in Platform, NEW q \in BOOLEAN,
             Start(h, [Serve(op, pc, u, NoAccount) EXCEPT !.role = r, !.password = q])
      PROVE  Turn(h)
  <2> DEFINE s == [Serve(op, pc, u, NoAccount) EXCEPT !.role = r, !.password = q]
  <2>1. Serve(op, pc, u, NoAccount) \in Request /\ Serve(op, pc, u, NoAccount).pc = pc
    BY <1>0, ServeFacts
  <2>2. s \in Request /\ s.pc = pc
    BY <2>1, PayloadFacts
  <2>3. Start(h, s)
    BY <1>1
  <2> HIDE DEF s
  <2> QED
    BY <2>2, <2>3, StartTurn
<1>2. Turn(h) /\ users' = users
  BY <1>0, <1>1 DEF ReadTarget, ReadOwnAccount
<1> QED
  BY <1>2, StillMoved, QuietStep DEF ReadTarget, ReadOwnAccount, mfaVars, IInv, TypeOK

LEMMA CountAdminsIInv ==
  ASSUME IInv, NEW h \in Handlers, CountAdmins(h) PROVE IInv'
<1>1. Turn(h)
  <2>1. CASE Finish(h)
    BY <2>1, FinishTurn
  <2>2. CASE req' = [req EXCEPT ![h].pc = "apply"]
    <3>1. req[h] \in Request
      BY RequestAccount DEF CountAdmins
    <3>2. req'[h] = [req[h] EXCEPT !.pc = "apply"] /\ req' = [req EXCEPT ![h] = req'[h]]
      BY <2>2 DEF IInv, TypeOK
    <3>3. req'[h] \in Request /\ req'[h].pc = "apply"
      BY <3>1, <3>2 DEF Request
    <3> QED
      BY <3>2, <3>3 DEF Turn
  <2> QED
    BY <2>1, <2>2 DEF CountAdmins
<1> QED
  BY <1>1, StillMoved, QuietStep DEF CountAdmins, mfaVars, IInv, TypeOK

LEMMA ApplyIInv ==
  ASSUME IInv, NEW h \in Handlers, ApplyUpdate(h) \/ ApplyDelete(h) PROVE IInv'
<1>1. req[h] \in Request
  BY RequestAccount DEF ApplyUpdate, ApplyDelete, at
<1>2. req[h].id \in UserIds /\ req[h].role \in Platform /\ req[h].password \in BOOLEAN
  BY <1>1 DEF Request
<1>3. Moved
  BY <1>2, UpdateUserMoved, DeleteUserMoved, StillMoved DEF ApplyUpdate, ApplyDelete
<1>4. Turn(h)
  BY FinishTurn DEF ApplyUpdate, ApplyDelete
<1> QED
  BY <1>3, <1>4, QuietStep DEF ApplyUpdate, ApplyDelete, mfaVars, IInv, TypeOK

\* Steps of the accounts alone, and of the clock.
LEMMA AloneIInv ==
  ASSUME IInv,
         \/ \E u \in UserIds : InviteUser(u)
         \/ \E u \in UserIds, r \in Platform : AdminCreateUser(u, r)
         \/ \E u \in UserIds, r \in Platform, e \in BOOLEAN : ScimUpdate(u, r, e)
         \/ \E u \in UserIds : ScimDelete(u)
         \/ Tick
  PROVE  IInv'
<1>1. Moved
  <2>1. CASE \E u \in UserIds : InviteUser(u)
    BY <2>1, InviteUserMoved
  <2>2. CASE \E u \in UserIds, r \in Platform : AdminCreateUser(u, r)
    BY <2>2, CreateUserMoved DEF AdminCreateUser
  <2>3. CASE \E u \in UserIds, r \in Platform, e \in BOOLEAN : ScimUpdate(u, r, e)
    BY <2>3, UpdateUserMoved DEF ScimUpdate
  <2>4. CASE \E u \in UserIds : ScimDelete(u)
    BY <2>4, DeleteUserMoved DEF ScimDelete
  <2>5. CASE Tick
    BY <2>5, StillMoved DEF Tick
  <2> QED
    BY <2>1, <2>2, <2>3, <2>4, <2>5
<1>2. clock' \in Nat \ {0, 1}
  <2>1. clock \in Nat \ {0, 1}
    BY DEF IInv, TypeOK
  <2>2. clock' \in {clock, clock + 1}
    BY DEF InviteUser, AdminCreateUser, ScimUpdate, ScimDelete, Tick, mfaVars
  <2> QED
    BY <2>1, <2>2
<1>3. UNCHANGED <<req, token, secrets, accepted, reused>>
  BY DEF InviteUser, AdminCreateUser, ScimUpdate, ScimDelete, Tick, mfaVars
<1>4. token' \in Token \cup {NoToken}
  BY <1>3 DEF IInv, TypeOK
<1> QED
  BY <1>1, <1>2, <1>3, <1>4, QuietStep

-----------------------------------------------------------------------------
(* The actions of MFA *)

\* One account changes: what has to be shown of it.
LEMMA OneMfa ==
  ASSUME IInv, NEW u \in UserIds, NEW b \in Account, users' = [users EXCEPT ![u] = b],
         Later(users[u], b), Sound(b),
         secrets' \in Nat, accepted' \subseteq Nat \X Nat, reused' = FALSE,
         SecretsAreOwn', CodesAreRecorded',
         UNCHANGED <<clock, token>>,
         req' = req \/ \E h \in Handlers : Turn(h)
  PROVE  IInv'
<1>1. /\ users' \in [UserIds -> Account]
      /\ users'[u] = b
      /\ \A v \in UserIds : v # u => users'[v] = users[v]
  BY OneAccount DEF IInv, TypeOK
<1>2. AllLater
  <2>1. \A v \in UserIds : Later(users[v], users[v])
    BY DEF Later
  <2> QED
    BY <1>1, <2>1 DEF AllLater
<1>3. \A v \in UserIds : Sound(users[v])'
  BY <1>1, SoundAccounts DEF Sound
<1>4. CopiesAreOld' /\ req' \in [Handlers -> Request \cup {Idle}] /\ TokenIsOld'
  BY <1>2, RequestsStay, TokenStays
<1>5. VersionZero' /\ \A v \in live' : users'[v].secret = 0 <=> users'[v].last = 0
  BY <1>3 DEF VersionZero, Sound, live
<1>6. TypeOK'
  BY <1>1, <1>4, <1>5 DEF IInv, TypeOK
<1> QED
  BY <1>4, <1>5, <1>6 DEF IInv, CodesAreUsedOnce

\* A counter that a code may be of is not 0.
LEMMA CounterFacts ==
  ASSUME IInv, NEW counter \in Counters PROVE counter \in Nat /\ counter # 0
<1>1. clock \in Nat \ {0, 1}
  BY DEF IInv, TypeOK
<1> QED
  BY <1>1 DEF Counters

LEMMA BeginEnrollmentIInv ==
  ASSUME IInv, NEW u \in UserIds, BeginUserMFAEnrollment(u) PROVE IInv'
<1> DEFINE a == users[u]
           b == [a EXCEPT !.pending = secrets + 1]
<1>1. a \in Account /\ Sound(a) /\ secrets \in Nat /\ accepted \subseteq Nat \X Nat
  BY SoundAccounts DEF IInv, TypeOK
<1>2. secrets + 1 \in Nat /\ secrets' = secrets + 1 /\ UNCHANGED <<req, token, clock, accepted, reused>>
  BY <1>1 DEF BeginUserMFAEnrollment
<1>3. \A n \in Nat : [a EXCEPT !.pending = n] \in Account
  BY <1>1 DEF Account
<1>4. /\ b \in Account
      /\ b.pending = secrets + 1 /\ b.secret = a.secret /\ b.last = a.last
      /\ b.state = a.state /\ b.version = a.version /\ b.changes = a.changes
      /\ b.role = a.role /\ b.password = a.password
  BY <1>1, <1>2, <1>3 DEF Account
<1>5. users' = [users EXCEPT ![u] = b]
  BY DEF BeginUserMFAEnrollment, IInv, TypeOK
<1> HIDE DEF b
<1>6. users'[u] = b /\ \A v \in UserIds : v # u => users'[v] = users[v]
  BY <1>4, <1>5, OneAccount DEF IInv, TypeOK
<1>7. \A v \in UserIds : users[v].secret \in Nat /\ users[v].pending \in Nat
  BY SoundAccounts DEF Account
<1>8. SecretsAreOwn'
  <2> SUFFICES ASSUME NEW v \in UserIds, NEW w \in UserIds
               PROVE  /\ users'[v].secret <= secrets' /\ users'[v].pending <= secrets'
                      /\ users'[v].secret # 0 => users'[v].secret # users'[w].pending
                      /\ users'[v].secret # 0 /\ users'[v].secret = users'[w].secret => v = w
                      /\ users'[v].pending # 0 /\ users'[v].pending = users'[w].pending => v = w
    BY DEF SecretsAreOwn
  <2>1. \A x \in {v, w} : /\ users'[x].secret = users[x].secret
                          /\ users'[x].pending = IF x = u THEN secrets + 1 ELSE users[x].pending
                          /\ users[x].secret <= secrets /\ users[x].pending <= secrets
    BY <1>4, <1>6 DEF IInv, SecretsAreOwn
  <2>2. users[v].secret # 0 => users[v].secret # users[w].pending
    BY DEF IInv, SecretsAreOwn
  <2>3. users[v].secret # 0 /\ users[v].secret = users[w].secret => v = w
    BY DEF IInv, SecretsAreOwn
  <2>4. users[v].pending # 0 /\ users[v].pending = users[w].pending => v = w
    BY DEF IInv, SecretsAreOwn
  <2> QED
    BY <1>1, <1>2, <1>7, <2>1, <2>2, <2>3, <2>4
<1>9. CodesAreRecorded'
  <2> SUFFICES ASSUME NEW p \in accepted, NEW v \in UserIds
               PROVE  /\ 1 <= p[1] /\ p[1] <= secrets + 1
                      /\ p[1] = users'[v].secret => p[2] <= users'[v].last
                      /\ p[1] # users'[v].pending
    BY <1>2 DEF CodesAreRecorded, IInv
  <2>1. p[1] \in Nat
    BY <1>1
  <2> QED
    BY <1>1, <1>4, <1>6, <2>1 DEF IInv, CodesAreRecorded
<1>10. Later(a, b) /\ Sound(b)
  BY <1>1, <1>4 DEF Later, Sound
<1> QED
  BY <1>1, <1>2, <1>4, <1>5, <1>8, <1>9, <1>10, OneMfa DEF IInv, CodesAreUsedOnce, TypeOK

\* What a code is accepted for: a secret that its user confirms, or that is on
\* when the counter is later than the last one.
LEMMA Fresh ==
  ASSUME IInv, NEW u \in UserIds, NEW counter \in Counters, NEW s,
         \/ s = users[u].pending /\ s # 0
         \/ s = users[u].secret /\ s # 0 /\ counter > users[u].last,
         Accept(s, counter)
  PROVE  /\ accepted' = accepted \cup {<<s, counter>>}
         /\ s \in Nat /\ 1 <= s /\ s <= secrets
         /\ reused' = FALSE
         /\ accepted' \subseteq Nat \X Nat
<1>1. users[u] \in Account /\ counter \in Nat
  BY SoundAccounts, CounterFacts
<1>2. s \in Nat /\ 1 <= s /\ s <= secrets
  BY <1>1 DEF Account, IInv, SecretsAreOwn
<1>3. <<s, counter>> \notin accepted
  <2> SUFFICES ASSUME <<s, counter>> \in accepted PROVE FALSE
    OBVIOUS
  <2>1. /\ s = users[u].secret => counter <= users[u].last
        /\ s # users[u].pending
    BY DEF IInv, CodesAreRecorded
  <2> QED
    BY <1>1, <2>1 DEF Account
<1>4. reused' = FALSE
  BY <1>3 DEF Accept, IInv, TypeOK, CodesAreUsedOnce
<1>5. accepted' \subseteq Nat \X Nat
  BY <1>1, <1>2 DEF Accept, IInv, TypeOK
<1> QED
  BY <1>2, <1>4, <1>5 DEF Accept

\* A code of a secret of u has been accepted; afterwards u has that secret, with
\* this counter, or no secret at all.
LEMMA AcceptedKeeps ==
  ASSUME IInv, NEW u \in UserIds, NEW counter \in Counters, NEW s \in Nat,
         s = users[u].pending \/ s = users[u].secret,
         s = users[u].secret => counter > users[u].last,
         1 <= s, s <= secrets, secrets' = secrets,
         accepted' = accepted \cup {<<s, counter>>},
         NEW b \in Account, users' = [users EXCEPT ![u] = b],
         \/ b.secret = s /\ b.last = counter /\ b.pending \in {0, users[u].pending} \ {s}
         \/ b.secret = 0 /\ b.last = 0 /\ b.pending = 0
  PROVE  SecretsAreOwn' /\ CodesAreRecorded'
<1>1. users'[u] = b /\ \A v \in UserIds : v # u => users'[v] = users[v]
  BY OneAccount DEF IInv, TypeOK
<1>2. counter \in Nat /\ secrets \in Nat /\ accepted \subseteq Nat \X Nat
  BY CounterFacts DEF IInv, TypeOK
<1>3. \A v \in UserIds : users[v].secret \in Nat /\ users[v].pending \in Nat /\ users[v].last \in Nat
  BY SoundAccounts DEF Account
<1>4. SecretsAreOwn'
  <2> SUFFICES ASSUME NEW v \in UserIds, NEW w \in UserIds
               PROVE  /\ users'[v].secret <= secrets' /\ users'[v].pending <= secrets'
                      /\ users'[v].secret # 0 => users'[v].secret # users'[w].pending
                      /\ users'[v].secret # 0 /\ users'[v].secret = users'[w].secret => v = w
                      /\ users'[v].pending # 0 /\ users'[v].pending = users'[w].pending => v = w
    BY DEF SecretsAreOwn
  <2>1. \A x, y \in UserIds :
          /\ users[x].secret <= secrets /\ users[x].pending <= secrets
          /\ users[x].secret # 0 => users[x].secret # users[y].pending
          /\ users[x].secret # 0 /\ users[x].secret = users[y].secret => x = y
          /\ users[x].pending # 0 /\ users[x].pending = users[y].pending => x = y
    BY DEF IInv, SecretsAreOwn
  <2>2. CASE v = u /\ w = u
    BY <1>1, <1>2, <1>3, <2>1, <2>2
  <2>3. CASE v = u /\ w # u
    BY <1>1, <1>2, <1>3, <2>1, <2>3
  <2>4. CASE v # u /\ w = u
    BY <1>1, <1>2, <1>3, <2>1, <2>4
  <2>5. CASE v # u /\ w # u
    BY <1>1, <2>1, <2>5
  <2> QED
    BY <2>2, <2>3, <2>4, <2>5
<1>5. CodesAreRecorded'
  <2>1. ASSUME NEW p \in accepted', NEW v \in UserIds
        PROVE  /\ 1 <= p[1] /\ p[1] <= secrets
               /\ p[1] = users'[v].secret => p[2] <= users'[v].last
               /\ p[1] # users'[v].pending
    <3>1. CASE p \in accepted
      <4>1. /\ p[1] \in Nat /\ p[2] \in Nat /\ 1 <= p[1] /\ p[1] <= secrets
            /\ \A x \in UserIds : /\ p[1] = users[x].secret => p[2] <= users[x].last
                                  /\ p[1] # users[x].pending
        BY <1>2, <3>1 DEF IInv, CodesAreRecorded
      <4>2. CASE v # u
        BY <1>1, <4>1, <4>2
      <4>3. CASE v = u
        BY <1>1, <1>2, <1>3, <4>1, <4>3
      <4> QED
        BY <4>2, <4>3
    <3>2. CASE p = <<s, counter>>
      <4>1. p[1] = s /\ p[2] = counter
        BY <3>2
      <4>2. v # u => s # users[v].secret /\ s # users[v].pending
        BY <1>3 DEF IInv, SecretsAreOwn
      <4> QED
        BY <1>1, <1>2, <4>1, <4>2
    <3> QED
      BY <3>1, <3>2
  <2>2. ASSUME NEW p \in accepted' PROVE 1 <= p[1] /\ p[1] <= secrets
    BY <2>1
  <2> QED
    BY <2>1, <2>2 DEF CodesAreRecorded
<1> QED
  BY <1>4, <1>5

\* An account with another secret, and the same after a security change.
LEMMA MfaAccount ==
  ASSUME NEW a \in Account, NEW s \in Nat, NEW l \in Nat
  PROVE  LET c == [a EXCEPT !.secret = s, !.pending = 0, !.last = l]
             b == SecurityChange(c)
         IN  /\ b \in Account
             /\ b.secret = s /\ b.pending = 0 /\ b.last = l
             /\ b.state = a.state /\ b.role = a.role /\ b.password = a.password
             /\ b.version > a.version
<1> DEFINE c == [a EXCEPT !.secret = s, !.pending = 0, !.last = l]
<1>1. /\ c \in Account
      /\ c.secret = s /\ c.pending = 0 /\ c.last = l
      /\ c.state = a.state /\ c.role = a.role /\ c.password = a.password
      /\ c.version = a.version
  BY DEF Account
<1> HIDE DEF c
<1>2. LET b == SecurityChange(c)
      IN  /\ b \in Account
          /\ b.secret = s /\ b.pending = 0 /\ b.last = l
          /\ b.state = a.state /\ b.role = a.role /\ b.password = a.password
          /\ b.version > a.version
  BY <1>1, SecurityChangeFacts
<1> QED
  BY <1>2 DEF c

LEMMA ConfirmIInv ==
  ASSUME IInv, NEW u \in UserIds, NEW counter \in Counters, ConfirmUserMFA(u, counter)
  PROVE  IInv'
<1> DEFINE a == users[u]
           s == a.pending
           b == SecurityChange([a EXCEPT !.secret = s, !.pending = 0, !.last = counter])
<1>1. /\ a \in Account /\ Sound(a) /\ counter \in Nat /\ counter # 0
      /\ s \in Nat /\ s # 0 /\ a.version \in Nat
  BY SoundAccounts, CounterFacts DEF ConfirmUserMFA, Account
<1>2. /\ b \in Account
      /\ b.secret = s /\ b.pending = 0 /\ b.last = counter
      /\ b.state = a.state /\ b.role = a.role /\ b.password = a.password
      /\ b.version > a.version
  BY <1>1, MfaAccount
<1>3. users' = [users EXCEPT ![u] = b] /\ UNCHANGED <<req, token, clock, secrets>>
  BY DEF ConfirmUserMFA
<1> HIDE DEF b
<1>4. /\ accepted' = accepted \cup {<<s, counter>>}
      /\ 1 <= s /\ s <= secrets /\ reused' = FALSE
      /\ accepted' \subseteq Nat \X Nat
  BY <1>1, Fresh DEF ConfirmUserMFA
<1>5. s # a.secret
  BY <1>1 DEF IInv, SecretsAreOwn
<1>6. SecretsAreOwn' /\ CodesAreRecorded'
  BY <1>1, <1>2, <1>3, <1>4, <1>5, AcceptedKeeps
<1>7. Later(a, b) /\ Sound(b)
  BY <1>1, <1>2 DEF Later, Sound, Account
<1>8. secrets' \in Nat
  BY <1>3 DEF IInv, TypeOK
<1> QED
  BY <1>2, <1>3, <1>4, <1>6, <1>7, <1>8, OneMfa

LEMMA DisableIInv ==
  ASSUME IInv, NEW u \in UserIds, NEW counter \in Counters, DisableUserMFA(u, counter)
  PROVE  IInv'
<1> DEFINE a == users[u]
           b == SecurityChange([a EXCEPT !.secret = 0, !.pending = 0, !.last = 0])
<1>1. a \in Account /\ Sound(a) /\ a.version \in Nat /\ a.secret \in Nat
  BY SoundAccounts DEF Account
<1>2. /\ b \in Account
      /\ b.secret = 0 /\ b.pending = 0 /\ b.last = 0
      /\ b.state = a.state /\ b.role = a.role /\ b.password = a.password
      /\ b.version > a.version
  BY <1>1, MfaAccount
<1>3. users' = [users EXCEPT ![u] = b] /\ UNCHANGED <<req, token, clock, secrets>>
  BY DEF DisableUserMFA
<1> HIDE DEF b
<1>4. Later(a, b) /\ Sound(b) /\ MfaKept(a, b)
  BY <1>1, <1>2 DEF Later, Sound, MfaKept, Account
<1>5. CASE UNCHANGED <<accepted, reused>>
  <2>1. Moved
    BY <1>2, <1>3, <1>4, OneMoved
  <2> QED
    BY <1>3, <1>5, <2>1, QuietStep DEF IInv, TypeOK
<1>6. CASE /\ a.secret # 0
           /\ counter > a.last
           /\ Accept(a.secret, counter)
  <2>1. /\ accepted' = accepted \cup {<<a.secret, counter>>}
        /\ 1 <= a.secret /\ a.secret <= secrets /\ reused' = FALSE
        /\ accepted' \subseteq Nat \X Nat
    BY <1>6, Fresh
  <2>2. SecretsAreOwn' /\ CodesAreRecorded'
    BY <1>1, <1>2, <1>3, <1>6, <2>1, AcceptedKeeps
  <2>3. secrets' \in Nat
    BY <1>3 DEF IInv, TypeOK
  <2> QED
    BY <1>2, <1>3, <1>4, <2>1, <2>2, <2>3, OneMfa
<1> QED
  BY <1>5, <1>6 DEF DisableUserMFA

LEMMA VerifyIInv ==
  ASSUME IInv, NEW h \in Handlers, NEW counter \in Counters, VerifyUserMFA(h, counter)
  PROVE  IInv'
<1> DEFINE u == req[h].id
           a == users[u]
           b == [a EXCEPT !.last = counter]
<1>1. /\ req[h] \in Request /\ u \in UserIds /\ req[h].op = "login"
      /\ a \in Account /\ CopyIsOld(req[h])
  BY RequestAccount DEF VerifyUserMFA, at, Request, IInv, CopiesAreOld
<1>2. CASE Finish(h) /\ UNCHANGED <<users, accepted, reused>>
  <2>1. Moved /\ Turn(h)
    BY <1>2, StillMoved, FinishTurn
  <2> QED
    BY <1>2, <2>1, QuietStep DEF VerifyUserMFA, IInv, TypeOK
<1>3. CASE /\ u \in live /\ a.secret # 0
           /\ counter > a.last
           /\ Accept(a.secret, counter)
           /\ users' = [users EXCEPT ![u].last = counter]
           /\ req' = [req EXCEPT ![h] = [@ EXCEPT !.pc = "issue", !.user = Copy(users'[u]),
                                                  !.code = TRUE]]
  <2>1. /\ counter \in Nat /\ counter # 0 /\ Sound(a)
        /\ a.secret \in Nat /\ a.pending \in Nat /\ a.version \in Nat
    BY <1>1, CounterFacts, SoundAccounts DEF Account
  <2>2. /\ b \in Account
        /\ b.secret = a.secret /\ b.pending = a.pending /\ b.last = counter
        /\ b.state = a.state /\ b.role = a.role /\ b.password = a.password
        /\ b.version = a.version /\ b.changes = a.changes
    BY <1>1, <2>1 DEF Account
  <2>3. users' = [users EXCEPT ![u] = b] /\ UNCHANGED <<token, clock, secrets>>
    BY <1>3 DEF VerifyUserMFA, IInv, TypeOK
  <2>4. /\ accepted' = accepted \cup {<<a.secret, counter>>}
        /\ 1 <= a.secret /\ a.secret <= secrets /\ reused' = FALSE
        /\ accepted' \subseteq Nat \X Nat
    BY <1>1, <1>3, Fresh
  <2>5. a.secret # a.pending
    BY <1>1, <1>3 DEF IInv, SecretsAreOwn
  <2> HIDE DEF b
  <2>6. SecretsAreOwn' /\ CodesAreRecorded'
    <3>1. counter > a.last /\ a.secret # 0
      BY <1>3
    <3>2. b.secret = a.secret /\ b.last = counter /\ b.pending \in {0, a.pending} \ {a.secret}
      BY <2>2, <2>5
    <3> QED
      BY <1>1, <2>1, <2>2, <2>3, <2>4, <3>1, <3>2, AcceptedKeeps
  <2>7. Later(a, b) /\ Sound(b)
    BY <1>3, <2>1, <2>2 DEF Later, Sound
  <2>8. users'[u] = b
    BY <1>1, <2>2, <2>3, OneAccount DEF IInv, TypeOK
  <2>9. Turn(h)
    <3>1. /\ Copy(b) \in [role : Platform, version : Nat]
          /\ Copy(b).version = a.version
      BY <2>2 DEF Copy, Account
    <3>2. /\ req'[h] = [req[h] EXCEPT !.pc = "issue", !.user = Copy(b), !.code = TRUE]
          /\ req' = [req EXCEPT ![h] = req'[h]]
      <4> DEFINE r == [req[h] EXCEPT !.pc = "issue", !.user = Copy(b), !.code = TRUE]
      <4>1. req' = [req EXCEPT ![h] = r]
        BY <1>3, <2>8
      <4> HIDE DEF r
      <4>2. req'[h] = r
        BY <4>1 DEF IInv, TypeOK
      <4> QED
        BY <4>1, <4>2 DEF r
    <3>3. /\ req'[h] \in Request
          /\ req'[h].pc = "issue" /\ req'[h].user = Copy(b) /\ req'[h].code = TRUE
          /\ req'[h].id = u /\ req'[h].op = "login"
      BY <1>1, <3>1, <3>2 DEF Request
    <3>4. a.version # 0
      <4>1. req[h].user.version \in Nat /\ req[h].user.version # 0
        BY <1>1, RequestAccount DEF CopyIsOld, Request
      <4> QED
        BY <1>1, <2>1, <4>1 DEF CopyIsOld
    <3>5. b.state # "free"
      BY <1>1, <2>2 DEF CopyIsOld
    <3>6. CopyIsOld(req[h])'
      BY <2>1, <2>2, <2>8, <3>1, <3>3, <3>4, <3>5 DEF CopyIsOld
    <3> QED
      BY <3>2, <3>3, <3>6 DEF Turn
  <2>10. secrets' \in Nat
    BY <2>3 DEF IInv, TypeOK
  <2> QED
    BY <1>1, <2>2, <2>3, <2>4, <2>6, <2>7, <2>9, <2>10, OneMfa
<1> QED
  BY <1>2, <1>3 DEF VerifyUserMFA

-----------------------------------------------------------------------------
(* Theorems *)

LEMMA InitIInv == Init => IInv
<1> SUFFICES ASSUME Init PROVE IInv
  OBVIOUS
<1>1. \A u \in UserIds : users[u] = NoAccount
  BY DEF Init
<1>2. NoAccount \in Account
  BY NewAccountFacts
<1>3. \A h \in Handlers : req[h].pc = "idle"
  BY DEF Init, Idle
<1>4. TypeOK
  <2>1. users \in [UserIds -> Account] /\ req \in [Handlers -> Request \cup {Idle}]
    BY <1>2 DEF Init
  <2>2. \A u \in live : users[u].secret = 0 <=> users[u].last = 0
    BY <1>1 DEF live, NoAccount
  <2>3. clock \in Nat \ {0, 1} /\ secrets \in Nat /\ accepted \subseteq Nat \X Nat
    BY DEF Init
  <2>4. token \in Token \cup {NoToken} /\ reused \in BOOLEAN
    BY DEF Init
  <2> QED
    BY <2>1, <2>2, <2>3, <2>4 DEF TypeOK
<1>5. SecretsAreOwn /\ VersionZero
  BY <1>1 DEF Init, SecretsAreOwn, VersionZero, NoAccount
<1>6. CodesAreRecorded /\ CodesAreUsedOnce /\ CopiesAreOld /\ TokenIsOld
  BY <1>3 DEF Init, CodesAreRecorded, CodesAreUsedOnce, CopiesAreOld, TokenIsOld
<1> QED
  BY <1>4, <1>5, <1>6 DEF IInv

LEMMA NextIInv == IInv /\ [Next]_vars => IInv'
<1> SUFFICES ASSUME IInv, [Next]_vars PROVE IInv'
  OBVIOUS
<1>1. CASE UNCHANGED vars
  <2>1. UNCHANGED <<users, req, token, clock, secrets, accepted, reused>>
    BY <1>1 DEF vars
  <2> QED
    BY <2>1, StillMoved, QuietStep DEF IInv, TypeOK
<1>2. CASE \E u \in UserIds : BeginUserMFAEnrollment(u)
  BY <1>2, BeginEnrollmentIInv
<1>3. CASE \E u \in UserIds, c \in Counters : ConfirmUserMFA(u, c) \/ DisableUserMFA(u, c)
  BY <1>3, ConfirmIInv, DisableIInv
<1>4. CASE \E h \in Handlers, c \in Counters : VerifyUserMFA(h, c)
  BY <1>4, VerifyIInv
<1>5. CASE \E h \in Handlers, u \in UserIds :
             Authenticate(h, u) \/ SSOUser(h, u) \/ Bootstrap(h, u)
  BY <1>5, AuthenticateIInv, SSOUserIInv, BootstrapIInv
<1>6. CASE \E h \in Handlers : \/ Issue(h) \/ BootstrapCreate(h) \/ CountAdmins(h)
                               \/ ApplyUpdate(h) \/ ApplyDelete(h)
  BY <1>6, IssueIInv, BootstrapCreateIInv, CountAdminsIInv, ApplyIInv
<1>7. CASE \E h \in Handlers, u \in UserIds, r \in Platform, p \in BOOLEAN :
             \/ ReadTarget(h, "update", u, r, p)
             \/ ReadTarget(h, "delete", u, r, p)
             \/ ReadOwnAccount(h, u)
  BY <1>7, ReadIInv
<1>8. CASE StudioSession \/ StudioVerify
  BY <1>8, StudioIInv
<1>9. "member" \in Platform /\ FALSE \in BOOLEAN
  BY DEF Platform
<1> QED
  BY <1>1, <1>2, <1>3, <1>4, <1>5, <1>6, <1>7, <1>8, <1>9, AloneIInv DEF Next

\* The invariant holds in every state.
LEMMA Invariance == Spec => []IInv
  BY InitIInv, NextIInv, PTL DEF Spec

\* The accounts, what a request in flight carries, and the codes accepted so far
\* have their types in every reachable state.
THEOREM TypeCorrect == Spec => []TypeOK
<1>1. IInv => TypeOK
  BY DEF IInv
<1> QED
  BY <1>1, Invariance, PTL

\* No code is accepted twice: not by two logins, nor by a login and by
\* ConfirmUserMFA or DisableUserMFA, of any users and at any speed of the clock.
THEOREM NoCodeTwice == Spec => []CodesAreUsedOnce
<1>1. IInv => CodesAreUsedOnce
  BY DEF IInv
<1> QED
  BY <1>1, Invariance, PTL

\* What the version of a token that the Management API accepts says: the account has
\* the version that the sign-in read, or has just got its first one.
LEMMA CurrentToken ==
  ASSUME IInv, Current
  PROVE  \/ token.from = users[token.id].version
         \/ token.from = 0 /\ users[token.id].version = 1
<1>1. token \in Token /\ token # NoToken /\ TokenIsOld
  BY DEF Current, IInv, TypeOK
<1>2. /\ users[token.id] \in Account
      /\ token.version \in Nat \ {0} /\ token.from \in Nat /\ users[token.id].version \in Nat
  BY <1>1 DEF IInv, TypeOK, Token, Account
<1>3. /\ token.version = 1 \/ (token.from # 0 /\ token.version = token.from)
      /\ token.from <= users[token.id].version
  BY <1>1 DEF TokenIsOld
<1>4. token.version = IF users[token.id].version < 1 THEN 1 ELSE users[token.id].version
  BY DEF Current, tokenVersionMatches
<1> QED
  BY <1>2, <1>3, <1>4

\* A token that currentUserForClaims accepts for a user with MFA on goes back to a
\* login that gave a code, whatever happened between the steps of loginHandler, and
\* also when studioForwardAuthHandler issued it.
THEOREM TokensAreEarned == Spec => []EarnedTokens
<1>1. IInv => EarnedTokens
  <2> SUFFICES ASSUME IInv, Current, users[token.id].secret # 0, ~token.sso PROVE token.code
    BY DEF EarnedTokens
  <2>1. TokenIsOld /\ token # NoToken
    BY DEF IInv, Current
  <2>2. token.from = users[token.id].version
    BY <2>1, CurrentToken DEF TokenIsOld
  <2> QED
    BY <2>1, <2>2 DEF TokenIsOld
<1> QED
  BY <1>1, Invariance, PTL

\* After a change of role, email, password or MFA, currentUserForClaims refuses every
\* token that goes back to a sign-in before it, those that Studio issued included;
\* but for the member's token that single sign-on gave an invited account, which it
\* refuses after the second change.
THEOREM SessionsEnd == Spec => []ChangesEndSessions
<1>1. IInv => ChangesEndSessions
  <2> SUFFICES ASSUME IInv, Current, token.changes # users[token.id].changes
               PROVE  SurvivesFirstChange
    BY DEF ChangesEndSessions
  <2>1. TokenIsOld /\ token # NoToken
    BY DEF IInv, Current
  <2>2. token.from = 0 /\ users[token.id].version = 1
    BY <2>1, CurrentToken DEF TokenIsOld
  <2> QED
    BY <2>1, <2>2 DEF TokenIsOld, SurvivesFirstChange
<1> QED
  BY <1>1, Invariance, PTL
===============================================================================
