------------------------------- MODULE Accounts -------------------------------
(***************************************************************************)
(* Platform users, their sign-ins and their tokens: the user methods of    *)
(* the store (internal/control/store.go), token issue (control/auth.go),   *)
(* and the handlers that call them (internal/api: auth, user, account and  *)
(* SCIM handlers).  A store method runs under the mutex and is one step; a *)
(* handler makes several of them and acts on what the earlier ones         *)
(* returned, so handlers interleave between their steps.                   *)
(*                                                                         *)
(* A request that fails its password or its code check changes nothing     *)
(* here (the rate limiters are not part of this module), and every request *)
(* to an administrator's handler comes from somebody whose token was       *)
(* current and an admin's when it arrived.  A TOTP code is the pair of the *)
(* secret and the 30-second counter it was computed for.                   *)
(***************************************************************************)
EXTENDS Integers, FiniteSets

CONSTANTS UserIds,      \* ids that newID() can return, each issued once
          Handlers,     \* requests in flight at the same time
          SSO, SCIM,    \* whether single sign-on and SCIM are configured
          MaxVersion,   \* bound on token versions
          MaxSecrets,   \* bound on TOTP secrets ever generated
          MaxTime       \* bound on the clock, in TOTP periods

ASSUME BoundsAssumption ==
  MaxVersion \in Nat /\ MaxSecrets \in Nat /\ MaxTime \in Nat
ASSUME SwitchesAssumption == SSO \in BOOLEAN /\ SCIM \in BOOLEAN

VARIABLES users,     \* per id: "free", "live" or "deleted", and the account
          req,       \* per handler: the request it serves
          token,     \* an arbitrary one of the tokens issued, or the Studio code
                     \* made from it, with what was true when its sign-in issued
                     \* it; tokens do not depend on each other
          clock,     \* now, in TOTP periods
          secrets,   \* how many TOTP secrets were generated
          accepted,  \* the codes accepted so far
          reused     \* whether a code was accepted twice

vars == <<users, req, token, clock, secrets, accepted, reused>>
mfaVars == <<clock, secrets, accepted, reused>>

Platform == {"admin", "member"}

\* changes counts the security changes of an account, which is what its token
\* version is for; password says whether anybody knows the password; secret and
\* pending are 0 when there is none.
Account == [state : {"free", "live", "deleted"}, role : Platform, password : BOOLEAN,
            version : Nat, changes : Nat, secret : Nat, pending : Nat, last : Nat]

NoAccount == [state |-> "free", role |-> "member", password |-> FALSE, version |-> 0,
              changes |-> 0, secret |-> 0, pending |-> 0, last |-> 0]

\* user is what a login or bootstrap uses of the account a store method returned.
Request == [op : {"login", "sso", "bootstrap", "update", "delete", "password"},
            pc : {"mfa", "issue", "create", "count", "apply"},
            id : UserIds, user : [role : Platform, version : Nat], role : Platform,
            password : BOOLEAN, code : BOOLEAN]
Idle == [pc |-> "idle"]

\* from is the version of the account that the sign-in read; studio says that this
\* is a Studio code, which carries the claims of a token and waits for its use.
Token == [id : UserIds, role : Platform, version : Nat \ {0}, from : Nat, changes : Nat,
          code : BOOLEAN, sso : BOOLEAN, studio : BOOLEAN]
NoToken == [version |-> 0]

live == {u \in UserIds : users[u].state = "live"}
admins == {u \in live : users[u].role = "admin"}
idle(h) == req[h].pc = "idle"
at(h, op, pc) == req[h].pc = pc /\ req[h].op = op
Finish(h) == req' = [req EXCEPT ![h] = Idle]

TypeOK ==
  /\ users \in [UserIds -> Account]
  /\ req \in [Handlers -> Request \cup {Idle}]
  /\ token \in Token \cup {NoToken}
  /\ clock \in Nat \ {0, 1}
  /\ secrets \in Nat
  /\ accepted \subseteq Nat \X Nat
  /\ reused \in BOOLEAN
  /\ \A u \in live : users[u].secret = 0 <=> users[u].last = 0

Init ==
  /\ users = [u \in UserIds |-> NoAccount]
  /\ req = [h \in Handlers |-> Idle]
  /\ token = NoToken
  /\ clock = 2 /\ secrets = 0 /\ accepted = {} /\ reused = FALSE

\* The bound on versions, left with room for the updates in flight.
Room(u) == users[u].version + Cardinality(Handlers) < MaxVersion

-----------------------------------------------------------------------------
(* Store methods *)

nextTokenVersion(current) == IF current < 1 THEN 1 ELSE current + 1

tokenVersionMatches(version, claim) == (IF version < 1 THEN 1 ELSE version) = claim

\* The account after a change that has to end its sessions.
SecurityChange(a) == [a EXCEPT !.version = nextTokenVersion(a.version), !.changes = a.changes + 1]

CreateUser(u, role) ==
  /\ users[u].state = "free"
  /\ users' = [users EXCEPT ![u] = [NoAccount EXCEPT !.state = "live", !.role = role,
                                                     !.password = TRUE, !.version = 1]]

\* UpsertOrgMember and UpsertTeamMember invite whoever has no account yet,
\* under a password nobody knows and with the zero token version.
InviteUser(u) ==
  /\ users[u].state = "free" /\ live # {}
  /\ users' = [users EXCEPT ![u] = [NoAccount EXCEPT !.state = "live"]]
  /\ UNCHANGED <<req, token, mfaVars>>

\* (mutant of UpdateUser) only a new password or email counts as a security change
UpdateUserRoleQuietly(u, role, password, email) ==
  LET a == users[u]
      b == [a EXCEPT !.role = role, !.password = a.password \/ password]
  IN  /\ a.state = "live"
      /\ users' = [users EXCEPT ![u] = IF password \/ email THEN SecurityChange(b)
                                         ELSE [b EXCEPT !.changes = @ + (IF role # a.role THEN 1 ELSE 0)]]

\* A new role, password or email; none of them changed is no security change.
UpdateUser(u, role, password, email) ==
  LET a == users[u]
      b == [a EXCEPT !.role = role, !.password = a.password \/ password]
  IN  /\ a.state = "live"
      /\ users' = [users EXCEPT ![u] = IF role # a.role \/ password \/ email
                                         THEN SecurityChange(b) ELSE b]

DeleteUser(u) ==
  /\ users[u].state = "live"
  /\ users' = [users EXCEPT ![u].state = "deleted"]

\* VerifyTOTPCodeCounter: the codes of the last, this and the next period.
Counters == {c \in (clock - 1)..(clock + 1) : c >= 0}

Accept(secret, counter) ==
  /\ accepted' = accepted \cup {<<secret, counter>>}
  /\ reused' = (reused \/ <<secret, counter>> \in accepted)

BeginUserMFAEnrollment(u) ==
  /\ u \in live /\ secrets < MaxSecrets
  /\ secrets' = secrets + 1
  /\ users' = [users EXCEPT ![u].pending = secrets + 1]
  /\ UNCHANGED <<req, token, clock, accepted, reused>>

\* (mutant of ConfirmUserMFA) the code that confirmed is not recorded as used
ConfirmUserMFAUnrecorded(u, counter) ==
  /\ u \in live /\ users[u].pending # 0 /\ Room(u)
  /\ counter \in Counters
  /\ Accept(users[u].pending, counter)
  /\ users' = [users EXCEPT ![u] = SecurityChange([@ EXCEPT !.secret = users[u].pending,
                                                            !.pending = 0, !.last = 1])]
  /\ UNCHANGED <<req, token, clock, secrets>>

ConfirmUserMFA(u, counter) ==
  /\ u \in live /\ users[u].pending # 0 /\ Room(u)
  /\ counter \in Counters
  /\ Accept(users[u].pending, counter)
  /\ users' = [users EXCEPT ![u] = SecurityChange([@ EXCEPT !.secret = users[u].pending,
                                                            !.pending = 0, !.last = counter])]
  /\ UNCHANGED <<req, token, clock, secrets>>

\* Without MFA on it only drops a pending enrolment, and needs no code.
DisableUserMFA(u, counter) ==
  /\ u \in live /\ Room(u)
  /\ \/ /\ users[u].secret = 0 /\ UNCHANGED <<accepted, reused>>
     \/ /\ users[u].secret # 0
        /\ counter \in Counters /\ counter > users[u].last
        /\ Accept(users[u].secret, counter)
  /\ users' = [users EXCEPT ![u] = SecurityChange([@ EXCEPT !.secret = 0, !.pending = 0, !.last = 0])]
  /\ UNCHANGED <<req, token, clock, secrets>>

-----------------------------------------------------------------------------
(* Signing in *)

Start(h, r) ==
  /\ idle(h)
  /\ req' = [req EXCEPT ![h] = r]

\* What a token is issued from.
Copy(a) == [role |-> a.role, version |-> a.version]

\* A request about user u, with the account a its handler holds.
Serve(op, pc, u, a) ==
  [op |-> op, pc |-> pc, id |-> u, user |-> Copy(a), role |-> "member", password |-> FALSE, code |-> FALSE]

\* loginHandler: AuthenticateUser succeeds.
Authenticate(h, u) ==
  /\ u \in live /\ users[u].password
  /\ Start(h, Serve("login", IF users[u].secret # 0 THEN "mfa" ELSE "issue", u, users[u]))
  /\ UNCHANGED <<users, token, mfaVars>>

\* VerifyUserMFA returns the account as it is by now, or fails the login.
VerifyUserMFA(h, counter) ==
  LET u == req[h].id
  IN  /\ at(h, "login", "mfa")
      /\ \/ /\ u \in live /\ users[u].secret # 0
            /\ counter \in Counters /\ counter > users[u].last
            /\ Accept(users[u].secret, counter)
            /\ users' = [users EXCEPT ![u].last = counter]
            /\ req' = [req EXCEPT ![h] = [@ EXCEPT !.pc = "issue", !.user = Copy(users'[u]), !.code = TRUE]]
         \/ Finish(h) /\ UNCHANGED <<users, accepted, reused>>
  /\ UNCHANGED <<token, clock, secrets>>

\* platformSSOUser finds the user of the assertion, or provisions one.
SSOUser(h, u) ==
  /\ SSO
  /\ \/ u \in live /\ UNCHANGED users
     \/ live # {} /\ \E role \in Platform : CreateUser(u, role)
  /\ Start(h, Serve("sso", "issue", u, users'[u]))
  /\ UNCHANGED <<token, mfaVars>>

\* auth.Issue: the claims carry the version of the copy the handler holds.
Issued(r) ==
  [id |-> r.id, role |-> r.user.role, version |-> nextTokenVersion(r.user.version - 1),
   from |-> r.user.version, changes |-> users[r.id].changes, code |-> r.code,
   sso |-> r.op = "sso", studio |-> FALSE]

Issue(h) ==
  /\ req[h].pc = "issue"
  /\ token' = Issued(req[h]) \/ UNCHANGED token
  /\ Finish(h)
  /\ UNCHANGED <<users, mfaVars>>

\* currentUserForClaims: the Management API accepts the token.  withAuth asks it of
\* every route that is not public, and the handlers of roles ask it again.
Current == /\ token # NoToken /\ ~token.studio
           /\ token.id \in live /\ tokenVersionMatches(users[token.id].version, token.version)

\* createProjectStudioSessionHandler: a one-time code for the claims of a token that
\* is current.
StudioSession ==
  /\ Current
  /\ token' = [token EXCEPT !.studio = TRUE]
  /\ UNCHANGED <<users, req, mfaVars>>

\* (mutant of StudioVerify) the new token gets the version that the account has
StudioVerifyRefreshed ==
  /\ token # NoToken /\ token.studio /\ token.id \in live
  /\ token' = [token EXCEPT !.studio = FALSE,
                           !.version = nextTokenVersion(users[token.id].version - 1)]
  /\ UNCHANGED <<users, req, mfaVars>>

\* studioForwardAuthHandler consumes the code and issues a token from its claims,
\* without asking for the user.  The claims lend no version, so that the token is of
\* version 1 whatever the account has.  A request that shows a token with a valid
\* signature consumes no code and changes nothing: a member's is then held against
\* the account as everywhere else, the role of an administrator's claims is enough.
StudioVerify ==
  /\ token # NoToken /\ token.studio
  /\ token' = [token EXCEPT !.studio = FALSE, !.version = nextTokenVersion(0 - 1)]
  /\ UNCHANGED <<users, req, mfaVars>>

-----------------------------------------------------------------------------
(* Administration *)

Bootstrap(h, u) ==
  /\ live = {}
  /\ Start(h, Serve("bootstrap", "create", u, NoAccount))
  /\ UNCHANGED <<users, token, mfaVars>>

BootstrapCreate(h) ==
  /\ at(h, "bootstrap", "create")
  /\ \/ /\ CreateUser(req[h].id, "admin")
        /\ req' = [req EXCEPT ![h] = [@ EXCEPT !.pc = "issue", !.user = Copy(users'[req[h].id])]]
     \/ users[req[h].id].state # "free" /\ Finish(h) /\ UNCHANGED users
  /\ UNCHANGED <<token, mfaVars>>

\* createUserHandler and the SCIM one.
AdminCreateUser(u, role) ==
  /\ admins # {} \/ SCIM
  /\ CreateUser(u, role)
  /\ UNCHANGED <<req, token, mfaVars>>

\* updateUserHandler and deleteUserHandler read their target, the first one
\* also the payload; nobody deletes themselves.
ReadTarget(h, op, u, role, password) ==
  /\ u \in live /\ Room(u) /\ admins \ (IF op = "delete" THEN {u} ELSE {}) # {}
  /\ Start(h, [Serve(op, IF users[u].role = "admin" /\ (op = "delete" \/ role # "admin")
                           THEN "count" ELSE "apply", u, NoAccount)
               EXCEPT !.role = role, !.password = password])
  /\ UNCHANGED <<users, token, mfaVars>>

\* lastAdmin refuses.
CountAdmins(h) ==
  /\ req[h].pc = "count"
  /\ IF Cardinality(admins) <= 1 THEN Finish(h) ELSE req' = [req EXCEPT ![h].pc = "apply"]
  /\ UNCHANGED <<users, token, mfaVars>>

\* changeAccountPasswordHandler reads the account and checks the password; its
\* update then writes back the role that it read (the email too, which together
\* with the new password is one security change all the same).
ReadOwnAccount(h, u) ==
  /\ u \in live /\ Room(u) /\ users[u].password
  /\ Start(h, [Serve("password", "apply", u, NoAccount) EXCEPT !.role = users[u].role, !.password = TRUE])
  /\ UNCHANGED <<users, token, mfaVars>>

ApplyUpdate(h) ==
  /\ at(h, "update", "apply") \/ at(h, "password", "apply")
  /\ \/ UpdateUser(req[h].id, req[h].role, req[h].password, FALSE)
     \/ req[h].id \notin live /\ UNCHANGED users
  /\ Finish(h)
  /\ UNCHANGED <<token, mfaVars>>

ApplyDelete(h) ==
  /\ at(h, "delete", "apply")
  /\ \/ DeleteUser(req[h].id)
     \/ req[h].id \notin live /\ UNCHANGED users
  /\ Finish(h)
  /\ UNCHANGED <<token, mfaVars>>

\* The SCIM handlers update and delete without counting administrators.
ScimUpdate(u, role, email) ==
  /\ SCIM /\ Room(u)
  /\ UpdateUser(u, role, FALSE, email)
  /\ UNCHANGED <<req, token, mfaVars>>

ScimDelete(u) ==
  /\ SCIM
  /\ DeleteUser(u)
  /\ UNCHANGED <<req, token, mfaVars>>

Tick ==
  /\ clock < MaxTime
  /\ clock' = clock + 1
  /\ UNCHANGED <<users, req, token, secrets, accepted, reused>>

-----------------------------------------------------------------------------
Next ==
  \/ \E u \in UserIds : InviteUser(u)
  \/ \E u \in UserIds : BeginUserMFAEnrollment(u)
  \/ \E u \in UserIds, c \in Counters : ConfirmUserMFA(u, c)
  \/ \E u \in UserIds, c \in Counters : DisableUserMFA(u, c)
  \/ \E h \in Handlers, u \in UserIds : Authenticate(h, u)
  \/ \E h \in Handlers, c \in Counters : VerifyUserMFA(h, c)
  \/ \E h \in Handlers, u \in UserIds : SSOUser(h, u)
  \/ \E h \in Handlers : Issue(h)
  \/ StudioSession
  \/ StudioVerify
  \/ \E h \in Handlers, u \in UserIds : Bootstrap(h, u)
  \/ \E h \in Handlers : BootstrapCreate(h)
  \/ \E u \in UserIds, r \in Platform : AdminCreateUser(u, r)
  \/ \E h \in Handlers, u \in UserIds, r \in Platform, p \in BOOLEAN :
        ReadTarget(h, "update", u, r, p)
  \/ \E h \in Handlers, u \in UserIds : ReadTarget(h, "delete", u, "member", FALSE)
  \/ \E h \in Handlers, u \in UserIds : ReadOwnAccount(h, u)
  \/ \E h \in Handlers : CountAdmins(h)
  \/ \E h \in Handlers : ApplyUpdate(h)
  \/ \E h \in Handlers : ApplyDelete(h)
  \/ \E u \in UserIds, r \in Platform, e \in BOOLEAN : ScimUpdate(u, r, e)
  \/ \E u \in UserIds : ScimDelete(u)
  \/ Tick

Spec == Init /\ [][Next]_vars

-----------------------------------------------------------------------------
(* Properties *)

\* No TOTP code is accepted twice, across logins, the confirmation of an
\* enrolment and the disabling of MFA, although a code is valid for three
\* periods.
CodesAreUsedOnce == ~reused

\* A token that the Management API accepts for somebody whose MFA is on, and that
\* goes back to a password login, goes back to one that gave a code: also when MFA
\* was turned on between the password check of the login and the issue of its
\* token, and also when Studio issued the token for a code of its own.
EarnedTokens ==
  Current /\ users[token.id].secret # 0 /\ ~token.sso => token.code

\* What single sign-on gave an invited member, whose account had no token version
\* yet, survives the first change of that account: 0 and 1 are read as the same.
SurvivesFirstChange ==
  /\ token.sso /\ token.role = "member" /\ token.from = 0
  /\ users[token.id].version = 1

\* After a change of role, email, password or MFA the Management API accepts no token
\* that goes back to a sign-in before it, but for that one, which is no
\* administrator's and is refused after the second change.  Studio's own check is
\* another one, see StudioVerify.
ChangesEndSessions ==
  Current => token.changes = users[token.id].changes \/ SurvivesFirstChange

\* Once there are users, one of them is an administrator.
AdminRemains == (\E u \in UserIds : users[u].state # "free") => admins # {}
===============================================================================
