-------------------------------- MODULE Access --------------------------------
(***************************************************************************)
(* Users, org memberships, teams and project grants in the control store   *)
(* (internal/control/store.go), and the two readers of them: the           *)
(* authorisation of a request (internal/api/authz_helpers.go) and the      *)
(* access review of an org.                                                *)
(*                                                                         *)
(* The store keeps five maps that refer to each other by keys that can     *)
(* change or disappear: memberships and team members are keyed by email    *)
(* but carry a user id, grants carry a user or a team id and a copy of the *)
(* name.  Every method cleans up the maps it knows of, under one mutex, so *)
(* each is one action.  A map is a set of records; "of" is the map's outer *)
(* key (an org of memberships, a team id of teamMembers).                  *)
(*                                                                         *)
(* Ids come from newID() and are never issued twice; a new id here is one  *)
(* that nothing in the state mentions.                                     *)
(***************************************************************************)
EXTENDS Integers

CONSTANTS OrgIds, UserIds, TeamIds,   \* ids that newID() can return
          Emails, Slugs, Refs,
          Roles                       \* the roles requests ask for

\* membershipRoleRank and roleRank; "" is the role of somebody without one.
Rank == [none |-> 0, viewer |-> 1, developer |-> 2, admin |-> 3, owner |-> 4]
AllRoles == {"viewer", "developer", "admin", "owner"}

ASSUME RolesAssumption == Roles \subseteq AllRoles

VARIABLES users,        \* s.users: email and id
          orgs,         \* s.orgs
          memberships,  \* s.memberships: org, email, user id, role
          teams,        \* s.teams: org, slug, team id
          teamMembers,  \* s.teamMembers: team id, email, user id, org
          projects,     \* s.projects: ref and org
          grants,       \* s.projectAccess: ref, subject type, id, name, role
          creating      \* createOrgHandler calls between their two store calls

vars == <<users, orgs, memberships, teams, teamMembers, projects, grants, creating>>

Users == [email : Emails, id : UserIds]
Memberships == [of : OrgIds, email : Emails, user : UserIds, role : AllRoles]
Teams == [org : OrgIds, slug : Slugs, id : TeamIds]
TeamMembers == [of : TeamIds, email : Emails, user : UserIds, org : OrgIds]
Projects == [ref : Refs, org : OrgIds]
Grants == [ref : Refs, type : {"user"}, id : UserIds, name : Emails, role : AllRoles]
          \cup [ref : Refs, type : {"team"}, id : TeamIds, name : Slugs, role : AllRoles]

\* No two entries of a map have the same key.
IsMap(S, SameKey(_, _)) == \A m, n \in S : SameKey(m, n) => m = n

SameEmail(m, n) == m.email = n.email
SameEntry(m, n) == m.of = n.of /\ m.email = n.email
SameSlug(m, n) == m.org = n.org /\ m.slug = n.slug
SameRef(m, n) == m.ref = n.ref

TypeOK ==
  /\ users \subseteq Users /\ IsMap(users, SameEmail)
  /\ orgs \subseteq OrgIds
  /\ memberships \subseteq Memberships /\ IsMap(memberships, SameEntry)
  /\ teams \subseteq Teams /\ IsMap(teams, SameSlug)
  /\ teamMembers \subseteq TeamMembers /\ IsMap(teamMembers, SameEntry)
  /\ projects \subseteq Projects /\ IsMap(projects, SameRef)
  /\ grants \subseteq Grants
  /\ creating \subseteq [org : OrgIds, email : Emails]

Init ==
  /\ users = {} /\ orgs = {} /\ memberships = {} /\ teams = {}
  /\ teamMembers = {} /\ projects = {} /\ grants = {} /\ creating = {}

-----------------------------------------------------------------------------
(* Ids, and writes to a map *)

NewUserId(u) ==
  /\ \A x \in users : x.id # u
  /\ \A m \in memberships \cup teamMembers : m.user # u
  /\ \A g \in grants : g.type = "user" => g.id # u

NewTeamId(t) ==
  /\ \A x \in teams : x.id # t
  /\ \A m \in teamMembers : m.of # t
  /\ \A g \in grants : g.type = "team" => g.id # t

NewOrgId(o) ==
  /\ o \notin orgs
  /\ \A m \in memberships : m.of # o
  /\ \A x \in teams \cup teamMembers \cup projects \cup creating : x.org # o

\* members[email] = m
Put(S, m) == {n \in S : ~SameEntry(m, n)} \cup {m}

\* The entries of one email moved to another, in every map that has one.
Rekey(S, email, next) ==
  LET moved == {[m EXCEPT !.email = next] : m \in {n \in S : n.email = email}}
  IN  {m \in S : m.email # email /\ \A n \in moved : ~SameEntry(m, n)} \cup moved

-----------------------------------------------------------------------------
(* Users *)

CreateUser(email, u) ==
  /\ \A x \in users : x.email # email
  /\ NewUserId(u)
  /\ users' = users \cup {[email |-> email, id |-> u]}
  /\ UNCHANGED <<orgs, memberships, teams, teamMembers, projects, grants, creating>>

\* (mutant of UpdateUser) team members keep the old email
UpdateUserOutsideTeams(x, next) ==
  /\ \A y \in users : y.email # next
  /\ users' = (users \ {x}) \cup {[x EXCEPT !.email = next]}
  /\ memberships' = Rekey(memberships, x.email, next)
  /\ grants' = {IF g.type = "user" /\ g.id = x.id THEN [g EXCEPT !.name = next] ELSE g :
                  g \in grants}
  /\ UNCHANGED <<orgs, teams, teamMembers, projects, creating>>

\* (mutant of UpdateUser) the renamed user is invited again, as a viewer
UpdateUserAsViewer(x, next) ==
  /\ \A y \in users : y.email # next
  /\ users' = (users \ {x}) \cup {[x EXCEPT !.email = next]}
  /\ memberships' = {IF m.email = next THEN [m EXCEPT !.role = "viewer"] ELSE m :
                       m \in Rekey(memberships, x.email, next)}
  /\ teamMembers' = Rekey(teamMembers, x.email, next)
  /\ grants' = {IF g.type = "user" /\ g.id = x.id THEN [g EXCEPT !.name = next] ELSE g :
                  g \in grants}
  /\ UNCHANGED <<orgs, teams, projects, creating>>

\* UpdateUser with a new email.
UpdateUser(x, next) ==
  /\ \A y \in users : y.email # next
  /\ users' = (users \ {x}) \cup {[x EXCEPT !.email = next]}
  /\ memberships' = Rekey(memberships, x.email, next)
  /\ teamMembers' = Rekey(teamMembers, x.email, next)
  /\ grants' = {IF g.type = "user" /\ g.id = x.id THEN [g EXCEPT !.name = next] ELSE g :
                  g \in grants}
  /\ UNCHANGED <<orgs, teams, projects, creating>>

DeleteUser(x) ==
  /\ users' = users \ {x}
  /\ memberships' = {m \in memberships : m.email # x.email}
  /\ teamMembers' = {m \in teamMembers : m.email # x.email}
  /\ grants' = {g \in grants : ~(g.type = "user" /\ g.id = x.id)}
  /\ UNCHANGED <<orgs, teams, projects, creating>>

-----------------------------------------------------------------------------
(* Orgs, members and teams *)

\* The user of an email, invited when there is none.
Invite(email, u) ==
  \/ /\ [email |-> email, id |-> u] \in users
     /\ UNCHANGED users
  \/ /\ \A x \in users : x.email # email
     /\ NewUserId(u)
     /\ users' = users \cup {[email |-> email, id |-> u]}

Membership(o, email, u, role) == [of |-> o, email |-> email, user |-> u, role |-> role]

UpsertOrgMember(o, email, u, role) ==
  /\ o \in orgs
  /\ Invite(email, u)
  /\ memberships' = Put(memberships, Membership(o, email, u, role))
  /\ UNCHANGED <<orgs, teams, teamMembers, projects, grants>>

\* createOrgHandler creates the org and then makes the caller its owner, under
\* the email in the caller's claims.  Without authentication there are none.
CreateOrg(o) ==
  /\ NewOrgId(o)
  /\ orgs' = orgs \cup {o}
  /\ \/ \E x \in users : creating' = creating \cup {[org |-> o, email |-> x.email]}
     \/ UNCHANGED creating
  /\ UNCHANGED <<users, memberships, teams, teamMembers, projects, grants>>

AddOwner(c, u) ==
  /\ creating' = creating \ {c}
  /\ \/ UpsertOrgMember(c.org, c.email, u, "owner")
     \/ /\ c.org \notin orgs
        /\ UNCHANGED <<users, orgs, memberships, teams, teamMembers, projects, grants>>

DeleteOrg(o) ==
  /\ \A p \in projects : p.org # o
  /\ orgs' = orgs \ {o}
  /\ memberships' = {m \in memberships : m.of # o}
  /\ teamMembers' = {m \in teamMembers : \A t \in teams : t.org = o => m.of # t.id}
  /\ teams' = {t \in teams : t.org # o}
  /\ UNCHANGED <<users, projects, grants, creating>>

\* The grants of a subject on the projects of an org removed.
Revoke(o, type, id) ==
  {g \in grants : ~(/\ g.type = type /\ g.id = id
                    /\ \E p \in projects : p.ref = g.ref /\ p.org = o)}

DeleteOrgMember(m) ==
  /\ memberships' = memberships \ {m}
  /\ teamMembers' = {n \in teamMembers : ~(n.email = m.email /\ n.org = m.of)}
  /\ grants' = Revoke(m.of, "user", m.user)
  /\ UNCHANGED <<users, orgs, teams, projects, creating>>

CreateOrgTeam(o, slug, t) ==
  /\ o \in orgs
  /\ \A x \in teams : ~(x.org = o /\ x.slug = slug)
  /\ NewTeamId(t)
  /\ teams' = teams \cup {[org |-> o, slug |-> slug, id |-> t]}
  /\ UNCHANGED <<users, orgs, memberships, teamMembers, projects, grants, creating>>

DeleteOrgTeam(t) ==
  /\ teams' = teams \ {t}
  /\ teamMembers' = {m \in teamMembers : m.of # t.id}
  /\ grants' = Revoke(t.org, "team", t.id)
  /\ UNCHANGED <<users, orgs, memberships, projects, creating>>

\* Joining a team makes somebody a viewer of the org who is not a member yet.
UpsertTeamMember(t, email, u) ==
  /\ Invite(email, u)
  /\ memberships' = IF \E m \in memberships : m.of = t.org /\ m.email = email
                      THEN memberships
                      ELSE memberships \cup {Membership(t.org, email, u, "viewer")}
  /\ teamMembers' = Put(teamMembers, [of |-> t.id, email |-> email, user |-> u, org |-> t.org])
  /\ UNCHANGED <<orgs, teams, projects, grants, creating>>

DeleteTeamMember(t, email) ==
  /\ \E m \in teamMembers : m.of = t.id /\ m.email = email
  /\ teamMembers' = {m \in teamMembers : ~(m.of = t.id /\ m.email = email)}
  /\ UNCHANGED <<users, orgs, memberships, teams, projects, grants, creating>>

-----------------------------------------------------------------------------
(* Projects and their grants *)

CreateProject(ref, o) ==
  /\ o \in orgs
  /\ \A p \in projects : p.ref # ref
  /\ projects' = projects \cup {[ref |-> ref, org |-> o]}
  /\ UNCHANGED <<users, orgs, memberships, teams, teamMembers, grants, creating>>

DeleteProject(p) ==
  /\ projects' = projects \ {p}
  /\ grants' = {g \in grants : g.ref # p.ref}
  /\ UNCHANGED <<users, orgs, memberships, teams, teamMembers, creating>>

Grant(ref, type, id, name, role) ==
  {g \in grants : ~(g.ref = ref /\ g.type = type /\ g.id = id)}
    \cup {[ref |-> ref, type |-> type, id |-> id, name |-> name, role |-> role]}

\* The grants name a user by email, a team by slug; both must be of the org.
UpsertProjectAccess(p, role) ==
  /\ \/ \E x \in users :
          /\ \E m \in memberships : m.of = p.org /\ m.email = x.email
          /\ grants' = Grant(p.ref, "user", x.id, x.email, role)
     \/ \E t \in teams :
          /\ t.org = p.org
          /\ grants' = Grant(p.ref, "team", t.id, t.slug, role)
  /\ UNCHANGED <<users, orgs, memberships, teams, teamMembers, projects, creating>>

\* A user is found by email or id, a team of the project's org by slug or id.
DeleteProjectAccess(p, type, id) ==
  /\ \/ type = "user" /\ \E x \in users : x.id = id
     \/ type = "team" /\ \E t \in teams : t.org = p.org /\ t.id = id
  /\ \E g \in grants : g.ref = p.ref /\ g.type = type /\ g.id = id
  /\ grants' = {g \in grants : ~(g.ref = p.ref /\ g.type = type /\ g.id = id)}
  /\ UNCHANGED <<users, orgs, memberships, teams, teamMembers, projects, creating>>

-----------------------------------------------------------------------------
(* The readers *)

\* higherRole, over a set of roles.
Highest(S) == IF S = {} THEN "none" ELSE CHOOSE r \in S : \A s \in S : Rank[r] >= Rank[s]

\* orgRoleForEmail
OrgRole(o, email) == Highest({m.role : m \in {n \in memberships : n.of = o /\ n.email = email}})

InTeam(t, o, email) == \E m \in teamMembers : m.of = t /\ m.org = o /\ m.email = email

ResolveProjectRole(p, x) ==
  Highest({g.role : g \in {h \in grants :
             /\ h.ref = p.ref
             /\ \/ h.type = "user" /\ h.id = x.id
                \/ h.type = "team" /\ InTeam(h.id, p.org, x.email)}})

\* (mutant of RequireProjectRole) a grant on the project replaces the org role
RequireProjectRoleOverridden(p, x, minimum) ==
  LET role == ResolveProjectRole(p, x)
  IN  Rank[IF role = "none" THEN OrgRole(p.org, x.email) ELSE role] >= Rank[minimum]

\* requireProjectRole, for a caller whose token is current.
RequireProjectRole(p, x, minimum) ==
  \/ Rank[OrgRole(p.org, x.email)] >= Rank[minimum]
  \/ Rank[ResolveProjectRole(p, x)] >= Rank[minimum]

\* GetOrgAccessReview: the effective role it lists for an email, if any.
EffectiveRole(p, email) ==
  Highest({m.role : m \in {n \in memberships : n.of = p.org /\ n.email = email}}
          \cup {g.role : g \in {h \in grants :
                  /\ h.ref = p.ref
                  /\ \/ h.type = "user" /\ \E m \in memberships :
                          m.of = p.org /\ m.email = email /\ m.user = h.id
                     \/ h.type = "team" /\ InTeam(h.id, p.org, email)}})

-----------------------------------------------------------------------------
Next ==
  \/ \E e \in Emails, u \in UserIds : CreateUser(e, u)
  \/ \E x \in users, e \in Emails : UpdateUser(x, e)
  \/ \E x \in users : DeleteUser(x)
  \/ \E o \in OrgIds : CreateOrg(o)
  \/ \E c \in creating, u \in UserIds : AddOwner(c, u)
  \/ \E o \in orgs : DeleteOrg(o)
  \/ \E o \in OrgIds, e \in Emails, u \in UserIds, r \in Roles :
        UpsertOrgMember(o, e, u, r) /\ UNCHANGED creating
  \/ \E m \in memberships : DeleteOrgMember(m)
  \/ \E o \in OrgIds, s \in Slugs, t \in TeamIds : CreateOrgTeam(o, s, t)
  \/ \E t \in teams : DeleteOrgTeam(t)
  \/ \E t \in teams, e \in Emails, u \in UserIds : UpsertTeamMember(t, e, u)
  \/ \E t \in teams, e \in Emails : DeleteTeamMember(t, e)
  \/ \E r \in Refs, o \in OrgIds : CreateProject(r, o)
  \/ \E p \in projects : DeleteProject(p)
  \/ \E p \in projects, r \in Roles : UpsertProjectAccess(p, r)
  \/ \E p \in projects, g \in grants : DeleteProjectAccess(p, g.type, g.id)

Spec == Init /\ [][Next]_vars

-----------------------------------------------------------------------------
(* Properties *)

\* Whatever calls created, renamed, invited, removed and deleted users, orgs
\* and teams, in whatever order: an entry under an email carries the id of the
\* user who has that email now, belongs to an org and a team that exist, and
\* nobody is in a team of an org without being a member of the org.
MembersAreCurrentUsers ==
  /\ \A m \in memberships :
        m.of \in orgs /\ [email |-> m.email, id |-> m.user] \in users
  /\ \A m \in teamMembers :
        /\ [email |-> m.email, id |-> m.user] \in users
        /\ \E t \in teams : t.id = m.of /\ t.org = m.org
        /\ \E n \in memberships : n.of = m.org /\ n.email = m.email

\* A grant is on a project that exists, and its subject is a member or a team
\* of that project's org under the name the grant shows: none survives the
\* removal of its subject, and none is inherited by the next project that
\* takes the ref.
GrantsAreHeldByMembers ==
  \A g \in grants : \E p \in projects :
    /\ p.ref = g.ref
    /\ \/ /\ g.type = "user"
          /\ \E m \in memberships : m.of = p.org /\ m.user = g.id /\ m.email = g.name
       \/ /\ g.type = "team"
          /\ \E t \in teams : t.org = p.org /\ t.id = g.id /\ t.slug = g.name

\* The maps agree with each other after any sequence of calls: each method
\* cleans up in all the maps that its change concerns.
MapsAgree == MembersAreCurrentUsers /\ GrantsAreHeldByMembers

\* The access review an org's admin reads and the check every request goes
\* through agree, for every user, project and minimum role.  They derive it
\* differently: the review joins grants to members by user id and lists only
\* members, the check finds the member by email and the grants by user id.
ReviewMatchesAuthorisation ==
  \A p \in projects, x \in users, minimum \in AllRoles :
    RequireProjectRole(p, x, minimum) <=> Rank[EffectiveRole(p, x.email)] >= Rank[minimum]

\* Changing somebody's email changes nobody's access to any project.
RenameKeepsAccess ==
  [][\A x \in users, e \in Emails : UpdateUser(x, e) =>
       \A y \in users, z \in users', p \in projects, minimum \in AllRoles :
         z.id = y.id => (RequireProjectRole(p, y, minimum) <=> RequireProjectRole(p, z, minimum)')]_vars
===============================================================================
