----------------------------- MODULE AccessProofs -----------------------------
(***************************************************************************)
(* The referential integrity of the access maps, that the access review    *)
(* agrees with authorisation, and that changing an email changes nobody's  *)
(* access, for any sets of ids, emails, slugs, refs and roles.             *)
(***************************************************************************)
EXTENDS Access, TLAPS

Shape ==
  /\ users \subseteq Users
  /\ memberships \subseteq Memberships
  /\ teams \subseteq Teams
  /\ teamMembers \subseteq TeamMembers
  /\ projects \subseteq Projects
  /\ grants \subseteq Grants
  /\ creating \subseteq [org : OrgIds, email : Emails]

\* An email has one user and a user one email; a ref has one project; the org of a
\* team exists.
Keys ==
  /\ \A x, y \in users : x.email = y.email \/ x.id = y.id => x = y
  /\ \A p, q \in projects : p.ref = q.ref => p = q
  /\ \A t \in teams : t.org \in orgs

IInv == Shape /\ Keys /\ MembersAreCurrentUsers /\ GrantsAreHeldByMembers

LEMMA InitIInv == Init => IInv
  BY DEF Init, IInv, Shape, Keys, MembersAreCurrentUsers, GrantsAreHeldByMembers

USE DEF Users, Memberships, Teams, TeamMembers, Projects, Grants

LEMMA CreateUserStep ==
  ASSUME IInv, NEW e \in Emails, NEW u \in UserIds, CreateUser(e, u)
  PROVE  IInv'
<1> USE DEF IInv, CreateUser, NewUserId
<1>1. Shape'
  BY DEF Shape
<1>2. Keys'
  BY DEF Shape, Keys
<1>3. MembersAreCurrentUsers'
  BY DEF MembersAreCurrentUsers
<1>4. GrantsAreHeldByMembers'
  BY DEF GrantsAreHeldByMembers
<1> QED
  BY <1>1, <1>2, <1>3, <1>4

\* What moving the entries of an email does, entry by entry.
LEMMA RekeyMembers ==
  ASSUME NEW S \in SUBSET Memberships, NEW e \in Emails, NEW f \in Emails,
         e # f, \A m \in S : m.email # f
  PROVE  /\ Rekey(S, e, f) \subseteq Memberships
         /\ \A m \in S : m.email # e => m \in Rekey(S, e, f)
         /\ \A m \in S : m.email = e => [m EXCEPT !.email = f] \in Rekey(S, e, f)
         /\ \A n \in Rekey(S, e, f) : \/ n \in S /\ n.email # e
                                      \/ \E m \in S : m.email = e /\ n = [m EXCEPT !.email = f]
<1> DEFINE moved == {[m EXCEPT !.email = f] : m \in {n \in S : n.email = e}}
<1>1. \A n \in moved : n.email = f /\ n \in Memberships
  OBVIOUS
<1>2. \A m \in S, n \in moved : ~SameEntry(m, n)
  BY <1>1 DEF SameEntry
<1>3. Rekey(S, e, f) = {m \in S : m.email # e} \cup moved
  BY <1>2 DEF Rekey
<1> QED
  BY <1>1, <1>3

LEMMA RekeyTeamMembers ==
  ASSUME NEW S \in SUBSET TeamMembers, NEW e \in Emails, NEW f \in Emails,
         e # f, \A m \in S : m.email # f
  PROVE  /\ Rekey(S, e, f) \subseteq TeamMembers
         /\ \A n \in Rekey(S, e, f) : \/ n \in S /\ n.email # e
                                      \/ \E m \in S : m.email = e /\ n = [m EXCEPT !.email = f]
<1> DEFINE moved == {[m EXCEPT !.email = f] : m \in {n \in S : n.email = e}}
<1>1. \A n \in moved : n.email = f /\ n \in TeamMembers
  OBVIOUS
<1>2. \A m \in S, n \in moved : ~SameEntry(m, n)
  BY <1>1 DEF SameEntry
<1>3. Rekey(S, e, f) = {m \in S : m.email # e} \cup moved
  BY <1>2 DEF Rekey
<1> QED
  BY <1>1, <1>3

LEMMA UpdateUserStep ==
  ASSUME IInv, NEW x \in users, NEW e \in Emails, UpdateUser(x, e)
  PROVE  IInv'
<1> USE DEF IInv
<1> DEFINE y == [x EXCEPT !.email = e]
<1>1. /\ x \in Users /\ y \in Users /\ y.email = e /\ y.id = x.id
      /\ x.email # e
      /\ users' = (users \ {x}) \cup {y}
      /\ y = [email |-> e, id |-> x.id]
  BY DEF UpdateUser, Shape
<1>2. \A m \in memberships \cup teamMembers : m.email # e
  BY DEF UpdateUser, MembersAreCurrentUsers
<1>3. \A m \in memberships \cup teamMembers : m.email = x.email <=> m.user = x.id
  <2>1. ASSUME NEW m \in memberships \cup teamMembers
        PROVE  m.email = x.email <=> m.user = x.id
    <3> DEFINE z == [email |-> m.email, id |-> m.user]
    <3>1. z \in users /\ z.email = m.email /\ z.id = m.user
      BY DEF MembersAreCurrentUsers
    <3>2. (z.email = x.email \/ z.id = x.id) => z = x
      BY <3>1 DEF Keys
    <3> HIDE DEF z
    <3> QED
      BY <3>1, <3>2
  <2> QED
    BY <2>1
<1>4. /\ memberships' \subseteq Memberships
      /\ \A m \in memberships : m.email # x.email => m \in memberships'
      /\ \A m \in memberships : m.email = x.email => [m EXCEPT !.email = e] \in memberships'
      /\ \A n \in memberships' : \/ n \in memberships /\ n.email # x.email
                                 \/ \E m \in memberships : m.email = x.email /\ n = [m EXCEPT !.email = e]
  <2>1. memberships \in SUBSET Memberships /\ x.email \in Emails
    BY <1>1 DEF Shape
  <2> QED
    BY <1>1, <1>2, <2>1, RekeyMembers DEF UpdateUser
<1>5. /\ teamMembers' \subseteq TeamMembers
      /\ \A n \in teamMembers' : \/ n \in teamMembers /\ n.email # x.email
                                 \/ \E m \in teamMembers : m.email = x.email /\ n = [m EXCEPT !.email = e]
  <2>1. teamMembers \in SUBSET TeamMembers /\ x.email \in Emails
    BY <1>1 DEF Shape
  <2> QED
    BY <1>1, <1>2, <2>1, RekeyTeamMembers DEF UpdateUser
<1>6. \A h \in grants' : \E g \in grants :
         /\ h.ref = g.ref /\ h.type = g.type /\ h.id = g.id
         /\ h.name = IF g.type = "user" /\ g.id = x.id THEN e ELSE g.name
  BY DEF UpdateUser, Shape
<1>7. Shape'
  <2>1. grants' \subseteq Grants
    BY DEF UpdateUser, Shape
  <2> QED
    BY <1>1, <1>4, <1>5, <2>1 DEF UpdateUser, Shape
<1>8. Keys'
  BY <1>1 DEF Keys, UpdateUser, Shape
<1>9. MembersAreCurrentUsers'
  <2>1. ASSUME NEW n \in memberships'
        PROVE  n.of \in orgs' /\ [email |-> n.email, id |-> n.user] \in users'
    <3>1. CASE n \in memberships /\ n.email # x.email
      BY <1>1, <3>1 DEF MembersAreCurrentUsers, UpdateUser
    <3>2. CASE \E m \in memberships : m.email = x.email /\ n = [m EXCEPT !.email = e]
      <4>1. PICK m \in memberships : m.email = x.email /\ n = [m EXCEPT !.email = e]
        BY <3>2
      <4>2. n.of = m.of /\ n.user = m.user /\ n.email = e
        BY <4>1 DEF Shape
      <4>3. m.user = x.id
        BY <1>3, <4>1
      <4> QED
        BY <1>1, <4>2, <4>3 DEF MembersAreCurrentUsers, UpdateUser
    <3> QED
      BY <1>4, <3>1, <3>2
  <2>2. ASSUME NEW n \in teamMembers'
        PROVE  /\ [email |-> n.email, id |-> n.user] \in users'
               /\ \E t \in teams' : t.id = n.of /\ t.org = n.org
               /\ \E k \in memberships' : k.of = n.org /\ k.email = n.email
    <3>1. CASE n \in teamMembers /\ n.email # x.email
      BY <1>1, <1>4, <3>1 DEF MembersAreCurrentUsers, UpdateUser
    <3>2. CASE \E m \in teamMembers : m.email = x.email /\ n = [m EXCEPT !.email = e]
      <4>1. PICK m \in teamMembers : m.email = x.email /\ n = [m EXCEPT !.email = e]
        BY <3>2
      <4>2. n.of = m.of /\ n.user = m.user /\ n.email = e /\ n.org = m.org
        BY <4>1 DEF Shape
      <4>3. m.user = x.id
        BY <1>3, <4>1
      <4>4. PICK k \in memberships : k.of = m.org /\ k.email = m.email
        BY DEF MembersAreCurrentUsers
      <4>5. [k EXCEPT !.email = e] \in memberships'
        BY <1>4, <4>1, <4>4
      <4>6. [k EXCEPT !.email = e].of = n.org /\ [k EXCEPT !.email = e].email = n.email
        BY <4>2, <4>4 DEF Shape
      <4> QED
        <5>1. [email |-> n.email, id |-> n.user] \in users'
          BY <1>1, <4>2, <4>3
        <5>2. \E t \in teams' : t.id = n.of /\ t.org = n.org
          BY <4>2 DEF MembersAreCurrentUsers, UpdateUser
        <5> QED
          BY <5>1, <5>2, <4>5, <4>6
    <3> QED
      BY <1>5, <3>1, <3>2
  <2> QED
    BY <2>1, <2>2 DEF MembersAreCurrentUsers
<1>10. GrantsAreHeldByMembers'
  <2>1. SUFFICES ASSUME NEW h \in grants'
                 PROVE  \E p \in projects' :
                          /\ p.ref = h.ref
                          /\ \/ /\ h.type = "user"
                                /\ \E m \in memberships' : m.of = p.org /\ m.user = h.id /\ m.email = h.name
                             \/ /\ h.type = "team"
                                /\ \E t \in teams' : t.org = p.org /\ t.id = h.id /\ t.slug = h.name
    BY DEF GrantsAreHeldByMembers
  <2>2. PICK g \in grants : /\ h.ref = g.ref /\ h.type = g.type /\ h.id = g.id
                            /\ h.name = IF g.type = "user" /\ g.id = x.id THEN e ELSE g.name
    BY <1>6
  <2>3. PICK p \in projects :
           /\ p.ref = g.ref
           /\ \/ /\ g.type = "user"
                 /\ \E m \in memberships : m.of = p.org /\ m.user = g.id /\ m.email = g.name
              \/ /\ g.type = "team"
                 /\ \E t \in teams : t.org = p.org /\ t.id = g.id /\ t.slug = g.name
    BY DEF GrantsAreHeldByMembers
  <2>4. CASE g.type = "team"
    BY <2>2, <2>3, <2>4 DEF UpdateUser
  <2>5. CASE g.type = "user"
    <3>1. PICK m \in memberships : m.of = p.org /\ m.user = g.id /\ m.email = g.name
      BY <2>3, <2>5
    <3>2. CASE g.id = x.id
      <4>1. m.email = x.email
        BY <1>3, <3>1, <3>2
      <4>2. [m EXCEPT !.email = e] \in memberships'
        BY <1>4, <4>1
      <4>3. LET n == [m EXCEPT !.email = e] IN n.of = p.org /\ n.user = h.id /\ n.email = h.name
        BY <2>2, <2>5, <3>1, <3>2 DEF Shape
      <4> QED
        BY <2>2, <2>3, <2>5, <4>2, <4>3 DEF UpdateUser
    <3>3. CASE g.id # x.id
      <4>1. m \in memberships'
        BY <1>3, <1>4, <3>1, <3>3
      <4> QED
        BY <2>2, <2>3, <2>5, <3>1, <3>3, <4>1 DEF UpdateUser
    <3> QED
      BY <3>2, <3>3
  <2> QED
    BY <2>3, <2>4, <2>5
<1> QED
  BY <1>7, <1>8, <1>9, <1>10

LEMMA DeleteUserStep ==
  ASSUME IInv, NEW x \in users, DeleteUser(x)
  PROVE  IInv'
<1> USE DEF IInv, DeleteUser
<1>0. \A m \in memberships \cup teamMembers : [email |-> m.email, id |-> m.user] \in users /\
         (m.email = x.email <=> [email |-> m.email, id |-> m.user] = x) /\ (m.email = x.email => m.user = x.id)
  <2>1. ASSUME NEW m \in memberships \cup teamMembers
        PROVE  LET z == [email |-> m.email, id |-> m.user]
               IN  z \in users /\ (m.email = x.email <=> z = x) /\ (m.email = x.email => m.user = x.id)
    <3> DEFINE z == [email |-> m.email, id |-> m.user]
    <3>1. z \in users /\ z.email = m.email /\ z.id = m.user
      BY DEF MembersAreCurrentUsers
    <3>2. z.email = x.email => z = x
      BY <3>1 DEF Keys
    <3> HIDE DEF z
    <3> QED
      BY <3>1, <3>2 DEF z
  <2> QED
    BY <2>1
<1>1. Shape'
  BY DEF Shape
<1>2. Keys'
  BY DEF Shape, Keys
<1>3. MembersAreCurrentUsers'
  BY <1>0 DEF MembersAreCurrentUsers
<1>4. GrantsAreHeldByMembers'
  BY <1>0 DEF GrantsAreHeldByMembers
<1> QED
  BY <1>1, <1>2, <1>3, <1>4

\* The user an email has after an invitation.
LEMMA InviteUser ==
  ASSUME IInv, NEW e \in Emails, NEW u \in UserIds, Invite(e, u)
  PROVE  /\ users' \subseteq Users
         /\ users \subseteq users'
         /\ [email |-> e, id |-> u] \in users'
         /\ \A x, y \in users' : x.email = y.email \/ x.id = y.id => x = y
<1>1. CASE [email |-> e, id |-> u] \in users /\ users' = users
  BY <1>1 DEF IInv, Shape, Keys
<1>2. CASE /\ \A x \in users : x.email # e
           /\ NewUserId(u)
           /\ users' = users \cup {[email |-> e, id |-> u]}
  BY <1>2 DEF IInv, Shape, Keys, NewUserId
<1> QED
  BY <1>1, <1>2 DEF Invite

LEMMA UpsertOrgMemberStep ==
  ASSUME IInv, NEW o \in OrgIds, NEW e \in Emails, NEW u \in UserIds, NEW r \in AllRoles,
         UpsertOrgMember(o, e, u, r), creating' \subseteq creating
  PROVE  IInv'
<1> USE DEF IInv
<1> DEFINE new == Membership(o, e, u, r)
<1>1. new \in Memberships /\ new.of = o /\ new.email = e /\ new.user = u
  BY DEF Membership
<1>2. /\ memberships' = {n \in memberships : ~(o = n.of /\ e = n.email)} \cup {new}
      /\ UNCHANGED <<orgs, teams, teamMembers, projects, grants>> /\ o \in orgs
  BY <1>1 DEF UpsertOrgMember, Put, SameEntry
<1>3. /\ users' \subseteq Users
      /\ users \subseteq users'
      /\ [email |-> e, id |-> u] \in users'
      /\ \A x, y \in users' : x.email = y.email \/ x.id = y.id => x = y
  BY InviteUser DEF UpsertOrgMember
<1> HIDE DEF new
<1>4. Shape'
  BY <1>1, <1>2, <1>3 DEF Shape
<1>5. Keys'
  BY <1>2, <1>3 DEF Keys
<1>6. MembersAreCurrentUsers'
  BY <1>1, <1>2, <1>3 DEF MembersAreCurrentUsers
<1>7. ASSUME NEW m \in memberships, m.of = o, m.email = e
      PROVE  m.user = u
  <2> DEFINE z == [email |-> m.email, id |-> m.user]
  <2>1. z \in users' /\ z.email = e /\ z.id = m.user
    BY <1>3, <1>7 DEF MembersAreCurrentUsers
  <2> DEFINE y == [email |-> e, id |-> u]
  <2>2. y \in users' /\ y.email = e /\ y.id = u
    BY <1>3
  <2> HIDE DEF z, y
  <2> QED
    BY <1>3, <2>1, <2>2
<1>8. \A m \in memberships : \E n \in memberships' :
        n.of = m.of /\ n.user = m.user /\ n.email = m.email
  BY <1>1, <1>2, <1>7
<1>9. GrantsAreHeldByMembers'
  BY <1>2, <1>8 DEF GrantsAreHeldByMembers
<1> QED
  BY <1>4, <1>5, <1>6, <1>9

LEMMA CreateOrgStep ==
  ASSUME IInv, NEW o \in OrgIds, CreateOrg(o)
  PROVE  IInv'
<1> USE DEF IInv, CreateOrg
<1>1. Shape'
  BY DEF Shape
<1>2. Keys'
  BY DEF Shape, Keys
<1>3. MembersAreCurrentUsers'
  BY DEF Shape, MembersAreCurrentUsers
<1>4. GrantsAreHeldByMembers'
  BY DEF Shape, GrantsAreHeldByMembers
<1> QED
  BY <1>1, <1>2, <1>3, <1>4

LEMMA AddOwnerStep ==
  ASSUME IInv, NEW c \in creating, NEW u \in UserIds, AddOwner(c, u)
  PROVE  IInv'
<1>1. CASE UpsertOrgMember(c.org, c.email, u, "owner")
  <2>1. c.org \in OrgIds /\ c.email \in Emails /\ "owner" \in AllRoles /\ creating' \subseteq creating
    BY DEF IInv, Shape, AddOwner, AllRoles
  <2> QED
    BY <1>1, <2>1, UpsertOrgMemberStep
<1>2. CASE UNCHANGED <<users, orgs, memberships, teams, teamMembers, projects, grants>>
  BY <1>2 DEF AddOwner, IInv, Shape, Keys, MembersAreCurrentUsers, GrantsAreHeldByMembers
<1> QED
  BY <1>1, <1>2 DEF AddOwner

LEMMA DeleteOrgStep ==
  ASSUME IInv, NEW o \in orgs, DeleteOrg(o)
  PROVE  IInv'
<1> USE DEF IInv, DeleteOrg
<1>1. Shape'
  BY DEF Shape
<1>2. Keys'
  BY DEF Shape, Keys
<1>3. MembersAreCurrentUsers'
  BY DEF Shape, MembersAreCurrentUsers
<1>4. GrantsAreHeldByMembers'
  BY DEF Shape, GrantsAreHeldByMembers
<1> QED
  BY <1>1, <1>2, <1>3, <1>4

LEMMA DeleteOrgMemberStep ==
  ASSUME IInv, NEW d \in memberships, DeleteOrgMember(d)
  PROVE  IInv'
<1> USE DEF IInv, DeleteOrgMember, Revoke
<1>1. Shape'
  BY DEF Shape
<1>2. Keys'
  BY DEF Shape, Keys
<1>3. MembersAreCurrentUsers'
  BY DEF Shape, MembersAreCurrentUsers
<1>4. GrantsAreHeldByMembers'
  BY DEF Shape, GrantsAreHeldByMembers
<1> QED
  BY <1>1, <1>2, <1>3, <1>4

LEMMA CreateOrgTeamStep ==
  ASSUME IInv, NEW o \in OrgIds, NEW s \in Slugs, NEW t \in TeamIds, CreateOrgTeam(o, s, t)
  PROVE  IInv'
<1> USE DEF IInv, CreateOrgTeam
<1>1. Shape'
  BY DEF Shape
<1>2. Keys'
  BY DEF Shape, Keys
<1>3. MembersAreCurrentUsers'
  BY DEF Shape, MembersAreCurrentUsers
<1>4. GrantsAreHeldByMembers'
  BY DEF Shape, GrantsAreHeldByMembers
<1> QED
  BY <1>1, <1>2, <1>3, <1>4

LEMMA DeleteOrgTeamStep ==
  ASSUME IInv, NEW t \in teams, DeleteOrgTeam(t)
  PROVE  IInv'
<1> USE DEF IInv, DeleteOrgTeam, Revoke
<1>1. Shape'
  BY DEF Shape
<1>2. Keys'
  BY DEF Shape, Keys
<1>3. MembersAreCurrentUsers'
  BY DEF Shape, MembersAreCurrentUsers
<1>4. GrantsAreHeldByMembers'
  BY DEF Shape, GrantsAreHeldByMembers
<1> QED
  BY <1>1, <1>2, <1>3, <1>4

LEMMA UpsertTeamMemberStep ==
  ASSUME IInv, NEW t \in teams, NEW e \in Emails, NEW u \in UserIds, UpsertTeamMember(t, e, u)
  PROVE  IInv'
<1> USE DEF IInv
<1> DEFINE new == [of |-> t.id, email |-> e, user |-> u, org |-> t.org]
<1>1. new \in TeamMembers /\ new.of = t.id /\ new.email = e /\ new.user = u /\ new.org = t.org
  BY DEF Shape
<1>2. /\ teamMembers' = {n \in teamMembers : ~(t.id = n.of /\ e = n.email)} \cup {new}
      /\ UNCHANGED <<orgs, teams, projects, grants, creating>>
  BY <1>1 DEF UpsertTeamMember, Put, SameEntry
<1>3. /\ users' \subseteq Users
      /\ users \subseteq users'
      /\ [email |-> e, id |-> u] \in users'
      /\ \A x, y \in users' : x.email = y.email \/ x.id = y.id => x = y
  BY InviteUser DEF UpsertTeamMember
<1>4. /\ memberships' \subseteq Memberships
      /\ memberships \subseteq memberships'
      /\ \E m \in memberships' : m.of = t.org /\ m.email = e
      /\ \A m \in memberships' : m \in memberships \/ (m.of = t.org /\ m.email = e /\ m.user = u)
  <2> DEFINE member == Membership(t.org, e, u, "viewer")
  <2>1. member \in Memberships /\ member.of = t.org /\ member.email = e /\ member.user = u
    BY DEF Membership, Shape, AllRoles
  <2>2. memberships' = IF \E m \in memberships : m.of = t.org /\ m.email = e
                         THEN memberships ELSE memberships \cup {member}
    BY DEF UpsertTeamMember
  <2> HIDE DEF member
  <2> QED
    BY <2>1, <2>2 DEF Shape
<1> HIDE DEF new
<1>5. Shape'
  BY <1>1, <1>2, <1>3, <1>4 DEF Shape
<1>6. Keys'
  BY <1>2, <1>3 DEF Keys
<1>7. t.org \in orgs
  BY DEF Keys
<1>8. MembersAreCurrentUsers'
  BY <1>1, <1>2, <1>3, <1>4, <1>7 DEF MembersAreCurrentUsers
<1>9. GrantsAreHeldByMembers'
  BY <1>2, <1>4 DEF GrantsAreHeldByMembers
<1> QED
  BY <1>5, <1>6, <1>8, <1>9

LEMMA DeleteTeamMemberStep ==
  ASSUME IInv, NEW t \in teams, NEW e \in Emails, DeleteTeamMember(t, e)
  PROVE  IInv'
<1> USE DEF IInv, DeleteTeamMember
<1>1. Shape'
  BY DEF Shape
<1>2. Keys'
  BY DEF Shape, Keys
<1>3. MembersAreCurrentUsers'
  BY DEF Shape, MembersAreCurrentUsers
<1>4. GrantsAreHeldByMembers'
  BY DEF Shape, GrantsAreHeldByMembers
<1> QED
  BY <1>1, <1>2, <1>3, <1>4

LEMMA CreateProjectStep ==
  ASSUME IInv, NEW r \in Refs, NEW o \in OrgIds, CreateProject(r, o)
  PROVE  IInv'
<1> USE DEF IInv, CreateProject
<1>1. Shape'
  BY DEF Shape
<1>2. Keys'
  BY DEF Shape, Keys
<1>3. MembersAreCurrentUsers'
  BY DEF Shape, MembersAreCurrentUsers
<1>4. GrantsAreHeldByMembers'
  BY DEF Shape, GrantsAreHeldByMembers
<1> QED
  BY <1>1, <1>2, <1>3, <1>4

LEMMA DeleteProjectStep ==
  ASSUME IInv, NEW p \in projects, DeleteProject(p)
  PROVE  IInv'
<1> USE DEF IInv, DeleteProject
<1>1. Shape'
  BY DEF Shape
<1>2. Keys'
  BY DEF Shape, Keys
<1>3. MembersAreCurrentUsers'
  BY DEF Shape, MembersAreCurrentUsers
<1>4. GrantsAreHeldByMembers'
  BY DEF Shape, GrantsAreHeldByMembers
<1> QED
  BY <1>1, <1>2, <1>3, <1>4

LEMMA UpsertProjectAccessStep ==
  ASSUME IInv, NEW p \in projects, NEW r \in AllRoles, UpsertProjectAccess(p, r)
  PROVE  IInv'
<1> USE DEF IInv
<1>1. /\ UNCHANGED <<users, orgs, memberships, teams, teamMembers, projects, creating>>
      /\ \A g \in grants' : \/ g \in grants
                            \/ /\ g \in Grants /\ g.ref = p.ref /\ g.type = "user"
                               /\ \E m \in memberships : m.of = p.org /\ m.user = g.id /\ m.email = g.name
                            \/ /\ g \in Grants /\ g.ref = p.ref /\ g.type = "team"
                               /\ \E t \in teams : t.org = p.org /\ t.id = g.id /\ t.slug = g.name
  <2>1. ASSUME NEW x \in users, NEW m \in memberships, m.of = p.org, m.email = x.email,
               grants' = Grant(p.ref, "user", x.id, x.email, r)
        PROVE  \A g \in grants' : \/ g \in grants
                                  \/ /\ g \in Grants /\ g.ref = p.ref /\ g.type = "user"
                                     /\ \E n \in memberships : n.of = p.org /\ n.user = g.id /\ n.email = g.name
    <3>1. m.user = x.id
      <4> DEFINE z == [email |-> m.email, id |-> m.user]
      <4>1. z \in users /\ z.email = m.email /\ z.id = m.user
        BY DEF MembersAreCurrentUsers
      <4> HIDE DEF z
      <4> QED
        BY <2>1, <4>1 DEF Keys
    <3> DEFINE new == [ref |-> p.ref, type |-> "user", id |-> x.id, name |-> x.email, role |-> r]
    <3>2. new \in Grants /\ new.ref = p.ref /\ new.type = "user" /\ new.id = x.id /\ new.name = x.email
      BY DEF Shape
    <3>3. \A g \in grants' : g \in grants \/ g = new
      BY <2>1 DEF Grant
    <3> HIDE DEF new
    <3> QED
      BY <2>1, <3>1, <3>2, <3>3
  <2>2. ASSUME NEW t \in teams, t.org = p.org, grants' = Grant(p.ref, "team", t.id, t.slug, r)
        PROVE  \A g \in grants' : \/ g \in grants
                                  \/ /\ g \in Grants /\ g.ref = p.ref /\ g.type = "team"
                                     /\ \E k \in teams : k.org = p.org /\ k.id = g.id /\ k.slug = g.name
    <3> DEFINE new == [ref |-> p.ref, type |-> "team", id |-> t.id, name |-> t.slug, role |-> r]
    <3>1. new \in Grants /\ new.ref = p.ref /\ new.type = "team" /\ new.id = t.id /\ new.name = t.slug
      BY DEF Shape
    <3>2. \A g \in grants' : g \in grants \/ g = new
      BY <2>2 DEF Grant
    <3> HIDE DEF new
    <3> QED
      BY <2>2, <3>1, <3>2
  <2> QED
    BY <2>1, <2>2 DEF UpsertProjectAccess
<1>2. Shape'
  BY <1>1 DEF Shape
<1>3. Keys' /\ MembersAreCurrentUsers'
  BY <1>1 DEF Keys, MembersAreCurrentUsers
<1>4. GrantsAreHeldByMembers'
  BY <1>1 DEF GrantsAreHeldByMembers
<1> QED
  BY <1>2, <1>3, <1>4

LEMMA DeleteProjectAccessStep ==
  ASSUME IInv, NEW p \in projects, NEW type, NEW id, DeleteProjectAccess(p, type, id)
  PROVE  IInv'
<1> USE DEF IInv, DeleteProjectAccess
<1>1. Shape'
  BY DEF Shape
<1>2. Keys' /\ MembersAreCurrentUsers'
  BY DEF Keys, MembersAreCurrentUsers
<1>3. GrantsAreHeldByMembers'
  BY DEF GrantsAreHeldByMembers
<1> QED
  BY <1>1, <1>2, <1>3

-----------------------------------------------------------------------------
LEMMA NextIInv == IInv /\ [Next]_vars => IInv'
<1> SUFFICES ASSUME IInv, [Next]_vars
             PROVE  IInv'
  OBVIOUS
<1>1. CASE UNCHANGED vars
  BY <1>1 DEF vars, IInv, Shape, Keys, MembersAreCurrentUsers, GrantsAreHeldByMembers
<1>2. CASE \E e \in Emails, u \in UserIds : CreateUser(e, u)
  BY <1>2, CreateUserStep
<1>3. CASE \E x \in users, e \in Emails : UpdateUser(x, e)
  BY <1>3, UpdateUserStep
<1>4. CASE \E x \in users : DeleteUser(x)
  BY <1>4, DeleteUserStep
<1>5. CASE \E o \in OrgIds : CreateOrg(o)
  BY <1>5, CreateOrgStep
<1>6. CASE \E c \in creating, u \in UserIds : AddOwner(c, u)
  BY <1>6, AddOwnerStep
<1>7. CASE \E o \in orgs : DeleteOrg(o)
  BY <1>7, DeleteOrgStep
<1>8. CASE \E o \in OrgIds, e \in Emails, u \in UserIds, r \in Roles :
             UpsertOrgMember(o, e, u, r) /\ UNCHANGED creating
  BY <1>8, UpsertOrgMemberStep, RolesAssumption
<1>9. CASE \E m \in memberships : DeleteOrgMember(m)
  BY <1>9, DeleteOrgMemberStep
<1>10. CASE \E o \in OrgIds, s \in Slugs, t \in TeamIds : CreateOrgTeam(o, s, t)
  BY <1>10, CreateOrgTeamStep
<1>11. CASE \E t \in teams : DeleteOrgTeam(t)
  BY <1>11, DeleteOrgTeamStep
<1>12. CASE \E t \in teams, e \in Emails, u \in UserIds : UpsertTeamMember(t, e, u)
  BY <1>12, UpsertTeamMemberStep
<1>13. CASE \E t \in teams, e \in Emails : DeleteTeamMember(t, e)
  BY <1>13, DeleteTeamMemberStep
<1>14. CASE \E r \in Refs, o \in OrgIds : CreateProject(r, o)
  BY <1>14, CreateProjectStep
<1>15. CASE \E p \in projects : DeleteProject(p)
  BY <1>15, DeleteProjectStep
<1>16. CASE \E p \in projects, r \in Roles : UpsertProjectAccess(p, r)
  BY <1>16, UpsertProjectAccessStep, RolesAssumption
<1>17. CASE \E p \in projects, g \in grants : DeleteProjectAccess(p, g.type, g.id)
  BY <1>17, DeleteProjectAccessStep
<1> QED
  BY <1>1, <1>2, <1>3, <1>4, <1>5, <1>6, <1>7, <1>8, <1>9, <1>10, <1>11, <1>12, <1>13,
     <1>14, <1>15, <1>16, <1>17 DEF Next

LEMMA AlwaysIInv == Spec => []IInv
<1>1. Init => IInv
  BY InitIInv
<1>2. IInv /\ [Next]_vars => IInv'
  BY NextIInv
<1> QED
  BY <1>1, <1>2, PTL DEF Spec

\* The maps of the store that IInv does not speak of: an org and an email have one
\* membership, a team and an email one member, an org and a slug one team.
Maps ==
  /\ orgs \subseteq OrgIds
  /\ \A m, n \in memberships : m.of = n.of /\ m.email = n.email => m = n
  /\ \A m, n \in teamMembers : m.of = n.of /\ m.email = n.email => m = n
  /\ \A s, t \in teams : s.org = t.org /\ s.slug = t.slug => s = t

LEMMA UpdateUserMaps ==
  ASSUME IInv, Maps, NEW x \in users, NEW e \in Emails, UpdateUser(x, e)
  PROVE  Maps'
<1>1. x.email \in Emails /\ x.email # e
  BY DEF IInv, Shape, UpdateUser
<1>2. \A m \in memberships \cup teamMembers : m.email # e
  BY DEF UpdateUser, IInv, MembersAreCurrentUsers
<1>3. \A n \in memberships' : \/ n \in memberships /\ n.email # x.email
                              \/ \E m \in memberships :
                                   m.email = x.email /\ n = [m EXCEPT !.email = e]
  <2>1. memberships \in SUBSET Memberships
    BY DEF IInv, Shape
  <2>2. memberships' = Rekey(memberships, x.email, e)
    BY DEF UpdateUser
  <2> QED
    BY <1>1, <1>2, <2>1, <2>2, RekeyMembers
<1>4. \A n \in teamMembers' : \/ n \in teamMembers /\ n.email # x.email
                              \/ \E m \in teamMembers :
                                   m.email = x.email /\ n = [m EXCEPT !.email = e]
  <2>1. teamMembers \in SUBSET TeamMembers
    BY DEF IInv, Shape
  <2>2. teamMembers' = Rekey(teamMembers, x.email, e)
    BY DEF UpdateUser
  <2>3. \A m \in teamMembers : m.email # e
    BY <1>2
  <2>4. \A n \in Rekey(teamMembers, x.email, e) :
          \/ n \in teamMembers /\ n.email # x.email
          \/ \E m \in teamMembers : m.email = x.email /\ n = [m EXCEPT !.email = e]
    BY <1>1, <2>1, <2>3, RekeyTeamMembers
  <2> QED
    BY <2>2, <2>4
<1>5. \A m \in memberships : [m EXCEPT !.email = e].of = m.of /\ [m EXCEPT !.email = e].email = e
  BY DEF IInv, Shape
<1>6. \A m \in teamMembers : [m EXCEPT !.email = e].of = m.of /\ [m EXCEPT !.email = e].email = e
  BY DEF IInv, Shape
<1>7. ASSUME NEW n \in memberships', NEW q \in memberships', n.of = q.of, n.email = q.email
      PROVE  n = q
  <2>1. CASE n.email # e
    <3>1. n \in memberships
      BY <1>3, <1>5, <2>1
    <3>2. q \in memberships
      BY <1>7, <1>3, <1>5, <2>1
    <3> QED
      BY <1>7, <3>1, <3>2, Zenon DEF Maps
  <2>2. CASE n.email = e
    <3>1. PICK m \in memberships : m.email = x.email /\ n = [m EXCEPT !.email = e]
      BY <1>2, <1>3, <2>2
    <3>2. PICK p \in memberships : p.email = x.email /\ q = [p EXCEPT !.email = e]
      BY <1>2, <1>7, <1>3, <2>2
    <3>3. m = p
      BY <1>7, <1>5, <3>1, <3>2 DEF Maps
    <3> QED
      BY <3>1, <3>2, <3>3
  <2> QED
    BY <2>1, <2>2
<1>8. ASSUME NEW n \in teamMembers', NEW q \in teamMembers', n.of = q.of, n.email = q.email
      PROVE  n = q
  <2>1. CASE n.email # e
    <3>1. n \in teamMembers
      BY <1>4, <1>6, <2>1
    <3>2. q \in teamMembers
      BY <1>8, <1>4, <1>6, <2>1
    <3> QED
      BY <1>8, <3>1, <3>2, Zenon DEF Maps
  <2>2. CASE n.email = e
    <3>1. PICK m \in teamMembers : m.email = x.email /\ n = [m EXCEPT !.email = e]
      BY <1>2, <1>4, <2>2
    <3>2. PICK p \in teamMembers : p.email = x.email /\ q = [p EXCEPT !.email = e]
      BY <1>2, <1>8, <1>4, <2>2
    <3>3. m = p
      BY <1>8, <1>6, <3>1, <3>2 DEF Maps
    <3> QED
      BY <3>1, <3>2, <3>3
  <2> QED
    BY <2>1, <2>2
<1> QED
  BY <1>7, <1>8 DEF Maps, UpdateUser

LEMMA UpsertOrgMemberMaps ==
  ASSUME Maps, NEW o, NEW e, NEW u, NEW r, UpsertOrgMember(o, e, u, r)
  PROVE  Maps'
  BY DEF Maps, UpsertOrgMember, Put, SameEntry

LEMMA NextMaps == IInv /\ Maps /\ [Next]_vars => Maps'
<1> SUFFICES ASSUME IInv, Maps, [Next]_vars PROVE Maps'
  OBVIOUS
<1>1. CASE UNCHANGED vars
  BY <1>1 DEF vars, Maps
<1>2. CASE \/ \E e \in Emails, u \in UserIds : CreateUser(e, u)
           \/ \E x \in users : DeleteUser(x)
           \/ \E o \in OrgIds : CreateOrg(o)
           \/ \E o \in orgs : DeleteOrg(o)
           \/ \E m \in memberships : DeleteOrgMember(m)
           \/ \E t \in teams : DeleteOrgTeam(t)
           \/ \E t \in teams, e \in Emails : DeleteTeamMember(t, e)
  BY <1>2 DEF Maps, CreateUser, DeleteUser, CreateOrg, DeleteOrg, DeleteOrgMember,
              DeleteOrgTeam, DeleteTeamMember
<1>3. CASE \E x \in users, e \in Emails : UpdateUser(x, e)
  BY <1>3, UpdateUserMaps
<1>4. CASE \E c \in creating, u \in UserIds : AddOwner(c, u)
  BY <1>4, UpsertOrgMemberMaps DEF AddOwner, Maps
<1>5. CASE \E o \in OrgIds, e \in Emails, u \in UserIds, r \in Roles :
             UpsertOrgMember(o, e, u, r) /\ UNCHANGED creating
  BY <1>5, UpsertOrgMemberMaps
<1>6. CASE \E o \in OrgIds, s \in Slugs, t \in TeamIds : CreateOrgTeam(o, s, t)
  BY <1>6 DEF Maps, CreateOrgTeam
<1>7. CASE \E t \in teams, e \in Emails, u \in UserIds : UpsertTeamMember(t, e, u)
  <2> PICK t \in teams, e \in Emails, u \in UserIds : UpsertTeamMember(t, e, u)
    BY <1>7
  <2> DEFINE m1 == Membership(t.org, e, u, "viewer")
             m2 == [of |-> t.id, email |-> e, user |-> u, org |-> t.org]
  <2>1. m1.of = t.org /\ m1.email = e /\ m2.of = t.id /\ m2.email = e
    BY DEF Membership
  <2>2. /\ \/ memberships' = memberships
           \/ /\ memberships' = memberships \cup {m1}
              /\ \A m \in memberships : ~(m.of = t.org /\ m.email = e)
        /\ teamMembers' = {n \in teamMembers : ~(n.of = t.id /\ n.email = e)} \cup {m2}
        /\ UNCHANGED <<orgs, teams>>
    BY DEF UpsertTeamMember, Put, SameEntry
  <2> HIDE DEF m1, m2
  <2> QED
    BY <2>1, <2>2 DEF Maps
<1>8. CASE \/ \E r \in Refs, o \in OrgIds : CreateProject(r, o)
           \/ \E p \in projects : DeleteProject(p)
           \/ \E p \in projects, r \in Roles : UpsertProjectAccess(p, r)
           \/ \E p \in projects, g \in grants : DeleteProjectAccess(p, g.type, g.id)
  BY <1>8 DEF Maps, CreateProject, DeleteProject, UpsertProjectAccess, DeleteProjectAccess
<1> QED
  BY <1>1, <1>2, <1>3, <1>4, <1>5, <1>6, <1>7, <1>8 DEF Next

\* The sets of records are the store's maps, in every reachable state: no method
\* leaves two entries under one key.
THEOREM TypeCorrect == Spec => []TypeOK
<1>1. Init => Maps
  BY DEF Init, Maps
<1>2. IInv /\ Maps => TypeOK
  BY DEF IInv, Shape, Keys, Maps, TypeOK, IsMap, SameEmail, SameEntry, SameSlug, SameRef
<1> QED
  BY <1>1, <1>2, AlwaysIInv, NextMaps, PTL DEF Spec

\* However users, orgs, teams and projects come, go and change their names,
\* memberships and team members name the current users of their emails, and
\* grants are held by current members and teams.
THEOREM AccessMapsAgree == Spec => []MapsAgree
<1>1. IInv => MapsAgree
  BY DEF IInv, MapsAgree
<1> QED
  BY <1>1, AlwaysIInv, PTL

-----------------------------------------------------------------------------
\* The highest of some roles reaches a rank when one of them does.
LEMMA HighestReaches ==
  ASSUME NEW S \in SUBSET AllRoles, NEW minimum \in AllRoles
  PROVE  Rank[Highest(S)] >= Rank[minimum] <=> \E r \in S : Rank[r] >= Rank[minimum]
<1> USE DEF Rank, AllRoles
<1>1. CASE S = {}
  BY <1>1 DEF Highest
<1>2. CASE S # {}
  <2>1. \E r \in S : \A s \in S : Rank[r] >= Rank[s]
    <3>1. CASE "owner" \in S
      BY <3>1
    <3>2. CASE "owner" \notin S /\ "admin" \in S
      BY <3>2
    <3>3. CASE "owner" \notin S /\ "admin" \notin S /\ "developer" \in S
      BY <3>3
    <3>4. CASE S = {"viewer"}
      BY <3>4
    <3> QED
      BY <1>2, <3>1, <3>2, <3>3, <3>4
  <2>2. Highest(S) \in S /\ \A s \in S : Rank[Highest(S)] >= Rank[s]
    BY <1>2, <2>1 DEF Highest
  <2>3. \A r \in AllRoles : Rank[r] \in Int
    OBVIOUS
  <2> HIDE DEF Rank, AllRoles
  <2> QED
    BY <2>2, <2>3
<1> QED
  BY <1>1, <1>2

\* In every reachable state, for every user, project and minimum role, the
\* org's access review lists a sufficient effective role exactly when a
\* request of that user passes requireProjectRole.
THEOREM ReviewIsTruthful == Spec => []ReviewMatchesAuthorisation
<1>1. ASSUME IInv
      PROVE  ReviewMatchesAuthorisation
  <2> SUFFICES ASSUME NEW p \in projects, NEW x \in users, NEW minimum \in AllRoles
               PROVE  RequireProjectRole(p, x, minimum)
                        <=> Rank[EffectiveRole(p, x.email)] >= Rank[minimum]
    BY DEF ReviewMatchesAuthorisation
  <2> DEFINE Org == {m.role : m \in {n \in memberships : n.of = p.org /\ n.email = x.email}}
             Checked == {h \in grants : /\ h.ref = p.ref
                                        /\ \/ h.type = "user" /\ h.id = x.id
                                           \/ h.type = "team" /\ InTeam(h.id, p.org, x.email)}
             Listed == {h \in grants : /\ h.ref = p.ref
                                       /\ \/ h.type = "user" /\ \E m \in memberships :
                                               m.of = p.org /\ m.email = x.email /\ m.user = h.id
                                          \/ h.type = "team" /\ InTeam(h.id, p.org, x.email)}
  <2>1. ASSUME NEW m \in memberships
        PROVE  m.email = x.email <=> m.user = x.id
    <3> DEFINE z == [email |-> m.email, id |-> m.user]
    <3>1. z \in users /\ z.email = m.email /\ z.id = m.user
      BY <1>1 DEF IInv, MembersAreCurrentUsers
    <3>2. (z.email = x.email \/ z.id = x.id) => z = x
      BY <1>1, <3>1 DEF IInv, Keys
    <3> HIDE DEF z
    <3> QED
      BY <3>1, <3>2
  <2>2. ASSUME NEW h \in grants, h.ref = p.ref, h.type = "user", h.id = x.id
        PROVE  \E m \in memberships : m.of = p.org /\ m.email = x.email /\ m.user = h.id
    <3>1. PICK q \in projects : /\ q.ref = h.ref
                                /\ \E m \in memberships : m.of = q.org /\ m.user = h.id
      BY <1>1, <2>2 DEF IInv, GrantsAreHeldByMembers
    <3>2. q = p
      BY <1>1, <2>2, <3>1 DEF IInv, Keys
    <3> QED
      BY <2>1, <2>2, <3>1, <3>2
  <2>3. \A h \in grants : h \in Checked <=> h \in Listed
    BY <2>1, <2>2
  <2>4. {g.role : g \in Checked} = {g.role : g \in Listed}
    <3> HIDE DEF Checked, Listed
    <3>1. Checked \subseteq grants /\ Listed \subseteq grants
      BY DEF Checked, Listed
    <3>2. Checked = Listed
      BY <2>3, <3>1
    <3> QED
      BY <3>2
  <2>5. Org \subseteq AllRoles /\ {g.role : g \in Listed} \subseteq AllRoles
    BY <1>1 DEF IInv, Shape
  <2>6. /\ OrgRole(p.org, x.email) = Highest(Org)
        /\ ResolveProjectRole(p, x) = Highest({g.role : g \in Listed})
        /\ EffectiveRole(p, x.email) = Highest(Org \cup {g.role : g \in Listed})
    <3>1. ResolveProjectRole(p, x) = Highest({g.role : g \in Checked})
      BY DEF ResolveProjectRole
    <3>2. EffectiveRole(p, x.email) = Highest(Org \cup {g.role : g \in Listed})
      BY DEF EffectiveRole
    <3>3. OrgRole(p.org, x.email) = Highest(Org)
      BY DEF OrgRole
    <3> QED
      BY <2>4, <3>1, <3>2, <3>3
  <2> DEFINE Granted == {g.role : g \in Listed}
  <2>7. Org \in SUBSET AllRoles /\ Granted \in SUBSET AllRoles /\ (Org \cup Granted) \in SUBSET AllRoles
    BY <2>5
  <2> HIDE DEF Org, Granted
  <2>8. RequireProjectRole(p, x, minimum)
          <=> (\E r \in Org : Rank[r] >= Rank[minimum]) \/ (\E r \in Granted : Rank[r] >= Rank[minimum])
    <3>1. Rank[Highest(Org)] >= Rank[minimum] <=> \E r \in Org : Rank[r] >= Rank[minimum]
      BY <2>7, HighestReaches
    <3>2. Rank[Highest(Granted)] >= Rank[minimum] <=> \E r \in Granted : Rank[r] >= Rank[minimum]
      BY <2>7, HighestReaches
    <3>3. ResolveProjectRole(p, x) = Highest(Granted)
      BY <2>6 DEF Granted
    <3> QED
      BY <2>6, <3>1, <3>2, <3>3 DEF RequireProjectRole
  <2>9. Rank[EffectiveRole(p, x.email)] >= Rank[minimum]
          <=> \E r \in Org \cup Granted : Rank[r] >= Rank[minimum]
    <3>1. EffectiveRole(p, x.email) = Highest(Org \cup Granted)
      BY <2>6 DEF Granted
    <3> QED
      BY <2>7, <3>1, HighestReaches
  <2> QED
    BY <2>8, <2>9
<1> QED
  BY <1>1, AlwaysIInv, PTL

-----------------------------------------------------------------------------
\* Who passes requireProjectRole: somebody with a membership, a grant or a
\* team's grant of a sufficient role.
Sufficient(p, x, minimum) ==
  \/ \E m \in memberships : m.of = p.org /\ m.email = x.email /\ Rank[m.role] >= Rank[minimum]
  \/ \E g \in grants : /\ g.ref = p.ref /\ Rank[g.role] >= Rank[minimum]
                       /\ \/ g.type = "user" /\ g.id = x.id
                          \/ g.type = "team" /\ InTeam(g.id, p.org, x.email)

ChecksAgree ==
  \A p \in Projects, x \in Users, minimum \in AllRoles :
    RequireProjectRole(p, x, minimum) <=> Sufficient(p, x, minimum)

LEMMA PassesWhenSufficient == Shape => ChecksAgree
<1> SUFFICES ASSUME Shape, NEW p \in Projects, NEW x \in Users, NEW minimum \in AllRoles
             PROVE  RequireProjectRole(p, x, minimum) <=> Sufficient(p, x, minimum)
  BY DEF ChecksAgree
<1> DEFINE Org == {m.role : m \in {n \in memberships : n.of = p.org /\ n.email = x.email}}
           Granted == {g.role : g \in {h \in grants :
                         /\ h.ref = p.ref
                         /\ \/ h.type = "user" /\ h.id = x.id
                            \/ h.type = "team" /\ InTeam(h.id, p.org, x.email)}}
<1>1. Org \in SUBSET AllRoles /\ Granted \in SUBSET AllRoles
  BY DEF Shape
<1>2. OrgRole(p.org, x.email) = Highest(Org) /\ ResolveProjectRole(p, x) = Highest(Granted)
  BY DEF OrgRole, ResolveProjectRole
<1>3. (\E r \in Org : Rank[r] >= Rank[minimum])
        <=> \E m \in memberships : m.of = p.org /\ m.email = x.email /\ Rank[m.role] >= Rank[minimum]
  OBVIOUS
<1>4. (\E r \in Granted : Rank[r] >= Rank[minimum])
        <=> \E g \in grants : /\ g.ref = p.ref /\ Rank[g.role] >= Rank[minimum]
                              /\ \/ g.type = "user" /\ g.id = x.id
                                 \/ g.type = "team" /\ InTeam(g.id, p.org, x.email)
  OBVIOUS
<1> HIDE DEF Org, Granted
<1>5. Rank[Highest(Org)] >= Rank[minimum] <=> \E r \in Org : Rank[r] >= Rank[minimum]
  BY <1>1, HighestReaches
<1>6. Rank[Highest(Granted)] >= Rank[minimum] <=> \E r \in Granted : Rank[r] >= Rank[minimum]
  BY <1>1, HighestReaches
<1> QED
  BY <1>2, <1>3, <1>4, <1>5, <1>6 DEF RequireProjectRole, Sufficient

\* An entry of the renamed user, and of anybody else, after the rename.
LEMMA RekeyEntries ==
  ASSUME NEW S, NEW e, NEW f, e # f, \A m \in S : m.email # f,
         \A m \in S : /\ [m EXCEPT !.email = f].email = f
                      /\ [m EXCEPT !.email = f].of = m.of
  PROVE  Rekey(S, e, f) = {m \in S : m.email # e}
                            \cup {[m EXCEPT !.email = f] : m \in {n \in S : n.email = e}}
  BY DEF Rekey, SameEntry

LEMMA RenameStep ==
  ASSUME IInv, IInv', NEW x \in users, NEW e \in Emails, UpdateUser(x, e),
         NEW y \in users, NEW z \in users', z.id = y.id,
         NEW p \in projects, NEW minimum \in AllRoles
  PROVE  Sufficient(p, y, minimum) <=> Sufficient(p, z, minimum)'
<1> DEFINE After(m) == IF m.email = x.email THEN [m EXCEPT !.email = e] ELSE m
           Shown(g) == IF g.type = "user" /\ g.id = x.id THEN [g EXCEPT !.name = e] ELSE g
<1>1. \A u, v \in users : u.email = v.email \/ u.id = v.id => u = v
  BY DEF IInv, Keys
<1>2. x \in Users /\ y \in Users /\ x.email # e /\ \A u \in users : u.email # e
  BY DEF UpdateUser, IInv, Shape
\* The user under the new state is the same user, renamed or not.
<1>3. z.email = IF y = x THEN e ELSE y.email
  <2>1. users' = (users \ {x}) \cup {[x EXCEPT !.email = e]}
    BY DEF UpdateUser
  <2>2. [x EXCEPT !.email = e].id = x.id /\ [x EXCEPT !.email = e].email = e
    BY <1>2
  <2>3. CASE y = x
    BY <1>1, <2>1, <2>2, <2>3
  <2>4. CASE y # x
    BY <1>1, <2>1, <2>2, <2>4
  <2> QED
    BY <2>3, <2>4
<1>4. /\ \A m \in memberships : m \in Memberships /\ m.email # e
      /\ \A m \in teamMembers : m \in TeamMembers /\ m.email # e
  BY <1>2 DEF IInv, Shape, MembersAreCurrentUsers
<1>5. \A m \in memberships \cup teamMembers : m.email = y.email <=> After(m).email = z.email
  <2>1. \A m \in memberships \cup teamMembers : After(m).email = IF m.email = x.email THEN e ELSE m.email
    BY <1>4
  <2>2. y.email = x.email <=> y = x
    BY <1>1
  <2>3. y.email # e
    BY <1>2
  <2> HIDE DEF After
  <2> QED
    BY <1>3, <1>4, <2>1, <2>2, <2>3
<1>6. /\ \A m \in memberships : After(m).of = m.of /\ After(m).role = m.role
      /\ \A m \in teamMembers : After(m).of = m.of /\ After(m).org = m.org
  BY <1>4
<1>7. memberships' = {After(m) : m \in memberships} /\ teamMembers' = {After(m) : m \in teamMembers}
  <2>1. memberships' = Rekey(memberships, x.email, e) /\ teamMembers' = Rekey(teamMembers, x.email, e)
    BY DEF UpdateUser
  <2>2. Rekey(memberships, x.email, e) = {m \in memberships : m.email # x.email}
           \cup {[m EXCEPT !.email = e] : m \in {n \in memberships : n.email = x.email}}
    BY <1>2, <1>4, RekeyEntries
  <2>3. Rekey(teamMembers, x.email, e) = {m \in teamMembers : m.email # x.email}
           \cup {[m EXCEPT !.email = e] : m \in {n \in teamMembers : n.email = x.email}}
    BY <1>2, <1>4, RekeyEntries
  <2> QED
    BY <2>1, <2>2, <2>3
<1>8. grants' = {Shown(g) : g \in grants}
  BY DEF UpdateUser
<1>9. \A g \in grants : /\ Shown(g).ref = g.ref /\ Shown(g).role = g.role
                        /\ Shown(g).type = g.type /\ Shown(g).id = g.id
  BY DEF IInv, Shape
<1> HIDE DEF After, Shown
<1>10. \A t, o : InTeam(t, o, y.email) <=> \E m \in teamMembers' : m.of = t /\ m.org = o /\ m.email = z.email
  BY <1>5, <1>6, <1>7 DEF InTeam
<1>11. (\E m \in memberships : m.of = p.org /\ m.email = y.email /\ Rank[m.role] >= Rank[minimum])
         <=> \E m \in memberships' : m.of = p.org /\ m.email = z.email /\ Rank[m.role] >= Rank[minimum]
  BY <1>5, <1>6, <1>7
<1>12. (\E g \in grants : /\ g.ref = p.ref /\ Rank[g.role] >= Rank[minimum]
                          /\ \/ g.type = "user" /\ g.id = y.id
                             \/ g.type = "team" /\ InTeam(g.id, p.org, y.email))
         <=> \E g \in grants' : /\ g.ref = p.ref /\ Rank[g.role] >= Rank[minimum]
                                /\ \/ g.type = "user" /\ g.id = z.id
                                   \/ /\ g.type = "team"
                                      /\ \E m \in teamMembers' : m.of = g.id /\ m.org = p.org /\ m.email = z.email
  BY <1>8, <1>9, <1>10
<1> QED
  BY <1>11, <1>12 DEF Sufficient, InTeam

\* Changing somebody's email changes nobody's access to any project: UpdateUser
\* moves the entries in every map that is keyed by email, and grants stay with
\* the user's id.
THEOREM RenamesKeepAccess == Spec => RenameKeepsAccess
<1> DEFINE Step ==
      \A x \in users, e \in Emails : UpdateUser(x, e) =>
        \A y \in users, z \in users', p \in projects, minimum \in AllRoles :
          z.id = y.id => (RequireProjectRole(p, y, minimum) <=> RequireProjectRole(p, z, minimum)')
<1>1. Shape' => ChecksAgree'
  BY PassesWhenSufficient, PTL
<1>2. IInv /\ IInv' /\ [Next]_vars => [Step]_vars
  <2> SUFFICES ASSUME IInv, IInv', NEW x \in users, NEW e \in Emails, UpdateUser(x, e),
                      NEW y \in users, NEW z \in users', NEW p \in projects, NEW minimum \in AllRoles,
                      z.id = y.id
               PROVE  RequireProjectRole(p, y, minimum) <=> RequireProjectRole(p, z, minimum)'
    OBVIOUS
  <2>1. Shape /\ Shape' /\ y \in Users /\ z \in Users /\ p \in Projects
    BY DEF IInv, Shape
  <2>2. Sufficient(p, y, minimum) <=> Sufficient(p, z, minimum)'
    BY RenameStep
  <2>3. RequireProjectRole(p, y, minimum) <=> Sufficient(p, y, minimum)
    BY <2>1, PassesWhenSufficient DEF ChecksAgree
  <2>4. RequireProjectRole(p, z, minimum)' <=> Sufficient(p, z, minimum)'
    BY <1>1, <2>1 DEF ChecksAgree
  <2> QED
    BY <2>2, <2>3, <2>4
<1> QED
  BY <1>2, AlwaysIInv, PTL DEF Spec, RenameKeepsAccess

==============================================================================
