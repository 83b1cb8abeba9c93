------------------------------ MODULE Placement ------------------------------
(***************************************************************************)
(* Orgs, hosts, projects, branches and read replicas in the control store  *)
(* (internal/control/store.go).  Every method runs under the store mutex,  *)
(* so each is one action; what can go wrong is the bookkeeping that many   *)
(* methods share: the reserved capacity a host CARRIES as a running total, *)
(* the org usage that is recomputed, the branch registry and the replica   *)
(* roles.                                                                  *)
(*                                                                         *)
(* CPU, RAM and disk are treated alike by the code and are one dimension   *)
(* here, "units"; the project count is the other.  A limit of 0 means      *)
(* unlimited.                                                              *)
(***************************************************************************)
EXTENDS Integers, FiniteSets, Functions

CONSTANTS Orgs, Hosts, Refs,
          Names,          \* replica names, numbers for their order
          Sizes,          \* units a project can reserve
          ReplicaSizes,   \* units a replica can reserve
          Statuses,       \* the statuses of a replica
          Limits,         \* limits an operator can set, 0 for none
          Priorities,     \* failover priorities
          NoHost          \* an unplaced project or replica

ASSUME NamesAssumption == Names \subseteq Nat
ASSUME SizesAssumption == Sizes \cup ReplicaSizes \subseteq Nat \ {0}
ASSUME StatusesAssumption == {"provisioning", "healthy"} \subseteq Statuses
ASSUME PrioritiesAssumption == Priorities \subseteq Nat \ {0}
ASSUME NoHostAssumption == NoHost \notin Hosts

VARIABLES orgs,       \* the orgs that exist
          quota,      \* per org: its limits, all 0 until set
          hosts,      \* the hosts that exist
          capacity,   \* per host: its limits
          used,       \* per host: the reserved capacity it carries
          spec,       \* per existing project ref: its org, host and size
          branches,   \* the branch registry: pairs of source and branch ref
          replicas    \* per ref: the set of its replicas

vars == <<orgs, quota, hosts, capacity, used, spec, branches, replicas>>

orgVars == <<orgs, quota>>
hostVars == <<hosts, capacity>>

\* The project refs that exist.
live == DOMAIN spec

Capacity == [units : Nat, projects : Nat]
Zero == [units |-> 0, projects |-> 0]
Placements == Hosts \cup {NoHost}
Specs == [org : Orgs, host : Placements, size : Sizes]
Replicas == [name : Names, host : Placements, size : ReplicaSizes, status : Statuses,
             role : {"read", "primary"}, priority : Priorities]

ASSUME LimitsAssumption == Limits \subseteq Capacity

TypeOK ==
  /\ orgs \in SUBSET Orgs
  /\ quota \in [Orgs -> Capacity]
  /\ hosts \in SUBSET Hosts
  /\ capacity \in [Hosts -> Capacity]
  /\ used \in [Hosts -> Capacity]
  /\ spec \in UNION {[S -> Specs] : S \in SUBSET Refs}
  /\ branches \in SUBSET (Refs \X Refs)
  /\ replicas \in [Refs -> SUBSET Replicas]
  /\ \A h \in Hosts \ hosts : used[h] = Zero

Init ==
  /\ orgs = {}
  /\ quota = [o \in Orgs |-> Zero]
  /\ hosts = {}
  /\ capacity = [h \in Hosts |-> Zero]
  /\ used = [h \in Hosts |-> Zero]
  /\ spec = [p \in {} |-> {}]
  /\ branches = {}
  /\ replicas = [p \in Refs |-> {}]
-----------------------------------------------------------------------------
\* resourceReservationForSpec and replicaReservationForTier: a replica takes
\* units but is no project.
ProjectReservation(size) == [units |-> size, projects |-> 1]
ReplicaReservation(size) == [units |-> size, projects |-> 0]

\* addHostCapacity, subtractHostCapacity: the difference stops at 0.
Add(a, b) == [units |-> a.units + b.units, projects |-> a.projects + b.projects]

AtLeastZero(n) == IF n < 0 THEN 0 ELSE n

Subtract(a, b) == [units |-> AtLeastZero(a.units - b.units),
                   projects |-> AtLeastZero(a.projects - b.projects)]

\* capacityWithinLimit, quotaWithinLimit.
WithinLimit(next, limit) == limit = 0 \/ next <= limit

Within(next, limit) == /\ WithinLimit(next.units, limit.units)
                       /\ WithinLimit(next.projects, limit.projects)

HostHasCapacity(h, reservation) == Within(Add(used[h], reservation), capacity[h])

\* orgUsageLocked: recomputed from the projects and the replicas.
ProjectsOf(o) == {p \in live : spec[p].org = o}

UnitsOf(p) == spec[p].size + SumFunction([x \in replicas[p] |-> x.size])

OrgUsage(o) == [units |-> SumFunction([p \in ProjectsOf(o) |-> UnitsOf(p)]),
                projects |-> Cardinality(ProjectsOf(o))]

OrgQuotaAllows(o, reservation) == Within(Add(OrgUsage(o), reservation), quota[o])

\* (mutant of OrgReplicaQuotaAllows) replicas are free of charge
ReplicasAreFree(o, reservation) == TRUE

\* validateOrgReplicaQuotaLocked does not look at the project count.
OrgReplicaQuotaAllows(o, reservation) ==
  WithinLimit(OrgUsage(o).units + reservation.units, quota[o].units)

\* host.Used of one host moves by a reservation; an unplaced one moves nothing.
Reserve(h, reservation) ==
  [g \in Hosts |-> IF g = h THEN Add(used[g], reservation) ELSE used[g]]

\* The host is unset, or exists and has room.
CanReserve(h, reservation) ==
  h = NoHost \/ (h \in hosts /\ HostHasCapacity(h, reservation))
-----------------------------------------------------------------------------
CreateOrg(o) ==
  /\ o \notin orgs
  /\ orgs' = orgs \cup {o}
  /\ quota' = [quota EXCEPT ![o] = Zero]
  /\ UNCHANGED <<hostVars, used, spec, branches, replicas>>

\* (mutant of DeleteOrg) the projects of the org are not looked at
DeleteOrgWithProjects(o) ==
  /\ o \in orgs
  /\ orgs' = orgs \ {o}
  /\ quota' = [quota EXCEPT ![o] = Zero]
  /\ UNCHANGED <<hostVars, used, spec, branches, replicas>>

\* Refused while a project belongs to the org.
DeleteOrg(o) ==
  /\ o \in orgs
  /\ ProjectsOf(o) = {}
  /\ orgs' = orgs \ {o}
  /\ quota' = [quota EXCEPT ![o] = Zero]
  /\ UNCHANGED <<hostVars, used, spec, branches, replicas>>

\* A quota may be set below the current usage.
UpdateOrgQuota(o, limit) ==
  /\ o \in orgs
  /\ quota' = [quota EXCEPT ![o] = limit]
  /\ UNCHANGED <<orgs, hostVars, used, spec, branches, replicas>>

CreateHost(h, limit) ==
  /\ h \notin hosts
  /\ hosts' = hosts \cup {h}
  /\ capacity' = [capacity EXCEPT ![h] = limit]
  /\ used' = [used EXCEPT ![h] = Zero]
  /\ UNCHANGED <<orgVars, spec, branches, replicas>>

\* Refused while the host carries a reservation.
DeleteHost(h) ==
  /\ h \in hosts
  /\ used[h] = Zero
  /\ hosts' = hosts \ {h}
  /\ capacity' = [capacity EXCEPT ![h] = Zero]
  /\ UNCHANGED <<orgVars, used, spec, branches, replicas>>

\* defaultHostForReservationLocked: among the hosts with room one with the
\* fewest projects, then the fewest reserved units; no host if none has room.
DefaultHosts(reservation) ==
  LET fits == {h \in hosts : HostHasCapacity(h, reservation)}
      better(g, h) == \/ used[g].projects < used[h].projects
                      \/ used[g].projects = used[h].projects /\ used[g].units < used[h].units
  IN IF fits = {} THEN {NoHost} ELSE {h \in fits : \A g \in fits : ~better(g, h)}

\* The project table with one more project.
With(p, s) == [q \in live \cup {p} |-> IF q = p THEN s ELSE spec[q]]

CreateProject(p, o, requested, size) ==
  LET reservation == ProjectReservation(size)
  IN /\ o \in orgs
     /\ p \notin live
     /\ OrgQuotaAllows(o, reservation)
     /\ \E h \in IF requested = NoHost THEN DefaultHosts(reservation) ELSE {requested} :
          /\ CanReserve(h, reservation)
          /\ used' = Reserve(h, reservation)
          /\ spec' = With(p, [org |-> o, host |-> h, size |-> size])
     /\ UNCHANGED <<orgVars, hostVars, branches, replicas>>

\* A branch copies org, host and sizing of its source; the host must have room.
CreateProjectBranch(source, p) ==
  LET reservation == ProjectReservation(spec[source].size)
  IN /\ source \in live
     /\ p \notin live
     /\ OrgQuotaAllows(spec[source].org, reservation)
     /\ CanReserve(spec[source].host, reservation)
     /\ used' = Reserve(spec[source].host, reservation)
     /\ spec' = With(p, spec[source])
     /\ branches' = branches \cup {<<source, p>>}
     /\ UNCHANGED <<orgVars, hostVars, replicas>>

\* UpdateProjectResourceTier and UpdateProjectResources: quota and host are
\* checked with the old reservation taken out and the new one put in.
UpdateProjectResources(p, size) ==
  LET old == ProjectReservation(spec[p].size)
      new == ProjectReservation(size)
      h == spec[p].host
      nextUsed == Add(Subtract(used[h], old), new)
  IN /\ p \in live
     /\ Within(Add(Subtract(OrgUsage(spec[p].org), old), new), quota[spec[p].org])
     /\ IF h = NoHost THEN UNCHANGED used
        ELSE /\ h \in hosts
             /\ Within(nextUsed, capacity[h])
             /\ used' = [used EXCEPT ![h] = nextUsed]
     /\ spec' = [spec EXCEPT ![p].size = size]
     /\ UNCHANGED <<orgVars, hostVars, branches, replicas>>

\* The units the replicas of p hold on a host.
ReplicaUnits(p, h) ==
  SumFunction([x \in {y \in replicas[p] : y.host = h} |-> x.size])

\* (mutant of ReleasedBy) the replicas of a deleted project keep their units
ReleasedWithoutReplicas(p, h) ==
  IF spec[p].host = h THEN ProjectReservation(spec[p].size) ELSE Zero

\* What deleteProjectLocked takes back from a host: project, then replicas.
ReleasedBy(p, h) ==
  Add(IF spec[p].host = h THEN ProjectReservation(spec[p].size) ELSE Zero,
      ReplicaReservation(ReplicaUnits(p, h)))

\* (mutant of BranchesWithout) only the branches OF the project are forgotten
BranchesWithoutSource(p) == {b \in branches : b[1] # p}

\* The registry forgets the branches of the project and the project as a branch.
BranchesWithout(p) == {b \in branches : b[1] # p /\ b[2] # p}

\* deleteProjectLocked.  The branches of a deleted source stay as projects.
DeleteProject(p) ==
  /\ p \in live
  /\ used' = [h \in Hosts |-> IF h \in hosts THEN Subtract(used[h], ReleasedBy(p, h))
                                            ELSE used[h]]
  /\ spec' = [q \in live \ {p} |-> spec[q]]
  /\ branches' = BranchesWithout(p)
  /\ replicas' = [replicas EXCEPT ![p] = {}]
  /\ UNCHANGED <<orgVars, hostVars>>

DeleteProjectBranch(source, p) ==
  /\ source \in live
  /\ <<source, p>> \in branches
  /\ DeleteProject(p)
-----------------------------------------------------------------------------
ReplicaNameFree(p, name) == \A x \in replicas[p] : x.name # name

\* A replica starts as a provisioning read replica.
CreateProjectReplica(p, name, h, size, priority) ==
  LET reservation == ReplicaReservation(size)
  IN /\ p \in live
     /\ ReplicaNameFree(p, name)
     /\ OrgReplicaQuotaAllows(spec[p].org, reservation)
     /\ CanReserve(h, reservation)
     /\ used' = Reserve(h, reservation)
     /\ replicas' = [replicas EXCEPT ![p] = @ \cup
          {[name |-> name, host |-> h, size |-> size, status |-> "provisioning",
            role |-> "read", priority |-> priority]}]
     /\ UNCHANGED <<orgVars, hostVars, spec, branches>>

\* Replace one replica of a project by a changed one.
Put(p, x, y) == replicas' = [replicas EXCEPT ![p] = (@ \ {x}) \cup {y}]

UpdateProjectReplicaStatus(p, x, status) ==
  /\ x \in replicas[p]
  /\ Put(p, x, [x EXCEPT !.status = status])
  /\ UNCHANGED <<orgVars, hostVars, used, spec, branches>>

\* (mutant of DeleteProjectReplica) the primary can be deleted too
DeleteAnyReplica(p, x) ==
  /\ p \in live
  /\ x \in replicas[p]
  /\ used' = [h \in Hosts |->
                IF h = x.host /\ h \in hosts
                THEN Subtract(used[h], ReplicaReservation(x.size)) ELSE used[h]]
  /\ replicas' = [replicas EXCEPT ![p] = @ \ {x}]
  /\ UNCHANGED <<orgVars, hostVars, spec, branches>>

\* The promoted primary cannot be deleted.
DeleteProjectReplica(p, x) ==
  /\ p \in live
  /\ x \in replicas[p]
  /\ x.role # "primary"
  /\ used' = [h \in Hosts |->
                IF h = x.host /\ h \in hosts
                THEN Subtract(used[h], ReplicaReservation(x.size)) ELSE used[h]]
  /\ replicas' = [replicas EXCEPT ![p] = @ \ {x}]
  /\ UNCHANGED <<orgVars, hostVars, spec, branches>>

\* (mutant of MakePrimary) the previous primary is not demoted
MakePrimaryKeepingOther(p, x) ==
  replicas' = [replicas EXCEPT ![p] = (@ \ {x}) \cup {[x EXCEPT !.role = "primary"]}]

\* Every other primary becomes a read replica, then x becomes the primary.
MakePrimary(p, x) ==
  replicas' = [replicas EXCEPT ![p] =
                 {[y EXCEPT !.role = "read"] : y \in @ \ {x}}
                   \cup {[x EXCEPT !.role = "primary"]}]

PromoteProjectReplica(p, x) ==
  /\ p \in live
  /\ x \in replicas[p]
  /\ x.status = "healthy"
  /\ MakePrimary(p, x)
  /\ UNCHANGED <<orgVars, hostVars, used, spec, branches>>

Candidates(p) == {x \in replicas[p] : x.status = "healthy" /\ x.role # "primary"}

\* compareReplicaRouteTarget: priority, then name; the lag fields are never set.
Before(x, y) == \/ x.priority < y.priority
                \/ x.priority = y.priority /\ x.name < y.name

\* FailoverProjectReplica picks the first healthy replica that is not primary.
FailoverProjectReplica(p) ==
  /\ p \in live
  /\ \E x \in Candidates(p) :
       /\ \A y \in Candidates(p) : ~Before(y, x)
       /\ MakePrimary(p, x)
  /\ UNCHANGED <<orgVars, hostVars, used, spec, branches>>
-----------------------------------------------------------------------------
OrgAndHostStep ==
  \/ \E o \in Orgs : \/ CreateOrg(o) \/ DeleteOrg(o)
                     \/ \E l \in Limits : UpdateOrgQuota(o, l)
  \/ \E h \in Hosts : \/ DeleteHost(h)
                      \/ \E l \in Limits : CreateHost(h, l)

ProjectStep ==
  \E p \in Refs :
    \/ \E o \in Orgs, h \in Placements, s \in Sizes : CreateProject(p, o, h, s)
    \/ \E s \in Sizes : UpdateProjectResources(p, s)
    \/ DeleteProject(p)
    \/ \E q \in Refs : CreateProjectBranch(q, p) \/ DeleteProjectBranch(q, p)

ReplicaStep ==
  \E p \in Refs :
    \/ \E n \in Names, h \in Placements, s \in ReplicaSizes, k \in Priorities :
         CreateProjectReplica(p, n, h, s, k)
    \/ \E x \in replicas[p] :
         \/ \E s \in Statuses : UpdateProjectReplicaStatus(p, x, s)
         \/ DeleteProjectReplica(p, x)
         \/ PromoteProjectReplica(p, x)
    \/ FailoverProjectReplica(p)

Next == OrgAndHostStep \/ ProjectStep \/ ReplicaStep

Spec == Init /\ [][Next]_vars
-----------------------------------------------------------------------------
\* The capacity reserved on a host, recomputed from projects and replicas.
Reserved(h) ==
  LET placed == {p \in live : spec[p].host = h}
  IN [units |-> SumFunction([p \in placed |-> spec[p].size])
                + SumFunction([p \in live |-> ReplicaUnits(p, h)]),
      projects |-> Cardinality(placed)]

(***************************************************************************)
(* The running total a host carries is exactly what its projects and       *)
(* replicas reserve, after any sequence of creations, resizes and          *)
(* deletions, and within the host's limits: the clamp in                   *)
(* subtractHostCapacity never hides a drift, and none of the five methods  *)
(* that reserve capacity oversteps (hostHasCapacity and the check in       *)
(* UpdateProjectResources).                                                *)
(***************************************************************************)
CapacityIsSound ==
  \A h \in hosts : used[h] = Reserved(h) /\ Within(used[h], capacity[h])

(***************************************************************************)
(* What a project or a replica is placed on exists: an org with projects   *)
(* and a host with reservations cannot be deleted, also when only replicas *)
(* are left on the host (DeleteOrg, DeleteHost).                           *)
(***************************************************************************)
OwnersExist ==
  \A p \in live :
    /\ spec[p].org \in orgs
    /\ spec[p].host \in hosts \cup {NoHost}
    /\ \A x \in replicas[p] : x.host \in hosts \cup {NoHost}

(***************************************************************************)
(* Usage of an org grows only within its quota, although quotas may be     *)
(* lowered below the usage at any time and replicas are checked apart      *)
(* (validateOrgQuotaLocked, validateProjectScaleQuotaLocked).              *)
(***************************************************************************)
QuotaGuardsGrowth ==
  [][\A o \in orgs : OrgUsage(o)'.units > OrgUsage(o).units
       => WithinLimit(OrgUsage(o)'.units, quota[o].units)]_vars

(***************************************************************************)
(* The branch registry names only existing projects, lists no project as a *)
(* branch of two sources, and survives deletion and re-creation of a ref   *)
(* (the clean-up loops of deleteProjectLocked).                            *)
(***************************************************************************)
BranchRegistryClean ==
  /\ \A b \in branches : b[1] \in live /\ b[2] \in live /\ b[1] # b[2]
  /\ \A b, c \in branches : b[2] = c[2] => b = c

(***************************************************************************)
(* A project has at most one primary replica, and its replicas can be told *)
(* apart by name, whatever promotions, failovers, deletions and status     *)
(* updates are interleaved.                                                *)
(***************************************************************************)
ReplicaRoles ==
  \A p \in Refs :
    /\ replicas[p] # {} => p \in live
    /\ \A x, y \in replicas[p] : x.name = y.name => x = y
    /\ \A x, y \in replicas[p] : x.role = "primary" /\ y.role = "primary" => x = y

(***************************************************************************)
(* Once a project has a primary replica it keeps one until it is deleted:  *)
(* no deletion or failover leaves it without (DeleteProjectReplica).       *)
(***************************************************************************)
HasPrimary(p) == \E x \in replicas[p] : x.role = "primary"

PrimaryIsKept == [][\A p \in live : HasPrimary(p) => HasPrimary(p)' \/ p \notin live']_vars
=============================================================================
