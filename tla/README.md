# A TLA+ verification of the Supadupa control plane

Supadupa runs many Supabase projects on a set of hosts. One Go process, the
control plane, keeps the state of the platform (orgs, users, hosts, projects and
some thirty kinds of records that belong to a project), drives Docker Compose or
Kubernetes to make the projects run, backs them up, and serves an HTTP API to a
web frontend, a command line client, a Terraform provider and an MCP server.

This directory holds TLA+ modules that model the parts of it where correctness
depends on the order of steps, on concurrency or on failure; the TLC
configurations that check them on small instances; and TLAPS proofs of the most
important properties for every instance. `PROJECT.json` ties the two sides
together: every definition that models code names its lines, every property
names a mutation of the code that breaks it, and the hazards of the code name
the properties that watch them.

## 1. Inventory

### The parts, their state and what connects them

| Part | Code | State it keeps | Operations | Model |
|---|---|---|---|---|
| Persistent store | `internal/control/persistent_store.go` | the memory image; the encrypted checkpoint row and the normalized tables of the meta database | mutate, save, load, export, import | `Durability`, `DurableLog` |
| Platform backup and restore | `internal/control/backup.go`, `persistent_store.go` | artifacts of the checkpoint row, records of them | back up, restore | in `Durability` |
| Orgs, hosts, projects, branches, replicas | `internal/control/store.go` | reserved capacity of hosts, quotas, branch registry, replica roles | create, place, scale, move, promote, fail over, delete | `Placement` |
| Users, orgs, teams, project access | `store.go`, `internal/api/authz_helpers.go` | users, memberships, teams, grants | invite, rename, add, remove, grant, authorise, review | `Access` |
| Sign-in, tokens, MFA, user administration | `control/auth.go`, `api/auth_handlers.go`, `user_handlers.go`, `account_handlers.go`, `scim_handlers.go` | password hashes, token versions, TOTP secrets | log in, enrol, verify, demote, delete, provision by SCIM | `Accounts` |
| Project lifecycle | `api/project_overview_handlers.go`, `project_lifecycle_handlers.go`, `cmd/supadupa/main.go` | the status of a project, its provisioning goroutine | create, pause, resume, restart, scale, upgrade, destroy, startup sync | `ProjectRuntime` |
| Status reconciler | `internal/reconciler` | none between passes | list, observe, write status | in `ProjectRuntime` |
| Compose provisioner | `internal/provisioner/compose` | project directory, `.env`, containers, edge network | create, sync, pause, resume, destroy, change services | in `ProjectRuntime` and `ServiceStartup` |
| Backups, PITR, WAL archives | `internal/control/backup.go`, `store.go` | records, artifact files, remote objects, targets, policies | back up, archive, upload, restore | `Backups` |
| Backup scheduler | `internal/scheduler/backups.go` | next run of a policy | pass: due backups, then WAL | in `Backups` |
| Operator leader election | `internal/operator/leaderelection.go`, `cmd/supadupa-operator` | the Lease object | acquire, renew, take over, reconcile | `LeaderElection` |
| Kubernetes provisioner | `internal/provisioner/kubernetes` | `project.yaml` and the other manifests of a project | render, apply, pause, scale, change services, destroy | `KubernetesRuntime`, `ServiceStartup` |
| Operator reconciliation | `internal/operator` | none between passes; the finalizer and status of objects, the runtime namespace | list, isolate, apply, prune, tear down, report | `KubernetesRuntime`, `ServiceStartup` |
| Project child resources | `store.go` and `api/project_*_handlers.go` | about thirty kinds of records of a project, and what the project's database, services and files hold of them | write, apply, undo, delete, clean up | `ChildResources` |
| Terraform provider | `internal/terraform` | Terraform's state file | create, read, update, delete, import of 36 kinds | `TerraformProvider` |
| Domains, routes, certificates | `control/routing.go`, `certificates.go` | reservations of host names, verification, certificates | attach, verify, renew | not yet |
| Secrets and JWT keys | `store.go` | encrypted secrets, key generations | ensure, rotate | not yet |
| Audit log; telemetry and usage | `store.go` | hash chain; samples | append, retain; compact, distribute | not yet |
| Rate limiters, studio sessions | `api/rate_limiters.go`, `auth_handlers.go` | windows, one-time codes | allow, evict, redeem | the token made for a code in `Accounts`; the rest not yet |
| Migrations | `internal/metadb/migrate.go` | version table | migrate under a lock | not yet |
| Docker proxy, MCP server, command line, frontend, charts | `cmd`, `internal/cli`, `internal/mcp`, `frontend`, `charts` | none of the system's own | translate requests | not modelled |

Everything the API changes goes through one store. A store method runs under one
mutex and then saves the whole image before it answers. Around the store there is
no locking: a handler makes several store calls and runs docker or shell commands
between them, the scheduler and the reconciler work on listings that may be
minutes old, goroutines outlive the request that started them, and a restart
leaves whatever was under way half done. That is where the hard behaviours are:

- **failure between two persisted forms**, and saves that carry the unsaved
  writes of others (`Durability`);
- **long sequences of legal calls** through bookkeeping that many methods share
  (`Placement`, `Access`);
- **state read in one call and used in a later one** (`Accounts`,
  `ProjectRuntime`, `Backups`, `KubernetesRuntime`);
- **a record and the thing it describes**, written one after the other, with an
  undo when the second fails (`ChildResources`), or kept in three places that
  only meet when a user asks (`TerraformProvider`);
- **services that wait for services**, while some of them are being taken away
  (`ServiceStartup`);
- **time**: grace periods against ceilings, lease durations against slow rounds,
  TOTP windows, whole seconds against finer clocks (`ProjectRuntime`,
  `LeaderElection`, `Accounts`, `Backups`);
- **several writers of one external object**: the Lease, the project directory,
  the files of the backup root, the Project object and its namespace
  (`LeaderElection`, `ProjectRuntime`, `Backups`, `KubernetesRuntime`).

The full list, each hazard at its line, is under `hazards` in `PROJECT.json`. These
are known as well and wait for their modules: two bootstraps at once both create
an administrator (`auth_handlers.go:118`); a new org has no owner when the second
of two store calls fails (`org_handlers.go:31`); two WAL archives of the same
second share the pending file (`backup.go:806`); a scheduler pass ends its stage
at the first error of the store, for all later projects (`scheduler/backups.go:80`);
a studio code is gone after its first use while Studio repeats it
(`auth_handlers.go:505`); the deletion of a replica changes the runtime before the
store can refuse it (`project_branch_replica_handlers.go:285`).

### What makes each part correct

- *Store*: an acknowledged write survives everything but the restore of an older
  backup; the two database forms agree whenever a control plane starts serving;
  every request is answered.
- *Placement*: the capacity a host carries is the sum of what is reserved on it
  and stays within its limits; usage grows only within a quota; nothing points
  to an org, host or project that is gone; a project has at most one primary.
- *Access*: memberships, teams and grants name current users, and what the
  access review shows is what authorisation does.
- *Accounts*: no one-time code is used twice; for the Management API a token
  reflects the account it was issued for, MFA included, and ends with a security
  change; one administrator remains.
- *Lifecycle*: the reconciler leaves a project to its provisioning goroutine, a
  destroyed project stays destroyed, and the status comes to say what runs.
- *Backups*: a record stands for an object that is there; a restore reads nothing
  newer than it was asked for and everything it needs; the schedule runs once a
  period.
- *Leader election*: a valid lease is honoured, and when its holder is lost
  somebody goes on.
- *Child resources*: a record refers to records that exist, a request that ran
  alone has either done everything it says or left the records as they were
  (but for a save that failed), and an undo takes nothing with it that was there
  before.
- *Terraform provider*: what an apply reports is what the control plane serves,
  nothing it created is forgotten (but a branch destroyed after its source), and a
  mask is not taken for a secret.
- *Kubernetes*: no workload without its isolation, no namespace without an owner,
  no status that does not hold, and in the end what the Project asks for.
- *Startup*: no service waits for ever, and a rolling change of the gateway is
  not an outage.

## 2. Modules

Each component has one module with its state, one action per step that other
actors can observe, and its properties at the end. `X.tla` is the specification,
`MCX.tla` the sets and symmetries TLC needs, `MCX*.cfg` the values of the
constants, `XProofs.tla` the theorems. Three proof modules serve two components
each: `StoreProofs` is about `Durability` and `Placement`, `OperatorProofs` about
`KubernetesRuntime` and `LeaderElection`, `ProjectRuntimeProofs` about
`ProjectRuntime` and `ServiceStartup`; the two share no name, so the specification
of one is called `DurabilitySpec`, `ElectionSpec` or `StartupSpec`. A definition whose comment begins with
"(mutant of D)" is a plausible bug in the code of `D`; it is used by nothing and
shows that a property notices the bug.

### Durability and DurableLog

`mem[i]` is the image of the embedded `MemoryStore` of process `i`, as the set of
the writes it contains; `row` and `tables` are the checkpoint row and the
normalized tables. `Apply` is the method of a mutating request under the store
mutex; `BeginSave`, `WriteCheckpoint` and `SyncTables` are the three stages of
`save` under `saveMu`. Each stage may fail, and a failing commit may have been
applied. `Load` and `BeginBootSave` are the constructor, `WriteArtifact`,
`BeginRestore`, `ImportCheckpoint` and `InstallImport` the platform backup and
its restore, `Crash` the death of a process anywhere. Which record a request
changes is abstracted: all hundred or so mutating methods of the store have this
shape.

`DurableLog` is what the store promises, without image, lock or save: a set of
durable writes that loses a write only by a restore, and success only for what is
durable. `LogSpec` says that `Durability` implements it, with the checkpoint row
as the durable set.

### Placement

One action per store method, since each runs under the mutex. CPU, RAM and disk
are handled alike by the code and are one dimension, `units`; the number of
projects is the other; 0 is "no limit". `used` is the running total a host
carries, subtracted with a floor at 0 as in `subtractHostCapacity`; the usage of
an org is recomputed, as in `orgUsageLocked`. Replicas carry role, status and
failover priority, because promotion and failover decide on them.

### Access

The five maps of the store as sets of records. Every method that touches users,
memberships, teams, projects or grants is one action with the clean-up it does in
the other maps. `createOrgHandler` makes two store calls and is two actions.
`RequireProjectRole` is the per-request check of `authz_helpers.go` and
`EffectiveRole` the access review; they join the maps by different keys. `newID`
never returns an id twice: a fresh id is one that nothing in the state mentions.

### Accounts

Handlers as sequences of store calls, each a step: a login is `Authenticate`,
`VerifyUserMFA` and `Issue`, and keeps the copy of the account the first call
returned. An administrator's update or deletion is `ReadTarget`, `CountAdmins`
and the change. A TOTP code is the secret and the period it was computed for, and
is valid in three periods. `token` is an arbitrary one of the issued tokens:
tokens do not depend on one another, so a property of every token is a property
of any one. `Current` is how the Management API judges a token. Studio has its own
way in: `StudioSession` makes a one-time code from the claims of a current token
and `StudioVerify` (`studioForwardAuthHandler`) issues a new token for it, without
asking for the user; what the properties say of a token holds of those too. A
token remembers the sign-in it goes back to.

### ProjectRuntime

One project: the status in the store, the directory, `.env`, containers and edge
network of its Compose runtime. A job (the provisioning goroutine, a request, the
startup sync) is the sequence of steps it has left, taken from the order of calls
in the code; a step that fails replaces the rest by what the code does about the
failure. The reconciler is a listing, the skip or the edge networking, the
observation, the write. Time advances in ticks, with the ceiling of the
provisioning context and the reconciler's grace period.

`docker compose ps` is taken to list stopped containers too, because the code
tells paused projects by them. The rendering of the directory is one step, and
the edge-network part of a start is taken to succeed.

### Backups

One project with its backup policy, its PITR policy, storage targets, records,
files and remote objects. A job is the dump or the WAL command, the check, the
rename, the upload, the record, and for the scheduler the note that it ran; jobs
of the scheduler and of requests overlap, and two that begin in the same second
share a file name, as in the code. A restore selects its base and WAL range from
the records, downloads and checks each artifact, and runs the command.
The content of an artifact is the span of changes in it; bytes, size and checksum
are that one value. The connection of a target is its bucket; the schedule
(daily, hourly) is the start of the next period; the PITR retention is a
constant. What the dump and restore commands do inside the database is outside.

### LeaderElection

The rounds of the operator pods: a round captures the time, reads the Lease, and
creates it, patches it or follows; the winner reconciles. The patch is a merge
patch without a resource version, so it overwrites whatever the Lease has become.
The ticker holds one waiting tick, a round may overrun it, calls fail before or
after the API server acts, pods die, and come back under their name or not at
all. Calls may take as long as their timeout, so that the two calls of a try may
outlast the lease they renew: with each call up to 30 seconds, a period of 15 and
a lease of 45, as at the defaults, they can. The Lease is kept as its age, with
`late`, how long after its `renewTime` it was stored; the clocks of the pods are
taken to agree.

### ChildResources

Some thirty kinds of records belong to a project. They are written by handlers
that look alike and are not: what differs is a row in two tables. `StoreX` is
what the store's methods do with kind X (is a name that is taken refused, written
over, or do names not matter; what must exist; what is removed with it), `ApiX`
what the handler does around them (is the record applied to the data plane, as
one object or by writing out the whole list; is a failure undone by deleting, by
writing back what was read, by rebuilding, or not at all; is a deletion applied
before the record goes). The actions are the same for all kinds. A store method
is one step; a handler takes several and other requests come between.

`recs` are the records and `plane` what the project's database, storage service,
containers and files hold. The content of a record is the request that wrote it,
which is all that the properties tell apart. An apply may fail before, after or
within its effect; the deletion of the project takes the data plane first and the
records later. `saved` is what the checkpoint holds. A change whose save fails
stays in memory, the request answers the error and undoes nothing, and the next
save of anybody carries the change; a crash of the control plane ends all requests
and loads what was saved. `alone` observes which requests had nothing beside them.

### TerraformProvider

One resource of one kind, between the user's configuration (`conf`), the state
file (`tf`) and the records of the control plane (`srv`). `PlanX` says what the
schema and `ModifyPlan` of kind X make of a difference, `OpsX` what its Create,
Read, Update, Delete and ImportState do (by what it finds its record, what it
does with one that is gone, which attributes an answer shows, masks or omits),
`CallX` what the calls of the client do at the control plane. A record has three
attributes, `name`, `body` and `secret`: each stands for those the code treats
alike. An apply is the refresh with the plan, then its calls; each may be
refused, never arrive, or be done without an answer. In between and meanwhile the
user edits the configuration or imports a record, and others create, change and
delete records or the parent. With the parent go the records, but not a branch
project with its source, which loses only its entry in the registry; an org, a
host or a replica keeps its parent from being deleted. `used` says which records
others rest on, as projects rest on an org: their deletion is refused. How
Terraform's core turns the plan into calls (delete before create, no state for a
failed create) is external.

### KubernetesRuntime

One project between the provisioner, the API server and the operator. Every
operation of the provisioner reads `project.yaml` into memory, changes a part,
writes the whole and then applies what the file holds: reads, writes and applies
are steps, and two requests interleave. `Destroy` marks volumes as retained,
applies the desired state `destroying`, waits for the phase `Terminating`, and
deletes the objects and the directory. The operator's pass works on the Project
as it was listed: finalizer, namespace, isolation objects, Deployments, pruning,
or the teardown by name, by label and of the namespace, then the status; each
call is a step that may fail, also half way through the objects it applies or
deletes, and the operator may stop before any of them. The API server
(generations, finalizers, the slow deletion of a namespace, which refuses new
objects meanwhile) is external and modelled from how the two clients use it. Both values of the isolation setting are modelled. The objects of the
other kinds, which the operator only validates and reports, have one shape.

### ServiceStartup

The services of one project while they start and after an update has enabled or
disabled some. The dependencies, the probes and the routes of the gateway are
those of the two renderers. On Kubernetes a pod's init containers wait for the
rendered dependencies that are enabled, the probe of the gateway goes through it
to auth, a new pod comes up beside the old one and the old one is retired when
the new one is ready; the operator's pass applies the ConfigMap, the Deployments
and the pruning as separate steps. On Compose `up` starts containers in the order
of `depends_on`, waits for a healthy database where it is asked to, and removes
orphans; the gateway and the edge runtime are then recreated. A container may
stop, a pod may be lost, a call may fail.

### How they compose

`ServiceStartup` opens what `ProjectRuntime` and `KubernetesRuntime` take as one
thing: there a service is deployed or not, here it comes up by stages and waits
for others. It takes requests one at a time, which `KubernetesRuntime` does not.
`KubernetesRuntime` has one operator, which is what `LeaderElection` is for.
`TerraformProvider` sees of a child resource what its API answers, which is what
`ChildResources` says of a lone request: refused, done, or failed and undone. The
save that fails behind a change is for Terraform a call that was done without an
answer.

The other modules meet at the store. `Durability` treats the method of a request as an
opaque write, which is what lets `Placement`, `Access`, `Accounts` and `Backups`
treat a store call as one atomic and durable step; `ChildResources` has failed saves
of its own, since its handlers do more after a store call. `Accounts` looks at one
account where `Access` looks at the maps around it: a rename is `UpdateUser` in
both. `Backups` and `ProjectRuntime` share a project but no state: backups do not
read its status.

## 3. Runs

Every run is `tlc -config <cfg> <module>`; names are those of `PROJECT.json`.
All are exhaustive for their constants.

| Run | Instance | States | Checks |
|---|---|---|---|
| `durability` | one process, one write, two backups | 0.08 M | `AckedDurable`, `BootHeals`, `RestoreKeepsRecord`, `LogSpec`, `RequestsAnswered` |
| `placement` | 1 org, 2 hosts, 2 refs, 2 replica names | 0.40 M | `CapacityIsSound`, `OwnersExist`, `BranchRegistryClean`, `ReplicaRoles`, `QuotaGuardsGrowth`, `PrimaryIsKept` |
| `access` | 2 orgs, 2 user ids and emails, 2 teams, 1 ref, 2 roles | 0.15 M | `MapsAgree`, `ReviewMatchesAuthorisation`, `RenameKeepsAccess` |
| `accounts` | 2 users, 1 request in flight, SSO, SCIM and Studio | 3.4 M | `CodesAreUsedOnce`, `EarnedTokens`, `ChangesEndSessions` |
| `project_runtime` | one project, one request of any kind, one fault | 0.97 M | `GoroutineOwnsStatus`, `DestroyIsFinal`, `Converges` |
| `backups` | scheduler and one request, 2 targets, 2 buckets, 2 jobs, 1 event | 2.3 M | `TargetsConsistent`, `OffHostCopiesMatch`, `NothingFromTheFuture`, `ScheduledOncePerPeriod` |
| `leader_election` | 3 pods, one fault, calls as slow as their timeout | 0.77 M | `LeaseHonoured`, `LeadershipRecovers` |
| `child_resources` | every kind alone, related kinds together, 3 requests, 1 failed save | 2.3 M | `ParentsExist`, `LoneRequestsAreAtomic`, `RollbackSparesOlder` |
| `terraform` | each of 36 kinds, 4 configurations, 3 surprises | 0.35 M | `AppliedIsServed`, `NothingForgotten`, `OwnSecretsStayKnown`, `InPlaceKindsConverge` |
| `kubernetes` | 2 services, 2 other kinds, 2 requests at once, 1 surprise, both modes | 1.9 M | `WorkloadsAreIsolated`, `NamespaceIsOwned`, `StatusIsTruthful`, `RetainedVolumesSurvive`, `Converges` |
| `startup` | auth, rest, studio beside db, kong and meta; 1 update, 1 fault, both drivers | 0.25 M | `GatewayStaysUp`, `ComeUp` |

`TypeOK` of a module (`ElectionTypeOK` and the like where two modules are proved
about together) states the shape of its state for a reader. It is proved for every
module but `Backups`, whose types are proved up to the bounds of its clock and its
segments; TLC confirms it in full when `INVARIANT TypeOK` is added to a
configuration. It is not among the properties of the runs, because it says little
about the code.

What they show, and why the bounds are enough for it:

- **durability.** A save in progress, a write applied behind its snapshot and a
  restore that swaps the image between a write and its save need one write and
  one backup; the second backup lets a restore meet the record of another one.
  Acknowledged writes survive failing saves, lost answers, crashes and restarts.
- **placement.** Two refs make a branch and its source, and a ref that is deleted
  and taken again; two hosts let projects and replicas be apart and move; sizes
  1 and 2 under one limit make fits and refusals. A double release masked by the
  floor at 0 needs only one host.
- **access.** Two orgs and two emails let a user be renamed onto a free email,
  leave and come back, and belong to one org and not the other; the one ref is
  reused by another org.
- **accounts.** One request in flight against every change an administrator, the
  user or SCIM can make in between is the whole of `EarnedTokens` and
  `ChangesEndSessions`: they speak of one token. Three versions are enough for the
  token of an account without a version, which outlives the first change and not
  the second. The clock runs through more
  periods than a code is valid for.
- **project_runtime.** Goroutine, startup sync, reconciler and one request of any
  of the seven kinds are four concurrent actors on one project; one fault is a
  failing command, a dead container or a crash, wherever it falls. The timing
  has `Lag + Ceiling < Grace`, as the 20 minutes of the provisioning context and
  the 25 minutes of grace do.
- **backups.** Two jobs overlap or follow each other; two ticks to the second
  make file names collide and not collide; two periods pass. The one event is a
  change of the configuration, a failure, a lost file or a crash, at any point.
- **leader_election.** Three pods are the least with a race between two followers
  while the old leader is alive. A tick is the default period of 15 seconds: the
  lease is 3, a try of two calls of 30 seconds at most 4, so that a lease can
  expire before it is stored, and a round 5. The reconciliation of a large
  namespace may take longer than the one tick left for it; nothing depends on its
  end but the round itself, and within the 5 a leader already loses its lease to
  another while it reconciles. The one fault is a failed call or a pod that may
  never come back.

- **child_resources.** Three requests are a write, a second one that meets it
  half way, and a third that deletes or replaces what one of them rests on. Kinds
  that do not refer to each other do not meet in the code, so a behaviour is
  about one kind, or about those that do refer to each other. The one failed
  save may hit any store call, also the undo of another failure, and is followed by
  saves that carry it or a crash that forgets it.
- **terraform.** Two values of each attribute make every kind of difference; the
  three surprises are enough for a lost answer, a change elsewhere and an edit,
  in any order, with repeated applies between. Kinds do not interact, but for the
  parent of a record and what rests on it.
- **kubernetes.** Two services are one that is always on and one that comes and
  goes; two requests overlap in every way, with each other and with the pass of
  the operator. The one surprise is a failed call, a stop of the operator or a
  change by hand, at any point.
- **startup.** With auth, rest and studio there is a service the gateway waits for
  and is probed through, one it only waits for, and one that waits for the
  gateway; realtime, functions and the others repeat one of these, and storage adds
  one more link to the chain from the database to the gateway. The update changes any subset of them, at any point of the first start.

### A run that ends in a counterexample

`admins_race`: two administrators' requests both count two administrators and
each removes one, so that none is left, against the comment and the message of
`user_handlers.go`; `findings` has the quotations.

### Other disagreements met while modelling

The modules show these too. They are no runs of their own, and the properties
above are stated so as to leave them out, each where its comment says so.

- *Two control planes.* The chart offers `replicaCount` (`values.yaml`,
  `docs/kubernetes.md`), but two processes on one meta database save whole images
  over each other and an acknowledged write is gone. The durability run and its
  proofs are about one process.
- *Destroy.* Destroying a project that is still being provisioned, or that a
  reconciler pass has listed, can leave its edge network or containers
  (`compose.go:379`, `:391`).
- *Restart.* The startup sync brings up the containers of paused projects
  (`cmd/supadupa/main.go:188`), against `docs/README-legacy.md:145`.
- *Restore.* The WAL range of a restore to a point in time leaves out the archive
  that was recorded after it and holds the last changes before it
  (`backup.go:1520`), against `docs/README-legacy.md:259`.
- *Retained volumes.* With isolation, the default, the operator deletes the
  runtime namespace and with it the volumes that were to be retained
  (`operator.go:576`), against `docs/kubernetes.md:50`. `RetainedVolumesSurvive`
  is therefore about the other mode.
- *Projects without auth.* On Kubernetes the gateway's probe is
  `/auth/v1/health` (`kubernetes.go:1436`): without auth it is never ready, and
  Studio, which waits for it, never starts, although `README.md:58` lets any
  service be disabled. `ComeUp` asks for auth.
- *Stale routes.* The pod template carries no digest of the gateway's
  configuration: a gateway that is not rolled for another reason keeps the routes
  it started with.
- *Restart policies.* On Compose only the pooler has one; any other container
  that stops stays down until a person or a sync starts it.
- *A foreign namespace.* A Project that names a namespace which is not its own,
  and is then deleted, is never finalised.
- *Phases of an earlier Project.* A Project deleted and created again shows the
  status of the earlier one until the next pass when the generations agree, and
  `Destroy` can take a `Terminating` of that kind for its own.
- *Lost answers to creates.* A kind that refuses a name twice leaves Terraform
  stuck on the record it does not know of; a kind without names creates a second
  one. The policies' Read and Delete report an error when the project is gone,
  where the other kinds take it as deleted.
- *Leadership.* The patch of the Lease carries no resource version: a pod whose
  lease was overwritten keeps reconciling until its next round, beside the new
  holder, although `leaderelection.go:19` says that only the holder reconciles.
  With calls near their timeout of 30 seconds (`kubernetes_client.go:53`) a lease
  of 45 seconds can have expired when it is stored, and the pods take it from each
  other for as long as the calls are slow. `LeaseHonoured` says from which leases
  one can be taken; `LeadershipRecovers` promises a single leader only when the
  calls are quick from some time on, and otherwise that somebody reconciles.
- *Studio's own check.* `studioForwardAuthHandler` (`auth_handlers.go:361`) takes a
  token by its signature: with the role of an administrator in its claims it is
  good for Studio until it expires, also after a change of role or password or the
  deletion of the account. The token it issues for a code lends no version
  (`:378`): the Management API and, for members, Studio refuse it once the account
  has version 2. `EarnedTokens` and `ChangesEndSessions` are about what the
  Management API accepts.
- *Accounts without a version.* Version 0, that of an invited member, and version
  1 are read as the same, so a token of single sign-on outlives the first change
  of such an account.
- *Saves that fail.* A change whose save fails stays in the image
  (`persistent_store.go:2736`), the request answers an error and undoes nothing:
  what the client is told was not done is served, and saved with the next change
  of anybody. `LoneRequestsAreAtomic` says what such a request leaves.
- *Branches destroyed after their source.* `deleteProjectLocked`
  (`store.go:4468`) takes the registry entries of a project's branches and leaves
  the branch projects. A later `terraform destroy` of the branch gets 404
  (`project_branch_replica_handlers.go:140`), takes that for done and drops a
  project that still runs.
- *Orgs with projects.* `DeleteOrg` refuses them (`store.go:2768`), so a destroy
  or a replacement of such an org waits until its projects are gone.

## 4. Fairness

Six runs check liveness, under fairness of steps the code always takes:

- `Durability`: a save or an import that has begun goes on (database calls return
  or fail), and a request that waits for `saveMu` gets it in the end: Go's mutex
  hands over to a waiter that has been starved for a millisecond, hence strong
  fairness of `BeginSave`. Nothing obliges a client to send or a process to live.
- `LeaderElection`: time passes and a running pod gets on with its round, since
  every call returns or times out. Nothing is assumed of a pod that is down: its
  node may be gone, and the pod that replaces it has another name. That somebody
  leads again and again needs one pod that keeps running; that it is in the end
  one and the same needs `Quick` calls from some time on, a condition in the
  property and not in the specification.
- `ProjectRuntime`: goroutines and handlers run, the reconciler's loop repeats,
  the supervisor restarts the control plane, started containers become healthy,
  time passes. That a container that was told to start becomes healthy is the one
  assumption about something outside the code; failures are among the bounded
  faults.

- `TerraformProvider`: weak fairness of the apply as a whole. A call returns or
  times out, and a user who was told of an error applies again. What is not
  assumed is that any particular call succeeds: those that fail are among the
  bounded surprises, or are refused by the control plane.
- `KubernetesRuntime`: the operator's interval loop repeats and its calls return;
  the namespace controller of the cluster finishes a deletion (external). Nothing
  obliges the requests of the provisioner to go on.
- `ServiceStartup`: the commands of Compose and the passes of the operator go on;
  the kubelet runs a pod's init containers and probes and restarts a container
  whose liveness probe fails; the Deployment controller retires old pods when the
  new ones are ready (all external). A program that was started comes to answer.

Deadlock is checked except in `ProjectRuntime`, `ChildResources` and
`ServiceStartup`, where a destroyed project, answered requests or running services
with nothing left to happen are an end and not a failure.

## 5. Proofs

All are checked by TLAPS to the last leaf, for every value of the constants that
satisfies the assumptions of the module. Every invariant and every action
property of the runs that hold is a theorem, and so is the refinement; what
remains is liveness, listed below.

| Theorem | Says | Inductive invariant |
|---|---|---|
| `StoreProofs!AckedWritesAreDurable`, `SavesEraseNothing`, `TypeCorrect` | with one process (`Single`), `DurabilitySpec => []AckedDurable`, likewise `ImageCoversRow` (the serving image contains all that the row does) | who holds `saveMu` in which phase; the write of an open request is in the image; a running image covers the row; a snapshot being saved covers the row and holds its own write; an artifact has lost nothing but by a restore |
| `StoreProofs!ImplementsDurableLog` | with one process, `DurabilitySpec => LogSpec` | the same: every step is a step of `DurableLog` or a stutter |
| `StoreProofs!RestoresKeepTheirRecord`, `BootsHeal` | the image a restore installs has the record of its backup (any number of processes); a process begins to serve with image, row and tables alike (one process) | `HistoryInv`: the record of a backup is in its artifact before it can be restored; what is being imported is that artifact; a boot saves what it loaded |
| `StoreProofs!BranchRegistryStaysClean`, `OnePrimaryReplica`, `PrimaryStays` | the registry joins existing projects; at most one primary, and one is kept | the two together with the shape of registry and replicas: a project without a row has no replicas, so a re-created ref begins clean |
| `StoreProofs!CapacitySound`, `OwnersStay` | the total a host carries is the sum of what is reserved on it and within its limits; orgs and hosts outlive what names them | the two together: the total is exact, so a host with total 0 carries nothing and may go |
| `StoreProofs!QuotaIsRespected` | usage grows only to what the quota allows | from the same: each check compares the usage the step leads to |
| `AccessProofs!AccessMapsAgree` | memberships, teams and grants name current users and members | also that no two entries of a map share a key, and that ids are not shared |
| `AccessProofs!ReviewIsTruthful` | review and authorisation agree | follows from the maps agreeing: joining by id and by email then select the same entries |
| `AccessProofs!RenamesKeepAccess` | a change of an email changes nobody's access | the same: the entries under the old email are those of the user, none is under the new one |
| `AccountsProofs!NoCodeTwice`, `TokensAreEarned`, `SessionsEnd` | no TOTP code is accepted twice; a token the Management API accepts of somebody with MFA goes back to a code, also by way of Studio; a security change ends earlier sessions there, but for the one of a version-0 account | a secret belongs to one user; the codes accepted of it are not after the last one on record; the copy a handler holds, and the token made of it, has a version not above the account's, and with the same version the account has not changed since |
| `ProjectRuntimeProofs!GoroutineOwnsItsStatus`, `DestroyedStaysDestroyed` | no reconciler write under the goroutine; no resurrection | from `CreateProject` to the end of the goroutine the row, also as the reconciler listed it, is younger than `Lag + Ceiling < Grace`; a pass goes on with a provisioning project only past `Grace` |
| `BackupsProofs!TargetsStayConsistent` | at most one default target, no policy names a deleted one | the shape of targets and policy; every other step leaves both alone |
| `BackupsProofs!CopiesStayTrue` | a record of a remote copy stands for an object with its checksum | a file name is taken by one job or, within a second, by several that are marked; a job past its upload has its file in the bucket, as it has it on disk |
| `BackupsProofs!RestoresStayInThePast` | a restore accepts nothing after its aim | the content of a record is not after its date; what a restore has selected is dated at or before its aim; what it accepts has the checksum of the record |
| `BackupsProofs!ScheduleRunsOnce` | one noted backup for each period | the next run is after every period that has been noted, and a pass under way holds a period that has not |
| `OperatorProofs!ElectionTypes`, `LeaseIsHonoured` | types; a lease changes hands only if it had expired when the taker's try began or was stored since | a pod about to patch holds the lease, or read it expired, or the lease was stored since its try began; `late` is the clock of the pod that stored it |
| `OperatorProofs!TypeCorrect`, `NamespaceOwnership`, `WorkloadIsolation` | types; no namespace without a Project with its finalizer; no workload without its isolation | the order of calls in a pass: the finalizer is there before `EnsureNamespace` and goes only once the namespace is not active; the isolation objects are there from `ApplyProjectIsolation` on and go with the namespace |
| `OperatorProofs!TruthfulStatus` | the phase patched for the current generation holds | no uid is given twice and generations grow, so a Project with the listed uid and generation has the listed spec; what a pass has done so far to the workloads of what it listed |
| `OperatorProofs!RetainedVolumes` | without isolation no step deletes a volume to be retained | from the same, one lemma for each step that deletes volumes |
| `ChildResourcesProofs!ParentsAlwaysExist`, `RollbacksSpareOlder` | no record outlives what it refers to; a rollback by name takes nothing older than its request | `IInv`: no two records of a kind have a name, the id of a record is that of a request that has written, and where a create will be undone by name the record under the name has an id that the create did not see |
| `ChildResourcesProofs!LoneRequestsAtomic` | a request with nothing beside it is all or nothing, and exactly its record stands when the save of that failed | `AtomicInv`: also that what was saved is a store like any other, which a restart may load, of such a request, that it is the only one and the project up, that it has read what is there, that only the record under its name differs from then on and is saved before anything is applied, and in which steps its object is gone; an extension always has a state |
| `TerraformProviderProofs!AppliesAreServed`, `NothingIsForgotten`, `OwnSecretsAreKnown`, `TypeCorrect` | an apply that succeeded left what is configured; no record the provider was told of is forgotten but a branch destroyed after its source; a mask in the state is about a record others wrote or an answer did not reach; types | ids, and for most kinds names, tell records apart; a run is at a call that state and configuration still ask for; the record the provider knows or wrote last is the one of the state, under the same name; where it wrote last, the state has what answers do not show; a mask is about a shared record |
| `ProjectRuntimeProofs!GatewayIsNeverRolledAway` | while auth answers, only a crash takes the last ready gateway away | `Placed`: a service has at most two containers, and these of different templates, so that a roll that finds a ready one keeps it, as the older one or as the one that has the template |
| `AccessProofs!TypeCorrect`, `AccountsProofs!TypeCorrect`, `StoreProofs!PlacementTypes` | types; the sets of records are maps, no two entries under one key | `Maps`: a rename of a user or an upsert takes the entry under the old key away; for the other two a part of their invariants |
| `ProjectRuntimeProofs!RuntimeTypes` | types of row, files, containers, jobs and reconciler | `Sound`: what a job has left, after any failure and any round given up, is steps of the code and never ends with compose down, so that the step after it is there to be skipped |
| `ProjectRuntimeProofs!AtMostTwoContainers` | Compose has at most one container of a service, a Deployment at most two | `Placed`, and that what belongs to the other driver rests |
| `ChildResourcesProofs!RecordsAreMaps` | types; no two records of a kind under one name | `IInv`, and that a request is about a kind of the family |

*Tables.* What the rows of `StoreOf` and `ApiOf` have in common (what goes with a
record is what refers to it; a kind that is undone by name refuses a name that is
taken) is brought into a few lemmas by going through the 26 kinds, and nothing
else in `ChildResourcesProofs` looks at a row. Likewise `Row` says what goes
together in the three tables of `TerraformProvider` (a kind whose Create appends
is found by its id; a record that is put stays, and Delete at most resets it), `Rows` shows it for all 36 kinds, and the other lemmas know of a kind
only its row.

*Sums.* `SumFunction` is a fold of the community modules, defined by a recursive
function over subsets. `StoreProofs` first shows that such a sum is the
cardinality of a set of cells, one column of `f[x]` cells for each `x`: were it
not, there would be a subset of least cardinality where the two differ, and
removing one element of it leads to a smaller one. What happens to a sum when an
element comes, goes or changes then follows from `FiniteSetTheorems`.

*Parts.* The invariant of `Backups` is a conjunction of six (configuration,
types, file names, copies, dates, schedule), each inductive relative to those
before it, with one lemma for each action and part.

The assumptions are those named in the modules: sets of markers are disjoint from
the sets they mark (the "scheduler" is no handler, `None` no Project), sizes,
limits and bounds are naturals, `Lag + Ceiling < Grace`, `TryTicks <= RoundTicks`,
the kinds of a Terraform run are rows of the tables, and no configured secret is
the mask that stands for one. TLC evaluates them in every run. `Single` (one process) is a hypothesis of the
durability theorems and not an assumption of the module: the deployment decides
on the number of processes, not the store. `RestoresKeepTheirRecord` does without
it.

### Only model-checked

- Liveness (`RequestsAnswered`, `LeadershipRecovers`, both `Converges`,
  `InPlaceKindsConverge`, `ComeUp`): TLAPS has no support for
  fairness and `ENABLED` that this development could use.
- The bounds in the type invariant of `Backups` (the last tick, the number of the
  last segment); its types without them are proved as `TypeInv`.
- `AdminRemains`, which does not hold (`admins_race`).

## 6. Not modelled, and the plan

Left out for good: presentation (frontend, report wording), the stateless
translators (command line, MCP server), charts and install scripts, what happens
inside Postgres, docker or the API server beyond what the code relies on.

Left out of the modelled parts: the row-by-row contents and field encryption of
the normalized tables (`persistent_store.go`), whose shape is one mapping per kind
of record; the mode of the Kubernetes provisioner that only writes manifests; logs
and usage; the SQL and HTTP requests that apply a child resource. The overrides of
a service's configuration are not in `ServiceStartup`: an override of a port, for
one, moves the service and not those that wait for it.

What would come next, in the order of its importance to the system:

1. **Domains**: reservation of host names across projects, verification and the
   state machine of certificates, with the routes derived from them.
2. **Secrets, sessions, limits**: rotation of JWT keys against what the runtime
   holds; one-time studio codes; the bounded maps of the rate limiters, where an
   eviction forgets counted failures (`rate_limiters.go:132`).
3. **Audit and migrations**: the hash chain with its retention; ordered
   migrations under an advisory lock with crashes between steps.
4. **Pure algorithms**: compaction of telemetry samples and the weighted
   distribution of counts, against reference definitions over bounded inputs.
5. **Extensions**: the read and the write of `.env` as two steps, stack versions
   of upgrade and rollback, replica runtimes, a scheduler pass over several
   projects, WAL segments without an archive.

The modules above come without theorems; theirs would be the uniqueness of a host
name over all projects, the single use of a studio code, and that the retained
part of the audit chain is a chain.
