--------------------------- MODULE ProjectRuntime ---------------------------
(***************************************************************************)
(* The life of one project: its row in the store, its Compose runtime, and *)
(* everybody who works on them at the same time: the goroutine that        *)
(* provisions a new project, the lifecycle handlers of the API, the sync   *)
(* of a starting control plane, and the reconciler.  Nothing locks a       *)
(* project; each of them is a sequence of store calls, file writes and     *)
(* docker commands, and the steps interleave.                              *)
(*                                                                         *)
(* A job holds the steps it has left.  A step that fails replaces them by  *)
(* what the code does about the failure.  Time advances in ticks, for the  *)
(* ceiling of the provisioning context and the reconciler's grace period.  *)
(***************************************************************************)
EXTENDS Naturals, Sequences

CONSTANTS Handlers,     \* lifecycle requests to be made, each at most once
          Kinds,        \* the requests considered
          Lag,          \* longest time from CreateProject to the goroutine's start
          Ceiling,      \* timeout of the provisioning context
          Grace,        \* provisionGracePeriod
          MaxFaults     \* bound: failing commands and control-plane crashes

RequestKinds == {"pause", "resume", "restart", "services", "scale", "upgrade",
                 "destroy"}

ASSUME KindsAssumption == Kinds \subseteq RequestKinds
ASSUME TimingAssumption ==
  /\ Lag \in Nat /\ Ceiling \in Nat /\ Grace \in Nat
  /\ Lag + Ceiling < Grace
ASSUME HandlersAssumption == {"creator", "boot", "project"} \cap Handlers = {}
ASSUME BoundsAssumption == MaxFaults \in Nat

VARIABLES
  status,    \* store: the project's status, "none" without a row
  age,       \* store: ticks since UpdatedAt, while the project is provisioning
  dir,       \* project directory: "none", "partial", or "rendered" with compose.yaml
  desired,   \* .env: SUPADUPA_DESIRED_STATE
  live,      \* state of each service's container, "none" without one
  net,       \* the project's edge network exists
  todo,      \* per job: the steps it has left
  kind,      \* per job: what it does
  fresh,     \* the requests not made yet ("creator": CreateProject, then its dispatch)
  clock,     \* ticks since CreateProject, then since the goroutine started
  rec,       \* the reconciler: its step, the status and the age of the project it
             \* listed (counted while it is provisioning), the status it observed
  up,        \* the control plane runs
  faults     \* failing commands and crashes so far

store   == <<status, age>>
runtime == <<dir, desired, live, net>>
jobs    == <<todo, kind, fresh, clock>>
process == <<rec, up>>
vars    == <<store, runtime, jobs, process, faults>>

Jobs == Handlers \cup {"creator", "boot"}
Services == {"db", "app"}   \* the database, and the services that depend on it
Gone == [s \in Services |-> "none"]
Reported == {"healthy", "starting", "degraded", "paused", "error"}
Phases == Reported \cup {"provisioning"}
Calls == Reported \cup {"list", "touch", "route", "delete"}  \* store calls, by project
Idle == [step |-> "idle", listed |-> "none", age |-> 0, seen |-> "none"]

(* The provisioner's operations, as steps in the order of the code.          *)

Create == <<"mkdir", "create", "network", "up db", "up">>
SyncSecrets == <<"render", "up">>
SyncServices == <<"render", "up">>
Upgrade == <<"render", "up">>
Scale == <<"render", "up">>
Pause == <<"stop", "set paused">>
Resume == <<"up", "set running">>
DestroyWithOptions == <<"down", "sweep", "rmdir">>

(* The jobs: the provisioner's operations and the store calls around them.   *)

provisionNewProject == Create \o <<"healthy">>
\* (After SyncServices it writes the settings, the auth hooks and the replicas
\* again, which these properties do not tell apart.)
reconcileExistingProjectRuntime ==
  <<"list">> \o SyncSecrets \o <<"list">> \o SyncServices
lifecycleHandler(nextStatus) ==
  (IF nextStatus = "paused" THEN Pause ELSE Resume) \o <<nextStatus>>
restartHandler == Pause \o Resume \o <<"healthy">>
updateProjectServicesHandler == <<"touch">> \o SyncServices \o <<"route", "healthy">>
scaleProjectHandler == <<"touch">> \o Scale
upgradeProjectHandler == Upgrade \o <<"touch">>
destroyProjectHandler == DestroyWithOptions \o <<"unroute", "delete">>

Program(k) ==
  CASE k = "create"   -> provisionNewProject
    [] k = "sync"     -> reconcileExistingProjectRuntime
    [] k = "pause"    -> lifecycleHandler("paused")
    [] k = "resume"   -> lifecycleHandler("healthy")
    [] k = "restart"  -> restartHandler
    [] k = "services" -> updateProjectServicesHandler
    [] k = "scale"    -> scaleProjectHandler
    [] k = "upgrade"  -> upgradeProjectHandler
    [] k = "destroy"  -> destroyProjectHandler
    [] OTHER          -> <<>>

\* The sync of a starting control plane goes over the projects twice, for their
\* secrets and for the rest; what is left of it when a round is given up.
NextRound(steps) == IF Len(steps) > 3 THEN SubSeq(steps, Len(steps) - 2, Len(steps)) ELSE <<>>

\* What a job with these steps left does when the first one fails: record the
\* failure, or answer the request with an error and leave things as they are.  A
\* failed upgrade installs the previous version again, and gives up when that
\* fails too.  A failed store call ends the job.
Rescue(k, steps) ==
  IF Head(steps) = "list" THEN NextRound(steps)
  ELSE IF Head(steps) \in Calls THEN <<>>
  ELSE CASE k = "create"  -> <<"error">>
         [] k = "sync"    -> <<"degraded">> \o NextRound(steps)
         [] k = "scale"   -> <<"error">>
         [] k = "upgrade" -> Upgrade
         [] OTHER         -> <<>>

AfterFailure(k) ==
  CASE k = "upgrade" -> "rollback" [] k = "sync" -> "sync" [] OTHER -> "failed"

Steps == {"mkdir", "create", "network", "up db", "up", "render", "stop", "set paused",
          "set running", "down", "sweep", "rmdir", "unroute"} \cup Calls

TypeOK ==
  /\ status \in Phases \cup {"none"}
  /\ age \in 0..Grace
  /\ dir \in {"none", "partial", "rendered"}
  /\ desired \in {"running", "paused"}
  /\ live \in [Services -> {"none", "starting", "running", "exited"}]
  /\ net \in BOOLEAN
  /\ todo \in [Jobs -> Seq(Steps)]
  /\ kind \in [Jobs -> RequestKinds \cup {"create", "sync", "rollback", "failed"}]
  /\ fresh \subseteq Jobs \cup {"project"}
  /\ clock \in 0..(Lag + Ceiling)
  /\ rec \in [step : {"idle", "listed", "observe", "write"},
              listed : Phases \cup {"none"}, age : 0..Grace,
              seen : Reported \cup {"none"}]
  /\ up \in BOOLEAN
  /\ faults \in 0..MaxFaults

\* A control plane that has just started, and no project yet.
Init ==
  /\ status = "none" /\ age = 0
  /\ dir = "none" /\ desired = "running" /\ live = Gone /\ net = FALSE
  /\ kind \in [Jobs -> Kinds \cup {"create", "sync"}]
  /\ kind["creator"] = "create" /\ kind["boot"] = "sync"
  /\ \A h \in Handlers : kind[h] \in Kinds
  /\ todo = [j \in Jobs |-> IF j = "boot" THEN Program("sync") ELSE <<>>]
  /\ fresh = Handlers \cup {"project", "creator"}
  /\ clock = 0
  /\ rec = Idle
  /\ up = TRUE
  /\ faults = 0

-----------------------------------------------------------------------------
(* The store.                                                              *)

\* (mutant of UpdateProjectStatus) write the row without looking it up
UpsertProjectStatus(s) ==
  /\ status' = s
  /\ age' = 0

\* UpdateProjectStatus fails with ErrNotFound when the project is gone.  The
\* updates of the version, the resources and the services keep the status, and
\* set UpdatedAt as well: the step "touch".
UpdateProjectStatus(s) ==
  /\ status # "none"
  /\ status' = s
  /\ age' = 0

\* createProjectHandler: the row is stored in the provisioning phase.
CreateProject ==
  /\ up /\ "project" \in fresh
  /\ status' = "provisioning" /\ age' = 0
  /\ fresh' = fresh \ {"project"}
  /\ clock' = 0
  /\ UNCHANGED <<runtime, todo, kind, process, faults>>

\* The row is stored and the goroutine not started yet.
Pending == "creator" \in fresh /\ "project" \notin fresh

\* createProjectHandler, continued: with the secrets stored the goroutine is
\* started.  When EnsureProjectSecrets fails, as it does for a project destroyed
\* meanwhile, the handler answers with an error and nothing provisions the row.
Dispatch ==
  /\ up /\ Pending
  /\ fresh' = fresh \ {"creator"}
  /\ clock' = 0
  /\ \/ /\ status # "none"
        /\ todo' = [todo EXCEPT !["creator"] = Program("create")]
        /\ UNCHANGED faults
     \/ /\ status = "none"
        /\ UNCHANGED <<todo, faults>>
     \/ /\ faults < MaxFaults /\ faults' = faults + 1
        /\ UNCHANGED todo
  /\ UNCHANGED <<store, runtime, kind, process>>

\* A lifecycle request on an existing project.
Request(h) ==
  /\ up /\ h \in fresh /\ status # "none"
  /\ fresh' = fresh \ {h}
  /\ todo' = [todo EXCEPT ![h] = Program(kind[h])]
  /\ UNCHANGED <<store, runtime, kind, clock, process, faults>>

-----------------------------------------------------------------------------
(* The steps.  Each says when it succeeds and what it changes then.        *)

Files(s) ==
  \/ s = "mkdir" /\ dir' = (IF dir = "none" THEN "partial" ELSE dir)
     /\ UNCHANGED desired
  \/ s = "create" /\ dir # "none" /\ dir' = "rendered" /\ desired' = "running"
  \/ s = "render" /\ dir = "rendered" /\ UNCHANGED <<dir, desired>>
  \/ s = "set paused" /\ dir = "rendered" /\ desired' = "paused" /\ UNCHANGED dir
  \/ s = "set running" /\ dir = "rendered" /\ desired' = "running" /\ UNCHANGED dir
  \/ s = "rmdir" /\ dir' = "none" /\ UNCHANGED desired

\* up starts a container unless it runs; its healthcheck passes later.
Started(s) == IF live[s] = "running" THEN "running" ELSE "starting"

\* docker commands; compose needs its file, and the external network to start
\* anything.  The services that depend on the database are started when it is
\* healthy.
Docker(s) ==
  \/ s = "network" /\ net' = TRUE /\ UNCHANGED live
  \/ s = "up db" /\ dir = "rendered" /\ net
     /\ live' = [live EXCEPT !["db"] = Started("db")] /\ UNCHANGED net
  \/ s = "up" /\ dir = "rendered" /\ net
     /\ live' = [live EXCEPT !["db"] = "running", !["app"] = Started("app")]
     /\ UNCHANGED net
  \/ s = "stop" /\ dir = "rendered"
     /\ live' = [c \in Services |-> IF live[c] = "none" THEN "none" ELSE "exited"]
     /\ UNCHANGED net

\* DestroyWithOptions: compose down, then the labelled containers and networks
\* that are still there.  Without compose.yaml it skips both, see Rest.
Teardown(s) ==
  \/ s = "down" /\ live' = (IF dir = "rendered" THEN Gone ELSE live) /\ UNCHANGED net
  \/ s = "sweep" /\ live' = Gone /\ net' = FALSE
  \/ s = "unroute" /\ UNCHANGED <<live, net>>

Save(s) ==
  \/ s \in Reported /\ UpdateProjectStatus(s)
  \/ s = "touch" /\ UpdateProjectStatus(status)
  \/ s = "delete" /\ status # "none" /\ status' = "none" /\ age' = 0

\* Store calls that only read the project: the listing of the startup sync, and
\* the routes registered after a change of the services.
Lookup(s) == s \in {"list", "route"} /\ status # "none"

Succeeds(s) ==
  \/ Files(s) /\ UNCHANGED <<store, live, net>>
  \/ (Docker(s) \/ Teardown(s)) /\ UNCHANGED <<store, dir, desired>>
  \/ Save(s) /\ UNCHANGED runtime
  \/ Lookup(s) /\ UNCHANGED <<store, runtime>>

\* Steps whose precondition does not hold fail by themselves.
CannotSucceed(s) ==
  \/ s = "create" /\ dir = "none"
  \/ s \in {"render", "set paused", "set running", "stop"} /\ dir # "rendered"
  \/ s \in {"up db", "up"} /\ (dir # "rendered" \/ ~net)
  \/ s \in Calls /\ status = "none"

\* Commands that may also fail for reasons of their own; an up that fails may have
\* started the database.
Commands == {"network", "up db", "up", "stop", "down", "sweep", "unroute", "route"}

Breaks(s) ==
  /\ s \in Commands
  /\ faults < MaxFaults /\ faults' = faults + 1
  /\ \/ UNCHANGED live
     \/ /\ s \in {"up db", "up"} /\ dir = "rendered" /\ net
        /\ live' = [live EXCEPT !["db"] = Started("db")]
  /\ UNCHANGED <<store, dir, desired, net>>

\* The steps after the first one: destroy looks for compose.yaml once.
Rest(steps) ==
  IF Head(steps) = "down" /\ dir # "rendered" THEN Tail(Tail(steps)) ELSE Tail(steps)

Step(j) ==
  /\ up /\ todo[j] # <<>>
  /\ Succeeds(Head(todo[j]))
  /\ todo' = [todo EXCEPT ![j] = Rest(@)]
  /\ UNCHANGED <<kind, fresh, clock, process, faults>>

Fail(j) ==
  /\ up /\ todo[j] # <<>>
  /\ \/ CannotSucceed(Head(todo[j])) /\ UNCHANGED <<store, runtime, faults>>
     \/ Breaks(Head(todo[j]))
  /\ todo' = [todo EXCEPT ![j] = Rescue(kind[j], @)]
  /\ kind' = [kind EXCEPT ![j] = AfterFailure(@)]
  /\ UNCHANGED <<fresh, clock, process>>

-----------------------------------------------------------------------------
(* The reconciler.                                                         *)

\* What Status reports of the runtime.
Observed ==
  LET in(state) == {c \in Services : live[c] = state}
  IN  IF dir # "rendered" \/ live = Gone THEN "error"
      ELSE IF desired = "paused"
           THEN IF in("none") \cup in("running") = {} THEN "paused" ELSE "degraded"
      ELSE IF in("none") \cup in("exited") # {} THEN "degraded"
      ELSE IF in("starting") # {} THEN "starting"
      ELSE "healthy"

\* (mutant of Owned) a grace period shorter than the ceiling of the provisioning
OwnedBriefly == rec.listed = "provisioning" /\ rec.age < Ceiling

\* (mutant of Owned) a provisioning project is never taken over
OwnedForEver == rec.listed = "provisioning"

\* A project listed in the provisioning phase is left to its goroutine for the
\* grace period, counted from the UpdatedAt it was listed with.
Owned == rec.listed = "provisioning" /\ rec.age < Grace

Listed == [step |-> "listed", listed |-> status,
           age |-> IF status = "provisioning" THEN age ELSE 0, seen |-> "none"]

\* ListProjects: from here on the pass works on the project it listed.
ListProjects ==
  /\ up /\ rec.step = "idle"
  /\ status # "none"
  /\ rec' = Listed
  /\ UNCHANGED <<store, runtime, jobs, up, faults>>

Skip ==
  /\ up /\ rec.step = "listed" /\ Owned
  /\ rec' = Idle
  /\ UNCHANGED <<store, runtime, jobs, up, faults>>

\* EnsureEdgeNetworking creates the network if it is missing; errors are ignored.
EnsureEdgeNetworking ==
  /\ up /\ rec.step = "listed" /\ ~Owned
  /\ rec' = [rec EXCEPT !.step = "observe"]
  /\ \/ net' = TRUE /\ UNCHANGED faults
     \/ faults < MaxFaults /\ faults' = faults + 1 /\ UNCHANGED net
  /\ UNCHANGED <<store, dir, desired, live, jobs, up>>

\* Status, which may also fail.
ObserveStatus ==
  /\ up /\ rec.step = "observe"
  /\ \/ rec' = [rec EXCEPT !.step = "write", !.seen = Observed] /\ UNCHANGED faults
     \/ /\ faults < MaxFaults /\ faults' = faults + 1
        /\ rec' = [rec EXCEPT !.step = "write", !.seen = "error"]
  /\ UNCHANGED <<store, runtime, jobs, up>>

\* An error and a new phase are written, and the same phase when its message has
\* changed.
WriteStatus ==
  /\ up /\ rec.step = "write"
  /\ rec' = Idle
  /\ \/ UpdateProjectStatus(rec.seen)
     \/ (rec.seen = rec.listed \/ status = "none") /\ UNCHANGED store
  /\ UNCHANGED <<runtime, jobs, up, faults>>

Reconcile == ListProjects \/ Skip \/ EnsureEdgeNetworking \/ ObserveStatus \/ WriteStatus

-----------------------------------------------------------------------------
(* Time, and the control plane's own failures.                             *)

\* The provisioning goroutine is gone once its steps are.
Provisioning == todo["creator"] # <<>>

\* The ages of the row and of the row the reconciler listed.
Aging ==
  /\ age' = IF status = "provisioning" /\ age < Grace THEN age + 1 ELSE age
  /\ rec' = IF rec.listed = "provisioning" /\ rec.age < Grace
            THEN [rec EXCEPT !.age = @ + 1] ELSE rec
  /\ clock' = IF Pending \/ Provisioning THEN clock + 1 ELSE 0
  /\ UNCHANGED <<status, runtime, todo, kind, fresh, up, faults>>

\* One tick: the handler dispatches within Lag, the context of the goroutine ends
\* at the ceiling.
Tick ==
  /\ Provisioning => clock < Ceiling
  /\ Pending => clock < Lag
  /\ Aging

\* A healthcheck passes.
HealthCheck(c) ==
  /\ live[c] = "starting" /\ live' = [live EXCEPT ![c] = "running"]
  /\ UNCHANGED <<store, dir, desired, net, jobs, process, faults>>

\* A container dies.
ContainerDies(c) ==
  /\ live[c] = "running" /\ live' = [live EXCEPT ![c] = "exited"]
  /\ faults < MaxFaults /\ faults' = faults + 1
  /\ UNCHANGED <<store, dir, desired, net, jobs, process>>

\* The process dies: its goroutines and handlers with it, store and runtime stay.
Crash ==
  /\ up /\ faults < MaxFaults /\ faults' = faults + 1
  /\ up' = FALSE
  /\ rec' = Idle
  /\ todo' = [j \in Jobs |-> <<>>]
  /\ fresh' = IF "project" \in fresh THEN fresh ELSE fresh \ {"creator"}
  /\ UNCHANGED <<store, runtime, kind, clock>>

\* A start re-creates the edge networks of the projects and launches the sync of
\* their runtimes beside the API and the reconciler.
Restart ==
  /\ ~up
  /\ up' = TRUE
  /\ net' = (net \/ status # "none")
  /\ kind' = [kind EXCEPT !["boot"] = "sync"]
  /\ todo' = [todo EXCEPT !["boot"] = Program("sync")]
  /\ UNCHANGED <<store, dir, desired, live, fresh, clock, rec, faults>>

Work(j) == Step(j) \/ Fail(j)

Next ==
  \/ CreateProject \/ Dispatch \/ Reconcile
  \/ Tick \/ Crash \/ Restart
  \/ \E c \in Services : HealthCheck(c) \/ ContainerDies(c)
  \/ \E h \in Handlers : Request(h)
  \/ \E j \in Jobs : Work(j)

Spec == Init /\ [][Next]_vars

\* Goroutines run, the reconciler's loop repeats, the control plane is restarted
\* by its supervisor, started containers become healthy, and time passes.
Fairness ==
  /\ WF_vars(Dispatch) /\ WF_vars(Tick) /\ WF_vars(Restart)
  /\ WF_vars(ListProjects) /\ WF_vars(Skip) /\ WF_vars(EnsureEdgeNetworking)
  /\ WF_vars(ObserveStatus) /\ WF_vars(WriteStatus)
  /\ \A j \in Jobs : WF_vars(Work(j))
  /\ \A c \in Services : WF_vars(HealthCheck(c))

FairSpec == Spec /\ Fairness

-----------------------------------------------------------------------------
(* What the code promises.                                                 *)

\* While the provisioning goroutine runs and nobody else has changed the phase,
\* the reconciler does not write the status: its grace period outlasts the
\* goroutine, whatever the listing it works on.
GoroutineOwnsStatus ==
  [][rec.step = "write" /\ up' /\ rec' = Idle /\ status' # status
       => ~(Provisioning /\ status = "provisioning")]_vars

\* A late status write of a goroutine, a handler, the startup sync or a stale
\* reconciler pass never brings the row of a destroyed project back.
DestroyIsFinal ==
  [][status = "none" /\ "project" \notin fresh => status' = "none"]_vars

\* The status converges: once the requests, the failures and the crashes are
\* over, the row says what the runtime is, for ever.  It covers the project whose
\* goroutine died with the control plane or was never started.
Converges == <>[](status # "none" => status = Observed)

=============================================================================
