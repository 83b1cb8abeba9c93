---------------------------- MODULE ServiceStartup ----------------------------
(***************************************************************************)
(* How the services of one project come up, and come up again after an     *)
(* operator has enabled or disabled some of them.                          *)
(*                                                                         *)
(* Both renderers turn the project's service states into workloads with    *)
(* dependencies and into the routes of the gateway.  On Kubernetes         *)
(* (internal/provisioner/kubernetes) a dependency is an init container     *)
(* that waits until the other service answers on its port, a probe decides *)
(* who answers, and the gateway's probe goes through the gateway to auth.  *)
(* On Compose (internal/provisioner/compose) depends_on orders the start   *)
(* and `docker compose up` does the waiting.  Requests of one project are  *)
(* taken one at a time here; the rest of a reconcile pass is               *)
(* KubernetesRuntime's subject.                                            *)
(***************************************************************************)
EXTENDS Naturals, Sequences

CONSTANTS Optional,      \* the services an operator may enable or disable
          Runtimes,      \* the drivers looked at: "compose", "kubernetes"
          MaxRequests,   \* bound: updates of the enabled services
          MaxCrashes     \* bound: containers that stop, pods lost, calls that fail

(* allowedProjectServices, without graphql, which has no workload.         *)
allowedProjectServices ==
  {"auth", "rest", "realtime", "storage", "imgproxy", "functions", "pooler",
   "studio", "analytics", "vector"}

ASSUME StartupBoundsAssumption == MaxRequests \in Nat /\ MaxCrashes \in Nat
ASSUME OptionalAssumption == Optional \subseteq allowedProjectServices
ASSUME RuntimesAssumption == Runtimes \subseteq {"compose", "kubernetes"}

AlwaysOn == {"db", "kong", "meta"}
StartupServices == AlwaysOn \union Optional

VARIABLES
  driver,    \* the driver of the project
  spec,       \* the enabled services in compose.yaml, or in the project object
  config,     \* the services that the gateway's config file routes to
  pods,       \* service -> its containers, the newest last
  command,    \* the request that Compose works on: "idle", "up", "recreate"
  pass,       \* the operator's pass: [step, spec]; what it listed
  requests, crashes

startupVars == <<driver, spec, config, pods, command, pass, requests, crashes>>

(***************************************************************************)
(* What the renderers make of a set of enabled services.                   *)
(***************************************************************************)
expectedServices(on) == AlwaysOn \union on

(* The dependencies that kubernetesRenderedServices writes for a service.  *)
renderedDependencies(s) ==
  CASE s = "kong" -> <<"auth", "rest", "realtime", "storage", "functions">>
    [] s \in {"meta", "auth", "rest", "realtime", "pooler", "analytics"} -> <<"db">>
    [] s = "storage" -> <<"db", "rest">>
    [] s = "studio" -> <<"meta", "kong">>
    [] OTHER -> << >>

\* (mutant of enabledRenderedDependencies) Disabled services are waited for too.
EveryRenderedDependency(s, on) ==
  SelectSeq(renderedDependencies(s), LAMBDA d : d \in StartupServices)

enabledRenderedDependencies(s, on) ==
  SelectSeq(renderedDependencies(s), LAMBDA d : d \in expectedServices(on))

(* The upstreams of the gateway in compose.yaml; the database if none.     *)
kongDependencies(on) ==
  LET upstreams == SelectSeq(<<"auth", "rest", "realtime", "storage", "functions", "studio">>,
                             LAMBDA d : d \in on)
  IN  IF upstreams = << >> THEN <<"db">> ELSE upstreams

composeDependencies(s, on) ==
  CASE s = "kong" -> kongDependencies(on)
    [] s = "studio" -> <<"meta">>
    [] s = "storage" -> <<"db">> \o SelectSeq(<<"rest", "imgproxy">>, LAMBDA d : d \in on)
    [] s \in {"meta", "auth", "rest", "realtime", "pooler", "analytics"} -> <<"db">>
    [] OTHER -> << >>

(* The enabled services that the gateway's declarative config routes to;   *)
(* both drivers write the same routes, Kubernetes into a ConfigMap.        *)
Routable == {"auth", "rest", "realtime", "storage", "functions", "analytics"}
writeKongConfigFile(on) == on \intersect Routable
kongKubernetesDeclarativeConfig(on) == on \intersect Routable

(* What makes a driver replace a container: the pod template, which names  *)
(* the dependencies but not the content of the config files, and the       *)
(* service of compose.yaml, whose environment (.env) lists every service.  *)
(* (Resource limits are in it too, and are left out.)                      *)
Template(s, on) ==
  IF driver = "kubernetes"
  THEN [deps |-> enabledRenderedDependencies(s, on), env |-> {}]
  ELSE [deps |-> composeDependencies(s, on), env |-> on]

(* A container that has not started: wait is what it still waits for.      *)
Created(s, on) == [template |-> Template(s, on), wait |-> Template(s, on).deps,
                   state |-> "waiting", routes |-> {}]

HasStarted(c) == c.state \in {"starting", "up"}

(***************************************************************************)
(* Probes and waiting.  The gateway's probe asks for /auth/v1/health: it   *)
(* passes when the gateway routes auth and auth answers behind it.         *)
(***************************************************************************)
Answers(s) == \E i \in DOMAIN pods[s] : pods[s][i].state = "up"

ProbePasses(s, c) ==
  /\ c.state = "up"
  /\ s = "kong" /\ driver = "kubernetes" => "auth" \in c.routes /\ Answers("auth")

Ready(s) == \E i \in DOMAIN pods[s] : ProbePasses(s, pods[s][i])

(* The init container's `nc -z` reaches a service that has a ready pod;    *)
(* Compose waits for a healthy database and for the others to be started.  *)
DependencyMet(s, d) ==
  IF driver = "kubernetes" THEN Ready(d)
  ELSE IF d = "db" /\ s # "kong" THEN Ready(d)
  ELSE \E i \in DOMAIN pods[d] : HasStarted(pods[d][i])

SetPod(s, i, c) == pods' = [pods EXCEPT ![s][i] = c]

(* An init container, or Compose, sees the next dependency and goes on.    *)
PassDependency(s, i) ==
  LET c == pods[s][i]
  IN  /\ c.state = "waiting" /\ c.wait # << >>
      /\ driver = "compose" => command # "idle"
      /\ DependencyMet(s, Head(c.wait))
      /\ SetPod(s, i, [c EXCEPT !.wait = Tail(c.wait)])
      /\ UNCHANGED <<driver, spec, config, command, pass, requests, crashes>>

(* The container starts; the gateway's entrypoint reads its config file.   *)
StartContainer(s, i) ==
  LET c == pods[s][i]
  IN  /\ c.state = "waiting" /\ c.wait = << >>
      /\ driver = "compose" => command # "idle"
      /\ SetPod(s, i, [c EXCEPT !.state = "starting",
                                !.routes = IF s = "kong" THEN config ELSE {}])
      /\ UNCHANGED <<driver, spec, config, command, pass, requests, crashes>>

(* The process inside listens (an upstream image).                         *)
ComesUp(s, i) ==
  /\ pods[s][i].state = "starting"
  /\ SetPod(s, i, [pods[s][i] EXCEPT !.state = "up"])
  /\ UNCHANGED <<driver, spec, config, command, pass, requests, crashes>>

(* The kubelet restarts a gateway whose liveness probe keeps failing.      *)
LivenessRestart(i) ==
  LET c == pods["kong"][i]
  IN  /\ driver = "kubernetes" /\ c.state = "up" /\ ~ProbePasses("kong", c)
      /\ SetPod("kong", i, [c EXCEPT !.state = "starting", !.routes = config])
      /\ UNCHANGED <<driver, spec, config, command, pass, requests, crashes>>

(***************************************************************************)
(* Requests.  updateProjectServicesHandler hands the new states to the     *)
(* driver: on Kubernetes the project object is applied and the operator    *)
(* does the rest; on Compose the files are written and Compose is run.     *)
(***************************************************************************)
UpdateServices(on) ==
  /\ requests < MaxRequests /\ command = "idle"
  /\ requests' = requests + 1
  /\ spec' = on
  /\ IF driver = "compose" THEN config' = writeKongConfigFile(on) /\ command' = "up"
                            ELSE UNCHANGED <<config, command>>
  /\ UNCHANGED <<driver, pods, pass, crashes>>

(* docker compose up -d --remove-orphans, its first part: containers that  *)
(* are missing, stopped or changed are created, the others removed.        *)
ComposeCreate ==
  /\ command = "up"
  /\ pods' = [s \in StartupServices |->
       IF s \notin expectedServices(spec) THEN << >>
       ELSE IF pods[s] = << >> \/ pods[s][1].template # Template(s, spec)
            \/ pods[s][1].state = "exited"
       THEN <<Created(s, spec)>> ELSE pods[s]]
  /\ command' = "start"
  /\ UNCHANGED <<driver, spec, config, pass, requests, crashes>>

(* The second part ends when every container has been started.             *)
ComposeUpDone ==
  /\ command = "start"
  /\ \A s \in expectedServices(spec) : pods[s] # << >> /\ pods[s][1].state # "waiting"
  /\ command' = "recreate"
  /\ UNCHANGED <<driver, spec, config, pods, pass, requests, crashes>>

(* docker compose up -d --force-recreate, of the gateway and then of the   *)
(* edge runtime if it is enabled (the two commands are taken together).    *)
(* A first Create, which starts the database, the stack without the pooler *)
(* and the pooler, waits for what this sequence waits for; it recreates no *)
(* gateway, having none.                                                   *)
Recreated == {"kong"} \union ({"functions"} \intersect spec)

RecreateContainers ==
  /\ command = "recreate"
  /\ pods' = [s \in StartupServices |->
       IF s \in Recreated THEN <<Created(s, spec)>> ELSE pods[s]]
  /\ command' = "restart"
  /\ UNCHANGED <<driver, spec, config, pass, requests, crashes>>

ComposeDone ==
  /\ command = "restart" /\ \A s \in Recreated : pods[s][1].state # "waiting"
  /\ command' = "idle"
  /\ UNCHANGED <<driver, spec, config, pods, pass, requests, crashes>>

(* A dependency stopped while Compose waited for it: the command fails and *)
(* the handler answers 409.                                                *)
ComposeFails ==
  /\ command \in {"start", "restart"}
  /\ \E s \in StartupServices : pods[s] # << >> /\ pods[s][1].state = "exited"
  /\ command' = "idle"
  /\ UNCHANGED <<driver, spec, config, pods, pass, requests, crashes>>

(***************************************************************************)
(* The operator's pass over the project.                                   *)
(***************************************************************************)
Resting == [step |-> "rest", spec |-> {}]

InSync ==
  /\ config = kongKubernetesDeclarativeConfig(spec)
  /\ \A s \in StartupServices :
       IF s \in expectedServices(spec)
       THEN pods[s] # << >> /\ pods[s][Len(pods[s])].template = Template(s, spec)
       ELSE pods[s] = << >>

StartPass ==
  /\ driver = "kubernetes" /\ pass = Resting /\ ~InSync
  /\ pass' = [step |-> "config", spec |-> spec]
  /\ UNCHANGED <<driver, spec, config, pods, command, requests, crashes>>

ApplyConfig ==
  /\ pass.step = "config"
  /\ config' = kongKubernetesDeclarativeConfig(pass.spec)
  /\ pass' = [pass EXCEPT !.step = "workloads"]
  /\ UNCHANGED <<driver, spec, pods, command, requests, crashes>>

\* The last of the containers with these positions.
Newest(I) == CHOOSE i \in I : \A j \in I : j <= i

(* A Deployment with a new template and the default strategy, one replica: *)
(* one older pod stays, a ready one if there is one, until the new pod is  *)
(* ready; a pod that already has the template becomes the new one.         *)
\* (mutant of Roll) The strategy is Recreate.
RollByRecreate(s, on) ==
  IF pods[s] # << >> /\ pods[s][Len(pods[s])].template = Template(s, on)
  THEN pods[s] ELSE <<Created(s, on)>>

Roll(s, on) ==
  LET same  == {i \in DOMAIN pods[s] : pods[s][i].template = Template(s, on)}
      other == DOMAIN pods[s] \ same
      ready == {i \in other : ProbePasses(s, pods[s][i])}
      new   == IF same = {} THEN Created(s, on) ELSE pods[s][Newest(same)]
  IN  IF other = {} THEN <<new>>
      ELSE <<pods[s][Newest(IF ready # {} THEN ready ELSE other)], new>>

ApplyWorkloads ==
  /\ pass.step = "workloads"
  /\ pods' = [s \in StartupServices |->
       IF s \in expectedServices(pass.spec) THEN Roll(s, pass.spec) ELSE pods[s]]
  /\ pass' = [pass EXCEPT !.step = "prune"]
  /\ UNCHANGED <<driver, spec, config, command, requests, crashes>>

Prune ==
  /\ pass.step = "prune"
  /\ pods' = [s \in StartupServices |->
       IF s \in expectedServices(pass.spec) THEN pods[s] ELSE << >>]
  /\ pass' = Resting
  /\ UNCHANGED <<driver, spec, config, command, requests, crashes>>

(* A call to the API server fails: the next pass starts from the beginning. *)
PassFails ==
  /\ pass # Resting /\ crashes < MaxCrashes
  /\ crashes' = crashes + 1
  /\ pass' = Resting
  /\ UNCHANGED <<driver, spec, config, pods, command, requests>>

(* The Deployment controller removes the older pod.                        *)
RetireOld(s) ==
  /\ Len(pods[s]) > 1 /\ ProbePasses(s, pods[s][Len(pods[s])])
  /\ pods' = [pods EXCEPT ![s] = <<pods[s][Len(pods[s])]>>]
  /\ UNCHANGED <<driver, spec, config, command, pass, requests, crashes>>

(* A container stops.  The kubelet restarts it, and so does the pooler's   *)
(* restart policy in compose.yaml; other Compose services stay stopped.    *)
ContainerStops(s, i) ==
  /\ crashes < MaxCrashes /\ HasStarted(pods[s][i])
  /\ crashes' = crashes + 1
  /\ SetPod(s, i, [pods[s][i] EXCEPT
       !.state = IF driver = "kubernetes" \/ s = "pooler" THEN "starting" ELSE "exited",
       !.routes = IF s = "kong" THEN config ELSE {}])
  /\ UNCHANGED <<driver, spec, config, command, pass, requests>>

(* A node is lost: the pod is made again, and waits again.                 *)
LosePod(s, i) ==
  /\ driver = "kubernetes" /\ crashes < MaxCrashes
  /\ crashes' = crashes + 1
  /\ SetPod(s, i, [pods[s][i] EXCEPT !.state = "waiting", !.routes = {},
                                     !.wait = pods[s][i].template.deps])
  /\ UNCHANGED <<driver, spec, config, command, pass, requests>>

-----------------------------------------------------------------------------
(* A project just recorded, with any of the services enabled.              *)
StartupInit ==
  /\ driver \in Runtimes
  /\ spec \in SUBSET Optional
  /\ config = IF driver = "compose" THEN writeKongConfigFile(spec) ELSE {}
  /\ pods = [s \in StartupServices |-> << >>]
  /\ command = IF driver = "compose" THEN "up" ELSE "idle"
  /\ pass = Resting /\ requests = 0 /\ crashes = 0

PodStep(s, i) == PassDependency(s, i) \/ StartContainer(s, i) \/ ComesUp(s, i)
ComposeStep ==
  ComposeCreate \/ ComposeUpDone \/ RecreateContainers \/ ComposeDone \/ ComposeFails
OperatorStep == StartPass \/ ApplyConfig \/ ApplyWorkloads \/ Prune

StartupNext ==
  \/ \E on \in SUBSET Optional : UpdateServices(on)
  \/ ComposeStep \/ OperatorStep \/ PassFails
  \/ \E s \in StartupServices : RetireOld(s)
  \/ \E i \in DOMAIN pods["kong"] : LivenessRestart(i)
  \/ \E s \in StartupServices : \E i \in DOMAIN pods[s] :
       PodStep(s, i) \/ ContainerStops(s, i) \/ LosePod(s, i)

(* The control plane, the operator, Compose and the kubelet keep working.  *)
StartupFairness ==
  /\ WF_startupVars(ComposeStep) /\ WF_startupVars(OperatorStep)
  /\ \A s \in StartupServices : WF_startupVars(RetireOld(s))
  /\ \A s \in StartupServices : \A i \in 1..2 :
       WF_startupVars(i \in DOMAIN pods[s] /\ PodStep(s, i))
  /\ \A i \in 1..2 : WF_startupVars(i \in DOMAIN pods["kong"] /\ LivenessRestart(i))

StartupSpec == StartupInit /\ [][StartupNext]_startupVars /\ StartupFairness

-----------------------------------------------------------------------------
(* Every variable has its type; a service never has more than the pod it   *)
(* has and the pod that replaces it (deploymentObject's one replica).      *)
StartupTypeOK ==
  /\ driver \in Runtimes /\ spec \in SUBSET Optional /\ config \in SUBSET Optional
  /\ command \in {"idle", "up", "start", "recreate", "restart"}
  /\ pass.step \in {"rest", "config", "workloads", "prune"} /\ pass.spec \in SUBSET Optional
  /\ requests \in 0..MaxRequests /\ crashes \in 0..MaxCrashes
  /\ \A s \in StartupServices :
       /\ Len(pods[s]) \in 0..(IF driver = "compose" THEN 1 ELSE 2)
       /\ \A i \in DOMAIN pods[s] :
            /\ pods[s][i].state \in {"waiting", "starting", "up", "exited"}
            /\ pods[s][i].routes \in SUBSET Optional

(* Nobody waits for ever, on each other or on a service that is disabled:  *)
(* once the requests and the crashes have ended, every enabled service is  *)
(* ready.  On Kubernetes this needs auth to be enabled, since the probe of *)
(* the gateway goes to auth; on Compose it needs that nothing stopped,     *)
(* since only the pooler has a restart policy.                             *)
ComeUp ==
  <>[](((driver = "kubernetes" /\ "auth" \in spec) \/ (driver = "compose" /\ crashes = 0))
       => \A s \in expectedServices(spec) : Ready(s))

(* Enabling and disabling services rolls the gateway without an outage:    *)
(* while auth answers, a step that is not a crash never takes the last     *)
(* ready gateway away (deploymentObject, dependencyInitContainers).        *)
GatewayStaysUp ==
  [][driver = "kubernetes" /\ crashes' = crashes /\ Ready("kong") /\ Answers("auth")'
     => Ready("kong")']_startupVars
=============================================================================
