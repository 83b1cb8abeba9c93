-------------------------- MODULE KubernetesRuntime --------------------------
(***************************************************************************)
(* One project on Kubernetes: the provisioner that renders its manifests   *)
(* and applies them with kubectl (internal/provisioner/kubernetes), and    *)
(* the operator that reconciles the objects it finds                       *)
(* (internal/operator), with the API server between them.                  *)
(*                                                                         *)
(* The provisioner keeps project.yaml in the project's directory.  Every   *)
(* operation reads it, changes a part and writes the whole of it, then     *)
(* applies whatever the file holds by then; two requests may do so at      *)
(* once.  Destroy hands the project over to the operator, waits for the    *)
(* phase Terminating and then deletes the objects and the directory.       *)
(*                                                                         *)
(* The operator lists the Projects every interval and works through each   *)
(* as it was when listed, one API call after the other.  With isolation    *)
(* (the default) a project's workloads have a namespace of their own,      *)
(* which the operator creates and deletes and which a finalizer on the     *)
(* Project keeps accounted for; without it they are in the namespace of    *)
(* the Projects and there is no finalizer.                                 *)
(*                                                                         *)
(* A service is a Deployment (with its Service and Ingress) and a volume.  *)
(* ConfigMap and Secret come and go with the Deployments.                  *)
(***************************************************************************)
EXTENDS Naturals, FiniteSets

CONSTANTS Services,    \* the services of the project that have an image
          Optional,    \* those a client may enable and disable
          OtherKinds,  \* the kinds of objects besides the Project
          Slots,       \* requests the provisioner serves at a time
          Modes,       \* values of the isolation setting, a set of BOOLEANs
          None,
          MaxRequests, \* bound: requests made of the provisioner
          MaxSurprises \* bound: failed calls and stops of the operator, and
                       \* changes made with kubectl by hand

ASSUME ServicesAssumption == Optional \subseteq Services /\ Services # {}
ASSUME KindsAssumption ==
  OtherKinds \subseteq {"ProjectConfig", "ProjectAuthHooks", "ProjectBranchClone",
                        "ProjectReplica", "RetainedProjectResources"}
  /\ "RetainedProjectResources" \in OtherKinds
ASSUME ModesAssumption == Modes \subseteq BOOLEAN
ASSUME BoundsAssumption == MaxRequests \in Nat /\ MaxSurprises \in Nat

VARIABLES isolation, \* the setting, the same for operator and provisioner
          file,      \* the spec in project.yaml; None: no directory
          cr,        \* the Project object, None when there is none
          ns,        \* the runtime namespace
          isolated,  \* the isolation objects applied in it
          deps,      \* each service's Deployment
          pvcs,      \* each service's volume claim
          others,    \* the project's objects of the other kinds
          op,        \* the operator's pass
          reqs,      \* what the provisioner is doing
          budget

vars == <<isolation, file, cr, ns, isolated, deps, pvcs, others, op, reqs, budget>>
workloads == <<ns, isolated, deps, pvcs>>

\* The kinds the operator only observes, with the phase it reports.
OtherPhase ==
  [ProjectConfig |-> "Observed", ProjectAuthHooks |-> "Observed",
   ProjectBranchClone |-> "Observed", ProjectReplica |-> "ReplicaPending",
   RetainedProjectResources |-> "Observed"]

\* isolationForProject: a service account without a token, network policies
\* (deny by default; within the project; from the ingress controller to the
\* exposed ports; out to DNS, the database and the configured addresses), a
\* quota with limits.
IsolationObjects == {"serviceAccount", "networkPolicies", "quotaAndLimits"}

\* Those whose manifest is in the project's directory.
RenderedKinds == OtherKinds \ {"RetainedProjectResources"}

\* foreign: runtimeNamespace names a namespace that is not the project's.
Specs == [desired : {"running", "paused", "destroying"},
          enabled : {Services \ o : o \in SUBSET Optional},
          retain : BOOLEAN, foreign : BOOLEAN]

Statuses == [phase : {"RuntimeRendered", "RuntimeReady", "RuntimePending",
                      "Paused", "Terminating", "Degraded"},
             gen : Nat, uid : Nat]

Projects == [spec : Specs, uid : Nat, gen : Nat, deleting : BOOLEAN,
             fin : BOOLEAN, status : Statuses \cup {None}]

ASSUME NoneAssumption == None \notin Projects

Objects == [gen : Nat, valid : BOOLEAN, observed : Nat,
            phase : {"none", "Observed", "ReplicaPending", "Degraded"}]

NoObject == [gen |-> 0, valid |-> TRUE, observed |-> 0, phase |-> "none"]

\* Between two passes.
Idle == [pc |-> "idle", snap |-> None, ready |-> FALSE,
         seen |-> [k \in OtherKinds |-> 0]]

\* What Create renders.
Manifests == [desired : {"running"}, enabled : {Services \ o : o \in SUBSET Optional},
              retain : {FALSE}, foreign : {FALSE}]

NewProject(spec, uid) ==
  [spec |-> spec, uid |-> uid, gen |-> 1, deleting |-> FALSE, fin |-> FALSE,
   status |-> None]

\* A project that Create has just applied, with every service enabled.
Init ==
  /\ isolation \in Modes
  /\ file \in {m \in Manifests : m.enabled = Services}
  /\ cr = NewProject(file, 1)
  /\ ns = IF isolation THEN "absent" ELSE "active"
  /\ isolated = {}
  /\ deps = [s \in Services |-> "none"]
  /\ pvcs = [s \in Services |-> "none"]
  /\ others = [k \in OtherKinds |-> NoObject]
  /\ op = Idle
  /\ reqs = [r \in Slots |-> None]
  /\ budget = [requests |-> MaxRequests, surprises |-> MaxSurprises,
               uid |-> 1]   \* the last uid given out: none is used again

-----------------------------------------------------------------------------
(* The API server. *)

\* kubectl apply -f project.yaml: creates the object, or changes its spec,
\* which raises its generation.  Finalizers are not in the file and stay.
ApplyProject(spec) ==
  /\ cr' = IF cr = None THEN NewProject(spec, budget.uid + 1)
           ELSE IF cr.spec = spec THEN cr
           ELSE [cr EXCEPT !.spec = spec, !.gen = @ + 1]
  /\ budget' = [budget EXCEPT !.uid = IF cr = None THEN @ + 1 ELSE @]

ApplyOther(k) ==
  others' = [others EXCEPT ![k].gen = @ + 1, ![k].valid = TRUE]

\* A delete of an object with finalizers only marks it; a mark is a change.
Deleted(p) ==
  IF ~p.fin THEN None
  ELSE IF p.deleting THEN p
  ELSE [p EXCEPT !.deleting = TRUE, !.gen = @ + 1]

\* The namespace controller: what is in the namespace goes with it.
NamespaceGone ==
  /\ ns = "terminating"
  /\ ns' = "absent"
  /\ isolated' = {}
  /\ deps' = [s \in Services |-> "none"]
  /\ pvcs' = [s \in Services |-> "none"]
  /\ UNCHANGED <<isolation, file, cr, others, op, reqs, budget>>

\* kubectl delete, a GitOps prune.
DeleteByHand ==
  /\ budget.surprises > 0
  /\ cr # None
  /\ ~cr.deleting
  /\ cr' = Deleted(cr)
  /\ budget' = [budget EXCEPT !.surprises = @ - 1]
  /\ UNCHANGED <<isolation, file, workloads, others, op, reqs>>

\* kubectl edit of the Project's runtimeNamespace, or of an object of another
\* kind so that a required field is empty.
EditByHand ==
  /\ budget.surprises > 0
  /\ budget' = [budget EXCEPT !.surprises = @ - 1]
  /\ \/ /\ cr # None
        /\ ~cr.spec.foreign
        /\ cr' = [cr EXCEPT !.spec.foreign = TRUE, !.gen = @ + 1]
        /\ UNCHANGED others
     \/ \E k \in OtherKinds :
          /\ others[k].gen > 0
          /\ others[k].valid
          /\ others' = [others EXCEPT ![k].valid = FALSE, ![k].gen = @ + 1]
          /\ UNCHANGED cr
  /\ UNCHANGED <<isolation, file, workloads, op, reqs>>

-----------------------------------------------------------------------------
(* The provisioner.  A request is [kind, pc, spec, uid]: the operation, its *)
(* next step, the spec it has read or renders and, in Destroy, the object   *)
(* whose end kubectl waits for.                                             *)

Steps == {"write", "retain", "apply", "render", "wait", "deleteOthers", "deleteProject",
          "gone", "remove"}

Request(kind, pc, spec) == [kind |-> kind, pc |-> pc, spec |-> spec, uid |-> 0]

Destroys == {"Destroy", "DestroyRetain"}

Requests == [kind : {"Create", "Update"} \cup Destroys \cup RenderedKinds, pc : Steps,
             spec : Specs \cup {None}, uid : Nat]

\* What each operation changes in the project.yaml it has read.  The services
\* are rendered anew, which forgets that their volumes were to be retained.
mutate(kind, old, arg) ==
  CASE kind = "Pause" -> [old EXCEPT !.desired = "paused"]
    [] kind = "Resume" -> [old EXCEPT !.desired = "running"]
    [] kind = "SyncServices" -> [old EXCEPT !.enabled = arg.enabled, !.retain = FALSE]
    [] kind = "Destroy" -> [old EXCEPT !.desired = "destroying"]
    [] kind = "DestroyRetain" -> [old EXCEPT !.desired = "destroying", !.retain = TRUE]

Begin(r, req) ==
  /\ reqs[r] = None
  /\ r = CHOOSE x \in Slots : reqs[x] = None   \* slots are all alike
  /\ budget.requests > 0
  /\ reqs' = [reqs EXCEPT ![r] = req]
  /\ budget' = [budget EXCEPT !.requests = @ - 1]
  /\ UNCHANGED <<isolation, file, cr, workloads, others, op>>

\* Create: the directory is made, the manifest is new.  The store takes a
\* second project with the same ref only when the first is gone.
Create(r) ==
  /\ file = None
  /\ \A x \in Slots : reqs[x] # None => reqs[x].kind # "Create"
  /\ \E m \in Manifests : Begin(r, Request("Create", "write", m))

\* Pause, Resume, SyncServices (and Scale, Upgrade and SyncSecrets, which
\* change parts of the spec the operator only copies) read the file.
Update(r) ==
  /\ file # None
  /\ \E kind \in {"Pause", "Resume"} : Begin(r, Request("Update", "write", mutate(kind, file, file)))

SyncServices(r) ==
  /\ file # None
  /\ \E m \in Manifests :
       Begin(r, Request("Update", "write", mutate("SyncServices", file, m)))

\* SyncConfig, SyncAuthHooks, AddReplica, CloneBranch: stat project.yaml.
SyncOther(r) ==
  /\ file # None
  /\ \E k \in RenderedKinds : Begin(r, Request(k, "render", None))

DestroyWithOptions(r) ==
  /\ file # None
  /\ \E kind \in Destroys : Begin(r, Request(kind, "write", mutate(kind, file, file)))

Goto(r, pc) == reqs' = [reqs EXCEPT ![r].pc = pc]
Return(r) == reqs' = [reqs EXCEPT ![r] = None]
At(r, pc) == reqs[r] # None /\ reqs[r].pc = pc

\* artifact.WriteFile: fails when the directory has been removed.
WriteManifest(r) ==
  /\ At(r, "write")
  /\ IF file = None /\ reqs[r].kind # "Create"
     THEN Return(r) /\ UNCHANGED file
     ELSE /\ file' = reqs[r].spec
          /\ reqs' = [reqs EXCEPT ![r].spec = None, ![r].pc =
                        IF reqs[r].kind = "DestroyRetain" THEN "retain" ELSE "apply"]
  /\ UNCHANGED <<isolation, cr, workloads, others, op, budget>>

\* kubectl apply of the RetainedProjectResources manifest.
ApplyRetained(r) ==
  /\ At(r, "retain")
  /\ ApplyOther("RetainedProjectResources")
  /\ reqs' = [reqs EXCEPT ![r].kind = "Destroy", ![r].pc = "apply"]
  /\ UNCHANGED <<isolation, file, cr, workloads, op, budget>>

\* kubectl apply -f project.yaml, as the file is by now.
ApplyManifest(r) ==
  /\ At(r, "apply")
  /\ file # None
  /\ ApplyProject(file)
  /\ IF reqs[r].kind \in Destroys THEN Goto(r, "wait") ELSE Return(r)
  /\ UNCHANGED <<isolation, file, workloads, others, op>>

\* The manifest of another kind is written and applied.  Configs and replicas
\* have a subdirectory, which is made with all its parents.
RenderOther(r) ==
  /\ At(r, "render")
  /\ IF file = None /\ reqs[r].kind \in {"ProjectAuthHooks", "ProjectBranchClone"}
     THEN UNCHANGED others
     ELSE ApplyOther(reqs[r].kind)
  /\ Return(r)
  /\ UNCHANGED <<isolation, file, cr, workloads, op, budget>>

\* waitForProjectPhase looks at the phase alone.
waitForProjectPhase(r) ==
  /\ At(r, "wait")
  /\ cr # None
  /\ cr.status # None
  /\ cr.status.phase = "Terminating"
  /\ Goto(r, "deleteOthers")
  /\ UNCHANGED <<isolation, file, cr, workloads, others, op, budget>>

\* kubectl delete of every manifest in the directory, project.yaml the last.
DeleteOthers(r) ==
  /\ At(r, "deleteOthers")
  /\ others' = IF file = None THEN others
               ELSE [k \in OtherKinds |-> IF k \in RenderedKinds THEN NoObject ELSE others[k]]
  /\ Goto(r, "deleteProject")
  /\ UNCHANGED <<isolation, file, cr, workloads, op, budget>>

DeleteProject(r) ==
  /\ At(r, "deleteProject")
  /\ IF file = None \/ cr = None
     THEN Goto(r, "remove") /\ UNCHANGED cr
     ELSE /\ cr' = Deleted(cr)
          /\ reqs' = [reqs EXCEPT ![r].pc = "gone", ![r].uid = cr.uid]
  /\ UNCHANGED <<isolation, file, workloads, others, op, budget>>

\* kubectl delete waits until the object it deleted is gone.
AwaitGone(r) ==
  /\ At(r, "gone")
  /\ cr # None => cr.uid # reqs[r].uid
  /\ Goto(r, "remove")
  /\ UNCHANGED <<isolation, file, cr, workloads, others, op, budget>>

RemoveAll(r) ==
  /\ At(r, "remove")
  /\ file' = None
  /\ Return(r)
  /\ UNCHANGED <<isolation, cr, workloads, others, op, budget>>

\* A failed kubectl, the two minutes of waitForProjectPhase, a cancelled
\* request, the end of the process: the operation stops where it is.
RequestStops(r) ==
  /\ reqs[r] # None
  /\ Return(r)
  /\ UNCHANGED <<isolation, file, cr, workloads, others, op, budget>>

Provisioner ==
  \E r \in Slots :
    \/ Create(r) \/ Update(r) \/ SyncServices(r) \/ SyncOther(r) \/ DestroyWithOptions(r)
    \/ WriteManifest(r) \/ ApplyRetained(r) \/ ApplyManifest(r) \/ RenderOther(r)
    \/ waitForProjectPhase(r) \/ DeleteOthers(r) \/ DeleteProject(r) \/ AwaitGone(r)
    \/ RemoveAll(r) \/ RequestStops(r)

-----------------------------------------------------------------------------
(* The operator.  Every step is one call of ReconcileProject on the Project *)
(* as it was listed, op.snap.                                               *)

snap == op.snap

\* What a pass may be about to do: between Projects, to the Project listed.
Between == {"idle", "listOthers", "patchOthers"}
Working == {"addFinalizer", "ensureNamespace", "isolate", "apply", "prune", "observe",
            "deleteNamed", "deleteManaged", "deleteNamespace", "removeFinalizer",
            "status", "degraded"}
Passes == [pc : Between \cup Working, snap : Projects \cup {None}, ready : BOOLEAN,
           seen : [OtherKinds -> Nat]]

OpGoto(pc) == op' = [op EXCEPT !.pc = pc]

\* The Project is done with, and the other kinds come next.
OpNext == op' = [Idle EXCEPT !.pc = "listOthers"]

\* (mutant of FirstStep) the namespace is made before the finalizer is there
FirstStepWithoutFinalizer(p) ==
  IF isolation /\ p.spec.foreign THEN (IF p.deleting THEN "listOthers" ELSE "degraded")
  ELSE IF p.deleting THEN (IF p.fin THEN "deleteNamed" ELSE "listOthers")
  ELSE IF p.spec.desired = "destroying" THEN "deleteNamed"
  ELSE IF isolation THEN "ensureNamespace"
  ELSE "apply"

\* The branches of ReconcileProject.  A Project that names another namespace
\* is Degraded, and when it is being deleted nothing at all is done.
FirstStep(p) ==
  IF isolation /\ p.spec.foreign THEN (IF p.deleting THEN "listOthers" ELSE "degraded")
  ELSE IF p.deleting THEN (IF p.fin THEN "deleteNamed" ELSE "listOthers")
  ELSE IF p.spec.desired = "destroying" THEN "deleteNamed"
  ELSE IF isolation THEN (IF p.fin THEN "ensureNamespace" ELSE "addFinalizer")
  ELSE "apply"

ListProjects ==
  /\ op.pc = "idle"
  /\ IF cr = None \/ FirstStep(cr) = "listOthers" THEN OpNext
     ELSE op' = [op EXCEPT !.pc = FirstStep(cr), !.snap = [cr EXCEPT !.status = None]]
  /\ UNCHANGED <<isolation, file, cr, workloads, others, reqs, budget>>

\* SetProjectFinalizers; 404 when the Project has gone.
AddFinalizer ==
  /\ op.pc = "addFinalizer"
  /\ IF cr = None
     THEN OpGoto("degraded") /\ UNCHANGED cr
     ELSE cr' = [cr EXCEPT !.fin = TRUE] /\ OpGoto("ensureNamespace")
  /\ UNCHANGED <<isolation, file, workloads, others, reqs, budget>>

\* Applying a namespace that is terminating changes its labels only.
EnsureNamespace ==
  /\ op.pc = "ensureNamespace"
  /\ ns' = IF ns = "absent" THEN "active" ELSE ns
  /\ OpGoto("isolate")
  /\ UNCHANGED <<isolation, file, cr, isolated, deps, pvcs, others, reqs, budget>>

\* Nothing can be created in a namespace that is terminating or absent.
Refused == ns # "active" /\ OpGoto("degraded") /\ UNCHANGED <<isolated, deps, pvcs>>

\* (mutant of ApplyProjectIsolation) a refused policy is passed over
ApplyIsolationAtBestEffort ==
  /\ op.pc = "isolate"
  /\ isolated' \in {isolated} \cup (IF ns = "active" THEN {IsolationObjects} ELSE {})
  /\ OpGoto("apply")
  /\ UNCHANGED <<isolation, file, cr, ns, deps, pvcs, others, reqs, budget>>

ApplyProjectIsolation ==
  /\ op.pc = "isolate"
  /\ \/ Refused
     \/ /\ ns = "active"
        /\ isolated' = IsolationObjects
        /\ OpGoto("apply")
        /\ UNCHANGED <<deps, pvcs>>
  /\ UNCHANGED <<isolation, file, cr, ns, others, reqs, budget>>

\* workloadsForProject: the enabled services, with no replicas when paused.
workloadsForProject(p) ==
  [s \in Services |-> IF s \notin p.spec.enabled \/ p.spec.desired = "destroying" THEN "none"
                      ELSE IF p.spec.desired = "paused" THEN "stopped" ELSE "running"]

ClaimOf(p) == IF p.spec.retain THEN "retained" ELSE "kept"

\* The claims of vs and the Deployments of ds are applied, a claim first.
ApplyTo(vs, ds) ==
  /\ pvcs' = [s \in Services |-> IF s \in vs THEN ClaimOf(snap) ELSE pvcs[s]]
  /\ deps' = [s \in Services |-> IF s \in ds THEN workloadsForProject(snap)[s] ELSE deps[s]]

ApplyProjectResources ==
  /\ op.pc = "apply"
  /\ \/ Refused
     \/ /\ ns = "active"
        /\ ApplyTo(snap.spec.enabled, snap.spec.enabled)
        /\ OpGoto("prune")
        /\ UNCHANGED isolated
  /\ UNCHANGED <<isolation, file, cr, ns, others, reqs, budget>>

\* (mutant of PruneProjectResources) Deployments of disabled services stay
PruneClaimsOnly ==
  /\ op.pc = "prune"
  /\ pvcs' = [s \in Services |-> IF s \in snap.spec.enabled \/ pvcs[s] = "retained"
                                THEN pvcs[s] ELSE "none"]
  /\ OpGoto(IF snap.spec.desired = "running" THEN "observe" ELSE "status")
  /\ UNCHANGED <<isolation, file, cr, ns, isolated, deps, others, reqs, budget>>

\* What carries the project's labels and is not wanted any more is deleted,
\* claims labelled retain excepted.
PruneProjectResources ==
  /\ op.pc = "prune"
  /\ deps' = [s \in Services |-> IF s \in snap.spec.enabled THEN deps[s] ELSE "none"]
  /\ pvcs' = [s \in Services |-> IF s \in snap.spec.enabled \/ pvcs[s] = "retained"
                                THEN pvcs[s] ELSE "none"]
  /\ OpGoto(IF snap.spec.desired = "running" THEN "observe" ELSE "status")
  /\ UNCHANGED <<isolation, file, cr, ns, isolated, others, reqs, budget>>

\* Pods may or may not be available and claims bound by now.
ObserveProjectResources ==
  /\ op.pc = "observe"
  /\ \E ready \in BOOLEAN :
       /\ ready => \A s \in snap.spec.enabled : deps[s] = "running" /\ pvcs[s] # "none"
       /\ op' = [op EXCEPT !.pc = "status", !.ready = ready]
  /\ UNCHANGED <<isolation, file, cr, workloads, others, reqs, budget>>

\* DeleteProjectResources deletes the workloads of the spec by name, the last
\* first.  A volume that is to be retained is passed over.
DeleteNamed(ss) ==
  /\ deps' = [s \in Services |-> IF s \in ss THEN "none" ELSE deps[s]]
  /\ pvcs' = [s \in Services |-> IF s \in ss /\ ~snap.spec.retain THEN "none" ELSE pvcs[s]]

DeleteProjectResources ==
  /\ op.pc = "deleteNamed"
  /\ DeleteNamed(snap.spec.enabled)
  /\ OpGoto("deleteManaged")
  /\ UNCHANGED <<isolation, file, cr, ns, isolated, others, reqs, budget>>

\* ownsNamespace: the namespace of the Projects is never deleted.
AfterDelete == IF isolation THEN "deleteNamespace" ELSE "status"

\* (mutant of deleteManagedWorkloadResources) only the labels are looked at
DeleteManagedByLabel ==
  /\ op.pc = "deleteManaged"
  /\ deps' = [s \in Services |-> "none"]
  /\ pvcs' = [s \in Services |-> IF pvcs[s] = "retained" THEN pvcs[s] ELSE "none"]
  /\ OpGoto(AfterDelete)
  /\ UNCHANGED <<isolation, file, cr, ns, isolated, others, reqs, budget>>

\* Then everything that carries the project's labels, except the claims just
\* passed over and those labelled retain.
deleteManagedWorkloadResources ==
  /\ op.pc = "deleteManaged"
  /\ deps' = [s \in Services |-> "none"]
  /\ pvcs' = [s \in Services |->
                IF pvcs[s] = "retained" \/ (snap.spec.retain /\ s \in snap.spec.enabled)
                THEN pvcs[s] ELSE "none"]
  /\ OpGoto(AfterDelete)
  /\ UNCHANGED <<isolation, file, cr, ns, isolated, others, reqs, budget>>

\* What the two delete one by one when a call fails on the way: Deployments
\* first, then claims.
pruneObjects ==
  LET wanted == IF op.pc = "prune" THEN snap.spec.enabled ELSE {}
      kept   == wanted \cup {s \in Services : pvcs[s] = "retained"}
                       \cup (IF snap.spec.retain THEN snap.spec.enabled ELSE {})
  IN \E ds \in SUBSET (Services \ wanted), vs \in SUBSET (Services \ kept) :
       /\ vs # {} => ds = Services \ wanted
       /\ deps' = [s \in Services |-> IF s \in ds THEN "none" ELSE deps[s]]
       /\ pvcs' = [s \in Services |-> IF s \in vs THEN "none" ELSE pvcs[s]]

DeleteNamespace ==
  /\ op.pc = "deleteNamespace"
  /\ ns' = IF ns = "active" THEN "terminating" ELSE ns
  /\ OpGoto(IF snap.deleting THEN "removeFinalizer" ELSE "status")
  /\ UNCHANGED <<isolation, file, cr, isolated, deps, pvcs, others, reqs, budget>>

\* The API server removes a deleted object with its last finalizer.
RemoveFinalizer ==
  /\ op.pc = "removeFinalizer"
  /\ cr' = IF cr = None \/ cr.deleting THEN None ELSE [cr EXCEPT !.fin = FALSE]
  /\ OpNext
  /\ UNCHANGED <<isolation, file, workloads, others, reqs, budget>>

statusForProject ==
  CASE snap.spec.desired = "running" ->
         IF snap.spec.enabled = {} THEN "RuntimeRendered"
         ELSE IF op.ready THEN "RuntimeReady" ELSE "RuntimePending"
    [] snap.spec.desired = "paused" -> "Paused"
    [] snap.spec.desired = "destroying" -> "Terminating"

\* Written on whatever Project has the name; observedGeneration is the one
\* that was listed.
PatchProjectStatus ==
  /\ op.pc \in {"status", "degraded"}
  /\ cr' = IF cr = None THEN None
           ELSE [cr EXCEPT !.status = [phase |-> IF op.pc = "status" THEN statusForProject
                                                 ELSE "Degraded",
                                       gen |-> snap.gen, uid |-> snap.uid]]
  /\ OpNext
  /\ UNCHANGED <<isolation, file, workloads, others, reqs, budget>>

\* The other kinds are listed and what was listed is reported observed.
ListOthers ==
  /\ op.pc = "listOthers"
  /\ op' = IF \A k \in OtherKinds : others[k].gen = 0 THEN Idle
           ELSE [Idle EXCEPT !.pc = "patchOthers",
                             !.seen = [k \in OtherKinds |-> others[k].gen]]
  /\ UNCHANGED <<isolation, file, cr, workloads, others, reqs, budget>>

\* (mutant of ObservedStatus) a status once given is not given again
ObservedStatusOnce(k, o, seen) ==
  IF o.gen = 0 \/ seen = 0 \/ o.observed > 0 THEN o
  ELSE [o EXCEPT !.observed = seen, !.phase = IF o.valid THEN OtherPhase[k] ELSE "Degraded"]

\* An object that is gone is not found; one whose spec lacks a required field
\* is Degraded.
ObservedStatus(k, o, seen) ==
  IF o.gen = 0 \/ seen = 0 THEN o
  ELSE [o EXCEPT !.observed = seen, !.phase = IF o.valid THEN OtherPhase[k] ELSE "Degraded"]

PatchOthers ==
  /\ op.pc = "patchOthers"
  /\ others' = [k \in OtherKinds |-> ObservedStatus(k, others[k], op.seen[k])]
  /\ op' = Idle
  /\ UNCHANGED <<isolation, file, cr, workloads, reqs, budget>>

OperatorStep ==
  \/ ListProjects \/ AddFinalizer \/ EnsureNamespace \/ ApplyProjectIsolation
  \/ ApplyProjectResources \/ PruneProjectResources \/ ObserveProjectResources
  \/ DeleteProjectResources \/ deleteManagedWorkloadResources \/ DeleteNamespace
  \/ RemoveFinalizer \/ PatchProjectStatus \/ ListOthers \/ PatchOthers

\* A call fails.  Several objects are applied or deleted by one step, so some
\* may have been; what is left of the Project is a status Degraded, or nothing
\* while it is being deleted.
CallFails ==
  /\ budget.surprises > 0
  /\ op.pc \notin {"idle", "degraded", "listOthers"}
  /\ \/ UNCHANGED <<isolated, deps, pvcs>>
     \/ /\ op.pc = "isolate"
        /\ ns = "active"
        /\ \E some \in SUBSET IsolationObjects : isolated' = isolated \cup some
        /\ UNCHANGED <<deps, pvcs>>
     \/ /\ op.pc = "apply"
        /\ ns = "active"
        /\ \E vs \in SUBSET snap.spec.enabled : \E ds \in SUBSET vs : ApplyTo(vs, ds)
        /\ UNCHANGED isolated
     \/ /\ op.pc = "deleteNamed"
        /\ \E ss \in SUBSET snap.spec.enabled : DeleteNamed(ss)
        /\ UNCHANGED isolated
     \/ /\ op.pc \in {"prune", "deleteManaged"}
        /\ pruneObjects
        /\ UNCHANGED isolated
  /\ IF op.pc = "patchOthers" THEN op' = Idle
     ELSE IF op.pc = "status" \/ snap.deleting THEN OpNext ELSE OpGoto("degraded")
  /\ budget' = [budget EXCEPT !.surprises = @ - 1]
  /\ UNCHANGED <<isolation, file, cr, ns, others, reqs>>

\* The process ends in the middle of a pass; the next one starts with a list.
OperatorStops ==
  /\ budget.surprises > 0
  /\ op # Idle
  /\ op' = Idle
  /\ budget' = [budget EXCEPT !.surprises = @ - 1]
  /\ UNCHANGED <<isolation, file, cr, workloads, others, reqs>>

Next == \/ Provisioner \/ OperatorStep \/ CallFails \/ OperatorStops
        \/ NamespaceGone \/ DeleteByHand \/ EditByHand

\* The operator's loop goes on, and so does the namespace controller.
Spec == Init /\ [][Next]_vars /\ WF_vars(OperatorStep) /\ WF_vars(NamespaceGone)

-----------------------------------------------------------------------------
(* Properties *)

\* Every variable has its type.
TypeOK ==
  /\ isolation \in Modes
  /\ file \in Specs \cup {None}
  /\ cr \in Projects \cup {None}
  /\ ns \in {"absent", "active", "terminating"}
  /\ isolation \/ ns = "active"
  /\ isolated \subseteq IsolationObjects
  /\ deps \in [Services -> {"none", "stopped", "running"}]
  /\ pvcs \in [Services -> {"none", "kept", "retained"}]
  /\ others \in [OtherKinds -> Objects]
  /\ op \in Passes
  /\ op.pc \in Between <=> op.snap = None
  /\ reqs \in [Slots -> Requests \cup {None}]
  /\ budget \in [requests : Nat, surprises : Nat, uid : Nat]

\* No workload runs in a project's namespace before its service account, its
\* network policies, quota and limits are there: a pass applies them first and
\* stops when that fails, and the namespace they are in cannot be replaced by
\* a new one within the pass.
WorkloadsAreIsolated ==
  isolation /\ ns = "active" /\ (\E s \in Services : deps[s] # "none")
    => isolated = IsolationObjects

\* A namespace of the operator's always has a Project with its finalizer, so
\* that no deletion of the Project, at any moment of a pass, leaves it behind.
NamespaceIsOwned ==
  isolation /\ ns = "active" => cr # None /\ cr.fin

\* What the status of a Project says of its current generation is so: Ready is
\* every enabled service deployed and no other, Paused is none running, and
\* Terminating (which Destroy waits for) is nothing left but retained volumes.
\* A status given to an earlier Project of the same name is not counted.
StatusIsTruthful ==
  cr # None /\ ~cr.deleting /\ cr.status # None
  /\ cr.status.gen = cr.gen /\ cr.status.uid = cr.uid =>
    CASE cr.status.phase \in {"RuntimeReady", "Paused"} -> deps = workloadsForProject(cr)
      [] cr.status.phase = "Terminating" ->
           \A s \in Services : /\ deps[s] = "none"
                               /\ pvcs[s] = "kept" => cr.spec.retain
      [] OTHER -> TRUE

\* The volume of s is to be retained, and no pass is still at work on an
\* earlier state of the Project.
ToRetain(s) ==
  /\ cr # None
  /\ cr.spec.desired = "destroying"
  /\ cr.spec.retain
  /\ s \in cr.spec.enabled
  /\ snap = None \/ (snap.uid = cr.uid /\ snap.gen = cr.gen)

Lost(s) == pvcs[s] # "none" /\ pvcs'[s] = "none"

\* Without isolation, no step of the teardown, which deletes by name and then
\* by label, deletes a volume that Destroy was told to retain.
RetainedVolumesSurvive ==
  [][\A s \in Services : Lost(s) /\ ToRetain(s) => isolation]_vars

Settled ==
  /\ IF cr = None THEN isolation => ns = "absent"
     ELSE \/ isolation /\ cr.spec.foreign
          \/ /\ ~cr.deleting
             /\ cr.status # None
             /\ cr.status.gen = cr.gen
             /\ deps = workloadsForProject(cr)
  /\ \A k \in OtherKinds : others[k].observed = others[k].gen

\* When requests, faults and edits end, the workloads become what the Project
\* asks for, its status is of its current generation, a deleted Project and its
\* namespace are gone, and every other object is observed as it is.  (Not when
\* the Project names a namespace that is not its own.)
Converges == <>[]Settled
=============================================================================
