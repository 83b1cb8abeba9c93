--------------------------- MODULE OperatorProofs ---------------------------
(***************************************************************************)
(* The Kubernetes operator.  For every set of services, of requests and of *)
(* failed calls, with isolation and without: the pass of the leader owns   *)
(* the namespaces it made, runs no workload that is not isolated, tells    *)
(* the truth in its status, and deletes no volume that Destroy was told to *)
(* retain.  And for every set of replicas, interval and bound on the       *)
(* length of a try and of a round: the lease that makes a replica the      *)
(* leader is honoured while it is valid.                                   *)
(***************************************************************************)
EXTENDS KubernetesRuntime, LeaderElection, TLAPS

\* The Project as listed is the Project as it is; the status is of this Project
\* as it is.
SnapCurrent == snap # None /\ cr # None /\ snap.uid = cr.uid /\ snap.gen = cr.gen

StatusCurrent ==
  /\ cr # None /\ cr.status # None
  /\ cr.status.uid = cr.uid /\ cr.status.gen = cr.gen

\* No uid is given twice and generations grow, so that a Project with the uid
\* and the generation that were listed has the spec and the mark that were
\* listed, and a status that is up to date leaves no pass behind it.
Ordered ==
  /\ cr # None => cr.uid <= budget.uid
  /\ snap # None => snap.uid <= budget.uid
  /\ cr # None /\ snap # None /\ snap.uid = cr.uid => snap.gen <= cr.gen
  /\ cr # None /\ cr.status # None /\ cr.status.uid = cr.uid => cr.status.gen <= cr.gen
  /\ SnapCurrent => snap.spec = cr.spec /\ snap.deleting = cr.deleting
  /\ StatusCurrent /\ snap # None => SnapCurrent

\* Which Projects a pass takes down which branch of ReconcileProject.
Branches ==
  /\ op.pc \in {"addFinalizer", "ensureNamespace", "isolate", "deleteNamespace",
                "removeFinalizer"} => isolation
  /\ op.pc \in {"addFinalizer", "ensureNamespace", "isolate", "apply", "prune", "observe"}
       => ~snap.deleting /\ snap.spec.desired # "destroying"
  /\ op.pc = "observe" => snap.spec.desired = "running"
  /\ op.pc \in {"deleteNamed", "deleteManaged", "deleteNamespace"}
       => snap.deleting \/ snap.spec.desired = "destroying"
  /\ op.pc = "removeFinalizer" => snap.deleting

\* The finalizer is there before the namespace and goes after it.
Owned ==
  /\ NamespaceIsOwned
  /\ op.pc = "ensureNamespace" => cr # None /\ cr.fin
  /\ op.pc = "removeFinalizer" => ns # "active"

\* The isolation objects are there before the workloads and go with them.
Isolated ==
  /\ WorkloadsAreIsolated
  /\ isolation /\ op.pc = "apply" /\ ns = "active" => isolated = IsolationObjects
  /\ isolation /\ ns = "absent" => \A s \in Services : deps[s] = "none"

NothingLeft(p) ==
  \A s \in Services : deps[s] = "none" /\ (pvcs[s] = "kept" => p.spec.retain)

\* What a pass has done so far to the workloads of the Project it listed.
Progress ==
  /\ op.pc \in {"prune", "observe"} => ns = "active"
  /\ op.pc = "prune" =>
       \A s \in snap.spec.enabled \cap Services : deps[s] = workloadsForProject(snap)[s]
  /\ op.pc = "observe" => deps = workloadsForProject(snap)
  /\ op.pc = "status" /\ ~snap.deleting /\ snap.spec.desired # "destroying"
       => ns = "active" /\ deps = workloadsForProject(snap)
  /\ op.pc = "deleteNamespace" \/ (op.pc = "status" /\ snap.spec.desired = "destroying")
       => NothingLeft(snap)

\* A status that is up to date is of the branch its spec asks for, and of what
\* there is; the namespace of a Project that is up is not about to go.
Truthful ==
  StatusCurrent =>
    /\ cr.status.phase = "RuntimeReady" => cr.spec.desired = "running"
    /\ cr.status.phase = "Paused" => cr.spec.desired = "paused"
    /\ cr.status.phase = "Terminating" => cr.spec.desired = "destroying"
    /\ ~cr.deleting /\ cr.status.phase \in {"RuntimeReady", "Paused"}
         => ns = "active" /\ deps = workloadsForProject(cr)
    /\ ~cr.deleting /\ cr.status.phase = "Terminating" => NothingLeft(cr)

\* The inductive invariant.
IInv == TypeOK /\ Ordered /\ Branches /\ Owned /\ Isolated /\ Progress /\ Truthful

-----------------------------------------------------------------------------
(* Types *)

LEMMA InitType == Init => TypeOK /\ cr \in Projects
<1> SUFFICES ASSUME Init PROVE TypeOK /\ cr \in Projects
  OBVIOUS
<1>1. file \in Specs
  BY ServicesAssumption DEF Init, Manifests, Specs
<1>2. cr \in Projects
  BY <1>1 DEF Init, NewProject, Projects
<1>3. others \in [OtherKinds -> Objects]
  BY DEF Init, NoObject, Objects
<1>4. op \in Passes /\ (op.pc \in Between <=> op.snap = None)
  BY DEF Init, Idle, Passes, Between, Working
<1>5. reqs \in [Slots -> Requests \cup {None}]
  BY DEF Init
<1>6. budget \in [requests : Nat, surprises : Nat, uid : Nat]
  BY BoundsAssumption DEF Init
<1>7. isolation \/ ns = "active"
  BY DEF Init
<1> QED
  BY <1>1, <1>2, <1>3, <1>4, <1>5, <1>6, <1>7 DEF Init, TypeOK

\* What a request renders is a spec.
LEMMA MutateType ==
  ASSUME NEW old \in Specs, NEW arg \in Manifests,
         NEW kind \in {"Pause", "Resume", "SyncServices"} \cup Destroys
  PROVE  mutate(kind, old, arg) \in Specs
<1>1. CASE kind = "Pause"
  BY <1>1 DEF mutate, Specs
<1>2. CASE kind = "Resume"
  BY <1>2 DEF mutate, Specs
<1>3. CASE kind = "SyncServices"
  BY <1>3 DEF mutate, Specs, Manifests
<1>4. CASE kind = "Destroy"
  BY <1>4 DEF mutate, Specs
<1>5. CASE kind = "DestroyRetain"
  BY <1>5 DEF mutate, Specs
<1> QED
  BY <1>1, <1>2, <1>3, <1>4, <1>5 DEF Destroys

LEMMA RequestType ==
  ASSUME NEW kind \in {"Create", "Update"} \cup Destroys \cup RenderedKinds,
         NEW spec \in Specs \cup {None}, NEW step \in Steps
  PROVE  Request(kind, step, spec) \in Requests
  BY DEF Request, Requests

LEMMA BeginType ==
  ASSUME TypeOK, NEW r \in Slots, NEW req \in Requests, Begin(r, req) PROVE TypeOK'
<1>1. reqs' \in [Slots -> Requests \cup {None}]
  BY DEF TypeOK, Begin
<1>2. budget' \in [requests : Nat, surprises : Nat, uid : Nat]
  BY DEF TypeOK, Begin
<1> QED
  BY <1>1, <1>2 DEF TypeOK, Begin, workloads

\* The five operations that a request starts.
LEMMA StartType ==
  ASSUME TypeOK, NEW r \in Slots,
         Create(r) \/ Update(r) \/ SyncServices(r) \/ SyncOther(r) \/ DestroyWithOptions(r)
  PROVE  TypeOK'
<1>0. /\ file \in Specs \cup {None}
      /\ {"write", "render"} \subseteq Steps
      /\ Manifests \subseteq Specs
      /\ Manifests # {}
  <2>1. [desired |-> "running", enabled |-> Services \ {}, retain |-> FALSE, foreign |-> FALSE]
          \in Manifests
    BY DEF Manifests
  <2> QED
    BY <2>1 DEF TypeOK, Steps, Manifests, Specs
<1>1. CASE Create(r)
  BY <1>0, <1>1, RequestType, BeginType DEF Create
<1>2. CASE Update(r)
  <2>1. PICK kind \in {"Pause", "Resume"} :
              Begin(r, Request("Update", "write", mutate(kind, file, file)))
    BY <1>2 DEF Update
  <2>2. mutate(kind, file, file) \in Specs
    BY <1>0, <1>2, <2>1 DEF Update, mutate, Specs
  <2> QED
    BY <1>0, <2>1, <2>2, RequestType, BeginType
<1>3. CASE SyncServices(r)
  <2>1. PICK m \in Manifests :
              Begin(r, Request("Update", "write", mutate("SyncServices", file, m)))
    BY <1>3 DEF SyncServices
  <2>2. mutate("SyncServices", file, m) \in Specs
    BY <1>0, <1>3, MutateType DEF SyncServices
  <2> QED
    BY <1>0, <2>1, <2>2, RequestType, BeginType
<1>4. CASE SyncOther(r)
  BY <1>0, <1>4, RequestType, BeginType DEF SyncOther
<1>5. CASE DestroyWithOptions(r)
  <2>1. PICK kind \in Destroys : Begin(r, Request(kind, "write", mutate(kind, file, file)))
    BY <1>5 DEF DestroyWithOptions
  <2>2. mutate(kind, file, file) \in Specs
    BY <1>0, <1>5, <2>1 DEF DestroyWithOptions, mutate, Specs, Destroys
  <2> QED
    BY <1>0, <2>1, <2>2, RequestType, BeginType
<1> QED
  BY <1>1, <1>2, <1>3, <1>4, <1>5

\* The step of a request at hand: only its own record changes.
LEMMA OneRequestType ==
  ASSUME TypeOK, NEW r \in Slots, NEW step \in Steps,
         \/ Return(r)
         \/ reqs[r] # None /\ Goto(r, step)
  PROVE  reqs' \in [Slots -> Requests \cup {None}]
<1>1. CASE Return(r)
  BY <1>1 DEF TypeOK, Return
<1>2. CASE reqs[r] # None /\ Goto(r, step)
  <2>1. reqs[r] \in Requests
    BY <1>2 DEF TypeOK
  <2>2. [reqs[r] EXCEPT !.pc = step] \in Requests
    BY <2>1 DEF Requests
  <2> QED
    BY <1>2, <2>2 DEF TypeOK, Goto
<1> QED
  BY <1>1, <1>2

\* An object of another kind that is applied, or edited.
LEMMA ObjectType ==
  ASSUME TypeOK, NEW k \in OtherKinds, NEW ok \in BOOLEAN,
         others' = [others EXCEPT ![k].gen = @ + 1, ![k].valid = ok]
  PROVE  others' \in [OtherKinds -> Objects]
<1>1. others[k] \in Objects /\ others[k].gen + 1 \in Nat
  BY DEF TypeOK, Objects
<1>2. \A n \in Nat : [others[k] EXCEPT !.gen = n, !.valid = ok] \in Objects
  BY <1>1 DEF Objects
<1>3. others' = [others EXCEPT ![k] = [others[k] EXCEPT !.gen = others[k].gen + 1, !.valid = ok]]
  BY DEF TypeOK
<1> QED
  BY <1>1, <1>2, <1>3 DEF TypeOK

\* A Project with a new generation.
LEMMA GenerationType ==
  ASSUME NEW p \in Projects
  PROVE  /\ [p EXCEPT !.deleting = TRUE, !.gen = @ + 1] \in Projects
         /\ \A spec \in Specs : [p EXCEPT !.spec = spec, !.gen = @ + 1] \in Projects
         /\ [p EXCEPT !.spec.foreign = TRUE, !.gen = @ + 1] \in Projects
<1>1. p.gen + 1 \in Nat
  BY DEF Projects
<1>2. \A n \in Nat : [p EXCEPT !.deleting = TRUE, !.gen = n] \in Projects
  BY DEF Projects
<1>3. \A n \in Nat : \A spec \in Specs : [p EXCEPT !.spec = spec, !.gen = n] \in Projects
  BY DEF Projects
<1>4. [p.spec EXCEPT !.foreign = TRUE] \in Specs
  BY DEF Projects, Specs
<1>5. [p EXCEPT !.spec.foreign = TRUE, !.gen = p.gen + 1]
        = [p EXCEPT !.spec = [p.spec EXCEPT !.foreign = TRUE], !.gen = p.gen + 1]
  BY DEF Projects
<1> QED
  BY <1>1, <1>2, <1>3, <1>4, <1>5

LEMMA DeletedType ==
  ASSUME NEW p \in Projects PROVE Deleted(p) \in Projects \cup {None}
  BY GenerationType DEF Deleted

LEMMA ApplyProjectType ==
  ASSUME TypeOK, NEW spec \in Specs, ApplyProject(spec)
  PROVE  /\ cr' \in Projects
         /\ budget' \in [requests : Nat, surprises : Nat, uid : Nat]
<1>1. CASE cr = None
  <2>1. NewProject(spec, budget.uid + 1) \in Projects
    BY DEF NewProject, Projects, TypeOK
  <2> QED
    BY <1>1, <2>1 DEF TypeOK, ApplyProject
<1>2. CASE cr # None
  BY <1>2, GenerationType DEF TypeOK, ApplyProject
<1> QED
  BY <1>1, <1>2

\* A step of a request that is being served.
LEMMA ServeType ==
  ASSUME TypeOK, NEW r \in Slots,
         \/ WriteManifest(r) \/ ApplyRetained(r) \/ ApplyManifest(r) \/ RenderOther(r)
         \/ waitForProjectPhase(r) \/ DeleteOthers(r) \/ DeleteProject(r) \/ AwaitGone(r)
         \/ RemoveAll(r) \/ RequestStops(r)
  PROVE  TypeOK'
<1>0. /\ reqs[r] # None => reqs[r] \in Requests
      /\ NoObject \in Objects
      /\ RenderedKinds \subseteq OtherKinds
  BY DEF TypeOK, RenderedKinds, NoObject, Objects
<1>1. CASE WriteManifest(r)
  <2>1. At(r, "write")
    BY <1>1 DEF WriteManifest
  <2>2. reqs[r] \in Requests
    BY <1>0, <2>1 DEF At
  <2>3. CASE Return(r) /\ UNCHANGED file
    BY <1>1, <2>3, OneRequestType DEF WriteManifest, TypeOK, workloads, Steps
  <2>4. CASE /\ file' = reqs[r].spec
             /\ reqs' = [reqs EXCEPT ![r].spec = None, ![r].pc =
                           IF reqs[r].kind = "DestroyRetain" THEN "retain" ELSE "apply"]
    <3>1. \A step \in Steps : [reqs[r] EXCEPT !.spec = None, !.pc = step] \in Requests
      BY <2>2 DEF Requests
    <3>2. reqs' \in [Slots -> Requests \cup {None}]
      BY <2>4, <3>1 DEF TypeOK, Steps
    <3>3. file' \in Specs \cup {None}
      BY <2>2, <2>4 DEF Requests
    <3> QED
      BY <1>1, <3>2, <3>3 DEF WriteManifest, TypeOK, workloads
  <2> QED
    BY <1>1, <2>3, <2>4 DEF WriteManifest
<1>2. CASE ApplyRetained(r)
  <2>1. reqs[r] \in Requests
    BY <1>0, <1>2 DEF ApplyRetained, At
  <2>2. [reqs[r] EXCEPT !.kind = "Destroy", !.pc = "apply"] \in Requests
    BY <2>1 DEF Requests, Destroys, Steps
  <2>3. reqs' \in [Slots -> Requests \cup {None}]
    BY <1>2, <2>2 DEF ApplyRetained, TypeOK
  <2>4. others' \in [OtherKinds -> Objects]
    BY <1>2, KindsAssumption, ObjectType DEF ApplyRetained, ApplyOther
  <2> QED
    BY <1>2, <2>3, <2>4 DEF ApplyRetained, TypeOK, workloads
<1>3. CASE ApplyManifest(r)
  <2>1. file \in Specs
    BY <1>3 DEF ApplyManifest, TypeOK
  <2>2. cr' \in Projects /\ budget' \in [requests : Nat, surprises : Nat, uid : Nat]
    BY <1>3, <2>1, ApplyProjectType DEF ApplyManifest
  <2>3. reqs' \in [Slots -> Requests \cup {None}]
    BY <1>3, OneRequestType DEF ApplyManifest, At, Steps
  <2> QED
    BY <1>3, <2>2, <2>3 DEF ApplyManifest, TypeOK, workloads
<1>4. CASE RenderOther(r)
  <2>1. reqs' \in [Slots -> Requests \cup {None}]
    BY <1>4, OneRequestType DEF RenderOther, Steps
  <2>2. others' \in [OtherKinds -> Objects]
    <3>1. reqs[r].kind \in OtherKinds => others' \in [OtherKinds -> Objects]
      BY <1>4, ObjectType DEF RenderOther, ApplyOther, TypeOK
    <3>2. reqs[r].kind \notin OtherKinds /\ ApplyOther(reqs[r].kind) => others' = others
      BY DEF ApplyOther, TypeOK
    <3> QED
      BY <1>4, <3>1, <3>2 DEF RenderOther, TypeOK
  <2> QED
    BY <1>4, <2>1, <2>2 DEF RenderOther, TypeOK, workloads
<1>5. CASE waitForProjectPhase(r)
  BY <1>5, OneRequestType DEF waitForProjectPhase, At, Steps, TypeOK, workloads
<1>6. CASE DeleteOthers(r)
  <2>1. reqs' \in [Slots -> Requests \cup {None}]
    BY <1>6, OneRequestType DEF DeleteOthers, At, Steps
  <2>2. others' \in [OtherKinds -> Objects]
    BY <1>0, <1>6 DEF DeleteOthers, TypeOK
  <2> QED
    BY <1>6, <2>1, <2>2 DEF DeleteOthers, TypeOK, workloads
<1>7. CASE DeleteProject(r)
  <2>1. reqs[r] \in Requests /\ reqs[r] # None
    BY <1>0, <1>7 DEF DeleteProject, At
  <2>2. CASE Goto(r, "remove") /\ UNCHANGED cr
    BY <1>7, <2>1, <2>2, OneRequestType DEF DeleteProject, Steps, TypeOK, workloads
  <2>3. CASE /\ cr # None
             /\ cr' = Deleted(cr)
             /\ reqs' = [reqs EXCEPT ![r].pc = "gone", ![r].uid = cr.uid]
    <3>1. [reqs[r] EXCEPT !.pc = "gone", !.uid = cr.uid] \in Requests
      BY <2>1, <2>3 DEF TypeOK, Projects, Requests, Steps
    <3>2. reqs' \in [Slots -> Requests \cup {None}]
      BY <2>3, <3>1 DEF TypeOK
    <3>3. cr' \in Projects \cup {None}
      BY <2>3, DeletedType DEF TypeOK
    <3> QED
      BY <1>7, <3>2, <3>3 DEF DeleteProject, TypeOK, workloads
  <2> QED
    BY <1>7, <2>2, <2>3 DEF DeleteProject
<1>8. CASE AwaitGone(r)
  BY <1>8, OneRequestType DEF AwaitGone, At, Steps, TypeOK, workloads
<1>9. CASE RemoveAll(r)
  BY <1>9, OneRequestType DEF RemoveAll, At, Steps, TypeOK, workloads
<1>10. CASE RequestStops(r)
  BY <1>10, OneRequestType DEF RequestStops, Steps, TypeOK, workloads
<1> QED
  BY <1>1, <1>2, <1>3, <1>4, <1>5, <1>6, <1>7, <1>8, <1>9, <1>10

\* The pass moves on with the Project it has listed, or leaves it.
LEMMA OpGotoType ==
  ASSUME TypeOK, op.pc \in Working, NEW step \in Working, OpGoto(step)
  PROVE  /\ op' \in Passes /\ (op'.pc \in Between <=> op'.snap = None)
         /\ op'.pc = step /\ op'.snap = snap /\ snap \in Projects /\ op'.ready = op.ready
<1>1. op \in Passes /\ snap \in Projects \cup {None} /\ op.pc \notin Between
  BY DEF TypeOK, Passes, snap, Between, Working
<1>2. snap # None /\ snap \in Projects
  BY <1>1 DEF TypeOK, snap
<1>3. op' \in Passes
  BY <1>1 DEF OpGoto, Passes
<1>4. op'.pc = step /\ op'.snap = snap /\ op'.ready = op.ready
  BY <1>1 DEF OpGoto, Passes, snap
<1> QED
  BY <1>2, <1>3, <1>4 DEF Between, Working

LEMMA OpNextType ==
  /\ Idle \in Passes /\ Idle.pc = "idle" /\ Idle.snap = None
  /\ OpNext => op' \in Passes /\ op'.pc = "listOthers" /\ op'.snap = None
<1>1. Idle \in Passes /\ Idle.pc = "idle" /\ Idle.snap = None
  BY DEF Idle, Passes, Between
<1>2. [Idle EXCEPT !.pc = "listOthers"] \in Passes
  BY DEF Idle, Passes, Between
<1> QED
  BY <1>1, <1>2 DEF OpNext, Idle

LEMMA ListProjectsType ==
  ASSUME TypeOK, ListProjects
  PROVE  /\ op' \in Passes
         /\ \/ op'.pc = "listOthers" /\ op'.snap = None
            \/ /\ cr # None
               /\ op'.pc = FirstStep(cr) /\ op'.pc \in Working
               /\ op'.snap = [cr EXCEPT !.status = None] /\ op'.snap \in Projects
<1>1. CASE OpNext
  BY <1>1, OpNextType
<1>2. CASE /\ cr # None /\ FirstStep(cr) # "listOthers"
           /\ op' = [op EXCEPT !.pc = FirstStep(cr), !.snap = [cr EXCEPT !.status = None]]
  <2>1. cr \in Projects /\ op \in Passes
    BY <1>2 DEF TypeOK
  <2>2. [cr EXCEPT !.status = None] \in Projects
    BY <2>1 DEF Projects
  <2>3. FirstStep(cr) \in Working
    BY <1>2 DEF FirstStep, Working
  <2>4. \A p \in Projects, step \in Working : [op EXCEPT !.pc = step, !.snap = p] \in Passes
    BY <2>1 DEF Passes
  <2>5. op'.pc = FirstStep(cr) /\ op'.snap = [cr EXCEPT !.status = None]
    BY <1>2, <2>1 DEF Passes
  <2> QED
    BY <1>2, <2>2, <2>3, <2>4, <2>5
<1> QED
  BY <1>1, <1>2 DEF ListProjects

\* What a pass does to the volumes and Deployments.
LEMMA ApplyToType ==
  ASSUME TypeOK, NEW vs, NEW ds, ApplyTo(vs, ds)
  PROVE  /\ deps' \in [Services -> {"none", "stopped", "running"}]
         /\ pvcs' \in [Services -> {"none", "kept", "retained"}]
  BY DEF TypeOK, ApplyTo, workloadsForProject, ClaimOf

LEMMA DeleteNamedType ==
  ASSUME TypeOK, NEW ss, DeleteNamed(ss)
  PROVE  /\ deps' \in [Services -> {"none", "stopped", "running"}]
         /\ pvcs' \in [Services -> {"none", "kept", "retained"}]
  BY DEF TypeOK, DeleteNamed

\* What is pruned was there, and is none that the pass is about.
LEMMA PruneObjectsFacts ==
  ASSUME TypeOK, pruneObjects
  PROVE  /\ deps' \in [Services -> {"none", "stopped", "running"}]
         /\ pvcs' \in [Services -> {"none", "kept", "retained"}]
         /\ \A s \in Services : deps'[s] \in {"none", deps[s]} /\ pvcs'[s] \in {"none", pvcs[s]}
         /\ op.pc = "prune" => \A s \in snap.spec.enabled \cap Services :
                                 deps'[s] = deps[s] /\ pvcs'[s] = pvcs[s]
         /\ snap.spec.retain => \A s \in snap.spec.enabled \cap Services : pvcs'[s] = pvcs[s]
<1> DEFINE wanted == IF op.pc = "prune" THEN snap.spec.enabled ELSE {}
           kept   == wanted \cup {s \in Services : pvcs[s] = "retained"}
                       \cup (IF snap.spec.retain THEN snap.spec.enabled ELSE {})
<1>1. PICK ds \in SUBSET (Services \ wanted), vs \in SUBSET (Services \ kept) :
        /\ deps' = [s \in Services |-> IF s \in ds THEN "none" ELSE deps[s]]
        /\ pvcs' = [s \in Services |-> IF s \in vs THEN "none" ELSE pvcs[s]]
  BY DEF pruneObjects
<1> QED
  BY <1>1 DEF TypeOK

LEMMA StatusPhase ==
  ASSUME TypeOK, snap # None
  PROVE  /\ snap.spec.desired \in {"running", "paused", "destroying"}
         /\ snap.spec.desired = "running" =>
              statusForProject \in {"RuntimeRendered", "RuntimeReady", "RuntimePending"}
         /\ snap.spec.desired = "paused" => statusForProject = "Paused"
         /\ snap.spec.desired = "destroying" => statusForProject = "Terminating"
<1>1. snap \in Projects
  BY DEF TypeOK, Passes, snap
<1>2. snap.spec.desired \in {"running", "paused", "destroying"}
  BY <1>1 DEF Projects, Specs
<1>3. CASE snap.spec.desired = "running"
  BY <1>3 DEF statusForProject
<1>4. CASE snap.spec.desired = "paused"
  BY <1>4 DEF statusForProject
<1>5. CASE snap.spec.desired = "destroying"
  BY <1>5 DEF statusForProject
<1> QED
  BY <1>2, <1>3, <1>4, <1>5

\* The status that is written, and the Project it is written on.
LEMMA PatchType ==
  ASSUME TypeOK, PatchProjectStatus, cr # None
  PROVE  LET phase == IF op.pc = "status" THEN statusForProject ELSE "Degraded"
         IN  /\ cr \in Projects /\ cr' \in Projects
             /\ cr'.status = [phase |-> phase, gen |-> snap.gen, uid |-> snap.uid]
             /\ cr'.spec = cr.spec /\ cr'.uid = cr.uid /\ cr'.gen = cr.gen
             /\ cr'.deleting = cr.deleting /\ cr'.fin = cr.fin
<1> DEFINE phase == IF op.pc = "status" THEN statusForProject ELSE "Degraded"
           st == [phase |-> phase, gen |-> snap.gen, uid |-> snap.uid]
<1>1. op.pc \notin Between
  BY DEF PatchProjectStatus, Between
<1>2. snap # None /\ snap \in Projects
  BY <1>1 DEF TypeOK, Passes, snap
<1>3. phase \in {"RuntimeRendered", "RuntimeReady", "RuntimePending", "Paused",
                 "Terminating", "Degraded"}
  BY <1>2, StatusPhase
<1>4. st \in Statuses
  BY <1>2, <1>3 DEF Statuses, Projects
<1>5. cr \in Projects
  BY DEF TypeOK
<1>6. cr' = [cr EXCEPT !.status = st]
  BY DEF PatchProjectStatus
<1> HIDE DEF st
<1>7. cr' \in Projects /\ cr'.status = st
  BY <1>4, <1>5, <1>6 DEF Projects
<1>8. /\ cr'.spec = cr.spec /\ cr'.uid = cr.uid /\ cr'.gen = cr.gen
      /\ cr'.deleting = cr.deleting /\ cr'.fin = cr.fin
  BY <1>5, <1>6 DEF Projects
<1> QED
  BY <1>5, <1>7, <1>8 DEF st

LEMMA ObservedType ==
  ASSUME NEW k \in OtherKinds, NEW o \in Objects, NEW seen \in Nat
  PROVE  ObservedStatus(k, o, seen) \in Objects
<1>1. OtherPhase[k] \in {"Observed", "ReplicaPending"}
  BY KindsAssumption DEF OtherPhase
<1>2. \A ph \in {"Observed", "ReplicaPending", "Degraded"} :
        [o EXCEPT !.observed = seen, !.phase = ph] \in Objects
  BY DEF Objects
<1> QED
  BY <1>1, <1>2 DEF ObservedStatus

\* The steps at which a pass is at work on a Project.
LEMMA PassPcs ==
  /\ Between \cap Working = {}
  /\ "idle" \in Between /\ "listOthers" \in Between /\ "patchOthers" \in Between
  BY DEF Between, Working

LEMMA OperatorType ==
  ASSUME TypeOK, Branches, OperatorStep PROVE TypeOK'
<1> USE PassPcs
<1>1. CASE ListProjects
  <2>1. op' \in Passes /\ (op'.pc \in Between <=> op'.snap = None)
    BY <1>1, ListProjectsType, NoneAssumption
  <2> QED
    BY <1>1, <2>1 DEF ListProjects, TypeOK, workloads
<1>2. CASE AddFinalizer
  <2>1. op' \in Passes /\ (op'.pc \in Between <=> op'.snap = None)
    BY <1>2, OpGotoType DEF AddFinalizer, Working
  <2>2. cr' \in Projects \cup {None}
    BY <1>2 DEF AddFinalizer, TypeOK, Projects
  <2> QED
    BY <1>2, <2>1, <2>2 DEF AddFinalizer, TypeOK, workloads
<1>3. CASE EnsureNamespace
  <2>1. op' \in Passes /\ (op'.pc \in Between <=> op'.snap = None)
    BY <1>3, OpGotoType DEF EnsureNamespace, Working
  <2> QED
    BY <1>3, <2>1 DEF EnsureNamespace, TypeOK
<1>4. CASE ApplyProjectIsolation
  <2>1. op' \in Passes /\ (op'.pc \in Between <=> op'.snap = None)
    BY <1>4, OpGotoType DEF ApplyProjectIsolation, Refused, Working
  <2> QED
    BY <1>4, <2>1 DEF ApplyProjectIsolation, Refused, TypeOK
<1>5. CASE ApplyProjectResources
  <2>1. op' \in Passes /\ (op'.pc \in Between <=> op'.snap = None)
    BY <1>5, OpGotoType DEF ApplyProjectResources, Refused, Working
  <2>2. /\ deps' \in [Services -> {"none", "stopped", "running"}]
        /\ pvcs' \in [Services -> {"none", "kept", "retained"}]
        /\ UNCHANGED isolated
    BY <1>5, ApplyToType DEF ApplyProjectResources, Refused, TypeOK
  <2> QED
    BY <1>5, <2>1, <2>2 DEF ApplyProjectResources, TypeOK
<1>6. CASE PruneProjectResources
  <2>1. op' \in Passes /\ (op'.pc \in Between <=> op'.snap = None)
    BY <1>6, OpGotoType DEF PruneProjectResources, Working
  <2>2. /\ deps' \in [Services -> {"none", "stopped", "running"}]
        /\ pvcs' \in [Services -> {"none", "kept", "retained"}]
    BY <1>6 DEF PruneProjectResources, TypeOK
  <2> QED
    BY <1>6, <2>1, <2>2 DEF PruneProjectResources, TypeOK
<1>7. CASE ObserveProjectResources
  <2>1. op' \in Passes /\ (op'.pc \in Between <=> op'.snap = None)
    BY <1>7 DEF ObserveProjectResources, Passes, Working, Between, TypeOK
  <2> QED
    BY <1>7, <2>1 DEF ObserveProjectResources, TypeOK, workloads
<1>8. CASE DeleteProjectResources
  <2>1. op' \in Passes /\ (op'.pc \in Between <=> op'.snap = None)
    BY <1>8, OpGotoType DEF DeleteProjectResources, Working
  <2>2. /\ deps' \in [Services -> {"none", "stopped", "running"}]
        /\ pvcs' \in [Services -> {"none", "kept", "retained"}]
    BY <1>8, DeleteNamedType DEF DeleteProjectResources
  <2> QED
    BY <1>8, <2>1, <2>2 DEF DeleteProjectResources, TypeOK
<1>9. CASE deleteManagedWorkloadResources
  <2>1. op' \in Passes /\ (op'.pc \in Between <=> op'.snap = None)
    BY <1>9, OpGotoType DEF deleteManagedWorkloadResources, AfterDelete, Working
  <2>2. /\ deps' \in [Services -> {"none", "stopped", "running"}]
        /\ pvcs' \in [Services -> {"none", "kept", "retained"}]
    BY <1>9 DEF deleteManagedWorkloadResources, TypeOK
  <2> QED
    BY <1>9, <2>1, <2>2 DEF deleteManagedWorkloadResources, TypeOK
<1>10. CASE DeleteNamespace
  <2>0. isolation
    BY <1>10 DEF Branches, DeleteNamespace
  <2>1. op' \in Passes /\ (op'.pc \in Between <=> op'.snap = None)
    BY <1>10, OpGotoType DEF DeleteNamespace, Working
  <2> QED
    BY <1>10, <2>0, <2>1 DEF DeleteNamespace, TypeOK
<1>11. CASE RemoveFinalizer
  <2>1. cr' \in Projects \cup {None}
    BY <1>11 DEF RemoveFinalizer, TypeOK, Projects
  <2> QED
    BY <1>11, <2>1, OpNextType DEF RemoveFinalizer, TypeOK, workloads
<1>12. CASE PatchProjectStatus
  <2>1. cr' \in Projects \cup {None}
    BY <1>12, PatchType DEF PatchProjectStatus
  <2> QED
    BY <1>12, <2>1, OpNextType DEF PatchProjectStatus, TypeOK, workloads
<1>13. CASE ListOthers
  <2>1. op' \in Passes /\ (op'.pc \in Between <=> op'.snap = None)
    <3>1. [k \in OtherKinds |-> others[k].gen] \in [OtherKinds -> Nat]
      BY DEF TypeOK, Objects
    <3>2. \A f \in [OtherKinds -> Nat] :
            LET o == [Idle EXCEPT !.pc = "patchOthers", !.seen = f]
            IN  o \in Passes /\ o.pc = "patchOthers" /\ o.snap = None
      BY DEF Idle, Passes, Between
    <3> QED
      BY <1>13, <3>1, <3>2, OpNextType DEF ListOthers
  <2> QED
    BY <1>13, <2>1 DEF ListOthers, TypeOK, workloads
<1>14. CASE PatchOthers
  <2>1. others' \in [OtherKinds -> Objects]
    <3>1. \A k \in OtherKinds : others[k] \in Objects /\ op.seen[k] \in Nat
      BY DEF TypeOK, Passes
    <3> QED
      BY <1>14, <3>1, ObservedType DEF PatchOthers
  <2> QED
    BY <1>14, <2>1, OpNextType DEF PatchOthers, TypeOK, workloads
<1> QED
  BY <1>1, <1>2, <1>3, <1>4, <1>5, <1>6, <1>7, <1>8, <1>9, <1>10, <1>11, <1>12, <1>13, <1>14
     DEF OperatorStep

LEMMA CallFailsType ==
  ASSUME TypeOK, CallFails PROVE TypeOK'
<1> USE PassPcs
<1>1. op' \in Passes /\ (op'.pc \in Between <=> op'.snap = None)
  <2>1. op.pc = "patchOthers" \/ op.pc \in Working
    BY DEF CallFails, TypeOK, Passes, Between
  <2> QED
    BY <2>1, OpGotoType, OpNextType DEF CallFails, Working
<1>2. /\ isolated' \subseteq IsolationObjects
      /\ deps' \in [Services -> {"none", "stopped", "running"}]
      /\ pvcs' \in [Services -> {"none", "kept", "retained"}]
  <2>1. CASE UNCHANGED <<isolated, deps, pvcs>>
    BY <2>1 DEF TypeOK
  <2>2. CASE /\ \E some \in SUBSET IsolationObjects : isolated' = isolated \cup some
             /\ UNCHANGED <<deps, pvcs>>
    BY <2>2 DEF TypeOK
  <2>3. CASE \E vs, ds : ApplyTo(vs, ds) /\ UNCHANGED isolated
    BY <2>3, ApplyToType DEF TypeOK
  <2>4. CASE \E ss : DeleteNamed(ss) /\ UNCHANGED isolated
    BY <2>4, DeleteNamedType DEF TypeOK
  <2>5. CASE pruneObjects /\ UNCHANGED isolated
    BY <2>5, PruneObjectsFacts DEF TypeOK
  <2> QED
    BY <2>1, <2>2, <2>3, <2>4, <2>5 DEF CallFails
<1>3. budget' \in [requests : Nat, surprises : Nat, uid : Nat]
  BY DEF CallFails, TypeOK
<1> QED
  BY <1>1, <1>2, <1>3 DEF CallFails, TypeOK

LEMMA SurpriseType ==
  ASSUME TypeOK, OperatorStops \/ NamespaceGone \/ DeleteByHand \/ EditByHand
  PROVE  TypeOK'
<1>1. CASE OperatorStops
  <2>1. budget' \in [requests : Nat, surprises : Nat, uid : Nat]
    BY <1>1 DEF OperatorStops, TypeOK
  <2> QED
    BY <1>1, <2>1, OpNextType, PassPcs DEF OperatorStops, TypeOK, workloads
<1>2. CASE NamespaceGone
  <2>1. isolation
    BY <1>2 DEF NamespaceGone, TypeOK
  <2> QED
    BY <1>2, <2>1 DEF NamespaceGone, TypeOK
<1>3. CASE DeleteByHand
  <2>1. budget' \in [requests : Nat, surprises : Nat, uid : Nat]
    BY <1>3 DEF DeleteByHand, TypeOK
  <2>2. cr' \in Projects \cup {None}
    BY <1>3, DeletedType DEF DeleteByHand, TypeOK
  <2> QED
    BY <1>3, <2>1, <2>2 DEF DeleteByHand, TypeOK, workloads
<1>4. CASE EditByHand
  <2>1. budget' \in [requests : Nat, surprises : Nat, uid : Nat]
    BY <1>4 DEF EditByHand, TypeOK
  <2>2. cr' \in Projects \cup {None}
    <3>1. CASE UNCHANGED cr
      BY <3>1 DEF TypeOK
    <3>2. CASE cr # None /\ cr' = [cr EXCEPT !.spec.foreign = TRUE, !.gen = @ + 1]
      <4>1. cr \in Projects
        BY <3>2 DEF TypeOK
      <4> QED
        BY <3>2, <4>1, GenerationType
    <3> QED
      BY <1>4, <3>1, <3>2 DEF EditByHand
  <2>3. others' \in [OtherKinds -> Objects]
    <3>1. CASE UNCHANGED others
      BY <3>1 DEF TypeOK
    <3>2. CASE \E k \in OtherKinds :
                 others' = [others EXCEPT ![k].valid = FALSE, ![k].gen = @ + 1]
      <4>1. PICK k \in OtherKinds :
                   others' = [others EXCEPT ![k].valid = FALSE, ![k].gen = @ + 1]
        BY <3>2
      <4>2. others' = [others EXCEPT ![k].gen = @ + 1, ![k].valid = FALSE]
        BY <4>1 DEF TypeOK, Objects
      <4> QED
        BY <4>2, ObjectType
    <3> QED
      BY <1>4, <3>1, <3>2 DEF EditByHand
  <2> QED
    BY <1>4, <2>1, <2>2, <2>3 DEF EditByHand, TypeOK, workloads
<1> QED
  BY <1>1, <1>2, <1>3, <1>4

LEMMA NextType ==
  ASSUME TypeOK, Branches, [Next]_vars PROVE TypeOK'
<1>1. CASE Provisioner
  BY <1>1, StartType, ServeType DEF Provisioner
<1>2. CASE UNCHANGED vars
  BY <1>2 DEF TypeOK, vars
<1> QED
  BY <1>1, <1>2, OperatorType, CallFailsType, SurpriseType DEF Next

-----------------------------------------------------------------------------
(* The invariant: steps of others than the operator *)

LEMMA InitIInv == Init => IInv
<1> SUFFICES ASSUME Init PROVE IInv
  OBVIOUS
<1>1. TypeOK /\ cr # None
  BY InitType, NoneAssumption
<1>2. /\ cr # None /\ cr.status = None /\ cr.uid = 1
      /\ op.pc = "idle" /\ snap = None /\ budget.uid = 1
  BY <1>1 DEF Init, NewProject, Idle, snap
<1>3. Ordered
  BY <1>2 DEF Ordered, SnapCurrent, StatusCurrent
<1>4. Branches
  BY <1>2 DEF Branches
<1>5. Owned
  BY <1>2 DEF Owned, NamespaceIsOwned, Init
<1>6. Isolated
  BY <1>2 DEF Isolated, WorkloadsAreIsolated, Init
<1>7. Progress
  BY <1>2 DEF Progress
<1>8. Truthful
  BY <1>2 DEF Truthful, StatusCurrent
<1> QED
  BY <1>1, <1>3, <1>4, <1>5, <1>6, <1>7, <1>8 DEF IInv

\* What may happen to the Project outside the operator: nothing; it goes, having
\* no finalizer; it is made, with a uid never used; it has a new generation.
ProjectStep ==
  \/ cr' = cr /\ budget'.uid = budget.uid
  \/ cr # None /\ ~cr.fin /\ cr' = None /\ budget'.uid = budget.uid
  \/ /\ cr = None /\ cr' # None
     /\ cr'.uid = budget.uid + 1 /\ cr'.status = None
     /\ budget'.uid = budget.uid + 1
  \/ /\ cr # None /\ cr' # None
     /\ cr'.uid = cr.uid /\ cr'.gen = cr.gen + 1
     /\ cr'.fin = cr.fin /\ cr'.status = cr.status
     /\ budget'.uid = budget.uid

LEMMA OutsideStep ==
  ASSUME IInv, TypeOK', ProjectStep, UNCHANGED <<isolation, workloads, op>>
  PROVE  IInv'
<1>0. /\ UNCHANGED <<isolation, ns, isolated, deps, pvcs, op, snap>>
      /\ budget.uid \in Nat
      /\ cr # None => cr.uid \in Nat /\ cr.gen \in Nat
      /\ cr # None /\ cr.status # None => cr.status.uid \in Nat /\ cr.status.gen \in Nat
      /\ snap # None => snap.uid \in Nat /\ snap.gen \in Nat
  BY DEF workloads, snap, IInv, TypeOK, Projects, Statuses, Passes
<1>1. Ordered'
  BY <1>0 DEF ProjectStep, IInv, Ordered, SnapCurrent, StatusCurrent
<1>2. Branches'
  BY <1>0 DEF IInv, Branches
<1>3. Owned'
  BY <1>0 DEF ProjectStep, IInv, Owned, NamespaceIsOwned, Branches
<1>4. Isolated'
  BY <1>0 DEF IInv, Isolated, WorkloadsAreIsolated
<1>5. Progress'
  BY <1>0 DEF IInv, Progress, NothingLeft
<1>6. Truthful'
  <2>1. StatusCurrent' => cr' = cr
    BY <1>0 DEF ProjectStep, IInv, Ordered, StatusCurrent
  <2> QED
    BY <1>0, <2>1 DEF IInv, Truthful, StatusCurrent, NothingLeft
<1> QED
  BY <1>1, <1>2, <1>3, <1>4, <1>5, <1>6 DEF IInv

\* A mark, and a change of the spec.
LEMMA DeletedStep ==
  ASSUME TypeOK, cr # None, cr' = Deleted(cr), budget'.uid = budget.uid PROVE ProjectStep
<1>1. cr \in Projects /\ Deleted(cr) \in Projects \cup {None}
  BY DeletedType DEF TypeOK
<1>2. CASE ~cr.fin
  BY <1>2 DEF Deleted, ProjectStep
<1>3. CASE cr.fin /\ cr.deleting
  BY <1>3 DEF Deleted, ProjectStep
<1>4. CASE cr.fin /\ ~cr.deleting
  <2>1. cr' = [cr EXCEPT !.deleting = TRUE, !.gen = @ + 1]
    BY <1>4 DEF Deleted
  <2>2. /\ cr'.uid = cr.uid /\ cr'.gen = cr.gen + 1
        /\ cr'.fin = cr.fin /\ cr'.status = cr.status
    BY <1>1, <2>1 DEF Projects
  <2>3. cr' # None
    BY <1>1, <2>1, GenerationType, NoneAssumption
  <2> QED
    BY <2>2, <2>3 DEF ProjectStep
<1> QED
  BY <1>2, <1>3, <1>4

LEMMA ApplyProjectStep ==
  ASSUME TypeOK, NEW spec \in Specs, ApplyProject(spec) PROVE ProjectStep
<1>1. cr' # None /\ cr' \in Projects
  BY ApplyProjectType, NoneAssumption
<1>2. CASE cr = None
  <2>1. budget'.uid = budget.uid + 1
    BY <1>2 DEF ApplyProject, TypeOK
  <2>2. cr'.uid = budget.uid + 1 /\ cr'.status = None
    BY <1>2 DEF ApplyProject, NewProject
  <2> QED
    BY <1>1, <1>2, <2>1, <2>2 DEF ProjectStep
<1>3. CASE cr # None
  <2>1. budget'.uid = budget.uid
    BY <1>3 DEF ApplyProject, TypeOK
  <2>2. cr \in Projects
    BY <1>3 DEF TypeOK
  <2>3. CASE cr.spec = spec
    BY <1>3, <2>1, <2>3 DEF ApplyProject, ProjectStep
  <2>4. CASE cr.spec # spec
    <3>1. cr' = [cr EXCEPT !.spec = spec, !.gen = @ + 1]
      BY <1>3, <2>4 DEF ApplyProject
    <3>2. /\ cr'.uid = cr.uid /\ cr'.gen = cr.gen + 1
          /\ cr'.fin = cr.fin /\ cr'.status = cr.status
      BY <2>2, <3>1 DEF Projects
    <3> QED
      BY <1>1, <1>3, <2>1, <3>2 DEF ProjectStep
  <2> QED
    BY <2>3, <2>4
<1> QED
  BY <1>2, <1>3

LEMMA ProvisionerIInv ==
  ASSUME IInv, Provisioner PROVE IInv'
<1>0. TypeOK /\ TypeOK'
  BY NextType DEF IInv, Next
<1>1. PICK r \in Slots :
        \/ Create(r) \/ Update(r) \/ SyncServices(r) \/ SyncOther(r) \/ DestroyWithOptions(r)
        \/ WriteManifest(r) \/ ApplyRetained(r) \/ ApplyManifest(r) \/ RenderOther(r)
        \/ waitForProjectPhase(r) \/ DeleteOthers(r) \/ DeleteProject(r) \/ AwaitGone(r)
        \/ RemoveAll(r) \/ RequestStops(r)
  BY DEF Provisioner
<1>2. CASE \E req : Begin(r, req)
  <2>1. cr' = cr /\ budget'.uid = budget.uid /\ UNCHANGED <<isolation, workloads, op>>
    BY <1>0, <1>2 DEF Begin, TypeOK
  <2> QED
    BY <1>0, <2>1, OutsideStep DEF ProjectStep
<1>3. CASE ApplyManifest(r)
  <2>1. ProjectStep
    BY <1>0, <1>3, ApplyProjectStep DEF ApplyManifest, TypeOK
  <2> QED
    BY <1>0, <1>3, <2>1, OutsideStep DEF ApplyManifest
<1>4. CASE DeleteProject(r)
  <2>1. ProjectStep
    BY <1>0, <1>4, DeletedStep DEF DeleteProject, ProjectStep
  <2> QED
    BY <1>0, <1>4, <2>1, OutsideStep DEF DeleteProject
<1>5. CASE UNCHANGED <<isolation, cr, workloads, op, budget>>
  BY <1>0, <1>5, OutsideStep DEF ProjectStep
<1> QED
  BY <1>1, <1>2, <1>3, <1>4, <1>5
     DEF Create, Update, SyncServices, SyncOther, DestroyWithOptions, WriteManifest,
         ApplyRetained, RenderOther, waitForProjectPhase, DeleteOthers, AwaitGone,
         RemoveAll, RequestStops

LEMMA ByHandIInv ==
  ASSUME IInv, DeleteByHand \/ EditByHand PROVE IInv'
<1>0. TypeOK /\ TypeOK'
  BY NextType DEF IInv, Next
<1>1. budget'.uid = budget.uid
  BY <1>0 DEF DeleteByHand, EditByHand, TypeOK
<1>2. ProjectStep
  <2>1. CASE DeleteByHand
    BY <1>0, <1>1, <2>1, DeletedStep DEF DeleteByHand
  <2>2. CASE EditByHand /\ UNCHANGED cr
    BY <1>1, <2>2 DEF ProjectStep
  <2>3. CASE /\ cr # None
             /\ cr' = [cr EXCEPT !.spec.foreign = TRUE, !.gen = @ + 1]
    <3>1. cr \in Projects
      BY <1>0, <2>3 DEF TypeOK
    <3>2. cr' # None
      BY <2>3, <3>1, GenerationType, NoneAssumption
    <3>3. /\ cr'.uid = cr.uid /\ cr'.gen = cr.gen + 1
          /\ cr'.fin = cr.fin /\ cr'.status = cr.status
      BY <2>3, <3>1 DEF Projects
    <3> QED
      BY <1>1, <2>3, <3>2, <3>3 DEF ProjectStep
  <2> QED
    BY <2>1, <2>2, <2>3 DEF EditByHand
<1> QED
  BY <1>0, <1>2, OutsideStep DEF DeleteByHand, EditByHand

LEMMA NamespaceGoneIInv ==
  ASSUME IInv, NamespaceGone PROVE IInv'
<1>0. TypeOK'
  BY NextType DEF IInv, Next
<1>1. /\ UNCHANGED <<isolation, cr, op, snap, budget>>
      /\ ns = "terminating" /\ ns' = "absent" /\ isolation
      /\ \A s \in Services : deps'[s] = "none" /\ pvcs'[s] = "none"
  BY DEF NamespaceGone, snap, IInv, TypeOK
<1>2. Ordered'
  BY <1>1 DEF IInv, Ordered, SnapCurrent, StatusCurrent
<1>3. Branches'
  BY <1>1 DEF IInv, Branches
<1>4. Owned'
  BY <1>1 DEF IInv, Owned, NamespaceIsOwned
<1>5. Isolated'
  BY <1>1 DEF Isolated, WorkloadsAreIsolated
<1>6. Progress'
  BY <1>1 DEF IInv, Progress, NothingLeft
<1>7. Truthful'
  BY <1>1 DEF IInv, Truthful, StatusCurrent, NothingLeft
<1> QED
  BY <1>0, <1>2, <1>3, <1>4, <1>5, <1>6, <1>7 DEF IInv

-----------------------------------------------------------------------------
(* The invariant: steps of the operator *)

LEMMA OrderedStays ==
  ASSUME Ordered, cr' = cr, budget'.uid = budget.uid, snap' \in {snap, None}
  PROVE  Ordered'
  BY DEF Ordered, SnapCurrent, StatusCurrent

LEMMA TruthfulStays ==
  ASSUME Truthful, UNCHANGED <<cr, ns, deps, pvcs>> PROVE Truthful'
  BY DEF Truthful, StatusCurrent, NothingLeft

\* Where the status is up to date, a pass is at work on what it is about.
LEMMA PassIsCurrent ==
  ASSUME IInv, StatusCurrent, op.pc \in Working
  PROVE  /\ snap.spec = cr.spec /\ snap.deleting = cr.deleting
         /\ workloadsForProject(snap) = workloadsForProject(cr)
<1>1. snap # None
  BY PassPcs DEF IInv, TypeOK, snap
<1>2. snap.spec = cr.spec /\ snap.deleting = cr.deleting
  BY <1>1 DEF IInv, Ordered
<1> QED
  BY <1>2 DEF workloadsForProject

\* Applying again what is there, in part or in whole, changes nothing that the
\* status says; so does deleting again what is gone.
LEMMA ApplyToTruthful ==
  ASSUME IInv, op.pc = "apply", UNCHANGED <<cr, ns>>, NEW vs, NEW ds, ApplyTo(vs, ds)
  PROVE  Truthful'
<1> SUFFICES ASSUME StatusCurrent PROVE Truthful'
  BY DEF Truthful, StatusCurrent
<1>1. snap.spec = cr.spec /\ workloadsForProject(snap) = workloadsForProject(cr)
  BY PassIsCurrent DEF Working
<1>2. cr.spec.desired # "destroying"
  BY <1>1 DEF IInv, Branches
<1>3. deps = workloadsForProject(cr) => deps' = deps
  BY <1>1 DEF ApplyTo, IInv, TypeOK
<1> QED
  BY <1>2, <1>3 DEF IInv, Truthful, StatusCurrent, workloadsForProject

LEMMA DeleteTruthful ==
  ASSUME IInv, op.pc \in {"deleteNamed", "deleteManaged"}, UNCHANGED <<cr, ns>>,
         \A s \in Services : deps'[s] \in {"none", deps[s]} /\ pvcs'[s] \in {"none", pvcs[s]}
  PROVE  Truthful'
<1> SUFFICES ASSUME StatusCurrent PROVE Truthful'
  BY DEF Truthful, StatusCurrent
<1>1. snap.spec = cr.spec /\ snap.deleting = cr.deleting
  BY PassIsCurrent DEF Working
<1>2. cr.deleting \/ cr.spec.desired = "destroying"
  BY <1>1 DEF IInv, Branches
<1> QED
  BY <1>2 DEF IInv, Truthful, StatusCurrent, NothingLeft

\* Nor does a prune that stops half way: the workloads of an up-to-date status
\* are those the pass is about.
LEMMA PrunedTruthful ==
  ASSUME IInv, TypeOK, op.pc = "prune", UNCHANGED <<cr, ns>>, pruneObjects
  PROVE  Truthful'
<1> SUFFICES ASSUME StatusCurrent PROVE Truthful'
  BY DEF Truthful, StatusCurrent
<1>1. snap.spec = cr.spec /\ snap.deleting = cr.deleting
  BY PassIsCurrent DEF Working
<1>2. ~cr.deleting /\ cr.spec.desired # "destroying"
  BY <1>1 DEF IInv, Branches
<1>3. deps = workloadsForProject(cr) => deps' = deps
  <2>1. \A s \in Services : deps'[s] = deps[s] \/ (deps'[s] = "none" /\ s \notin cr.spec.enabled)
    BY <1>1, PruneObjectsFacts
  <2>2. deps = workloadsForProject(cr) =>
          \A s \in Services : s \notin cr.spec.enabled => deps[s] = "none"
    BY DEF workloadsForProject
  <2>3. DOMAIN deps = Services /\ DOMAIN deps' = Services
        /\ deps = [s \in Services |-> deps[s]] /\ deps' = [s \in Services |-> deps'[s]]
    BY PruneObjectsFacts DEF TypeOK
  <2> QED
    BY <2>1, <2>2, <2>3
<1> QED
  BY <1>2, <1>3 DEF IInv, Truthful, StatusCurrent, workloadsForProject

\* The pass leaves the Project, having changed nothing but perhaps Deployments
\* and volumes in the ways above.
LEMMA Leaves ==
  ASSUME IInv, TypeOK', op'.pc \in Between, snap' = None, cr' = cr,
         budget'.uid = budget.uid, UNCHANGED <<isolation, ns>>,
         isolation => Isolated', Truthful'
  PROVE  IInv'
<1>1. Ordered'
  BY OrderedStays DEF IInv
<1>2. Branches' /\ Progress'
  BY DEF Between, Branches, Progress
<1>3. Owned'
  BY DEF IInv, Owned, NamespaceIsOwned, Between
<1>4. Isolated'
  BY DEF Isolated, WorkloadsAreIsolated
<1> QED
  BY <1>1, <1>2, <1>3, <1>4 DEF IInv

LEMMA IsolatedStays ==
  ASSUME Isolated, UNCHANGED <<isolation, ns, isolated, deps>>, op'.pc # "apply"
  PROVE  Isolated'
  BY DEF Isolated, WorkloadsAreIsolated

LEMMA ListProjectsIInv ==
  ASSUME IInv, ListProjects PROVE IInv'
<1>0. TypeOK /\ TypeOK'
  BY NextType DEF IInv, Next, OperatorStep
<1>1. CASE op'.pc = "listOthers" /\ op'.snap = None
  <2>1. UNCHANGED <<isolation, cr, ns, isolated, deps, pvcs, budget>> /\ snap' = None
    BY <1>1 DEF ListProjects, workloads, snap
  <2> QED
    BY <1>0, <1>1, <2>1, Leaves, IsolatedStays, TruthfulStays, PassPcs DEF IInv
<1>2. CASE /\ cr # None
           /\ op'.pc = FirstStep(cr) /\ op'.pc \in Working
           /\ op'.snap = [cr EXCEPT !.status = None]
  <2>1. /\ UNCHANGED <<isolation, cr, ns, isolated, deps, pvcs, budget>>
        /\ snap' = [cr EXCEPT !.status = None]
    BY <1>2 DEF ListProjects, workloads, snap
  <2>2. /\ snap'.spec = cr.spec /\ snap'.uid = cr.uid /\ snap'.gen = cr.gen
        /\ snap'.deleting = cr.deleting /\ snap'.fin = cr.fin
    BY <1>0, <1>2, <2>1 DEF TypeOK, Projects
  <2>3. cr.gen \in Nat
    BY <1>0, <1>2 DEF TypeOK, Projects
  <2>4. snap' # None
    BY <1>0, <1>2, PassPcs DEF TypeOK, snap
  <2>5. /\ op'.pc \in {"addFinalizer", "ensureNamespace", "deleteNamed", "apply", "degraded"}
        /\ op'.pc \in {"addFinalizer", "ensureNamespace"} => isolation
        /\ op'.pc \in {"addFinalizer", "ensureNamespace", "apply"}
             => ~cr.deleting /\ cr.spec.desired # "destroying"
        /\ op'.pc = "deleteNamed" => cr.deleting \/ cr.spec.desired = "destroying"
        /\ op'.pc = "ensureNamespace" => cr.fin
        /\ op'.pc = "apply" => ~isolation
    BY <1>2 DEF FirstStep, Working
  <2>6. Ordered'
    BY <1>2, <2>1, <2>2, <2>3, <2>4 DEF IInv, Ordered, SnapCurrent, StatusCurrent
  <2>7. Branches' /\ Progress'
    BY <2>1, <2>2, <2>5 DEF Branches, Progress
  <2>8. Owned'
    BY <1>2, <2>1, <2>5 DEF IInv, Owned, NamespaceIsOwned
  <2>9. Isolated'
    BY <2>1, <2>5 DEF IInv, Isolated, WorkloadsAreIsolated
  <2>10. Truthful'
    BY <2>1, TruthfulStays DEF IInv
  <2> QED
    BY <1>0, <2>6, <2>7, <2>8, <2>9, <2>10 DEF IInv
<1> QED
  BY <1>0, <1>1, <1>2, ListProjectsType

LEMMA AddFinalizerIInv ==
  ASSUME IInv, AddFinalizer PROVE IInv'
<1>0. TypeOK /\ TypeOK'
  BY NextType DEF IInv, Next, OperatorStep
<1>1. UNCHANGED <<isolation, ns, isolated, deps, pvcs, budget>>
  BY DEF AddFinalizer, workloads
<1>2. CASE cr = None
  <2>1. cr' = cr /\ op'.pc = "degraded" /\ snap' = snap
    BY <1>0, <1>2, OpGotoType DEF AddFinalizer, Working, snap
  <2>2. Ordered'
    BY <1>1, <2>1, OrderedStays DEF IInv
  <2>3. Branches' /\ Progress'
    BY <2>1 DEF Branches, Progress
  <2>4. Owned'
    BY <1>1, <2>1 DEF IInv, Owned, NamespaceIsOwned
  <2> QED
    BY <1>0, <1>1, <2>1, <2>2, <2>3, <2>4, IsolatedStays, TruthfulStays DEF IInv
<1>3. CASE cr # None
  <2>1. cr' = [cr EXCEPT !.fin = TRUE] /\ op'.pc = "ensureNamespace" /\ snap' = snap
    BY <1>0, <1>3, OpGotoType DEF AddFinalizer, Working, snap
  <2>2. cr \in Projects
    BY <1>0, <1>3 DEF TypeOK
  <2>3. /\ cr' \in Projects /\ cr'.fin
        /\ cr'.spec = cr.spec /\ cr'.uid = cr.uid /\ cr'.gen = cr.gen
        /\ cr'.deleting = cr.deleting /\ cr'.status = cr.status
    BY <2>1, <2>2 DEF Projects
  <2>4. cr' # None
    BY <2>3, NoneAssumption
  <2>5. Ordered'
    BY <1>1, <1>3, <2>1, <2>3, <2>4 DEF IInv, Ordered, SnapCurrent, StatusCurrent
  <2>6. Branches' /\ Progress'
    BY <1>1, <2>1 DEF IInv, Branches, Progress, AddFinalizer
  <2>7. Owned'
    BY <2>1, <2>3, <2>4 DEF Owned, NamespaceIsOwned
  <2>8. Truthful'
    <3>1. workloadsForProject(cr)' = workloadsForProject(cr)
      BY <2>3 DEF workloadsForProject
    <3> QED
      BY <1>1, <1>3, <2>3, <3>1 DEF IInv, Truthful, StatusCurrent, NothingLeft
  <2> QED
    BY <1>0, <1>1, <2>1, <2>5, <2>6, <2>7, <2>8, IsolatedStays DEF IInv
<1> QED
  BY <1>2, <1>3

LEMMA EnsureNamespaceIInv ==
  ASSUME IInv, EnsureNamespace PROVE IInv'
<1>0. TypeOK /\ TypeOK'
  BY NextType DEF IInv, Next, OperatorStep
<1>1. /\ UNCHANGED <<isolation, cr, isolated, deps, pvcs, budget>>
      /\ op.pc = "ensureNamespace" /\ op'.pc = "isolate" /\ snap' = snap
      /\ ns' = IF ns = "absent" THEN "active" ELSE ns
  BY <1>0, OpGotoType DEF EnsureNamespace, Working, snap
<1>2. Ordered'
  BY <1>1, OrderedStays DEF IInv
<1>3. Branches' /\ Progress'
  BY <1>1 DEF IInv, Branches, Progress
<1>4. Owned'
  BY <1>1 DEF IInv, Owned, NamespaceIsOwned
<1>5. Isolated'
  BY <1>1 DEF IInv, Isolated, WorkloadsAreIsolated
<1>6. Truthful'
  BY <1>1 DEF IInv, Truthful, StatusCurrent, NothingLeft
<1> QED
  BY <1>0, <1>2, <1>3, <1>4, <1>5, <1>6 DEF IInv

\* A step that is refused, or that fails before it did anything.
LEMMA DegradedIInv ==
  ASSUME IInv, TypeOK', op'.pc = "degraded", snap' = snap, budget'.uid = budget.uid,
         UNCHANGED <<isolation, cr, ns, isolated, deps, pvcs>>
  PROVE  IInv'
<1>1. Branches' /\ Progress'
  BY DEF Branches, Progress
<1>2. Owned'
  BY DEF IInv, Owned, NamespaceIsOwned
<1> QED
  BY <1>1, <1>2, OrderedStays, IsolatedStays, TruthfulStays DEF IInv

LEMMA ApplyProjectIsolationIInv ==
  ASSUME IInv, ApplyProjectIsolation PROVE IInv'
<1>0. TypeOK /\ TypeOK'
  BY NextType DEF IInv, Next, OperatorStep
<1>1. CASE Refused
  <2>1. op'.pc = "degraded" /\ snap' = snap
    BY <1>0, <1>1, OpGotoType DEF Refused, ApplyProjectIsolation, Working, snap
  <2> QED
    BY <1>0, <1>1, <2>1, DegradedIInv DEF Refused, ApplyProjectIsolation
<1>2. CASE /\ ns = "active"
           /\ isolated' = IsolationObjects
           /\ OpGoto("apply")
           /\ UNCHANGED <<deps, pvcs>>
  <2>1. /\ UNCHANGED <<isolation, cr, ns, deps, pvcs, budget>>
        /\ op.pc = "isolate" /\ op'.pc = "apply" /\ snap' = snap
    BY <1>0, <1>2, OpGotoType DEF ApplyProjectIsolation, Working, snap
  <2>2. Branches' /\ Progress'
    BY <2>1 DEF IInv, Branches, Progress
  <2>3. Owned'
    BY <2>1 DEF IInv, Owned, NamespaceIsOwned
  <2>4. Isolated'
    BY <1>2, <2>1 DEF Isolated, WorkloadsAreIsolated
  <2> QED
    BY <1>0, <2>1, <2>2, <2>3, <2>4, OrderedStays, TruthfulStays DEF IInv
<1> QED
  BY <1>1, <1>2 DEF ApplyProjectIsolation

LEMMA ApplyProjectResourcesIInv ==
  ASSUME IInv, ApplyProjectResources PROVE IInv'
<1>0. TypeOK /\ TypeOK'
  BY NextType DEF IInv, Next, OperatorStep
<1>1. CASE Refused
  <2>1. op'.pc = "degraded" /\ snap' = snap
    BY <1>0, <1>1, OpGotoType DEF Refused, ApplyProjectResources, Working, snap
  <2> QED
    BY <1>0, <1>1, <2>1, DegradedIInv DEF Refused, ApplyProjectResources
<1>2. CASE /\ ns = "active"
           /\ ApplyTo(snap.spec.enabled, snap.spec.enabled)
           /\ OpGoto("prune")
           /\ UNCHANGED isolated
  <2>1. /\ UNCHANGED <<isolation, cr, ns, isolated, budget>>
        /\ op.pc = "apply" /\ op'.pc = "prune" /\ snap' = snap
    BY <1>0, <1>2, OpGotoType DEF ApplyProjectResources, Working, snap
  <2>2. Branches'
    BY <2>1 DEF IInv, Branches
  <2>3. Progress'
    <3>1. workloadsForProject(snap)' = workloadsForProject(snap)
      BY <2>1 DEF workloadsForProject
    <3> QED
      BY <1>2, <2>1, <3>1 DEF Progress, ApplyTo
  <2>4. Owned'
    BY <2>1 DEF IInv, Owned, NamespaceIsOwned
  <2>5. Isolated'
    BY <1>2, <2>1 DEF IInv, Isolated, WorkloadsAreIsolated
  <2>6. Truthful'
    BY <1>2, <2>1, ApplyToTruthful
  <2> QED
    BY <1>0, <2>1, <2>2, <2>3, <2>4, <2>5, <2>6, OrderedStays DEF IInv
<1> QED
  BY <1>1, <1>2 DEF ApplyProjectResources

LEMMA PruneIInv ==
  ASSUME IInv, PruneProjectResources PROVE IInv'
<1> DEFINE next == IF snap.spec.desired = "running" THEN "observe" ELSE "status"
<1>0. TypeOK /\ TypeOK'
  BY NextType DEF IInv, Next, OperatorStep
<1>1. /\ UNCHANGED <<isolation, cr, ns, isolated, budget>>
      /\ op.pc = "prune" /\ op'.pc = next /\ snap' = snap
  BY <1>0, OpGotoType DEF PruneProjectResources, Working, snap
<1>2. ~snap.deleting /\ snap.spec.desired # "destroying" /\ ns = "active"
  BY <1>1 DEF IInv, Branches, Progress
<1>3. deps' = workloadsForProject(snap)
  BY <1>1 DEF PruneProjectResources, IInv, Progress, workloadsForProject
<1>4. Branches'
  BY <1>1, <1>2 DEF Branches
<1>5. Progress'
  <2>1. workloadsForProject(snap)' = workloadsForProject(snap)
    BY <1>1 DEF workloadsForProject
  <2> QED
    BY <1>1, <1>2, <1>3, <2>1 DEF Progress
<1>6. Owned'
  BY <1>1 DEF IInv, Owned, NamespaceIsOwned
<1>7. Isolated'
  BY <1>1, <1>2 DEF IInv, Isolated, WorkloadsAreIsolated, PruneProjectResources
<1>8. Truthful'
  <2> SUFFICES ASSUME StatusCurrent PROVE Truthful'
    BY <1>1 DEF Truthful, StatusCurrent
  <2>1. snap.spec = cr.spec /\ workloadsForProject(snap) = workloadsForProject(cr)
    BY <1>1, PassIsCurrent DEF Working
  <2> QED
    BY <1>1, <1>2, <1>3, <2>1 DEF IInv, Truthful, StatusCurrent, workloadsForProject
<1> QED
  BY <1>0, <1>1, <1>4, <1>5, <1>6, <1>7, <1>8, OrderedStays DEF IInv

LEMMA ObserveIInv ==
  ASSUME IInv, ObserveProjectResources PROVE IInv'
<1>0. TypeOK /\ TypeOK'
  BY NextType DEF IInv, Next, OperatorStep
<1>1. /\ UNCHANGED <<isolation, cr, ns, isolated, deps, pvcs, budget>>
      /\ op.pc = "observe" /\ op'.pc = "status" /\ snap' = snap
  BY <1>0 DEF ObserveProjectResources, workloads, snap, TypeOK, Passes
<1>2. Branches'
  BY <1>1 DEF Branches
<1>3. Progress'
  <2>1. workloadsForProject(snap)' = workloadsForProject(snap)
    BY <1>1 DEF workloadsForProject
  <2> QED
    BY <1>1, <2>1 DEF IInv, Branches, Progress
<1>4. Owned'
  BY <1>1 DEF IInv, Owned, NamespaceIsOwned
<1> QED
  BY <1>0, <1>1, <1>2, <1>3, <1>4, OrderedStays, IsolatedStays, TruthfulStays DEF IInv

LEMMA DeleteProjectResourcesIInv ==
  ASSUME IInv, DeleteProjectResources PROVE IInv'
<1>0. TypeOK /\ TypeOK'
  BY NextType DEF IInv, Next, OperatorStep
<1>1. /\ UNCHANGED <<isolation, cr, ns, isolated, budget>>
      /\ op.pc = "deleteNamed" /\ op'.pc = "deleteManaged" /\ snap' = snap
  BY <1>0, OpGotoType DEF DeleteProjectResources, Working, snap
<1>2. \A s \in Services : deps'[s] \in {"none", deps[s]} /\ pvcs'[s] \in {"none", pvcs[s]}
  BY DEF DeleteProjectResources, DeleteNamed
<1>3. Branches' /\ Progress'
  BY <1>1 DEF IInv, Branches, Progress
<1>4. Owned'
  BY <1>1 DEF IInv, Owned, NamespaceIsOwned
<1>5. Isolated'
  BY <1>1, <1>2 DEF IInv, Isolated, WorkloadsAreIsolated
<1>6. Truthful'
  BY <1>1, <1>2, DeleteTruthful
<1> QED
  BY <1>0, <1>1, <1>3, <1>4, <1>5, <1>6, OrderedStays DEF IInv

LEMMA DeleteManagedIInv ==
  ASSUME IInv, deleteManagedWorkloadResources PROVE IInv'
<1>0. TypeOK /\ TypeOK'
  BY NextType DEF IInv, Next, OperatorStep
<1>1. /\ UNCHANGED <<isolation, cr, ns, isolated, budget>>
      /\ op.pc = "deleteManaged" /\ op'.pc = AfterDelete /\ snap' = snap
  BY <1>0, OpGotoType DEF deleteManagedWorkloadResources, AfterDelete, Working, snap
<1>2. \A s \in Services : /\ deps'[s] = "none"
                          /\ pvcs'[s] \in {"none", pvcs[s]}
                          /\ pvcs'[s] = "kept" => snap.spec.retain
  BY <1>0 DEF deleteManagedWorkloadResources, TypeOK
<1>3. Branches'
  BY <1>1 DEF IInv, Branches, AfterDelete
<1>4. Progress'
  <2>1. snap.deleting \/ snap.spec.desired = "destroying"
    BY <1>1 DEF IInv, Branches
  <2>2. NothingLeft(snap)'
    BY <1>1, <1>2 DEF NothingLeft
  <2> QED
    BY <1>1, <2>1, <2>2 DEF Progress, AfterDelete
<1>5. Owned'
  BY <1>1 DEF IInv, Owned, NamespaceIsOwned, AfterDelete
<1>6. Isolated'
  BY <1>1, <1>2 DEF Isolated, WorkloadsAreIsolated, AfterDelete
<1>7. Truthful'
  BY <1>1, <1>2, DeleteTruthful
<1> QED
  BY <1>0, <1>1, <1>3, <1>4, <1>5, <1>6, <1>7, OrderedStays DEF IInv

LEMMA DeleteNamespaceIInv ==
  ASSUME IInv, DeleteNamespace PROVE IInv'
<1> DEFINE next == IF snap.deleting THEN "removeFinalizer" ELSE "status"
<1>0. TypeOK /\ TypeOK'
  BY NextType DEF IInv, Next, OperatorStep
<1>1. /\ UNCHANGED <<isolation, cr, isolated, deps, pvcs, budget>>
      /\ op.pc = "deleteNamespace" /\ op'.pc = next /\ snap' = snap
      /\ ns' = IF ns = "active" THEN "terminating" ELSE ns
  BY <1>0, OpGotoType DEF DeleteNamespace, Working, snap
<1>2. Branches'
  BY <1>1 DEF IInv, Branches
<1>3. Progress'
  <2>1. snap.deleting \/ snap.spec.desired = "destroying"
    BY <1>1 DEF IInv, Branches
  <2>2. NothingLeft(snap)'
    BY <1>1 DEF IInv, Progress, NothingLeft
  <2> QED
    BY <1>1, <2>1, <2>2 DEF Progress
<1>4. Owned'
  BY <1>1 DEF Owned, NamespaceIsOwned
<1>5. Isolated'
  BY <1>1 DEF IInv, Isolated, WorkloadsAreIsolated
<1>6. Truthful'
  <2> SUFFICES ASSUME StatusCurrent PROVE Truthful'
    BY <1>1 DEF Truthful, StatusCurrent
  <2>1. snap.spec = cr.spec /\ snap.deleting = cr.deleting
    BY <1>1, PassIsCurrent DEF Working
  <2>2. cr.deleting \/ cr.spec.desired = "destroying"
    BY <1>1, <2>1 DEF IInv, Branches
  <2> QED
    BY <1>1, <2>2 DEF IInv, Truthful, StatusCurrent, NothingLeft
<1> QED
  BY <1>0, <1>1, <1>2, <1>3, <1>4, <1>5, <1>6, OrderedStays DEF IInv

LEMMA RemoveFinalizerIInv ==
  ASSUME IInv, RemoveFinalizer PROVE IInv'
<1>0. TypeOK /\ TypeOK'
  BY NextType DEF IInv, Next, OperatorStep
<1>1. /\ UNCHANGED <<isolation, ns, isolated, deps, pvcs, budget>>
      /\ op.pc = "removeFinalizer" /\ op'.pc = "listOthers" /\ snap' = None
  BY OpNextType DEF RemoveFinalizer, workloads, snap
<1>2. \/ cr' = None
      \/ /\ cr # None
         /\ cr'.spec = cr.spec /\ cr'.uid = cr.uid /\ cr'.gen = cr.gen
         /\ cr'.deleting = cr.deleting /\ cr'.status = cr.status
  BY <1>0 DEF RemoveFinalizer, TypeOK, Projects
<1>3. Ordered'
  BY <1>1, <1>2 DEF IInv, Ordered, SnapCurrent, StatusCurrent
<1>4. Branches' /\ Progress'
  BY <1>1 DEF Branches, Progress
<1>5. Owned'
  BY <1>1 DEF IInv, Owned, NamespaceIsOwned
<1>6. Truthful'
  <2>1. cr' # None => workloadsForProject(cr)' = workloadsForProject(cr)
    BY <1>2 DEF workloadsForProject
  <2> QED
    BY <1>1, <1>2, <2>1 DEF IInv, Truthful, StatusCurrent, NothingLeft
<1> QED
  BY <1>0, <1>1, <1>3, <1>4, <1>5, <1>6, IsolatedStays DEF IInv

LEMMA PatchIInv ==
  ASSUME IInv, PatchProjectStatus PROVE IInv'
<1> DEFINE phase == IF op.pc = "status" THEN statusForProject ELSE "Degraded"
<1>0. TypeOK /\ TypeOK'
  BY NextType DEF IInv, Next, OperatorStep
<1>1. /\ UNCHANGED <<isolation, ns, isolated, deps, pvcs, budget>>
      /\ op.pc \in {"status", "degraded"} /\ op'.pc = "listOthers" /\ snap' = None
  BY OpNextType DEF PatchProjectStatus, workloads, snap
<1>2. Branches' /\ Progress'
  BY <1>1 DEF Branches, Progress
<1>3. CASE cr = None
  <2>1. cr' = None
    BY <1>3 DEF PatchProjectStatus
  <2>2. Ordered' /\ Truthful'
    BY <1>1, <2>1 DEF Ordered, SnapCurrent, StatusCurrent, Truthful
  <2>3. Owned'
    BY <1>1, <1>3 DEF IInv, Owned, NamespaceIsOwned
  <2> QED
    BY <1>0, <1>1, <1>2, <2>2, <2>3, IsolatedStays DEF IInv
<1>4. CASE cr # None
  <2>1. snap # None
    BY <1>0, <1>1, PassPcs DEF TypeOK, snap, Working, Between
  <2>2. /\ cr'.status = [phase |-> phase, gen |-> snap.gen, uid |-> snap.uid]
        /\ cr'.spec = cr.spec /\ cr'.uid = cr.uid /\ cr'.gen = cr.gen
        /\ cr'.deleting = cr.deleting /\ cr'.fin = cr.fin
        /\ cr' # None
    BY <1>0, <1>4, PatchType, NoneAssumption
  <2>3. cr'.status.phase = phase /\ cr'.status.gen = snap.gen /\ cr'.status.uid = snap.uid
    BY <2>2
  <2>4. Ordered'
    BY <1>1, <1>4, <2>1, <2>2, <2>3 DEF IInv, Ordered, SnapCurrent, StatusCurrent
  <2>5. Owned'
    BY <1>1, <1>4, <2>2 DEF IInv, Owned, NamespaceIsOwned
  <2>6. Truthful'
    <3> SUFFICES ASSUME StatusCurrent' PROVE Truthful'
      BY DEF Truthful
    <3>1. snap.spec = cr'.spec /\ snap.deleting = cr'.deleting
      BY <1>4, <2>1, <2>2, <2>3 DEF IInv, Ordered, SnapCurrent, StatusCurrent
    <3>2. workloadsForProject(cr)' = workloadsForProject(snap)
      BY <3>1 DEF workloadsForProject
    <3>3. CASE op.pc = "degraded"
      BY <2>3, <3>3 DEF Truthful
    <3>4. CASE op.pc = "status"
      <4>1. phase = statusForProject
        BY <3>4
      <4>2. CASE snap.spec.desired = "running"
        BY <1>0, <1>1, <2>1, <2>3, <3>1, <3>2, <3>4, <4>1, <4>2, StatusPhase
           DEF IInv, Progress, Truthful
      <4>3. CASE snap.spec.desired = "paused"
        BY <1>0, <1>1, <2>1, <2>3, <3>1, <3>2, <3>4, <4>1, <4>3, StatusPhase
           DEF IInv, Progress, Truthful
      <4>4. CASE snap.spec.desired = "destroying"
        <5>1. NothingLeft(cr)'
          BY <1>1, <3>1, <3>4, <4>4 DEF IInv, Progress, NothingLeft
        <5> QED
          BY <1>0, <2>1, <2>3, <3>1, <4>1, <4>4, <5>1, StatusPhase DEF Truthful
      <4> QED
        BY <1>0, <2>1, <4>2, <4>3, <4>4, StatusPhase
    <3> QED
      BY <1>1, <3>3, <3>4
  <2> QED
    BY <1>0, <1>1, <1>2, <2>4, <2>5, <2>6, IsolatedStays DEF IInv
<1> QED
  BY <1>3, <1>4

LEMMA RestOfPassIInv ==
  ASSUME IInv, ListOthers \/ PatchOthers \/ OperatorStops PROVE IInv'
<1>0. TypeOK /\ TypeOK'
  BY NextType DEF IInv, Next, OperatorStep
<1>1. op'.pc \in Between /\ snap' = None
  <2>1. CASE ListOthers
    <3>1. \A f : LET o == [Idle EXCEPT !.pc = "patchOthers", !.seen = f]
                 IN  o.pc = "patchOthers" /\ o.snap = None
      BY DEF Idle
    <3> QED
      BY <2>1, <3>1, OpNextType, PassPcs DEF ListOthers, snap
  <2> QED
    BY <2>1, OpNextType, PassPcs DEF PatchOthers, OperatorStops, snap
<1>2. /\ UNCHANGED <<isolation, cr, ns, isolated, deps, pvcs>>
      /\ budget'.uid = budget.uid
  BY <1>0 DEF ListOthers, PatchOthers, OperatorStops, workloads, TypeOK
<1>3. op'.pc # "apply"
  BY <1>1 DEF Between
<1> QED
  BY <1>0, <1>1, <1>2, <1>3, Leaves, IsolatedStays, TruthfulStays DEF IInv

LEMMA CallFailsIInv ==
  ASSUME IInv, CallFails PROVE IInv'
<1>0. TypeOK /\ TypeOK'
  BY NextType DEF IInv, Next
<1>1. UNCHANGED <<isolation, cr, ns>> /\ budget'.uid = budget.uid
  BY <1>0 DEF CallFails, TypeOK
<1>2. op.pc = "patchOthers" \/ op.pc \in Working
  BY <1>0 DEF CallFails, TypeOK, Passes, Between
<1>3. \/ op'.pc \in Between /\ snap' = None
      \/ op.pc \in Working /\ op'.pc = "degraded" /\ snap' = snap
  BY <1>0, <1>2, OpGotoType, OpNextType, PassPcs DEF CallFails, Working, snap
<1>4. op'.pc # "apply"
  BY <1>3 DEF Between
<1>5. Isolated' /\ Truthful'
  <2>1. CASE UNCHANGED <<isolated, deps, pvcs>>
    BY <1>1, <1>4, <2>1, IsolatedStays, TruthfulStays DEF IInv
  <2>2. CASE /\ \E some \in SUBSET IsolationObjects : isolated' = isolated \cup some
             /\ UNCHANGED <<deps, pvcs>>
    <3>1. isolated = IsolationObjects => isolated' = IsolationObjects
      BY <2>2
    <3>2. Isolated'
      BY <1>1, <1>4, <2>2, <3>1 DEF IInv, Isolated, WorkloadsAreIsolated
    <3> QED
      BY <1>1, <2>2, <3>2, TruthfulStays DEF IInv
  <2>3. CASE /\ op.pc = "apply" /\ ns = "active"
             /\ \E vs, ds : ApplyTo(vs, ds)
             /\ UNCHANGED isolated
    <3>1. Isolated'
      BY <1>1, <1>4, <2>3 DEF IInv, Isolated, WorkloadsAreIsolated
    <3> QED
      BY <1>1, <2>3, <3>1, ApplyToTruthful
  <2>4. CASE /\ op.pc = "deleteNamed"
             /\ \E ss : DeleteNamed(ss)
             /\ UNCHANGED isolated
    <3>1. \A s \in Services : deps'[s] \in {"none", deps[s]} /\ pvcs'[s] \in {"none", pvcs[s]}
      BY <2>4 DEF DeleteNamed
    <3>2. Isolated'
      BY <1>1, <1>4, <2>4, <3>1 DEF IInv, Isolated, WorkloadsAreIsolated
    <3> QED
      BY <1>1, <2>4, <3>1, <3>2, DeleteTruthful
  <2>5. CASE /\ op.pc \in {"prune", "deleteManaged"}
             /\ pruneObjects
             /\ UNCHANGED isolated
    <3>1. \A s \in Services : deps'[s] \in {"none", deps[s]} /\ pvcs'[s] \in {"none", pvcs[s]}
      BY <1>0, <2>5, PruneObjectsFacts
    <3>2. Isolated'
      BY <1>1, <1>4, <2>5, <3>1 DEF IInv, Isolated, WorkloadsAreIsolated
    <3>3. CASE op.pc = "deleteManaged"
      BY <1>1, <3>1, <3>2, <3>3, DeleteTruthful
    <3>4. CASE op.pc = "prune"
      BY <1>0, <1>1, <2>5, <3>2, <3>4, PrunedTruthful
    <3> QED
      BY <2>5, <3>3, <3>4, <3>2
  <2> QED
    BY <2>1, <2>2, <2>3, <2>4, <2>5 DEF CallFails
<1>6. CASE op'.pc \in Between /\ snap' = None
  BY <1>0, <1>1, <1>5, <1>6, Leaves
<1>7. CASE op'.pc = "degraded" /\ snap' = snap
  <2>1. Branches' /\ Progress'
    BY <1>7 DEF Branches, Progress
  <2>2. Owned'
    BY <1>1, <1>7 DEF IInv, Owned, NamespaceIsOwned
  <2> QED
    BY <1>0, <1>1, <1>5, <1>7, <2>1, <2>2, OrderedStays DEF IInv
<1> QED
  BY <1>3, <1>6, <1>7

LEMMA NextIInv == IInv /\ [Next]_vars => IInv'
<1> SUFFICES ASSUME IInv, [Next]_vars PROVE IInv'
  OBVIOUS
<1>1. CASE OperatorStep
  BY <1>1, ListProjectsIInv, AddFinalizerIInv, EnsureNamespaceIInv, ApplyProjectIsolationIInv,
     ApplyProjectResourcesIInv, PruneIInv, ObserveIInv, DeleteProjectResourcesIInv,
     DeleteManagedIInv, DeleteNamespaceIInv, RemoveFinalizerIInv, PatchIInv, RestOfPassIInv
     DEF OperatorStep
<1>2. CASE UNCHANGED vars
  <2>1. TypeOK' /\ ProjectStep /\ UNCHANGED <<isolation, workloads, op>>
    BY <1>2, NextType DEF IInv, vars, workloads, ProjectStep
  <2> QED
    BY <2>1, OutsideStep
<1> QED
  BY <1>1, <1>2, ProvisionerIInv, CallFailsIInv, RestOfPassIInv, NamespaceGoneIInv, ByHandIInv
     DEF Next

\* The invariant holds in every state.
LEMMA Invariance == Spec => []IInv
  BY InitIInv, NextIInv, PTL DEF Spec

-----------------------------------------------------------------------------
(* Theorems *)

\* Every variable has its type: among others, the objects of ReconcileProject
\* are there exactly while a pass is at work on a Project.
THEOREM TypeCorrect == Spec => []TypeOK
<1>1. IInv => TypeOK
  BY DEF IInv
<1> QED
  BY <1>1, Invariance, PTL

\* The namespace the operator made for a project (EnsureNamespace) is never
\* without a Project that has its finalizer, whoever deletes the Project and
\* whenever.
THEOREM NamespaceOwnership == Spec => []NamespaceIsOwned
<1>1. IInv => NamespaceIsOwned
  BY DEF IInv, Owned
<1> QED
  BY <1>1, Invariance, PTL

\* No Deployment is in a project's namespace without the service account, the
\* network policies and the quota (ApplyProjectIsolation), whichever calls fail.
THEOREM WorkloadIsolation == Spec => []WorkloadsAreIsolated
<1>1. IInv => WorkloadsAreIsolated
  BY DEF IInv, Isolated
<1> QED
  BY <1>1, Invariance, PTL

\* The phase that PatchProjectStatus wrote for the current generation is so,
\* however the pass, the requests and the edits interleave.
THEOREM TruthfulStatus == Spec => []StatusIsTruthful
<1>1. IInv => StatusIsTruthful
  <2> SUFFICES ASSUME IInv, StatusCurrent, ~cr.deleting
               PROVE  CASE cr.status.phase \in {"RuntimeReady", "Paused"} ->
                             deps = workloadsForProject(cr)
                        [] cr.status.phase = "Terminating" ->
                             \A s \in Services : /\ deps[s] = "none"
                                                 /\ pvcs[s] = "kept" => cr.spec.retain
                        [] OTHER -> TRUE
    BY DEF StatusIsTruthful, StatusCurrent
  <2>1. cr.status.phase \in {"RuntimeReady", "Paused"} => deps = workloadsForProject(cr)
    BY DEF IInv, Truthful
  <2>2. cr.status.phase = "Terminating" => NothingLeft(cr)
    BY DEF IInv, Truthful
  <2>3. CASE cr.status.phase \in {"RuntimeReady", "Paused"}
    BY <2>1, <2>3
  <2>4. CASE cr.status.phase = "Terminating"
    BY <2>2, <2>4 DEF NothingLeft
  <2>5. CASE cr.status.phase \notin {"RuntimeReady", "Paused", "Terminating"}
    BY <2>5
  <2> QED
    BY <2>3, <2>4, <2>5
<1> QED
  BY <1>1, Invariance, PTL

\* The steps that change a volume.
LEMMA VolumeSteps ==
  ASSUME [Next]_vars
  PROVE  \/ UNCHANGED pvcs
         \/ NamespaceGone
         \/ op.pc = "apply" /\ \E vs, ds : ApplyTo(vs, ds)
         \/ PruneProjectResources
         \/ op.pc = "deleteNamed" /\ \E ss : DeleteNamed(ss)
         \/ deleteManagedWorkloadResources
         \/ op.pc \in {"prune", "deleteManaged"} /\ pruneObjects
<1>1. CASE Provisioner
  BY <1>1 DEF Provisioner, Begin, Create, Update, SyncServices, SyncOther,
       DestroyWithOptions, WriteManifest, ApplyRetained, ApplyManifest, RenderOther,
       waitForProjectPhase, DeleteOthers, DeleteProject, AwaitGone, RemoveAll,
       RequestStops, workloads
<1>2. CASE OperatorStep
  BY <1>2 DEF OperatorStep, ListProjects, AddFinalizer, EnsureNamespace,
       ApplyProjectIsolation, Refused, ApplyProjectResources, ObserveProjectResources,
       DeleteProjectResources, DeleteNamespace, RemoveFinalizer, PatchProjectStatus,
       ListOthers, PatchOthers, workloads
<1>3. CASE CallFails
  BY <1>3 DEF CallFails
<1>4. CASE OperatorStops \/ DeleteByHand \/ EditByHand \/ UNCHANGED vars
  BY <1>4 DEF OperatorStops, DeleteByHand, EditByHand, vars, workloads
<1> QED
  BY <1>1, <1>2, <1>3, <1>4 DEF Next

LEMMA RetainStep ==
  ASSUME IInv, [Next]_vars, NEW s \in Services, Lost(s), ToRetain(s) PROVE isolation
<1>1. pvcs[s] # "none" /\ pvcs'[s] = "none"
  BY DEF Lost
<1>2. CASE NamespaceGone
  BY <1>2 DEF NamespaceGone, IInv, TypeOK
<1>3. CASE op.pc \in Working
  <2>1. snap # None
    BY <1>3, PassPcs DEF IInv, TypeOK, snap
  <2>2. snap.spec = cr.spec
    BY <2>1 DEF ToRetain, IInv, Ordered, SnapCurrent
  <2>3. snap.spec.retain /\ s \in snap.spec.enabled /\ snap.spec.desired = "destroying"
    BY <2>2 DEF ToRetain
  <2>4. op.pc \notin {"apply", "prune"}
    BY <2>3 DEF IInv, Branches
  <2>5. \A ss : ~DeleteNamed(ss)
    BY <1>1, <2>3 DEF DeleteNamed
  <2>6. ~deleteManagedWorkloadResources
    BY <1>1, <2>3 DEF deleteManagedWorkloadResources
  <2>7. ~pruneObjects
    BY <1>1, <2>3, PruneObjectsFacts DEF IInv
  <2> QED
    BY <1>1, <1>2, <2>4, <2>5, <2>6, <2>7, VolumeSteps DEF PruneProjectResources
<1> QED
  BY <1>1, <1>2, <1>3, VolumeSteps
     DEF Working, PruneProjectResources, deleteManagedWorkloadResources

\* Without isolation no step deletes a volume that Destroy was told to retain:
\* not DeleteProjectResources, not the deletion by label after it, not a pass
\* that prunes, and not one that fails half way.
THEOREM RetainedVolumes == Spec => RetainedVolumesSurvive
<1>1. IInv /\ [Next]_vars => \A s \in Services : Lost(s) /\ ToRetain(s) => isolation
  BY RetainStep
<1> QED
  BY <1>1, Invariance, PTL DEF Spec, RetainedVolumesSurvive

-----------------------------------------------------------------------------
(* The leader election.                                                    *)

\* What a replica that is about to patch the Lease knows about it: it still
\* holds it, or it read it expired, or the Lease was stored since its try began.
KnownAge(r) ==
  pc[r] = "update" =>
    /\ holder # NoHolder
    /\ \/ holder = r
       \/ age - clock[r] > Duration
       \/ age - late <= clock[r]

\* The inductive invariant of the election.
LeaseInv == ElectionTypeOK /\ \A r \in Replicas : KnownAge(r)

\* The arithmetic of the constants.
LEMMA DurationIsNat == Duration \in Nat /\ MaxAge \in Nat
  BY TicksAssumption DEF Duration, MaxAge

\* The program starts with every replica down.
LEMMA InitLease == ElectionInit => LeaseInv
<1> SUFFICES ASSUME ElectionInit PROVE LeaseInv
  OBVIOUS
<1>1. ElectionTypeOK
  BY DurationIsNat, TicksAssumption, FaultsAssumption DEF ElectionInit, ElectionTypeOK, PCs, Trying
<1>2. \A r \in Replicas : KnownAge(r)
  BY DEF ElectionInit, KnownAge
<1> QED
  BY <1>1, <1>2 DEF LeaseInv

\* The types, and the bound on the length of a try, survive every step.
LEMMA ElectionTypeStep == ElectionTypeOK /\ [ElectionNext]_electionVars => ElectionTypeOK'
<1> SUFFICES ASSUME ElectionTypeOK, [ElectionNext]_electionVars PROVE ElectionTypeOK'
  OBVIOUS
<1> USE DurationIsNat, TicksAssumption, FaultsAssumption
    DEF ElectionTypeOK, PCs, Trying
<1>1. CASE Tick
  <2>1. clock' \in [Replicas -> 0..RoundTicks]
    BY <1>1 DEF Tick, Deadline
  <2>2. timer' \in [Replicas -> 0..(Interval - 1)]
    BY <1>1 DEF Tick
  <2>3. due' \in [Replicas -> BOOLEAN]
    BY <1>1, Zenon DEF Tick
  <2>4. age' \in 0..MaxAge
    BY <1>1 DEF Tick
  <2>5. \A r \in Replicas : pc'[r] \in Trying => clock'[r] <= TryTicks
    BY <1>1 DEF Tick, Deadline
  <2>6. late' \in 0..TryTicks
    BY <1>1 DEF Tick
  <2> QED
    BY <1>1, <2>1, <2>2, <2>3, <2>4, <2>5, <2>6 DEF Tick
<1>2. ASSUME NEW r \in Replicas, Start(r) \/ RoundStep(r) PROVE ElectionTypeOK'
  <2>1. CASE Start(r)
    BY <2>1 DEF Start, ticker, lease
  <2>2. CASE BeginRound(r)
    BY <2>2 DEF BeginRound, lease
  <2>3. CASE GetLease(r)
    BY <2>3 DEF GetLease, AfterGet, ticker, lease
  <2>4. CASE CreateLease(r)
    BY <2>4 DEF CreateLease, Store, ticker, lease,
                MaxAge
  <2>5. CASE UpdateLease(r)
    BY <2>5 DEF UpdateLease, Store, ticker, MaxAge
  <2>6. CASE FinishReconcile(r)
    BY <2>6 DEF FinishReconcile, ticker, lease
  <2> QED
    BY <1>2, <2>1, <2>2, <2>3, <2>4, <2>5, <2>6 DEF RoundStep
<1>3. ASSUME NEW r \in Replicas, LeaseCallFails(r) PROVE ElectionTypeOK'
  BY <1>3 DEF LeaseCallFails, Store, ticker, lease, MaxAge
<1>4. ASSUME NEW r \in Replicas, Crash(r) PROVE ElectionTypeOK'
  BY <1>4 DEF Crash, lease
<1>5. CASE UNCHANGED electionVars
  BY <1>5 DEF electionVars, ticker, lease
<1> QED
  BY <1>1, <1>2, <1>3, <1>4, <1>5 DEF ElectionNext

\* A write has just been stored, in the middle of the try of every replica that
\* is still about to patch.
LEMMA KnownAgeAfterStore ==
  ASSUME LeaseInv, NEW r \in Replicas, pc[r] \in Trying, Store(r),
         UNCHANGED clock, NEW s \in Replicas, pc'[s] = "update" => pc[s] = "update"
  PROVE  KnownAge(s)'
<1>1. clock[r] \in 0..TryTicks /\ clock[s] \in Nat
  BY TicksAssumption DEF LeaseInv, ElectionTypeOK
<1>2. holder' # NoHolder
  BY ReplicasAssumption DEF Store
<1> QED
  BY <1>1, <1>2, TicksAssumption DEF KnownAge, Store

\* Every step keeps what the patching replicas know.
LEMMA KnownAgeStep ==
  ASSUME LeaseInv, [ElectionNext]_electionVars, NEW s \in Replicas PROVE KnownAge(s)'
<1> USE DEF LeaseInv, ElectionTypeOK, PCs, Trying
<1>1. CASE Tick
  <2> SUFFICES ASSUME pc[s] = "update" PROVE KnownAge(s)'
    BY <1>1 DEF Tick, KnownAge
  <2>1. clock'[s] = clock[s] + 1 /\ clock'[s] <= TryTicks /\ clock[s] \in Nat
    BY <1>1, TicksAssumption DEF Tick, Deadline
  <2>2. age \in Nat /\ age' = IF age < MaxAge THEN age + 1 ELSE age
    BY <1>1 DEF Tick
  <2>3. age - clock[s] > Duration => age' - clock'[s] > Duration
    BY <2>1, <2>2, DurationIsNat, TicksAssumption DEF MaxAge
  <2>4. age - late <= clock[s] => age' - late' <= clock'[s]
    BY <1>1, <2>1, <2>2, DurationIsNat, TicksAssumption DEF Tick
  <2> QED
    BY <1>1, <2>3, <2>4 DEF Tick, KnownAge
<1>2. ASSUME NEW r \in Replicas, Start(r) \/ RoundStep(r) PROVE KnownAge(s)'
  <2>1. CASE Start(r)
    BY <2>1 DEF Start, KnownAge, lease
  <2>2. CASE BeginRound(r)
    BY <2>2 DEF BeginRound, KnownAge, lease
  <2>3. CASE GetLease(r)
    BY <2>3 DEF GetLease, AfterGet, LeaseExpired, lease,
                KnownAge
  <2>4. CASE CreateLease(r)
    <3>1. CASE Store(r)
      BY <2>4, <3>1, KnownAgeAfterStore DEF CreateLease
    <3>2. CASE UNCHANGED lease
      BY <2>4, <3>2 DEF CreateLease, KnownAge, lease
    <3> QED
      BY <2>4, <3>1, <3>2 DEF CreateLease
  <2>5. CASE UpdateLease(r)
    BY <2>5, KnownAgeAfterStore DEF UpdateLease
  <2>6. CASE FinishReconcile(r)
    BY <2>6 DEF FinishReconcile, KnownAge, lease
  <2> QED
    BY <1>2, <2>1, <2>2, <2>3, <2>4, <2>5, <2>6 DEF RoundStep
<1>3. ASSUME NEW r \in Replicas, LeaseCallFails(r) PROVE KnownAge(s)'
  <2>1. CASE Store(r)
    BY <1>3, <2>1, KnownAgeAfterStore DEF LeaseCallFails
  <2>2. CASE UNCHANGED lease
    BY <1>3, <2>2 DEF LeaseCallFails, KnownAge, lease
  <2> QED
    BY <1>3, <2>1, <2>2 DEF LeaseCallFails
<1>4. ASSUME NEW r \in Replicas, Crash(r) PROVE KnownAge(s)'
  BY <1>4 DEF Crash, KnownAge, lease
<1>5. CASE UNCHANGED electionVars
  BY <1>5 DEF electionVars, lease, KnownAge
<1> QED
  BY <1>1, <1>2, <1>3, <1>4, <1>5 DEF ElectionNext

\* Only a write changes the holder, and the writer knows what it overwrites.
LEMMA HolderStep ==
  ASSUME LeaseInv, ElectionNext, NEW r \in Replicas,
         holder' = r, holder # r, holder # NoHolder
  PROVE  age - clock[r] > Duration \/ age - late <= clock[r]
<1>1. pc[r] = "update"
  <2>1. ~ Tick
    BY DEF Tick
  <2>2. PICK s \in Replicas : Start(s) \/ RoundStep(s) \/ LeaseCallFails(s) \/ Crash(s)
    BY <2>1 DEF ElectionNext
  <2>3. Store(s) /\ pc[s] = "update"
    BY <2>2 DEF Start, RoundStep, BeginRound, GetLease, CreateLease, UpdateLease,
                FinishReconcile, LeaseCallFails, Crash, lease
  <2> QED
    BY <2>3 DEF Store
<1> QED
  BY <1>1 DEF LeaseInv, KnownAge

\* For every number of replicas, interval, try and round length: the operator's
\* types, and the bound the HTTP timeout puts on a try.
THEOREM ElectionTypes == ElectionSpec => []ElectionTypeOK
<1>1. ElectionInit => ElectionTypeOK
  BY InitLease DEF LeaseInv
<1> QED
  BY <1>1, ElectionTypeStep, PTL DEF ElectionSpec

\* For every number of replicas, interval, try and round length: a replica takes
\* the lease from another only if it had expired when its try began or was stored
\* since, although UpdateLease patches without a resource version.
THEOREM LeaseIsHonoured == ElectionSpec => LeaseHonoured
<1>1. LeaseInv /\ [ElectionNext]_electionVars => LeaseInv'
  BY ElectionTypeStep, KnownAgeStep DEF LeaseInv
<1>2. LeaseInv /\ [ElectionNext]_electionVars
        => [\A r \in Replicas :
              holder' = r /\ holder \notin {r, NoHolder}
                => age - clock[r] > Duration \/ age - late <= clock[r]]_electionVars
  BY HolderStep
<1> QED
  BY <1>1, <1>2, InitLease, PTL DEF ElectionSpec, LeaseHonoured
=============================================================================
