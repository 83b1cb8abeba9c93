------------------------ MODULE ProjectRuntimeProofs ------------------------
(***************************************************************************)
(* For every set of requests and every timing with Lag + Ceiling < Grace:  *)
(* a destroyed project stays destroyed, and the reconciler never writes    *)
(* the status of a project that is being provisioned.  For every choice of *)
(* services, any number of updates and any number of crashes: a change of  *)
(* the services never rolls the last ready gateway away.                   *)
(***************************************************************************)
EXTENDS ProjectRuntime, ServiceStartup, TLAPS

\* The jobs, and what the provisioning goroutine and the reconciler may be doing.
Shape ==
  /\ todo = [j \in Jobs |-> todo[j]]
  /\ age \in Nat /\ clock \in Nat
  /\ "project" \in fresh => status = "none" /\ rec = Idle /\ ~Provisioning
  /\ Pending => up /\ ~Provisioning

\* The reconciler works on a record, and writes only reported phases.
Reconciling ==
  /\ rec = [step |-> rec.step, listed |-> rec.listed, age |-> rec.age, seen |-> rec.seen]
  /\ rec.age \in Nat
  /\ rec.step = "write" => rec.seen \in Reported

\* From CreateProject to the end of the goroutine the row is younger than the
\* grace period, and so is the row as the reconciler listed it.
Young ==
  /\ Pending => clock <= Lag
  /\ Pending /\ status = "provisioning" => age <= clock
  /\ Pending /\ rec.listed = "provisioning" => rec.age <= clock
  /\ Provisioning => clock <= Ceiling
  /\ Provisioning /\ status = "provisioning" => age <= clock + Lag
  /\ Provisioning /\ rec.listed = "provisioning" => rec.age <= clock + Lag

\* A pass goes on with a project it listed as provisioning only after the grace
\* period, and no project it listed in another phase is provisioning again.
HandsOff ==
  /\ rec.step \in {"observe", "write"} /\ rec.listed = "provisioning" => rec.age >= Grace
  /\ rec.step # "idle" /\ rec.listed # "provisioning" => status # "provisioning"

\* The inductive invariant.
IInv == Shape /\ Reconciling /\ Young /\ HandsOff

LEMMA InitIInv == Init => IInv
<1> SUFFICES ASSUME Init PROVE IInv
  OBVIOUS
<1> USE DEF Init
<1>1. Shape
  BY DEF Shape, Pending, Provisioning, Jobs
<1>2. Reconciling
  BY DEF Reconciling, Idle
<1>3. Young
  BY TimingAssumption DEF Young, Pending, Provisioning, Jobs
<1>4. HandsOff
  BY DEF HandsOff, Idle
<1> QED
  BY <1>1, <1>2, <1>3, <1>4 DEF IInv

\* A write to the row: of a reported phase, of the fields beside it, or its end.
RowWritten ==
  /\ status # "none" /\ age' = 0
  /\ status' \in Reported \cup {"none", status}

\* A step writes an existing row or leaves the store alone.
LEMMA SucceedsStore ==
  ASSUME NEW s, Succeeds(s) PROVE UNCHANGED store \/ RowWritten
  BY DEF Succeeds, Save, UpdateProjectStatus, store, RowWritten

LEMMA FailsStore ==
  ASSUME NEW j, Fail(j) PROVE UNCHANGED store
  BY DEF Fail, Breaks, store

\* A job that works on its steps starts no other job, and none of its own.
LEMMA WorkJobs ==
  ASSUME IInv, NEW j \in Jobs, Work(j)
  PROVE  /\ todo' = [i \in Jobs |-> todo'[i]]
         /\ Provisioning' => Provisioning
         /\ UNCHANGED <<fresh, clock, process>>
<1>1. todo = [i \in Jobs |-> todo[i]]
  BY DEF IInv, Shape
<1>2. todo[j] # <<>>
  BY DEF Work, Step, Fail
<1>3. PICK e : todo' = [todo EXCEPT ![j] = e]
  BY DEF Work, Step, Fail
<1>4. todo' = [i \in Jobs |-> IF i = j THEN e ELSE todo[i]]
  BY <1>1, <1>3
<1>5. todo' = [i \in Jobs |-> todo'[i]]
  BY <1>4
<1>6. Provisioning' => Provisioning
  BY <1>2, <1>4 DEF Provisioning, Jobs
<1>7. UNCHANGED <<fresh, clock, process>>
  BY DEF Work, Step, Fail
<1> QED
  BY <1>5, <1>6, <1>7

\* A step that changes the store at most by a status write, and starts nothing,
\* keeps the invariant.
LEMMA QuietStep ==
  ASSUME IInv,
         todo' = [i \in Jobs |-> todo'[i]],
         Provisioning' => Provisioning,
         UNCHANGED <<fresh, clock, process>>,
         UNCHANGED store \/ RowWritten
  PROVE  IInv'
<1>1. Shape'
  BY DEF IInv, Shape, Pending, store, process, RowWritten
<1>2. Reconciling'
  BY DEF IInv, Reconciling, process
<1>3. Young'
  BY TimingAssumption DEF IInv, Shape, Young, Pending, store, process, Reported, RowWritten
<1>4. HandsOff'
  BY DEF IInv, HandsOff, Pending, store, process, Reported, RowWritten
<1> QED
  BY <1>1, <1>2, <1>3, <1>4 DEF IInv

LEMMA NextIInv == IInv /\ [Next]_vars => IInv'
<1> SUFFICES ASSUME IInv, [Next]_vars PROVE IInv'
  OBVIOUS
<1>0. Jobs = Handlers \cup {"creator", "boot"}
  BY DEF Jobs
<1>1. CASE CreateProject
  <2>1. Shape'
    BY <1>1 DEF CreateProject, IInv, Shape, Pending, Provisioning, process
  <2>2. Reconciling'
    BY <1>1 DEF CreateProject, IInv, Reconciling, process
  <2>3. Young'
    BY <1>1, TimingAssumption
       DEF CreateProject, IInv, Shape, Young, Pending, Provisioning, process, Idle
  <2>4. HandsOff'
    BY <1>1 DEF CreateProject, IInv, Shape, HandsOff, process, Idle
  <2> QED
    BY <2>1, <2>2, <2>3, <2>4 DEF IInv
<1>2. CASE Dispatch
  <2>1. Shape'
    BY <1>2, <1>0 DEF Dispatch, IInv, Shape, Pending, Provisioning, store, process
  <2>2. Reconciling'
    BY <1>2 DEF Dispatch, IInv, Reconciling, process
  <2>3. Young'
    BY <1>2, <1>0, TimingAssumption
       DEF Dispatch, IInv, Shape, Reconciling, Young, Pending, Provisioning, store, process
  <2>4. HandsOff'
    BY <1>2, <1>0 DEF Dispatch, IInv, Shape, HandsOff, Pending, Provisioning, store, process
  <2> QED
    BY <2>1, <2>2, <2>3, <2>4 DEF IInv
<1>3. CASE ListProjects
  <2>1. Shape'
    BY <1>3 DEF ListProjects, IInv, Shape, Pending, Provisioning, store, jobs
  <2>2. Reconciling'
    BY <1>3 DEF ListProjects, Listed, IInv, Shape, Reconciling
  <2>3. Young'
    BY <1>3 DEF ListProjects, Listed, IInv, Shape, Young, Pending, Provisioning, store, jobs
  <2>4. HandsOff'
    BY <1>3 DEF ListProjects, Listed, HandsOff, store
  <2> QED
    BY <2>1, <2>2, <2>3, <2>4 DEF IInv
<1>4. CASE EnsureEdgeNetworking \/ ObserveStatus
  <2>1. /\ UNCHANGED <<store, jobs, up>>
        /\ rec.step \in {"listed", "observe"} /\ rec'.step \in {"observe", "write"}
        /\ rec'.listed = rec.listed /\ rec'.age = rec.age
    BY <1>4 DEF EnsureEdgeNetworking, ObserveStatus, IInv, Reconciling
  <2>2. Reconciling'
    BY <1>4 DEF EnsureEdgeNetworking, ObserveStatus, Observed, IInv, Reconciling, Reported
  <2>3. Shape'
    BY <2>1 DEF IInv, Shape, Pending, Provisioning, store, jobs, Idle
  <2>4. Young'
    BY <2>1 DEF IInv, Young, Pending, Provisioning, store, jobs
  <2>5. rec.listed = "provisioning" => rec.age >= Grace
    BY <1>4, TimingAssumption
       DEF EnsureEdgeNetworking, ObserveStatus, Owned, IInv, HandsOff, Reconciling
  <2>6. HandsOff'
    BY <2>1, <2>5 DEF IInv, HandsOff, store
  <2> QED
    BY <2>2, <2>3, <2>4, <2>6 DEF IInv
<1>5. CASE WriteStatus \/ Skip
  <2>1. /\ UNCHANGED <<jobs, up>> /\ rec' = Idle
        /\ \/ UNCHANGED store
           \/ status # "none" /\ status' \in Reported /\ age' = 0
    BY <1>5 DEF WriteStatus, Skip, UpdateProjectStatus, IInv, Reconciling
  <2>2. Shape'
    BY <2>1 DEF IInv, Shape, Pending, Provisioning, store, jobs
  <2>3. Reconciling' /\ HandsOff'
    BY <2>1 DEF Reconciling, HandsOff, Idle
  <2>4. Young'
    BY <2>1, TimingAssumption
       DEF IInv, Shape, Young, Pending, Provisioning, store, jobs, Reported, Idle
  <2> QED
    BY <2>2, <2>3, <2>4 DEF IInv
<1>6. CASE Tick
  <2> USE <1>6 DEF Tick, Aging
  <2>1. /\ rec'.step = rec.step /\ rec'.listed = rec.listed /\ rec'.seen = rec.seen
        /\ rec'.age = IF rec.listed = "provisioning" /\ rec.age < Grace
                      THEN rec.age + 1 ELSE rec.age
        /\ rec.listed # "provisioning" => rec' = rec
    BY DEF IInv, Reconciling
  <2>2. Shape'
    BY <2>1 DEF IInv, Shape, Pending, Provisioning, Idle
  <2>3. Reconciling'
    BY <2>1 DEF IInv, Reconciling
  <2>4. Young'
    BY <2>1, TimingAssumption DEF IInv, Shape, Reconciling, Young, Pending, Provisioning
  <2>5. HandsOff'
    BY <2>1, TimingAssumption DEF IInv, Reconciling, HandsOff
  <2> QED
    BY <2>2, <2>3, <2>4, <2>5 DEF IInv
<1>7. ASSUME NEW c \in Services, HealthCheck(c) \/ ContainerDies(c) PROVE IInv'
  BY <1>7, QuietStep
     DEF HealthCheck, ContainerDies, IInv, Shape, Provisioning, store, jobs
<1>8. CASE Crash
  <2>1. ~Provisioning' /\ ~Pending'
    BY <1>8, <1>0 DEF Crash, Pending, Provisioning
  <2>2. Shape'
    BY <1>8, <2>1 DEF Crash, IInv, Shape, Pending, store, Idle
  <2>3. Reconciling'
    BY <1>8 DEF Crash, Reconciling, Idle
  <2>4. Young' /\ HandsOff'
    BY <1>8, <2>1 DEF Crash, Young, HandsOff, Idle
  <2> QED
    BY <2>2, <2>3, <2>4 DEF IInv
<1>9. CASE Restart
  <2>1. Provisioning' <=> Provisioning
    BY <1>9, <1>0 DEF Restart, IInv, Shape, Provisioning
  <2>2. Shape'
    BY <1>9, <1>0, <2>1 DEF Restart, IInv, Shape, Pending, store
  <2>3. Reconciling'
    BY <1>9 DEF Restart, IInv, Reconciling
  <2>4. Young' /\ HandsOff'
    BY <1>9, <2>1 DEF Restart, IInv, Young, HandsOff, Pending, store
  <2> QED
    BY <2>2, <2>3, <2>4 DEF IInv
<1>10. ASSUME NEW h \in Handlers, Request(h) PROVE IInv'
  <2>1. h # "creator" /\ h # "project"
    BY HandlersAssumption
  <2>2. Provisioning' <=> Provisioning
    BY <1>10, <1>0, <2>1 DEF Request, IInv, Shape, Provisioning
  <2>3. Pending' <=> Pending
    BY <1>10, <2>1 DEF Request, Pending
  <2>4. Shape'
    BY <1>10, <2>1, <2>2, <2>3 DEF Request, IInv, Shape, store, process
  <2>5. Reconciling'
    BY <1>10 DEF Request, IInv, Reconciling, process
  <2>6. Young' /\ HandsOff'
    BY <1>10, <2>2, <2>3 DEF Request, IInv, Young, HandsOff, store, process
  <2> QED
    BY <2>4, <2>5, <2>6 DEF IInv
<1>11. ASSUME NEW j \in Jobs, Work(j) PROVE IInv'
  <2>1. CASE Step(j)
    <3>1. UNCHANGED store \/ RowWritten
      BY <2>1, SucceedsStore DEF Step
    <3> QED
      BY <1>11, <3>1, WorkJobs, QuietStep
  <2>2. CASE Fail(j)
    BY <1>11, <2>2, FailsStore, WorkJobs, QuietStep
  <2> QED
    BY <1>11, <2>1, <2>2 DEF Work
<1>12. CASE UNCHANGED vars
  BY <1>12, QuietStep
     DEF vars, IInv, Shape, Provisioning, store, jobs, process
<1> QED
  BY <1>1, <1>2, <1>3, <1>4, <1>5, <1>6, <1>7, <1>8, <1>9, <1>10, <1>11, <1>12
     DEF Next, Reconcile

LEMMA AlwaysIInv == Spec => []IInv
  BY InitIInv, NextIInv, PTL DEF Spec

\* The reconciler's write never hits a project in the hands of its provisioning
\* goroutine: Reconcile skips it for provisionGracePeriod, which outlasts the
\* ceiling of provisionNewProject, and a pass that listed it in another phase
\* cannot find it provisioning again.
THEOREM GoroutineOwnsItsStatus == Spec => GoroutineOwnsStatus
<1> DEFINE A == rec.step = "write" /\ up' /\ rec' = Idle /\ status' # status
                  => ~(Provisioning /\ status = "provisioning")
<1>1. IInv => [A]_vars
  BY TimingAssumption DEF IInv, Shape, Reconciling, Young, HandsOff
<1> QED
  BY <1>1, AlwaysIInv, PTL DEF GoroutineOwnsStatus

\* Only createProjectHandler makes a row: UpdateProjectStatus and the other updates
\* fail with ErrNotFound, so no late step of a goroutine, a handler, the startup
\* sync or a stale pass of the reconciler brings a destroyed project back.
THEOREM DestroyedStaysDestroyed == Spec => DestroyIsFinal
<1> DEFINE A == status = "none" /\ "project" \notin fresh => status' = "none"
<1>1. [Next]_vars => [A]_vars
  <2> SUFFICES ASSUME Next, status = "none", "project" \notin fresh
               PROVE  status' = "none"
    OBVIOUS
  <2>1. ~CreateProject
    BY DEF CreateProject
  <2>2. CASE Dispatch \/ Tick \/ Crash \/ Restart
    BY <2>2 DEF Dispatch, Tick, Aging, Crash, Restart, store
  <2>3. CASE Reconcile
    BY <2>3 DEF Reconcile, ListProjects, Skip, EnsureEdgeNetworking,
                ObserveStatus, WriteStatus, UpdateProjectStatus, store
  <2>4. ASSUME NEW h \in Handlers, Request(h) PROVE status' = "none"
    BY <2>4 DEF Request
  <2>5. ASSUME NEW j \in Jobs, Work(j) PROVE status' = "none"
    BY <2>5, SucceedsStore, FailsStore DEF Work, Step, RowWritten, store
  <2>6. ASSUME NEW c \in Services, HealthCheck(c) \/ ContainerDies(c)
        PROVE  status' = "none"
    BY <2>6 DEF HealthCheck, ContainerDies, store
  <2> QED
    BY <2>1, <2>2, <2>3, <2>4, <2>5, <2>6 DEF Next
<1> QED
  BY <1>1, PTL DEF Spec, DestroyIsFinal

-----------------------------------------------------------------------------
(* The types, and the programs the jobs are left with.                     *)

\* Steps a job may have left: compose down is never the last one.
Sound(s) == s \in Seq(Steps) /\ \A i \in 1..Len(s) : s[i] = "down" => i < Len(s)

LEMMA Joined ==
  ASSUME NEW s, NEW t, Sound(s), Sound(t)
  PROVE  Sound(s \o t)
<1>1. s \o t \in Seq(Steps) /\ Len(s \o t) = Len(s) + Len(t)
  BY DEF Sound
<1>2. \A i \in 1..Len(s \o t) : (s \o t)[i] = IF i <= Len(s) THEN s[i] ELSE t[i - Len(s)]
  BY DEF Sound
<1> QED
  BY <1>1, <1>2 DEF Sound

LEMMA TailSound ==
  ASSUME NEW s, Sound(s), s # <<>>
  PROVE  Sound(Tail(s)) /\ Head(s) \in Steps
<1>1. Tail(s) \in Seq(Steps) /\ Len(Tail(s)) = Len(s) - 1 /\ Head(s) \in Steps
  BY DEF Sound
<1>2. \A i \in 1..Len(Tail(s)) : Tail(s)[i] = s[i + 1]
  BY DEF Sound
<1> QED
  BY <1>1, <1>2 DEF Sound

LEMMA RestSound ==
  ASSUME NEW s, Sound(s), s # <<>>
  PROVE  Sound(Rest(s))
<1>1. CASE Head(s) = "down"
  <2>1. Len(s) > 1
    BY <1>1 DEF Sound
  <2>2. Tail(s) # <<>>
    <3>1. Len(Tail(s)) = Len(s) - 1 /\ Len(s) \in Nat
      BY DEF Sound
    <3>2. Len(<<>>) = 0
      OBVIOUS
    <3>3. Len(Tail(s)) # 0
      BY <2>1, <3>1
    <3> QED
      BY <3>2, <3>3, Zenon
  <2>3. Sound(Tail(s))
    BY TailSound
  <2>4. Sound(Tail(Tail(s)))
    BY <2>2, <2>3, TailSound
  <2>5. Rest(s) \in {Tail(s), Tail(Tail(s))}
    BY Zenon DEF Rest
  <2> QED
    BY <2>3, <2>4, <2>5
<1>2. CASE Head(s) # "down"
  <2>1. Rest(s) = Tail(s)
    BY <1>2, Zenon DEF Rest
  <2> QED
    BY <2>1, TailSound
<1> QED
  BY <1>1, <1>2

LEMMA Empty == Sound(<<>>)
  BY DEF Sound

LEMMA Singles == \A c \in Calls : Sound(<<c>>)
<1> SUFFICES ASSUME NEW c \in Calls PROVE Sound(<<c>>)
  OBVIOUS
<1>1. c \in Steps /\ c # "down"
  BY DEF Steps, Calls, Reported
<1> QED
  BY <1>1 DEF Sound

LEMMA NextRoundSound ==
  ASSUME NEW s, Sound(s)
  PROVE  Sound(NextRound(s))
<1>1. CASE Len(s) > 3
  <2> DEFINE r == SubSeq(s, Len(s) - 2, Len(s))
  <2>1. r \in Seq(Steps) /\ Len(r) = 3 /\ \A i \in 1..3 : r[i] = s[i + Len(s) - 3]
    BY <1>1 DEF Sound
  <2>2. Sound(r)
    <3> HIDE DEF r
    <3> QED
      BY <1>1, <2>1 DEF Sound
  <2> QED
    BY <1>1, <2>2 DEF NextRound
<1>2. CASE ~(Len(s) > 3)
  BY <1>2, Empty DEF NextRound
<1> QED
  BY <1>1, <1>2

\* Short programs, step by step.
LEMMA Two ==
  ASSUME NEW a \in Steps, NEW b \in Steps, b # "down"
  PROVE  Sound(<<a, b>>)
BY DEF Sound

LEMMA Three ==
  ASSUME NEW a \in Steps, NEW b \in Steps, NEW c \in Steps, c # "down"
  PROVE  Sound(<<a, b, c>>)
BY DEF Sound

LEMMA Five ==
  ASSUME NEW a \in Steps, NEW b \in Steps, NEW c \in Steps, NEW d \in Steps, NEW e \in Steps,
         d # "down", e # "down"
  PROVE  Sound(<<a, b, c, d, e>>)
BY DEF Sound

LEMMA Parts ==
  /\ Sound(Create) /\ Sound(SyncSecrets) /\ Sound(SyncServices) /\ Sound(Upgrade)
  /\ Sound(Scale) /\ Sound(Pause) /\ Sound(Resume)
  /\ Sound(<<"list">>) /\ Sound(<<"touch">>) /\ Sound(<<"healthy">>) /\ Sound(<<"paused">>)
  /\ Sound(<<"route", "healthy">>) /\ Sound(<<"unroute", "delete">>)
  /\ Sound(DestroyWithOptions)
<1>1. /\ "mkdir" \in Steps /\ "create" \in Steps /\ "network" \in Steps /\ "up db" \in Steps
      /\ "up" \in Steps /\ "render" \in Steps /\ "stop" \in Steps /\ "set paused" \in Steps
      /\ "set running" \in Steps /\ "down" \in Steps /\ "sweep" \in Steps
      /\ "rmdir" \in Steps /\ "unroute" \in Steps
  BY DEF Steps
<1>2. /\ "list" \in Calls /\ "touch" \in Calls /\ "healthy" \in Calls /\ "paused" \in Calls
      /\ "route" \in Calls /\ "delete" \in Calls
  BY DEF Calls, Reported
<1>3. Calls \subseteq Steps
  BY DEF Steps
<1>4. Sound(<<"mkdir", "create", "network", "up db", "up">>)
  BY <1>1, Five
<1>5. Sound(<<"render", "up">>) /\ Sound(<<"stop", "set paused">>) /\ Sound(<<"up", "set running">>)
  BY <1>1, Two
<1>6. Sound(<<"route", "healthy">>) /\ Sound(<<"unroute", "delete">>)
  BY <1>1, <1>2, <1>3, Two
<1>7. Sound(<<"down", "sweep", "rmdir">>)
  BY <1>1, Three
<1> QED
  BY <1>2, <1>4, <1>5, <1>6, <1>7, Singles, Zenon
     DEF Create, SyncSecrets, SyncServices, Upgrade, Scale, Pause, Resume, DestroyWithOptions

LEMMA Programs ==
  \A k \in RequestKinds \cup {"create", "sync"} : Sound(Program(k))
<1>1. Sound(provisionNewProject)
  BY Parts, Joined DEF provisionNewProject
<1>2. Sound(reconcileExistingProjectRuntime)
  BY Parts, Joined DEF reconcileExistingProjectRuntime
<1>3. Sound(lifecycleHandler("paused")) /\ Sound(lifecycleHandler("healthy"))
  BY Parts, Joined DEF lifecycleHandler
<1>4. Sound(restartHandler)
  BY Parts, Joined DEF restartHandler
<1>5. Sound(updateProjectServicesHandler)
  BY Parts, Joined DEF updateProjectServicesHandler
<1>6. Sound(scaleProjectHandler)
  BY Parts, Joined DEF scaleProjectHandler
<1>7. Sound(upgradeProjectHandler)
  BY Parts, Joined DEF upgradeProjectHandler
<1>8. Sound(destroyProjectHandler)
  BY Parts, Joined DEF destroyProjectHandler
<1>9. \A k \in RequestKinds \cup {"create", "sync"} :
        Program(k) \in {provisionNewProject, reconcileExistingProjectRuntime,
                        lifecycleHandler("paused"), lifecycleHandler("healthy"), restartHandler,
                        updateProjectServicesHandler, scaleProjectHandler,
                        upgradeProjectHandler, destroyProjectHandler}
  <2> HIDE DEF provisionNewProject
  <2> QED
    BY Zenon DEF Program, RequestKinds
<1> QED
  BY <1>1, <1>2, <1>3, <1>4, <1>5, <1>6, <1>7, <1>8, <1>9

LEMMA Rescued ==
  ASSUME NEW k, NEW s, Sound(s), s # <<>>
  PROVE  Sound(Rescue(k, s))
<1>1. Rescue(k, s) \in {NextRound(s), <<>>, <<"error">>, <<"degraded">> \o NextRound(s), Upgrade}
  BY Zenon DEF Rescue
<1>2. Sound(<<"error">>) /\ Sound(<<"degraded">>)
  BY Singles DEF Calls, Reported
<1>3. Sound(<<"degraded">> \o NextRound(s))
  BY <1>2, NextRoundSound, Joined
<1> QED
  BY <1>1, <1>2, <1>3, Parts, Empty, NextRoundSound

\* The store and the runtime have their types.
StoreTyped == status \in Phases \cup {"none"} /\ age \in 0..Grace

RuntimeTyped ==
  /\ dir \in {"none", "partial", "rendered"} /\ desired \in {"running", "paused"}
  /\ live \in [Services -> {"none", "starting", "running", "exited"}] /\ net \in BOOLEAN

\* What a job has left is sound, and a request that is still to be made has
\* nothing left and is one of the requests.
JobsTyped ==
  /\ todo = [j \in Jobs |-> todo[j]] /\ \A j \in Jobs : Sound(todo[j])
  /\ kind \in [Jobs -> RequestKinds \cup {"create", "sync", "rollback", "failed"}]
  /\ \A h \in fresh \cap Handlers : kind[h] \in RequestKinds /\ todo[h] = <<>>
  /\ fresh \subseteq Jobs \cup {"project"}
  /\ clock \in 0..(Lag + Ceiling)

\* What the reconciler writes it has observed.
ReconcilerTyped ==
  /\ rec \in [step : {"idle", "listed", "observe", "write"},
              listed : Phases \cup {"none"}, age : 0..Grace, seen : Reported \cup {"none"}]
  /\ rec.step = "write" => rec.seen \in Reported

PlaneTyped == up \in BOOLEAN /\ faults \in 0..MaxFaults

\* The invariant of the types.
Typed == StoreTyped /\ RuntimeTyped /\ JobsTyped /\ ReconcilerTyped /\ PlaneTyped

LEMMA InitTyped == Init => Typed
<1> SUFFICES ASSUME Init PROVE Typed
  OBVIOUS
<1>1. StoreTyped /\ PlaneTyped
  BY TimingAssumption, BoundsAssumption DEF Init, StoreTyped, PlaneTyped
<1>2. RuntimeTyped
  BY DEF Init, RuntimeTyped, Gone
<1>3. ReconcilerTyped
  BY TimingAssumption DEF Init, ReconcilerTyped, Idle
<1>4. JobsTyped
  <2>1. \A j \in Jobs : Sound(todo[j])
    BY Programs, Empty DEF Init
  <2>2. kind \in [Jobs -> RequestKinds \cup {"create", "sync", "rollback", "failed"}]
    BY KindsAssumption DEF Init
  <2>3. \A h \in fresh \cap Handlers : kind[h] \in RequestKinds /\ todo[h] = <<>>
    BY KindsAssumption, HandlersAssumption DEF Init, Jobs
  <2>4. todo = [j \in Jobs |-> todo[j]] /\ fresh \subseteq Jobs \cup {"project"}
    BY DEF Init, Jobs
  <2>5. clock \in 0..(Lag + Ceiling)
    BY TimingAssumption DEF Init
  <2> QED
    BY <2>1, <2>2, <2>3, <2>4, <2>5 DEF JobsTyped
<1> QED
  BY <1>1, <1>2, <1>3, <1>4 DEF Typed

\* A write gives the row a phase, or ends it, and its age begins again.
LEMMA WrittenTyped ==
  ASSUME StoreTyped, UNCHANGED store \/ RowWritten
  PROVE  StoreTyped'
  BY TimingAssumption DEF StoreTyped, store, RowWritten, Phases

LEMMA NextStoreTyped == Typed /\ [Next]_vars => StoreTyped'
<1> SUFFICES ASSUME Typed, [Next]_vars PROVE StoreTyped'
  OBVIOUS
<1>0. StoreTyped /\ ReconcilerTyped
  BY DEF Typed
<1>1. CASE CreateProject
  BY <1>1, TimingAssumption DEF CreateProject, StoreTyped, Phases
<1>2. CASE Tick
  BY <1>0, <1>2, TimingAssumption DEF Tick, Aging, StoreTyped
<1>3. CASE WriteStatus
  BY <1>0, <1>3, WrittenTyped DEF WriteStatus, UpdateProjectStatus, RowWritten, ReconcilerTyped
<1>4. CASE \/ Dispatch \/ Crash \/ Restart
           \/ ListProjects \/ Skip \/ EnsureEdgeNetworking \/ ObserveStatus
           \/ \E c \in Services : HealthCheck(c) \/ ContainerDies(c)
           \/ \E h \in Handlers : Request(h)
           \/ UNCHANGED vars
  <2>1. UNCHANGED store
    BY <1>4 DEF Dispatch, Crash, Restart, ListProjects, Skip, EnsureEdgeNetworking,
                ObserveStatus, HealthCheck, ContainerDies, Request, vars
  <2> QED
    BY <1>0, <2>1, WrittenTyped
<1>5. ASSUME NEW j \in Jobs, Work(j) PROVE StoreTyped'
  <2>1. UNCHANGED store \/ RowWritten
    BY <1>5, SucceedsStore, FailsStore DEF Work, Step
  <2> QED
    BY <1>0, <2>1, WrittenTyped
<1> QED
  BY <1>1, <1>2, <1>3, <1>4, <1>5 DEF Next, Reconcile

LEMMA StartedIsUp == \A s : Started(s) \in {"starting", "running"}
  BY DEF Started

LEMMA SucceedsRuntime ==
  ASSUME RuntimeTyped, NEW s, Succeeds(s)
  PROVE  RuntimeTyped'
<1>1. CASE Files(s) /\ UNCHANGED <<store, live, net>>
  BY <1>1 DEF Files, RuntimeTyped
<1>2. CASE (Docker(s) \/ Teardown(s)) /\ UNCHANGED <<store, dir, desired>>
  <2>1. live' \in [Services -> {"none", "starting", "running", "exited"}]
    BY <1>2 DEF Docker, Teardown, RuntimeTyped, Started, Gone
  <2>2. net' \in BOOLEAN
    BY <1>2, Zenon DEF Docker, Teardown, RuntimeTyped
  <2> QED
    BY <1>2, <2>1, <2>2 DEF RuntimeTyped
<1>3. CASE UNCHANGED runtime
  BY <1>3 DEF runtime, RuntimeTyped
<1> QED
  BY <1>1, <1>2, <1>3 DEF Succeeds

LEMMA FailsRuntime ==
  ASSUME RuntimeTyped, NEW j, Fail(j)
  PROVE  RuntimeTyped'
<1>1. CASE UNCHANGED <<store, runtime, faults>>
  BY <1>1 DEF runtime, RuntimeTyped
<1>2. CASE Breaks(Head(todo[j]))
  <2>1. live' = live \/ live' = [live EXCEPT !["db"] = Started("db")]
    BY <1>2, Zenon DEF Breaks
  <2>2. live' \in [Services -> {"none", "starting", "running", "exited"}]
    BY <2>1, StartedIsUp DEF RuntimeTyped
  <2>3. UNCHANGED <<dir, desired, net>>
    BY <1>2 DEF Breaks
  <2> QED
    BY <2>2, <2>3 DEF RuntimeTyped
<1> QED
  BY <1>1, <1>2 DEF Fail

LEMMA NextRuntimeTyped == RuntimeTyped /\ [Next]_vars => RuntimeTyped'
<1> SUFFICES ASSUME RuntimeTyped, [Next]_vars PROVE RuntimeTyped'
  OBVIOUS
<1>1. CASE EnsureEdgeNetworking
  BY <1>1, Zenon DEF EnsureEdgeNetworking, RuntimeTyped
<1>2. CASE Restart
  <2>1. UNCHANGED <<dir, desired, live>> /\ net' \in BOOLEAN
    BY <1>2 DEF Restart
  <2> QED
    BY <2>1 DEF RuntimeTyped
<1>3. ASSUME NEW c \in Services, HealthCheck(c) \/ ContainerDies(c) PROVE RuntimeTyped'
  BY <1>3 DEF HealthCheck, ContainerDies, RuntimeTyped
<1>4. ASSUME NEW j \in Jobs, Work(j) PROVE RuntimeTyped'
  BY <1>4, SucceedsRuntime, FailsRuntime DEF Work, Step
<1>5. CASE \/ CreateProject \/ Dispatch \/ Tick \/ Crash
           \/ ListProjects \/ Skip \/ ObserveStatus \/ WriteStatus
           \/ \E h \in Handlers : Request(h)
           \/ UNCHANGED vars
  <2>1. UNCHANGED runtime
    BY <1>5 DEF CreateProject, Dispatch, Tick, Aging, Crash, ListProjects, Skip,
                ObserveStatus, WriteStatus, Request, vars
  <2> QED
    BY <2>1 DEF runtime, RuntimeTyped
<1> QED
  BY <1>1, <1>2, <1>3, <1>4, <1>5 DEF Next, Reconcile

\* A job goes on, or is given its program: the others stay.
LEMMA OneJob ==
  ASSUME JobsTyped, NEW j \in Jobs, NEW s, Sound(s), todo' = [todo EXCEPT ![j] = s]
  PROVE  /\ todo' = [i \in Jobs |-> todo'[i]]
         /\ \A i \in Jobs : Sound(todo'[i]) /\ (i # j => todo'[i] = todo[i])
<1>1. todo' = [i \in Jobs |-> IF i = j THEN s ELSE todo[i]]
  BY DEF JobsTyped
<1> QED
  BY <1>1 DEF JobsTyped

LEMMA NextJobsTyped == JobsTyped /\ [Next]_vars => JobsTyped'
<1> SUFFICES ASSUME JobsTyped, [Next]_vars PROVE JobsTyped'
  OBVIOUS
<1>0. /\ Jobs = Handlers \cup {"creator", "boot"}
      /\ "creator" \notin Handlers /\ "boot" \notin Handlers
  BY HandlersAssumption DEF Jobs
<1>1. CASE CreateProject
  <2>1. fresh' \subseteq fresh /\ UNCHANGED <<todo, kind>>
    BY <1>1 DEF CreateProject
  <2>2. clock' \in 0..(Lag + Ceiling)
    BY <1>1, TimingAssumption DEF CreateProject
  <2> QED
    BY <2>1, <2>2 DEF JobsTyped
<1>2. CASE Dispatch
  <2>1. fresh' \subseteq fresh /\ clock' \in 0..(Lag + Ceiling) /\ kind' = kind
    BY <1>2, TimingAssumption DEF Dispatch
  <2>2. CASE todo' = todo
    BY <2>1, <2>2 DEF JobsTyped
  <2>3. CASE todo' = [todo EXCEPT !["creator"] = Program("create")]
    <3>1. /\ todo' = [i \in Jobs |-> todo'[i]]
          /\ \A i \in Jobs : Sound(todo'[i]) /\ (i # "creator" => todo'[i] = todo[i])
      BY <1>0, <2>3, Programs, OneJob
    <3> QED
      BY <1>0, <2>1, <3>1 DEF JobsTyped
  <2> QED
    BY <1>2, <2>2, <2>3 DEF Dispatch
<1>3. CASE Tick
  <2>1. clock' \in 0..(Lag + Ceiling)
    BY <1>3, TimingAssumption DEF Tick, Aging, JobsTyped
  <2> QED
    BY <1>3, <2>1 DEF Tick, Aging, JobsTyped
<1>4. CASE Crash
  <2>1. todo' = [j \in Jobs |-> <<>>] /\ fresh' \subseteq fresh /\ UNCHANGED <<kind, clock>>
    BY <1>4 DEF Crash
  <2>2. \A j \in Jobs : todo'[j] = <<>>
    BY <2>1
  <2>3. todo' = [j \in Jobs |-> todo'[j]]
    BY <2>1
  <2> QED
    BY <1>0, <2>1, <2>2, <2>3, Empty DEF JobsTyped
<1>5. CASE Restart
  <2>1. /\ todo' = [i \in Jobs |-> todo'[i]]
        /\ \A i \in Jobs : Sound(todo'[i]) /\ (i # "boot" => todo'[i] = todo[i])
    BY <1>0, <1>5, Programs, OneJob DEF Restart
  <2>2. kind' = [kind EXCEPT !["boot"] = "sync"] /\ UNCHANGED <<fresh, clock>>
    BY <1>5 DEF Restart
  <2>3. kind' \in [Jobs -> RequestKinds \cup {"create", "sync", "rollback", "failed"}]
    BY <2>2 DEF JobsTyped
  <2>4. \A h \in Handlers : kind'[h] = kind[h]
    BY <1>0, <2>2 DEF JobsTyped
  <2> QED
    BY <1>0, <2>1, <2>2, <2>3, <2>4 DEF JobsTyped
<1>6. ASSUME NEW h \in Handlers, Request(h) PROVE JobsTyped'
  <2>1. h \in Jobs /\ Sound(Program(kind[h]))
    BY <1>0, <1>6, Programs DEF Request, JobsTyped
  <2>2. /\ todo' = [i \in Jobs |-> todo'[i]]
        /\ \A i \in Jobs : Sound(todo'[i]) /\ (i # h => todo'[i] = todo[i])
    BY <1>6, <2>1, OneJob DEF Request
  <2>3. fresh' = fresh \ {h} /\ UNCHANGED <<kind, clock>>
    BY <1>6 DEF Request
  <2> QED
    BY <1>0, <2>2, <2>3 DEF JobsTyped
<1>7. ASSUME NEW j \in Jobs, Step(j) PROVE JobsTyped'
  <2>1. Sound(Rest(todo[j])) /\ todo[j] # <<>>
    BY <1>7, RestSound DEF Step, JobsTyped
  <2>2. /\ todo' = [i \in Jobs |-> todo'[i]]
        /\ \A i \in Jobs : Sound(todo'[i]) /\ (i # j => todo'[i] = todo[i])
    BY <1>7, <2>1, OneJob DEF Step
  <2>3. UNCHANGED <<kind, fresh, clock>>
    BY <1>7 DEF Step
  <2> QED
    BY <1>0, <2>1, <2>2, <2>3 DEF JobsTyped
<1>8. ASSUME NEW j \in Jobs, Fail(j) PROVE JobsTyped'
  <2>1. Sound(Rescue(kind[j], todo[j])) /\ todo[j] # <<>>
    BY <1>8, Rescued DEF Fail, JobsTyped
  <2>2. /\ todo' = [i \in Jobs |-> todo'[i]]
        /\ \A i \in Jobs : Sound(todo'[i]) /\ (i # j => todo'[i] = todo[i])
    BY <1>8, <2>1, OneJob DEF Fail
  <2>3. kind' = [kind EXCEPT ![j] = AfterFailure(kind[j])] /\ UNCHANGED <<fresh, clock>>
    BY <1>8 DEF Fail
  <2>4. AfterFailure(kind[j]) \in {"rollback", "sync", "failed"}
    BY Zenon DEF AfterFailure
  <2>5. kind' \in [Jobs -> RequestKinds \cup {"create", "sync", "rollback", "failed"}]
    BY <2>3, <2>4 DEF JobsTyped
  <2>6. \A i \in Jobs : i # j => kind'[i] = kind[i]
    BY <2>3 DEF JobsTyped
  <2> QED
    BY <1>0, <2>1, <2>2, <2>3, <2>5, <2>6 DEF JobsTyped
<1>9. CASE \/ Reconcile
           \/ \E c \in Services : HealthCheck(c) \/ ContainerDies(c)
           \/ UNCHANGED vars
  <2>1. UNCHANGED jobs
    BY <1>9 DEF Reconcile, ListProjects, Skip, EnsureEdgeNetworking, ObserveStatus,
                WriteStatus, HealthCheck, ContainerDies, vars
  <2> QED
    BY <2>1 DEF jobs, JobsTyped
<1> QED
  BY <1>1, <1>2, <1>3, <1>4, <1>5, <1>6, <1>7, <1>8, <1>9 DEF Next, Work

LEMMA NextReconcilerTyped == Typed /\ [Next]_vars => ReconcilerTyped'
<1> SUFFICES ASSUME Typed, [Next]_vars PROVE ReconcilerTyped'
  OBVIOUS
<1>0. StoreTyped /\ ReconcilerTyped
  BY DEF Typed
<1>1. CASE ListProjects
  BY <1>0, <1>1, TimingAssumption DEF ListProjects, Listed, StoreTyped, ReconcilerTyped
<1>2. CASE Skip \/ WriteStatus \/ Crash
  BY <1>2, TimingAssumption DEF Skip, WriteStatus, Crash, ReconcilerTyped, Idle
<1>3. CASE EnsureEdgeNetworking
  BY <1>0, <1>3 DEF EnsureEdgeNetworking, ReconcilerTyped
<1>4. CASE ObserveStatus
  <2>1. Observed \in Reported
    BY Zenon DEF Observed, Reported
  <2>2. PICK s \in Reported : rec' = [rec EXCEPT !.step = "write", !.seen = s]
    BY <1>4, <2>1 DEF ObserveStatus, Reported
  <2> QED
    BY <1>0, <2>2 DEF ReconcilerTyped
<1>5. CASE Tick
  BY <1>0, <1>5, TimingAssumption DEF Tick, Aging, ReconcilerTyped
<1>6. CASE \/ CreateProject \/ Dispatch \/ Restart
           \/ \E c \in Services : HealthCheck(c) \/ ContainerDies(c)
           \/ \E h \in Handlers : Request(h)
           \/ \E j \in Jobs : Work(j)
           \/ UNCHANGED vars
  <2>1. rec' = rec
    BY <1>6 DEF CreateProject, Dispatch, Restart, HealthCheck, ContainerDies, Request,
                Work, Step, Fail, process, vars
  <2> QED
    BY <1>0, <2>1 DEF ReconcilerTyped
<1> QED
  BY <1>1, <1>2, <1>3, <1>4, <1>5, <1>6 DEF Next, Reconcile

LEMMA NextPlaneTyped == PlaneTyped /\ [Next]_vars => PlaneTyped'
<1> SUFFICES ASSUME PlaneTyped, [Next]_vars PROVE PlaneTyped'
  OBVIOUS
<1>1. \/ /\ UNCHANGED up
         /\ \/ UNCHANGED faults
            \/ faults < MaxFaults /\ faults' = faults + 1
      \/ Crash \/ Restart
  <2>1. CASE \/ CreateProject \/ Dispatch \/ Tick
             \/ \E h \in Handlers : Request(h)
             \/ UNCHANGED vars
    BY <2>1 DEF CreateProject, Dispatch, Tick, Aging, Request, process, vars
  <2>2. CASE Reconcile
    BY <2>2 DEF Reconcile, ListProjects, Skip, EnsureEdgeNetworking, ObserveStatus, WriteStatus
  <2>3. CASE \E c \in Services : HealthCheck(c) \/ ContainerDies(c)
    BY <2>3 DEF HealthCheck, ContainerDies, process
  <2>4. CASE \E j \in Jobs : Work(j)
    BY <2>4 DEF Work, Step, Fail, Breaks, process
  <2> QED
    BY <2>1, <2>2, <2>3, <2>4 DEF Next
<1>2. faults' \in 0..MaxFaults
  BY <1>1, BoundsAssumption DEF PlaneTyped, Crash, Restart
<1>3. up' \in BOOLEAN
  BY <1>1 DEF PlaneTyped, Crash, Restart
<1> QED
  BY <1>2, <1>3 DEF PlaneTyped

\* The rows, files, containers and jobs keep their types, whatever the requests,
\* failures and crashes; a job is never left with a compose down as its last step,
\* the one Rest takes two steps off.
THEOREM RuntimeTypes == Spec => []TypeOK
<1>1. Typed /\ [Next]_vars => Typed'
  BY NextStoreTyped, NextRuntimeTyped, NextJobsTyped, NextReconcilerTyped, NextPlaneTyped
     DEF Typed
<1>2. Typed => TypeOK
  <2>1. JobsTyped => todo \in [Jobs -> Seq(Steps)]
    BY DEF JobsTyped, Sound
  <2> QED
    BY <2>1, Zenon
       DEF Typed, StoreTyped, RuntimeTyped, JobsTyped, ReconcilerTyped, PlaneTyped, TypeOK
<1> QED
  BY InitTyped, <1>1, <1>2, PTL DEF Spec

-----------------------------------------------------------------------------
(* How the services come up: rolling the gateway is not an outage.         *)

\* A container is a record.
IsContainer(c) ==
  c = [template |-> c.template, wait |-> c.wait, state |-> c.state, routes |-> c.routes]

\* Every service has at most two containers, the one it has and the one that
\* replaces it, and these are of different templates; only Compose has commands.
Placed ==
  /\ DOMAIN pods = StartupServices
  /\ \A s \in StartupServices :
       /\ DOMAIN pods[s] \in {{}, {1}, {1, 2}}
       /\ \A i \in DOMAIN pods[s] : IsContainer(pods[s][i])
       /\ \A i, j \in DOMAIN pods[s] :
            pods[s][i].template = pods[s][j].template => i = j
  /\ driver = "kubernetes" => command = "idle"
  /\ crashes \in Nat

\* A container of the gateway that is up and routes to auth: it is ready while
\* auth answers.
Routing == \E i \in DOMAIN pods["kong"] :
             /\ pods["kong"][i].state = "up"
             /\ "auth" \in pods["kong"][i].routes

LEMMA GatewayIsAService == "kong" \in StartupServices
  BY DEF StartupServices, AlwaysOn

LEMMA TheGatewayIsExpected == \A on : "kong" \in expectedServices(on)
  BY DEF expectedServices, AlwaysOn

\* Of at most two containers the last one is one of them.
LEMMA NewestIsOne ==
  ASSUME NEW I, I \subseteq {1, 2}, I # {}
  PROVE  Newest(I) \in I
<1>1. \E i \in I : \A j \in I : j <= i
  <2>1. CASE 2 \in I
    BY <2>1
  <2>2. CASE 2 \notin I
    <3>1. I = {1}
      BY <2>2
    <3> QED
      BY <3>1
  <2> QED
    BY <2>1, <2>2
<1> QED
  BY <1>1 DEF Newest

LEMMA LengthOfSpan ==
  ASSUME NEW f, NEW n \in Nat, DOMAIN f = 1..n
  PROVE  Len(f) = n
  OBVIOUS

\* A service that has containers has a last one.
LEMMA LastIsOne ==
  ASSUME NEW f, DOMAIN f \in {{}, {1}, {1, 2}}, DOMAIN f # {}
  PROVE  Len(f) \in DOMAIN f
<1>1. CASE DOMAIN f = {1}
  <2>1. DOMAIN f = 1..1
    BY <1>1
  <2> QED
    BY <1>1, <2>1, LengthOfSpan
<1>2. CASE DOMAIN f = {1, 2}
  <2>1. DOMAIN f = 1..2
    BY <1>2
  <2> QED
    BY <1>2, <2>1, LengthOfSpan
<1> QED
  BY <1>1, <1>2

LEMMA CreatedIsContainer ==
  ASSUME NEW s, NEW on
  PROVE  IsContainer(Created(s, on)) /\ Created(s, on).template = Template(s, on)
<1> DEFINE t == Template(s, on)
<1>1. Created(s, on) = [template |-> t, wait |-> t.deps, state |-> "waiting", routes |-> {}]
  BY Zenon DEF Created
<1> HIDE DEF t
<1>2. IsContainer(Created(s, on)) /\ Created(s, on).template = t
  BY <1>1 DEF IsContainer
<1> QED
  BY <1>2 DEF t

\* What a step makes of a container: its template stays.
Changed(c, w, x, r) == [template |-> c.template, wait |-> w, state |-> x, routes |-> r]

LEMMA ChangedIsContainer ==
  ASSUME NEW c, NEW w, NEW x, NEW r
  PROVE  /\ IsContainer(Changed(c, w, x, r))
         /\ Changed(c, w, x, r).template = c.template
<1> DEFINE t == c.template
<1>1. Changed(c, w, x, r) = [template |-> t, wait |-> w, state |-> x, routes |-> r]
  BY DEF Changed
<1> HIDE DEF t
<1>2. IsContainer(Changed(c, w, x, r)) /\ Changed(c, w, x, r).template = t
  BY <1>1 DEF IsContainer
<1> QED
  BY <1>2 DEF t

\* The steps of a container, and its accidents, change it in that way.
LEMMA PodStepsChange ==
  ASSUME Placed, NEW s \in StartupServices, NEW i \in DOMAIN pods[s],
         \/ PodStep(s, i) \/ ContainerStops(s, i) \/ LosePod(s, i)
         \/ s = "kong" /\ LivenessRestart(i)
  PROVE  \E w, x, r : /\ SetPod(s, i, Changed(pods[s][i], w, x, r))
                      /\ x \in {pods[s][i].state, "waiting", "starting", "up", "exited"}
                      /\ r \in {pods[s][i].routes, config, {}}
<1> DEFINE c == pods[s][i]
<1>1. PICK a, b, e, f : c = [template |-> a, wait |-> b, state |-> e, routes |-> f]
  <2>1. IsContainer(c)
    BY DEF Placed
  <2> QED
    BY <2>1, Zenon DEF IsContainer
<1> HIDE DEF c
<1>2. ASSUME NEW w, NEW x \in {e, "waiting", "starting", "up", "exited"}, NEW r \in {f, config, {}},
             SetPod(s, i, [template |-> a, wait |-> w, state |-> x, routes |-> r])
      PROVE  \E v, y, q : /\ SetPod(s, i, Changed(pods[s][i], v, y, q))
                          /\ y \in {pods[s][i].state, "waiting", "starting", "up", "exited"}
                          /\ q \in {pods[s][i].routes, config, {}}
  <2>1. Changed(pods[s][i], w, x, r) = [template |-> a, wait |-> w, state |-> x, routes |-> r]
    BY <1>1 DEF Changed, c
  <2>2. e = pods[s][i].state /\ f = pods[s][i].routes
    BY <1>1 DEF c
  <2> QED
    BY <1>2, <2>1, <2>2, Zenon
<1>3. CASE PassDependency(s, i)
  <2> DEFINE ws == Tail(c.wait)
  <2> HIDE DEF ws
  <2>1. [c EXCEPT !.wait = ws]
          = [template |-> a, wait |-> ws, state |-> e, routes |-> f]
    BY <1>1
  <2>2. SetPod(s, i, [c EXCEPT !.wait = ws])
    BY <1>3, Zenon DEF PassDependency, c, ws
  <2>3. SetPod(s, i, [template |-> a, wait |-> ws, state |-> e, routes |-> f])
    BY <2>1, <2>2, Zenon
  <2> QED
    BY <1>2, <2>3
<1>4. CASE StartContainer(s, i)
  <2> DEFINE rs == IF s = "kong" THEN config ELSE {}
  <2>1. [c EXCEPT !.state = "starting"]
          = [template |-> a, wait |-> b, state |-> "starting", routes |-> f]
    BY <1>1
  <2>2. [c EXCEPT !.state = "starting", !.routes = rs]
          = [[template |-> a, wait |-> b, state |-> "starting", routes |-> f] EXCEPT !.routes = rs]
    BY <2>1, Zenon
  <2>3. [c EXCEPT !.state = "starting", !.routes = rs]
          = [template |-> a, wait |-> b, state |-> "starting", routes |-> rs]
    BY <2>2
  <2>4. SetPod(s, i, [c EXCEPT !.state = "starting", !.routes = rs])
    BY <1>4, Zenon DEF StartContainer, c
  <2>5. SetPod(s, i, [template |-> a, wait |-> b, state |-> "starting", routes |-> rs])
    BY <2>3, <2>4, Zenon
  <2> QED
    BY <1>2, <2>5
<1>5. CASE ComesUp(s, i)
  <2>1. [c EXCEPT !.state = "up"]
          = [template |-> a, wait |-> b, state |-> "up", routes |-> f]
    BY <1>1
  <2>2. SetPod(s, i, [c EXCEPT !.state = "up"])
    BY <1>5, Zenon DEF ComesUp, c
  <2>3. SetPod(s, i, [template |-> a, wait |-> b, state |-> "up", routes |-> f])
    BY <2>1, <2>2, Zenon
  <2> QED
    BY <1>2, <2>3
<1>6. CASE ContainerStops(s, i)
  <2> DEFINE st == IF driver = "kubernetes" \/ s = "pooler" THEN "starting" ELSE "exited"
             rs == IF s = "kong" THEN config ELSE {}
  <2>1. [c EXCEPT !.state = st]
          = [template |-> a, wait |-> b, state |-> st, routes |-> f]
    BY <1>1
  <2>2. [c EXCEPT !.state = st, !.routes = rs]
          = [[template |-> a, wait |-> b, state |-> st, routes |-> f] EXCEPT !.routes = rs]
    BY <2>1, Zenon
  <2>3. [c EXCEPT !.state = st, !.routes = rs]
          = [template |-> a, wait |-> b, state |-> st, routes |-> rs]
    BY <2>2
  <2>4. SetPod(s, i, [c EXCEPT !.state = st, !.routes = rs])
    BY <1>6, Zenon DEF ContainerStops, c
  <2>5. SetPod(s, i, [template |-> a, wait |-> b, state |-> st, routes |-> rs])
    BY <2>3, <2>4, Zenon
  <2> QED
    BY <1>2, <2>5
<1>7. CASE LosePod(s, i)
  <2> DEFINE ws == c.template.deps
  <2> HIDE DEF ws
  <2>1. [c EXCEPT !.state = "waiting"]
          = [template |-> a, wait |-> b, state |-> "waiting", routes |-> f]
    BY <1>1
  <2>2. [c EXCEPT !.state = "waiting", !.routes = {}]
          = [[template |-> a, wait |-> b, state |-> "waiting", routes |-> f] EXCEPT !.routes = {}]
    BY <2>1, Zenon
  <2>3. [c EXCEPT !.state = "waiting", !.routes = {}]
          = [template |-> a, wait |-> b, state |-> "waiting", routes |-> {}]
    BY <2>2
  <2>4. [c EXCEPT !.state = "waiting", !.routes = {}, !.wait = ws]
          = [[template |-> a, wait |-> b, state |-> "waiting", routes |-> {}] EXCEPT !.wait = ws]
    BY <2>3, Zenon
  <2>5. [c EXCEPT !.state = "waiting", !.routes = {}, !.wait = ws]
          = [template |-> a, wait |-> ws, state |-> "waiting", routes |-> {}]
    BY <2>4
  <2>6. SetPod(s, i, [c EXCEPT !.state = "waiting", !.routes = {}, !.wait = ws])
    BY <1>7, Zenon DEF LosePod, c, ws
  <2>7. SetPod(s, i, [template |-> a, wait |-> ws, state |-> "waiting", routes |-> {}])
    BY <2>5, <2>6, Zenon
  <2> QED
    BY <1>2, <2>7
<1>8. CASE s = "kong" /\ LivenessRestart(i)
  <2>1. [c EXCEPT !.state = "starting"]
          = [template |-> a, wait |-> b, state |-> "starting", routes |-> f]
    BY <1>1
  <2>2. [c EXCEPT !.state = "starting", !.routes = config]
          = [[template |-> a, wait |-> b, state |-> "starting", routes |-> f] EXCEPT !.routes = config]
    BY <2>1, Zenon
  <2>3. [c EXCEPT !.state = "starting", !.routes = config]
          = [template |-> a, wait |-> b, state |-> "starting", routes |-> config]
    BY <2>2
  <2>4. SetPod(s, i, [c EXCEPT !.state = "starting", !.routes = config])
    BY <1>8, Zenon DEF LivenessRestart, c
  <2>5. SetPod(s, i, [template |-> a, wait |-> b, state |-> "starting", routes |-> config])
    BY <2>3, <2>4, Zenon
  <2> QED
    BY <1>2, <2>5
<1> QED
  BY <1>3, <1>4, <1>5, <1>6, <1>7, <1>8 DEF PodStep

\* A Deployment that rolls has one container or two: the last one has the new
\* template, the one before it another.
LEMMA RollHasTwo ==
  ASSUME Placed, NEW s \in StartupServices, NEW on
  PROVE  /\ DOMAIN Roll(s, on) \in {{1}, {1, 2}}
         /\ \A i \in DOMAIN Roll(s, on) : IsContainer(Roll(s, on)[i])
         /\ \A i, j \in DOMAIN Roll(s, on) :
              Roll(s, on)[i].template = Roll(s, on)[j].template => i = j
<1> DEFINE t     == Template(s, on)
           same  == {i \in DOMAIN pods[s] : pods[s][i].template = t}
           other == DOMAIN pods[s] \ same
           ready == {i \in other : ProbePasses(s, pods[s][i])}
           new   == IF same = {} THEN Created(s, on) ELSE pods[s][Newest(same)]
           left  == IF ready # {} THEN ready ELSE other
           old   == pods[s][Newest(left)]
<1>1. Roll(s, on) = IF other = {} THEN <<new>> ELSE <<old, new>>
  BY DEF Roll
<1>2. DOMAIN pods[s] \subseteq {1, 2} /\ \A i \in DOMAIN pods[s] : IsContainer(pods[s][i])
  BY DEF Placed
<1>3. IsContainer(new) /\ new.template = t
  <2>1. CASE same = {}
    BY <2>1, CreatedIsContainer
  <2>2. CASE same # {}
    <3>1. Newest(same) \in same
      BY <1>2, <2>2, NewestIsOne
    <3> QED
      BY <1>2, <2>2, <3>1
  <2> QED
    BY <2>1, <2>2
<1>4. CASE other = {}
  <2>1. Roll(s, on) = <<new>>
    BY <1>1, <1>4
  <2> HIDE DEF new
  <2> QED
    BY <1>3, <2>1
<1>5. CASE other # {}
  <2>1. left # {} /\ left \subseteq other
    BY <1>5
  <2>2. Newest(left) \in other
    <3> HIDE DEF left
    <3>1. left \subseteq {1, 2}
      BY <1>2, <2>1
    <3> QED
      BY <2>1, <3>1, NewestIsOne
  <2>3. IsContainer(old) /\ old.template # t
    BY <1>2, <2>2
  <2>4. Roll(s, on) = <<old, new>>
    BY <1>1, <1>5
  <2> HIDE DEF old, new, t
  <2> QED
    BY <1>3, <2>3, <2>4
<1> QED
  BY <1>4, <1>5

\* A change of one container leaves the others and their number as they are.
LEMMA OthersStay ==
  ASSUME Placed, NEW s \in StartupServices, NEW i, NEW c, SetPod(s, i, c)
  PROVE  /\ DOMAIN pods' = StartupServices
         /\ \A t \in StartupServices :
              /\ DOMAIN pods'[t] = DOMAIN pods[t]
              /\ \A j \in DOMAIN pods[t] : t # s \/ j # i => pods'[t][j] = pods[t][j]
  BY DEF Placed, SetPod

LEMMA InitPlaced == StartupInit => Placed
  BY StartupBoundsAssumption DEF StartupInit, Placed

LEMMA NextPlaced == Placed /\ [StartupNext]_startupVars => Placed'
<1> SUFFICES ASSUME Placed, [StartupNext]_startupVars PROVE Placed'
  OBVIOUS
<1>1. CASE UNCHANGED startupVars
  BY <1>1 DEF startupVars, Placed
<1>2. ASSUME NEW on \in SUBSET Optional, UpdateServices(on) PROVE Placed'
  BY <1>2, RuntimesAssumption DEF UpdateServices, Placed
<1>3. CASE ComposeCreate
  <2>1. \A s \in StartupServices : pods'[s] \in {<< >>, <<Created(s, spec)>>, pods[s]}
    BY <1>3 DEF ComposeCreate
  <2> QED
    BY <1>3, <2>1, CreatedIsContainer DEF ComposeCreate, Placed
<1>4. CASE ComposeUpDone \/ ComposeDone \/ ComposeFails
  BY <1>4 DEF ComposeUpDone, ComposeDone, ComposeFails, Placed
<1>5. CASE RecreateContainers
  <2>1. \A s \in StartupServices : pods'[s] \in {<<Created(s, spec)>>, pods[s]}
    BY <1>5 DEF RecreateContainers
  <2> QED
    BY <1>5, <2>1, CreatedIsContainer DEF RecreateContainers, Placed
<1>6. CASE StartPass \/ ApplyConfig \/ PassFails
  BY <1>6 DEF StartPass, ApplyConfig, PassFails, Placed
<1>7. CASE ApplyWorkloads
  <2>1. \A s \in StartupServices : pods'[s] \in {pods[s], Roll(s, pass.spec)}
    BY <1>7 DEF ApplyWorkloads
  <2> QED
    BY <1>7, <2>1, RollHasTwo DEF ApplyWorkloads, Placed
<1>8. CASE Prune
  BY <1>8 DEF Prune, Placed
<1>9. ASSUME NEW s \in StartupServices, RetireOld(s) PROVE Placed'
  <2> DEFINE c == pods[s][Len(pods[s])]
  <2>1. DOMAIN pods[s] # {}
    BY <1>9 DEF RetireOld, Placed
  <2>2. IsContainer(c)
    BY <2>1, LastIsOne DEF Placed
  <2>3. pods' = [pods EXCEPT ![s] = <<c>>] /\ UNCHANGED <<driver, command, crashes>>
    BY <1>9 DEF RetireOld
  <2> HIDE DEF c
  <2> QED
    BY <2>2, <2>3 DEF Placed
<1>10. ASSUME NEW s \in StartupServices, NEW i \in DOMAIN pods[s],
              \/ PodStep(s, i) \/ ContainerStops(s, i) \/ LosePod(s, i)
              \/ s = "kong" /\ LivenessRestart(i)
       PROVE  Placed'
  <2>1. PICK w, x, r : SetPod(s, i, Changed(pods[s][i], w, x, r))
    BY <1>10, PodStepsChange
  <2> DEFINE c == Changed(pods[s][i], w, x, r)
  <2>2. IsContainer(c) /\ c.template = pods[s][i].template
    BY ChangedIsContainer
  <2>3. SetPod(s, i, c)
    BY <2>1
  <2> HIDE DEF c
  <2>4. pods'[s][i] = c
    BY <2>3 DEF SetPod, Placed
  <2>5. \A t \in StartupServices : \A j \in DOMAIN pods[t] :
          IsContainer(pods'[t][j]) /\ pods'[t][j].template = pods[t][j].template
    BY <2>2, <2>3, <2>4, OthersStay DEF Placed
  <2>6. UNCHANGED <<driver, command>> /\ crashes' \in Nat
    <3>1. UNCHANGED <<driver, command>> /\ crashes' \in {crashes, crashes + 1}
      BY <1>10 DEF PodStep, PassDependency, StartContainer, ComesUp, ContainerStops, LosePod,
                   LivenessRestart
    <3> QED
      BY <3>1 DEF Placed
  <2> QED
    BY <2>3, <2>5, <2>6, OthersStay DEF Placed
<1> QED
  BY <1>1, <1>2, <1>3, <1>4, <1>5, <1>6, <1>7, <1>8, <1>9, <1>10, GatewayIsAService
     DEF StartupNext, ComposeStep, OperatorStep

LEMMA AlwaysPlaced == StartupSpec => []Placed
<1> QED
  BY InitPlaced, NextPlaced, PTL DEF StartupSpec

\* Besides the containers everything has its type; what belongs to the other
\* driver rests.
ControlTyped ==
  /\ driver \in Runtimes /\ spec \subseteq Optional /\ config \subseteq Optional
  /\ command \in {"idle", "up", "start", "recreate", "restart"}
  /\ pass = [step |-> pass.step, spec |-> pass.spec]
  /\ pass.step \in {"rest", "config", "workloads", "prune"} /\ pass.spec \subseteq Optional
  /\ driver = "compose" => pass = Resting
  /\ requests \in 0..MaxRequests /\ crashes \in 0..MaxCrashes

ContainerTyped(c) ==
  c.state \in {"waiting", "starting", "up", "exited"} /\ c.routes \subseteq Optional

\* Compose keeps one container of a service.
PodsTyped ==
  \A s \in StartupServices :
    /\ driver = "compose" => DOMAIN pods[s] \in {{}, {1}}
    /\ \A i \in DOMAIN pods[s] : ContainerTyped(pods[s][i])

LEMMA InitStartupTyped == StartupInit => ControlTyped /\ PodsTyped
<1> SUFFICES ASSUME StartupInit PROVE ControlTyped /\ PodsTyped
  OBVIOUS
<1>1. config \subseteq Optional
  BY DEF StartupInit, writeKongConfigFile
<1>2. requests \in 0..MaxRequests /\ crashes \in 0..MaxCrashes
  BY StartupBoundsAssumption DEF StartupInit
<1>3. ControlTyped
  BY <1>1, <1>2 DEF StartupInit, ControlTyped, Resting
<1>4. PodsTyped
  BY DEF StartupInit, PodsTyped
<1> QED
  BY <1>3, <1>4

LEMMA NextControlTyped == ControlTyped /\ [StartupNext]_startupVars => ControlTyped'
<1> SUFFICES ASSUME ControlTyped, [StartupNext]_startupVars PROVE ControlTyped'
  OBVIOUS
<1>1. CASE UNCHANGED startupVars
  BY <1>1 DEF startupVars, ControlTyped, Resting
<1>2. ASSUME NEW on \in SUBSET Optional, UpdateServices(on) PROVE ControlTyped'
  <2>1. requests' \in 0..MaxRequests
    BY <1>2, StartupBoundsAssumption DEF UpdateServices, ControlTyped
  <2>2. config' \subseteq Optional /\ command' \in {command, "up"}
    BY <1>2 DEF UpdateServices, ControlTyped, writeKongConfigFile
  <2> QED
    BY <1>2, <2>1, <2>2 DEF UpdateServices, ControlTyped, Resting
<1>3. CASE ComposeStep
  BY <1>3 DEF ComposeStep, ComposeCreate, ComposeUpDone, RecreateContainers, ComposeDone,
              ComposeFails, ControlTyped, Resting
<1>4. CASE StartPass \/ Prune
  BY <1>4, RuntimesAssumption DEF StartPass, Prune, ControlTyped, Resting
<1>5. CASE ApplyConfig
  <2>1. config' \subseteq Optional
    BY <1>5 DEF ApplyConfig, ControlTyped, kongKubernetesDeclarativeConfig
  <2>2. pass' = [step |-> "workloads", spec |-> pass.spec] /\ driver # "compose"
    BY <1>5 DEF ApplyConfig, ControlTyped, Resting
  <2> QED
    BY <1>5, <2>1, <2>2 DEF ApplyConfig, ControlTyped
<1>6. CASE ApplyWorkloads
  <2>1. pass' = [step |-> "prune", spec |-> pass.spec] /\ driver # "compose"
    BY <1>6 DEF ApplyWorkloads, ControlTyped, Resting
  <2> QED
    BY <1>6, <2>1 DEF ApplyWorkloads, ControlTyped
<1>7. CASE PassFails
  <2>1. crashes' \in 0..MaxCrashes
    BY <1>7, StartupBoundsAssumption DEF PassFails, ControlTyped
  <2> QED
    BY <1>7, <2>1 DEF PassFails, ControlTyped, Resting
<1>8. ASSUME NEW s \in StartupServices, RetireOld(s) PROVE ControlTyped'
  BY <1>8 DEF RetireOld, ControlTyped, Resting
<1>9. ASSUME NEW s, NEW i,
             PodStep(s, i) \/ ContainerStops(s, i) \/ LosePod(s, i) \/ LivenessRestart(i)
      PROVE  ControlTyped'
  <2>1. /\ UNCHANGED <<driver, spec, config, command, pass, requests>>
        /\ \/ crashes' = crashes
           \/ crashes < MaxCrashes /\ crashes' = crashes + 1
    BY <1>9 DEF PodStep, PassDependency, StartContainer, ComesUp, ContainerStops, LosePod,
                LivenessRestart
  <2>2. crashes' \in 0..MaxCrashes
    BY <2>1, StartupBoundsAssumption DEF ControlTyped
  <2> QED
    BY <2>1, <2>2 DEF ControlTyped, Resting
<1> QED
  BY <1>1, <1>2, <1>3, <1>4, <1>5, <1>6, <1>7, <1>8, <1>9
     DEF StartupNext, OperatorStep

LEMMA CreatedTyped == \A s, on : ContainerTyped(Created(s, on))
<1> SUFFICES ASSUME NEW s, NEW on PROVE ContainerTyped(Created(s, on))
  OBVIOUS
<1> DEFINE t == Template(s, on)
<1>1. Created(s, on) = [template |-> t, wait |-> t.deps, state |-> "waiting", routes |-> {}]
  BY Zenon DEF Created
<1> HIDE DEF t
<1> QED
  BY <1>1 DEF ContainerTyped

\* The containers that a Deployment rolls to are new, or were there before.
LEMMA RollTyped ==
  ASSUME Placed, PodsTyped, NEW s \in StartupServices, NEW on
  PROVE  \A i \in DOMAIN Roll(s, on) : ContainerTyped(Roll(s, on)[i])
<1> DEFINE t     == Template(s, on)
           same  == {i \in DOMAIN pods[s] : pods[s][i].template = t}
           other == DOMAIN pods[s] \ same
           ready == {i \in other : ProbePasses(s, pods[s][i])}
           new   == IF same = {} THEN Created(s, on) ELSE pods[s][Newest(same)]
           left  == IF ready # {} THEN ready ELSE other
           old   == pods[s][Newest(left)]
<1>1. Roll(s, on) = IF other = {} THEN <<new>> ELSE <<old, new>>
  BY DEF Roll
<1>2. DOMAIN pods[s] \subseteq {1, 2} /\ \A i \in DOMAIN pods[s] : ContainerTyped(pods[s][i])
  BY DEF Placed, PodsTyped
<1>3. ContainerTyped(new)
  <2>1. CASE same = {}
    BY <2>1, CreatedTyped
  <2>2. CASE same # {}
    <3>1. Newest(same) \in same
      BY <1>2, <2>2, NewestIsOne
    <3> QED
      BY <1>2, <2>2, <3>1
  <2> QED
    BY <2>1, <2>2
<1>4. CASE other = {}
  <2>1. Roll(s, on) = <<new>>
    BY <1>1, <1>4
  <2> HIDE DEF new
  <2> QED
    BY <1>3, <2>1
<1>5. CASE other # {}
  <2>1. left # {} /\ left \subseteq other
    BY <1>5
  <2>2. Newest(left) \in other
    <3> HIDE DEF left
    <3>1. left \subseteq {1, 2}
      BY <1>2, <2>1
    <3> QED
      BY <2>1, <3>1, NewestIsOne
  <2>3. ContainerTyped(old)
    BY <1>2, <2>2
  <2>4. Roll(s, on) = <<old, new>>
    BY <1>1, <1>5
  <2> HIDE DEF old, new, t
  <2> QED
    BY <1>3, <2>3, <2>4
<1> QED
  BY <1>4, <1>5

\* The steps of a container, and its accidents, leave it with a state and with
\* routes of the gateway's config file.
LEMMA PodStepsTyped ==
  ASSUME Placed, ControlTyped, PodsTyped, NEW s \in StartupServices, NEW i \in DOMAIN pods[s],
         \/ PodStep(s, i) \/ ContainerStops(s, i) \/ LosePod(s, i)
         \/ s = "kong" /\ LivenessRestart(i)
  PROVE  ContainerTyped(pods'[s][i])
<1>1. PICK w, x, r : /\ SetPod(s, i, Changed(pods[s][i], w, x, r))
                     /\ x \in {pods[s][i].state, "waiting", "starting", "up", "exited"}
                     /\ r \in {pods[s][i].routes, config, {}}
  BY PodStepsChange, Zenon
<1>2. x \in {"waiting", "starting", "up", "exited"} /\ r \subseteq Optional
  BY <1>1 DEF PodsTyped, ContainerTyped, ControlTyped
<1> DEFINE t == pods[s][i].template
<1>3. Changed(pods[s][i], w, x, r) = [template |-> t, wait |-> w, state |-> x, routes |-> r]
  BY DEF Changed
<1> HIDE DEF t
<1>4. ContainerTyped(Changed(pods[s][i], w, x, r))
  BY <1>2, <1>3 DEF ContainerTyped
<1> DEFINE d == Changed(pods[s][i], w, x, r)
<1>5. SetPod(s, i, d) /\ ContainerTyped(d)
  BY <1>1, <1>4
<1> HIDE DEF d
<1> QED
  BY <1>5 DEF SetPod, Placed

LEMMA NextPodsTyped == Placed /\ ControlTyped /\ PodsTyped /\ [StartupNext]_startupVars => PodsTyped'
<1> SUFFICES ASSUME Placed, ControlTyped, PodsTyped, [StartupNext]_startupVars PROVE PodsTyped'
  OBVIOUS
<1>1. CASE UNCHANGED <<driver, pods>>
  BY <1>1 DEF PodsTyped
<1>2. ASSUME UNCHANGED driver,
             \A s \in StartupServices : pods'[s] \in {<< >>, <<Created(s, spec)>>, pods[s]}
      PROVE  PodsTyped'
  BY <1>2, CreatedTyped DEF PodsTyped
<1>3. CASE ComposeCreate \/ RecreateContainers \/ Prune
  BY <1>2, <1>3 DEF ComposeCreate, RecreateContainers, Prune
<1>4. CASE ApplyWorkloads
  <2>1. \A s \in StartupServices : pods'[s] \in {pods[s], Roll(s, pass.spec)}
    BY <1>4 DEF ApplyWorkloads
  <2>2. driver # "compose" /\ driver' = driver
    BY <1>4 DEF ApplyWorkloads, ControlTyped, Resting
  <2> QED
    BY <2>1, <2>2, RollTyped DEF PodsTyped
<1>5. ASSUME NEW s \in StartupServices, RetireOld(s) PROVE PodsTyped'
  <2> DEFINE c == pods[s][Len(pods[s])]
  <2>1. DOMAIN pods[s] # {}
    BY <1>5 DEF RetireOld, Placed
  <2>2. ContainerTyped(c)
    BY <2>1, LastIsOne DEF Placed, PodsTyped
  <2>3. pods' = [pods EXCEPT ![s] = <<c>>] /\ UNCHANGED driver
    BY <1>5 DEF RetireOld
  <2> HIDE DEF c
  <2> QED
    BY <2>2, <2>3 DEF PodsTyped, Placed
<1>6. ASSUME NEW s \in StartupServices, NEW i \in DOMAIN pods[s],
             \/ PodStep(s, i) \/ ContainerStops(s, i) \/ LosePod(s, i)
             \/ s = "kong" /\ LivenessRestart(i)
      PROVE  PodsTyped'
  <2>1. PICK w, x, r : SetPod(s, i, Changed(pods[s][i], w, x, r))
    BY <1>6, PodStepsChange
  <2>2. ContainerTyped(pods'[s][i])
    BY <1>6, PodStepsTyped
  <2>3. UNCHANGED driver
    BY <1>6 DEF PodStep, PassDependency, StartContainer, ComesUp, ContainerStops, LosePod,
                LivenessRestart
  <2> QED
    BY <2>1, <2>2, <2>3, OthersStay DEF PodsTyped
<1> QED
  BY <1>1, <1>3, <1>4, <1>5, <1>6, GatewayIsAService
     DEF StartupNext, ComposeStep, OperatorStep, UpdateServices, ComposeUpDone, ComposeDone,
         ComposeFails, StartPass, ApplyConfig, PassFails, startupVars

\* Compose keeps at most one container of a service, a Deployment at most the one
\* it has and the one that replaces it, however passes fail and containers stop.
THEOREM AtMostTwoContainers == StartupSpec => []StartupTypeOK
<1>1. ControlTyped /\ PodsTyped /\ Placed => StartupTypeOK
  <2> SUFFICES ASSUME ControlTyped, PodsTyped, Placed PROVE StartupTypeOK
    OBVIOUS
  <2>1. ASSUME NEW s \in StartupServices
        PROVE  Len(pods[s]) \in 0..(IF driver = "compose" THEN 1 ELSE 2)
    <3>1. DOMAIN pods[s] = {} => Len(pods[s]) = 0
      <4>1. {} = 1..0
        OBVIOUS
      <4> QED
        BY <4>1, LengthOfSpan
    <3>2. DOMAIN pods[s] = {1} => Len(pods[s]) = 1
      <4>1. {1} = 1..1
        OBVIOUS
      <4> QED
        BY <4>1, LengthOfSpan
    <3>3. DOMAIN pods[s] = {1, 2} => Len(pods[s]) = 2
      <4>1. {1, 2} = 1..2
        OBVIOUS
      <4> QED
        BY <4>1, LengthOfSpan
    <3>4. CASE driver = "compose"
      <4>1. Len(pods[s]) = 0 \/ Len(pods[s]) = 1
        BY <3>1, <3>2, <3>4 DEF PodsTyped
      <4>2. Len(pods[s]) \in 0..1
        BY <4>1
      <4> QED
        BY <3>4, <4>2, Zenon
    <3>5. CASE driver # "compose"
      <4>1. Len(pods[s]) = 0 \/ Len(pods[s]) = 1 \/ Len(pods[s]) = 2
        BY <3>1, <3>2, <3>3 DEF Placed
      <4>2. Len(pods[s]) \in 0..2
        BY <4>1
      <4> QED
        BY <3>5, <4>2, Zenon
    <3> QED
      BY <3>4, <3>5
  <2> QED
    BY <2>1 DEF ControlTyped, PodsTyped, ContainerTyped, StartupTypeOK
<1> QED
  BY <1>1, InitStartupTyped, NextControlTyped, NextPodsTyped, InitPlaced, NextPlaced, PTL
     DEF StartupSpec

\* On Kubernetes the gateway is ready when a container of it routes to auth and
\* auth answers.
LEMMA ReadyGateway ==
  ASSUME driver = "kubernetes"
  PROVE  Ready("kong") <=> Routing /\ Answers("auth")
  BY DEF Ready, ProbePasses, Routing

\* A ready gateway is not replaced before its successor is ready: a Deployment
\* that rolls keeps a ready container (strategy RollingUpdate, one replica).
LEMMA RollKeepsRouting ==
  ASSUME Placed, driver = "kubernetes", Ready("kong"), NEW on
  PROVE  \E i \in DOMAIN Roll("kong", on) :
           /\ Roll("kong", on)[i].state = "up"
           /\ "auth" \in Roll("kong", on)[i].routes
<1> DEFINE same  == {i \in DOMAIN pods["kong"] : pods["kong"][i].template = Template("kong", on)}
           other == DOMAIN pods["kong"] \ same
           ready == {i \in other : ProbePasses("kong", pods["kong"][i])}
           new   == IF same = {} THEN Created("kong", on) ELSE pods["kong"][Newest(same)]
           old   == pods["kong"][Newest(IF ready # {} THEN ready ELSE other)]
<1>1. Roll("kong", on) = IF other = {} THEN <<new>> ELSE <<old, new>>
  BY DEF Roll
<1>2. DOMAIN pods["kong"] \subseteq {1, 2}
  BY GatewayIsAService DEF Placed
<1>3. PICK g \in DOMAIN pods["kong"] : ProbePasses("kong", pods["kong"][g])
  BY DEF Ready
<1>4. \A i : ProbePasses("kong", pods["kong"][i])
               => pods["kong"][i].state = "up" /\ "auth" \in pods["kong"][i].routes
  BY DEF ProbePasses
<1>5. CASE ready # {}
  <2>1. Newest(ready) \in ready
    BY <1>2, <1>5, NewestIsOne
  <2>2. old.state = "up" /\ "auth" \in old.routes
    BY <1>4, <1>5, <2>1
  <2>3. Roll("kong", on) = <<old, new>>
    BY <1>1, <1>5
  <2> HIDE DEF old, new
  <2> QED
    BY <2>2, <2>3
<1>6. CASE ready = {}
  <2>1. g \in same
    BY <1>3, <1>6
  <2>2. Newest(same) = g
    <3>1. Newest(same) \in same
      BY <1>2, <2>1, NewestIsOne
    <3> QED
      BY <2>1, <3>1, GatewayIsAService DEF Placed
  <2>3. new.state = "up" /\ "auth" \in new.routes
    BY <1>3, <1>4, <2>1, <2>2
  <2> HIDE DEF new, old, other
  <2>4. Roll("kong", on) \in {<<new>>, <<old, new>>}
    BY <1>1
  <2> QED
    BY <2>3, <2>4
<1> QED
  BY <1>5, <1>6

\* deploymentObject replaces a gateway by RollingUpdate with one replica, and the
\* probes and init containers hold the new one back until it answers: while auth
\* answers, only a crash takes the last ready gateway away.
THEOREM GatewayIsNeverRolledAway == StartupSpec => GatewayStaysUp
<1> DEFINE A == driver = "kubernetes" /\ crashes' = crashes /\ Ready("kong") /\ Answers("auth")'
                  => Ready("kong")'
<1>1. Placed /\ [StartupNext]_startupVars => [A]_startupVars
  <2> SUFFICES ASSUME Placed, StartupNext, driver = "kubernetes", crashes' = crashes,
                      Ready("kong"), Answers("auth")'
               PROVE  Ready("kong")'
    OBVIOUS
  <2>1. Routing' => Ready("kong")'
    BY DEF Ready, ProbePasses, Routing
  <2>2. PICK g \in DOMAIN pods["kong"] :
          /\ ProbePasses("kong", pods["kong"][g])
          /\ pods["kong"][g].state = "up" /\ "auth" \in pods["kong"][g].routes
    BY DEF Ready, ProbePasses
  <2>3. ASSUME pods'["kong"] = pods["kong"] PROVE Routing'
    BY <2>2, <2>3 DEF Routing
  <2>4. ASSUME NEW s \in StartupServices, NEW i, NEW c, SetPod(s, i, c), s # "kong" \/ i # g
        PROVE  Routing'
    <3>1. DOMAIN pods'["kong"] = DOMAIN pods["kong"] /\ pods'["kong"][g] = pods["kong"][g]
      BY <2>2, <2>4, OthersStay, GatewayIsAService
    <3> QED
      BY <2>2, <3>1 DEF Routing
  <2>5. ASSUME NEW on \in SUBSET Optional, UpdateServices(on) PROVE Routing'
    BY <2>5, <2>3 DEF UpdateServices
  <2>6. ~ComposeStep
    BY DEF Placed, ComposeStep, ComposeCreate, ComposeUpDone, RecreateContainers,
           ComposeDone, ComposeFails
  <2>7. CASE StartPass \/ ApplyConfig
    BY <2>1, <2>3, <2>7 DEF StartPass, ApplyConfig
  <2>8. CASE ApplyWorkloads
    <3>1. pods'["kong"] = Roll("kong", pass.spec)
      BY <2>8, GatewayIsAService, TheGatewayIsExpected DEF ApplyWorkloads
    <3> QED
      BY <2>1, <3>1, RollKeepsRouting DEF Routing
  <2>9. CASE Prune
    BY <2>1, <2>3, <2>9, GatewayIsAService, TheGatewayIsExpected DEF Prune
  <2>10. ~PassFails
    BY DEF PassFails, Placed
  <2>11. ASSUME NEW s \in StartupServices, RetireOld(s) PROVE Routing'
    <3>1. CASE s # "kong"
      BY <2>11, <2>3, <3>1, GatewayIsAService DEF RetireOld, Placed
    <3>2. CASE s = "kong"
      <4> DEFINE c == pods["kong"][Len(pods["kong"])]
      <4>1. c.state = "up" /\ "auth" \in c.routes
        BY <2>11, <3>2 DEF RetireOld, ProbePasses
      <4>2. pods'["kong"] = <<c>>
        BY <2>11, <3>2, GatewayIsAService DEF RetireOld, Placed
      <4> HIDE DEF c
      <4> QED
        BY <4>1, <4>2 DEF Routing
    <3> QED
      BY <3>1, <3>2
  <2>12. ASSUME NEW i \in DOMAIN pods["kong"], LivenessRestart(i) PROVE Routing'
    <3>1. i # g
      BY <2>2, <2>12 DEF LivenessRestart
    <3>2. PICK c : SetPod("kong", i, c)
      BY <2>12, Zenon DEF LivenessRestart
    <3> QED
      BY <2>4, <3>1, <3>2, GatewayIsAService
  <2>13. ASSUME NEW s \in StartupServices, NEW i \in DOMAIN pods[s], PodStep(s, i)
         PROVE  Routing'
    <3>1. s # "kong" \/ i # g
      BY <2>2, <2>13 DEF PodStep, PassDependency, StartContainer, ComesUp
    <3>2. PICK c : SetPod(s, i, c)
      BY <2>13, PodStepsChange, Zenon
    <3> QED
      BY <2>4, <3>1, <3>2
  <2>14. ASSUME NEW s \in StartupServices, NEW i \in DOMAIN pods[s]
         PROVE  ~ContainerStops(s, i) /\ ~LosePod(s, i)
    BY DEF ContainerStops, LosePod, Placed
  <2> QED
    BY <2>1, <2>5, <2>6, <2>7, <2>8, <2>9, <2>10, <2>11, <2>12, <2>13, <2>14
       DEF StartupNext, OperatorStep
<1> QED
  BY <1>1, AlwaysPlaced, PTL DEF StartupSpec, GatewayStaysUp

=============================================================================
