--------------------------- MODULE LeaderElection ---------------------------
(***************************************************************************)
(* Lease-based leader election of the Kubernetes operator (internal/       *)
(* operator/leaderelection.go) and the main loop that uses it              *)
(* (cmd/supadupa-operator/main.go).  A round of a replica captures the     *)
(* time, reads the Lease, and then creates it, patches it, or follows; a   *)
(* round that won the lease reconciles the namespace.  The patch is a      *)
(* merge patch without a resource version, so it overwrites whatever the   *)
(* Lease has become since it was read.                                     *)
(*                                                                         *)
(* Time advances in ticks.  The Lease is kept as its age, the time since   *)
(* the renewTime written in it; a replica's clock is the time since it     *)
(* captured now.  The replicas' clocks are taken to agree.  A call may take *)
(* as long as its timeout, so that a try, two calls, may outlast the lease *)
(* it renews, as it can at the defaults: a period of 15 seconds, a lease of *)
(* 45, a try of at most 60.                                                *)
(***************************************************************************)
EXTENDS Integers

CONSTANTS Replicas,    \* the operator pods, by identity
          NoHolder,    \* there is no Lease object
          Interval,    \* the period of the main loop's ticker, in ticks
          TryTicks,    \* longest TryAcquireOrRenew: two calls of 30 seconds at most
          RoundTicks,  \* longest round: the try and every call of the reconciliation
          MaxFaults    \* bound: crashes and failed calls considered

ASSUME ReplicasAssumption == NoHolder \notin Replicas
ASSUME TicksAssumption ==
  /\ Interval \in Nat \ {0} /\ TryTicks \in Nat
  /\ RoundTicks \in Nat /\ TryTicks <= RoundTicks
ASSUME FaultsAssumption == MaxFaults \in Nat

VARIABLES
  pc,      \* per replica: where it is in its round
  clock,   \* per replica: ticks since its round captured now
  timer,   \* per replica: ticks since its ticker fired
  due,     \* per replica: a tick waits in the ticker's channel (it holds one)
  holder,  \* the Lease: holderIdentity, NoHolder when the object is missing
  age,     \* the Lease: ticks since renewTime
  late,    \* the Lease: how long after its renewTime the API server stored it
  faults   \* crashes and failed calls so far

lease == <<holder, age, late>>
ticker == <<timer, due>>
electionVars == <<pc, clock, ticker, lease, faults>>

\* LeaseDuration of the elector main builds.
Duration == 3 * Interval

Trying == {"get", "create", "update"}
PCs == Trying \cup {"down", "lead", "wait"}

\* From this age on the Lease is expired for every replica that reads it.
MaxAge == Duration + TryTicks + 1

ElectionTypeOK ==
  /\ pc \in [Replicas -> PCs]
  /\ clock \in [Replicas -> 0..RoundTicks]
  /\ timer \in [Replicas -> 0..(Interval - 1)]
  /\ due \in [Replicas -> BOOLEAN]
  /\ holder \in Replicas \cup {NoHolder}
  /\ age \in 0..MaxAge
  /\ late \in 0..TryTicks
  /\ faults \in 0..MaxFaults
  /\ \A r \in Replicas : pc[r] \in Trying => clock[r] <= TryTicks

ElectionInit ==
  /\ pc = [r \in Replicas |-> "down"]
  /\ clock = [r \in Replicas |-> 0]
  /\ timer = [r \in Replicas |-> 0]
  /\ due = [r \in Replicas |-> FALSE]
  /\ holder = NoHolder
  /\ age = 0
  /\ late = 0
  /\ faults = 0

\* A pod starts: a new ticker, and the first round at once.
Start(r) ==
  /\ pc[r] = "down"
  /\ pc' = [pc EXCEPT ![r] = "get"]
  /\ clock' = [clock EXCEPT ![r] = 0]
  /\ UNCHANGED <<ticker, lease, faults>>

\* The main loop receives a tick: a new round captures now.  After a round that
\* overran, the tick has been waiting.
BeginRound(r) ==
  /\ pc[r] = "wait"
  /\ due[r]
  /\ pc' = [pc EXCEPT ![r] = "get"]
  /\ clock' = [clock EXCEPT ![r] = 0]
  /\ due' = [due EXCEPT ![r] = FALSE]
  /\ UNCHANGED <<timer, lease, faults>>

\* (mutant of LeaseExpired) the duration is forgotten: any renewal before now
LeaseExpiredAtOnce(r) == age - clock[r] > 0

\* leaseExpired compares renewTime + duration with the now captured BEFORE the
\* read.
LeaseExpired(r) == age - clock[r] > Duration

\* (mutant of AfterGet) a lease held by another is followed, expired or not
AfterGetWithoutTakeover(r) ==
  IF holder = NoHolder THEN "create"
  ELSE IF holder = r THEN "update" ELSE "wait"

\* What TryAcquireOrRenew does with the Lease it read: create a missing one,
\* renew its own, take over an expired one, follow otherwise.
AfterGet(r) ==
  IF holder = NoHolder THEN "create"
  ELSE IF holder = r \/ LeaseExpired(r) THEN "update" ELSE "wait"

GetLease(r) ==
  /\ pc[r] = "get"
  /\ pc' = [pc EXCEPT ![r] = AfterGet(r)]
  /\ UNCHANGED <<clock, ticker, lease, faults>>

\* The API server stores the Lease with the renewTime of this round.
Store(r) ==
  /\ holder' = r
  /\ age' = clock[r]
  /\ late' = clock[r]

\* CreateLease: the API server creates one object; the loser of the race gets
\* 409 and is a follower this round.
CreateLease(r) ==
  /\ pc[r] = "create"
  /\ UNCHANGED <<clock, ticker, faults>>
  /\ \/ /\ holder = NoHolder
        /\ Store(r)
        /\ pc' = [pc EXCEPT ![r] = "lead"]
     \/ /\ holder # NoHolder
        /\ pc' = [pc EXCEPT ![r] = "wait"]
        /\ UNCHANGED lease

\* UpdateLease: the merge patch succeeds whoever holds the Lease by now.
UpdateLease(r) ==
  /\ pc[r] = "update"
  /\ Store(r)
  /\ pc' = [pc EXCEPT ![r] = "lead"]
  /\ UNCHANGED <<clock, ticker, faults>>

\* A call fails, and so does the round: it reconciles nothing.  A write whose
\* answer is lost may have been stored all the same.
LeaseCallFails(r) ==
  /\ faults < MaxFaults
  /\ faults' = faults + 1
  /\ pc[r] \in Trying
  /\ pc' = [pc EXCEPT ![r] = "wait"]
  /\ UNCHANGED <<clock, ticker>>
  /\ \/ UNCHANGED lease
     \/ pc[r] = "create" /\ holder = NoHolder /\ Store(r)
     \/ pc[r] = "update" /\ Store(r)

\* ReconcileNamespace returns, with or without an error: the replica waits for
\* the ticker and stays out of the Lease until then.
FinishReconcile(r) ==
  /\ pc[r] = "lead"
  /\ pc' = [pc EXCEPT ![r] = "wait"]
  /\ UNCHANGED <<clock, ticker, lease, faults>>

\* The process is stopped or killed, wherever it is.  It does not release its
\* lease; a restarted container keeps the pod name and with it the identity.
Crash(r) ==
  /\ faults < MaxFaults
  /\ faults' = faults + 1
  /\ pc[r] # "down"
  /\ pc' = [pc EXCEPT ![r] = "down"]
  /\ clock' = [clock EXCEPT ![r] = 0]
  /\ timer' = [timer EXCEPT ![r] = 0]
  /\ due' = [due EXCEPT ![r] = FALSE]
  /\ UNCHANGED lease

\* How long a round may stay where it is: the HTTP client gives up on a call.
Deadline(r) == IF pc[r] \in Trying THEN TryTicks ELSE RoundTicks

\* One tick of time, as long as every round meets its deadline and every waiting
\* replica has received its tick.
Tick ==
  /\ \A r \in Replicas : /\ (pc[r] \in Trying \cup {"lead"} => clock[r] < Deadline(r))
                          /\ (pc[r] = "wait" => ~due[r])
  /\ clock' = [r \in Replicas |-> IF pc[r] \in {"down", "wait"} THEN 0 ELSE clock[r] + 1]
  /\ timer' = [r \in Replicas |-> IF pc[r] = "down" THEN 0 ELSE (timer[r] + 1) % Interval]
  /\ due' = [r \in Replicas |-> due[r] \/ (pc[r] # "down" /\ timer'[r] = 0)]
  /\ age' = IF age < MaxAge THEN age + 1 ELSE age
  /\ UNCHANGED <<pc, holder, late, faults>>

RoundStep(r) == \/ BeginRound(r) \/ GetLease(r) \/ CreateLease(r)
                \/ UpdateLease(r) \/ FinishReconcile(r)

ElectionNext == Tick \/ \E r \in Replicas : Start(r) \/ RoundStep(r) \/ LeaseCallFails(r) \/ Crash(r)

ElectionSpec == ElectionInit /\ [][ElectionNext]_electionVars

\* Time passes and a running replica gets on: every call returns or times out.
\* Nothing is promised of a pod that is down.  Its node may be gone, and the pod
\* that replaces it has another name.
Fairness == WF_electionVars(Tick) /\ \A r \in Replicas : WF_electionVars(RoundStep(r))

FairSpec == ElectionSpec /\ Fairness

-----------------------------------------------------------------------------
(* What the election promises.                                             *)

\* A lease is honoured while it is valid: a replica takes it from another only
\* if it had expired when the taker's try began, or was stored since then, after
\* the taker had read what was there before.  This holds however slow the calls
\* are and however the failures and the restarts fall.
LeaseHonoured ==
  [][\A r \in Replicas :
       holder' = r /\ holder \notin {r, NoHolder}
         => age - clock[r] > Duration \/ age - late <= clock[r]]_electionVars

\* The calls are quick: two tries fit into an interval, a round into two.
Quick ==
  \A r \in Replicas : /\ (pc[r] \in Trying => 2 * clock[r] < Interval)
                       /\ (pc[r] = "lead" => clock[r] <= 2 * Interval)

\* Leadership recovers.  As long as one replica keeps running, the namespace is
\* reconciled again and again, although the pod that held the lease may never
\* come back and every call may take as long as it can.  A single leader is
\* guaranteed only if the calls are quick from some time on; with slow ones a
\* lease may expire before it is stored, and the replicas take it from each
\* other for ever.
LeadershipRecovers ==
  /\ (\E r \in Replicas : <>[](pc[r] # "down")) => []<>(\E r \in Replicas : pc[r] = "lead")
  /\ <>[]Quick => \E r \in Replicas : <>[](\A s \in Replicas : pc[s] = "lead" => s = r)

=============================================================================
