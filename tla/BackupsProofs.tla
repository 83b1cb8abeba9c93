---------------------------- MODULE BackupsProofs ----------------------------
(***************************************************************************)
(* Proofs about Backups, for any targets, buckets, workers and timing:     *)
(* storage targets and the policies that name them stay consistent, the    *)
(* records of off-host copies stay true, a restore takes nothing from      *)
(* after the second it aims at, and the schedule runs once in a period.    *)
(* The invariant is built in parts, each inductive relative to those       *)
(* before it: the configuration, the types, the file names, the copies,    *)
(* the dates and the schedule.                                             *)
(***************************************************************************)
EXTENDS Backups, TLAPS

TargetRecord == [bucket : Buckets, test : Tests, default : BOOLEAN]

\* The targets are a function from ids to records, and the policy is a record
\* with a target field.
Shape ==
  /\ \E D \in SUBSET Targets : targets \in [D -> TargetRecord]
  /\ policy = [f \in DOMAIN policy |-> policy[f]]
  /\ "target" \in DOMAIN policy
  /\ policy.target \in Targets \cup {None}

ConfigInv == Shape /\ TargetsConsistent

\* Neither the targets nor the target of the policy: what most steps leave
\* alone, MarkBackupPolicyRun included.
Kept == targets' = targets /\ policy'.target = policy.target
        /\ policy' = [f \in DOMAIN policy' |-> policy'[f]] /\ "target" \in DOMAIN policy'

LEMMA KeptIsEnough == ASSUME ConfigInv, Kept PROVE ConfigInv'
BY DEF ConfigInv, Kept, Shape, TargetsConsistent, Defaults, Resolvable

LEMMA InitEstablishes == Init => ConfigInv
<1> SUFFICES ASSUME Init PROVE ConfigInv
  OBVIOUS
<1>1. PICK t \in Targets, b \in OffHost :
        /\ targets = [u \in {t} |-> [bucket |-> b, test |-> "passed", default |-> TRUE]]
        /\ policy \in [enabled : {TRUE}, kind : Kinds, target : {t, None}, next : {0}]
  BY DEF Init
<1>3. targets \in [{t} -> TargetRecord]
  BY <1>1, BucketsAssumption DEF TargetRecord, Tests
<1>4. Shape
  BY <1>1, <1>3 DEF Shape
<1>5. TargetsConsistent
  BY <1>1, TargetsAssumption DEF TargetsConsistent, Defaults, Resolvable
<1> QED
  BY <1>4, <1>5 DEF ConfigInv

\* A set of targets with one more or one changed record, and the default
\* cleared elsewhere when that record is the default.
LEMMA OneDefaultStays ==
  ASSUME ConfigInv, NEW t \in Targets, NEW STATE next, NEW D \in SUBSET Targets,
         next \in [D -> TargetRecord], t \in D, DOMAIN targets \subseteq D,
         \A u \in D \ {t} : u \in DOMAIN targets /\ next[u] = targets[u],
         targets' = IF next[t].default THEN ClearDefault(next, t) ELSE next,
         UNCHANGED policy
  PROVE  ConfigInv'
<1>1. CASE next[t].default
  <2>1. targets' = [u \in D |-> IF u = t THEN next[u] ELSE [next[u] EXCEPT !.default = FALSE]]
    BY <1>1 DEF ClearDefault
  <2>2. targets' \in [D -> TargetRecord]
    <3>1. \A u \in D : next[u] \in TargetRecord
      OBVIOUS
    <3>2. \A r \in TargetRecord : [r EXCEPT !.default = FALSE] \in TargetRecord
      BY DEF TargetRecord
    <3> QED
      BY <2>1, <3>1, <3>2
  <2>3. \A u \in D : targets'[u].default => u = t
    BY <2>1 DEF TargetRecord
  <2>4. Shape'
    BY <2>2 DEF ConfigInv, Shape
  <2>5. DOMAIN targets' = D
    BY <2>2
  <2>6. \A u, v \in Defaults' : u = v
    BY <2>3, <2>5 DEF Defaults
  <2>7. Resolvable'
    BY <2>5 DEF ConfigInv, TargetsConsistent, Resolvable
  <2> QED
    BY <2>4, <2>6, <2>7 DEF ConfigInv, TargetsConsistent
<1>2. CASE ~next[t].default
  <2>1. targets' = next
    BY <1>2
  <2> QED
    BY <1>2, <2>1 DEF ConfigInv, Shape, TargetsConsistent, Defaults, Resolvable
<1> QED
  BY <1>1, <1>2

LEMMA CreateKeeps ==
  ASSUME ConfigInv, NEW t \in Targets, NEW b \in Buckets, NEW d \in BOOLEAN, CreateBackupStorageTarget(t, b, d)
  PROVE  ConfigInv'
<1> DEFINE next == [u \in DOMAIN targets \cup {t} |->
                      IF u = t THEN [bucket |-> b, test |-> "", default |-> d] ELSE targets[u]]
<1>1. PICK D \in SUBSET Targets : targets \in [D -> TargetRecord]
  BY DEF ConfigInv, Shape
<1>2. next \in [D \cup {t} -> TargetRecord] /\ next[t].default = d
  BY <1>1 DEF TargetRecord, Tests
<1>3. targets' = IF next[t].default THEN ClearDefault(next, t) ELSE next
  BY <1>2 DEF CreateBackupStorageTarget
<1>4. UNCHANGED policy /\ \A u \in (D \cup {t}) \ {t} : u \in DOMAIN targets /\ next[u] = targets[u]
  BY <1>1 DEF CreateBackupStorageTarget
<1>5. D \cup {t} \in SUBSET Targets /\ t \in D \cup {t} /\ DOMAIN targets \subseteq D \cup {t}
  BY <1>1
<1> HIDE DEF next
<1> QED
  BY <1>2, <1>3, <1>4, <1>5, OneDefaultStays

LEMMA UpdateKeeps ==
  ASSUME ConfigInv, NEW t \in Targets, NEW b \in Buckets, NEW d \in BOOLEAN, UpdateBackupStorageTarget(t, b, d)
  PROVE  ConfigInv'
<1> DEFINE kept == IF targets[t].bucket = b THEN targets[t].test ELSE ""
           next == [targets EXCEPT ![t] = [bucket |-> b, test |-> kept, default |-> d]]
<1>1. PICK D \in SUBSET Targets : targets \in [D -> TargetRecord]
  BY DEF ConfigInv, Shape
<1>2. t \in D
  BY <1>1 DEF UpdateBackupStorageTarget
<1>3. next \in [D -> TargetRecord] /\ next[t].default = d
  BY <1>1, <1>2 DEF TargetRecord, Tests
<1>4. targets' = IF next[t].default THEN ClearDefault(next, t) ELSE next
  BY <1>3 DEF UpdateBackupStorageTarget
<1>5. UNCHANGED policy /\ \A u \in D \ {t} : u \in DOMAIN targets /\ next[u] = targets[u]
  BY <1>1 DEF UpdateBackupStorageTarget
<1>6. DOMAIN targets \subseteq D
  BY <1>1
<1> HIDE DEF next
<1> QED
  BY <1>2, <1>3, <1>4, <1>5, <1>6, OneDefaultStays

LEMMA DeleteKeeps ==
  ASSUME ConfigInv, NEW t \in Targets, DeleteBackupStorageTarget(t)
  PROVE  ConfigInv'
<1>1. PICK D \in SUBSET Targets : targets \in [D -> TargetRecord]
  BY DEF ConfigInv, Shape
<1>2. targets' = [u \in D \ {t} |-> targets[u]]
  BY <1>1 DEF DeleteBackupStorageTarget
<1>3. targets' \in [D \ {t} -> TargetRecord]
  BY <1>1, <1>2
<1>4. /\ policy' = [f \in DOMAIN policy' |-> policy'[f]] /\ "target" \in DOMAIN policy'
      /\ policy'.target = IF policy.target = t THEN None ELSE policy.target
  BY DEF ConfigInv, Shape, DeleteBackupStorageTarget
<1>5. Shape'
  BY <1>3, <1>4 DEF ConfigInv, Shape
<1>6. TargetsConsistent'
  BY <1>1, <1>2, <1>4 DEF ConfigInv, Shape, TargetsConsistent, Defaults, Resolvable
<1> QED
  BY <1>5, <1>6 DEF ConfigInv

LEMMA TestKeeps ==
  ASSUME ConfigInv, NEW result \in {"passed", "failed"}, UpdateBackupStorageTargetTestResult(result)
  PROVE  ConfigInv'
<1>1. PICK D \in SUBSET Targets : targets \in [D -> TargetRecord]
  BY DEF ConfigInv, Shape
<1>2. UNCHANGED policy
  BY DEF UpdateBackupStorageTargetTestResult
<1>3. CASE probe \in DOMAIN targets
  <2>1. targets' = [targets EXCEPT ![probe].test = result]
    BY <1>3 DEF UpdateBackupStorageTargetTestResult
  <2>2. targets' \in [D -> TargetRecord] /\ \A u \in D : targets'[u].default = targets[u].default
    BY <1>1, <1>3, <2>1 DEF TargetRecord, Tests
  <2> QED
    BY <1>1, <1>2, <2>2 DEF ConfigInv, Shape, TargetsConsistent, Defaults, Resolvable
<1>4. CASE probe \notin DOMAIN targets
  BY <1>2, <1>4, KeptIsEnough DEF UpdateBackupStorageTargetTestResult, Kept, ConfigInv, Shape
<1> QED
  BY <1>3, <1>4

LEMMA PolicyKeeps ==
  ASSUME ConfigInv, NEW enabled \in BOOLEAN, NEW kind \in Kinds, NEW t \in Targets \cup {None},
         UpdateBackupPolicy(enabled, kind, t)
  PROVE  ConfigInv'
<1>1. UNCHANGED targets /\ (t # None => t \in DOMAIN targets)
  BY DEF UpdateBackupPolicy
<1>2. policy' = [f \in DOMAIN policy' |-> policy'[f]] /\ "target" \in DOMAIN policy' /\ policy'.target = t
  BY DEF UpdateBackupPolicy
<1> QED
  BY <1>1, <1>2 DEF ConfigInv, Shape, TargetsConsistent, Defaults, Resolvable

LEMMA MarkKeeps == ASSUME ConfigInv, MarkBackupPolicyRun PROVE ConfigInv'
<1>1. Kept
  BY DEF ConfigInv, Shape, MarkBackupPolicyRun, Kept
<1> QED
  BY <1>1, KeptIsEnough

LEMMA ConfigureKeeps == ASSUME ConfigInv, Configure PROVE ConfigInv'
<1>1. CASE \E t \in Targets : \E b \in Buckets, d \in BOOLEAN : CreateBackupStorageTarget(t, b, d)
  BY <1>1, CreateKeeps
<1>2. CASE \E t \in Targets : \E b \in Buckets, d \in BOOLEAN : UpdateBackupStorageTarget(t, b, d)
  BY <1>2, UpdateKeeps
<1>3. CASE \E t \in Targets : DeleteBackupStorageTarget(t)
  BY <1>3, DeleteKeeps
<1>4. CASE \E t \in Targets : BeginTest(t)
  BY <1>4, KeptIsEnough DEF BeginTest, Kept, ConfigInv, Shape
<1>5. CASE \E result \in {"passed", "failed"} : UpdateBackupStorageTargetTestResult(result)
  BY <1>5, TestKeeps
<1>6. CASE \E enabled \in BOOLEAN, kind \in Kinds, t \in Targets \cup {None} : UpdateBackupPolicy(enabled, kind, t)
  BY <1>6, PolicyKeeps
<1>7. CASE \E enabled, given \in BOOLEAN : UpdatePITRPolicy(enabled, given)
  BY <1>7, KeptIsEnough DEF UpdatePITRPolicy, Kept, ConfigInv, Shape
<1> QED
  BY <1>1, <1>2, <1>3, <1>4, <1>5, <1>6, <1>7 DEF Configure

\* A step that leaves the targets and the policy as they are.
LEMMA UnchangedKeeps == ASSUME ConfigInv, UNCHANGED <<targets, policy>> PROVE ConfigInv'
BY KeptIsEnough DEF Kept, ConfigInv, Shape

LEMMA NextKeeps == ASSUME ConfigInv, [Next]_vars PROVE ConfigInv'
<1>1. CASE Configure
  BY <1>1, ConfigureKeeps
<1>2. CASE MarkBackupPolicyRun
  BY <1>2, MarkKeeps
<1>3. CASE \E h \in Handlers : TriggerBackup(h) \/ ArchiveWAL(h)
  BY <1>3, UnchangedKeeps DEF TriggerBackup, ArchiveWAL, config
<1>4. CASE \E w \in Workers : Work(w)
  <2> SUFFICES ASSUME NEW w \in Workers, Work(w) PROVE UNCHANGED <<targets, policy>>
    BY <1>4, UnchangedKeeps
  <2> QED
    BY DEF Work, Dump, Checksum, ArchiveCommand, Rename, Upload, CreateBackup, CreateWALArchive,
           JobRefused, JobFails, config
<1>5. CASE BeginPass \/ ArchiveStage
  BY <1>5, UnchangedKeeps DEF BeginPass, ArchiveStage, config
<1>6. CASE Restore
  <2>1. UNCHANGED <<targets, policy>>
    BY <1>6 DEF Restore, BeginRestoreBackup, BeginRestoreToTime, Select, EnsureBackupArtifact,
                EnsureWALArchiveArtifact, RestoreRefused, RunRestoreCommand, config
  <2> QED
    BY <2>1, UnchangedKeeps
<1>7. CASE Tick \/ Crash \/ \E n \in DOMAIN local : LoseLocal(n)
  BY <1>7, UnchangedKeeps DEF Tick, Crash, LoseLocal, config
<1>8. CASE UNCHANGED vars
  BY <1>8, UnchangedKeeps DEF vars, config
<1> QED
  BY <1>1, <1>2, <1>3, <1>4, <1>5, <1>6, <1>7, <1>8 DEF Next

\* Whatever the administrators and the jobs of a control plane do, and in any
\* order: at most one storage target is the default, and the target that the
\* backup policy names exists (clearDefaultBackupStorageTargetLocked and the
\* loop over policies in DeleteBackupStorageTarget).
THEOREM TargetsStayConsistent == Spec => []TargetsConsistent
<1>1. Init => ConfigInv
  BY InitEstablishes
<1>2. ConfigInv /\ [Next]_vars => ConfigInv'
  BY NextKeeps
<1>3. ConfigInv => TargetsConsistent
  BY DEF ConfigInv
<1> QED
  BY <1>1, <1>2, <1>3, PTL DEF Spec

----------------------------------------------------------------------------
(***************************************************************************)
(* Types, and what the phase of a job says of its other fields.            *)
(***************************************************************************)
Sums == [from : Int, to : Int]
FileNames == [kind : Kinds \cup {"wal", "pending"}, second : Nat, segment : Nat]
Job == [pc : Phases, kind : Kinds \cup {"wal", "none"}, pass : Nat,
        copy : Copies \cup {None}, file : FileNames \cup {NoFile}, sum : Sums]
Entry == [kind : Kinds \cup {"wal"}, file : FileNames, sum : Sums,
          copy : Copies \cup {None}, created : Nat]
RestoreJob == [pc : {"idle", "select", "base", "wals", "run"}, kind : {"none", "logical", "pitr"},
               time : Nat, base : Entry \cup {None}, wals : SUBSET Entry,
               todo : SUBSET Entry, seen : SUBSET Sums]

\* What the phase of a job says of its kind, its file and its copy.
Phased(w) ==
  /\ jobs[w].pc \in {"dump", "check"} => jobs[w].kind \in Kinds
  /\ jobs[w].pc \in {"command", "rename"} => jobs[w].kind = "wal"
  /\ jobs[w].pc \in {"upload", "record"} => jobs[w].kind \in Kinds \cup {"wal"}
  /\ jobs[w].pc \in {"dump", "check", "command", "rename", "upload", "record"}
       => jobs[w].file \in FileNames
  /\ jobs[w].pc = "command" => jobs[w].file.kind = "pending"
  /\ jobs[w].pc = "upload" => jobs[w].copy \in Copies
  /\ jobs[w].pc \in {"mark", "archive"} => w = Scheduler

ClockTyped ==
  /\ now \in Nat
  /\ segment \in [number : Nat, first : Nat]
  /\ policy \in [enabled : BOOLEAN, kind : Kinds, target : Targets \cup {None}, next : Int]
JobsTyped == jobs \in [Workers -> Job] /\ \A w \in Workers : Phased(w)
RecordsTyped == backups \subseteq Entry /\ wals \subseteq Entry
FilesTyped ==
  /\ \A n \in DOMAIN local : local[n] \in Sums
  /\ DOMAIN remote = Buckets
  /\ \A b \in Buckets : \A n \in DOMAIN remote[b] : remote[b][n] \in Sums
RestoreTyped ==
  /\ restore \in RestoreJob
  /\ restore.pc = "base" => restore.base \in Entry

TypeInv == ClockTyped /\ JobsTyped /\ RecordsTyped /\ FilesTyped /\ RestoreTyped

LEMMA UnixNat == \A t \in Nat : Unix(t) \in Nat
  BY TimeAssumption DEF Unix

LEMMA IdleTyped == IdleJob \in Job /\ IdleRestore \in RestoreJob
  BY DEF IdleJob, Job, IdleRestore, RestoreJob, NoFile, NoSum, Sums, Nil, Phases

\* resolveBackupTarget answers with a copy in a bucket, or with none.
LEMMA ResolveTyped ==
  ASSUME ConfigInv
  PROVE  ResolveBackupTarget \in Copies \cup {None}
<1> DEFINE t == IF policy.target # None THEN policy.target
                ELSE IF Defaults # {} THEN CHOOSE d \in Defaults : TRUE ELSE None
<1>1. t # None => t \in DOMAIN targets
  BY DEF ConfigInv, TargetsConsistent, Resolvable, Defaults
<1>2. \A u \in DOMAIN targets : Copy(u) \in Copies
  BY DEF ConfigInv, Shape, TargetRecord, Copy, Copies
<1> HIDE DEF t
<1>3. t # None => Copy(t) \in Copies
  BY <1>1, <1>2
<1> QED
  BY <1>3 DEF ResolveBackupTarget, t

\* A job that ended, in any way.
LEMMA EndedTyped ==
  ASSUME jobs \in [Workers -> Job], NEW w \in Workers, NEW ok \in BOOLEAN
  PROVE  /\ Ended(w, ok) \in Job
         /\ Ended(w, ok).pc \in {"idle", "mark", "archive"}
         /\ Ended(w, ok).pc # "idle" => w = Scheduler
         /\ Ended(w, ok).pc = "mark" => /\ ok /\ jobs[w].kind # "wal"
                                        /\ Ended(w, ok).pass = jobs[w].pass
         /\ Ended(w, ok).pass \in {0, jobs[w].pass}
         /\ Ended(w, ok).sum = NoSum
<1> DEFINE a == IF ok /\ w = Scheduler THEN jobs[w].pass ELSE 0
           c == IF w # Scheduler \/ jobs[w].kind = "wal" THEN "idle"
                ELSE IF ok THEN "mark" ELSE "archive"
<1>1. jobs[w].pass \in Nat
  BY DEF Job
<1>2. a \in Nat /\ c \in Phases
  BY <1>1 DEF Phases
<1>3. Ended(w, ok) = [IdleJob EXCEPT !.pass = a, !.pc = c]
  BY DEF Ended
<1>4. Ended(w, ok) = [pc |-> c, kind |-> "none", pass |-> a, copy |-> None,
                      file |-> NoFile, sum |-> NoSum]
  BY <1>3 DEF IdleJob
<1> HIDE DEF a, c
<1>5. Ended(w, ok) \in Job /\ Ended(w, ok).pc = c /\ Ended(w, ok).pass = a /\ Ended(w, ok).sum = NoSum
  BY <1>2, <1>4 DEF Job, NoFile, NoSum, Sums, Nil
<1> QED
  BY <1>5 DEF a, c

\* One worker's job is replaced.
LEMMA OneJob ==
  ASSUME jobs \in [Workers -> Job], NEW w \in Workers, NEW j \in Job,
         jobs' = [jobs EXCEPT ![w] = j]
  PROVE  /\ jobs' \in [Workers -> Job] /\ jobs'[w] = j
         /\ \A v \in Workers \ {w} : jobs'[v] = jobs[v]
  OBVIOUS

LEMMA TypeInit == Init => TypeInv
<1> SUFFICES ASSUME Init PROVE TypeInv
  OBVIOUS
<1>1. ClockTyped
  <2>1. PICK t \in Targets : policy \in [enabled : {TRUE}, kind : Kinds, target : {t, None}, next : {0}]
    BY DEF Init
  <2>2. policy \in [enabled : BOOLEAN, kind : Kinds, target : Targets \cup {None}, next : Int]
    <3>1. PICK k \in Kinds, u \in {t, None} : policy = [enabled |-> TRUE, kind |-> k, target |-> u, next |-> 0]
      BY <2>1
    <3> QED
      BY <3>1
  <2>3. now \in Nat /\ segment \in [number : Nat, first : Nat]
    BY DEF Init
  <2> QED
    BY <2>2, <2>3 DEF ClockTyped
<1>2. jobs \in [Workers -> Job] /\ restore \in RestoreJob
  BY IdleTyped DEF Init
<1>3. FilesTyped
  BY DEF Init, FilesTyped
<1>4. restore.pc = "idle" /\ \A w \in Workers : jobs[w].pc = "idle"
  BY DEF Init, IdleRestore, IdleJob
<1>5. RecordsTyped
  BY DEF Init, RecordsTyped
<1>6. \A w \in Workers : Phased(w)
  BY <1>4 DEF Phased
<1> QED
  BY <1>1, <1>2, <1>3, <1>4, <1>5, <1>6 DEF TypeInv, JobsTyped, RestoreTyped

\* What the steps of a worker do to the jobs, field by field.
Same(w) == \A v \in Workers \ {w} : jobs'[v] = jobs[v]

LEMMA DumpEffect ==
  ASSUME TypeInv, NEW w \in Workers, Dump(w)
  PROVE  /\ jobs' \in [Workers -> Job] /\ Same(w)
         /\ jobs'[w] = [jobs[w] EXCEPT !.pc = "check"]
         /\ jobs'[w].pc = "check" /\ jobs'[w].kind = jobs[w].kind /\ jobs'[w].pass = jobs[w].pass
         /\ jobs'[w].copy = jobs[w].copy /\ jobs'[w].file = jobs[w].file /\ jobs'[w].sum = jobs[w].sum
<1> DEFINE j == [jobs[w] EXCEPT !.pc = "check"]
<1>1. jobs \in [Workers -> Job]
  BY DEF TypeInv, ClockTyped, JobsTyped, FilesTyped
<1>2. j \in Job
  BY <1>1 DEF Job, Phases
<1>3. /\ j.pc = "check" /\ j.kind = jobs[w].kind /\ j.pass = jobs[w].pass
      /\ j.copy = jobs[w].copy /\ j.file = jobs[w].file /\ j.sum = jobs[w].sum
  BY <1>1 DEF Job
<1>4. jobs' = [jobs EXCEPT ![w] = j]
  BY DEF Dump
<1> HIDE DEF j
<1>5. /\ jobs' \in [Workers -> Job] /\ jobs'[w] = j
      /\ \A v \in Workers \ {w} : jobs'[v] = jobs[v]
  BY <1>1, <1>2, <1>4, OneJob
<1> QED
  BY <1>3, <1>5 DEF Same, j

LEMMA ChecksumEffect ==
  ASSUME ConfigInv, TypeInv, NEW w \in Workers, Checksum(w)
  PROVE  /\ jobs' \in [Workers -> Job] /\ Same(w)
         /\ jobs[w].file \in DOMAIN local
         /\ jobs'[w].copy \in Copies \cup {None}
         /\ jobs'[w].pc = (IF jobs'[w].copy = None THEN "record" ELSE "upload")
         /\ jobs'[w].kind = jobs[w].kind /\ jobs'[w].pass = jobs[w].pass
         /\ jobs'[w].file = jobs[w].file /\ jobs'[w].sum = local[jobs[w].file]
<1> DEFINE c == IF jobs[w].kind = "logical" THEN ResolveBackupTarget ELSE jobs[w].copy
           s == local[jobs[w].file]
           p == IF c = None THEN "record" ELSE "upload"
           j == [jobs[w] EXCEPT !.sum = s, !.copy = c, !.pc = p]
<1>1. jobs \in [Workers -> Job] /\ jobs[w].file \in DOMAIN local
  BY DEF TypeInv, ClockTyped, JobsTyped, FilesTyped, Checksum
<1>2. jobs[w].copy \in Copies \cup {None}
  BY <1>1 DEF Job
<1>3. c \in Copies \cup {None} /\ s \in Sums /\ p \in Phases
  BY <1>1, <1>2, ResolveTyped DEF TypeInv, ClockTyped, JobsTyped, FilesTyped, Phases
<1>4. jobs' = [jobs EXCEPT ![w].sum = s, ![w].copy = c, ![w].pc = p]
  BY DEF Checksum
<1> HIDE DEF c, s, p
<1>5. j \in Job
  BY <1>1, <1>3 DEF Job
<1>6. jobs' = [jobs EXCEPT ![w] = j]
  BY <1>1, <1>4
<1>7. j.pc = p /\ j.kind = jobs[w].kind /\ j.pass = jobs[w].pass /\ j.copy = c
      /\ j.file = jobs[w].file /\ j.sum = s
  BY <1>1 DEF Job
<1> HIDE DEF j
<1>8. /\ jobs' \in [Workers -> Job] /\ jobs'[w] = j
      /\ \A v \in Workers \ {w} : jobs'[v] = jobs[v]
  BY <1>1, <1>5, <1>6, OneJob
<1> QED
  BY <1>1, <1>3, <1>7, <1>8 DEF Same, p, s

LEMMA CommandEffect ==
  ASSUME TypeInv, NEW w \in Workers, ArchiveCommand(w)
  PROVE  /\ jobs' \in [Workers -> Job] /\ Same(w)
         /\ jobs'[w].pc = "rename" /\ jobs'[w].kind = "wal" /\ jobs'[w].pass = jobs[w].pass
         /\ jobs'[w].copy = jobs[w].copy /\ jobs'[w].sum = jobs[w].sum
         /\ jobs'[w].file \in FileNames
         /\ jobs'[w].file.kind = "wal" /\ jobs'[w].file.segment = segment.number
<1> DEFINE f == FileName("wal", jobs[w].file.second, segment.number)
           j == [jobs[w] EXCEPT !.pc = "rename", !.file = f]
<1>1. jobs \in [Workers -> Job] /\ jobs[w].pc = "command" /\ jobs[w].file \in FileNames
      /\ jobs[w].kind = "wal" /\ segment.number \in Nat
  BY DEF TypeInv, ClockTyped, JobsTyped, FilesTyped, Phased, ArchiveCommand
<1>2. f \in FileNames /\ f.kind = "wal" /\ f.segment = segment.number
  BY <1>1 DEF FileNames, FileName
<1>3. jobs' = [jobs EXCEPT ![w].pc = "rename", ![w].file = f]
  BY DEF ArchiveCommand
<1> HIDE DEF f
<1>4. j \in Job
  BY <1>1, <1>2 DEF Job, Phases
<1>5. jobs' = [jobs EXCEPT ![w] = j]
  BY <1>1, <1>3
<1>6. j.pc = "rename" /\ j.kind = jobs[w].kind /\ j.pass = jobs[w].pass /\ j.copy = jobs[w].copy
      /\ j.file = f /\ j.sum = jobs[w].sum
  BY <1>1 DEF Job
<1> HIDE DEF j
<1>7. /\ jobs' \in [Workers -> Job] /\ jobs'[w] = j
      /\ \A v \in Workers \ {w} : jobs'[v] = jobs[v]
  BY <1>1, <1>4, <1>5, OneJob
<1> QED
  BY <1>1, <1>2, <1>6, <1>7 DEF Same

LEMMA RenameEffect ==
  ASSUME TypeInv, NEW w \in Workers, Rename(w),
         NEW n, n = FileName("pending", jobs[w].file.second, 0)
  PROVE  /\ jobs' \in [Workers -> Job] /\ Same(w)
         /\ n \in DOMAIN local
         /\ jobs'[w].pc = (IF jobs'[w].copy = None THEN "record" ELSE "upload")
         /\ jobs'[w].copy = jobs[w].copy
         /\ jobs'[w].kind = jobs[w].kind /\ jobs'[w].pass = jobs[w].pass
         /\ jobs'[w].file = jobs[w].file /\ jobs'[w].sum = local[n]
<1> DEFINE s == local[n]
           p == IF jobs[w].copy = None THEN "record" ELSE "upload"
           j == [jobs[w] EXCEPT !.sum = s, !.pc = p]
<1>1. jobs \in [Workers -> Job] /\ n \in DOMAIN local
  BY DEF TypeInv, ClockTyped, JobsTyped, FilesTyped, Rename
<1>2. s \in Sums /\ p \in Phases
  BY <1>1 DEF TypeInv, ClockTyped, JobsTyped, FilesTyped, Phases
<1>3. jobs' = [jobs EXCEPT ![w].sum = s, ![w].pc = p]
  BY DEF Rename
<1> HIDE DEF s, p
<1>4. j \in Job
  BY <1>1, <1>2 DEF Job
<1>5. jobs' = [jobs EXCEPT ![w] = j]
  BY <1>1, <1>3
<1>6. j.pc = p /\ j.kind = jobs[w].kind /\ j.pass = jobs[w].pass /\ j.copy = jobs[w].copy
      /\ j.file = jobs[w].file /\ j.sum = s
  BY <1>1 DEF Job
<1> HIDE DEF j
<1>7. /\ jobs' \in [Workers -> Job] /\ jobs'[w] = j
      /\ \A v \in Workers \ {w} : jobs'[v] = jobs[v]
  BY <1>1, <1>4, <1>5, OneJob
<1> QED
  BY <1>1, <1>6, <1>7 DEF Same, p, s

LEMMA UploadEffect ==
  ASSUME TypeInv, NEW w \in Workers, Upload(w)
  PROVE  /\ jobs' \in [Workers -> Job] /\ Same(w)
         /\ jobs'[w].pc = "record" /\ jobs'[w].kind = jobs[w].kind /\ jobs'[w].pass = jobs[w].pass
         /\ jobs'[w].copy = jobs[w].copy /\ jobs'[w].file = jobs[w].file /\ jobs'[w].sum = jobs[w].sum
<1> DEFINE j == [jobs[w] EXCEPT !.pc = "record"]
<1>1. jobs \in [Workers -> Job]
  BY DEF TypeInv, ClockTyped, JobsTyped, FilesTyped
<1>2. j \in Job
  BY <1>1 DEF Job, Phases
<1>3. /\ j.pc = "record" /\ j.kind = jobs[w].kind /\ j.pass = jobs[w].pass
      /\ j.copy = jobs[w].copy /\ j.file = jobs[w].file /\ j.sum = jobs[w].sum
  BY <1>1 DEF Job
<1>4. jobs' = [jobs EXCEPT ![w] = j]
  BY DEF Upload
<1> HIDE DEF j
<1>5. /\ jobs' \in [Workers -> Job] /\ jobs'[w] = j
      /\ \A v \in Workers \ {w} : jobs'[v] = jobs[v]
  BY <1>1, <1>2, <1>4, OneJob
<1> QED
  BY <1>3, <1>5 DEF Same

\* The four steps that end a job: a record of either kind, a refusal, a
\* failure.
Ends(w, ok) == jobs' = [jobs EXCEPT ![w] = Ended(w, ok)]

LEMMA EndEffect ==
  ASSUME TypeInv, NEW w \in Workers, NEW ok \in BOOLEAN, Ends(w, ok)
  PROVE  /\ jobs' \in [Workers -> Job] /\ Same(w)
         /\ jobs'[w].pc \in {"idle", "mark", "archive"}
         /\ jobs'[w].pc # "idle" => w = Scheduler
         /\ jobs'[w].pc = "mark" => ok /\ jobs[w].kind # "wal" /\ jobs'[w].pass = jobs[w].pass
         /\ jobs'[w].pass \in {0, jobs[w].pass}
         /\ jobs'[w].sum = NoSum
<1>1. jobs \in [Workers -> Job]
  BY DEF TypeInv, ClockTyped, JobsTyped, FilesTyped
<1>2. Ended(w, ok) \in Job
  BY <1>1, EndedTyped
<1>3. /\ jobs' \in [Workers -> Job] /\ jobs'[w] = Ended(w, ok)
      /\ \A v \in Workers \ {w} : jobs'[v] = jobs[v]
  BY <1>1, <1>2, OneJob DEF Ends
<1> QED
  BY <1>1, <1>3, EndedTyped DEF Same

LEMMA BeginBackupEffect ==
  ASSUME ConfigInv, TypeInv, NEW w \in Workers, NEW k \in Kinds, NEW a \in Nat, BeginBackup(w, k, a)
  PROVE  /\ jobs' \in [Workers -> Job] /\ Same(w)
         /\ jobs'[w].pc = "dump" /\ jobs'[w].kind = k /\ jobs'[w].pass = a
         /\ jobs'[w].file = FileName(k, Unix(now), 0) /\ jobs'[w].file \in FileNames
         /\ jobs'[w].sum = NoSum
<1> DEFINE c == IF k = "physical" THEN ResolveBackupTarget ELSE None
           f == FileName(k, Unix(now), 0)
           j == [IdleJob EXCEPT !.pc = "dump", !.kind = k, !.pass = a, !.file = f, !.copy = c]
<1>1. jobs \in [Workers -> Job] /\ now \in Nat
  BY DEF TypeInv, ClockTyped, JobsTyped, FilesTyped
<1>2. c \in Copies \cup {None} /\ f \in FileNames
  BY <1>1, ResolveTyped, UnixNat DEF FileNames, FileName
<1>3. jobs' = [jobs EXCEPT ![w] = [IdleJob EXCEPT !.pc = "dump", !.kind = k, !.pass = a, !.file = f, !.copy = c]]
  BY DEF BeginBackup
<1> HIDE DEF c, f
<1>4. j \in Job
  BY <1>2, IdleTyped DEF Job, Phases
<1>5. jobs' = [jobs EXCEPT ![w] = j]
  BY <1>3
<1>6. j.pc = "dump" /\ j.kind = k /\ j.pass = a /\ j.file = f /\ j.sum = NoSum
  BY IdleTyped DEF Job, IdleJob
<1> HIDE DEF j
<1>7. /\ jobs' \in [Workers -> Job] /\ jobs'[w] = j
      /\ \A v \in Workers \ {w} : jobs'[v] = jobs[v]
  BY <1>1, <1>4, <1>5, OneJob
<1> QED
  BY <1>2, <1>6, <1>7 DEF Same, f

LEMMA BeginArchiveEffect ==
  ASSUME ConfigInv, TypeInv, NEW w \in Workers, BeginArchive(w)
  PROVE  /\ jobs' \in [Workers -> Job] /\ Same(w)
         /\ jobs'[w].pc = "command" /\ jobs'[w].kind = "wal" /\ jobs'[w].pass = 0
         /\ jobs'[w].file \in FileNames /\ jobs'[w].file.kind = "pending"
         /\ jobs'[w].sum = NoSum
<1> DEFINE c == ResolveBackupTarget
           f == FileName("pending", Unix(now), 0)
           j == [IdleJob EXCEPT !.pc = "command", !.kind = "wal", !.copy = c, !.file = f]
<1>1. jobs \in [Workers -> Job] /\ now \in Nat
  BY DEF TypeInv, ClockTyped, JobsTyped, FilesTyped
<1>2. c \in Copies \cup {None} /\ f \in FileNames /\ f.kind = "pending"
  BY <1>1, ResolveTyped, UnixNat DEF FileNames, FileName
<1>3. jobs' = [jobs EXCEPT ![w] = [IdleJob EXCEPT !.pc = "command", !.kind = "wal", !.copy = c, !.file = f]]
  BY DEF BeginArchive
<1> HIDE DEF c, f
<1>4. j \in Job
  BY <1>2, IdleTyped DEF Job, Phases
<1>5. jobs' = [jobs EXCEPT ![w] = j]
  BY <1>3
<1>6. j.pc = "command" /\ j.kind = "wal" /\ j.pass = 0 /\ j.file = f /\ j.sum = NoSum
  BY IdleTyped DEF Job, IdleJob
<1> HIDE DEF j
<1>7. /\ jobs' \in [Workers -> Job] /\ jobs'[w] = j
      /\ \A v \in Workers \ {w} : jobs'[v] = jobs[v]
  BY <1>1, <1>4, <1>5, OneJob
<1> QED
  BY <1>2, <1>6, <1>7 DEF Same

\* The scheduler between two stages of its pass.
LEMMA StageEffect ==
  ASSUME TypeInv, NEW p \in {"idle", "archive"}, NEW j \in {IdleJob, jobs[Scheduler]},
         jobs' = [jobs EXCEPT ![Scheduler] = [j EXCEPT !.pc = p]]
  PROVE  /\ jobs' \in [Workers -> Job] /\ Same(Scheduler)
         /\ jobs'[Scheduler].pc = p /\ jobs'[Scheduler].pass = j.pass
         /\ jobs'[Scheduler].sum = j.sum
<1>1. jobs \in [Workers -> Job] /\ Scheduler \in Workers
  BY DEF TypeInv, ClockTyped, JobsTyped, FilesTyped, Workers
<1>2. j \in Job
  BY <1>1, IdleTyped
<1> DEFINE i == [j EXCEPT !.pc = p]
<1>3. i \in Job /\ i.pc = p /\ i.pass = j.pass /\ i.sum = j.sum
  BY <1>2 DEF Job, Phases
<1>4. jobs' = [jobs EXCEPT ![Scheduler] = i]
  OBVIOUS
<1> HIDE DEF i
<1>5. /\ jobs' \in [Workers -> Job] /\ jobs'[Scheduler] = i
      /\ \A v \in Workers \ {Scheduler} : jobs'[v] = jobs[v]
  BY <1>1, <1>3, <1>4, OneJob
<1> QED
  BY <1>3, <1>5 DEF Same

\* The parts of the types that a step leaves alone.
LEMMA Unmoved ==
  ASSUME TypeInv
  PROVE  /\ UNCHANGED <<now, segment, policy>> => ClockTyped'
         /\ UNCHANGED jobs => JobsTyped'
         /\ UNCHANGED <<backups, wals>> => RecordsTyped'
         /\ UNCHANGED <<local, remote>> => FilesTyped'
         /\ UNCHANGED restore => RestoreTyped'
<1>1. UNCHANGED <<now, segment, policy>> => ClockTyped'
  BY DEF TypeInv, ClockTyped
<1>2. UNCHANGED jobs => JobsTyped'
  BY DEF TypeInv, JobsTyped, Phased
<1>3. UNCHANGED <<backups, wals>> => RecordsTyped'
  BY DEF TypeInv, RecordsTyped
<1>4. UNCHANGED <<local, remote>> => FilesTyped'
  BY DEF TypeInv, FilesTyped
<1>5. UNCHANGED restore => RestoreTyped'
  BY DEF TypeInv, RestoreTyped
<1> QED
  BY <1>1, <1>2, <1>3, <1>4, <1>5

\* A file or an object was written.
LEMMA Written ==
  ASSUME NEW fs, NEW n, NEW c
  PROVE  /\ DOMAIN Write(fs, n, c) = DOMAIN fs \cup {n}
         /\ Write(fs, n, c)[n] = c
         /\ \A m \in DOMAIN fs \ {n} : Write(fs, n, c)[m] = fs[m]
  BY DEF Write

\* A worker moved on to a job that is as its phase demands.
LEMMA Moved ==
  ASSUME TypeInv, NEW w \in Workers, jobs' \in [Workers -> Job], Same(w), Phased(w)'
  PROVE  JobsTyped'
<1>1. \A v \in Workers \ {w} : Phased(v)'
  BY DEF TypeInv, JobsTyped, Same, Phased
<1> QED
  BY <1>1 DEF JobsTyped

LEMMA RunTyped == \A t \in Nat : NextBackupRun(t) \in Nat
  BY TimeAssumption DEF NextBackupRun

LEMMA BackupTyped ==
  ASSUME ConfigInv, TypeInv, NEW w \in Workers, NEW k \in Kinds, NEW a \in Nat, BeginBackup(w, k, a)
  PROVE  JobsTyped'
<1>1. Phased(w)'
  BY BeginBackupEffect DEF Phased
<1> QED
  BY <1>1, BeginBackupEffect, Moved

LEMMA ArchiveTyped ==
  ASSUME ConfigInv, TypeInv, NEW w \in Workers, BeginArchive(w)
  PROVE  JobsTyped'
<1>1. Phased(w)'
  BY BeginArchiveEffect DEF Phased
<1> QED
  BY <1>1, BeginArchiveEffect, Moved

LEMMA EndTyped ==
  ASSUME TypeInv, NEW w \in Workers, NEW ok \in BOOLEAN, Ends(w, ok)
  PROVE  JobsTyped'
<1>1. Phased(w)'
  BY EndEffect DEF Phased
<1> QED
  BY <1>1, EndEffect, Moved

LEMMA WriteTyped ==
  ASSUME NEW fs, \A m \in DOMAIN fs : fs[m] \in Sums, NEW n, NEW c \in Sums
  PROVE  \A m \in DOMAIN Write(fs, n, c) : Write(fs, n, c)[m] \in Sums
  BY DEF Write

LEMMA WorkTyped ==
  ASSUME ConfigInv, TypeInv, NEW w \in Workers, Work(w)
  PROVE  TypeInv'
<1> USE DEF config, records, files, ghosts
<1>1. CASE Dump(w)
  <2>1. Phased(w)'
    BY <1>1, DumpEffect DEF Phased, TypeInv, JobsTyped, Dump
  <2>2. [from |-> 0, to |-> now] \in Sums
    BY DEF TypeInv, ClockTyped, Sums
  <2>3. FilesTyped'
    BY <1>1, <2>2, WriteTyped DEF Dump, TypeInv, FilesTyped
  <2> QED
    BY <1>1, <2>1, <2>3, DumpEffect, Moved, Unmoved DEF Dump, TypeInv
<1>2. CASE Checksum(w)
  <2>1. jobs[w].kind \in Kinds /\ jobs[w].file \in FileNames
    BY <1>2 DEF Phased, TypeInv, JobsTyped, Checksum
  <2>2. Phased(w)'
    BY <1>2, <2>1, ChecksumEffect DEF Phased
  <2> QED
    BY <1>2, <2>2, ChecksumEffect, Moved, Unmoved DEF Checksum, TypeInv
<1>3. CASE ArchiveCommand(w)
  <2>1. Phased(w)'
    BY <1>3, CommandEffect DEF Phased
  <2>2. [from |-> segment.first, to |-> now] \in Sums
    BY DEF TypeInv, ClockTyped, Sums
  <2>3. FilesTyped'
    BY <1>3, <2>2, WriteTyped DEF ArchiveCommand, TypeInv, FilesTyped
  <2>4. ClockTyped'
    BY <1>3 DEF ArchiveCommand, Switch, TypeInv, ClockTyped
  <2> QED
    BY <1>3, <2>1, <2>3, <2>4, CommandEffect, Moved, Unmoved DEF ArchiveCommand, TypeInv
<1>4. CASE Rename(w)
  <2> DEFINE pending == FileName("pending", jobs[w].file.second, 0)
             rest == [n \in DOMAIN local \ {pending} |-> local[n]]
  <2> HIDE DEF pending
  <2>1. /\ jobs' \in [Workers -> Job] /\ Same(w)
        /\ pending \in DOMAIN local
        /\ jobs'[w].pc = (IF jobs'[w].copy = None THEN "record" ELSE "upload")
        /\ jobs'[w].copy = jobs[w].copy
        /\ jobs'[w].kind = jobs[w].kind /\ jobs'[w].file = jobs[w].file
    BY <1>4, RenameEffect DEF pending
  <2>2. Phased(w)'
    <3>1. jobs'[w].copy \in Copies \cup {None}
      BY <2>1 DEF Job
    <3> QED
      BY <1>4, <2>1, <3>1 DEF Phased, TypeInv, JobsTyped, Rename
  <2>3. local' = Write(rest, jobs[w].file, local[pending])
    BY <1>4 DEF Rename, pending
  <2>4. \A n \in DOMAIN rest : rest[n] \in Sums
    BY DEF TypeInv, FilesTyped
  <2>5. local[pending] \in Sums
    BY <2>1 DEF TypeInv, FilesTyped
  <2> HIDE DEF rest
  <2>6. FilesTyped'
    BY <1>4, <2>3, <2>4, <2>5, WriteTyped DEF Rename, TypeInv, FilesTyped
  <2> QED
    BY <1>4, <2>1, <2>2, <2>6, Moved, Unmoved DEF Rename, TypeInv
<1>5. CASE Upload(w)
  <2> DEFINE b == jobs[w].copy.bucket
             next == Write(remote[b], jobs[w].file, local[jobs[w].file])
  <2>1. Phased(w)'
    BY <1>5, UploadEffect DEF Phased, TypeInv, JobsTyped, Upload
  <2>2. b \in Buckets /\ local[jobs[w].file] \in Sums /\ \A n \in DOMAIN remote[b] : remote[b][n] \in Sums
    BY <1>5 DEF Upload, TypeInv, JobsTyped, Phased, Copies, FilesTyped
  <2>3. remote' = [remote EXCEPT ![b] = next]
    BY <1>5 DEF Upload
  <2>4. \A n \in DOMAIN next : next[n] \in Sums
    BY <2>2, WriteTyped
  <2> HIDE DEF b, next
  <2>5. FilesTyped'
    BY <1>5, <2>2, <2>3, <2>4 DEF Upload, TypeInv, FilesTyped
  <2> QED
    BY <1>5, <2>1, <2>5, UploadEffect, Moved, Unmoved DEF Upload, TypeInv
<1>6. CASE CreateBackup(w) \/ CreateWALArchive(w)
  <2>1. Ends(w, TRUE)
    BY <1>6 DEF CreateBackup, CreateWALArchive, Ends
  <2>2. NewRecord(w) \in Entry
    <3>1. jobs[w] \in Job /\ jobs[w].kind \in Kinds \cup {"wal"} /\ jobs[w].file \in FileNames /\ now \in Nat
      BY <1>6 DEF CreateBackup, CreateWALArchive, TypeInv, JobsTyped, Phased, ClockTyped
    <3> QED
      BY <3>1 DEF NewRecord, Entry, Job
  <2>3. RecordsTyped'
    BY <1>6, <2>2 DEF CreateBackup, CreateWALArchive, TypeInv, RecordsTyped
  <2> QED
    BY <1>6, <2>1, <2>3, EndTyped, Unmoved DEF CreateBackup, CreateWALArchive, TypeInv
<1>7. CASE JobRefused(w)
  BY <1>7, EndTyped, Unmoved DEF JobRefused, Ends, TypeInv
<1>8. CASE JobFails(w)
  <2>1. Ends(w, FALSE)
    BY <1>8 DEF JobFails, Ends
  <2>2. ClockTyped'
    BY <1>8 DEF JobFails, Switch, TypeInv, ClockTyped
  <2> QED
    BY <1>8, <2>1, <2>2, EndTyped, Unmoved DEF JobFails, TypeInv
<1> QED
  BY <1>1, <1>2, <1>3, <1>4, <1>5, <1>6, <1>7, <1>8 DEF Work

LEMMA ConfigureTyped ==
  ASSUME TypeInv, Configure
  PROVE  TypeInv' /\ now' = now /\ UNCHANGED <<records, files, segment, jobs, restore, ghosts>>
<1>1. UNCHANGED <<now, records, files, segment, jobs, restore, ghosts>>
  BY DEF Configure, CreateBackupStorageTarget, UpdateBackupStorageTarget, DeleteBackupStorageTarget,
         BeginTest, UpdateBackupStorageTargetTestResult, UpdateBackupPolicy, UpdatePITRPolicy
<1> DEFINE Policies == [enabled : BOOLEAN, kind : Kinds, target : Targets \cup {None}, next : Int]
<1>2. policy' \in Policies
  <2>0. policy \in Policies /\ now \in Nat
    BY DEF TypeInv, ClockTyped
  <2>1. CASE \E t \in Targets : DeleteBackupStorageTarget(t)
    BY <2>0, <2>1 DEF DeleteBackupStorageTarget
  <2>2. CASE \E enabled \in BOOLEAN, kind \in Kinds, t \in Targets \cup {None} : UpdateBackupPolicy(enabled, kind, t)
    <3>1. PICK enabled \in BOOLEAN, kind \in Kinds, t \in Targets \cup {None} : UpdateBackupPolicy(enabled, kind, t)
      BY <2>2
    <3> DEFINE n == IF enabled THEN NextBackupRun(now) ELSE Nil
    <3>2. n \in Int
      BY <2>0, RunTyped DEF Nil
    <3>3. policy' = [enabled |-> enabled, kind |-> kind, target |-> t, next |-> n]
      BY <3>1 DEF UpdateBackupPolicy
    <3> HIDE DEF n
    <3> QED
      BY <3>2, <3>3
  <2>3. CASE UNCHANGED policy
    BY <2>0, <2>3
  <2> QED
    BY <2>1, <2>2, <2>3 DEF Configure, CreateBackupStorageTarget, UpdateBackupStorageTarget,
         BeginTest, UpdateBackupStorageTargetTestResult, UpdatePITRPolicy
<1>3. ClockTyped'
  BY <1>1, <1>2 DEF TypeInv, ClockTyped
<1> QED
  BY <1>1, <1>3, Unmoved DEF TypeInv, records, files

LEMMA PassTyped ==
  ASSUME ConfigInv, TypeInv, BeginPass \/ MarkBackupPolicyRun \/ ArchiveStage
  PROVE  TypeInv'
<1> USE DEF config, records, files, ghosts
<1>1. Scheduler \in Workers
  BY DEF Workers
<1>2. ASSUME NEW p \in {"idle", "archive"}, NEW j \in {IdleJob, jobs[Scheduler]},
             jobs' = [jobs EXCEPT ![Scheduler] = [j EXCEPT !.pc = p]]
      PROVE  JobsTyped'
  <2>1. Phased(Scheduler)'
    BY <1>2, StageEffect DEF Phased
  <2> QED
    BY <1>1, <1>2, <2>1, StageEffect, Moved
<1>3. CASE BeginPass
  <2>1. policy.kind \in Kinds /\ now \in Nat
    BY DEF TypeInv, ClockTyped
  <2>2. CASE BeginBackup(Scheduler, policy.kind, now)
    BY <1>1, <1>3, <2>1, <2>2, BackupTyped, Unmoved DEF BeginPass, TypeInv
  <2>3. CASE jobs' = [jobs EXCEPT ![Scheduler].pc = "archive"]
    <3>1. JobsTyped'
      BY <1>2, <2>3
    <3> QED
      BY <1>3, <3>1, Unmoved DEF BeginPass, TypeInv
  <2> QED
    BY <1>3, <2>2, <2>3 DEF BeginPass
<1>4. CASE MarkBackupPolicyRun
  <2>1. JobsTyped'
    BY <1>2, <1>4 DEF MarkBackupPolicyRun
  <2>2. jobs[Scheduler].pass \in Nat
    BY <1>1 DEF TypeInv, JobsTyped, Job
  <2>3. NextBackupRun(jobs[Scheduler].pass) \in Int
    BY <2>2, RunTyped
  <2>4. ClockTyped'
    BY <1>4, <2>3 DEF MarkBackupPolicyRun, TypeInv, ClockTyped
  <2> QED
    BY <1>4, <2>1, <2>4, Unmoved DEF MarkBackupPolicyRun, TypeInv
<1>5. CASE ArchiveStage
  <2>1. CASE BeginArchive(Scheduler)
    BY <1>1, <1>5, <2>1, ArchiveTyped, Unmoved DEF ArchiveStage, TypeInv
  <2>2. CASE jobs' = [jobs EXCEPT ![Scheduler] = IdleJob]
    <3>1. IdleJob = [IdleJob EXCEPT !.pc = "idle"]
      BY DEF IdleJob
    <3>2. JobsTyped'
      BY <1>2, <2>2, <3>1
    <3> QED
      BY <1>5, <3>2, Unmoved DEF ArchiveStage, TypeInv
  <2> QED
    BY <1>5, <2>1, <2>2 DEF ArchiveStage
<1> QED
  BY <1>3, <1>4, <1>5

\* Where a fetched file comes from.
LEMMA FetchTyped ==
  ASSUME TypeInv, NEW r \in Entry
  PROVE  /\ DOMAIN local \subseteq DOMAIN Fetched(r)
         /\ DOMAIN Fetched(r) \subseteq DOMAIN local \cup {r.file}
         /\ \A n \in DOMAIN local : Fetched(r)[n] = local[n]
         /\ r.file \in DOMAIN Fetched(r) \ DOMAIN local
              => /\ r.copy \in Copies /\ r.copy.bucket \in Buckets
                 /\ r.file \in DOMAIN remote[r.copy.bucket]
                 /\ Fetched(r)[r.file] = remote[r.copy.bucket][r.file]
         /\ \A n \in DOMAIN Fetched(r) : Fetched(r)[n] \in Sums
<1>1. r.copy \in Copies \cup {None}
  BY DEF Entry
<1>2. CASE r.file \in DOMAIN local \/ ~Downloadable(r)
  BY <1>2 DEF Fetched, TypeInv, FilesTyped
<1>3. CASE r.file \notin DOMAIN local /\ Downloadable(r)
  <2>1. r.copy \in Copies /\ r.copy.bucket \in Buckets /\ r.file \in DOMAIN remote[r.copy.bucket]
    BY <1>1, <1>3 DEF Downloadable, Copies
  <2>2. Fetched(r) = Write(local, r.file, remote[r.copy.bucket][r.file])
    BY <1>3 DEF Fetched
  <2>3. remote[r.copy.bucket][r.file] \in Sums /\ \A n \in DOMAIN local : local[n] \in Sums
    BY <2>1 DEF TypeInv, FilesTyped
  <2>4. /\ DOMAIN Fetched(r) = DOMAIN local \cup {r.file}
        /\ Fetched(r)[r.file] = remote[r.copy.bucket][r.file]
        /\ \A n \in DOMAIN local \ {r.file} : Fetched(r)[n] = local[n]
    BY <2>2 DEF Write
  <2>5. \A n \in DOMAIN local : n # r.file
    BY <1>3
  <2>6. \A n \in DOMAIN Fetched(r) : Fetched(r)[n] \in Sums
    BY <2>3, <2>4, <2>5
  <2> QED
    BY <2>1, <2>4, <2>5, <2>6
<1> QED
  BY <1>2, <1>3

LEMMA RestoreStepTyped ==
  ASSUME TypeInv, Restore
  PROVE  TypeInv' /\ UNCHANGED <<now, config, records, remote, segment, jobs, ghosts>>
<1> USE DEF config, records, files, ghosts
<1>1. UNCHANGED <<now, config, records, remote, segment, jobs, ghosts>>
  BY DEF Restore, BeginRestoreBackup, BeginRestoreToTime, Select, EnsureBackupArtifact,
         EnsureWALArchiveArtifact, RestoreRefused, RunRestoreCommand
<1>2. IdleRestore \in RestoreJob /\ IdleRestore.pc = "idle"
  BY IdleTyped DEF IdleRestore
<1>3. restore \in RestoreJob /\ (restore.pc = "base" => restore.base \in Entry)
  BY DEF TypeInv, RestoreTyped
<1>4. RestoreTyped' /\ FilesTyped'
  <2>1. ASSUME NEW b \in backups, BeginRestoreBackup(b)
        PROVE  RestoreTyped' /\ FilesTyped'
    <3>1. b \in Entry
      BY DEF TypeInv, RecordsTyped
    <3>2. b.created \in Nat
      BY <3>1 DEF Entry
    <3>3. Unix(b.created) \in Nat
      BY <3>2, UnixNat
    <3> DEFINE i == [IdleRestore EXCEPT !.pc = "base", !.kind = "logical", !.base = b, !.time = Unix(b.created)]
    <3>4. i \in RestoreJob /\ i.base = b
      BY <1>2, <3>1, <3>3 DEF RestoreJob
    <3>5. restore' = i
      BY <2>1 DEF BeginRestoreBackup
    <3> HIDE DEF i
    <3> QED
      BY <2>1, <3>1, <3>4, <3>5, Unmoved DEF RestoreTyped, BeginRestoreBackup
  <2>2. ASSUME NEW s \in 0..Unix(MaxTime), BeginRestoreToTime(s)
        PROVE  RestoreTyped' /\ FilesTyped'
    <3> DEFINE i == [IdleRestore EXCEPT !.pc = "select", !.kind = "pitr", !.time = s]
    <3>1. s \in Nat
      BY UnixNat, TimeAssumption
    <3>2. i \in RestoreJob /\ i.pc = "select"
      BY <1>2, <3>1 DEF RestoreJob
    <3>3. restore' = i
      BY <2>2 DEF BeginRestoreToTime
    <3> HIDE DEF i
    <3> QED
      BY <2>2, <3>2, <3>3, Unmoved DEF RestoreTyped, BeginRestoreToTime
  <2>3. ASSUME NEW b \in backups, Select(b)
        PROVE  RestoreTyped' /\ FilesTyped'
    <3> DEFINE range == WALsInRange(b.created, restore.time * PerSecond)
               i == [restore EXCEPT !.pc = "base", !.base = b, !.wals = range, !.todo = range]
    <3>1. b \in Entry /\ range \in SUBSET Entry
      BY DEF TypeInv, RecordsTyped, WALsInRange
    <3> HIDE DEF range
    <3>2. i \in RestoreJob /\ i.base = b
      BY <1>3, <3>1 DEF RestoreJob
    <3>3. restore' = i
      BY <2>3 DEF Select, range
    <3> HIDE DEF i
    <3> QED
      BY <2>3, <3>1, <3>2, <3>3, Unmoved DEF RestoreTyped, Select
  <2>4. ASSUME EnsureBackupArtifact
        PROVE  RestoreTyped' /\ FilesTyped'
    <3> DEFINE r == restore.base
               c == Fetched(r)[r.file]
               p == IF restore.kind = "pitr" THEN "wals" ELSE "run"
               i == [restore EXCEPT !.pc = p, !.seen = {c}]
    <3>1. r \in Entry
      BY <1>3, <2>4 DEF EnsureBackupArtifact
    <3>2. \A n \in DOMAIN Fetched(r) : Fetched(r)[n] \in Sums
      BY <3>1, FetchTyped
    <3>3. FilesTyped'
      BY <2>4, <3>2 DEF EnsureBackupArtifact, TypeInv, FilesTyped
    <3>4. restore' = IdleRestore \/ (r.file \in DOMAIN Fetched(r) /\ restore' = i)
      BY <2>4 DEF EnsureBackupArtifact, Sound
    <3>5. r.file \in DOMAIN Fetched(r) => c \in Sums
      BY <3>2
    <3>6. p \in {"wals", "run"}
      OBVIOUS
    <3> HIDE DEF c, p, r
    <3>7. c \in Sums => i \in RestoreJob /\ i.pc = p
      BY <1>3, <3>6 DEF RestoreJob
    <3> HIDE DEF i
    <3> QED
      BY <1>2, <3>3, <3>4, <3>5, <3>6, <3>7 DEF RestoreTyped
  <2>5. ASSUME NEW r \in restore.todo, EnsureWALArchiveArtifact(r)
        PROVE  RestoreTyped' /\ FilesTyped'
    <3> DEFINE c == Fetched(r)[r.file]
               left == restore.todo \ {r}
               p == IF left = {} THEN "run" ELSE "wals"
               n == restore.seen \cup {c}
               i == [restore EXCEPT !.todo = left, !.pc = p, !.seen = n]
    <3>1. r \in Entry
      BY <1>3 DEF RestoreJob
    <3>2. \A m \in DOMAIN Fetched(r) : Fetched(r)[m] \in Sums
      BY <3>1, FetchTyped
    <3>3. FilesTyped'
      BY <2>5, <3>2 DEF EnsureWALArchiveArtifact, TypeInv, FilesTyped
    <3>4. restore' = IdleRestore \/ (r.file \in DOMAIN Fetched(r) /\ restore' = i)
      BY <2>5 DEF EnsureWALArchiveArtifact, Sound
    <3>5. r.file \in DOMAIN Fetched(r) => c \in Sums
      BY <3>2
    <3>6. p \in {"wals", "run"}
      OBVIOUS
    <3> HIDE DEF c, p
    <3>7. restore.todo \in SUBSET Entry /\ restore.seen \in SUBSET Sums
      BY <1>3 DEF RestoreJob
    <3>8. left \in SUBSET Entry /\ (c \in Sums => n \in SUBSET Sums)
      BY <3>7
    <3> HIDE DEF left, n
    <3>9. c \in Sums => i \in RestoreJob /\ i.pc = p
      BY <1>3, <3>6, <3>8 DEF RestoreJob
    <3> HIDE DEF i
    <3> QED
      BY <1>2, <3>3, <3>4, <3>5, <3>6, <3>9 DEF RestoreTyped
  <2>6. ASSUME RestoreRefused \/ RunRestoreCommand
        PROVE  RestoreTyped' /\ FilesTyped'
    BY <1>2, <2>6, Unmoved DEF RestoreRefused, RunRestoreCommand, RestoreTyped
  <2> QED
    BY <2>1, <2>2, <2>3, <2>4, <2>5, <2>6 DEF Restore
<1> QED
  BY <1>1, <1>4, Unmoved DEF TypeInv

LEMMA CrashJobs == ASSUME Crash PROVE jobs' \in [Workers -> Job] /\ \A w \in Workers : jobs'[w] = IdleJob
  BY IdleTyped DEF Crash

LEMMA EnvironmentTyped ==
  ASSUME TypeInv, Tick \/ Crash \/ \E n \in DOMAIN local : LoseLocal(n)
  PROVE  TypeInv'
<1> USE DEF config, records, files, ghosts
<1>1. CASE Tick
  <2>1. ClockTyped'
    BY <1>1 DEF Tick, TypeInv, ClockTyped
  <2> QED
    BY <1>1, <2>1, Unmoved DEF Tick, TypeInv
<1>2. CASE Crash
  <2>1. JobsTyped'
    BY <1>2, CrashJobs DEF JobsTyped, Phased, IdleJob
  <2>2. RestoreTyped'
    BY <1>2, IdleTyped DEF Crash, RestoreTyped, IdleRestore
  <2> QED
    BY <1>2, <2>1, <2>2, Unmoved DEF Crash, TypeInv
<1>3. CASE \E n \in DOMAIN local : LoseLocal(n)
  <2>1. FilesTyped'
    BY <1>3 DEF LoseLocal, TypeInv, FilesTyped
  <2> QED
    BY <1>3, <2>1, Unmoved DEF LoseLocal, TypeInv
<1> QED
  BY <1>1, <1>2, <1>3

LEMMA NextTyped == ASSUME ConfigInv, TypeInv, [Next]_vars PROVE TypeInv'
<1>1. CASE Configure
  BY <1>1, ConfigureTyped
<1>2. CASE \E h \in Handlers : TriggerBackup(h)
  <2>1. policy.kind \in Kinds /\ 0 \in Nat /\ Handlers \subseteq Workers
    BY DEF TypeInv, ClockTyped, Workers
  <2>2. JobsTyped'
    BY <1>2, <2>1, BackupTyped DEF TriggerBackup
  <2> QED
    BY <1>2, <2>2, Unmoved DEF TriggerBackup, TypeInv, config, records, files
<1>3. CASE \E h \in Handlers : ArchiveWAL(h)
  <2>1. JobsTyped'
    BY <1>3, ArchiveTyped DEF ArchiveWAL, Workers
  <2> QED
    BY <1>3, <2>1, Unmoved DEF ArchiveWAL, TypeInv, config, records, files
<1>4. CASE \E w \in Workers : Work(w)
  BY <1>4, WorkTyped
<1>5. CASE BeginPass \/ MarkBackupPolicyRun \/ ArchiveStage
  BY <1>5, PassTyped
<1>6. CASE Restore
  BY <1>6, RestoreStepTyped
<1>7. CASE Tick \/ Crash \/ \E n \in DOMAIN local : LoseLocal(n)
  BY <1>7, EnvironmentTyped
<1>8. CASE UNCHANGED vars
  BY <1>8, Unmoved DEF TypeInv, vars, config, records, files
<1> QED
  BY <1>1, <1>2, <1>3, <1>4, <1>5, <1>6, <1>7, <1>8 DEF Next

----------------------------------------------------------------------------
(***************************************************************************)
(* File names.  A backup holds the name it took from the dump to its       *)
(* record, an archive that of its segment from the command on.             *)
(***************************************************************************)
\* More than one backup took this name.
SharedIn(names, n) == n \in DOMAIN names /\ names[n] # 1
Shared(n) == SharedIn(taken, n)

HoldsBackup(w) == jobs[w].pc \in {"dump", "check", "upload", "record"} /\ jobs[w].kind \in Kinds
HoldsSegment(w) == jobs[w].pc \in {"rename", "upload", "record"} /\ jobs[w].kind = "wal"
Holds(w) == HoldsBackup(w) \/ HoldsSegment(w)

\* The names of backups are noted as taken, those of WAL archives carry the
\* number of a segment that was closed.
Named ==
  /\ \A n \in DOMAIN taken : n.kind \in Kinds
  /\ \A w \in Workers : HoldsBackup(w) => jobs[w].file \in DOMAIN taken
  /\ \A w \in Workers : HoldsSegment(w) => jobs[w].file.kind = "wal" /\ jobs[w].file.segment < segment.number
  /\ \A r \in backups : r.file \in DOMAIN taken
  /\ \A r \in wals : r.file.kind = "wal" /\ r.file.segment < segment.number

\* Two holders of a name, or a holder and a record, share it.
Apart ==
  /\ \A v, w \in Workers : v # w /\ Holds(v) /\ Holds(w) /\ jobs[v].file = jobs[w].file
       => Shared(jobs[w].file)
  /\ \A r \in backups \cup wals, w \in Workers : Holds(w) /\ jobs[w].file = r.file => Shared(r.file)

NamesInv == Named /\ Apart

\* A worker goes on with the file it holds, or lets go of it.
LEMMA HeldOn ==
  ASSUME TypeInv, NamesInv, NEW w \in Workers, Same(w), segment'.number \in Nat,
         UNCHANGED <<taken, records>>, segment.number <= segment'.number,
         HoldsBackup(w)' => HoldsBackup(w) /\ jobs'[w].file = jobs[w].file,
         HoldsSegment(w)' => HoldsSegment(w) /\ jobs'[w].file = jobs[w].file,
         HoldsSegment(w) => jobs[w].file \in FileNames
  PROVE  NamesInv'
<1>1. \A v \in Workers : /\ HoldsBackup(v)' => HoldsBackup(v) /\ jobs'[v].file = jobs[v].file
                         /\ HoldsSegment(v)' => HoldsSegment(v) /\ jobs'[v].file = jobs[v].file
  BY DEF Same, HoldsBackup, HoldsSegment
<1>2. \A v \in Workers : HoldsSegment(v) => jobs[v].file.segment \in Nat
  BY DEF TypeInv, JobsTyped, Phased, HoldsSegment, FileNames
<1>3. \A r \in wals : r.file.segment \in Nat
  BY DEF TypeInv, RecordsTyped, Entry, FileNames
<1>4. segment.number \in Nat /\ backups' = backups /\ wals' = wals /\ taken' = taken
  BY DEF TypeInv, ClockTyped, records
<1>5. \A v \in Workers : HoldsSegment(v)' =>
         jobs'[v].file.kind = "wal" /\ jobs'[v].file.segment < segment'.number
  BY <1>1, <1>2, <1>4 DEF NamesInv, Named
<1>6. \A r \in wals' : r.file.kind = "wal" /\ r.file.segment < segment'.number
  BY <1>3, <1>4 DEF NamesInv, Named
<1>7. \A v \in Workers : HoldsBackup(v)' => jobs'[v].file \in DOMAIN taken'
  BY <1>1, <1>4 DEF NamesInv, Named
<1>8. Named'
  BY <1>4, <1>5, <1>6, <1>7 DEF NamesInv, Named
<1>9. \A v \in Workers : Holds(v)' => Holds(v) /\ jobs'[v].file = jobs[v].file
  BY <1>1 DEF Holds
<1>10. \A n : SharedIn(taken', n) <=> SharedIn(taken, n)
  BY <1>4 DEF SharedIn
<1>11. Apart'
  BY <1>4, <1>9, <1>10 DEF NamesInv, Apart, Shared
<1> QED
  BY <1>8, <1>11 DEF NamesInv

\* A backup begins: whoever holds or recorded its name shares it with it.
LEMMA BackupNamed ==
  ASSUME ConfigInv, TypeInv, NamesInv, NEW w \in Workers, NEW k \in Kinds, NEW a \in Nat,
         BeginBackup(w, k, a), UNCHANGED <<records, segment>>
  PROVE  NamesInv' /\ \A n : SharedIn(taken, n) => SharedIn(taken', n)
<1> DEFINE name == FileName(k, Unix(now), 0)
           count == IF name \in DOMAIN taken THEN 2 ELSE 1
<1>1. jobs'[w].pc = "dump" /\ jobs'[w].kind = k /\ jobs'[w].file = name /\ Same(w)
  BY BeginBackupEffect
<1>2. name.kind = k
  BY DEF FileName
<1> HIDE DEF name
<1>3. taken' = Write(taken, name, count)
  BY DEF BeginBackup, Take, name
<1>4. /\ DOMAIN taken' = DOMAIN taken \cup {name} /\ taken'[name] = count
      /\ \A n \in DOMAIN taken \ {name} : taken'[n] = taken[n]
  BY <1>3 DEF Write
<1>5. \A n : SharedIn(taken, n) => SharedIn(taken', n)
  BY <1>4 DEF SharedIn
<1>6. name \in DOMAIN taken => SharedIn(taken', name)
  BY <1>4 DEF SharedIn
<1>7. backups' = backups /\ wals' = wals /\ segment' = segment /\ "wal" \notin Kinds
  BY DEF records, Kinds
<1>8. HoldsBackup(w)' /\ ~HoldsSegment(w)'
  BY <1>1, <1>7 DEF HoldsBackup, HoldsSegment
<1>9. \A v \in Workers \ {w} : /\ HoldsBackup(v)' <=> HoldsBackup(v)
                               /\ HoldsSegment(v)' <=> HoldsSegment(v)
                               /\ jobs'[v].file = jobs[v].file
  BY <1>1 DEF Same, HoldsBackup, HoldsSegment
<1>10. Named'
  <2>1. \A n \in DOMAIN taken' : n.kind \in Kinds
    BY <1>2, <1>4 DEF NamesInv, Named
  <2>2. \A v \in Workers : HoldsBackup(v)' => jobs'[v].file \in DOMAIN taken'
    BY <1>1, <1>4, <1>9 DEF NamesInv, Named
  <2>3. \A v \in Workers : HoldsSegment(v)' => jobs'[v].file.kind = "wal" /\ jobs'[v].file.segment < segment'.number
    BY <1>7, <1>8, <1>9 DEF NamesInv, Named
  <2>4. /\ \A r \in backups' : r.file \in DOMAIN taken'
        /\ \A r \in wals' : r.file.kind = "wal" /\ r.file.segment < segment'.number
    BY <1>4, <1>7 DEF NamesInv, Named
  <2> QED
    BY <2>1, <2>2, <2>3, <2>4 DEF Named
\* Those who have the name already took it.
<1>11. /\ \A v \in Workers \ {w} : Holds(v)' /\ jobs'[v].file = name => name \in DOMAIN taken
       /\ \A r \in backups \cup wals : r.file = name => name \in DOMAIN taken
  BY <1>2, <1>7, <1>9 DEF NamesInv, Named, Holds
<1>12. Apart'
  <2>1. ASSUME NEW u \in Workers, NEW v \in Workers, u # v, Holds(u)', Holds(v)', jobs'[u].file = jobs'[v].file
        PROVE  SharedIn(taken', jobs'[v].file)
    <3>1. CASE u = w \/ v = w
      BY <1>1, <1>6, <1>11, <2>1, <3>1
    <3>2. CASE u # w /\ v # w
      BY <1>5, <1>9, <2>1, <3>2 DEF NamesInv, Apart, Shared, Holds
    <3> QED
      BY <3>1, <3>2
  <2>2. ASSUME NEW r \in backups' \cup wals', NEW v \in Workers, Holds(v)', jobs'[v].file = r.file
        PROVE  SharedIn(taken', r.file)
    <3>1. CASE v = w
      BY <1>1, <1>6, <1>7, <1>11, <2>2, <3>1
    <3>2. CASE v # w
      BY <1>5, <1>7, <1>9, <2>2, <3>2 DEF NamesInv, Apart, Shared, Holds
    <3> QED
      BY <3>1, <3>2
  <2> QED
    BY <2>1, <2>2 DEF Apart, Shared
<1> QED
  BY <1>5, <1>10, <1>12 DEF NamesInv

\* The command of an archive: nobody has a file of the segment it closed.
LEMMA CommandNamed ==
  ASSUME TypeInv, NamesInv, NEW w \in Workers, ArchiveCommand(w)
  PROVE  NamesInv' /\ UNCHANGED taken
<1>1. /\ jobs'[w].pc = "rename" /\ jobs'[w].kind = "wal" /\ Same(w)
      /\ jobs'[w].file.kind = "wal" /\ jobs'[w].file.segment = segment.number
  BY CommandEffect
<1>2. backups' = backups /\ wals' = wals /\ taken' = taken /\ "wal" \notin Kinds
  BY DEF ArchiveCommand, records, ghosts, Kinds
<1>3. segment.number \in Nat /\ segment'.number = segment.number + 1
  BY DEF ArchiveCommand, Switch, TypeInv, ClockTyped
<1>4. HoldsSegment(w)' /\ ~HoldsBackup(w)'
  BY <1>1, <1>2 DEF HoldsBackup, HoldsSegment
<1>5. \A v \in Workers \ {w} : /\ HoldsBackup(v)' <=> HoldsBackup(v)
                               /\ HoldsSegment(v)' <=> HoldsSegment(v)
                               /\ jobs'[v].file = jobs[v].file
  BY <1>1 DEF Same, HoldsBackup, HoldsSegment
<1>6. \A v \in Workers : HoldsSegment(v) => jobs[v].file.segment \in Nat
  BY DEF TypeInv, JobsTyped, Phased, HoldsSegment, FileNames
<1>7. \A r \in wals : r.file.segment \in Nat
  BY DEF TypeInv, RecordsTyped, Entry, FileNames
<1>8. \A n : SharedIn(taken', n) <=> SharedIn(taken, n)
  BY <1>2 DEF SharedIn
<1>9. Named'
  <2>1. \A v \in Workers : HoldsBackup(v)' => jobs'[v].file \in DOMAIN taken'
    BY <1>2, <1>4, <1>5 DEF NamesInv, Named
  <2>2. \A v \in Workers : HoldsSegment(v)' => jobs'[v].file.kind = "wal" /\ jobs'[v].file.segment < segment'.number
    BY <1>1, <1>3, <1>5, <1>6 DEF NamesInv, Named
  <2>3. \A r \in wals' : r.file.kind = "wal" /\ r.file.segment < segment'.number
    BY <1>2, <1>3, <1>7 DEF NamesInv, Named
  <2> QED
    BY <1>2, <2>1, <2>2, <2>3 DEF NamesInv, Named
<1>10. /\ \A v \in Workers \ {w} : Holds(v)' => jobs'[v].file # jobs'[w].file
       /\ \A r \in backups \cup wals : r.file # jobs'[w].file
  <2>1. ASSUME NEW v \in Workers \ {w}, Holds(v)' PROVE jobs'[v].file # jobs'[w].file
    <3>1. CASE HoldsBackup(v)
      BY <1>1, <1>2, <1>5, <3>1 DEF NamesInv, Named
    <3>2. CASE HoldsSegment(v)
      BY <1>1, <1>3, <1>5, <1>6, <3>2 DEF NamesInv, Named
    <3> QED
      BY <1>5, <2>1, <3>1, <3>2 DEF Holds
  <2>2. \A r \in backups : r.file # jobs'[w].file
    BY <1>1, <1>2 DEF NamesInv, Named
  <2>3. \A r \in wals : r.file # jobs'[w].file
    BY <1>1, <1>3, <1>7 DEF NamesInv, Named
  <2> QED
    BY <2>1, <2>2, <2>3
<1>11. \A v \in Workers \ {w} : Holds(v)' <=> Holds(v)
  BY <1>5 DEF Holds
<1>12. Apart'
  BY <1>2, <1>5, <1>8, <1>10, <1>11 DEF NamesInv, Apart, Shared
<1> QED
  BY <1>2, <1>9, <1>12 DEF NamesInv

\* A job's record takes over the name the job held.
LEMMA RecordNamed ==
  ASSUME TypeInv, NamesInv, NEW w \in Workers, CreateBackup(w) \/ CreateWALArchive(w)
  PROVE  NamesInv' /\ UNCHANGED taken
<1>1. Ends(w, TRUE)
  BY DEF CreateBackup, CreateWALArchive, Ends
<1>2. Same(w) /\ ~Holds(w)'
  BY <1>1, EndEffect DEF Holds, HoldsBackup, HoldsSegment
<1>3. \A v \in Workers \ {w} : /\ HoldsBackup(v)' <=> HoldsBackup(v)
                               /\ HoldsSegment(v)' <=> HoldsSegment(v)
                               /\ jobs'[v].file = jobs[v].file
  BY <1>2 DEF Same, HoldsBackup, HoldsSegment
<1>4. taken' = taken /\ segment' = segment
  BY DEF CreateBackup, CreateWALArchive, ghosts
<1>5. Holds(w) /\ NewRecord(w).file = jobs[w].file
  BY DEF CreateBackup, CreateWALArchive, TypeInv, JobsTyped, Phased, Holds, HoldsBackup, HoldsSegment, NewRecord
<1>6. \/ backups' = backups \cup {NewRecord(w)} /\ wals' = wals /\ HoldsBackup(w)
      \/ backups' = backups /\ wals' = wals \cup {NewRecord(w)} /\ HoldsSegment(w)
  BY <1>5 DEF CreateBackup, CreateWALArchive, Holds, HoldsBackup, HoldsSegment
<1>7. \A n : SharedIn(taken', n) <=> SharedIn(taken, n)
  BY <1>4 DEF SharedIn
<1>8. Named'
  BY <1>2, <1>3, <1>4, <1>5, <1>6 DEF NamesInv, Named, Holds
<1>9. \A v \in Workers : Holds(v)' => v # w /\ Holds(v) /\ jobs'[v].file = jobs[v].file
  BY <1>2, <1>3 DEF Holds
<1>10. Apart'
  <2>1. ASSUME NEW r \in backups' \cup wals', NEW v \in Workers, Holds(v)', jobs'[v].file = r.file
        PROVE  SharedIn(taken', r.file)
    <3>1. CASE r = NewRecord(w)
      BY <1>5, <1>7, <1>9, <2>1, <3>1 DEF NamesInv, Apart, Shared
    <3>2. CASE r \in backups \cup wals
      BY <1>7, <1>9, <2>1, <3>2 DEF NamesInv, Apart, Shared
    <3> QED
      BY <1>6, <2>1, <3>1, <3>2
  <2>2. \A u, v \in Workers : u # v /\ Holds(u)' /\ Holds(v)' /\ jobs'[u].file = jobs'[v].file => SharedIn(taken', jobs'[v].file)
    BY <1>7, <1>9 DEF NamesInv, Apart, Shared
  <2> QED
    BY <2>1, <2>2 DEF Apart, Shared
<1> QED
  BY <1>4, <1>8, <1>10 DEF NamesInv

\* Names are given back at the end of a job.
LEMMA EndNamed ==
  ASSUME TypeInv, NamesInv, NEW w \in Workers, Ends(w, FALSE), segment'.number \in Nat,
         UNCHANGED <<taken, records>>, segment.number <= segment'.number
  PROVE  NamesInv'
<1>1. ~HoldsBackup(w)' /\ ~HoldsSegment(w)' /\ Same(w)
  BY EndEffect DEF HoldsBackup, HoldsSegment
<1>2. HoldsSegment(w) => jobs[w].file \in FileNames
  BY DEF TypeInv, JobsTyped, Phased, HoldsSegment
<1> QED
  BY <1>1, <1>2, HeldOn

LEMMA WorkNamed ==
  ASSUME ConfigInv, TypeInv, NamesInv, NEW w \in Workers, Work(w)
  PROVE  NamesInv' /\ UNCHANGED taken
<1>1. HoldsSegment(w) => jobs[w].file \in FileNames
  BY DEF TypeInv, JobsTyped, Phased, HoldsSegment
<1>2. segment.number \in Nat /\ segment.number <= segment.number
  BY DEF TypeInv, ClockTyped
<1>3. CASE Dump(w)
  <2>1. /\ HoldsBackup(w)' => HoldsBackup(w) /\ jobs'[w].file = jobs[w].file
        /\ ~HoldsSegment(w)'
    BY <1>3, DumpEffect DEF HoldsBackup, HoldsSegment, Dump
  <2> QED
    BY <1>1, <1>2, <1>3, <2>1, DumpEffect, HeldOn DEF Dump, ghosts
<1>4. CASE Checksum(w)
  <2>1. /\ HoldsBackup(w)' => HoldsBackup(w) /\ jobs'[w].file = jobs[w].file
        /\ ~HoldsSegment(w)'
    BY <1>4, ChecksumEffect DEF HoldsBackup, HoldsSegment, Checksum, TypeInv, JobsTyped, Phased, Kinds
  <2> QED
    BY <1>1, <1>2, <1>4, <2>1, ChecksumEffect, HeldOn DEF Checksum, ghosts
<1>5. CASE ArchiveCommand(w)
  BY <1>5, CommandNamed
<1>6. CASE Rename(w)
  <2>1. /\ HoldsSegment(w)' => HoldsSegment(w) /\ jobs'[w].file = jobs[w].file
        /\ ~HoldsBackup(w)'
    BY <1>6, RenameEffect DEF HoldsBackup, HoldsSegment, Rename, TypeInv, JobsTyped, Phased, Kinds
  <2>2. Same(w)
    BY <1>6, RenameEffect
  <2> QED
    BY <1>1, <1>2, <1>6, <2>1, <2>2, HeldOn DEF Rename, ghosts
<1>7. CASE Upload(w)
  <2>1. /\ HoldsBackup(w)' => HoldsBackup(w) /\ jobs'[w].file = jobs[w].file
        /\ HoldsSegment(w)' => HoldsSegment(w) /\ jobs'[w].file = jobs[w].file
    BY <1>7, UploadEffect DEF HoldsBackup, HoldsSegment, Upload
  <2> QED
    BY <1>1, <1>2, <1>7, <2>1, UploadEffect, HeldOn DEF Upload, ghosts
<1>8. CASE CreateBackup(w) \/ CreateWALArchive(w)
  BY <1>8, RecordNamed
<1>9. CASE JobRefused(w)
  BY <1>2, <1>9, EndNamed DEF JobRefused, Ends, ghosts
<1>10. CASE JobFails(w)
  <2>1. segment'.number \in Nat /\ segment.number <= segment'.number
    BY <1>2, <1>10 DEF JobFails, Switch
  <2> QED
    BY <1>10, <2>1, EndNamed DEF JobFails, Ends, ghosts
<1> QED
  BY <1>3, <1>4, <1>5, <1>6, <1>7, <1>8, <1>9, <1>10 DEF Work

\* A step that leaves the jobs, the names and the records alone.
LEMMA NamesUnmoved ==
  ASSUME NamesInv, UNCHANGED <<jobs, taken, records, segment>>
  PROVE  NamesInv'
  BY DEF NamesInv, Named, Apart, Shared, SharedIn, Holds, HoldsBackup, HoldsSegment, records

LEMMA SchedulerNamed ==
  ASSUME TypeInv, NamesInv, NEW p \in {"idle", "archive"}, NEW j \in {IdleJob, jobs[Scheduler]},
         jobs' = [jobs EXCEPT ![Scheduler] = [j EXCEPT !.pc = p]],
         UNCHANGED <<taken, records, segment>>
  PROVE  NamesInv'
<1>1. ~HoldsBackup(Scheduler)' /\ ~HoldsSegment(Scheduler)' /\ Same(Scheduler)
  BY StageEffect DEF HoldsBackup, HoldsSegment
<1>2. HoldsSegment(Scheduler) => jobs[Scheduler].file \in FileNames
  BY DEF TypeInv, JobsTyped, Phased, HoldsSegment, Workers
<1>3. segment.number \in Nat /\ segment.number <= segment'.number /\ segment'.number \in Nat
  BY DEF TypeInv, ClockTyped
<1>4. Scheduler \in Workers /\ UNCHANGED <<taken, records>>
  BY DEF Workers
<1> QED
  BY <1>1, <1>2, <1>3, <1>4, HeldOn

LEMMA ArchiveNamed ==
  ASSUME ConfigInv, TypeInv, NamesInv, NEW w \in Workers, BeginArchive(w),
         UNCHANGED <<taken, records, segment>>
  PROVE  NamesInv'
<1>1. ~HoldsBackup(w)' /\ ~HoldsSegment(w)' /\ Same(w)
  BY BeginArchiveEffect DEF HoldsBackup, HoldsSegment
<1>2. HoldsSegment(w) => jobs[w].file \in FileNames
  BY DEF TypeInv, JobsTyped, Phased, HoldsSegment
<1>3. segment.number \in Nat /\ segment.number <= segment'.number /\ segment'.number \in Nat
  BY DEF TypeInv, ClockTyped
<1>4. UNCHANGED <<taken, records>>
  OBVIOUS
<1> QED
  BY <1>1, <1>2, <1>3, <1>4, HeldOn

LEMMA NextNamed ==
  ASSUME ConfigInv, TypeInv, NamesInv, [Next]_vars
  PROVE  NamesInv' /\ \A n : SharedIn(taken, n) => SharedIn(taken', n)
<1>0. UNCHANGED taken => \A n : SharedIn(taken, n) => SharedIn(taken', n)
  BY DEF SharedIn
<1>1. CASE Configure
  BY <1>0, <1>1, ConfigureTyped, NamesUnmoved DEF ghosts
<1>2. CASE \E h \in Handlers : TriggerBackup(h)
  <2>1. policy.kind \in Kinds /\ 0 \in Nat /\ Handlers \subseteq Workers
    BY DEF TypeInv, ClockTyped, Workers
  <2> QED
    BY <1>2, <2>1, BackupNamed DEF TriggerBackup
<1>3. CASE \E h \in Handlers : ArchiveWAL(h)
  <2>1. Handlers \subseteq Workers
    BY DEF Workers
  <2> QED
    BY <1>0, <1>3, <2>1, ArchiveNamed DEF ArchiveWAL
<1>4. CASE \E w \in Workers : Work(w)
  BY <1>0, <1>4, WorkNamed
<1>5. CASE BeginPass
  <2>1. policy.kind \in Kinds /\ now \in Nat /\ Scheduler \in Workers
    BY DEF TypeInv, ClockTyped, Workers
  <2>2. CASE BeginBackup(Scheduler, policy.kind, now)
    BY <1>5, <2>1, <2>2, BackupNamed DEF BeginPass
  <2>3. CASE jobs' = [jobs EXCEPT ![Scheduler].pc = "archive"] /\ UNCHANGED taken
    BY <1>0, <1>5, <2>3, SchedulerNamed DEF BeginPass
  <2> QED
    BY <1>5, <2>2, <2>3 DEF BeginPass
<1>6. CASE MarkBackupPolicyRun
  BY <1>0, <1>6, SchedulerNamed DEF MarkBackupPolicyRun
<1>7. CASE ArchiveStage
  <2>1. CASE BeginArchive(Scheduler)
    BY <1>0, <1>7, <2>1, ArchiveNamed DEF ArchiveStage, Workers
  <2>2. CASE jobs' = [jobs EXCEPT ![Scheduler] = IdleJob]
    <3>1. IdleJob = [IdleJob EXCEPT !.pc = "idle"]
      BY DEF IdleJob
    <3> QED
      BY <1>0, <1>7, <2>2, <3>1, SchedulerNamed DEF ArchiveStage
  <2> QED
    BY <1>7, <2>1, <2>2 DEF ArchiveStage
<1>8. CASE Restore
  BY <1>0, <1>8, RestoreStepTyped, NamesUnmoved DEF ghosts
<1>9. CASE Tick \/ \E n \in DOMAIN local : LoseLocal(n)
  BY <1>0, <1>9, NamesUnmoved DEF Tick, LoseLocal, ghosts
<1>10. CASE Crash
  <2>1. UNCHANGED <<taken, records, segment>>
    BY <1>10 DEF Crash, ghosts
  <2>2. \A w \in Workers : ~HoldsBackup(w)' /\ ~HoldsSegment(w)'
    BY <1>10, CrashJobs DEF HoldsBackup, HoldsSegment, IdleJob
  <2>3. NamesInv'
    BY <2>1, <2>2 DEF NamesInv, Named, Apart, Holds, records
  <2> QED
    BY <1>0, <2>1, <2>3
<1>11. CASE UNCHANGED vars
  BY <1>0, <1>11, NamesUnmoved DEF vars, ghosts
<1> QED
  BY <1>1, <1>2, <1>3, <1>4, <1>5, <1>6, <1>7, <1>8, <1>9, <1>10, <1>11 DEF Next

----------------------------------------------------------------------------
(***************************************************************************)
(* Copies.  The file of a job that is at its upload, when it is there, and *)
(* the object of a job that is at its record, are what the checksum says.  *)
(***************************************************************************)
Faithful(w) ==
  jobs[w].pc = "upload" /\ ~Shared(jobs[w].file) /\ jobs[w].file \in DOMAIN local
    => local[jobs[w].file] = jobs[w].sum
Stored(w) ==
  jobs[w].pc = "record" /\ jobs[w].copy # None /\ ~Shared(jobs[w].file)
    => /\ jobs[w].file \in DOMAIN remote[jobs[w].copy.bucket]
       /\ remote[jobs[w].copy.bucket][jobs[w].file] = jobs[w].sum

\* A restore works from records: a base that is a backup, and WAL archives.
FromRecords == (restore.pc = "base" => restore.base \in backups) /\ restore.todo \subseteq wals

CopiesInv == (\A w \in Workers : Faithful(w) /\ Stored(w)) /\ OffHostCopiesMatch /\ FromRecords

\* A step of one worker, or of none, that uploads and records nothing: it is
\* enough that it writes over no file that is about to be uploaded.
LEMMA CopiesKept ==
  ASSUME CopiesInv, NEW W \in SUBSET Workers,
         \A v \in Workers \ W : jobs'[v] = jobs[v],
         \A n : SharedIn(taken, n) => SharedIn(taken', n),
         UNCHANGED <<records, remote>>, FromRecords',
         \A w \in W : Faithful(w)' /\ Stored(w)',
         \A v \in Workers \ W : jobs[v].pc = "upload" /\ ~Shared(jobs[v].file) /\ jobs[v].file \in DOMAIN local'
            => jobs[v].file \in DOMAIN local /\ local'[jobs[v].file] = local[jobs[v].file]
  PROVE  CopiesInv'
<1>1. backups' = backups /\ wals' = wals /\ remote' = remote
  BY DEF records
<1>2. OffHostCopiesMatch'
  BY <1>1 DEF CopiesInv, OffHostCopiesMatch, SharedIn
<1>3. \A v \in Workers \ W : Faithful(v)'
  BY DEF CopiesInv, Faithful, Shared
<1>4. \A v \in Workers \ W : Stored(v)'
  BY <1>1 DEF CopiesInv, Stored, Shared
<1> QED
  BY <1>2, <1>3, <1>4 DEF CopiesInv

\* A worker at neither its upload nor its record promises nothing.
LEMMA NothingPromised ==
  ASSUME NEW w \in Workers, jobs'[w].pc \notin {"upload", "record"}
  PROVE  Faithful(w)' /\ Stored(w)'
  BY DEF Faithful, Stored

\* A worker's step that only moves the worker, away from upload and record.
LEMMA CopiesAway ==
  ASSUME CopiesInv, NEW w \in Workers, Same(w), jobs'[w].pc \notin {"upload", "record"},
         \A n : SharedIn(taken, n) => SharedIn(taken', n),
         UNCHANGED <<records, files, restore>>
  PROVE  CopiesInv'
<1>1. FromRecords'
  BY DEF CopiesInv, FromRecords, records
<1>2. UNCHANGED <<records, remote>> /\ local' = local
  BY DEF files
<1>3. Faithful(w)' /\ Stored(w)'
  BY NothingPromised
<1>4. {w} \in SUBSET Workers /\ \A v \in Workers \ {w} : jobs'[v] = jobs[v]
  BY DEF Same
<1> QED
  BY <1>1, <1>2, <1>3, <1>4, CopiesKept

\* Whoever is at an upload holds a file that is no pending one.
LEMMA UploadHolds ==
  ASSUME TypeInv, NamesInv, NEW v \in Workers, jobs[v].pc \in {"upload", "record"}
  PROVE  Holds(v) /\ jobs[v].file.kind # "pending"
<1>1. Holds(v)
  BY DEF TypeInv, JobsTyped, Phased, Holds, HoldsBackup, HoldsSegment
<1> QED
  BY <1>1 DEF NamesInv, Named, Holds, Kinds

LEMMA WorkCopied ==
  ASSUME ConfigInv, TypeInv, NamesInv, CopiesInv, NEW w \in Workers, Work(w)
  PROVE  CopiesInv'
<1>1. \A n : SharedIn(taken, n) => SharedIn(taken', n)
  BY WorkNamed
<1>2. {w} \in SUBSET Workers
  OBVIOUS
<1>3. \A v \in Workers \ {w} : jobs[v].pc \in {"upload", "record"} /\ Holds(w) /\ jobs[v].file = jobs[w].file
         => Shared(jobs[v].file)
  BY UploadHolds DEF NamesInv, Apart
<1>4. UNCHANGED <<restore, records>> => FromRecords'
  BY DEF CopiesInv, FromRecords, records
<1>5. CASE Dump(w)
  <2>1. Holds(w) /\ UNCHANGED <<records, remote, restore>>
    BY <1>5 DEF Dump, Holds, HoldsBackup, TypeInv, JobsTyped, Phased
  <2>2. \A n \in DOMAIN local' : n # jobs[w].file => n \in DOMAIN local /\ local'[n] = local[n]
    BY <1>5 DEF Dump, Write
  <2>3. Faithful(w)' /\ Stored(w)' /\ \A v \in Workers \ {w} : jobs'[v] = jobs[v]
    BY <1>5, DumpEffect, NothingPromised DEF Same
  <2>4. \A v \in Workers \ {w} : jobs[v].pc = "upload" /\ ~Shared(jobs[v].file) /\ jobs[v].file \in DOMAIN local'
            => jobs[v].file \in DOMAIN local /\ local'[jobs[v].file] = local[jobs[v].file]
    BY <1>3, <2>1, <2>2
  <2> QED
    BY <1>1, <1>2, <1>4, <2>1, <2>3, <2>4, CopiesKept
<1>6. CASE Checksum(w)
  <2>1. UNCHANGED <<records, remote, restore>> /\ local' = local /\ taken' = taken
    BY <1>6 DEF Checksum, files, ghosts
  <2>2. Faithful(w)' /\ Stored(w)' /\ \A v \in Workers \ {w} : jobs'[v] = jobs[v]
    BY <1>6, <2>1, ChecksumEffect DEF Faithful, Stored, Same
  <2> QED
    BY <1>1, <1>2, <1>4, <2>1, <2>2, CopiesKept
<1>7. CASE ArchiveCommand(w)
  <2>1. UNCHANGED <<records, remote, restore>> /\ jobs[w].file.kind = "pending"
    BY <1>7 DEF ArchiveCommand, TypeInv, JobsTyped, Phased
  <2>2. \A n \in DOMAIN local' : n # jobs[w].file => n \in DOMAIN local /\ local'[n] = local[n]
    BY <1>7 DEF ArchiveCommand, Write
  <2>3. Faithful(w)' /\ Stored(w)' /\ \A v \in Workers \ {w} : jobs'[v] = jobs[v]
    BY <1>7, CommandEffect, NothingPromised DEF Same
  <2>4. \A v \in Workers \ {w} : jobs[v].pc = "upload" /\ ~Shared(jobs[v].file) /\ jobs[v].file \in DOMAIN local'
            => jobs[v].file \in DOMAIN local /\ local'[jobs[v].file] = local[jobs[v].file]
    BY <2>1, <2>2, UploadHolds
  <2> QED
    BY <1>1, <1>2, <1>4, <2>1, <2>3, <2>4, CopiesKept
<1>8. CASE Rename(w)
  <2> DEFINE pending == FileName("pending", jobs[w].file.second, 0)
  <2> HIDE DEF pending
  <2>1. Holds(w) /\ UNCHANGED <<records, remote, restore>> /\ taken' = taken
    BY <1>8 DEF Rename, ghosts, Holds, HoldsSegment, TypeInv, JobsTyped, Phased
  <2>2. /\ jobs'[w].pc = (IF jobs'[w].copy = None THEN "record" ELSE "upload")
        /\ jobs'[w].file = jobs[w].file /\ jobs'[w].sum = local[pending]
        /\ \A v \in Workers \ {w} : jobs'[v] = jobs[v]
    BY <1>8, RenameEffect DEF pending, Same
  <2>3. local' = Write([n \in DOMAIN local \ {pending} |-> local[n]], jobs[w].file, local[pending])
    BY <1>8 DEF Rename, pending
  <2>4. /\ local'[jobs[w].file] = local[pending]
        /\ \A n \in DOMAIN local' : n # jobs[w].file => n \in DOMAIN local /\ local'[n] = local[n]
    BY <2>3 DEF Write
  <2>5. Faithful(w)' /\ Stored(w)'
    BY <2>2, <2>4 DEF Faithful, Stored
  <2>6. \A v \in Workers \ {w} : jobs[v].pc = "upload" /\ ~Shared(jobs[v].file) /\ jobs[v].file \in DOMAIN local'
            => jobs[v].file \in DOMAIN local /\ local'[jobs[v].file] = local[jobs[v].file]
    BY <1>3, <2>1, <2>4
  <2> QED
    BY <1>1, <1>2, <1>4, <2>1, <2>2, <2>5, <2>6, CopiesKept
<1>9. CASE Upload(w)
  <2> DEFINE b == jobs[w].copy.bucket
             f == jobs[w].file
             next == Write(remote[b], f, local[f])
  <2>1. /\ b \in Buckets /\ DOMAIN remote = Buckets /\ f \in DOMAIN local /\ jobs[w].pc = "upload"
    BY <1>9 DEF Upload, TypeInv, JobsTyped, Phased, Copies, FilesTyped
  <2>2. remote' = [remote EXCEPT ![b] = next]
    BY <1>9 DEF Upload
  <2>3. /\ DOMAIN next = DOMAIN remote[b] \cup {f} /\ next[f] = local[f]
        /\ \A n \in DOMAIN remote[b] \ {f} : next[n] = remote[b][n]
    BY DEF Write
  <2>4. /\ jobs'[w].pc = "record" /\ jobs'[w].copy = jobs[w].copy /\ jobs'[w].file = f
        /\ jobs'[w].sum = jobs[w].sum /\ \A v \in Workers \ {w} : jobs'[v] = jobs[v]
    BY <1>9, UploadEffect DEF Same
  <2>5. local' = local /\ taken' = taken /\ backups' = backups /\ wals' = wals /\ restore' = restore
    BY <1>9 DEF Upload, ghosts, records
  <2>6. ~Shared(f) => local[f] = jobs[w].sum
    BY <2>1 DEF CopiesInv, Faithful
  <2> HIDE DEF b, f, next
  <2>7. remote'[b] = next /\ \A c \in Buckets \ {b} : remote'[c] = remote[c]
    BY <2>1, <2>2
  <2>8. \A c \in Buckets : \A n \in DOMAIN remote[c] : n # f
           => n \in DOMAIN remote'[c] /\ remote'[c][n] = remote[c][n]
    BY <2>3, <2>7
  <2>9. Faithful(w)' /\ Stored(w)'
    BY <2>3, <2>4, <2>5, <2>6, <2>7 DEF Faithful, Stored, Shared, b
  <2>10. Holds(w)
    BY <2>1, UploadHolds
  <2>11. ASSUME NEW v \in Workers \ {w} PROVE Faithful(v)' /\ Stored(v)'
    <3>1. Faithful(v)'
      BY <2>4, <2>5 DEF CopiesInv, Faithful, Shared
    <3>2. ASSUME jobs[v].pc = "record", jobs[v].copy # None, ~Shared(jobs[v].file)
          PROVE  /\ jobs[v].file \in DOMAIN remote'[jobs[v].copy.bucket]
                 /\ remote'[jobs[v].copy.bucket][jobs[v].file] = jobs[v].sum
      <4>1. jobs[v].copy.bucket \in Buckets
        BY <3>2 DEF TypeInv, JobsTyped, Job, Copies
      <4>2. jobs[v].file # f
        BY <1>3, <2>10, <3>2 DEF f
      <4> QED
        BY <2>8, <3>2, <4>1, <4>2 DEF CopiesInv, Stored
    <3>3. Stored(v)'
      BY <2>4, <2>5, <3>2 DEF Stored, Shared
    <3> QED
      BY <3>1, <3>3
  <2>12. OffHostCopiesMatch'
    <3>1. ASSUME NEW r \in backups \cup wals, r.copy # None, ~Shared(r.file)
          PROVE  /\ r.file \in DOMAIN remote'[r.copy.bucket]
                 /\ remote'[r.copy.bucket][r.file] = r.sum
      <4>1. r.copy.bucket \in Buckets
        BY <3>1 DEF TypeInv, RecordsTyped, Entry, Copies
      <4>2. r.file # f
        BY <2>10, <3>1 DEF NamesInv, Apart, f
      <4>3. /\ r.file \in DOMAIN remote[r.copy.bucket]
            /\ remote[r.copy.bucket][r.file] = r.sum
        BY <3>1 DEF CopiesInv, OffHostCopiesMatch, Shared, SharedIn
      <4> QED
        BY <2>8, <4>1, <4>2, <4>3
    <3> QED
      BY <2>5, <3>1 DEF OffHostCopiesMatch, Shared, SharedIn
  <2> QED
    BY <1>4, <2>5, <2>9, <2>11, <2>12 DEF CopiesInv, records
<1>10. CASE CreateBackup(w) \/ CreateWALArchive(w)
  <2>1. /\ jobs'[w].pc \notin {"upload", "record"} /\ Same(w)
    BY <1>10, EndEffect DEF CreateBackup, CreateWALArchive, Ends
  <2>2. /\ local' = local /\ remote' = remote /\ taken' = taken /\ restore' = restore
        /\ backups' \cup wals' = backups \cup wals \cup {NewRecord(w)}
        /\ backups \subseteq backups' /\ wals \subseteq wals'
        /\ jobs[w].pc = "record"
    BY <1>10 DEF CreateBackup, CreateWALArchive, files, ghosts
  <2>3. \A v \in Workers : Faithful(v)' /\ Stored(v)'
    <3>1. Faithful(w)' /\ Stored(w)'
      BY <2>1, NothingPromised
    <3>2. \A v \in Workers \ {w} : Faithful(v)' /\ Stored(v)'
      BY <2>1, <2>2 DEF CopiesInv, Faithful, Stored, Shared, Same
    <3> QED
      BY <3>1, <3>2
  <2>4. LET r == NewRecord(w) IN
          r.copy # None /\ ~Shared(r.file)
            => r.file \in DOMAIN remote[r.copy.bucket] /\ remote[r.copy.bucket][r.file] = r.sum
    BY <2>2 DEF NewRecord, CopiesInv, Stored
  <2>5. OffHostCopiesMatch'
    BY <2>2, <2>4 DEF CopiesInv, OffHostCopiesMatch, Shared, SharedIn
  <2>6. FromRecords'
    BY <2>2 DEF CopiesInv, FromRecords
  <2> QED
    BY <2>3, <2>5, <2>6 DEF CopiesInv
<1>11. CASE JobRefused(w) \/ JobFails(w)
  <2>1. Ends(w, FALSE)
    BY <1>11 DEF JobRefused, JobFails, Ends
  <2>2. jobs'[w].pc \notin {"upload", "record"} /\ Same(w)
    BY <2>1, EndEffect
  <2> QED
    BY <1>1, <1>11, <2>2, CopiesAway DEF JobRefused, JobFails
<1> QED
  BY <1>5, <1>6, <1>7, <1>8, <1>9, <1>10, <1>11 DEF Work

\* A restore fetches only files that no unshared upload is about to read.
LEMMA RestoreCopied ==
  ASSUME TypeInv, NamesInv, CopiesInv, Restore
  PROVE  CopiesInv'
<1> DEFINE none == {w \in Workers : FALSE}
<1>1. /\ UNCHANGED <<records, remote>> /\ jobs' = jobs /\ taken' = taken
      /\ backups' = backups /\ wals' = wals
  BY RestoreStepTyped DEF records, ghosts
<1>2. none \in SUBSET Workers /\ \A w \in none : Faithful(w)' /\ Stored(w)'
  OBVIOUS
<1>3. FromRecords'
  <2>1. CASE restore' = IdleRestore
    BY <2>1 DEF FromRecords, IdleRestore
  <2>2. ASSUME NEW b \in backups, BeginRestoreBackup(b) PROVE FromRecords'
    BY <1>1, <2>2 DEF BeginRestoreBackup, FromRecords, IdleRestore
  <2>3. ASSUME NEW s, BeginRestoreToTime(s) PROVE FromRecords'
    BY <1>1, <2>3 DEF BeginRestoreToTime, FromRecords, IdleRestore
  <2>4. ASSUME NEW b \in backups, Select(b) PROVE FromRecords'
    <3> DEFINE range == WALsInRange(b.created, restore.time * PerSecond)
    <3>1. range \subseteq wals
      BY DEF WALsInRange
    <3>2. restore' = [restore EXCEPT !.pc = "base", !.base = b, !.wals = range, !.todo = range]
      BY <2>4 DEF Select
    <3> HIDE DEF range
    <3>3. restore'.base = b /\ restore'.todo = range
      BY <3>2 DEF TypeInv, RestoreTyped, RestoreJob
    <3> QED
      BY <1>1, <3>1, <3>3 DEF FromRecords
  <2>5. ASSUME EnsureBackupArtifact PROVE FromRecords'
    <3> DEFINE r == restore.base
               c == Fetched(r)[r.file]
               p == IF restore.kind = "pitr" THEN "wals" ELSE "run"
    <3>1. restore' = IdleRestore \/ restore' = [restore EXCEPT !.pc = p, !.seen = {c}]
      BY <2>5 DEF EnsureBackupArtifact
    <3>2. p # "base"
      OBVIOUS
    <3> HIDE DEF c, p
    <3>3. restore' = IdleRestore \/ (restore'.pc # "base" /\ restore'.todo = restore.todo)
      BY <3>1, <3>2 DEF TypeInv, RestoreTyped, RestoreJob
    <3> QED
      BY <1>1, <2>1, <3>3 DEF CopiesInv, FromRecords
  <2>6. ASSUME NEW r \in restore.todo, EnsureWALArchiveArtifact(r) PROVE FromRecords'
    <3> DEFINE c == Fetched(r)[r.file]
               left == restore.todo \ {r}
               p == IF left = {} THEN "run" ELSE "wals"
               n == restore.seen \cup {c}
    <3>1. restore' = IdleRestore \/ restore' = [restore EXCEPT !.todo = left, !.pc = p, !.seen = n]
      BY <2>6 DEF EnsureWALArchiveArtifact
    <3>2. p # "base" /\ left \subseteq restore.todo
      OBVIOUS
    <3> HIDE DEF p, left, n
    <3>3. restore' = IdleRestore \/ (restore'.pc # "base" /\ restore'.todo = left)
      BY <3>1, <3>2 DEF TypeInv, RestoreTyped, RestoreJob
    <3> QED
      BY <1>1, <2>1, <3>2, <3>3 DEF CopiesInv, FromRecords
  <2> QED
    BY <2>1, <2>2, <2>3, <2>4, <2>5, <2>6 DEF Restore, RestoreRefused, RunRestoreCommand
<1>4. ASSUME NEW r \in backups \cup wals, local' = Fetched(r)
      PROVE  \A v \in Workers : jobs[v].pc = "upload" /\ ~Shared(jobs[v].file) /\ jobs[v].file \in DOMAIN local'
               => jobs[v].file \in DOMAIN local /\ local'[jobs[v].file] = local[jobs[v].file]
  <2>1. r \in Entry
    BY DEF TypeInv, RecordsTyped
  <2>2. \A v \in Workers : jobs[v].pc = "upload" /\ ~Shared(jobs[v].file) => jobs[v].file # r.file
    BY UploadHolds DEF NamesInv, Apart
  <2> QED
    BY <1>4, <2>1, <2>2, FetchTyped
<1>5. \/ local' = local
      \/ \E r \in backups \cup wals : local' = Fetched(r)
  <2>1. EnsureBackupArtifact => \E r \in backups \cup wals : local' = Fetched(r)
    BY DEF EnsureBackupArtifact, CopiesInv, FromRecords
  <2>2. \A r \in restore.todo : EnsureWALArchiveArtifact(r) => r \in wals /\ local' = Fetched(r)
    BY DEF EnsureWALArchiveArtifact, CopiesInv, FromRecords
  <2> QED
    BY <2>1, <2>2 DEF Restore, BeginRestoreBackup, BeginRestoreToTime, Select, RestoreRefused,
                      RunRestoreCommand, files
<1>6. \A v \in Workers : jobs[v].pc = "upload" /\ ~Shared(jobs[v].file) /\ jobs[v].file \in DOMAIN local'
         => jobs[v].file \in DOMAIN local /\ local'[jobs[v].file] = local[jobs[v].file]
  BY <1>4, <1>5
<1> HIDE DEF none
<1> QED
  BY <1>1, <1>2, <1>3, <1>6, CopiesKept DEF none

LEMMA NextCopied ==
  ASSUME ConfigInv, TypeInv, NamesInv, CopiesInv, [Next]_vars
  PROVE  CopiesInv'
<1>0. \A n : SharedIn(taken, n) => SharedIn(taken', n)
  BY NextNamed
<1>1. CASE Configure
  BY <1>1, ConfigureTyped DEF CopiesInv, Faithful, Stored, OffHostCopiesMatch, FromRecords, Shared, records, files, ghosts
<1>2. CASE \E h \in Handlers : TriggerBackup(h)
  <2>1. policy.kind \in Kinds /\ 0 \in Nat /\ Handlers \subseteq Workers
    BY DEF TypeInv, ClockTyped, Workers
  <2>2. PICK h \in Handlers : TriggerBackup(h)
    BY <1>2
  <2>3. Same(h) /\ jobs'[h].pc \notin {"upload", "record"}
    BY <2>1, <2>2, BeginBackupEffect DEF TriggerBackup
  <2> QED
    BY <1>0, <2>1, <2>2, <2>3, CopiesAway DEF TriggerBackup
<1>3. CASE \E h \in Handlers : ArchiveWAL(h)
  <2>1. Handlers \subseteq Workers
    BY DEF Workers
  <2>2. PICK h \in Handlers : ArchiveWAL(h)
    BY <1>3
  <2>3. Same(h) /\ jobs'[h].pc \notin {"upload", "record"}
    BY <2>1, <2>2, BeginArchiveEffect DEF ArchiveWAL
  <2> QED
    BY <1>0, <2>1, <2>2, <2>3, CopiesAway DEF ArchiveWAL
<1>4. CASE \E w \in Workers : Work(w)
  BY <1>4, WorkCopied
<1>5. CASE BeginPass \/ MarkBackupPolicyRun \/ ArchiveStage
  <2>1. policy.kind \in Kinds /\ now \in Nat /\ Scheduler \in Workers
    BY DEF TypeInv, ClockTyped, Workers
  <2>2. IdleJob = [IdleJob EXCEPT !.pc = "idle"]
    BY DEF IdleJob
  <2>3. Same(Scheduler) /\ jobs'[Scheduler].pc \notin {"upload", "record"}
    <3>1. CASE BeginBackup(Scheduler, policy.kind, now)
      BY <2>1, <3>1, BeginBackupEffect
    <3>2. CASE BeginArchive(Scheduler)
      BY <2>1, <3>2, BeginArchiveEffect
    <3>3. CASE jobs' = [jobs EXCEPT ![Scheduler].pc = "archive"]
      BY <3>3, StageEffect
    <3>4. CASE jobs' = [jobs EXCEPT ![Scheduler] = [IdleJob EXCEPT !.pc = "archive"]]
      BY <3>4, StageEffect
    <3>5. CASE jobs' = [jobs EXCEPT ![Scheduler] = [IdleJob EXCEPT !.pc = "idle"]]
      BY <3>5, StageEffect
    <3> QED
      BY <1>5, <2>2, <3>1, <3>2, <3>3, <3>4, <3>5 DEF BeginPass, MarkBackupPolicyRun, ArchiveStage
  <2> QED
    BY <1>0, <1>5, <2>1, <2>3, CopiesAway DEF BeginPass, MarkBackupPolicyRun, ArchiveStage
<1>6. CASE Restore
  BY <1>6, RestoreCopied
<1>7. CASE Tick
  BY <1>7 DEF Tick, CopiesInv, Faithful, Stored, OffHostCopiesMatch, FromRecords, Shared, records, files, ghosts
<1>8. CASE Crash
  <2>1. \A w \in Workers : Faithful(w)' /\ Stored(w)'
    BY <1>8, CrashJobs DEF Faithful, Stored, IdleJob
  <2>2. FromRecords'
    BY <1>8 DEF Crash, FromRecords, IdleRestore
  <2>3. OffHostCopiesMatch'
    BY <1>8 DEF Crash, CopiesInv, OffHostCopiesMatch, records, files, ghosts
  <2> QED
    BY <2>1, <2>2, <2>3 DEF CopiesInv
<1>9. CASE \E n \in DOMAIN local : LoseLocal(n)
  <2>1. PICK n \in DOMAIN local : LoseLocal(n)
    BY <1>9
  <2>2. jobs' = jobs /\ taken' = taken /\ remote' = remote /\ backups' = backups /\ wals' = wals /\ restore' = restore
    BY <2>1 DEF LoseLocal, records, ghosts
  <2>3. \A m \in DOMAIN local' : m \in DOMAIN local /\ local'[m] = local[m]
    BY <2>1 DEF LoseLocal
  <2>4. \A w \in Workers : Faithful(w)' /\ Stored(w)'
    BY <2>2, <2>3 DEF CopiesInv, Faithful, Stored, Shared
  <2> QED
    BY <2>2, <2>4 DEF CopiesInv, OffHostCopiesMatch, FromRecords
<1>10. CASE UNCHANGED vars
  BY <1>10 DEF vars, CopiesInv, Faithful, Stored, OffHostCopiesMatch, FromRecords, Shared, records, files, ghosts
<1> QED
  BY <1>1, <1>2, <1>3, <1>4, <1>5, <1>6, <1>7, <1>8, <1>9, <1>10 DEF Next

----------------------------------------------------------------------------
(***************************************************************************)
(* Dates.  Nothing holds a change later than the clock, a record none      *)
(* later than itself, and what a restore has still to fetch none later     *)
(* than the second it aims at.                                             *)
(***************************************************************************)
Past(fs) == \A n \in DOMAIN fs : fs[n].to <= now
RecordsDated == \A r \in backups \cup wals : r.sum.to <= r.created
Aimed(r) == Unix(r.sum.to) <= restore.time
RestoreDated ==
  /\ restore.pc = "base" => Aimed(restore.base)
  /\ \A r \in restore.todo : Aimed(r)
  /\ NothingFromTheFuture

DatedInv ==
  /\ Past(local) /\ \A b \in Buckets : Past(remote[b])
  /\ \A w \in Workers : jobs[w].sum.to <= now
  /\ RecordsDated
  /\ RestoreDated

LEMMA UnixMonotone == \A s, t \in Int : s <= t => Unix(s) <= Unix(t) /\ Unix(t) \in Int
<1> SUFFICES ASSUME NEW s \in Int, NEW t \in Int, s <= t PROVE Unix(s) <= Unix(t) /\ Unix(t) \in Int
  OBVIOUS
<1>1. PerSecond \in Nat \ {0}
  BY TimeAssumption
<1>2. Unix(t) \in Int
  BY <1>1 DEF Unix
<1>3. Unix(s) <= Unix(t)
  BY <1>1 DEF Unix
<1> QED
  BY <1>2, <1>3

LEMMA WholeMultiple ==
  ASSUME NEW a \in Nat, NEW P \in Nat \ {0}
  PROVE  (a * P) % P = 0 /\ (a * P) \div P = a
<1>1. (a * P) % P = 0
  OBVIOUS
<1>2. (a * P) \div P = a
  OBVIOUS
<1> QED
  BY <1>1, <1>2

\* A target on a whole second stands for the second.
LEMMA OnTheSecond ==
  ASSUME NEW s \in Nat, NEW t \in Nat, ~CreatedAfter(t, s * PerSecond)
  PROVE  Unix(t) <= s
<1>1. PerSecond \in Nat \ {0}
  BY TimeAssumption
<1>2. (s * PerSecond) % PerSecond = 0
  BY <1>1, WholeMultiple
<1>3. (s * PerSecond) \div PerSecond = s
  BY <1>1, WholeMultiple
<1>4. ~(Unix(t) > Unix(s * PerSecond))
  BY <1>2 DEF CreatedAfter
<1>5. Unix(s * PerSecond) = s
  BY <1>3 DEF Unix
<1>6. Unix(t) \in Nat
  BY UnixNat
<1> QED
  BY <1>4, <1>5, <1>6

\* A record that is not after the second aimed at holds nothing later.
LEMMA RecordAimed ==
  ASSUME TypeInv, DatedInv, NEW r \in backups \cup wals, NEW s \in Nat, Unix(r.created) <= s
  PROVE  Unix(r.sum.to) <= s
<1>1. r.created \in Nat /\ r.sum.to \in Int /\ r.sum.to <= r.created
  BY DEF TypeInv, RecordsTyped, Entry, Sums, DatedInv, RecordsDated
<1>2. Unix(r.created) \in Nat
  BY <1>1, UnixNat
<1>3. Unix(r.sum.to) <= Unix(r.created) /\ Unix(r.sum.to) \in Int
  BY <1>1, UnixMonotone
<1> QED
  BY <1>2, <1>3

\* The clock does not go back, so what was in the past stays there.
LEMMA PastStays ==
  ASSUME TypeInv, DatedInv, now' \in Nat, now <= now'
  PROVE  /\ UNCHANGED local => Past(local)'
         /\ UNCHANGED remote => \A b \in Buckets : Past(remote[b])'
         /\ \A w \in Workers : jobs'[w].sum \in {jobs[w].sum, NoSum} => jobs'[w].sum.to <= now'
<1>1. now \in Nat /\ jobs \in [Workers -> Job]
  BY DEF TypeInv, ClockTyped, JobsTyped
<1>2. /\ \A n \in DOMAIN local : local[n].to \in Int
      /\ \A b \in Buckets : \A n \in DOMAIN remote[b] : remote[b][n].to \in Int
      /\ \A w \in Workers : jobs[w].sum.to \in Int
  BY <1>1 DEF TypeInv, FilesTyped, Job, Sums
<1>3. UNCHANGED local => Past(local)'
  BY <1>1, <1>2 DEF DatedInv, Past
<1>4. UNCHANGED remote => \A b \in Buckets : Past(remote[b])'
  BY <1>1, <1>2 DEF DatedInv, Past
<1>5. \A w \in Workers : jobs'[w].sum \in {jobs[w].sum, NoSum} => jobs'[w].sum.to <= now'
  BY <1>1, <1>2 DEF DatedInv, NoSum, Nil
<1> QED
  BY <1>3, <1>4, <1>5

LEMMA RestoreDatedStays == ASSUME DatedInv, UNCHANGED restore PROVE RestoreDated'
  BY DEF DatedInv, RestoreDated, Aimed, NothingFromTheFuture

LEMMA WorkDated ==
  ASSUME ConfigInv, TypeInv, DatedInv, NEW w \in Workers, Work(w)
  PROVE  DatedInv'
<1>1. now' = now /\ now \in Nat /\ now <= now'
  <2>1. now' = now
    BY DEF Work, Dump, Checksum, ArchiveCommand, Rename, Upload, CreateBackup, CreateWALArchive,
           JobRefused, JobFails
  <2>2. now \in Nat
    BY DEF TypeInv, ClockTyped
  <2> QED
    BY <2>1, <2>2
<1>2. RestoreDated'
  <2>1. UNCHANGED restore
    BY DEF Work, Dump, Checksum, ArchiveCommand, Rename, Upload, CreateBackup, CreateWALArchive,
           JobRefused, JobFails
  <2> QED
    BY <2>1, RestoreDatedStays
<1>3. /\ UNCHANGED local => Past(local)'
      /\ UNCHANGED remote => \A b \in Buckets : Past(remote[b])'
      /\ UNCHANGED records => RecordsDated'
  BY <1>1, PastStays DEF DatedInv, RecordsDated, records
<1>4. Same(w) /\ jobs'[w].sum.to <= now' => \A v \in Workers : jobs'[v].sum.to <= now'
  BY <1>1 DEF DatedInv, Same
<1>5. jobs'[w].sum \in {jobs[w].sum, NoSum} => jobs'[w].sum.to <= now'
  BY <1>1, PastStays
<1>6. CASE Dump(w)
  <2>1. Past(local)'
    BY <1>1, <1>6 DEF Dump, Write, Past, DatedInv
  <2> QED
    BY <1>2, <1>3, <1>4, <1>5, <1>6, <2>1, DumpEffect DEF Dump, DatedInv
<1>7. CASE Checksum(w)
  <2>1. jobs'[w].sum.to <= now'
    BY <1>1, <1>7, ChecksumEffect DEF DatedInv, Past
  <2> QED
    BY <1>2, <1>3, <1>4, <1>7, <2>1, ChecksumEffect DEF Checksum, DatedInv, files
<1>8. CASE ArchiveCommand(w)
  <2>1. Past(local)'
    BY <1>1, <1>8 DEF ArchiveCommand, Write, Past, DatedInv
  <2> QED
    BY <1>2, <1>3, <1>4, <1>5, <1>8, <2>1, CommandEffect DEF ArchiveCommand, DatedInv
<1>9. CASE Rename(w)
  <2> DEFINE pending == FileName("pending", jobs[w].file.second, 0)
  <2> HIDE DEF pending
  <2>1. pending \in DOMAIN local /\ jobs'[w].sum = local[pending] /\ Same(w)
    BY <1>9, RenameEffect DEF pending
  <2>2. local[pending].to <= now
    BY <2>1 DEF DatedInv, Past
  <2>3. local' = Write([n \in DOMAIN local \ {pending} |-> local[n]], jobs[w].file, local[pending])
    BY <1>9 DEF Rename, pending
  <2>4. Past(local)'
    BY <1>1, <2>2, <2>3 DEF Write, Past, DatedInv
  <2> QED
    BY <1>1, <1>2, <1>3, <1>4, <1>9, <2>1, <2>2, <2>4 DEF Rename, DatedInv
<1>10. CASE Upload(w)
  <2> DEFINE b == jobs[w].copy.bucket
             f == jobs[w].file
             next == Write(remote[b], f, local[f])
  <2>1. b \in Buckets /\ DOMAIN remote = Buckets /\ f \in DOMAIN local
    BY <1>10 DEF Upload, TypeInv, JobsTyped, Phased, Copies, FilesTyped
  <2>2. remote' = [remote EXCEPT ![b] = next]
    BY <1>10 DEF Upload
  <2>3. \A n \in DOMAIN next : next[n].to <= now
    BY <2>1 DEF Write, DatedInv, Past
  <2> HIDE DEF b, next
  <2>4. \A c \in Buckets : \A n \in DOMAIN remote'[c] : remote'[c][n].to <= now'
    BY <1>1, <2>1, <2>2, <2>3 DEF DatedInv, Past
  <2>5. \A c \in Buckets : Past(remote[c])'
    BY <2>4 DEF Past
  <2> QED
    BY <1>2, <1>3, <1>4, <1>5, <1>10, <2>5, UploadEffect DEF Upload, DatedInv
<1>11. CASE CreateBackup(w) \/ CreateWALArchive(w)
  <2>1. jobs'[w].sum = NoSum /\ Same(w)
    BY <1>11, EndEffect DEF CreateBackup, CreateWALArchive, Ends
  <2>2. NewRecord(w).sum.to <= NewRecord(w).created
    BY DEF NewRecord, DatedInv
  <2>3. backups' \cup wals' = backups \cup wals \cup {NewRecord(w)} /\ UNCHANGED <<local, remote>>
    BY <1>11 DEF CreateBackup, CreateWALArchive, files
  <2>4. RecordsDated'
    BY <2>2, <2>3 DEF DatedInv, RecordsDated
  <2> QED
    BY <1>2, <1>3, <1>4, <1>5, <2>1, <2>3, <2>4 DEF DatedInv
<1>12. CASE JobRefused(w) \/ JobFails(w)
  <2>1. Ends(w, FALSE)
    BY <1>12 DEF JobRefused, JobFails, Ends
  <2>2. jobs'[w].sum = NoSum /\ Same(w)
    BY <2>1, EndEffect
  <2> QED
    BY <1>2, <1>3, <1>4, <1>5, <1>12, <2>2 DEF JobRefused, JobFails, files, DatedInv
<1> QED
  BY <1>6, <1>7, <1>8, <1>9, <1>10, <1>11, <1>12 DEF Work

LEMMA RestoreStepDated ==
  ASSUME TypeInv, DatedInv, Restore
  PROVE  DatedInv'
<1>1. now' = now /\ remote' = remote /\ jobs' = jobs /\ backups' = backups /\ wals' = wals
  BY RestoreStepTyped DEF records
<1>2. restore \in RestoreJob /\ (restore.pc = "base" => restore.base \in Entry)
  BY DEF TypeInv, RestoreTyped
<1>3. restore.time \in Nat
  BY <1>2 DEF RestoreJob
<1>4. ASSUME NEW r \in Entry, local' = Fetched(r) PROVE Past(local)'
  <2>1. \A n \in DOMAIN local : local[n].to <= now
    BY DEF DatedInv, Past
  <2>2. r.copy \in Copies /\ r.copy.bucket \in Buckets /\ r.file \in DOMAIN remote[r.copy.bucket]
           => remote[r.copy.bucket][r.file].to <= now
    BY DEF DatedInv, Past
  <2> QED
    BY <1>1, <1>4, <2>1, <2>2, FetchTyped DEF Past
<1>5. UNCHANGED local => Past(local)'
  BY <1>1 DEF DatedInv, Past
<1>6. ASSUME restore' = IdleRestore PROVE RestoreDated'
  BY <1>6 DEF RestoreDated, NothingFromTheFuture, IdleRestore
<1>7. ASSUME NEW b \in backups, BeginRestoreBackup(b) PROVE RestoreDated' /\ Past(local)'
  <2>1. b.created \in Nat
    BY DEF TypeInv, RecordsTyped, Entry
  <2>2. Unix(b.created) \in Nat
    BY <2>1, UnixNat
  <2>3. Unix(b.sum.to) <= Unix(b.created)
    BY <2>2, RecordAimed
  <2> DEFINE i == [IdleRestore EXCEPT !.pc = "base", !.kind = "logical", !.base = b, !.time = Unix(b.created)]
  <2>4. i.base = b /\ i.time = Unix(b.created) /\ i.todo = {} /\ i.seen = {}
    BY DEF IdleRestore
  <2>5. restore' = i
    BY <1>7 DEF BeginRestoreBackup
  <2> HIDE DEF i
  <2>6. RestoreDated'
    BY <2>3, <2>4, <2>5 DEF RestoreDated, Aimed, NothingFromTheFuture
  <2> QED
    BY <1>5, <1>7, <2>6 DEF BeginRestoreBackup, files
<1>8. ASSUME NEW s, BeginRestoreToTime(s) PROVE RestoreDated' /\ Past(local)'
  <2>1. restore'.pc = "select" /\ restore'.todo = {} /\ restore'.seen = {}
    BY <1>8 DEF BeginRestoreToTime, IdleRestore
  <2> QED
    BY <1>5, <1>8, <2>1 DEF BeginRestoreToTime, RestoreDated, NothingFromTheFuture, files
<1>9. ASSUME NEW b \in backups, Select(b) PROVE RestoreDated' /\ Past(local)'
  <2> DEFINE t == restore.time * PerSecond
             range == WALsInRange(b.created, t)
  <2>1. ~CreatedAfter(b.created, t) /\ \A a \in range : a \in wals /\ ~CreatedAfter(a.created, t)
    BY <1>9 DEF Select, Latest, BasesAtOrBefore, WALsInRange
  <2>2. \A r \in backups \cup wals : r.created \in Nat
    BY DEF TypeInv, RecordsTyped, Entry
  <2>3. Unix(b.created) <= restore.time /\ \A a \in range : a \in wals /\ Unix(a.created) <= restore.time
    BY <1>3, <2>1, <2>2, OnTheSecond
  <2>4. restore' = [restore EXCEPT !.pc = "base", !.base = b, !.wals = range, !.todo = range]
    BY <1>9 DEF Select
  <2> HIDE DEF t, range
  <2>5. Unix(b.sum.to) <= restore.time /\ \A a \in range : Unix(a.sum.to) <= restore.time
    BY <1>3, <2>3, RecordAimed
  <2>6. restore'.base = b /\ restore'.todo = range /\ restore'.time = restore.time /\ restore'.seen = restore.seen
    BY <1>2, <2>4 DEF RestoreJob
  <2>7. RestoreDated'
    BY <2>5, <2>6 DEF DatedInv, RestoreDated, Aimed, NothingFromTheFuture
  <2> QED
    BY <1>5, <1>9, <2>7 DEF Select, files
<1>10. ASSUME EnsureBackupArtifact PROVE RestoreDated' /\ Past(local)'
  <2> DEFINE r == restore.base
             c == Fetched(r)[r.file]
             p == IF restore.kind = "pitr" THEN "wals" ELSE "run"
  <2>1. r \in Entry /\ local' = Fetched(r) /\ Unix(r.sum.to) <= restore.time
    BY <1>2, <1>10 DEF EnsureBackupArtifact, DatedInv, RestoreDated, Aimed
  <2>2. restore' = IdleRestore \/ (c = r.sum /\ restore' = [restore EXCEPT !.pc = p, !.seen = {c}])
    BY <1>10 DEF EnsureBackupArtifact, Sound
  <2>3. p # "base"
    OBVIOUS
  <2> HIDE DEF r, c, p
  <2>4. \/ restore' = IdleRestore
        \/ /\ c = r.sum /\ restore'.pc # "base" /\ restore'.todo = restore.todo
           /\ restore'.time = restore.time /\ restore'.seen = {c}
    BY <1>2, <2>2, <2>3 DEF RestoreJob
  <2>5. RestoreDated'
    BY <1>6, <2>1, <2>4 DEF DatedInv, RestoreDated, Aimed, NothingFromTheFuture
  <2> QED
    BY <1>4, <2>1, <2>5
<1>11. ASSUME NEW r \in restore.todo, EnsureWALArchiveArtifact(r) PROVE RestoreDated' /\ Past(local)'
  <2> DEFINE c == Fetched(r)[r.file]
             left == restore.todo \ {r}
             p == IF left = {} THEN "run" ELSE "wals"
             n == restore.seen \cup {c}
  <2>1. r \in Entry /\ local' = Fetched(r) /\ Unix(r.sum.to) <= restore.time
    BY <1>2, <1>11 DEF EnsureWALArchiveArtifact, DatedInv, RestoreDated, Aimed, RestoreJob
  <2>2. restore' = IdleRestore \/ (c = r.sum /\ restore' = [restore EXCEPT !.todo = left, !.pc = p, !.seen = n])
    BY <1>11 DEF EnsureWALArchiveArtifact, Sound
  <2>3. p # "base" /\ left \subseteq restore.todo /\ n = restore.seen \cup {c}
    OBVIOUS
  <2> HIDE DEF c, p, left, n
  <2>4. \/ restore' = IdleRestore
        \/ /\ c = r.sum /\ restore'.pc # "base" /\ restore'.todo = left
           /\ restore'.time = restore.time /\ restore'.seen = n
    BY <1>2, <2>2, <2>3 DEF RestoreJob
  <2>5. RestoreDated'
    BY <1>6, <2>1, <2>3, <2>4 DEF DatedInv, RestoreDated, Aimed, NothingFromTheFuture
  <2> QED
    BY <1>4, <2>1, <2>5
<1>12. RestoreDated' /\ Past(local)'
  BY <1>5, <1>6, <1>7, <1>8, <1>9, <1>10, <1>11 DEF Restore, RestoreRefused, RunRestoreCommand, files
<1> QED
  BY <1>1, <1>12 DEF DatedInv, Past, RecordsDated

LEMMA NextDated ==
  ASSUME ConfigInv, TypeInv, DatedInv, [Next]_vars
  PROVE  DatedInv'
<1> USE DEF records, files, ghosts, config
<1>0. now \in Nat /\ now <= now
  BY DEF TypeInv, ClockTyped
<1>1. ASSUME now' \in Nat, now <= now', UNCHANGED <<records, files, restore>>,
             \A w \in Workers : jobs'[w].sum \in {jobs[w].sum, NoSum}
      PROVE  DatedInv'
  BY <1>1, PastStays, RestoreDatedStays DEF DatedInv, RecordsDated
<1>2. ASSUME NEW w \in Workers, Same(w), jobs'[w].sum \in {jobs[w].sum, NoSum}
      PROVE  \A v \in Workers : jobs'[v].sum \in {jobs[v].sum, NoSum}
  BY <1>2 DEF Same
<1>3. CASE Configure
  BY <1>0, <1>1, <1>3, ConfigureTyped
<1>4. CASE \E h \in Handlers : TriggerBackup(h)
  <2>1. policy.kind \in Kinds /\ 0 \in Nat /\ Handlers \subseteq Workers
    BY DEF TypeInv, ClockTyped, Workers
  <2>2. PICK h \in Handlers : TriggerBackup(h)
    BY <1>4
  <2>3. Same(h) /\ jobs'[h].sum = NoSum
    BY <2>1, <2>2, BeginBackupEffect DEF TriggerBackup
  <2> QED
    BY <1>0, <1>1, <1>2, <2>1, <2>2, <2>3 DEF TriggerBackup
<1>5. CASE \E h \in Handlers : ArchiveWAL(h)
  <2>1. Handlers \subseteq Workers
    BY DEF Workers
  <2>2. PICK h \in Handlers : ArchiveWAL(h)
    BY <1>5
  <2>3. Same(h) /\ jobs'[h].sum = NoSum
    BY <2>1, <2>2, BeginArchiveEffect DEF ArchiveWAL
  <2> QED
    BY <1>0, <1>1, <1>2, <2>1, <2>2, <2>3 DEF ArchiveWAL
<1>6. CASE \E w \in Workers : Work(w)
  BY <1>6, WorkDated
<1>7. CASE BeginPass \/ MarkBackupPolicyRun \/ ArchiveStage
  <2>1. policy.kind \in Kinds /\ now \in Nat /\ Scheduler \in Workers
    BY DEF TypeInv, ClockTyped, Workers
  <2>2. IdleJob = [IdleJob EXCEPT !.pc = "idle"] /\ IdleJob.sum = NoSum
    BY DEF IdleJob
  <2>3. Same(Scheduler) /\ jobs'[Scheduler].sum \in {jobs[Scheduler].sum, NoSum}
    <3>1. CASE BeginBackup(Scheduler, policy.kind, now)
      BY <2>1, <3>1, BeginBackupEffect
    <3>2. CASE BeginArchive(Scheduler)
      BY <2>1, <3>2, BeginArchiveEffect
    <3>3. CASE jobs' = [jobs EXCEPT ![Scheduler].pc = "archive"]
      BY <3>3, StageEffect
    <3>4. CASE jobs' = [jobs EXCEPT ![Scheduler] = [IdleJob EXCEPT !.pc = "archive"]]
      BY <2>2, <3>4, StageEffect
    <3>5. CASE jobs' = [jobs EXCEPT ![Scheduler] = [IdleJob EXCEPT !.pc = "idle"]]
      BY <2>2, <3>5, StageEffect
    <3> QED
      BY <1>7, <2>2, <3>1, <3>2, <3>3, <3>4, <3>5 DEF BeginPass, MarkBackupPolicyRun, ArchiveStage
  <2> QED
    BY <1>0, <1>1, <1>2, <1>7, <2>1, <2>3 DEF BeginPass, MarkBackupPolicyRun, ArchiveStage
<1>8. CASE Restore
  BY <1>8, RestoreStepDated
<1>9. CASE Tick
  <2>1. now' \in Nat /\ now <= now'
    BY <1>0, <1>9 DEF Tick
  <2> QED
    BY <1>1, <1>9, <2>1 DEF Tick
<1>10. CASE Crash
  <2>1. \A w \in Workers : jobs'[w].sum = NoSum
    BY <1>10, CrashJobs DEF IdleJob
  <2>2. RestoreDated'
    BY <1>10 DEF Crash, RestoreDated, NothingFromTheFuture, IdleRestore
  <2>3. now' = now /\ UNCHANGED <<records, files>>
    BY <1>10 DEF Crash
  <2> QED
    BY <1>0, <2>1, <2>2, <2>3, PastStays DEF DatedInv, RecordsDated
<1>11. CASE \E n \in DOMAIN local : LoseLocal(n)
  <2>1. now' = now /\ UNCHANGED <<records, remote, jobs, restore>>
    BY <1>11 DEF LoseLocal
  <2>2. Past(local)'
    BY <1>11, <2>1 DEF LoseLocal, DatedInv, Past
  <2> QED
    BY <1>0, <2>1, <2>2, PastStays, RestoreDatedStays DEF DatedInv, RecordsDated
<1>12. CASE UNCHANGED vars
  BY <1>0, <1>1, <1>12 DEF vars
<1> QED
  BY <1>3, <1>4, <1>5, <1>6, <1>7, <1>8, <1>9, <1>10, <1>11, <1>12 DEF Next

----------------------------------------------------------------------------
(***************************************************************************)
(* The schedule.  A pass that runs a backup began in a later period than   *)
(* any that was noted, and the policy's next run is past all of those.     *)
(***************************************************************************)
Scheduled == HoldsBackup(Scheduler) \/ jobs[Scheduler].pc = "mark"

Noted ==
  /\ marked \subseteq Nat
  /\ \A m \in marked : m <= now \div Period
  /\ policy.next # Nil => \A m \in marked : (m + 1) * Period <= policy.next
PassInv ==
  /\ jobs[Scheduler].pass <= now
  /\ Scheduled => \A m \in marked : m < jobs[Scheduler].pass \div Period

ScheduleInv == Noted /\ PassInv

LEMMA Periods ==
  ASSUME NEW P \in Nat \ {0}
  PROVE  /\ \A a \in Nat : a \div P \in Nat
         /\ \A a, b \in Nat : a <= b => a \div P <= b \div P
         /\ \A a, k \in Nat : k * P <= a => k <= a \div P
         /\ \A a, b \in Nat : a <= b => a * P <= b * P
<1>1. ASSUME NEW a \in Nat PROVE a \div P \in Nat
  OBVIOUS
<1>2. ASSUME NEW a \in Nat, NEW b \in Nat, a <= b PROVE a \div P <= b \div P
  BY <1>2
<1>3. ASSUME NEW a \in Nat, NEW k \in Nat, k * P <= a PROVE k <= a \div P
  BY <1>3
<1>4. ASSUME NEW a \in Nat, NEW b \in Nat, a <= b PROVE a * P <= b * P
  BY <1>4
<1> QED
  BY <1>1, <1>2, <1>3, <1>4

LEMMA PeriodNat == Period \in Nat \ {0}
  BY TimeAssumption

\* The scheduler's pass goes on: it still stands for the same period, or for
\* none.
LEMMA PassGoesOn ==
  ASSUME ScheduleInv, now' = now, UNCHANGED <<policy, marked>>,
         now \in Nat,
         jobs'[Scheduler].pass \in {0, jobs[Scheduler].pass},
         Scheduled' => Scheduled /\ jobs'[Scheduler].pass = jobs[Scheduler].pass
  PROVE  ScheduleInv'
<1>1. Noted'
  BY DEF ScheduleInv, Noted
<1>2. jobs'[Scheduler].pass <= now'
  BY DEF ScheduleInv, PassInv
<1>3. Scheduled' => \A m \in marked' : m < jobs'[Scheduler].pass \div Period
  BY DEF ScheduleInv, PassInv
<1> QED
  BY <1>1, <1>2, <1>3 DEF ScheduleInv, PassInv

LEMMA WorkScheduled ==
  ASSUME ConfigInv, TypeInv, ScheduleInv, NEW w \in Workers, Work(w)
  PROVE  ScheduleInv'
<1>1. now' = now /\ UNCHANGED <<policy, marked>>
  BY DEF Work, Dump, Checksum, ArchiveCommand, Rename, Upload, CreateBackup, CreateWALArchive,
         JobRefused, JobFails, config, ghosts
<1>2. now \in Nat
  BY DEF TypeInv, ClockTyped
<1>3. Scheduler \in Workers
  BY DEF Workers
<1>4. ASSUME Same(w), w # Scheduler PROVE ScheduleInv'
  <2>1. jobs'[Scheduler] = jobs[Scheduler]
    BY <1>3, <1>4 DEF Same
  <2> QED
    BY <1>1, <1>2, <2>1, PassGoesOn DEF Scheduled, HoldsBackup
<1>5. ASSUME Same(w), jobs'[w].pass = jobs[w].pass,
             jobs'[w].pc # "mark", HoldsBackup(w)' => HoldsBackup(w)
      PROVE  ScheduleInv'
  <2>1. CASE w = Scheduler
    BY <1>1, <1>2, <1>5, <2>1, PassGoesOn DEF Scheduled
  <2> QED
    BY <1>4, <1>5, <2>1
<1>6. CASE Dump(w)
  BY <1>5, <1>6, DumpEffect DEF Dump, HoldsBackup
<1>7. CASE Checksum(w)
  <2>1. /\ Same(w) /\ jobs'[w].pass = jobs[w].pass /\ jobs'[w].kind = jobs[w].kind
        /\ jobs'[w].pc \in {"record", "upload"} /\ jobs[w].pc = "check"
    BY <1>7, ChecksumEffect DEF Checksum
  <2> QED
    BY <1>5, <2>1 DEF HoldsBackup
<1>8. CASE ArchiveCommand(w)
  BY <1>5, <1>8, CommandEffect DEF HoldsBackup
<1>9. CASE Rename(w)
  <2>1. jobs[w].kind = "wal" /\ "wal" \notin Kinds
    BY <1>9 DEF Rename, TypeInv, JobsTyped, Phased, Kinds
  <2>2. Same(w) /\ jobs'[w].pass = jobs[w].pass /\ jobs'[w].kind = "wal" /\ jobs'[w].pc # "mark"
    BY <1>9, <2>1, RenameEffect
  <2> QED
    BY <1>5, <2>1, <2>2 DEF HoldsBackup
<1>10. CASE Upload(w)
  BY <1>5, <1>10, UploadEffect DEF Upload, HoldsBackup
<1>11. CASE CreateBackup(w) \/ CreateWALArchive(w)
  <2>1. Ends(w, TRUE) /\ jobs[w].pc = "record"
    BY <1>11 DEF CreateBackup, CreateWALArchive, Ends
  <2>2. /\ Same(w) /\ ~HoldsBackup(w)'
        /\ jobs'[w].pass \in {0, jobs[w].pass}
        /\ jobs'[w].pc = "mark" => HoldsBackup(w) /\ jobs'[w].pass = jobs[w].pass
    BY <2>1, EndEffect DEF HoldsBackup, TypeInv, JobsTyped, Phased
  <2>3. CASE w = Scheduler
    BY <1>1, <1>2, <2>2, <2>3, PassGoesOn DEF Scheduled
  <2> QED
    BY <1>4, <2>2, <2>3
<1>12. CASE JobRefused(w) \/ JobFails(w)
  <2>1. Ends(w, FALSE)
    BY <1>12 DEF JobRefused, JobFails, Ends
  <2>2. /\ Same(w) /\ ~HoldsBackup(w)' /\ jobs'[w].pc # "mark"
        /\ jobs'[w].pass \in {0, jobs[w].pass}
    BY <2>1, EndEffect DEF HoldsBackup
  <2>3. CASE w = Scheduler
    BY <1>1, <1>2, <2>2, <2>3, PassGoesOn DEF Scheduled
  <2> QED
    BY <1>4, <2>2, <2>3
<1> QED
  BY <1>6, <1>7, <1>8, <1>9, <1>10, <1>11, <1>12 DEF Work

\* A due backup begins in a later period than any that was noted.
LEMMA BeginPassScheduled ==
  ASSUME ConfigInv, TypeInv, ScheduleInv, BeginPass
  PROVE  ScheduleInv'
<1>1. now' = now /\ policy' = policy /\ marked' = marked
  BY DEF BeginPass, config
<1>2. now \in Nat /\ policy.kind \in Kinds /\ policy.next \in Int /\ Scheduler \in Workers
  BY DEF TypeInv, ClockTyped, Workers
<1>3. CASE BackupDue /\ BeginBackup(Scheduler, policy.kind, now)
  <2>1. jobs'[Scheduler].pass = now
    BY <1>2, <1>3, BeginBackupEffect
  <2>2. \A m \in marked : m \in Nat /\ (m + 1) * Period <= now
    <3>1. policy.next # Nil /\ policy.next <= now
      BY <1>3 DEF BackupDue
    <3>2. \A m \in marked : m \in Nat /\ (m + 1) * Period <= policy.next
      BY <3>1 DEF ScheduleInv, Noted
    <3>3. \A m \in Nat : (m + 1) * Period \in Int
      BY PeriodNat
    <3> QED
      BY <1>2, <3>1, <3>2, <3>3
  <2>3. \A m \in marked : m < now \div Period
    <3>1. \A m \in marked : m \in Nat /\ m + 1 \in Nat /\ m + 1 <= now \div Period
      BY <1>2, <2>2, PeriodNat, Periods
    <3>2. now \div Period \in Nat
      BY <1>2, PeriodNat, Periods
    <3> QED
      BY <3>1, <3>2
  <2>4. Noted'
    BY <1>1 DEF ScheduleInv, Noted
  <2>5. PassInv'
    BY <1>1, <1>2, <2>1, <2>3 DEF PassInv
  <2> QED
    BY <2>4, <2>5 DEF ScheduleInv
<1>4. CASE jobs' = [jobs EXCEPT ![Scheduler].pc = "archive"]
  <2>1. jobs'[Scheduler].pass = jobs[Scheduler].pass /\ jobs'[Scheduler].pc = "archive"
    BY <1>4, StageEffect
  <2>2. ~Scheduled'
    BY <2>1 DEF Scheduled, HoldsBackup
  <2> QED
    BY <1>1, <1>2, <2>1, <2>2, PassGoesOn
<1> QED
  BY <1>3, <1>4 DEF BeginPass

\* The run is noted, and the next one is set past it.
LEMMA MarkScheduled ==
  ASSUME TypeInv, ScheduleInv, MarkBackupPolicyRun
  PROVE  ScheduleInv'
<1> DEFINE a == jobs[Scheduler].pass
           k == a \div Period
<1>1. Scheduler \in Workers /\ now \in Nat /\ a \in Nat
  BY DEF TypeInv, ClockTyped, JobsTyped, Job, Workers
<1>2. a <= now /\ \A m \in marked : m \in Nat /\ m < k
  BY DEF MarkBackupPolicyRun, ScheduleInv, PassInv, Scheduled, Noted
<1>3. k \in Nat /\ now \div Period \in Nat /\ k <= now \div Period
  BY <1>1, <1>2, PeriodNat, Periods
<1>4. marked' = marked \cup {k} /\ now' = now
  BY DEF MarkBackupPolicyRun
<1>5. policy'.next = (k + 1) * Period
  BY DEF MarkBackupPolicyRun, NextBackupRun, TypeInv, ClockTyped
<1>6. jobs'[Scheduler].pass = 0 /\ jobs'[Scheduler].pc = "archive"
  <2>1. jobs' = [jobs EXCEPT ![Scheduler] = [IdleJob EXCEPT !.pc = "archive"]]
    BY DEF MarkBackupPolicyRun
  <2> QED
    BY <2>1, StageEffect DEF IdleJob
<1> HIDE DEF a, k
<1>7. \A m \in marked' : m \in Nat /\ m <= k
  BY <1>2, <1>3, <1>4
<1>8. \A m \in marked' : m <= now' \div Period
  BY <1>3, <1>4, <1>7
<1>9. \A m \in marked' : (m + 1) * Period <= policy'.next
  <2> SUFFICES ASSUME NEW m \in marked' PROVE (m + 1) * Period <= (k + 1) * Period
    BY <1>5
  <2>1. m + 1 \in Nat /\ k + 1 \in Nat /\ m + 1 <= k + 1
    BY <1>3, <1>7
  <2> QED
    BY <2>1, PeriodNat, Periods
<1>10. Noted'
  BY <1>7, <1>8, <1>9 DEF Noted
<1>11. PassInv'
  BY <1>1, <1>4, <1>6 DEF PassInv, Scheduled, HoldsBackup
<1> QED
  BY <1>10, <1>11 DEF ScheduleInv

\* A new policy is due in the next period at the earliest.
LEMMA ConfigureScheduled ==
  ASSUME TypeInv, ScheduleInv, Configure
  PROVE  ScheduleInv'
<1>1. now' = now /\ jobs' = jobs /\ marked' = marked
  BY ConfigureTyped DEF ghosts
<1>2. now \in Nat
  BY DEF TypeInv, ClockTyped
<1>3. PassInv'
  BY <1>1 DEF ScheduleInv, PassInv, Scheduled, HoldsBackup
<1>4. ASSUME policy'.next = policy.next PROVE Noted'
  BY <1>1, <1>4 DEF ScheduleInv, Noted
<1>5. CASE \E enabled \in BOOLEAN, kind \in Kinds, t \in Targets \cup {None} : UpdateBackupPolicy(enabled, kind, t)
  <2>1. policy'.next \in {Nil, (now \div Period + 1) * Period}
    BY <1>5 DEF UpdateBackupPolicy, NextBackupRun
  <2>2. ASSUME NEW m \in marked PROVE (m + 1) * Period <= (now \div Period + 1) * Period
    <3>1. m \in Nat /\ m <= now \div Period
      BY DEF ScheduleInv, Noted
    <3>2. now \div Period \in Nat
      BY <1>2, PeriodNat, Periods
    <3>3. m + 1 \in Nat /\ now \div Period + 1 \in Nat /\ m + 1 <= now \div Period + 1
      BY <3>1, <3>2
    <3> QED
      BY <3>3, PeriodNat, Periods
  <2>3. Noted'
    BY <1>1, <2>1, <2>2 DEF ScheduleInv, Noted
  <2> QED
    BY <1>3, <2>3 DEF ScheduleInv
<1>6. CASE \E t \in Targets : DeleteBackupStorageTarget(t)
  <2>1. policy'.next = policy.next
    BY <1>6 DEF DeleteBackupStorageTarget, TypeInv, ClockTyped
  <2> QED
    BY <1>3, <1>4, <2>1 DEF ScheduleInv
<1>7. CASE UNCHANGED policy
  BY <1>3, <1>4, <1>7 DEF ScheduleInv
<1> QED
  BY <1>5, <1>6, <1>7 DEF Configure, CreateBackupStorageTarget, UpdateBackupStorageTarget,
       BeginTest, UpdateBackupStorageTargetTestResult, UpdatePITRPolicy

LEMMA NextScheduled ==
  ASSUME ConfigInv, TypeInv, ScheduleInv, [Next]_vars
  PROVE  ScheduleInv'
<1> USE DEF records, files, ghosts, config
<1>0. now \in Nat /\ policy.kind \in Kinds /\ Scheduler \in Workers
  BY DEF TypeInv, ClockTyped, Workers
<1>1. ASSUME now' = now, UNCHANGED <<policy, marked>>, jobs'[Scheduler] = jobs[Scheduler]
      PROVE  ScheduleInv'
  BY <1>0, <1>1, PassGoesOn DEF Scheduled, HoldsBackup
<1>2. CASE Configure
  BY <1>2, ConfigureScheduled
<1>3. CASE \E h \in Handlers : TriggerBackup(h) \/ ArchiveWAL(h)
  <2>1. PICK h \in Handlers : TriggerBackup(h) \/ ArchiveWAL(h)
    BY <1>3
  <2>2. h \in Workers /\ h # Scheduler
    BY HandlersAssumption DEF Workers, Scheduler
  <2>3. Same(h)
    BY <1>0, <2>1, <2>2, BeginBackupEffect, BeginArchiveEffect DEF TriggerBackup, ArchiveWAL
  <2>4. jobs'[Scheduler] = jobs[Scheduler]
    BY <1>0, <2>2, <2>3 DEF Same
  <2> QED
    BY <1>1, <2>1, <2>4 DEF TriggerBackup, ArchiveWAL
<1>4. CASE \E w \in Workers : Work(w)
  BY <1>4, WorkScheduled
<1>5. CASE BeginPass
  BY <1>5, BeginPassScheduled
<1>6. CASE MarkBackupPolicyRun
  BY <1>6, MarkScheduled
<1>7. CASE ArchiveStage
  <2>1. jobs'[Scheduler].pass = 0 /\ ~Scheduled'
    <3>1. CASE BeginArchive(Scheduler)
      BY <1>0, <3>1, BeginArchiveEffect DEF Scheduled, HoldsBackup
    <3>2. CASE jobs' = [jobs EXCEPT ![Scheduler] = IdleJob]
      BY <1>0, <3>2 DEF Scheduled, HoldsBackup, IdleJob, TypeInv, JobsTyped
    <3> QED
      BY <1>7, <3>1, <3>2 DEF ArchiveStage
  <2> QED
    BY <1>0, <1>7, <2>1, PassGoesOn DEF ArchiveStage
<1>8. CASE Restore
  BY <1>1, <1>8, RestoreStepTyped
<1>9. CASE Tick
  <2>1. now' \in Nat /\ now <= now' /\ UNCHANGED <<policy, marked, jobs>>
    BY <1>0, <1>9 DEF Tick
  <2>2. now \div Period <= now' \div Period /\ now \div Period \in Nat /\ now' \div Period \in Nat
    BY <1>0, <2>1, PeriodNat, Periods
  <2>3. Noted'
    BY <2>1, <2>2 DEF ScheduleInv, Noted
  <2>4. jobs[Scheduler].pass \in Nat
    BY <1>0 DEF TypeInv, JobsTyped, Job
  <2>5. jobs'[Scheduler].pass <= now'
    BY <1>0, <2>1, <2>4 DEF ScheduleInv, PassInv
  <2>6. PassInv'
    BY <2>1, <2>5 DEF ScheduleInv, PassInv, Scheduled, HoldsBackup
  <2> QED
    BY <2>3, <2>6 DEF ScheduleInv
<1>10. CASE Crash
  <2>1. jobs'[Scheduler].pass = 0 /\ ~Scheduled'
    BY <1>0, <1>10, CrashJobs DEF Scheduled, HoldsBackup, IdleJob
  <2> QED
    BY <1>0, <1>10, <2>1, PassGoesOn DEF Crash
<1>11. CASE \E n \in DOMAIN local : LoseLocal(n)
  BY <1>1, <1>11 DEF LoseLocal
<1>12. CASE UNCHANGED vars
  BY <1>1, <1>12 DEF vars
<1> QED
  BY <1>2, <1>3, <1>4, <1>5, <1>6, <1>7, <1>8, <1>9, <1>10, <1>11, <1>12 DEF Next

----------------------------------------------------------------------------
(***************************************************************************)
(* The inductive invariant of Backups and what follows from it.            *)
(***************************************************************************)
IInv == ConfigInv /\ TypeInv /\ NamesInv /\ CopiesInv /\ DatedInv /\ ScheduleInv

LEMMA IInvInit == Init => IInv
<1> SUFFICES ASSUME Init PROVE IInv
  OBVIOUS
<1>1. ConfigInv /\ TypeInv
  BY InitEstablishes, TypeInit
<1>2. /\ \A w \in Workers : jobs[w] = IdleJob
      /\ restore = IdleRestore /\ backups = {} /\ wals = {} /\ marked = {} /\ now = 0
      /\ DOMAIN taken = {} /\ DOMAIN local = {} /\ \A b \in Buckets : DOMAIN remote[b] = {}
  BY DEF Init
<1>3. NamesInv
  BY <1>2 DEF NamesInv, Named, Apart, Holds, HoldsBackup, HoldsSegment, IdleJob
<1>4. CopiesInv
  BY <1>2 DEF CopiesInv, Faithful, Stored, OffHostCopiesMatch, FromRecords, IdleJob, IdleRestore
<1>5. DatedInv
  <2>1. RestoreDated
    BY <1>2 DEF RestoreDated, NothingFromTheFuture, IdleRestore
  <2>2. \A w \in Workers : jobs[w].sum.to <= now
    BY <1>2 DEF IdleJob, NoSum, Nil
  <2> QED
    BY <1>2, <2>1, <2>2 DEF DatedInv, Past, RecordsDated
<1>6. ScheduleInv
  <2>1. Scheduler \in Workers
    BY DEF Workers
  <2> QED
    BY <1>2, <2>1 DEF ScheduleInv, Noted, PassInv, IdleJob
<1> QED
  BY <1>1, <1>3, <1>4, <1>5, <1>6 DEF IInv

LEMMA IInvNext == ASSUME IInv, [Next]_vars PROVE IInv'
<1>1. ConfigInv'
  BY NextKeeps DEF IInv
<1>2. TypeInv'
  BY NextTyped DEF IInv
<1>3. NamesInv'
  BY NextNamed DEF IInv
<1>4. CopiesInv'
  BY NextCopied DEF IInv
<1>5. DatedInv'
  BY NextDated DEF IInv
<1>6. ScheduleInv'
  BY NextScheduled DEF IInv
<1> QED
  BY <1>1, <1>2, <1>3, <1>4, <1>5, <1>6 DEF IInv

LEMMA IInvAlways == Spec => []IInv
<1>1. Init => IInv
  BY IInvInit
<1>2. IInv /\ [Next]_vars => IInv'
  BY IInvNext
<1> QED
  BY <1>1, <1>2, PTL DEF Spec

\* However backups, archives, failures, lost files and restores overlap: a
\* record that names a remote copy stands for an object that is in the bucket
\* and has the recorded checksum, unless two backups of one second took the
\* same file name (TriggerLogicalBackup, TriggerPhysicalBackup and
\* ArchiveWALSegment upload before they record, and a WAL file carries the
\* number of its segment).
THEOREM CopiesStayTrue == Spec => []OffHostCopiesMatch
<1>1. IInv => OffHostCopiesMatch
  BY DEF IInv, CopiesInv
<1> QED
  BY <1>1, IInvAlways, PTL

\* A restore, to a second or of a logical backup, accepts no file that holds a
\* change after the second it aims at: RestoreToTime selects by the date of
\* the record, which is not before its content, and
\* EnsureBackupArtifact and EnsureWALArchiveArtifact compare the checksum.
THEOREM RestoresStayInThePast == Spec => []NothingFromTheFuture
<1>1. IInv => NothingFromTheFuture
  BY DEF IInv, DatedInv, RestoreDated
<1> QED
  BY <1>1, IInvAlways, PTL

\* The scheduler never notes two backups for one period of the schedule,
\* however long a backup takes and whatever the policy is set to meanwhile
\* (RunDueBackups, MarkBackupPolicyRun, nextBackupRun).
THEOREM ScheduleRunsOnce == Spec => []ScheduledOncePerPeriod
<1>1. IInv => ScheduledOncePerPeriod
  <2> SUFFICES ASSUME IInv, jobs[Scheduler].pc = "mark"
               PROVE  jobs[Scheduler].pass \div Period \notin marked
    BY DEF ScheduledOncePerPeriod
  <2>1. \A m \in marked : m \in Nat /\ m < jobs[Scheduler].pass \div Period
    BY DEF IInv, ScheduleInv, PassInv, Scheduled, Noted
  <2> QED
    BY <2>1
<1> QED
  BY <1>1, IInvAlways, PTL
==============================================================================
