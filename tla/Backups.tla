------------------------------ MODULE Backups ------------------------------
(***************************************************************************)
(* Backups, WAL archives and restores of one project (internal/control/    *)
(* backup.go, the backup methods of store.go, the scheduler that triggers  *)
(* them and the handlers beside it).  A backup writes a file named after   *)
(* the second it began in, takes its checksum, uploads it to the storage   *)
(* target and only then writes a record; a WAL archive switches the        *)
(* segment, fills a pending file, renames it, and goes on in the same way. *)
(* A restore works from the records, fetches what is missing locally and   *)
(* hands files over only when their checksums agree with the records.      *)
(* Nothing locks the project: the scheduler's pass, the handlers, the      *)
(* changes of targets and policies and a restore interleave freely.        *)
(*                                                                         *)
(* Time advances in ticks, PerSecond of them to the second of a file name  *)
(* and of a recovery target.  The content of an artifact is the span of    *)
(* changes in it: those after tick from, up to and including tick to.      *)
(* The bytes, the checksum of them and their size are that one value.      *)
(***************************************************************************)
EXTENDS Integers

CONSTANTS Targets,      \* ids of storage targets
          Buckets,      \* a target's connection: where it puts its objects
          OffHost,      \* the connections that do not lead back to this host
          None,         \* no target
          Handlers,     \* requests that run a backup or archive WAL
          RequireReady, \* SUPADUPA_REQUIRE_RECOVERY_READY_TARGETS
          PerSecond,    \* ticks in a second
          Period,       \* ticks between two runs of the backup schedule
          Interval,     \* ticks between two scheduled WAL archives
          Retention,    \* ticks the PITR policy keeps
          MaxTime,      \* bound: the last tick considered
          MaxJobs,      \* bound: backups and archives begun
          MaxEvents     \* bound: changes of targets and policies, failures,
                        \* lost files and crashes

ASSUME BucketsAssumption == OffHost \subseteq Buckets
ASSUME TargetsAssumption == None \notin Targets \cup Buckets
ASSUME SwitchAssumption == RequireReady \in BOOLEAN
ASSUME HandlersAssumption == "scheduler" \notin Handlers
ASSUME TimeAssumption ==
  /\ {PerSecond, Period, Interval, Retention} \subseteq Nat \ {0}
  /\ {MaxTime, MaxJobs, MaxEvents} \subseteq Nat

VARIABLES
  now,      \* the clock
  targets,  \* storage targets by id: connection, last test, default
  policy,   \* the project's backup policy
  pitr,     \* its PITR policy is enabled
  backups,  \* records of completed backups
  wals,     \* records of WAL archives
  local,    \* content of the files under the backup root, by name
  remote,   \* per bucket: content of the objects in it, by name
  segment,  \* the database: number and first tick of the open WAL segment
  jobs,     \* the backup or archive each worker is at
  probe,    \* a test of a target under way
  restore,  \* a restore under way
  taken,    \* history: how many jobs took a file name (one, or more)
  marked,   \* history: periods whose scheduled backup was noted
  begun,    \* backups and archives begun so far
  events    \* changes of targets and policies, and faults, so far

config == <<targets, policy, pitr, probe>>
records == <<backups, wals>>
files == <<local, remote>>
ghosts == <<taken, marked, begun>>
vars == <<now, config, records, files, segment, jobs, restore, ghosts, events>>

Scheduler == "scheduler"
Workers == Handlers \cup {Scheduler}
Nil == -1
Time == 0..MaxTime
Unix(t) == t \div PerSecond

Tests == {"", "passed", "failed"}
Kinds == {"logical", "physical"}
Spans == [from : Time, to : Time]
\* Every job switches segments at most once.
MaxSegment == 1 + MaxJobs
Names == [kind : Kinds \cup {"wal", "pending"}, second : 0..Unix(MaxTime), segment : 0..MaxSegment]
Copies == [id : Targets, bucket : Buckets]
NoFile == [kind |-> "none"]
NoSum == [from |-> Nil, to |-> Nil]
Phases == {"idle", "dump", "check", "command", "rename", "upload", "record", "mark", "archive"}

IdleJob == [pc |-> "idle", kind |-> "none", pass |-> 0, copy |-> None, file |-> NoFile, sum |-> NoSum]
IdleRestore == [pc |-> "idle", kind |-> "none", time |-> 0, base |-> None, wals |-> {}, todo |-> {}, seen |-> {}]
----------------------------------------------------------------------------
(***************************************************************************)
(* Storage targets and policies                                            *)
(***************************************************************************)
\* backupStorageTargetIsReadyOffHost.  Credentials are required on input, so
\* every stored target has them.
ReadyOffHost(t) == targets[t].test = "passed" /\ targets[t].bucket \in OffHost

Copy(t) == [id |-> t, bucket |-> targets[t].bucket]
Defaults == {t \in DOMAIN targets : targets[t].default}

\* resolveBackupTarget: the policy's target, else the platform's default.
ResolveBackupTarget ==
  LET t == IF policy.target # None THEN policy.target
           ELSE IF Defaults # {} THEN CHOOSE d \in Defaults : TRUE ELSE None
  IN  IF t = None THEN None ELSE Copy(t)

\* The target named by the policy is still there to be read.
Resolvable == policy.target # None => policy.target \in DOMAIN targets

EnsureRecoveryReady ==
  RequireReady => ResolveBackupTarget # None /\ ReadyOffHost(ResolveBackupTarget.id)

\* (mutant of NextBackupRun) The start of the current period.
NextBackupRunTooEarly(t) == (t \div Period) * Period

\* nextBackupRun of the hourly schedule: the start of the next period.
NextBackupRun(t) == (t \div Period + 1) * Period

Event == events < MaxEvents /\ events' = events + 1

\* (mutant of ClearDefault) The old default stays.
KeepDefault(ts, but) == ts

ClearDefault(ts, but) ==
  [t \in DOMAIN ts |-> IF t = but THEN ts[t] ELSE [ts[t] EXCEPT !.default = FALSE]]

\* CreateBackupStorageTarget: a new target is untested.
CreateBackupStorageTarget(t, b, d) ==
  /\ t \notin DOMAIN targets
  /\ Event
  /\ LET next == [u \in DOMAIN targets \cup {t} |->
                    IF u = t THEN [bucket |-> b, test |-> "", default |-> d] ELSE targets[u]]
     IN  targets' = IF d THEN ClearDefault(next, t) ELSE next
  /\ UNCHANGED <<now, policy, pitr, probe, records, files, segment, jobs, restore, ghosts>>

\* UpdateBackupStorageTarget: a changed connection has to be tested again.
UpdateBackupStorageTarget(t, b, d) ==
  /\ t \in DOMAIN targets
  /\ Event
  /\ LET kept == IF targets[t].bucket = b THEN targets[t].test ELSE ""
         next == [targets EXCEPT ![t] = [bucket |-> b, test |-> kept, default |-> d]]
     IN  targets' = IF d THEN ClearDefault(next, t) ELSE next
  /\ UNCHANGED <<now, policy, pitr, probe, records, files, segment, jobs, restore, ghosts>>

\* DeleteBackupStorageTarget: policies that named it fall back to the default.
DeleteBackupStorageTarget(t) ==
  /\ t \in DOMAIN targets
  /\ Event
  /\ targets' = [u \in DOMAIN targets \ {t} |-> targets[u]]
  /\ policy' = IF policy.target = t THEN [policy EXCEPT !.target = None] ELSE policy
  /\ UNCHANGED <<now, pitr, probe, records, files, segment, jobs, restore, ghosts>>

\* The test handler reads the target ...
BeginTest(t) ==
  /\ probe = None
  /\ t \in DOMAIN targets
  /\ Event
  /\ probe' = t
  /\ UNCHANGED <<now, targets, policy, pitr, records, files, segment, jobs, restore, ghosts>>

\* ... probes its bucket, and records the outcome on whatever the target has
\* become meanwhile; a target deleted meanwhile is reported as not found.
UpdateBackupStorageTargetTestResult(result) ==
  /\ probe # None
  /\ probe' = None
  /\ targets' = IF probe \in DOMAIN targets THEN [targets EXCEPT ![probe].test = result] ELSE targets
  /\ UNCHANGED <<now, policy, pitr, records, files, segment, jobs, restore, ghosts, events>>

UpdateBackupPolicy(enabled, kind, t) ==
  /\ t # None => t \in DOMAIN targets
  /\ Event
  /\ policy' = [enabled |-> enabled, kind |-> kind, target |-> t,
                next |-> IF enabled THEN NextBackupRun(now) ELSE Nil]
  /\ UNCHANGED <<now, targets, pitr, probe, records, files, segment, jobs, restore, ghosts>>

\* UpdatePITRPolicy: without a bucket of its own, the request needs a target
\* to derive one from.
UpdatePITRPolicy(enabled, bucketGiven) ==
  /\ enabled /\ ~bucketGiven => ResolveBackupTarget # None /\ EnsureRecoveryReady
  /\ Event
  /\ pitr' = enabled
  /\ UNCHANGED <<now, targets, policy, probe, records, files, segment, jobs, restore, ghosts>>
----------------------------------------------------------------------------
(***************************************************************************)
(* Backups and WAL archives                                                *)
(***************************************************************************)
\* A directory, or a bucket, after a file was written under a name, over what
\* was there.
Write(fs, name, content) ==
  [n \in DOMAIN fs \cup {name} |-> IF n = name THEN content ELSE fs[n]]

\* (mutant of FileName) Named by the second alone.
FileNameOfSecond(kind, s, seg) == [kind |-> kind, second |-> s, segment |-> 0]

FileName(kind, s, seg) == [kind |-> kind, second |-> s, segment |-> seg]

\* What a worker does once its job has ended: a request is answered, while
\* the scheduler notes the run of a backup, and archives WAL whether or not
\* its backup succeeded.
Ended(w, ok) ==
  [IdleJob EXCEPT !.pass = IF ok /\ w = Scheduler THEN jobs[w].pass ELSE 0,
                  !.pc = IF w # Scheduler \/ jobs[w].kind = "wal" THEN "idle"
                         ELSE IF ok THEN "mark" ELSE "archive"]

Take(name) == taken' = Write(taken, name, IF name \in DOMAIN taken THEN 2 ELSE 1)

\* TriggerLogicalBackup and TriggerPhysicalBackup up to the dump: the file is
\* named after the second, and a physical backup needs its target now.
BeginBackup(w, kind, pass) ==
  LET name == FileName(kind, Unix(now), 0)
  IN  /\ begun < MaxJobs /\ begun' = begun + 1
      /\ kind = "physical" => Resolvable /\ EnsureRecoveryReady
      /\ jobs' = [jobs EXCEPT ![w] = [IdleJob EXCEPT
                    !.pc = "dump", !.kind = kind, !.pass = pass, !.file = name,
                    !.copy = IF kind = "physical" THEN ResolveBackupTarget ELSE None]]
      /\ Take(name)

\* The request for a backup of the policy's kind.
TriggerBackup(h) ==
  /\ jobs[h].pc = "idle"
  /\ BeginBackup(h, policy.kind, 0)
  /\ UNCHANGED <<now, config, records, files, segment, restore, marked, events>>

\* runLogicalBackupCommand, runPhysicalBackupCommand: the file is written as
\* a whole once the command is done.
Dump(w) ==
  /\ jobs[w].pc = "dump"
  /\ local' = Write(local, jobs[w].file, [from |-> 0, to |-> now])
  /\ jobs' = [jobs EXCEPT ![w].pc = "check"]
  /\ UNCHANGED <<now, config, records, remote, segment, restore, ghosts, events>>

\* The checksum; a logical backup chooses its target here, after the dump.
Checksum(w) ==
  LET copy == IF jobs[w].kind = "logical" THEN ResolveBackupTarget ELSE jobs[w].copy
  IN  /\ jobs[w].pc = "check"
      /\ jobs[w].file \in DOMAIN local
      /\ jobs[w].kind = "logical" => Resolvable
      /\ jobs' = [jobs EXCEPT ![w].sum = local[jobs[w].file], ![w].copy = copy,
                              ![w].pc = IF copy = None THEN "record" ELSE "upload"]
      /\ UNCHANGED <<now, config, records, files, segment, restore, ghosts, events>>

\* ArchiveWALSegment up to its command.
BeginArchive(w) ==
  /\ pitr
  /\ begun < MaxJobs /\ begun' = begun + 1
  /\ Resolvable /\ EnsureRecoveryReady
  /\ jobs' = [jobs EXCEPT ![w] = [IdleJob EXCEPT
                !.pc = "command", !.kind = "wal",
                !.copy = ResolveBackupTarget, !.file = FileName("pending", Unix(now), 0)]]

\* The request to archive WAL.
ArchiveWAL(h) ==
  /\ jobs[h].pc = "idle"
  /\ BeginArchive(h)
  /\ UNCHANGED <<now, config, records, files, segment, restore, taken, marked, events>>

Switch == segment' = [number |-> segment.number + 1, first |-> now]

\* runWALArchiveCommand: the database closes its segment, and the segment is
\* copied to the pending file of this second.
ArchiveCommand(w) ==
  /\ jobs[w].pc = "command"
  /\ Switch
  /\ local' = Write(local, jobs[w].file, [from |-> segment.first, to |-> now])
  /\ jobs' = [jobs EXCEPT ![w].pc = "rename",
                          ![w].file = FileName("wal", jobs[w].file.second, segment.number)]
  /\ UNCHANGED <<now, config, records, remote, restore, ghosts, events>>

\* The pending file gets the name of the segment, and its checksum is taken.
Rename(w) ==
  LET pending == FileName("pending", jobs[w].file.second, 0)
  IN  /\ jobs[w].pc = "rename"
      /\ pending \in DOMAIN local
      /\ local' = Write([n \in DOMAIN local \ {pending} |-> local[n]], jobs[w].file, local[pending])
      /\ jobs' = [jobs EXCEPT ![w].sum = local[pending],
                              ![w].pc = IF jobs[w].copy = None THEN "record" ELSE "upload"]
      /\ UNCHANGED <<now, config, records, remote, segment, restore, ghosts, events>>

\* UploadBackupArtifact, UploadWALArchiveArtifact: the file as it is now goes
\* to the target as it was resolved.
Upload(w) ==
  LET b == jobs[w].copy.bucket
  IN  /\ jobs[w].pc = "upload"
      /\ jobs[w].file \in DOMAIN local
      /\ remote' = [remote EXCEPT ![b] = Write(@, jobs[w].file, local[jobs[w].file])]
      /\ jobs' = [jobs EXCEPT ![w].pc = "record"]
      /\ UNCHANGED <<now, config, records, local, segment, restore, ghosts, events>>

\* The record a job leaves: its artifact's name, checksum and copy, and the
\* time it is written.
NewRecord(w) ==
  [kind |-> jobs[w].kind, file |-> jobs[w].file, sum |-> jobs[w].sum, copy |-> jobs[w].copy, created |-> now]

Recordable(w) == jobs[w].copy # None => jobs[w].copy.id \in DOMAIN targets

CreateBackup(w) ==
  /\ jobs[w].pc = "record" /\ jobs[w].kind # "wal"
  /\ Recordable(w)
  /\ backups' = backups \cup {NewRecord(w)}
  /\ jobs' = [jobs EXCEPT ![w] = Ended(w, TRUE)]
  /\ UNCHANGED <<now, config, wals, files, segment, restore, ghosts, events>>

CreateWALArchive(w) ==
  /\ jobs[w].pc = "record" /\ jobs[w].kind = "wal"
  /\ Recordable(w)
  /\ wals' = wals \cup {NewRecord(w)}
  /\ jobs' = [jobs EXCEPT ![w] = Ended(w, TRUE)]
  /\ UNCHANGED <<now, config, backups, files, segment, restore, ghosts, events>>

\* The error returns of a job: its target is gone, its file is not there.
Refused(w) ==
  \/ jobs[w].pc = "check" /\ (jobs[w].file \notin DOMAIN local \/ (jobs[w].kind = "logical" /\ ~Resolvable))
  \/ jobs[w].pc = "rename" /\ FileName("pending", jobs[w].file.second, 0) \notin DOMAIN local
  \/ jobs[w].pc = "upload" /\ jobs[w].file \notin DOMAIN local
  \/ jobs[w].pc = "record" /\ ~Recordable(w)

JobRefused(w) ==
  /\ Refused(w)
  /\ jobs' = [jobs EXCEPT ![w] = Ended(w, FALSE)]
  /\ UNCHANGED <<now, config, records, files, segment, restore, ghosts, events>>

\* A command or an upload fails.  The command of an archive may have closed
\* the segment before it failed; nobody archives that segment later.
JobFails(w) ==
  /\ jobs[w].pc \in {"dump", "command", "upload"}
  /\ Event
  /\ \/ jobs[w].pc = "command" /\ Switch
     \/ UNCHANGED segment
  /\ jobs' = [jobs EXCEPT ![w] = Ended(w, FALSE)]
  /\ UNCHANGED <<now, config, records, files, restore, ghosts>>
----------------------------------------------------------------------------
(***************************************************************************)
(* The scheduler's pass (BackupScheduler.runOnce; PeriodicRunner lets one  *)
(* pass run at a time): RunDueBackups, then RunDueWALArchives.             *)
(***************************************************************************)
BackupDue == policy.enabled /\ policy.next # Nil /\ policy.next <= now

\* A pass begins.  A backup that is not due, or that cannot begin, leaves
\* the WAL stage to do.
BeginPass ==
  LET s == Scheduler
      begins == BackupDue /\ begun < MaxJobs /\ (policy.kind = "physical" => Resolvable /\ EnsureRecoveryReady)
  IN  /\ jobs[s].pc = "idle"
      /\ \/ begins /\ BeginBackup(s, policy.kind, now)
         \/ ~begins /\ jobs' = [jobs EXCEPT ![s].pc = "archive"] /\ UNCHANGED <<taken, begun>>
      /\ UNCHANGED <<now, config, records, files, segment, restore, marked, events>>

\* MarkBackupPolicyRun with the time the pass began.
MarkBackupPolicyRun ==
  LET s == Scheduler
  IN  /\ jobs[s].pc = "mark"
      /\ policy' = [policy EXCEPT !.next = NextBackupRun(jobs[s].pass)]
      /\ marked' = marked \cup {jobs[s].pass \div Period}
      /\ jobs' = [jobs EXCEPT ![s] = [IdleJob EXCEPT !.pc = "archive"]]
      /\ UNCHANGED <<now, targets, pitr, probe, records, files, segment, restore, taken, begun, events>>

PITRArchiveDue == pitr /\ \A a \in wals : a.created + Interval <= now

\* RunDueWALArchives; a project that is neither healthy nor degraded is
\* skipped, and so is one whose archive cannot begin.
ArchiveStage ==
  LET s == Scheduler
  IN  /\ jobs[s].pc = "archive"
      /\ \/ PITRArchiveDue /\ BeginArchive(s)
         \/ jobs' = [jobs EXCEPT ![s] = IdleJob] /\ UNCHANGED begun
      /\ UNCHANGED <<now, config, records, files, segment, restore, taken, marked, events>>
----------------------------------------------------------------------------
(***************************************************************************)
(* Recoverability and restores.  A restore keeps what its checks saw in    *)
(* the files they accepted, for the properties to look at.                 *)
(***************************************************************************)
Latest(S) == {r \in S : \A o \in S : o.created <= r.created}
Earliest(S) == {r \in S : \A o \in S : r.created <= o.created}

\* backupCreatedAfterRecoveryTarget: a target on a whole second stands for
\* the second.
CreatedAfter(created, t) ==
  IF t % PerSecond = 0 THEN Unix(created) > Unix(t) ELSE created > t

Verified(r) == r.copy # None /\ r.copy.id \in DOMAIN targets /\ ReadyOffHost(r.copy.id)
BasesAtOrBefore(t) ==
  {b \in backups : b.kind = "physical" /\ Verified(b) /\ ~CreatedAfter(b.created, t)}
WALsInRange(start, t) ==
  {a \in wals : Verified(a) /\ a.created >= start /\ ~CreatedAfter(a.created, t)}

\* ProjectRecoverability: the window of a project that is ready for a restore
\* to a point in time, as a set of seconds; empty when it is not.
RecoveryWindow ==
  {s \in 0..Unix(MaxTime) :
     /\ pitr
     /\ \E a \in Latest({w \in wals : Verified(w)}) :
        \E b \in Latest(BasesAtOrBefore(a.created)) :
           LET start == IF b.created > a.created - Retention THEN b.created ELSE a.created - Retention
           IN  start <= a.created /\ start \div PerSecond <= s /\ s <= Unix(a.created)}

\* RestoreBackup of a logical backup.
BeginRestoreBackup(b) ==
  /\ restore.pc = "idle"
  /\ b.kind = "logical"
  /\ restore' = [IdleRestore EXCEPT !.pc = "base", !.kind = "logical", !.base = b, !.time = Unix(b.created)]
  /\ UNCHANGED <<now, config, records, files, segment, jobs, ghosts, events>>

\* RestoreToTime: the status and the window are read ...
BeginRestoreToTime(s) ==
  /\ restore.pc = "idle"
  /\ s \in RecoveryWindow
  /\ restore' = [IdleRestore EXCEPT !.pc = "select", !.kind = "pitr", !.time = s]
  /\ UNCHANGED <<now, config, records, files, segment, jobs, ghosts, events>>

\* ... then, with the lists read again, the base and the WAL range.
Select(b) ==
  LET t == restore.time * PerSecond
      range == WALsInRange(b.created, t)
  IN  /\ restore.pc = "select"
      /\ b \in Latest(BasesAtOrBefore(t))
      /\ restore' = [restore EXCEPT !.pc = "base", !.base = b, !.wals = range, !.todo = range]
      /\ UNCHANGED <<now, config, records, files, segment, jobs, ghosts, events>>

\* DownloadBackupArtifact: only from the bucket the target has today.
Downloadable(r) ==
  /\ r.copy # None /\ r.copy.id \in DOMAIN targets
  /\ targets[r.copy.id].bucket = r.copy.bucket
  /\ r.file \in DOMAIN remote[r.copy.bucket]

\* EnsureBackupArtifact, EnsureWALArchiveArtifact: a missing file is
\* downloaded, a file at hand is not.
Fetched(r) ==
  IF r.file \in DOMAIN local \/ ~Downloadable(r) THEN local
  ELSE Write(local, r.file, remote[r.copy.bucket][r.file])

\* (mutant of Sound) Any file of that name will do.
Readable(r, fs) == r.file \in DOMAIN fs

\* Then its checksum has to be the recorded one.
Sound(r, fs) == r.file \in DOMAIN fs /\ fs[r.file] = r.sum

EnsureBackupArtifact ==
  LET r == restore.base
      ok == Sound(r, Fetched(r)) /\ (restore.kind = "pitr" => restore.wals # {})
  IN  /\ restore.pc = "base"
      /\ local' = Fetched(r)
      /\ restore' = IF ~ok THEN IdleRestore
                    ELSE [restore EXCEPT !.pc = IF restore.kind = "pitr" THEN "wals" ELSE "run",
                                         !.seen = {Fetched(r)[r.file]}]
      /\ UNCHANGED <<now, config, records, remote, segment, jobs, ghosts, events>>

EnsureWALArchiveArtifact(r) ==
  LET left == restore.todo \ {r}
  IN  /\ restore.pc = "wals"
      /\ r \in Earliest(restore.todo)
      /\ local' = Fetched(r)
      /\ restore' = IF ~Sound(r, Fetched(r)) THEN IdleRestore
                    ELSE [restore EXCEPT !.todo = left, !.pc = IF left = {} THEN "run" ELSE "wals",
                                         !.seen = @ \cup {Fetched(r)[r.file]}]
      /\ UNCHANGED <<now, config, records, remote, segment, jobs, ghosts, events>>

\* No base at or before the target any more: the restore is refused.
RestoreRefused ==
  /\ restore.pc = "select"
  /\ BasesAtOrBefore(restore.time * PerSecond) = {}
  /\ restore' = IdleRestore
  /\ UNCHANGED <<now, config, records, files, segment, jobs, ghosts, events>>

\* The restore command reads the files it is handed and ends, well or badly;
\* what it makes of them is the database's business.
RunRestoreCommand ==
  /\ restore.pc = "run"
  /\ restore' = IdleRestore
  /\ UNCHANGED <<now, config, records, files, segment, jobs, ghosts, events>>
----------------------------------------------------------------------------
(***************************************************************************)
(* The environment                                                         *)
(***************************************************************************)
Tick ==
  /\ now < MaxTime
  /\ now' = now + 1
  /\ UNCHANGED <<config, records, files, segment, jobs, restore, ghosts, events>>

\* A file of the backup root is lost.
LoseLocal(n) ==
  /\ Event
  /\ local' = [f \in DOMAIN local \ {n} |-> local[f]]
  /\ UNCHANGED <<now, config, records, remote, segment, jobs, restore, ghosts>>

\* The control plane dies and starts again: what was under way is gone, the
\* records and the files are not.
Crash ==
  /\ Event
  /\ jobs' = [w \in Workers |-> IdleJob]
  /\ restore' = IdleRestore
  /\ probe' = None
  /\ UNCHANGED <<now, targets, policy, pitr, records, files, segment, ghosts>>

\* A project with a backup policy of either kind, due when the control plane
\* starts, and PITR enabled, before its first backup; one target was configured, made the default and tested.
Init ==
  /\ now = 0
  /\ \E t \in Targets, b \in OffHost :
       /\ targets = [u \in {t} |-> [bucket |-> b, test |-> "passed", default |-> TRUE]]
       /\ policy \in [enabled : {TRUE}, kind : Kinds, target : {t, None}, next : {0}]
  /\ pitr = TRUE
  /\ backups = {} /\ wals = {}
  /\ local = <<>> /\ remote = [b \in Buckets |-> <<>>]
  /\ segment = [number |-> 1, first |-> 0]
  /\ jobs = [w \in Workers |-> IdleJob]
  /\ probe = None /\ restore = IdleRestore
  /\ taken = <<>> /\ marked = {}
  /\ begun = 0 /\ events = 0

Configure ==
  \/ \E t \in Targets :
       \/ \E b \in Buckets, d \in BOOLEAN :
            CreateBackupStorageTarget(t, b, d) \/ UpdateBackupStorageTarget(t, b, d)
       \/ DeleteBackupStorageTarget(t) \/ BeginTest(t)
  \/ \E result \in {"passed", "failed"} : UpdateBackupStorageTargetTestResult(result)
  \/ \E enabled \in BOOLEAN :
       \/ \E kind \in Kinds, t \in Targets \cup {None} : UpdateBackupPolicy(enabled, kind, t)
       \/ \E given \in BOOLEAN : UpdatePITRPolicy(enabled, given)

Work(w) ==
  \/ Dump(w) \/ Checksum(w) \/ ArchiveCommand(w) \/ Rename(w) \/ Upload(w)
  \/ CreateBackup(w) \/ CreateWALArchive(w) \/ JobRefused(w) \/ JobFails(w)

Restore ==
  \/ \E b \in backups : BeginRestoreBackup(b) \/ Select(b)
  \/ \E s \in 0..Unix(MaxTime) : BeginRestoreToTime(s)
  \/ EnsureBackupArtifact
  \/ \E r \in restore.todo : EnsureWALArchiveArtifact(r)
  \/ RestoreRefused \/ RunRestoreCommand

Next ==
  \/ Configure
  \/ \E h \in Handlers : TriggerBackup(h) \/ ArchiveWAL(h)
  \/ \E w \in Workers : Work(w)
  \/ BeginPass \/ MarkBackupPolicyRun \/ ArchiveStage
  \/ Restore
  \/ Tick \/ Crash \/ (\E n \in DOMAIN local : LoseLocal(n))

Spec == Init /\ [][Next]_vars
----------------------------------------------------------------------------
(***************************************************************************)
(* Properties                                                              *)
(***************************************************************************)
Records == [kind : Kinds \cup {"wal"}, file : Names, sum : Spans, copy : Copies \cup {None}, created : Time]

\* The variables keep their types: targets, policy, records, files and jobs
\* of the store and the backup service.
TypeOK ==
  /\ now \in Time
  /\ DOMAIN targets \subseteq Targets
  /\ \A t \in DOMAIN targets : targets[t] \in [bucket : Buckets, test : Tests, default : BOOLEAN]
  /\ policy \in [enabled : BOOLEAN, kind : Kinds, target : Targets \cup {None}, next : {Nil} \cup 0..(MaxTime + Period)]
  /\ pitr \in BOOLEAN
  /\ backups \subseteq Records /\ wals \subseteq Records
  /\ DOMAIN local \subseteq Names /\ \A n \in DOMAIN local : local[n] \in Spans
  /\ DOMAIN remote = Buckets
  /\ \A b \in Buckets : DOMAIN remote[b] \subseteq Names /\ \A n \in DOMAIN remote[b] : remote[b][n] \in Spans
  /\ segment \in [number : 1..MaxSegment, first : Time]
  /\ \A w \in Workers : jobs[w] \in
       [pc : Phases, kind : Kinds \cup {"wal", "none"}, pass : Time,
        copy : Copies \cup {None}, file : Names \cup {NoFile}, sum : Spans \cup {NoSum}]
  /\ probe \in Targets \cup {None}
  /\ restore.pc \in {"idle", "select", "base", "wals", "run"}
  /\ restore.todo \subseteq restore.wals /\ restore.wals \subseteq Records
  /\ begun \in 0..MaxJobs /\ events \in 0..MaxEvents

\* However targets are created, changed, deleted and tested while policies
\* are updated, at most one of them is the default, and the target a policy
\* names exists: resolveBackupTarget finds one answer, and never an error.
TargetsConsistent ==
  /\ \A t, u \in Defaults : t = u
  /\ Resolvable

\* A record with a remote location stands for an object that is there and is
\* what the checksum says, whatever failed, was lost or overlapped; only a
\* backup that shares its file name with another one of the same second is
\* without this promise.  The upload precedes the record, and WAL archives of
\* the same second differ in their segment.
OffHostCopiesMatch ==
  \A r \in backups \cup wals :
    r.copy # None /\ (r.file \in DOMAIN taken => taken[r.file] = 1)
      => /\ r.file \in DOMAIN remote[r.copy.bucket]
         /\ remote[r.copy.bucket][r.file] = r.sum

\* A restore accepts no artifact with a change later than the second it aims
\* at (for a logical backup: than its record), even when a backup of the same
\* second overwrote the file: records are dated after their content, and the
\* checksum tells the contents apart.
NothingFromTheFuture ==
  \A c \in restore.seen : Unix(c.to) <= restore.time

\* The scheduled backup that is about to be noted is the first one noted in
\* the period its pass began in: however long it took, and whatever the
\* policy was set to meanwhile, the schedule does not run twice in a period
\* (a crash before the note is the exception the code accepts).
ScheduledOncePerPeriod ==
  jobs[Scheduler].pc = "mark" => jobs[Scheduler].pass \div Period \notin marked

============================================================================
