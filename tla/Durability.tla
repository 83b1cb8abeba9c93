----------------------------- MODULE Durability -----------------------------
(***************************************************************************)
(* The persistent store of the control plane (internal/control/            *)
(* persistent_store.go).  The authoritative state is the memory image of   *)
(* the embedded MemoryStore; every mutating method changes it under the    *)
(* store mutex and then calls save, which writes the WHOLE image to the    *)
(* meta database: first the encrypted checkpoint row, then, in a second    *)
(* transaction, the normalized tables.  A restart loads the row.           *)
(*                                                                         *)
(* A memory image is the set of the writes it contains, one write per      *)
(* mutating request.  A request that is a platform backup first writes the *)
(* checkpoint row into an artifact file and then records itself; a restore *)
(* installs the artifact of a recorded backup.                             *)
(***************************************************************************)
EXTENDS Naturals

CONSTANTS Instances,    \* the control-plane processes on one meta database
          Requests,     \* the mutating requests clients will send
          Backups,      \* the requests that are platform backups
          NoSaver,      \* nobody holds saveMu
          Boot,         \* the save made by the constructor
          Importer      \* a restore in progress

ASSUME BackupsAssumption == Backups \subseteq Requests
ASSUME MarkersAssumption ==
  /\ {NoSaver, Boot, Importer} \cap Requests = {}
  /\ NoSaver # Boot /\ NoSaver # Importer /\ Boot # Importer

VARIABLES
  phase,    \* per instance: "down", "starting" (loaded, not yet saved), "serving"
  mem,      \* per instance: the memory image
  saver,    \* per instance: who holds saveMu
  stage,    \* per instance: what the holder of saveMu does next
  snap,     \* per instance: the snapshot the holder of saveMu works on
  hasRow,   \* meta database: the checkpoint row exists
  row,      \* meta database: the image in the checkpoint row, {} without a row
  tables,   \* meta database: the normalized tables
  archive,  \* per backup request: the artifact file it wrote
  req,      \* per request: how far it got
  at,       \* per request: the instance that handles it
  undone    \* observation: the writes some restore of an older backup dropped

database == <<hasRow, row, tables>>
process  == <<phase, mem, saver, stage, snap>>
requests == <<archive, req, at>>
durabilityVars == <<process, database, requests, undone>>

Phases == {"down", "starting", "serving"}
Stages == {"none", "checkpoint", "tables", "import", "install"}
RequestStates == {"new", "exported", "applied", "saving",
                  "acked", "failed", "lost"}

DurabilityTypeOK ==
  /\ phase \in [Instances -> Phases]
  /\ mem \in [Instances -> SUBSET Requests]
  /\ saver \in [Instances -> Requests \cup {NoSaver, Boot, Importer}]
  /\ stage \in [Instances -> Stages]
  /\ snap \in [Instances -> SUBSET Requests]
  /\ hasRow \in BOOLEAN
  /\ row \in SUBSET Requests
  /\ tables \in SUBSET Requests
  /\ archive \in [Backups -> SUBSET Requests]
  /\ req \in [Requests -> RequestStates]
  /\ at \in [Requests -> Instances]
  /\ undone \in SUBSET Requests
  /\ \A i \in Instances : saver[i] = NoSaver <=> stage[i] = "none"

\* (mutant of Loaded) prefer the normalized tables to the checkpoint row
LoadedFromTables == IF tables # {} THEN tables ELSE row

\* The checkpoint as load reads it: without a row, the normalized tables.
Loaded == IF hasRow THEN row ELSE tables

\* A fresh meta database, every process down.
DurabilityInit ==
  /\ phase = [i \in Instances |-> "down"]
  /\ mem = [i \in Instances |-> {}]
  /\ saver = [i \in Instances |-> NoSaver]
  /\ stage = [i \in Instances |-> "none"]
  /\ snap = [i \in Instances |-> {}]
  /\ hasRow = FALSE
  /\ row = {}
  /\ tables = {}
  /\ archive = [b \in Backups |-> {}]
  /\ req = [r \in Requests |-> "new"]
  /\ at \in [Requests -> Instances]
  /\ undone = {}

\* load and applySnapshot: the image is what the database holds.  A load that
\* fails ends the process and changes nothing.
Load(i) ==
  /\ phase[i] = "down"
  /\ phase' = [phase EXCEPT ![i] = "starting"]
  /\ mem' = [mem EXCEPT ![i] = Loaded]
  /\ UNCHANGED <<saver, stage, snap, database, requests, undone>>

\* Import holds the store mutex as well, so no operation runs beside it.
StoreMutexFree(i) == stage[i] \notin {"import", "install"}

\* ExportControlPlaneCheckpoint on behalf of a platform backup: the artifact is
\* the checkpoint ROW, whatever the memory image holds by now.
WriteArtifact(i, b) ==
  /\ phase[i] = "serving"
  /\ req[b] = "new" /\ at[b] = i
  /\ hasRow
  /\ archive' = [archive EXCEPT ![b] = row]
  /\ req' = [req EXCEPT ![b] = "exported"]
  /\ UNCHANGED <<process, database, at, undone>>

\* The MemoryStore method of a mutating request, under the store mutex.
ReadyToApply(r) == req[r] = IF r \in Backups THEN "exported" ELSE "new"

Apply(i, r) ==
  /\ phase[i] = "serving"
  /\ StoreMutexFree(i)
  /\ ReadyToApply(r) /\ at[r] = i
  /\ mem' = [mem EXCEPT ![i] = @ \cup {r}]
  /\ req' = [req EXCEPT ![r] = "applied"]
  /\ UNCHANGED <<phase, saver, stage, snap, database, archive, at, undone>>

\* The method refuses: checkpoint returns its error without saving.
ApplyRejected(i, r) ==
  /\ phase[i] = "serving"
  /\ StoreMutexFree(i)
  /\ ReadyToApply(r) /\ at[r] = i
  /\ req' = [req EXCEPT ![r] = "failed"]
  /\ UNCHANGED <<process, database, archive, at, undone>>

\* save: take saveMu, then snapshot the image (which may hold writes of requests
\* that have not saved yet).
LockAndSnapshot(i, who) ==
  /\ saver[i] = NoSaver
  /\ saver' = [saver EXCEPT ![i] = who]
  /\ stage' = [stage EXCEPT ![i] = "checkpoint"]
  /\ snap' = [snap EXCEPT ![i] = mem[i]]

BeginSave(i, r) ==
  /\ phase[i] = "serving"
  /\ req[r] = "applied" /\ at[r] = i
  /\ LockAndSnapshot(i, r)
  /\ req' = [req EXCEPT ![r] = "saving"]
  /\ UNCHANGED <<phase, mem, database, archive, at, undone>>

\* (mutant of BeginBootSave) the constructor returns without saving
BootWithoutSave(i) ==
  /\ phase[i] = "starting"
  /\ phase' = [phase EXCEPT ![i] = "serving"]
  /\ UNCHANGED <<mem, saver, stage, snap, database, requests, undone>>

\* NewPersistentStoreWithEncryption saves what it has just loaded.
BeginBootSave(i) ==
  /\ phase[i] = "starting"
  /\ LockAndSnapshot(i, Boot)
  /\ UNCHANGED <<phase, mem, database, requests, undone>>

\* The upsert of the checkpoint row.
Upsert(image) == hasRow' = TRUE /\ row' = image

WriteCheckpoint(i) ==
  /\ stage[i] = "checkpoint"
  /\ Upsert(snap[i])
  /\ stage' = [stage EXCEPT ![i] = "tables"]
  /\ UNCHANGED <<phase, mem, saver, snap, tables, requests, undone>>

\* (mutant of Return) a failed save is answered with success
ReturnIgnoringError(i, ok) ==
  /\ saver' = [saver EXCEPT ![i] = NoSaver]
  /\ stage' = [stage EXCEPT ![i] = "none"]
  /\ snap' = [snap EXCEPT ![i] = {}]
  /\ phase' = [phase EXCEPT ![i] = IF saver[i] = Boot THEN "serving" ELSE @]
  /\ req' = [r \in Requests |-> IF r = saver[i] THEN "acked" ELSE req[r]]
  /\ UNCHANGED mem

\* (mutant of Return) a failed save is never answered
ReturnDroppingError(i, ok) ==
  /\ saver' = [saver EXCEPT ![i] = NoSaver]
  /\ stage' = [stage EXCEPT ![i] = "none"]
  /\ snap' = [snap EXCEPT ![i] = {}]
  /\ phase' = [phase EXCEPT ![i] = IF saver[i] = Boot THEN "serving" ELSE @]
  /\ req' = [r \in Requests |-> IF ok /\ r = saver[i] THEN "acked" ELSE req[r]]
  /\ UNCHANGED mem

\* save returns: saveMu is released and the caller gets the outcome.  The
\* constructor's error ends the process.
Return(i, ok) ==
  /\ saver' = [saver EXCEPT ![i] = NoSaver]
  /\ stage' = [stage EXCEPT ![i] = "none"]
  /\ snap' = [snap EXCEPT ![i] = {}]
  /\ phase' = [phase EXCEPT ![i] =
                 IF saver[i] = Boot THEN (IF ok THEN "serving" ELSE "down") ELSE @]
  /\ mem' = [mem EXCEPT ![i] = IF saver[i] = Boot /\ ~ok THEN {} ELSE @]
  /\ req' = [r \in Requests |->
               IF r = saver[i] THEN (IF ok THEN "acked" ELSE "failed") ELSE req[r]]

\* The statement fails, or its answer is lost after the database applied it (a
\* cancelled request context, a broken connection).  The memory image KEEPS the
\* write of the failed request.
WriteCheckpointFails(i) ==
  /\ stage[i] = "checkpoint"
  /\ Upsert(snap[i]) \/ UNCHANGED <<hasRow, row>>
  /\ Return(i, FALSE)
  /\ UNCHANGED <<tables, archive, at, undone>>

\* syncNormalizedTables: delete and reinsert everything in one transaction.
SyncTables(i) ==
  /\ stage[i] = "tables"
  /\ tables' = snap[i]
  /\ Return(i, TRUE)
  /\ UNCHANGED <<hasRow, row, archive, at, undone>>

SyncTablesFails(i) ==
  /\ stage[i] = "tables"
  /\ tables' \in {tables, snap[i]}
  /\ Return(i, FALSE)
  /\ UNCHANGED <<hasRow, row, archive, at, undone>>

\* (mutant of PreservePlatformBackups) the artifact is installed as it is
PreserveNothing(payload, b) == payload

\* preservePlatformBackups: the image to install is the artifact plus the record
\* of the backup being restored, which was written after the artifact.
PreservePlatformBackups(payload, b) == payload \cup {b}

\* ImportControlPlaneCheckpoint takes saveMu and the store mutex.
BeginRestore(i, b) ==
  /\ phase[i] = "serving"
  /\ b \in mem[i]
  /\ saver[i] = NoSaver
  /\ saver' = [saver EXCEPT ![i] = Importer]
  /\ stage' = [stage EXCEPT ![i] = "import"]
  /\ snap' = [snap EXCEPT ![i] = PreservePlatformBackups(archive[b], b)]
  /\ UNCHANGED <<phase, mem, database, requests, undone>>

\* One transaction replaces the row and the tables.
CommitImport(i) ==
  /\ Upsert(snap[i])
  /\ tables' = snap[i]
  /\ undone' = undone \cup (mem[i] \ snap[i])

ImportCheckpoint(i) ==
  /\ stage[i] = "import"
  /\ CommitImport(i)
  /\ stage' = [stage EXCEPT ![i] = "install"]
  /\ UNCHANGED <<phase, mem, saver, snap, requests>>

\* The transaction fails, or commits with its answer lost; the image stays.
ImportFails(i) ==
  /\ stage[i] = "import"
  /\ CommitImport(i) \/ UNCHANGED <<database, undone>>
  /\ saver' = [saver EXCEPT ![i] = NoSaver]
  /\ stage' = [stage EXCEPT ![i] = "none"]
  /\ snap' = [snap EXCEPT ![i] = {}]
  /\ UNCHANGED <<phase, mem, requests>>

\* applySnapshotLocked after the commit; both mutexes are released.
InstallImport(i) ==
  /\ stage[i] = "install"
  /\ mem' = [mem EXCEPT ![i] = snap[i]]
  /\ saver' = [saver EXCEPT ![i] = NoSaver]
  /\ stage' = [stage EXCEPT ![i] = "none"]
  /\ snap' = [snap EXCEPT ![i] = {}]
  /\ UNCHANGED <<phase, database, requests, undone>>

\* The process dies: the image is gone and open requests get no answer.
Open == {"exported", "applied", "saving"}

Crash(i) ==
  /\ phase[i] # "down"
  /\ phase' = [phase EXCEPT ![i] = "down"]
  /\ mem' = [mem EXCEPT ![i] = {}]
  /\ saver' = [saver EXCEPT ![i] = NoSaver]
  /\ stage' = [stage EXCEPT ![i] = "none"]
  /\ snap' = [snap EXCEPT ![i] = {}]
  /\ req' = [r \in Requests |->
               IF at[r] = i /\ req[r] \in Open THEN "lost" ELSE req[r]]
  /\ UNCHANGED <<database, archive, at, undone>>

SaveStep(i) == WriteCheckpoint(i) \/ WriteCheckpointFails(i)
               \/ SyncTables(i) \/ SyncTablesFails(i)

ImportStep(i) == ImportCheckpoint(i) \/ ImportFails(i) \/ InstallImport(i)

DurabilityNext ==
  \E i \in Instances :
    \/ Load(i) \/ BeginBootSave(i)
    \/ \E r \in Requests : Apply(i, r) \/ ApplyRejected(i, r) \/ BeginSave(i, r)
    \/ \E b \in Backups : WriteArtifact(i, b) \/ BeginRestore(i, b)
    \/ SaveStep(i) \/ ImportStep(i)
    \/ Crash(i)

DurabilitySpec == DurabilityInit /\ [][DurabilityNext]_durabilityVars
-----------------------------------------------------------------------------
Acked == {r \in Requests : req[r] = "acked"}

(***************************************************************************)
(* A request that was answered with success is in the checkpoint row, so a *)
(* restarted control plane sees it, unless a restore of an older platform  *)
(* backup dropped it (save before every answer, persistent_store.go:2736). *)
(***************************************************************************)
AckedDurable == Acked \subseteq row \cup undone

(***************************************************************************)
(* While a control plane serves, its image misses nothing the meta         *)
(* database holds but what a restore dropped: the next whole-image save    *)
(* cannot erase a stored write (save, persistent_store.go:1743).           *)
(***************************************************************************)
ImageCoversRow ==
  \A i \in Instances :
    phase[i] = "serving" => row \subseteq mem[i] \cup undone

(***************************************************************************)
(* However the previous process died, a control plane that starts serving  *)
(* has the same state in its image, in the checkpoint row and in the       *)
(* normalized tables: the constructor's save repairs tables left behind    *)
(* (NewPersistentStoreWithEncryption, persistent_store.go:146).            *)
(***************************************************************************)
BootHeals ==
  [][\A i \in Instances :
       phase[i] = "starting" /\ phase'[i] = "serving"
         => mem'[i] = row' /\ tables' = row']_durabilityVars

(***************************************************************************)
(* A platform backup can be restored again after a restore of it: the      *)
(* installed image still lists the backup, though the artifact was taken   *)
(* before the record existed (preservePlatformBackups).                    *)
(***************************************************************************)
RestoreKeepsRecord ==
  [][\A i \in Instances :
       stage[i] = "install" /\ mem'[i] # mem[i] /\ phase'[i] = "serving"
         => \E b \in Backups : b \in mem'[i] /\ mem'[i] = archive[b] \cup {b}]_durabilityVars

\* The promise, with the checkpoint row as the durable set.
Log == INSTANCE DurableLog WITH durable <- row, dropped <- undone, acked <- Acked

(***************************************************************************)
(* The store implements the durable log: whatever fails, crashes or is     *)
(* restored, the row loses only dropped writes and success is reported     *)
(* only for stored ones.                                                   *)
(***************************************************************************)
LogSpec == Log!Spec

\* Go's mutexes are fair and every database call returns or fails; whether a
\* client sends a request, restores a backup or a process dies is free.
Fairness ==
  \A i \in Instances :
    /\ WF_durabilityVars(SaveStep(i))
    /\ WF_durabilityVars(ImportStep(i))
    /\ \A r \in Requests : SF_durabilityVars(BeginSave(i, r))

FairSpec == DurabilitySpec /\ Fairness

(***************************************************************************)
(* Every applied request is answered or its process dies: saveMu is always *)
(* released, also by failing saves and failing restores.                   *)
(***************************************************************************)
RequestsAnswered ==
  \A r \in Requests :
    req[r] = "applied" ~> req[r] \in {"acked", "failed", "lost"}
=============================================================================
