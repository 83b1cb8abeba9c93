--------------------------- MODULE ChildResources ---------------------------
(***************************************************************************)
(* The child resources of a project: what the store keeps of each kind     *)
(* (internal/control/store.go), the API handlers that write them           *)
(* (internal/api/project_*_handlers.go) and the data plane they are        *)
(* applied to: the project's database, its storage service, its containers *)
(* and the files below its directory.                                      *)
(*                                                                         *)
(* A store method is one step under the store mutex.  A handler makes      *)
(* several: it may read a list first, writes the record, applies it, and   *)
(* when that fails undoes the record, each step on what it read earlier.   *)
(* A store method that changes a record saves the store before it returns. *)
(* When the save fails the change stands, in memory, and the method returns*)
(* an error, which the handler answers without going on or undoing.        *)
(* How a kind does this is its row in the two tables below: StoreX says    *)
(* how the store treats a second write to the same name, what else must    *)
(* exist and what goes with it; ApiX says what the handler does around it. *)
(*                                                                         *)
(* The content of a record is the request that wrote it.  Kinds with a     *)
(* default (configs, extensions, the CDN policy, the enabled services)     *)
(* start with it.  A project's config area is the set of its settings:     *)
(* "known" stands for those with a default, "extra" for one without.       *)
(***************************************************************************)
EXTENDS Naturals, FiniteSets

CONSTANTS Requests,   \* the requests clients send, each once
          Families,   \* the sets of kinds that a behaviour is about
          Default,    \* the content, and the identity, of a default
          MaxFailedSaves   \* bound

ASSUME DefaultAssumption == Default \notin Requests

-----------------------------------------------------------------------------
(* What the store does with a kind.  write: a name that is taken is a      *)
(* "conflict", is written over keeping its id and creation time ("upsert"),*)
(* or names do not exist ("append", the id is the name).  by: deletes name *)
(* the record or give its id.  needs: the kinds a record refers to.        *)
(* drops: the kinds whose records are removed with the record.             *)

Stored(write, by, needs, drops) ==
  [write |-> write, by |-> by, needs |-> needs, drops |-> drops]

StoreAuthClients          == Stored("conflict", "name", {}, {})
StoreAuthHooks            == Stored("upsert", "name", {}, {})
StoreReplicationPipelines == Stored("conflict", "id", {}, {})
StoreEmbeddingJobs        == Stored("conflict", "id", {}, {})
StoreDatabaseExtensions   == Stored("upsert", "name", {}, {})
StoreDatabaseCronJobs     == Stored("conflict", "name", {}, {})
StoreDatabaseQueues       == Stored("conflict", "name", {}, {})
StoreDatabaseWebhooks     == Stored("conflict", "name", {}, {})
StoreDatabaseSchemas      == Stored("conflict", "name", {}, {})
StoreDatabaseRoles        == Stored("conflict", "name", {}, {})
StoreVectorBuckets        == Stored("conflict", "name", {}, {})
StoreAnalyticsBuckets     == Stored("conflict", "name", {}, {})
StoreNetworkConnections   == Stored("conflict", "id", {}, {})
StoreLogDrains            == Stored("append", "id", {}, {})
StoreConfigs              == Stored("upsert", "name", {}, {})
StoreServices             == Stored("upsert", "name", {}, {})
StoreSecrets              == Stored("upsert", "name", {}, {})
StoreCDNPolicies          == Stored("upsert", "name", {}, {})
StoreCDNInvalidations     == Stored("append", "id", {}, {})

\* (mutant of StoreFunctions) a deleted function leaves its mounts behind
StoreFunctionsKeepingMounts == Stored("upsert", "name", {}, {"function_regions"})

\* Deploying again raises Version; removeFunctionRegions and
\* removeFunctionStorageMounts go with a delete.
StoreFunctions == Stored("upsert", "name", {}, {"function_regions", "function_storage_mounts"})

StoreFunctionRegions == Stored("upsert", "id", {"functions"}, {})

StoreFunctionStorageMounts == Stored("conflict", "id", {"functions", "storage_buckets"}, {})

StoreStorageBuckets == Stored("conflict", "name", {}, {"function_storage_mounts"})

\* CreateProjectCDNObjectEvent: an invalidation for an object of a bucket.
StoreCDNObjectEvents == Stored("append", "id", {"storage_buckets"}, {})

StoreOf ==
  [auth_clients |-> StoreAuthClients, auth_hooks |-> StoreAuthHooks,
   functions |-> StoreFunctions, function_regions |-> StoreFunctionRegions,
   function_storage_mounts |-> StoreFunctionStorageMounts,
   replication_pipelines |-> StoreReplicationPipelines,
   embedding_jobs |-> StoreEmbeddingJobs,
   database_extensions |-> StoreDatabaseExtensions,
   database_cron_jobs |-> StoreDatabaseCronJobs, database_queues |-> StoreDatabaseQueues,
   database_webhooks |-> StoreDatabaseWebhooks, database_schemas |-> StoreDatabaseSchemas,
   database_roles |-> StoreDatabaseRoles, storage_buckets |-> StoreStorageBuckets,
   vector_buckets |-> StoreVectorBuckets, analytics_buckets |-> StoreAnalyticsBuckets,
   network_connections |-> StoreNetworkConnections, log_drains |-> StoreLogDrains,
   general_config |-> StoreConfigs, network_config |-> StoreConfigs,
   runtime_config |-> StoreConfigs, services |-> StoreServices, secrets |-> StoreSecrets,
   cdn_policies |-> StoreCDNPolicies, cdn_invalidations |-> StoreCDNInvalidations,
   cdn_object_events |-> StoreCDNObjectEvents]
-----------------------------------------------------------------------------
(* What the handlers of a kind do.  apply: nothing beside the record       *)
(* ("none"), put the one object written ("object"), or read the list of    *)
(* the kind again and put the whole of it ("list").  on: what it is put    *)
(* on, "runtime" (gone with the project's containers) or "files" (made     *)
(* again by whoever writes).  undo: when that fails, "delete" the record   *)
(* by its name, "restore" what was read before, "rebuild" the kind from    *)
(* the list read before, or "keep" the record.  delete: the order of a     *)
(* delete, "none" for kinds that have none; "lookup" starts it by looking  *)
(* for the record.                                                         *)

Served(apply, on, undo, delete) ==
  [apply |-> apply, on |-> on, undo |-> undo, delete |-> delete]

RecordOnly == Served("none", "runtime", "keep", "record")

\* Where the part that applies is a service of its own.
ApplyDatabaseWebhooks      == "object"   \* triggers and a function, replaced or dropped by name
ApplyDatabaseRoles         == "object"   \* a role with its grants, altered if it exists
ApplyStorageBuckets        == "object"   \* the storage service's bucket; 404 on delete is fine
ApplyFunctions             == "object"   \* the directory and the one of the version
ApplyLogDrains             == "object"   \* the sink's file, named after the drain's id
ApplyFunctionRegions       == "list"     \* regions.json of every function
ApplyFunctionStorageMounts == "list"     \* storage-mounts.json of every function
ApplyAuthHooks             == "list"     \* secrets resolved, then the whole list synced
ApplyRuntimeConfig         == "list"     \* handles resolved, then the whole area synced

ApiAuthClients          == RecordOnly
ApiReplicationPipelines == RecordOnly
ApiEmbeddingJobs        == RecordOnly
ApiVectorBuckets        == RecordOnly
ApiAnalyticsBuckets     == RecordOnly
ApiNetworkConnections   == RecordOnly
ApiSecrets              == RecordOnly
ApiCDNInvalidations     == Served("none", "runtime", "keep", "none")
ApiCDNObjectEvents      == Served("none", "runtime", "keep", "none")
ApiGeneralConfig        == Served("none", "runtime", "keep", "none")
ApiNetworkConfig        == Served("list", "files", "keep", "none")
ApiRuntimeConfig        == Served(ApplyRuntimeConfig, "runtime", "restore", "none")
\* After the sync the routes are written again and the project's status is set,
\* neither of them a record of the kind; when they fail the request has failed
\* with the services applied.
ApiServices             == Served("object", "runtime", "keep", "none")
ApiCDNPolicies          == Served("list", "files", "keep", "none")
ApiDatabaseExtensions   == Served("object", "runtime", "restore", "none")
ApiDatabaseCronJobs     == Served("object", "runtime", "delete", "lookup")
ApiDatabaseQueues       == Served("object", "runtime", "delete", "lookup")
ApiDatabaseWebhooks     == Served(ApplyDatabaseWebhooks, "runtime", "delete", "lookup")
ApiDatabaseRoles        == Served(ApplyDatabaseRoles, "runtime", "delete", "lookup")
ApiDatabaseSchemas      == Served("object", "runtime", "delete", "record")
ApiStorageBuckets       == Served(ApplyStorageBuckets, "runtime", "delete", "planeFirst")
ApiFunctions            == Served(ApplyFunctions, "files", "keep", "recordFirst")
ApiLogDrains            == Served(ApplyLogDrains, "files", "keep", "recordFirst")
ApiFunctionStorageMounts == Served(ApplyFunctionStorageMounts, "files", "keep", "recordFirst")

ApiFunctionRegions == Served(ApplyFunctionRegions, "files", "keep", "recordFirst")

ApiAuthHooks == Served(ApplyAuthHooks, "runtime", "rebuild", "recordFirst")

ApiOf ==
  [auth_clients |-> ApiAuthClients, auth_hooks |-> ApiAuthHooks,
   functions |-> ApiFunctions, function_regions |-> ApiFunctionRegions,
   function_storage_mounts |-> ApiFunctionStorageMounts,
   replication_pipelines |-> ApiReplicationPipelines,
   embedding_jobs |-> ApiEmbeddingJobs, database_extensions |-> ApiDatabaseExtensions,
   database_cron_jobs |-> ApiDatabaseCronJobs, database_queues |-> ApiDatabaseQueues,
   database_webhooks |-> ApiDatabaseWebhooks, database_schemas |-> ApiDatabaseSchemas,
   database_roles |-> ApiDatabaseRoles, storage_buckets |-> ApiStorageBuckets,
   vector_buckets |-> ApiVectorBuckets, analytics_buckets |-> ApiAnalyticsBuckets,
   network_connections |-> ApiNetworkConnections, log_drains |-> ApiLogDrains,
   general_config |-> ApiGeneralConfig, network_config |-> ApiNetworkConfig,
   runtime_config |-> ApiRuntimeConfig, services |-> ApiServices, secrets |-> ApiSecrets,
   cdn_policies |-> ApiCDNPolicies, cdn_invalidations |-> ApiCDNInvalidations,
   cdn_object_events |-> ApiCDNObjectEvents]

Kinds == DOMAIN StoreOf
ASSUME FamiliesAssumption == Families \subseteq SUBSET Kinds

WithDefault == {"general_config", "network_config", "runtime_config", "services",
                "cdn_policies", "database_extensions"}
Configs == {"general_config", "network_config", "runtime_config"}

\* The names in use: one, and two where a handler works on the others of its kind.
Keys(k) == CASE StoreOf[k].write = "append" -> Requests \cup {Default}
             [] k \in Configs               -> {"known", "extra"}
             [] k = "auth_hooks"            -> {"sms", "email"}
             [] OTHER                       -> {"known"}

FirstKey(k) == CASE StoreOf[k].write = "append" -> Default
                 [] k = "auth_hooks"            -> "sms"
                 [] OTHER                       -> "known"
-----------------------------------------------------------------------------
VARIABLES kinds,     \* the family of this behaviour
          project,   \* "up", "destroyed" (containers and files are gone), "gone"
          recs,      \* the records in the store
          saved,     \* the project's row and records as last saved
          failedSaves,  \* how many saves have failed, up to the bound
          plane,     \* what the data plane has
          req,       \* per request: what it does and how far it is
          alone      \* observation: per request, nothing happened beside it

vars == <<kinds, project, recs, saved, failedSaves, plane, req, alone>>

Contents == Requests \cup {Default}
AllKeys == UNION {Keys(k) : k \in Kinds}
Record == [kind : Kinds, key : AllKeys, id : Contents, val : Contents]
Object == [kind : Kinds, key : AllKeys, val : Contents]

\* before: the records of the kind when the request began.  list: the list a
\* whole-list apply writes.
Request == [pc : {"store", "list", "apply", "undo", "recreate", "lookup", "remove", "delete"},
            op : {"write", "delete"}, kind : Kinds, key : AllKeys, id : Contents,
            before : SUBSET Record, list : SUBSET Object]
New == [pc |-> "new"]

\* How a request ended: "unsaved" when a save failed, with the server error that
\* clients see for it; "failed" for every other error; "lost" in a crash.
Done(answer) == [pc |-> answer]

TypeOK ==
  /\ kinds \in Families
  /\ project \in {"up", "destroyed", "gone"}
  /\ recs \subseteq Record
  /\ \A x, y \in recs : x.kind = y.kind /\ x.key = y.key => x = y
  /\ saved \in [there : BOOLEAN, recs : SUBSET Record] /\ failedSaves \in Nat
  /\ plane \subseteq Object
  /\ \A r \in Requests :
       \/ req[r] \in {New, Done("ok"), Done("failed"), Done("unsaved"), Done("lost")}
       \/ DOMAIN req[r] = {"pc", "op", "kind", "key", "id", "before", "list"}
          /\ req[r].kind \in kinds /\ req[r].before \subseteq Record
  /\ alone \in [Requests -> BOOLEAN]

\* What a save writes: exportPersistentState takes the whole of the store.
Image == [there |-> project # "gone", recs |-> recs]

OfKind(k) == {x \in recs : x.kind = k}
At(k, key) == {x \in recs : x.kind = k /\ x.key = key}
AsObject(x) == [kind |-> x.kind, key |-> x.key, val |-> x.val]
Objects(rs) == {AsObject(x) : x \in rs}
Put(x) == {o \in plane : o.kind # x.kind \/ o.key # x.key} \cup {x}

\* A running project with some records of earlier requests, all applied.
Init ==
  /\ kinds \in Families
  /\ project = "up"
  /\ \E have \in SUBSET kinds :
       /\ WithDefault \cap kinds \subseteq have
       /\ \A k \in have : StoreOf[k].needs \subseteq have
       /\ recs = {[kind |-> k, key |-> FirstKey(k), id |-> Default, val |-> Default] : k \in have}
  /\ plane = {o \in Objects(recs) : ApiOf[o.kind].apply # "none"}
  /\ saved = Image /\ failedSaves = 0
  /\ req = [r \in Requests |-> New]
  /\ alone = [r \in Requests |-> TRUE]

Active == {r \in Requests : "kind" \in DOMAIN req[r]}

\* A list that was read is put in the next step and not looked at again.
Goto(r, pc) == req' = [req EXCEPT ![r].pc = pc, ![r].list = {}]
Answer(r, answer) == req' = [req EXCEPT ![r] = Done(answer)]

\* requireProjectRole found the project.  Handlers that may have to restore
\* list the kind before they write.
Begin(r, k, op, key, id, pc) ==
  /\ req[r] = New /\ project # "gone" /\ k \in kinds
  /\ req' = [req EXCEPT ![r] = [pc |-> pc, op |-> op, kind |-> k, key |-> key, id |-> id,
                                before |-> OfKind(k), list |-> {}]]
  /\ alone' = [s \in Requests |->
                 IF s = r THEN Active = {} /\ project = "up" ELSE alone[s] /\ s \notin Active]
  /\ UNCHANGED <<kinds, project, recs, saved, failedSaves, plane>>

\* The new record of a kind without names is known by its own id.
BeginWrite(r, k, key) ==
  /\ StoreOf[k].write = "append" => key = r \/ (k = "log_drains" /\ At(k, key) # {})
  /\ Begin(r, k, "write", key, r, "store")

BeginDelete(r, k, x) ==
  /\ ApiOf[k].delete # "none"
  /\ x.kind = k
  /\ Begin(r, k, "delete", x.key, x.id,
           CASE ApiOf[k].delete = "lookup"     -> "lookup"
             [] ApiOf[k].delete = "planeFirst" -> "remove"
             [] OTHER                          -> "delete")

NeedsMet(k) == \A n \in StoreOf[k].needs : OfKind(n) # {}

\* What CreateProjectX, under the lock, refuses for what else is in the store.
Refused(k, key) ==
  \/ StoreOf[k].write = "conflict" /\ At(k, key) # {}
  \/ ~NeedsMet(k)

\* The records after a write: an existing record keeps its id.
Written(k, key, id, val) ==
  (recs \ At(k, key)) \cup
  {[kind |-> k, key |-> key, val |-> val,
    id |-> IF At(k, key) = {} THEN id ELSE (CHOOSE x \in At(k, key) : TRUE).id]}

\* (mutant of WriteRejected) the handler takes a refusal for a failed apply
WriteRejectedUndone(r) ==
  LET q == req[r] IN
  /\ q.pc = "store"
  /\ IF project # "gone" /\ Refused(q.kind, q.key) /\ ApiOf[q.kind].undo = "delete"
     THEN Goto(r, "undo") ELSE Answer(r, "failed")
  /\ UNCHANGED <<kinds, project, recs, saved, failedSaves, plane, alone>>

\* An input that does not normalise or validate, a project that is gone, a
\* conflict, something missing, or an object event the CDN policy does not
\* cover: an error and no change.
WriteRejected(r) ==
  /\ req[r].pc = "store"
  /\ Answer(r, "failed")
  /\ UNCHANGED <<kinds, project, recs, saved, failedSaves, plane, alone>>

\* What follows the store's part of a request.
AfterStore(k) == CASE ApiOf[k].apply = "list"   -> "list"
                   [] ApiOf[k].apply = "object" -> "apply"
                   [] OTHER                     -> "ok"

Continue(r, pc) == IF pc = "ok" THEN Answer(r, "ok") ELSE Goto(r, pc)

\* PersistentStore.checkpoint: what the method did stands whether or not the
\* save that follows succeeds.
Save == saved' = Image' /\ UNCHANGED failedSaves
SaveFails == /\ failedSaves < MaxFailedSaves
             /\ failedSaves' = failedSaves + 1
             /\ UNCHANGED saved

\* The handler answers the error of a save at once.  (A save that is written and
\* whose answer is lost is one that fails and a SaveElsewhere.)
Checkpoint(r, pc) ==
  \/ Save /\ Continue(r, pc)
  \/ SaveFails /\ Answer(r, "unsaved")

\* A log drain is updated by its id, which must still be there.
WriteRecord(r) ==
  LET q == req[r] IN
  /\ q.pc = "store" /\ project # "gone"
  /\ ~Refused(q.kind, q.key)
  /\ StoreOf[q.kind].write = "append" /\ q.key # r => At(q.kind, q.key) # {}
  /\ recs' = Written(q.kind, q.key, r, r)
  /\ UNCHANGED <<kinds, project, plane, alone>>
  /\ Checkpoint(r, AfterStore(q.kind))

\* The handler lists the kind again, to write the whole of it out.
ListForApply(r) ==
  LET q == req[r] IN
  /\ q.pc = "list"
  /\ IF project = "gone" THEN Answer(r, "failed")
     ELSE req' = [req EXCEPT ![r].pc = "apply", ![r].list = Objects(OfKind(q.kind))]
  /\ UNCHANGED <<kinds, project, recs, saved, failedSaves, plane, alone>>

\* A deleted function's directory also holds its regions and its mounts.
Removed(k, key) ==
  {o \in plane : ~ \/ o.kind = k /\ o.key = key
                   \/ k = "functions" /\ o.kind \in StoreOf[k].drops}

\* The data plane after the whole of an apply, and after a part of one: the sync
\* of a list to files first removes the old files.
Applied(r) ==
  LET q == req[r] IN
  IF ApiOf[q.kind].apply = "list" THEN {o \in plane : o.kind # q.kind} \cup q.list
  ELSE IF q.op = "delete" THEN Removed(q.kind, q.key)
  ELSE Put([kind |-> q.kind, key |-> q.key, val |-> r])

PartlyApplied(r) ==
  {plane, Applied(r)} \cup
  IF ApiOf[req[r].kind].apply = "list" /\ ApiOf[req[r].kind].on = "files"
  THEN {{o \in plane : o.kind # req[r].kind}} ELSE {}

\* SQL, HTTP requests and compose commands need the project's containers; a file
\* is written wherever its directory can be made.
Reachable(k) == project = "up" \/ ApiOf[k].on = "files"

ApplyOk(r) ==
  /\ req[r].pc = "apply" /\ Reachable(req[r].kind)
  /\ plane' = Applied(r)
  /\ Answer(r, "ok")
  /\ UNCHANGED <<kinds, project, recs, saved, failedSaves, alone>>

\* It fails before or after having had its effect (a timeout, a lost answer).
ApplyFails(r) ==
  /\ req[r].pc = "apply"
  /\ plane' \in IF Reachable(req[r].kind) THEN PartlyApplied(r) ELSE {plane}
  /\ IF ApiOf[req[r].kind].undo = "keep" THEN Answer(r, "failed") ELSE Goto(r, "undo")
  /\ UNCHANGED <<kinds, project, recs, saved, failedSaves, alone>>

\* The records without those of xs and without what goes with them.
Without(xs) ==
  LET dropped == UNION {StoreOf[x.kind].drops : x \in xs}
  IN  {x \in recs \ xs : x.kind \notin dropped}

\* _ = store.DeleteProjectX(ref, name): whatever has the name by now.
UndoByDelete(r) ==
  LET q == req[r] IN
  /\ q.pc = "undo" /\ ApiOf[q.kind].undo = "delete"
  /\ recs' = Without(At(q.kind, q.key))
  /\ Answer(r, "failed")
  /\ UNCHANGED <<kinds, project, plane, alone>>
  /\ Save \/ SaveFails

\* What was read is written back: an extension's earlier state, or every setting
\* of the config as it was; a setting that is new stays, since configs merge.
UndoByRestore(r) ==
  LET q == req[r]
      old == {x \in q.before : q.kind \in Configs \/ x.key = q.key}
  IN
  /\ q.pc = "undo" /\ ApiOf[q.kind].undo = "restore"
  /\ recs' = IF project = "gone" THEN recs
             ELSE {x \in recs : \A y \in old : x.kind # y.kind \/ x.key # y.key} \cup old
  /\ Answer(r, "failed")
  /\ UNCHANGED <<kinds, project, plane, alone>>
  /\ Save \/ SaveFails

\* restoreProjectAuthHooks deletes every hook there is and then creates the ones
\* of its list again, with new ids.
UndoByRebuild(r) ==
  LET q == req[r] IN
  /\ q.pc = "undo" /\ ApiOf[q.kind].undo = "rebuild"
  /\ recs' = recs \ OfKind(q.kind)
  /\ Goto(r, "recreate")
  /\ UNCHANGED <<kinds, project, plane, alone>>
  /\ Save \/ SaveFails

Recreate(r) ==
  LET q == req[r] IN
  /\ q.pc = "recreate"
  /\ recs' = IF project = "gone" THEN recs
             ELSE {x \in recs : \A y \in q.before : x.kind # y.kind \/ x.key # y.key}
                  \cup {[y EXCEPT !.id = IF At(q.kind, y.key) = {} THEN r
                                         ELSE (CHOOSE x \in At(q.kind, y.key) : TRUE).id]
                        : y \in q.before}
  /\ Answer(r, "failed")
  /\ UNCHANGED <<kinds, project, plane, alone>>
  /\ Save \/ SaveFails

\* getCurrentProjectX: a record that is missing goes straight to the store, whose
\* delete then reports it.
Lookup(r) ==
  LET q == req[r] IN
  /\ q.pc = "lookup"
  /\ IF project = "gone" THEN Answer(r, "failed")
     ELSE Goto(r, IF At(q.kind, q.key) = {} THEN "delete" ELSE "remove")
  /\ UNCHANGED <<kinds, project, recs, saved, failedSaves, plane, alone>>

\* (mutant of RemoveFails) the record is deleted although its object is still there
RemoveFailsOnward(r) ==
  LET q == req[r] IN
  /\ q.pc = "remove"
  /\ plane' \in IF Reachable(q.kind) THEN {plane, Removed(q.kind, q.key)} ELSE {plane}
  /\ Goto(r, "delete")
  /\ UNCHANGED <<kinds, project, recs, saved, failedSaves, alone>>

\* The object is dropped first; a failure keeps the record.
RemoveOk(r) ==
  LET q == req[r] IN
  /\ q.pc = "remove" /\ Reachable(q.kind)
  /\ plane' = Removed(q.kind, q.key)
  /\ Goto(r, "delete")
  /\ UNCHANGED <<kinds, project, recs, saved, failedSaves, alone>>

RemoveFails(r) ==
  LET q == req[r] IN
  /\ q.pc = "remove"
  /\ plane' \in IF Reachable(q.kind) THEN {plane, Removed(q.kind, q.key)} ELSE {plane}
  /\ Answer(r, "failed")
  /\ UNCHANGED <<kinds, project, recs, saved, failedSaves, alone>>

Target(q) == {x \in At(q.kind, q.key) : StoreOf[q.kind].by = "id" => x.id = q.id}

\* DeleteProjectX, with what goes with the record; ErrNotFound without one.
DeleteRecord(r) ==
  LET q == req[r] IN
  /\ q.pc = "delete"
  /\ UNCHANGED <<kinds, project, plane, alone>>
  /\ IF Target(q) = {} THEN Answer(r, "failed") /\ UNCHANGED <<recs, saved, failedSaves>>
     ELSE /\ recs' = Without(Target(q))
          /\ Checkpoint(r, IF ApiOf[q.kind].delete = "recordFirst"
                           THEN AfterStore(q.kind) ELSE "ok")

HandlerStep(r) ==
  /\ r \in Active
  /\ \/ WriteRejected(r) \/ WriteRecord(r) \/ ListForApply(r) \/ ApplyOk(r) \/ ApplyFails(r)
     \/ UndoByDelete(r) \/ UndoByRestore(r) \/ UndoByRebuild(r) \/ Recreate(r)
     \/ Lookup(r) \/ RemoveOk(r) \/ RemoveFails(r) \/ DeleteRecord(r)

\* destroyProjectHandler: the provisioner takes the runtime and its files, then
\* the store the project's record and, with cleanupRegisteredProjectChildrenLocked,
\* every child; whether the save of that succeeds is another matter.
DestroyRuntime ==
  /\ project = "up"
  /\ project' = "destroyed" /\ plane' = {}
  /\ alone' = [r \in Requests |-> alone[r] /\ r \notin Active]
  /\ UNCHANGED <<kinds, recs, saved, failedSaves, req>>

DeleteProject ==
  /\ project = "destroyed"
  /\ project' = "gone" /\ recs' = {}
  /\ UNCHANGED <<kinds, plane, req, alone>>
  /\ Save \/ SaveFails

\* Any other call of the store saves the whole of it: logs, audit events.
SaveElsewhere ==
  /\ saved # Image
  /\ saved' = Image
  /\ UNCHANGED <<kinds, project, recs, failedSaves, plane, req, alone>>

\* The control plane restarts: its requests are gone, and it loads what was saved.
Crash ==
  /\ Active # {} \/ saved # Image
  /\ req' = [r \in Requests |-> IF r \in Active THEN Done("lost") ELSE req[r]]
  /\ recs' = saved.recs
  /\ project' = IF project = "gone" /\ saved.there THEN "destroyed" ELSE project
  /\ UNCHANGED <<kinds, saved, failedSaves, plane, alone>>

Next ==
  \/ \E r \in Requests :
       \/ \E k \in kinds : \E key \in Keys(k) : BeginWrite(r, k, key)
       \/ \E k \in kinds : \E x \in recs : BeginDelete(r, k, x)
       \/ HandlerStep(r)
  \/ DestroyRuntime \/ DeleteProject \/ SaveElsewhere \/ Crash

Spec == Init /\ [][Next]_vars
-----------------------------------------------------------------------------
(***************************************************************************)
(* No record outlives what it refers to: none stays when the project is    *)
(* gone, a region has its function and a mount its function and its        *)
(* bucket, in whatever order creates, deletes, failing creates and their   *)
(* undoing, and the deletion of the project interleave (the checks and     *)
(* cascades of store.go:5040-5263, 5751-5806).                             *)
(***************************************************************************)
ParentsExist ==
  /\ project = "gone" => recs = {}
  /\ \A x \in recs : x.kind # "cdn_object_events" => NeedsMet(x.kind)

Finishes(r, answer) == r \in Active /\ req'[r] = Done(answer)

\* The kinds whose handlers say they undo a failure.
Reversible == {"auth_hooks", "runtime_config", "database_extensions", "database_cron_jobs",
               "database_queues", "database_webhooks", "database_roles", "database_schemas",
               "storage_buckets"}

\* The records of the kind have the content they had before; of a config, the
\* settings it had before.
Undone(q) ==
  LET now == {x \in Objects(recs') : x.kind = q.kind}
      was == Objects(q.before)
  IN  IF q.kind \in Configs THEN was \subseteq now ELSE now = was

\* What the data plane has of kind k agrees with the records of k.
Agree(k) == {o \in plane' : o.kind = k} = {o \in Objects(recs') : o.kind = k}

\* The data plane has what r wrote, or nothing of what it deleted; a kind that is
\* written as a list agrees with its records.  Deleted schemas (their SQL is not
\* undone) and the mounts of a deleted bucket (their files are not written
\* again) are the exceptions.
InPlace(r) ==
  LET q == req[r] IN
  IF ApiOf[q.kind].apply = "list" THEN Agree(q.kind)
  ELSE IF q.op = "write" THEN [kind |-> q.kind, key |-> q.key, val |-> r] \in plane'
  ELSE /\ \A x \in recs' : x.kind # q.kind \/ x.key # q.key
       /\ q.kind # "database_schemas" =>
            \A o \in plane' : o.kind # q.kind \/ o.key # q.key
       /\ q.kind = "functions" =>
            \A k \in StoreOf[q.kind].drops : Agree(k)

\* The record is as r asked for.  Where a delete begins with the object, that is
\* gone as well; otherwise nothing has been put on the data plane.
Stands(r) ==
  LET q == req[r]
      now == {x \in Objects(recs') : x.kind = q.kind /\ x.key = q.key}
  IN  IF q.op = "write" THEN now = {[kind |-> q.kind, key |-> q.key, val |-> r]}
      ELSE now = {} /\ (ApiOf[q.kind].delete \in {"lookup", "planeFirst"} => InPlace(r))

(***************************************************************************)
(* A request with nothing beside it is all or nothing, but for a save that *)
(* fails.  When it succeeds the data plane has it and a restart will find  *)
(* its record, however far apart earlier failures and races had brought    *)
(* records, data plane and what is saved; when a step other than the save  *)
(* of its record fails, the records are as before, for the kinds whose     *)
(* handlers undo.  When that save fails the client has an error and the    *)
(* record stands as asked for: nothing undoes it, nothing applies it.      *)
(***************************************************************************)
LoneRequestsAreAtomic ==
  [][\A r \in Requests : alone[r] =>
       /\ Finishes(r, "failed") /\ req[r].kind \in Reversible => Undone(req[r])
       /\ Finishes(r, "ok") => saved' = Image'
       /\ Finishes(r, "ok") /\ ApiOf[req[r].kind].apply # "none" => InPlace(r)
       /\ Finishes(r, "unsaved") => Stands(r)]_vars

(***************************************************************************)
(* A failed create takes nothing with it that was there before it began:   *)
(* its rollback deletes by name, and whatever it finds under the name is   *)
(* its own or came later.  (It may be the record of a third request that   *)
(* took the name after a delete: rollbacks by name are not exact.)         *)
(***************************************************************************)
RollbackSparesOlder ==
  [][\A r \in Requests :
       r \in Active /\ req[r].pc = "undo" /\ req[r].op = "write"
       /\ ApiOf[req[r].kind].undo = "delete" /\ Finishes(r, "failed") =>
         \A x \in req[r].before : \A y \in recs \ recs' : y.kind = x.kind => y.id # x.id]_vars
=============================================================================
