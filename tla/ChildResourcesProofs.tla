------------------------ MODULE ChildResourcesProofs ------------------------
(***************************************************************************)
(* For every number of requests and every family of kinds: no record       *)
(* outlives what it refers to, a rollback by name takes nothing that was   *)
(* there before its request, and a request with nothing beside it is all   *)
(* or nothing.                                                             *)
(*                                                                         *)
(* What the tables of ChildResources say of each kind is brought into a    *)
(* few lemmas first; the rest argues from those.                           *)
(***************************************************************************)
EXTENDS ChildResources, TLAPS

-----------------------------------------------------------------------------
(* The tables. *)

AllKinds == {
    "auth_clients", "auth_hooks", "functions", "function_regions",
    "function_storage_mounts", "replication_pipelines", "embedding_jobs",
    "database_extensions", "database_cron_jobs", "database_queues",
    "database_webhooks", "database_schemas", "database_roles",
    "storage_buckets", "vector_buckets", "analytics_buckets",
    "network_connections", "log_drains", "general_config", "network_config",
    "runtime_config", "services", "secrets", "cdn_policies",
    "cdn_invalidations", "cdn_object_events"}

\* Both tables have a row for each kind.
LEMMA KindNames == Kinds = AllKinds /\ DOMAIN ApiOf = AllKinds
  BY DEF Kinds, StoreOf, ApiOf, AllKinds

\* Which kinds refer to which, and what goes with what.
LEMMA StoreRows ==
  \A k \in Kinds :
    /\ StoreOf[k].needs # {} =>
         k \in {"function_regions", "function_storage_mounts", "cdn_object_events"}
    /\ StoreOf[k].drops # {} => k \in {"functions", "storage_buckets"}
    /\ StoreOf[k].write = "append" => k \in {"log_drains", "cdn_invalidations", "cdn_object_events"}
    /\ StoreOf[k].write \in {"append", "upsert", "conflict"}
  BY KindNames DEF AllKinds, StoreOf, Stored, StoreAnalyticsBuckets,
     StoreAuthClients, StoreAuthHooks, StoreCDNInvalidations,
     StoreCDNObjectEvents, StoreCDNPolicies, StoreConfigs,
     StoreDatabaseCronJobs, StoreDatabaseExtensions, StoreDatabaseQueues,
     StoreDatabaseRoles, StoreDatabaseSchemas, StoreDatabaseWebhooks,
     StoreEmbeddingJobs, StoreFunctionRegions, StoreFunctionStorageMounts,
     StoreFunctions, StoreLogDrains, StoreNetworkConnections,
     StoreReplicationPipelines, StoreSecrets, StoreServices,
     StoreStorageBuckets, StoreVectorBuckets

\* What goes with a record is what refers to it.
LEMMA References ==
  /\ StoreOf["functions"].drops = {"function_regions", "function_storage_mounts"}
  /\ StoreOf["storage_buckets"].drops = {"function_storage_mounts"}
  /\ StoreOf["function_regions"].needs = {"functions"}
  /\ StoreOf["function_storage_mounts"].needs = {"functions", "storage_buckets"}
  BY DEF StoreOf, Stored, StoreFunctions, StoreStorageBuckets, StoreFunctionRegions,
         StoreFunctionStorageMounts

\* How the handlers undo.
LEMMA UndoRows ==
  \A k \in Kinds :
    /\ ApiOf[k].undo = "delete" =>
         k \in {"database_cron_jobs", "database_queues", "database_webhooks",
                "database_roles", "database_schemas", "storage_buckets"}
    /\ ApiOf[k].undo = "restore" => k \in {"runtime_config", "database_extensions"}
    /\ ApiOf[k].undo = "rebuild" => k = "auth_hooks"
    /\ ApiOf[k].undo \in {"keep", "delete", "restore", "rebuild"}
    /\ k \in Reversible => ApiOf[k].undo # "keep"
  BY KindNames DEF AllKinds, Reversible, ApiOf, RecordOnly, Served,
     ApiAnalyticsBuckets, ApiAuthClients, ApiAuthHooks, ApiCDNInvalidations,
     ApiCDNObjectEvents, ApiCDNPolicies, ApiDatabaseCronJobs,
     ApiDatabaseExtensions, ApiDatabaseQueues, ApiDatabaseRoles,
     ApiDatabaseSchemas, ApiDatabaseWebhooks, ApiEmbeddingJobs,
     ApiFunctionRegions, ApiFunctionStorageMounts, ApiFunctions,
     ApiGeneralConfig, ApiLogDrains, ApiNetworkConfig, ApiNetworkConnections,
     ApiReplicationPipelines, ApiRuntimeConfig, ApiSecrets, ApiServices,
     ApiStorageBuckets, ApiVectorBuckets, ApplyAuthHooks, ApplyDatabaseRoles,
     ApplyDatabaseWebhooks, ApplyFunctionRegions, ApplyFunctionStorageMounts,
     ApplyFunctions, ApplyLogDrains, ApplyRuntimeConfig, ApplyStorageBuckets

\* A kind that is undone by name refuses a name that is taken.
LEMMA ConflictRows ==
  \A k \in {"database_cron_jobs", "database_queues", "database_webhooks",
            "database_roles", "database_schemas", "storage_buckets"} :
    StoreOf[k].write = "conflict"
  BY DEF StoreOf, Stored, StoreDatabaseCronJobs, StoreDatabaseQueues, StoreDatabaseWebhooks,
         StoreDatabaseRoles, StoreDatabaseSchemas, StoreStorageBuckets

\* How they apply and delete.
LEMMA ApplyRows ==
  \A k \in Kinds :
    /\ ApiOf[k].apply \in {"none", "object", "list"}
    /\ ApiOf[k].delete \in {"none", "record", "recordFirst", "planeFirst", "lookup"}
    /\ ApiOf[k].delete = "recordFirst" => ApiOf[k].apply # "none"
    /\ ApiOf[k].delete = "record" /\ ApiOf[k].apply # "none" => k = "database_schemas"
    /\ ApiOf[k].delete \in {"lookup", "planeFirst"} => ApiOf[k].apply = "object"
    /\ ApiOf[k].delete = "none" <=>
         k \in {"cdn_invalidations", "cdn_object_events", "general_config", "network_config",
                "runtime_config", "services", "cdn_policies", "database_extensions"}
  BY KindNames DEF AllKinds, ApiOf, RecordOnly, Served, ApiAnalyticsBuckets,
     ApiAuthClients, ApiAuthHooks, ApiCDNInvalidations, ApiCDNObjectEvents,
     ApiCDNPolicies, ApiDatabaseCronJobs, ApiDatabaseExtensions,
     ApiDatabaseQueues, ApiDatabaseRoles, ApiDatabaseSchemas,
     ApiDatabaseWebhooks, ApiEmbeddingJobs, ApiFunctionRegions,
     ApiFunctionStorageMounts, ApiFunctions, ApiGeneralConfig, ApiLogDrains,
     ApiNetworkConfig, ApiNetworkConnections, ApiReplicationPipelines,
     ApiRuntimeConfig, ApiSecrets, ApiServices, ApiStorageBuckets,
     ApiVectorBuckets, ApplyAuthHooks, ApplyDatabaseRoles,
     ApplyDatabaseWebhooks, ApplyFunctionRegions, ApplyFunctionStorageMounts,
     ApplyFunctions, ApplyLogDrains, ApplyRuntimeConfig, ApplyStorageBuckets

-----------------------------------------------------------------------------
(* The invariant. *)

Ended == {New, Done("ok"), Done("failed"), Done("unsaved"), Done("lost")}

TypeInv ==
  /\ kinds \subseteq Kinds
  /\ project \in {"up", "destroyed", "gone"}
  /\ recs \subseteq Record
  /\ plane \subseteq Object
  /\ req \in [Requests -> Request \cup Ended]
  /\ alone \in [Requests -> BOOLEAN]

\* Records, each under a name of its kind and no two under the same.
Unique(S) ==
  /\ \A x, y \in S : x.kind = y.kind /\ x.key = y.key => x = y
  /\ \A x \in S : x.key \in Keys(x.kind)

Deleting == {"lookup", "remove", "delete"}

\* What a request q read before it began, and the steps that its kind has.
Reads(q) ==
  /\ q.key \in Keys(q.kind)
  /\ Unique(q.before) /\ \A x \in q.before : x.kind = q.kind
  /\ q.pc = "store" => q.op = "write"
  /\ q.pc \in Deleting => q.op = "delete"
  /\ q.pc = "recreate" => ApiOf[q.kind].undo = "rebuild"
  /\ q.op = "delete" => ApiOf[q.kind].delete # "none"

ReadInv == Unique(recs) /\ \A r \in Active : Reads(req[r])

\* A request that will not write a record any more, or not before it is undone.
Spent(s) == req[s] # New /\ (s \in Active => req[s].pc # "store")

\* The id of a record, and of one that a request remembers, is that of a request
\* which has written.
IdsInv ==
  /\ \A x \in recs : x.id = Default \/ Spent(x.id)
  /\ \A r \in Active : \A x \in req[r].before : x.id = Default \/ Spent(x.id)

\* Where a create will be undone by name, the record under the name came after
\* the create began.
Newer(q) ==
  q.op = "write" /\ ApiOf[q.kind].undo = "delete" /\ q.pc # "store" =>
    \A y \in At(q.kind, q.key), x \in q.before : y.id # x.id

NewerInv == \A r \in Active : Newer(req[r])

IInv == TypeInv /\ ReadInv /\ ParentsExist /\ IdsInv /\ NewerInv

\* What records refer to is among them.
Whole(S) == \A x \in S : x.kind # "cdn_object_events" =>
              \A n \in StoreOf[x.kind].needs : \E y \in S : y.kind = n

\* What was last saved, and a restart loads, was a store like any other.
SavedInv ==
  /\ saved \in [there : BOOLEAN, recs : SUBSET Record] /\ failedSaves \in Nat
  /\ Unique(saved.recs) /\ Whole(saved.recs)
  /\ ~ saved.there => saved.recs = {}
  /\ project # "gone" => saved.there
  /\ \A x \in saved.recs : x.id = Default \/ Spent(x.id)

-----------------------------------------------------------------------------
(* Requests. *)

\* A request is active exactly when it has begun and is not answered.
LEMMA ActiveRequests ==
  ASSUME TypeInv PROVE \A r \in Requests : r \in Active <=> req[r] \in Request
<1>1. \A q \in Ended : DOMAIN q = {"pc"}
  BY DEF Ended, New, Done
<1>2. \A q \in Request : "kind" \in DOMAIN q
  BY DEF Request
<1> QED
  BY <1>1, <1>2 DEF TypeInv, Active

\* A request that is under way is not an answer.
LEMMA NoRequestEnded == Request \cap Ended = {}
<1>1. \A q \in Ended : DOMAIN q = {"pc"}
  BY DEF Ended, New, Done
<1>2. \A q \in Request : "kind" \in DOMAIN q
  BY DEF Request
<1> QED
  BY <1>1, <1>2

\* The names of a kind are names.
LEMMA KeysAreKeys == \A k \in Kinds : Keys(k) \subseteq AllKeys
  BY DEF AllKeys

\* A step of the handler of r leaves the other requests alone; r is answered or
\* goes on with what it is and what it read.
Onward(r, p) ==
  /\ req' = [req EXCEPT ![r] = p]
  /\ \/ p \in {Done("ok"), Done("failed"), Done("unsaved")}
     \/ /\ p \in Request /\ p.kind = req[r].kind /\ p.op = req[r].op /\ p.key = req[r].key
        /\ p.id = req[r].id /\ p.before = req[r].before
        /\ p.pc # "store"
        /\ p.pc \in Deleting => req[r].pc \in Deleting
        /\ p.pc = "recreate" => ApiOf[p.kind].undo = "rebuild"

\* To go to a step of the handler is to go on.
LEMMA GotoOnward ==
  ASSUME TypeInv, NEW r \in Requests, req[r] \in Request,
         NEW pc \in {"list", "apply", "undo", "recreate", "lookup", "remove", "delete"}, Goto(r, pc),
         pc \in Deleting => req[r].pc \in Deleting,
         pc = "recreate" => ApiOf[req[r].kind].undo = "rebuild"
  PROVE  \E p : Onward(r, p) /\ p \in Request /\ p.pc = pc /\ p.list = {}
<1> DEFINE p == [req[r] EXCEPT !.pc = pc, !.list = {}]
<1>1. p \in Request /\ p.kind = req[r].kind /\ p.op = req[r].op /\ p.key = req[r].key
        /\ p.id = req[r].id /\ p.before = req[r].before /\ p.pc = pc /\ p.list = {}
  BY DEF Request
<1>2. req' = [req EXCEPT ![r] = p]
  BY DEF Goto, TypeInv
<1> HIDE DEF p
<1>3. Onward(r, p)
  BY <1>1, <1>2 DEF Onward
<1> QED
  BY <1>1, <1>3

\* To answer is to go on.
LEMMA AnswerOnward ==
  ASSUME NEW r, NEW answer \in {"ok", "failed", "unsaved"}, Answer(r, answer)
  PROVE  Onward(r, Done(answer))
  BY DEF Answer, Onward

\* To list the kind again is to go on.
LEMMA ListOnward ==
  ASSUME TypeInv, NEW r \in Requests, req[r] \in Request, req[r].pc = "list", ListForApply(r),
         project # "gone"
  PROVE  \E p : /\ Onward(r, p) /\ p \in Request /\ p.pc = "apply"
                /\ p.list = Objects(OfKind(req[r].kind))
<1> DEFINE L == Objects(OfKind(req[r].kind))
           p == [req[r] EXCEPT !.pc = "apply", !.list = L]
<1>1. L \subseteq Object
  BY DEF TypeInv, Objects, AsObject, OfKind, Object, Record
<1>2. req' = [req EXCEPT ![r].pc = "apply", ![r].list = L]
  BY DEF ListForApply
<1> HIDE DEF L
<1>3. p \in Request /\ p.kind = req[r].kind /\ p.op = req[r].op /\ p.key = req[r].key
        /\ p.id = req[r].id /\ p.before = req[r].before /\ p.pc = "apply" /\ p.list = L
  BY <1>1 DEF Request
<1>4. req' = [req EXCEPT ![r] = p]
  BY <1>2 DEF TypeInv
<1> HIDE DEF p
<1>5. Onward(r, p)
  BY <1>3, <1>4 DEF Onward, Deleting
<1> QED
  BY <1>3, <1>5 DEF L

\* Where a request goes after its part in the store.
LEMMA AfterStoreIs ==
  ASSUME NEW k \in Kinds
  PROVE  /\ AfterStore(k) \in {"list", "apply", "ok"}
         /\ ApiOf[k].apply # "none" => AfterStore(k) \in {"list", "apply"}
         /\ AfterStore(k) = "ok" <=> ApiOf[k].apply = "none"
         /\ AfterStore(k) = "list" <=> ApiOf[k].apply = "list"
         /\ AfterStore(k) = "apply" <=> ApiOf[k].apply = "object"
  BY ApplyRows DEF AfterStore

\* What follows the part in the store is an answer or a step.
LEMMA ContinueOnward ==
  ASSUME TypeInv, NEW r \in Requests, req[r] \in Request, Continue(r, AfterStore(req[r].kind))
  PROVE  \E p : Onward(r, p)
<1>1. req[r].kind \in Kinds
  BY DEF Request
<1>2. CASE AfterStore(req[r].kind) = "ok"
  <2>1. Answer(r, "ok")
    BY <1>2 DEF Continue
  <2> QED
    BY <2>1, AnswerOnward
<1>3. CASE AfterStore(req[r].kind) # "ok"
  <2>1. Goto(r, AfterStore(req[r].kind)) /\ AfterStore(req[r].kind) \in {"list", "apply"}
    BY <1>1, <1>3, AfterStoreIs DEF Continue
  <2> QED
    BY <2>1, GotoOnward DEF Deleting
<1> QED
  BY <1>2, <1>3

\* Whether the save succeeds or fails, the request goes on.
LEMMA CheckpointOnward ==
  ASSUME TypeInv, NEW r \in Requests, req[r] \in Request,
         Checkpoint(r, AfterStore(req[r].kind)) \/ Checkpoint(r, "ok")
  PROVE  \E p : Onward(r, p)
<1>1. CASE Continue(r, AfterStore(req[r].kind))
  BY <1>1, ContinueOnward
<1>2. CASE Continue(r, "ok")
  BY <1>2, AnswerOnward DEF Continue
<1>3. CASE Answer(r, "unsaved")
  BY <1>3, AnswerOnward
<1> QED
  BY <1>1, <1>2, <1>3 DEF Checkpoint

\* Every step of a handler goes on in this sense.
LEMMA HandlersGoOn ==
  ASSUME TypeInv, NEW r \in Requests, HandlerStep(r)
  PROVE  \E p : Onward(r, p)
<1> USE ActiveRequests, AnswerOnward, GotoOnward
<1>1. req[r] \in Request /\ req[r].kind \in Kinds
  BY DEF HandlerStep, Request
<1>2. CASE WriteRejected(r)
  BY <1>2 DEF WriteRejected
<1>3. CASE WriteRecord(r)
  BY <1>1, <1>3, CheckpointOnward DEF WriteRecord
<1>4. CASE ListForApply(r)
  <2>1. CASE project = "gone"
    BY <1>4, <2>1 DEF ListForApply
  <2>2. CASE project # "gone"
    <3>1. req[r].pc = "list"
      BY <1>4 DEF ListForApply
    <3> QED
      BY <1>1, <1>4, <2>2, <3>1, ListOnward
  <2> QED
    BY <2>1, <2>2
<1>5. CASE ApplyOk(r)
  BY <1>5 DEF ApplyOk
<1>6. CASE ApplyFails(r)
  BY <1>1, <1>6 DEF ApplyFails, Deleting
<1>7. CASE UndoByDelete(r)
  BY <1>7 DEF UndoByDelete
<1>8. CASE UndoByRestore(r)
  BY <1>8 DEF UndoByRestore
<1>9. CASE UndoByRebuild(r)
  BY <1>1, <1>9 DEF UndoByRebuild, Deleting
<1>10. CASE Recreate(r)
  BY <1>10 DEF Recreate
<1>11. CASE Lookup(r)
  BY <1>1, <1>11 DEF Lookup, Deleting
<1>12. CASE RemoveOk(r)
  BY <1>1, <1>12 DEF RemoveOk, Deleting
<1>13. CASE RemoveFails(r)
  BY <1>13 DEF RemoveFails
<1>14. CASE DeleteRecord(r)
  <2>1. CASE Target(req[r]) = {}
    BY <1>14, <2>1 DEF DeleteRecord
  <2>2. CASE Target(req[r]) # {}
    BY <1>1, <1>14, <2>2, CheckpointOnward DEF DeleteRecord
  <2> QED
    BY <2>1, <2>2
<1> QED
  BY <1>2, <1>3, <1>4, <1>5, <1>6, <1>7, <1>8, <1>9, <1>10, <1>11, <1>12, <1>13, <1>14
     DEF HandlerStep

-----------------------------------------------------------------------------
(* Records. *)

\* What a step of the handler of r does to the records: it keeps their shape and
\* what they refer to; those that are new are of its kind, with the id of a
\* request or of a record it remembers; a kind that is undone by name has new
\* records only under a name that was free.
Effect(r) ==
  LET q == req[r] IN
  /\ recs' \subseteq Record /\ Unique(recs') /\ ParentsExist'
  /\ \A y \in recs' \ recs :
       /\ y.kind = q.kind
       /\ y.id = r \/ \E x \in recs \cup q.before : x.id = y.id
       /\ ApiOf[q.kind].undo = "delete" => q.pc = "store" /\ y.id = r
  /\ q.pc = "store" /\ r \in Active' /\ ApiOf[q.kind].undo = "delete" => At(q.kind, q.key) = {}

\* A step that leaves the records alone has no effect on them.
LEMMA RecsUnchanged ==
  ASSUME IInv, NEW r \in Requests, UNCHANGED <<recs, project>>, req[r].pc = "store" => r \notin Active'
  PROVE  Effect(r)
  BY DEF IInv, TypeInv, ReadInv, ParentsExist, NeedsMet, OfKind, Effect

\* Records that come to refer to nothing go with what they referred to.
LEMMA WithoutKeepsParents ==
  ASSUME TypeInv, ParentsExist, NEW k \in Kinds, NEW xs \in SUBSET recs,
         \A x \in xs : x.kind = k, recs' = Without(xs), UNCHANGED project
  PROVE  ParentsExist' /\ recs' \subseteq recs
<1>1. recs' \subseteq recs
  BY DEF Without
<1>2. ASSUME NEW x \in recs', x.kind # "cdn_object_events", NEW n \in StoreOf[x.kind].needs
      PROVE  \E y \in recs' : y.kind = n
  <2>1. x \in recs /\ x.kind \in Kinds
    BY <1>1, <1>2 DEF TypeInv, Record
  <2>2. PICK y \in recs : y.kind = n
    BY <1>2, <2>1 DEF ParentsExist, NeedsMet, OfKind
  <2>3. /\ n \in {"functions", "storage_buckets"}
        /\ x.kind \in {"function_regions", "function_storage_mounts"}
        /\ x.kind \in StoreOf[n].drops
    BY <1>2, <2>1, StoreRows, References
  <2>4. \A m \in Kinds : n \notin StoreOf[m].drops
    BY <2>3, StoreRows, References
  <2>5. CASE y \in xs
    BY <1>2, <2>2, <2>3, <2>5 DEF Without
  <2>6. CASE y \notin xs
    <3>1. \A z \in xs : n \notin StoreOf[z.kind].drops
      BY <2>4
    <3>2. y \in recs'
      BY <2>2, <2>6, <3>1 DEF Without
    <3> QED
      BY <2>2, <3>2
  <2> QED
    BY <2>5, <2>6
<1>3. project' = "gone" => recs' = {}
  BY <1>1 DEF ParentsExist
<1>4. \A x \in recs' : x.kind # "cdn_object_events" => NeedsMet(x.kind)'
  BY <1>2 DEF NeedsMet, OfKind
<1> QED
  BY <1>1, <1>3, <1>4 DEF ParentsExist

\* A delete by name or by id, with what goes with it.
LEMMA DeletingEffect ==
  ASSUME IInv, NEW r \in Active, NEW xs \in SUBSET At(req[r].kind, req[r].key),
         recs' = Without(xs), UNCHANGED project, req[r].pc # "store"
  PROVE  Effect(r)
<1>1. req[r] \in Request /\ req[r].kind \in Kinds
  BY ActiveRequests DEF IInv, Active, Request
<1>2. xs \in SUBSET recs /\ \A x \in xs : x.kind = req[r].kind
  BY DEF At
<1>3. ParentsExist' /\ recs' \subseteq recs
  BY <1>1, <1>2, WithoutKeepsParents DEF IInv
<1>4. recs' \subseteq Record /\ Unique(recs')
  BY <1>3 DEF IInv, TypeInv, ReadInv, Unique
<1> QED
  BY <1>3, <1>4 DEF Effect

\* Records of one kind, to which nothing refers, or which stay under their name.
LEMMA ReplacingKeepsParents ==
  ASSUME TypeInv, ParentsExist, NEW k \in Kinds,
         project # "gone", UNCHANGED project,
         \A x \in recs' : x \in recs \/ x.kind = k,
         \A x \in recs : x \in recs' \/ x.kind = k,
         (\E x \in recs : x.kind = k) => (\E x \in recs' : x.kind = k)
            \/ k \notin {"functions", "storage_buckets"},
         k # "cdn_object_events" => NeedsMet(k)
  PROVE  ParentsExist'
<1>1. ASSUME NEW x \in recs', x.kind # "cdn_object_events", NEW n \in StoreOf[x.kind].needs
      PROVE  \E y \in recs' : y.kind = n
  <2>1. x.kind \in Kinds /\ \E y \in recs : y.kind = n
    BY <1>1 DEF TypeInv, Record, ParentsExist, NeedsMet, OfKind
  <2>2. n \in {"functions", "storage_buckets"}
    BY <1>1, <2>1, StoreRows, References
  <2> QED
    BY <2>1, <2>2
<1>2. \A x \in recs' : x.kind # "cdn_object_events" => NeedsMet(x.kind)'
  BY <1>1 DEF NeedsMet, OfKind
<1> QED
  BY <1>2 DEF ParentsExist

\* A write: a name that is taken keeps its id.
LEMMA WriteRecordEffect ==
  ASSUME IInv, NEW r \in Active, WriteRecord(r) PROVE Effect(r)
<1> DEFINE q == req[r]
           n == [kind |-> q.kind, key |-> q.key, val |-> r,
                 id |-> IF At(q.kind, q.key) = {} THEN r
                        ELSE (CHOOSE x \in At(q.kind, q.key) : TRUE).id]
<1>1. q \in Request /\ q.kind \in Kinds /\ q.key \in AllKeys /\ r \in Requests
  BY ActiveRequests DEF IInv, Active, Request
<1>2. /\ q.pc = "store" /\ project # "gone" /\ UNCHANGED project
      /\ recs' = (recs \ At(q.kind, q.key)) \cup {n}
      /\ ~Refused(q.kind, q.key)
  BY DEF WriteRecord, Written
<1>3. NeedsMet(q.kind) /\ (StoreOf[q.kind].write = "conflict" => At(q.kind, q.key) = {})
  BY <1>2 DEF Refused
<1>4. At(q.kind, q.key) # {} => \E x \in recs : x.id = n.id
  BY DEF At
<1>5. At(q.kind, q.key) = {} => n.id = r
  OBVIOUS
<1>6. n \in Record /\ n.kind = q.kind /\ n.key = q.key
  <2>1. n.id \in Contents
    BY <1>1, <1>4, <1>5 DEF Contents, IInv, TypeInv, Record
  <2> QED
    BY <1>1, <2>1 DEF Record, Contents
<1>7. recs' \subseteq Record /\ Unique(recs')
  <2>1. q.key \in Keys(q.kind)
    BY DEF IInv, ReadInv, Reads
  <2> QED
    BY <1>2, <1>6, <2>1 DEF IInv, TypeInv, ReadInv, Unique, At
<1>8. \A x \in recs : x \in recs' \/ x.kind = q.kind
  BY <1>2 DEF At
<1>9. n \in recs' /\ \A x \in recs' : x \in recs \/ x = n
  BY <1>2
<1> HIDE DEF n
<1>10. ParentsExist'
  BY <1>1, <1>2, <1>3, <1>6, <1>8, <1>9, ReplacingKeepsParents DEF IInv
<1>11. ApiOf[q.kind].undo = "delete" => StoreOf[q.kind].write = "conflict"
  BY <1>1, UndoRows, ConflictRows
<1> QED
  BY <1>2, <1>3, <1>4, <1>5, <1>6, <1>7, <1>9, <1>10, <1>11 DEF Effect

\* What was read is written back.
LEMMA UndoByRestoreEffect ==
  ASSUME IInv, NEW r \in Active, UndoByRestore(r) PROVE Effect(r)
<1> DEFINE q == req[r]
           old == {x \in q.before : q.kind \in Configs \/ x.key = q.key}
<1>1. q \in Request /\ q.kind \in Kinds /\ r \in Requests /\ q.before \subseteq Record
  BY ActiveRequests DEF IInv, Active, Request
<1>2. /\ q.pc = "undo" /\ ApiOf[q.kind].undo = "restore" /\ UNCHANGED project
      /\ recs' = IF project = "gone" THEN recs
                 ELSE {x \in recs : \A y \in old : x.kind # y.kind \/ x.key # y.key} \cup old
  BY DEF UndoByRestore
<1>3. CASE project = "gone"
  BY <1>1, <1>2, <1>3, RecsUnchanged
<1>4. CASE project # "gone"
  <2>1. q.kind \in {"runtime_config", "database_extensions"}
    BY <1>1, <1>2, UndoRows
  <2>2. NeedsMet(q.kind)
    BY <1>1, <2>1, StoreRows DEF NeedsMet
  <2>3. \A x \in old : x.kind = q.kind /\ x \in q.before
    BY DEF IInv, ReadInv, Reads
  <2>4. Unique(old)
    BY DEF IInv, ReadInv, Reads, Unique
  <2> HIDE DEF old
  <2>5. recs' \subseteq Record /\ Unique(recs')
    BY <1>1, <1>2, <1>4, <2>3, <2>4 DEF IInv, TypeInv, ReadInv, Unique
  <2>6. \A x \in recs' : x \in recs \/ x \in old
    BY <1>2, <1>4
  <2>7. \A x \in recs : x \in recs' \/ x.kind = q.kind
    BY <1>2, <1>4, <2>3
  <2>8. ParentsExist'
    BY <1>1, <1>2, <1>4, <2>1, <2>2, <2>3, <2>6, <2>7, ReplacingKeepsParents DEF IInv
  <2> QED
    BY <1>2, <2>3, <2>5, <2>6, <2>8 DEF Effect
<1> QED
  BY <1>3, <1>4

\* Every hook goes, and nothing refers to a hook.
LEMMA UndoByRebuildEffect ==
  ASSUME IInv, NEW r \in Active, UndoByRebuild(r) PROVE Effect(r)
<1> DEFINE q == req[r]
<1>1. q \in Request /\ q.kind \in Kinds /\ r \in Requests
  BY ActiveRequests DEF IInv, Active, Request
<1>2. /\ q.pc = "undo" /\ ApiOf[q.kind].undo = "rebuild" /\ UNCHANGED project
      /\ recs' = recs \ OfKind(q.kind)
  BY DEF UndoByRebuild
<1>3. q.kind = "auth_hooks"
  BY <1>1, <1>2, UndoRows
<1>4. NeedsMet(q.kind)
  BY <1>1, <1>3, StoreRows DEF NeedsMet
<1>5. recs' \subseteq recs /\ \A x \in recs : x \in recs' \/ x.kind = q.kind
  BY <1>2 DEF OfKind
<1>6. recs' \subseteq Record /\ Unique(recs')
  BY <1>5 DEF IInv, TypeInv, ReadInv, Unique
<1>7. ParentsExist'
  <2>1. CASE project = "gone"
    BY <1>2, <1>5, <2>1 DEF IInv, ParentsExist
  <2>2. CASE project # "gone"
    BY <1>1, <1>2, <1>3, <1>4, <1>5, <2>2, ReplacingKeepsParents DEF IInv
  <2> QED
    BY <2>1, <2>2
<1> QED
  BY <1>2, <1>5, <1>6, <1>7 DEF Effect

\* The hooks of the list come again, with new ids.
LEMMA RecreateEffect ==
  ASSUME IInv, NEW r \in Active, Recreate(r) PROVE Effect(r)
<1> DEFINE q == req[r]
           Again(y) == [y EXCEPT !.id = IF At(q.kind, y.key) = {} THEN r
                                        ELSE (CHOOSE x \in At(q.kind, y.key) : TRUE).id]
<1>1. q \in Request /\ q.kind \in Kinds /\ r \in Requests /\ q.before \subseteq Record
  BY ActiveRequests DEF IInv, Active, Request
<1>2. /\ q.pc = "recreate" /\ ApiOf[q.kind].undo = "rebuild" /\ UNCHANGED project
      /\ recs' = IF project = "gone" THEN recs
                 ELSE {x \in recs : \A y \in q.before : x.kind # y.kind \/ x.key # y.key}
                      \cup {Again(y) : y \in q.before}
  BY DEF Recreate, IInv, ReadInv, Reads
<1>3. CASE project = "gone"
  BY <1>1, <1>2, <1>3, RecsUnchanged
<1>4. CASE project # "gone"
  <2>1. q.kind = "auth_hooks"
    BY <1>1, <1>2, UndoRows
  <2>2. NeedsMet(q.kind)
    BY <1>1, <2>1, StoreRows DEF NeedsMet
  <2>3. \A y \in q.before : y.kind = q.kind /\ y \in Record
    BY <1>1 DEF IInv, ReadInv, Reads
  <2>4. \A y \in q.before : Again(y).id = r \/ \E x \in recs : x.id = Again(y).id
    <3> SUFFICES ASSUME NEW y \in q.before PROVE Again(y).id = r \/ \E x \in recs : x.id = Again(y).id
      OBVIOUS
    <3>1. Again(y).id = IF At(q.kind, y.key) = {} THEN r
                        ELSE (CHOOSE x \in At(q.kind, y.key) : TRUE).id
      BY <2>3 DEF Record
    <3>2. At(q.kind, y.key) # {} => (CHOOSE x \in At(q.kind, y.key) : TRUE) \in recs
      BY DEF At
    <3> QED
      BY <3>1, <3>2
  <2>5. \A y \in q.before : Again(y).id \in Contents
    BY <1>1, <2>4 DEF IInv, TypeInv, Record, Contents
  <2>6. \A y \in q.before : Again(y) \in Record /\ Again(y).kind = y.kind /\ Again(y).key = y.key
    <3> SUFFICES ASSUME NEW y \in q.before
                 PROVE Again(y) \in Record /\ Again(y).kind = y.kind /\ Again(y).key = y.key
      OBVIOUS
    <3>1. y \in Record
      BY <2>3
    <3>2. Again(y).id = IF At(q.kind, y.key) = {} THEN r
                        ELSE (CHOOSE x \in At(q.kind, y.key) : TRUE).id
      BY <3>1 DEF Record
    <3> QED
      BY <2>5, <3>1, <3>2 DEF Record
  <2> HIDE DEF Again
  <2>7. recs' \subseteq Record
    BY <1>2, <1>4, <2>6 DEF IInv, TypeInv
  <2>8. Unique(recs')
    <3>1. Unique(recs) /\ Unique(q.before)
      BY DEF IInv, ReadInv, Reads
    <3> QED
      BY <1>2, <1>4, <2>6, <3>1 DEF Unique
  <2>9. \A x \in recs' : x \in recs \/ \E y \in q.before : x = Again(y)
    BY <1>2, <1>4
  <2>10. \A x \in recs : x \in recs' \/ x.kind = q.kind
    BY <1>2, <1>4, <2>3
  <2>11. ParentsExist'
    BY <1>1, <1>2, <1>4, <2>1, <2>2, <2>3, <2>6, <2>9, <2>10, ReplacingKeepsParents DEF IInv
  <2>12. \A y \in recs' \ recs : y.kind = q.kind /\ (y.id = r \/ \E x \in recs : x.id = y.id)
    BY <2>3, <2>4, <2>6, <2>9
  <2> QED
    BY <1>2, <2>7, <2>8, <2>11, <2>12 DEF Effect
<1> QED
  BY <1>3, <1>4

\* Every step of a handler has such an effect.
LEMMA HandlerEffect ==
  ASSUME IInv, NEW r \in Requests, HandlerStep(r) PROVE Effect(r) /\ UNCHANGED <<kinds, project, alone>>
<1> USE DEF HandlerStep
<1>1. req[r] \in Request /\ r \in Active /\ Request \cap Ended = {}
  BY ActiveRequests, NoRequestEnded DEF IInv
<1>2. ASSUME NEW answer \in {"ok", "failed", "unsaved"}, Answer(r, answer) PROVE r \notin Active'
  BY <1>2 DEF Answer, Active, Done, IInv, TypeInv
<1>3. CASE WriteRejected(r)
  BY <1>1, <1>2, <1>3, RecsUnchanged DEF WriteRejected
<1>4. CASE WriteRecord(r)
  BY <1>1, <1>4, WriteRecordEffect DEF WriteRecord
<1>5. CASE ListForApply(r)
  BY <1>1, <1>5, RecsUnchanged DEF ListForApply
<1>6. CASE ApplyOk(r)
  BY <1>1, <1>6, RecsUnchanged DEF ApplyOk
<1>7. CASE ApplyFails(r)
  BY <1>1, <1>7, RecsUnchanged DEF ApplyFails
<1>8. CASE UndoByDelete(r)
  BY <1>1, <1>8, DeletingEffect DEF UndoByDelete
<1>9. CASE UndoByRestore(r)
  BY <1>1, <1>9, UndoByRestoreEffect DEF UndoByRestore
<1>10. CASE UndoByRebuild(r)
  BY <1>1, <1>10, UndoByRebuildEffect DEF UndoByRebuild
<1>11. CASE Recreate(r)
  BY <1>1, <1>11, RecreateEffect DEF Recreate
<1>12. CASE Lookup(r)
  BY <1>1, <1>12, RecsUnchanged DEF Lookup
<1>13. CASE RemoveOk(r)
  BY <1>1, <1>13, RecsUnchanged DEF RemoveOk
<1>14. CASE RemoveFails(r)
  BY <1>1, <1>14, RecsUnchanged DEF RemoveFails
<1>15. CASE DeleteRecord(r)
  <2>1. Target(req[r]) \in SUBSET At(req[r].kind, req[r].key)
    BY DEF Target
  <2>2. CASE Target(req[r]) = {}
    BY <1>1, <1>15, <2>2, RecsUnchanged DEF DeleteRecord
  <2>3. CASE Target(req[r]) # {}
    BY <1>1, <1>15, <2>1, <2>3, DeletingEffect DEF DeleteRecord
  <2> QED
    BY <2>2, <2>3
<1> QED
  BY <1>3, <1>4, <1>5, <1>6, <1>7, <1>8, <1>9, <1>10, <1>11, <1>12, <1>13, <1>14, <1>15

\* What a handler puts on the data plane is objects.
LEMMA PlaneTyped ==
  ASSUME TypeInv, NEW r \in Requests, HandlerStep(r) PROVE plane' \subseteq Object
<1>1. req[r] \in Request /\ r \in Active
  BY ActiveRequests DEF HandlerStep
<1>2. Applied(r) \subseteq Object
  <2>1. [kind |-> req[r].kind, key |-> req[r].key, val |-> r] \in Object
    BY <1>1 DEF Request, Object, Contents
  <2>2. Put([kind |-> req[r].kind, key |-> req[r].key, val |-> r]) \subseteq Object
    BY <2>1 DEF Put, TypeInv
  <2>3. req[r].list \subseteq Object
    BY <1>1 DEF Request
  <2> QED
    BY <2>2, <2>3 DEF Applied, Removed, TypeInv
<1>3. Removed(req[r].kind, req[r].key) \subseteq Object
  BY DEF Removed, TypeInv
<1> QED
  BY <1>2, <1>3 DEF HandlerStep, TypeInv, WriteRejected, WriteRecord, ListForApply, ApplyOk,
     ApplyFails, PartlyApplied, UndoByDelete, UndoByRestore, UndoByRebuild, Recreate, Lookup,
     RemoveOk, RemoveFails, DeleteRecord

\* A step of a handler keeps the invariant.
LEMMA HandlerIInv ==
  ASSUME IInv, NEW r \in Requests, HandlerStep(r) PROVE IInv'
<1> DEFINE q == req[r]
<1>1. PICK p : Onward(r, p)
  BY HandlersGoOn DEF IInv
<1>2. q \in Request /\ r \in Active
  BY ActiveRequests DEF IInv, HandlerStep
<1>3. Effect(r) /\ UNCHANGED <<kinds, project, alone>>
  BY HandlerEffect
<1>4. p \in Request \cup Ended
  BY <1>1 DEF Onward, Ended
<1>5. TypeInv'
  BY <1>1, <1>3, <1>4, PlaneTyped DEF Onward, Effect, IInv, TypeInv
<1>6. /\ req'[r] = p
      /\ \A s \in Requests \ {r} : req'[s] = req[s] /\ (s \in Active' <=> s \in Active)
      /\ r \in Active' => p \in Request
      /\ Active \subseteq Requests /\ Active' \subseteq Requests
  <2>1. req'[r] = p /\ \A s \in Requests \ {r} : req'[s] = req[s]
    BY <1>1 DEF Onward, IInv, TypeInv
  <2>2. \A x \in Ended : "kind" \notin DOMAIN x
    BY DEF Ended, New, Done
  <2> QED
    BY <1>4, <2>1, <2>2 DEF Active
<1>7. r \in Active' => /\ p.kind = q.kind /\ p.op = q.op /\ p.key = q.key /\ p.before = q.before
                       /\ p.pc # "store"
                       /\ p.pc \in Deleting => q.pc \in Deleting
                       /\ p.pc = "recreate" => ApiOf[p.kind].undo = "rebuild"
  <2>1. p \in Request => p \notin {Done("ok"), Done("failed"), Done("unsaved")}
    BY NoRequestEnded DEF Ended
  <2> QED
    BY <1>1, <1>6, <2>1 DEF Onward
<1>8. ReadInv'
  <2>1. r \in Active' => Reads(p)
    BY <1>2, <1>7 DEF IInv, ReadInv, Reads
  <2>2. \A s \in Active' : Reads(req'[s])
    BY <1>6, <2>1 DEF IInv, ReadInv
  <2>3. Unique(recs')
    BY <1>3 DEF Effect
  <2> QED
    BY <2>2, <2>3 DEF ReadInv, Unique, Reads
<1>9. \A s \in Requests : Spent(s) \/ s = r => Spent(s)'
  <2>1. p # New
    BY <1>1, NoRequestEnded DEF Onward, Ended, New, Done
  <2> QED
    BY <1>6, <1>7, <2>1 DEF Spent
<1>10. IdsInv'
  <2>1. \A x \in recs \cup q.before : x.id = Default \/ (x.id \in Requests /\ Spent(x.id))
    BY <1>2 DEF IInv, IdsInv, TypeInv, Record, Contents, Request
  <2>2. \A x \in recs' : x.id = Default \/ Spent(x.id)'
    BY <1>3, <1>9, <2>1 DEF Effect
  <2>3. \A s \in Active : \A x \in req[s].before : x.id = Default \/ (x.id \in Requests /\ Spent(x.id))
    BY <1>6, ActiveRequests DEF IInv, IdsInv, TypeInv, Record, Contents, Request
  <2>4. \A s \in Active' : \A x \in req'[s].before : x.id = Default \/ Spent(x.id)'
    BY <1>2, <1>6, <1>7, <1>9, <2>3
  <2> QED
    BY <2>2, <2>4 DEF IdsInv
<1>11. NewerInv'
  <2>1. q.pc = "store" => \A s \in Active : \A x \in req[s].before : x.id # r
    BY <1>2, DefaultAssumption DEF IInv, IdsInv, Spent
  <2> SUFFICES ASSUME NEW s \in Active', req'[s].op = "write", ApiOf[req'[s].kind].undo = "delete",
                      req'[s].pc # "store", NEW y \in recs', y.kind = req'[s].kind, y.key = req'[s].key,
                      NEW x \in req'[s].before
               PROVE  y.id # x.id
    BY DEF NewerInv, Newer, At
  <2>2. s \in Active /\ req'[s].kind = req[s].kind /\ req'[s].op = req[s].op
          /\ req'[s].key = req[s].key /\ req'[s].before = req[s].before
    BY <1>2, <1>6, <1>7
  <2>3. CASE y \notin recs
    BY <1>3, <2>1, <2>2, <2>3 DEF Effect
  <2>4. CASE y \in recs /\ req[s].pc # "store"
    BY <2>2, <2>4 DEF IInv, NewerInv, Newer, At
  <2>5. CASE y \in recs /\ req[s].pc = "store"
    <3>1. s = r
      BY <1>6, <2>5
    <3> QED
      BY <1>3, <2>2, <2>5, <3>1 DEF Effect, At
  <2> QED
    BY <2>3, <2>4, <2>5
<1> QED
  BY <1>3, <1>5, <1>8, <1>10, <1>11 DEF IInv, Effect

\* A request that begins keeps the invariant: what it reads is what is there.
LEMMA BeginIInv ==
  ASSUME IInv, NEW r \in Requests, NEW k \in kinds, NEW op \in {"write", "delete"}, NEW key \in Keys(k),
         NEW id \in Contents, NEW pc \in {"store"} \cup Deleting,
         pc = "store" <=> op = "write", op = "delete" => ApiOf[k].delete # "none",
         Begin(r, k, op, key, id, pc)
  PROVE  IInv'
<1> DEFINE p == [pc |-> pc, op |-> op, kind |-> k, key |-> key, id |-> id,
                 before |-> OfKind(k), list |-> {}]
<1>1. /\ req[r] = New /\ req' = [req EXCEPT ![r] = p]
      /\ UNCHANGED <<kinds, project, recs, plane>>
      /\ alone' \in [Requests -> BOOLEAN]
  <2>1. alone' = [s \in Requests |->
                 IF s = r THEN Active = {} /\ project = "up" ELSE alone[s] /\ s \notin Active]
    BY DEF Begin
  <2>2. alone' \in [Requests -> BOOLEAN]
    BY <2>1, Zenon DEF IInv, TypeInv
  <2> QED
    BY <2>2 DEF Begin
<1>2. p \in Request
  BY KeysAreKeys DEF IInv, TypeInv, Request, OfKind, Record, Deleting
<1>3. /\ p.kind = k /\ p.op = op /\ p.key = key /\ p.before = OfKind(k) /\ p.pc = pc
  OBVIOUS
<1> HIDE DEF p
<1>4. TypeInv'
  BY <1>1, <1>2 DEF IInv, TypeInv
<1>5. /\ req'[r] = p /\ r \notin Active
      /\ \A s \in Requests \ {r} : req'[s] = req[s] /\ (s \in Active' <=> s \in Active)
      /\ Active \subseteq Requests /\ Active' \subseteq Requests
  BY <1>1 DEF Active, IInv, TypeInv, New
<1>6. ReadInv'
  <2>1. Reads(p)
    BY <1>3 DEF Reads, IInv, ReadInv, Unique, OfKind, Deleting
  <2>2. \A s \in Active' : Reads(req'[s])
    BY <1>5, <2>1 DEF IInv, ReadInv
  <2> QED
    BY <1>1, <2>2 DEF ReadInv, Unique, Reads, IInv
<1>7. \A s \in Requests : Spent(s) => Spent(s)'
  BY <1>1, <1>5 DEF Spent
<1>8. IdsInv'
  <2>1. \A x \in recs : x.id = Default \/ (x.id \in Requests /\ Spent(x.id))
    BY DEF IInv, IdsInv, TypeInv, Record, Contents
  <2>2. \A s \in Active : \A x \in req[s].before : x.id = Default \/ (x.id \in Requests /\ Spent(x.id))
    BY <1>5, ActiveRequests DEF IInv, IdsInv, TypeInv, Record, Contents, Request
  <2>3. \A s \in Active' : \A x \in req'[s].before : x.id = Default \/ Spent(x.id)'
    BY <1>3, <1>5, <1>7, <2>1, <2>2 DEF OfKind
  <2> QED
    BY <1>1, <1>7, <2>1, <2>3 DEF IdsInv
<1>9. NewerInv'
  BY <1>1, <1>3, <1>5 DEF IInv, NewerInv, Newer, At, Deleting
<1>10. ParentsExist'
  BY <1>1 DEF IInv, ParentsExist, NeedsMet, OfKind
<1> QED
  BY <1>4, <1>6, <1>8, <1>9, <1>10 DEF IInv

\* A running project to begin with.
LEMMA InitIInv == Init => IInv
<1> SUFFICES ASSUME Init PROVE IInv
  OBVIOUS
<1>1. PICK have \in SUBSET kinds :
        /\ \A k \in have : StoreOf[k].needs \subseteq have
        /\ recs = {[kind |-> k, key |-> FirstKey(k), id |-> Default, val |-> Default] : k \in have}
  BY DEF Init
<1>2. kinds \subseteq Kinds
  BY FamiliesAssumption DEF Init
<1>3. \A k \in Kinds : FirstKey(k) \in Keys(k) /\ FirstKey(k) \in AllKeys
  <2>1. \A k \in Kinds : FirstKey(k) \in Keys(k)
    BY StoreRows DEF FirstKey, Keys, Configs
  <2> QED
    BY <2>1, KeysAreKeys
<1>4. recs \subseteq Record /\ Unique(recs) /\ \A x \in recs : x.id = Default
  BY <1>1, <1>2, <1>3 DEF Record, Contents, Unique
<1>5. Active = {}
  BY DEF Init, Active, New
<1>6. TypeInv
  <2>1. plane \subseteq Object
    BY <1>4 DEF Init, Objects, AsObject, Object, Record
  <2> QED
    BY <1>2, <1>4, <2>1 DEF Init, TypeInv, Ended
<1>7. ParentsExist
  <2>1. ASSUME NEW x \in recs, NEW n \in StoreOf[x.kind].needs PROVE OfKind(n) # {}
    <3>1. x.kind \in have
      BY <1>1
    <3>2. n \in have
      BY <1>1, <2>1, <3>1
    <3>3. [kind |-> n, key |-> FirstKey(n), id |-> Default, val |-> Default] \in recs
      BY <1>1, <3>2
    <3> QED
      BY <3>3 DEF OfKind
  <2>2. project # "gone"
    BY DEF Init
  <2> QED
    BY <2>1, <2>2 DEF ParentsExist, NeedsMet
<1> QED
  BY <1>4, <1>5, <1>6, <1>7 DEF IInv, ReadInv, IdsInv, NewerInv

\* The steps that are not a handler's: what is left of the requests, and a
\* project whose records go all at once.
LEMMA OtherIInv ==
  ASSUME IInv, TypeInv', UNCHANGED kinds,
         \/ recs' = recs /\ project' # "gone"
         \/ recs' = {}
         \/ UNCHANGED <<recs, project>>,
         \A s \in Requests : req'[s] = req[s] \/ (req'[s] = Done("lost") /\ req[s] # New)
  PROVE  IInv'
<1>1. /\ Active' \subseteq Active /\ Active \subseteq Requests
      /\ \A s \in Active' : req'[s] = req[s]
      /\ \A s \in Requests : Spent(s) => Spent(s)'
  BY DEF Active, Done, Spent, New
<1>2. recs' \subseteq recs
  OBVIOUS
<1>3. ReadInv'
  BY <1>1, <1>2 DEF IInv, ReadInv, Unique, Reads
<1>4. IdsInv'
  <2>1. \A x \in recs : x.id = Default \/ (x.id \in Requests /\ Spent(x.id))
    BY DEF IInv, IdsInv, TypeInv, Record, Contents
  <2>2. \A s \in Active : \A x \in req[s].before : x.id = Default \/ (x.id \in Requests /\ Spent(x.id))
    BY <1>1, ActiveRequests DEF IInv, IdsInv, TypeInv, Record, Contents, Request
  <2> QED
    BY <1>1, <1>2, <2>1, <2>2 DEF IdsInv
<1>5. NewerInv'
  BY <1>1, <1>2 DEF IInv, NewerInv, Newer, At
<1>6. ParentsExist'
  BY DEF IInv, ParentsExist, NeedsMet, OfKind
<1> QED
  BY <1>3, <1>4, <1>5, <1>6 DEF IInv

\* A restart keeps it: what it loads was the store once, and no request is left.
LEMMA CrashIInv ==
  ASSUME IInv, SavedInv, Crash PROVE IInv'
<1>1. /\ req' = [r \in Requests |-> IF r \in Active THEN Done("lost") ELSE req[r]]
      /\ recs' = saved.recs /\ UNCHANGED <<kinds, plane, alone>>
      /\ project' = IF project = "gone" /\ saved.there THEN "destroyed" ELSE project
  BY DEF Crash
<1>2. Active' = {}
  BY <1>1 DEF Active, Done
<1>3. TypeInv'
  BY <1>1 DEF IInv, SavedInv, TypeInv, Ended
<1>4. ReadInv' /\ NewerInv'
  BY <1>1, <1>2 DEF SavedInv, ReadInv, NewerInv, Unique
<1>5. ParentsExist'
  BY <1>1 DEF SavedInv, Whole, ParentsExist, NeedsMet, OfKind
<1>6. \A s \in Requests : Spent(s) => Spent(s)'
  BY <1>1, <1>2 DEF Spent, Active, Done, New
<1>7. \A x \in saved.recs : x.id = Default \/ (x.id \in Requests /\ Spent(x.id))
  BY DEF SavedInv, Record, Contents
<1>8. IdsInv'
  BY <1>1, <1>2, <1>6, <1>7 DEF IdsInv
<1> QED
  BY <1>3, <1>4, <1>5, <1>8 DEF IInv

\* Every step keeps the invariant.
LEMMA NextIInv == IInv /\ SavedInv /\ [Next]_vars => IInv'
<1> SUFFICES ASSUME IInv, SavedInv, [Next]_vars PROVE IInv'
  OBVIOUS
<1>1. ASSUME NEW r \in Requests, NEW k \in kinds, NEW key \in Keys(k), BeginWrite(r, k, key) PROVE IInv'
  <2>1. r \in Contents
    BY DEF Contents
  <2> QED
    BY <1>1, <2>1, BeginIInv DEF BeginWrite
<1>2. ASSUME NEW r \in Requests, NEW k \in kinds, NEW x \in recs, BeginDelete(r, k, x) PROVE IInv'
  <2> DEFINE pc == CASE ApiOf[k].delete = "lookup" -> "lookup"
                     [] ApiOf[k].delete = "planeFirst" -> "remove"
                     [] OTHER -> "delete"
  <2>1. Begin(r, k, "delete", x.key, x.id, pc) /\ ApiOf[k].delete # "none" /\ x.kind = k
    BY <1>2 DEF BeginDelete
  <2>2. pc \in Deleting
    BY DEF Deleting
  <2>3. x.id \in Contents /\ x.key \in Keys(k)
    BY <2>1 DEF IInv, TypeInv, ReadInv, Unique, Record
  <2> HIDE DEF pc
  <2>4. pc # "store" /\ pc \in {"store"} \cup Deleting
    BY <2>2 DEF Deleting
  <2> QED
    BY <2>1, <2>3, <2>4, BeginIInv
<1>3. ASSUME NEW r \in Requests, HandlerStep(r) PROVE IInv'
  BY <1>3, HandlerIInv
<1>4. CASE DestroyRuntime
  <2>1. alone' \in [Requests -> BOOLEAN]
    BY <1>4, Zenon DEF DestroyRuntime, IInv, TypeInv
  <2>2. TypeInv'
    BY <1>4, <2>1 DEF DestroyRuntime, IInv, TypeInv
  <2> QED
    BY <1>4, <2>2, OtherIInv DEF DestroyRuntime
<1>5. CASE DeleteProject
  <2>1. TypeInv'
    BY <1>5 DEF DeleteProject, IInv, TypeInv
  <2> QED
    BY <1>5, <2>1, OtherIInv DEF DeleteProject
<1>6. CASE Crash
  BY <1>6, CrashIInv
<1>8. CASE SaveElsewhere
  <2>1. TypeInv'
    BY <1>8 DEF SaveElsewhere, IInv, TypeInv
  <2> QED
    BY <1>8, <2>1, OtherIInv DEF SaveElsewhere
<1>7. CASE UNCHANGED vars
  <2>1. TypeInv'
    BY <1>7 DEF vars, IInv, TypeInv
  <2> QED
    BY <1>7, <2>1, OtherIInv DEF vars
<1> QED
  BY <1>1, <1>2, <1>3, <1>4, <1>5, <1>6, <1>7, <1>8 DEF Next

\* What a step saves, it saves whole; only a restart brings the project back.
LEMMA SavingSteps ==
  ASSUME [Next]_vars, failedSaves \in Nat
  PROVE  /\ saved' = saved \/ saved' = Image'
         /\ failedSaves' \in Nat
         /\ project = "gone" /\ project' # "gone" => UNCHANGED saved /\ saved.there
<1>1. ASSUME NEW r, HandlerStep(r) PROVE /\ saved' = saved \/ saved' = Image'
                                        /\ failedSaves' \in Nat
                                        /\ UNCHANGED project
  BY <1>1 DEF HandlerStep, WriteRejected, WriteRecord, ListForApply, ApplyOk, ApplyFails,
     UndoByDelete, UndoByRestore, UndoByRebuild, Recreate, Lookup, RemoveOk, RemoveFails,
     DeleteRecord, Checkpoint, Save, SaveFails
<1>2. ASSUME NEW r, NEW k, NEW op, NEW key, NEW id, NEW pc, Begin(r, k, op, key, id, pc)
      PROVE  UNCHANGED <<project, saved, failedSaves>>
  BY <1>2 DEF Begin
<1>3. CASE DestroyRuntime
  BY <1>3 DEF DestroyRuntime
<1>4. CASE DeleteProject
  BY <1>4 DEF DeleteProject, Save, SaveFails
<1>5. CASE SaveElsewhere
  BY <1>5 DEF SaveElsewhere, Image
<1>6. CASE Crash
  BY <1>6 DEF Crash
<1>7. CASE UNCHANGED vars
  BY <1>7 DEF vars
<1> QED
  BY <1>1, <1>2, <1>3, <1>4, <1>5, <1>6, <1>7 DEF Next, BeginWrite, BeginDelete

\* A request that has written will not write again.
LEMMA SpentStays ==
  ASSUME IInv, [Next]_vars, NEW s \in Requests, Spent(s) PROVE Spent(s)'
<1>1. ASSUME NEW r \in Requests, HandlerStep(r) PROVE Spent(s)'
  <2>1. PICK p : Onward(r, p)
    BY <1>1, HandlersGoOn DEF IInv
  <2>2. p # New
    BY <2>1, NoRequestEnded DEF Onward, Ended, New, Done
  <2>3. p \in Request => p.pc # "store"
    BY <2>1, NoRequestEnded DEF Onward, Ended
  <2>4. "kind" \in DOMAIN p => p \in Request
    BY <2>1 DEF Onward, Done
  <2>5. req'[r] = p /\ \A t \in Requests \ {r} : req'[t] = req[t]
    BY <2>1 DEF Onward, IInv, TypeInv
  <2> QED
    BY <2>2, <2>3, <2>4, <2>5 DEF Spent, Active
<1>2. ASSUME NEW r \in Requests, NEW k, NEW op, NEW key, NEW id, NEW pc,
             Begin(r, k, op, key, id, pc)
      PROVE  Spent(s)'
  <2>1. r # s /\ req'[s] = req[s]
    BY <1>2 DEF Begin, Spent, IInv, TypeInv
  <2> QED
    BY <2>1 DEF Spent, Active
<1>3. CASE DestroyRuntime \/ DeleteProject \/ SaveElsewhere \/ UNCHANGED vars
  BY <1>3 DEF DestroyRuntime, DeleteProject, SaveElsewhere, vars, Spent, Active
<1>4. CASE Crash
  BY <1>4 DEF Crash, Spent, Active, Done, New
<1> QED
  BY <1>1, <1>2, <1>3, <1>4 DEF Next, BeginWrite, BeginDelete

\* What was last saved stays a store like any other.
LEMMA NextSaved == IInv /\ SavedInv /\ [Next]_vars => SavedInv'
<1> SUFFICES ASSUME IInv, SavedInv, [Next]_vars PROVE SavedInv'
  OBVIOUS
<1>1. IInv' /\ failedSaves' \in Nat
  BY NextIInv, SavingSteps DEF SavedInv
<1>2. CASE saved' = Image'
  <2>1. /\ saved'.there = (project' # "gone") /\ saved'.recs = recs'
        /\ saved' \in [there : BOOLEAN, recs : SUBSET Record]
    BY <1>1, <1>2 DEF Image, IInv, TypeInv
  <2>2. Unique(recs') /\ Whole(recs')
    BY <1>1 DEF IInv, ReadInv, Unique, ParentsExist, Whole, NeedsMet, OfKind
  <2> QED
    BY <1>1, <2>1, <2>2 DEF SavedInv, IInv, ParentsExist, IdsInv, Unique, Whole
<1>3. CASE saved' = saved
  <2>1. project' # "gone" => saved.there
    BY SavingSteps DEF SavedInv
  <2>2. \A x \in saved.recs : x.id = Default \/ (x.id \in Requests /\ Spent(x.id))
    BY DEF SavedInv, Record, Contents
  <2>3. \A x \in saved.recs : x.id = Default \/ Spent(x.id)'
    BY <2>2, SpentStays
  <2> QED
    BY <1>1, <1>3, <2>1, <2>3 DEF SavedInv, Unique, Whole
<1> QED
  BY <1>2, <1>3, SavingSteps DEF SavedInv

\* To begin with the store is saved.
LEMMA InitSaved == Init => SavedInv
<1> SUFFICES ASSUME Init PROVE SavedInv
  OBVIOUS
<1>1. IInv /\ saved = Image /\ failedSaves = 0 /\ project = "up"
  BY InitIInv DEF Init
<1>2. saved.there = TRUE /\ saved.recs = recs /\ saved \in [there : BOOLEAN, recs : SUBSET Record]
  BY <1>1 DEF Image, IInv, TypeInv
<1> QED
  BY <1>1, <1>2 DEF SavedInv, IInv, ReadInv, ParentsExist, NeedsMet, OfKind, Whole, IdsInv

\* The invariant.
LEMMA Invariance == Spec => [](IInv /\ SavedInv)
  BY InitIInv, InitSaved, NextIInv, NextSaved, PTL DEF Spec

-----------------------------------------------------------------------------
(* Theorems. *)

\* A request that is answered is answered by its own handler or lost in a crash.
LEMMA AnsweredByHandler ==
  ASSUME IInv, [Next]_vars, NEW r \in Active, NEW answer \in {"ok", "failed", "unsaved"}, req'[r] = Done(answer)
  PROVE  HandlerStep(r)
<1>1. r \in Requests /\ req[r] \in Request /\ req[r] # Done(answer) /\ req[r] # New
  BY ActiveRequests, NoRequestEnded DEF IInv, Active, Ended
<1>2. ASSUME NEW s \in Requests, NEW p, req' = [req EXCEPT ![s] = p] PROVE s = r
  BY <1>1, <1>2 DEF IInv, TypeInv
<1>3. ASSUME NEW s \in Requests, NEW k, NEW op, NEW key, NEW id, NEW pc, Begin(s, k, op, key, id, pc)
      PROVE  FALSE
  BY <1>1, <1>2, <1>3 DEF Begin
<1>4. ASSUME NEW s \in Requests, HandlerStep(s) PROVE s = r
  <2>1. PICK p : Onward(s, p)
    BY <1>4, HandlersGoOn DEF IInv
  <2> QED
    BY <1>2, <2>1 DEF Onward
<1>5. ~ Crash /\ ~ DestroyRuntime /\ ~ DeleteProject /\ ~ SaveElsewhere /\ ~ UNCHANGED vars
  BY <1>1 DEF Crash, DestroyRuntime, DeleteProject, SaveElsewhere, vars, Done
<1>6. PICK s \in Requests : HandlerStep(s)
  BY <1>3, <1>5 DEF Next, BeginWrite, BeginDelete
<1> QED
  BY <1>4, <1>6

\* The family of kinds a behaviour is about, and the requests that belong to it.
FamilyInv == kinds \in Families /\ \A r \in Active : req[r].kind \in kinds

LEMMA NextFamily == IInv /\ FamilyInv /\ [Next]_vars => FamilyInv'
<1> SUFFICES ASSUME IInv, FamilyInv, [Next]_vars PROVE FamilyInv'
  OBVIOUS
<1>0. TypeInv /\ req \in [Requests -> Request \cup Ended]
  BY DEF IInv, TypeInv
<1>1. ASSUME NEW r \in Requests, NEW q, UNCHANGED kinds, req' = [req EXCEPT ![r] = q],
             "kind" \in DOMAIN q => q.kind \in kinds
      PROVE  FamilyInv'
  <2>1. req'[r] = q /\ \A s \in Requests \ {r} : req'[s] = req[s]
    BY <1>0, <1>1
  <2> QED
    BY <1>1, <2>1 DEF FamilyInv, Active
<1>2. ASSUME NEW r \in Requests, HandlerStep(r) PROVE FamilyInv'
  <2>1. UNCHANGED kinds /\ r \in Active
    BY <1>2, HandlerEffect DEF HandlerStep
  <2>2. PICK p : Onward(r, p)
    BY <1>0, <1>2, HandlersGoOn
  <2>3. "kind" \in DOMAIN p => p.kind \in kinds
    <3>1. \A answer : "kind" \notin DOMAIN Done(answer)
      BY DEF Done
    <3>2. p \in {Done("ok"), Done("failed"), Done("unsaved")} \/ p.kind = req[r].kind
      BY <2>2, Zenon DEF Onward
    <3>3. req[r].kind \in kinds
      BY <2>1 DEF FamilyInv
    <3> QED
      BY <3>1, <3>2, <3>3
  <2> QED
    BY <1>1, <2>1, <2>2, <2>3 DEF Onward
<1>3. ASSUME NEW r \in Requests, NEW k, NEW op, NEW key, NEW id, NEW pc, Begin(r, k, op, key, id, pc)
      PROVE  FamilyInv'
  <2> DEFINE p == [pc |-> pc, op |-> op, kind |-> k, key |-> key, id |-> id,
                   before |-> OfKind(k), list |-> {}]
  <2>1. UNCHANGED kinds /\ k \in kinds /\ req' = [req EXCEPT ![r] = p]
    BY <1>3 DEF Begin
  <2>2. p.kind = k
    OBVIOUS
  <2> HIDE DEF p
  <2> QED
    BY <1>1, <2>1, <2>2
<1>4. CASE DestroyRuntime \/ DeleteProject \/ SaveElsewhere \/ Crash \/ UNCHANGED vars
  <2>1. UNCHANGED kinds /\ \A s \in Requests : req'[s] = req[s] \/ req'[s] = Done("lost")
    BY <1>0, <1>4 DEF DestroyRuntime, DeleteProject, SaveElsewhere, Crash, vars
  <2>2. "kind" \notin DOMAIN Done("lost")
    BY DEF Done
  <2> QED
    BY <2>1, <2>2 DEF FamilyInv, Active
<1> QED
  BY <1>2, <1>3, <1>4 DEF Next, BeginWrite, BeginDelete

\* The records of a kind are a map of the store, of the kinds and names it has,
\* and every request in progress is one about them.
THEOREM RecordsAreMaps == Spec => []TypeOK
<1>1. Init => FamilyInv
  BY DEF Init, FamilyInv, Active, New
<1>2. IInv /\ SavedInv /\ FamilyInv => TypeOK
  <2> SUFFICES ASSUME IInv, SavedInv, FamilyInv PROVE TypeOK
    OBVIOUS
  <2>1. ASSUME NEW r \in Requests, req[r] \in Request
        PROVE  /\ DOMAIN req[r] = {"pc", "op", "kind", "key", "id", "before", "list"}
               /\ req[r].kind \in kinds /\ req[r].before \subseteq Record
    BY <2>1, ActiveRequests DEF IInv, FamilyInv, Request
  <2> QED
    BY <2>1 DEF IInv, SavedInv, TypeInv, ReadInv, Unique, FamilyInv, TypeOK, Ended
<1> QED
  BY Invariance, <1>1, <1>2, NextFamily, PTL DEF Spec

\* No record outlives what it refers to, for every number of requests and every
\* family of kinds.
THEOREM ParentsAlwaysExist == Spec => []ParentsExist
  BY Invariance, PTL DEF IInv

\* A rollback by name takes the record under the name, which is newer.
LEMMA RollbackStep ==
  ASSUME IInv, [Next]_vars, NEW r \in Requests,
         r \in Active, req[r].pc = "undo", req[r].op = "write", ApiOf[req[r].kind].undo = "delete",
         Finishes(r, "failed"), NEW x \in req[r].before, NEW y \in recs \ recs', y.kind = x.kind
  PROVE  y.id # x.id
<1> DEFINE q == req[r]
<1>1. q.kind \in Kinds /\ x.kind = q.kind
  BY ActiveRequests DEF IInv, ReadInv, Reads, Request
<1>2. HandlerStep(r)
  BY AnsweredByHandler DEF Finishes
<1>3. recs' = Without(At(q.kind, q.key))
  BY <1>2 DEF HandlerStep, WriteRejected, WriteRecord, ListForApply, ApplyOk, ApplyFails,
     UndoByDelete, UndoByRestore, UndoByRebuild, Recreate, Lookup, RemoveOk, RemoveFails, DeleteRecord
<1>4. q.kind \notin StoreOf[q.kind].drops
  BY <1>1, StoreRows, References
<1>5. y \in At(q.kind, q.key)
  <2>1. y.kind \notin UNION {StoreOf[z.kind].drops : z \in At(q.kind, q.key)}
    BY <1>1, <1>4 DEF At
  <2> QED
    BY <1>3, <2>1 DEF Without
<1> QED
  BY <1>5 DEF IInv, NewerInv, Newer

\* A failed create takes nothing with it that was there before it began.
THEOREM RollbacksSpareOlder == Spec => RollbackSparesOlder
<1>1. IInv /\ [Next]_vars =>
        [\A r \in Requests :
          r \in Active /\ req[r].pc = "undo" /\ req[r].op = "write"
          /\ ApiOf[req[r].kind].undo = "delete" /\ Finishes(r, "failed") =>
            \A x \in req[r].before : \A y \in recs \ recs' : y.kind = x.kind => y.id # x.id]_vars
  BY RollbackStep
<1> QED
  BY <1>1, Invariance, PTL DEF Spec, RollbackSparesOlder

-----------------------------------------------------------------------------
(* Requests with nothing beside them. *)

Others(S, key) == {x \in S : x.key # key}

\* A write on its own has read what is there; from then on only the record under
\* its name differs, and where a name that is taken is refused there was none.
LoneWrite(q) ==
  /\ q.pc = "store" => OfKind(q.kind) = q.before
  /\ q.pc \in {"list", "apply", "undo"} =>
       /\ Others(OfKind(q.kind), q.key) = Others(q.before, q.key)
       /\ StoreOf[q.kind].write = "conflict" => \A x \in q.before : x.key # q.key

\* A delete on its own finds its record.  Where the object is removed first, it
\* is gone by the time the record is deleted; where the record goes first, it
\* and what goes with it are gone by the time the deletion is applied.
LoneDelete(q) ==
  /\ q.pc \in Deleting => OfKind(q.kind) = q.before /\ \E x \in q.before : x.key = q.key
  /\ q.pc = "delete" /\ ApiOf[q.kind].delete \in {"lookup", "planeFirst"} =>
       \A o \in plane : o.kind # q.kind \/ o.key # q.key
  /\ q.pc \notin Deleting => ApiOf[q.kind].delete = "recordFirst"
  /\ q.pc \in {"list", "apply"} =>
       At(q.kind, q.key) = {} /\ \A d \in StoreOf[q.kind].drops : OfKind(d) = {}

LoneRequest(q) ==
  /\ q.op = "write" => LoneWrite(q)
  /\ q.op = "delete" => LoneDelete(q)
  /\ q.pc = "apply" /\ ApiOf[q.kind].apply = "list" => q.list = Objects(OfKind(q.kind))
  /\ q.pc = "recreate" => OfKind(q.kind) = {}
  /\ q.kind = "database_extensions" => \E x \in q.before : x.key = "known"

LoneInv ==
  \A r \in Active : alone[r] => Active = {r} /\ project = "up" /\ LoneRequest(req[r])

\* An extension always has a state, the default one to begin with.
ExtensionInv ==
  project # "gone" /\ "database_extensions" \in kinds => At("database_extensions", "known") # {}

SavedExtension ==
  saved.there /\ "database_extensions" \in kinds =>
    \E x \in saved.recs : x.kind = "database_extensions" /\ x.key = "known"

\* A request on its own that has come past the store is saved.
LoneSaved == \A r \in Active : alone[r] /\ req[r].pc \in {"list", "apply"} => saved = Image

AtomicInv == IInv /\ SavedInv /\ ExtensionInv /\ SavedExtension /\ LoneInv /\ LoneSaved

\* The rows of the tables on which this rests.
LEMMA ExtensionRows ==
  /\ Keys("database_extensions") = {"known"} /\ "database_extensions" \in Kinds
  /\ ApiOf["database_extensions"].delete = "none"
  /\ ApiOf["database_extensions"].undo = "restore"
  BY KindNames DEF AllKinds, Keys, StoreOf, ApiOf, Stored, Served, StoreDatabaseExtensions,
     ApiDatabaseExtensions, Configs

\* What the handlers do around a delete.
LEMMA DeleteRows ==
  /\ \A k \in {"database_cron_jobs", "database_queues", "database_webhooks",
               "database_roles", "database_schemas", "storage_buckets"} :
       ApiOf[k].delete # "recordFirst" /\ ApiOf[k].apply = "object"
  /\ ApiOf["functions"].delete = "recordFirst"
  /\ ApiOf["runtime_config"].delete = "none"
  BY DEF ApiOf, Served, ApiDatabaseCronJobs, ApiDatabaseQueues, ApiDatabaseWebhooks,
     ApiDatabaseRoles, ApiDatabaseSchemas, ApiStorageBuckets, ApiFunctions, ApiRuntimeConfig,
     ApplyDatabaseWebhooks, ApplyDatabaseRoles, ApplyStorageBuckets, ApplyFunctions

\* No step of a handler leaves the extension without a state.
LEMMA ExtensionStays ==
  ASSUME IInv, NEW r \in Requests, HandlerStep(r), NEW x \in At("database_extensions", "known")
  PROVE  \E y \in recs' : y.kind = "database_extensions" /\ y.key = "known"
<1> DEFINE q == req[r]
           e == "database_extensions"
<1>1. q \in Request /\ q.kind \in Kinds /\ r \in Active /\ x \in recs /\ x.kind = e /\ x.key = "known"
  BY ActiveRequests DEF IInv, HandlerStep, Request, At
<1>2. \A k \in Kinds : e \notin StoreOf[k].drops
  BY StoreRows, References
<1>3. ASSUME NEW xs \in SUBSET At(q.kind, q.key), recs' = Without(xs), q.kind # e PROVE x \in recs'
  <2>1. x \notin xs
    BY <1>1, <1>3 DEF At
  <2>2. x.kind \notin UNION {StoreOf[z.kind].drops : z \in xs}
    BY <1>1, <1>2, <1>3 DEF At
  <2> QED
    BY <1>1, <1>3, <2>1, <2>2 DEF Without
<1>4. CASE WriteRecord(r)
  <2>1. recs' = Written(q.kind, q.key, r, r)
    BY <1>4 DEF WriteRecord
  <2> DEFINE n == [kind |-> q.kind, key |-> q.key, val |-> r,
                   id |-> IF At(q.kind, q.key) = {} THEN r
                          ELSE (CHOOSE z \in At(q.kind, q.key) : TRUE).id]
  <2>2. CASE x \in At(q.kind, q.key)
    <3>1. n \in recs'
      BY <2>1 DEF Written
    <3>2. n.kind = q.kind /\ n.key = q.key /\ x.kind = q.kind /\ x.key = q.key
      BY <2>2 DEF At
    <3> HIDE DEF n
    <3> QED
      BY <1>1, <3>1, <3>2
  <2>3. CASE x \notin At(q.kind, q.key)
    BY <1>1, <2>1, <2>3 DEF Written
  <2> QED
    BY <2>2, <2>3
<1>5. CASE UndoByDelete(r)
  BY <1>1, <1>3, <1>5, UndoRows DEF UndoByDelete
<1>6. CASE UndoByRestore(r)
  <2> DEFINE old == {y \in q.before : q.kind \in Configs \/ y.key = q.key}
  <2>1. recs' = IF project = "gone" THEN recs
                ELSE {z \in recs : \A y \in old : z.kind # y.kind \/ z.key # y.key} \cup old
    BY <1>6 DEF UndoByRestore
  <2> HIDE DEF old
  <2> QED
    BY <1>1, <2>1
<1>7. CASE UndoByRebuild(r)
  BY <1>1, <1>7, UndoRows DEF UndoByRebuild, OfKind
<1>8. CASE Recreate(r)
  <2>1. q.kind = "auth_hooks" /\ \A y \in q.before : y.kind = q.kind
    BY <1>1, <1>8, UndoRows DEF IInv, ReadInv, Reads, Recreate
  <2>2. x \in recs'
    BY <1>1, <1>8, <2>1 DEF Recreate
  <2> QED
    BY <1>1, <2>2
<1>9. CASE DeleteRecord(r)
  <2>1. q.kind # e
    BY <1>1, <1>9, ExtensionRows DEF IInv, ReadInv, Reads, DeleteRecord, Deleting
  <2>2. Target(q) \in SUBSET At(q.kind, q.key)
    BY DEF Target
  <2>3. recs' = recs \/ recs' = Without(Target(q))
    BY <1>9 DEF DeleteRecord
  <2> QED
    BY <1>1, <1>3, <2>1, <2>2, <2>3
<1>10. CASE UNCHANGED recs
  BY <1>1, <1>10
<1> QED
  BY <1>4, <1>5, <1>6, <1>7, <1>8, <1>9, <1>10 DEF HandlerStep, WriteRejected, ListForApply,
     ApplyOk, ApplyFails, Lookup, RemoveOk, RemoveFails

\* Where the records of a kind are once a lone request has written its own.
LEMMA WrittenOthers ==
  ASSUME NEW r, NEW k, NEW key, recs' = Written(k, key, r, r)
  PROVE  Others(OfKind(k)', key) = Others(OfKind(k), key)
<1> DEFINE n == [kind |-> k, key |-> key, val |-> r,
                 id |-> IF At(k, key) = {} THEN r
                        ELSE (CHOOSE x \in At(k, key) : TRUE).id]
<1>1. recs' = (recs \ At(k, key)) \cup {n}
  BY DEF Written
<1>2. n.key = key
  OBVIOUS
<1> HIDE DEF n
<1>3. ASSUME NEW x PROVE x \in Others(OfKind(k)', key) <=> x \in Others(OfKind(k), key)
  BY <1>1, <1>2 DEF Others, OfKind, At
<1> QED
  BY <1>3 DEF Others, OfKind

\* A delete of one record leaves nothing under its name, nothing of the kinds
\* that go with it, and the rest of the kind.
LEMMA WithoutTarget ==
  ASSUME NEW k \in Kinds, NEW key, NEW xs, recs' = Without(xs), xs = At(k, key)
  PROVE  /\ At(k, key)' = {}
         /\ OfKind(k)' = Others(OfKind(k), key)
         /\ xs # {} => \A d \in StoreOf[k].drops : OfKind(d)' = {}
<1> DEFINE dropped == UNION {StoreOf[x.kind].drops : x \in xs}
<1>1. \A x \in xs : x.kind = k
  BY DEF At
<1>2. recs' = {x \in recs \ xs : x.kind \notin dropped}
  BY DEF Without
<1>3. k \notin dropped
  BY <1>1, StoreRows, References
<1>4. xs # {} => \A d \in StoreOf[k].drops : d \in dropped
  BY <1>1
<1> HIDE DEF dropped
<1>5. At(k, key)' = {}
  BY <1>2 DEF At
<1>6. ASSUME NEW x PROVE x \in OfKind(k)' <=> x \in Others(OfKind(k), key)
  BY <1>2, <1>3 DEF OfKind, Others, At
<1>7. OfKind(k)' = Others(OfKind(k), key)
  BY <1>6 DEF OfKind, Others
<1>8. xs # {} => \A d \in StoreOf[k].drops : OfKind(d)' = {}
  BY <1>2, <1>4 DEF OfKind
<1> QED
  BY <1>5, <1>7, <1>8

\* A delete that finds its record finds all there is under the name.
LEMMA TargetIsAll ==
  ASSUME IInv, NEW r \in Active, Target(req[r]) # {}
  PROVE  Target(req[r]) = At(req[r].kind, req[r].key)
<1>1. \A x, y \in At(req[r].kind, req[r].key) : x = y
  BY DEF IInv, ReadInv, Unique, At
<1> QED
  BY <1>1 DEF Target

\* A lone request that is not answered stays one.
LEMMA LoneHandler ==
  ASSUME AtomicInv, NEW r \in Requests, HandlerStep(r), alone[r], r \in Active'
  PROVE  LoneRequest(req[r])'
<1> DEFINE q == req[r]
<1>0. PICK k, key : k = req[r].kind /\ key = req[r].key
  OBVIOUS
<1>1. /\ q \in Request /\ q.kind = k /\ q.key = key /\ k \in Kinds /\ r \in Active /\ IInv /\ TypeInv
      /\ project = "up" /\ LoneRequest(q) /\ Reads(q)
  BY <1>0, ActiveRequests DEF AtomicInv, LoneInv, IInv, ReadInv, HandlerStep, Request
<1>2. \A answer \in {"ok", "failed", "unsaved"} : ~ Answer(r, answer)
  BY DEF Answer, Active, Done, AtomicInv, IInv, TypeInv
<1>3. ASSUME NEW pc \in {"list", "apply", "undo", "recreate", "lookup", "remove", "delete"}, Goto(r, pc)
      PROVE  LET p == req'[r] IN
             /\ p.pc = pc /\ p.list = q.list /\ p.kind = k /\ p.op = q.op /\ p.key = key
             /\ p.before = q.before
  BY <1>1, <1>3 DEF Goto, TypeInv, Request
<1> DEFINE p == req'[r]
<1>4. ASSUME p.kind = k, p.op = q.op, p.key = key, p.before = q.before,
             q.op = "write" => LoneWrite(req[r])', q.op = "delete" => LoneDelete(req[r])',
             p.pc = "apply" /\ ApiOf[k].apply = "list" => p.list = Objects(OfKind(k)'),
             p.pc = "recreate" => OfKind(k)' = {}
      PROVE  LoneRequest(req[r])'
  BY <1>1, <1>4 DEF LoneRequest, Objects, OfKind, AsObject
<1>5. CASE WriteRecord(r)
  <2>1. q.pc = "store" /\ q.op = "write" /\ OfKind(k) = q.before
    BY <1>1, <1>5 DEF WriteRecord, Reads, LoneRequest, LoneWrite
  <2>2. Goto(r, AfterStore(k)) /\ AfterStore(k) \in {"list", "apply"}
    BY <1>1, <1>2, <1>5, AfterStoreIs DEF WriteRecord, Checkpoint, Continue
  <2>3. p.pc = AfterStore(k) /\ p.kind = k /\ p.op = q.op /\ p.key = key /\ p.before = q.before
    BY <1>3, <2>2
  <2>4. Others(OfKind(k)', key) = Others(q.before, key)
    BY <1>1, <1>5, <2>1, WrittenOthers DEF WriteRecord
  <2>5. StoreOf[k].write = "conflict" => \A x \in q.before : x.key # key
    BY <1>1, <1>5, <2>1 DEF WriteRecord, Refused, At, OfKind
  <2>6. LoneWrite(req[r])'
    BY <2>2, <2>3, <2>4, <2>5 DEF LoneWrite, OfKind
  <2>7. ~ (p.pc = "apply" /\ ApiOf[k].apply = "list") /\ p.pc # "recreate"
    BY <1>1, <2>2, <2>3, AfterStoreIs
  <2> QED
    BY <1>4, <2>1, <2>3, <2>6, <2>7
<1>6. CASE ListForApply(r)
  <2> DEFINE L == Objects(OfKind(k))
  <2>1. q.pc = "list" /\ recs' = recs /\ plane' = plane
    BY <1>6 DEF ListForApply
  <2>6. req' = [req EXCEPT ![r].pc = "apply", ![r].list = L]
    BY <1>1, <1>6 DEF ListForApply
  <2> HIDE DEF L
  <2>2. /\ p.pc = "apply" /\ p.list = L /\ p.kind = k /\ p.op = q.op /\ p.key = key
        /\ p.before = q.before
    BY <1>1, <2>6 DEF TypeInv, Request
  <2>3. q.op = "write" => LoneWrite(req[r])'
    <3>1. q.op = "write" => LoneWrite(q)
      BY <1>1 DEF LoneRequest
    <3> QED
      BY <1>1, <2>1, <2>2, <3>1 DEF LoneWrite, OfKind
  <2>4. q.op = "delete" => LoneDelete(req[r])'
    <3>1. q.op = "delete" => LoneDelete(q)
      BY <1>1 DEF LoneRequest
    <3> QED
      BY <1>1, <2>1, <2>2, <3>1 DEF LoneDelete, OfKind, At, Deleting
  <2>5. p.list = Objects(OfKind(k)')
    BY <2>1, <2>2 DEF L, OfKind
  <2> QED
    BY <1>4, <2>2, <2>3, <2>4, <2>5
<1>7. CASE ApplyFails(r)
  <2>1. q.pc = "apply" /\ UNCHANGED recs /\ Goto(r, "undo")
    BY <1>2, <1>7 DEF ApplyFails
  <2>2. p.pc = "undo" /\ p.kind = k /\ p.op = q.op /\ p.key = key /\ p.before = q.before
    BY <1>3, <2>1
  <2>3. q.op = "write" => LoneWrite(req[r])'
    BY <1>1, <2>1, <2>2 DEF LoneRequest, LoneWrite, OfKind
  <2>4. q.op = "delete" => LoneDelete(req[r])'
    BY <1>1, <2>1, <2>2 DEF LoneRequest, LoneDelete, Deleting
  <2> QED
    BY <1>4, <2>2, <2>3, <2>4
<1>8. CASE UndoByRebuild(r)
  <2>1. q.pc = "undo" /\ Goto(r, "recreate") /\ OfKind(k)' = {}
    BY <1>1, <1>8 DEF UndoByRebuild, OfKind
  <2>2. p.pc = "recreate" /\ p.kind = k /\ p.op = q.op /\ p.key = key /\ p.before = q.before
    BY <1>3, <2>1
  <2>3. LoneWrite(req[r])'
    BY <2>2 DEF LoneWrite
  <2>4. q.op = "delete" => LoneDelete(req[r])'
    BY <1>1, <2>1, <2>2 DEF LoneRequest, LoneDelete, Deleting
  <2> QED
    BY <1>4, <2>1, <2>2, <2>3, <2>4
<1>9. CASE Lookup(r)
  <2>1. q.pc = "lookup" /\ q.op = "delete" /\ UNCHANGED recs
    BY <1>1, <1>9 DEF Lookup, Reads, Deleting
  <2>2. At(k, key) # {}
    BY <1>1, <2>1 DEF LoneRequest, LoneDelete, Deleting, OfKind, At
  <2>3. Goto(r, "remove")
    BY <1>1, <1>9, <2>2 DEF Lookup
  <2>4. p.pc = "remove" /\ p.kind = k /\ p.op = q.op /\ p.key = key /\ p.before = q.before
    BY <1>3, <2>3
  <2>5. LoneDelete(req[r])'
    BY <1>1, <2>1, <2>4 DEF LoneRequest, LoneDelete, Deleting, OfKind
  <2> QED
    BY <1>4, <2>1, <2>4, <2>5
<1>10. CASE RemoveOk(r)
  <2>1. /\ q.pc = "remove" /\ q.op = "delete" /\ UNCHANGED recs /\ plane' = Removed(k, key)
        /\ Goto(r, "delete")
    BY <1>1, <1>10 DEF RemoveOk, Reads, Deleting
  <2>2. p.pc = "delete" /\ p.kind = k /\ p.op = q.op /\ p.key = key /\ p.before = q.before
    BY <1>3, <2>1
  <2>3. \A o \in plane' : o.kind # k \/ o.key # key
    BY <2>1 DEF Removed
  <2>4. LoneDelete(req[r])'
    BY <1>1, <2>1, <2>2, <2>3 DEF LoneRequest, LoneDelete, Deleting, OfKind
  <2> QED
    BY <1>4, <2>1, <2>2, <2>4
<1>11. CASE DeleteRecord(r)
  <2>1. /\ q.pc = "delete" /\ q.op = "delete" /\ Target(q) # {} /\ recs' = Without(Target(q))
        /\ ApiOf[k].delete = "recordFirst" /\ Goto(r, AfterStore(k))
    <3>1. /\ q.pc = "delete" /\ q.op = "delete" /\ Target(q) # {} /\ recs' = Without(Target(q))
          /\ Continue(r, IF ApiOf[k].delete = "recordFirst" THEN AfterStore(k) ELSE "ok")
      BY <1>1, <1>2, <1>11 DEF DeleteRecord, Checkpoint, Reads, Deleting
    <3> QED
      BY <1>1, <1>2, <3>1 DEF Continue
  <2>2. AfterStore(k) \in {"list", "apply"}
    BY <1>1, <2>1, AfterStoreIs, ApplyRows
  <2>3. p.pc = AfterStore(k) /\ p.kind = k /\ p.op = q.op /\ p.key = key /\ p.before = q.before
    BY <1>3, <2>1, <2>2
  <2>4. At(k, key)' = {} /\ \A d \in StoreOf[k].drops : OfKind(d)' = {}
    BY <1>1, <2>1, TargetIsAll, WithoutTarget
  <2>5. LoneDelete(req[r])'
    BY <2>1, <2>2, <2>3, <2>4 DEF LoneDelete, Deleting, At, OfKind
  <2>6. ~ (p.pc = "apply" /\ ApiOf[k].apply = "list") /\ p.pc # "recreate"
    BY <1>1, <2>2, <2>3, AfterStoreIs
  <2> QED
    BY <1>4, <2>1, <2>3, <2>5, <2>6
<1> QED
  BY <1>2, <1>5, <1>6, <1>7, <1>8, <1>9, <1>10, <1>11 DEF HandlerStep, WriteRejected, ApplyOk,
     UndoByDelete, UndoByRestore, Recreate, RemoveFails

\* A request that begins on its own, and those that are no longer alone.
LEMMA BeginLone ==
  ASSUME AtomicInv, NEW r \in Requests, NEW k \in kinds, NEW op \in {"write", "delete"}, NEW key,
         NEW id, NEW pc \in {"store"} \cup Deleting, pc = "store" <=> op = "write",
         op = "delete" => \E x \in recs : x.kind = k /\ x.key = key,
         pc = "delete" => ApiOf[k].delete \notin {"lookup", "planeFirst"},
         Begin(r, k, op, key, id, pc)
  PROVE  LoneInv'
<1> DEFINE p == [pc |-> pc, op |-> op, kind |-> k, key |-> key, id |-> id,
                 before |-> OfKind(k), list |-> {}]
<1>1. req' = [req EXCEPT ![r] = p] /\ UNCHANGED <<project, recs, plane>> /\ project # "gone"
  BY DEF Begin
<1>2. p.kind = k /\ p.op = op /\ p.key = key /\ p.before = OfKind(k) /\ p.pc = pc /\ "kind" \in DOMAIN p
  OBVIOUS
<1> HIDE DEF p
<1>3. req'[r] = p /\ \A s \in Requests \ {r} : req'[s] = req[s]
  BY <1>1 DEF AtomicInv, IInv, TypeInv
<1>4. Active' = Active \cup {r}
  BY <1>2, <1>3 DEF Active
<1>5. /\ \A s \in Requests \ {r} : alone'[s] => s \notin Active
      /\ alone'[r] => Active = {} /\ project = "up"
  <2>1. alone' = [s \in Requests |->
                 IF s = r THEN Active = {} /\ project = "up" ELSE alone[s] /\ s \notin Active]
    BY DEF Begin
  <2> QED
    BY <2>1, Zenon
<1>6. LoneRequest(req[r])'
  <2>1. k = "database_extensions" => \E x \in OfKind(k) : x.key = "known"
    BY <1>1 DEF AtomicInv, ExtensionInv, At, OfKind
  <2>2. op = "delete" => \E x \in OfKind(k) : x.key = key
    BY DEF OfKind
  <2>3. LoneWrite(req[r])'
    BY <1>1, <1>2, <1>3 DEF LoneWrite, Deleting, OfKind
  <2>4. op = "delete" => LoneDelete(req[r])'
    BY <1>1, <1>2, <1>3, <2>2 DEF LoneDelete, Deleting, OfKind
  <2> QED
    BY <1>2, <1>3, <2>1, <2>3, <2>4 DEF LoneRequest, Deleting
<1>7. ASSUME NEW s \in Active', alone'[s] PROVE s = r
  BY <1>4, <1>5, <1>7 DEF Active
<1> QED
  BY <1>1, <1>4, <1>5, <1>6, <1>7 DEF LoneInv

\* No request has begun, and an extension has its default.
LEMMA InitAtomic == Init => AtomicInv
<1> SUFFICES ASSUME Init PROVE AtomicInv
  OBVIOUS
<1>1. Active = {}
  BY DEF Init, Active, New
<1>2. ASSUME "database_extensions" \in kinds PROVE At("database_extensions", "known") # {}
  <2>1. PICK have \in SUBSET kinds :
          /\ WithDefault \cap kinds \subseteq have
          /\ recs = {[kind |-> k, key |-> FirstKey(k), id |-> Default, val |-> Default] : k \in have}
    BY DEF Init
  <2>2. "database_extensions" \in have
    BY <1>2, <2>1 DEF WithDefault
  <2>3. FirstKey("database_extensions") = "known"
    BY DEF FirstKey, StoreOf, StoreDatabaseExtensions, Stored
  <2>4. [kind |-> "database_extensions", key |-> "known", id |-> Default, val |-> Default] \in recs
    BY <2>1, <2>2, <2>3
  <2> QED
    BY <2>4 DEF At
<1>3. IInv /\ SavedInv
  BY InitIInv, InitSaved
<1>4. saved.recs = recs
  BY DEF Init, Image
<1> QED
  BY <1>1, <1>2, <1>3, <1>4 DEF AtomicInv, ExtensionInv, SavedExtension, LoneInv, LoneSaved, At

\* Every step keeps what holds of lone requests.
LEMMA NextLone == AtomicInv /\ [Next]_vars => ExtensionInv' /\ LoneInv'
<1> SUFFICES ASSUME AtomicInv, [Next]_vars PROVE ExtensionInv' /\ LoneInv'
  OBVIOUS
<1>1. ASSUME NEW r \in Requests, NEW k \in kinds, NEW key \in Keys(k), BeginWrite(r, k, key)
      PROVE  ExtensionInv' /\ LoneInv'
  <2>1. Begin(r, k, "write", key, r, "store")
    BY <1>1 DEF BeginWrite
  <2>2. LoneInv'
    BY <2>1, BeginLone DEF Deleting
  <2> QED
    BY <2>1, <2>2 DEF Begin, AtomicInv, ExtensionInv, At
<1>2. ASSUME NEW r \in Requests, NEW k \in kinds, NEW x \in recs, BeginDelete(r, k, x)
      PROVE  ExtensionInv' /\ LoneInv'
  <2> DEFINE pc == CASE ApiOf[k].delete = "lookup" -> "lookup"
                     [] ApiOf[k].delete = "planeFirst" -> "remove"
                     [] OTHER -> "delete"
  <2>1. Begin(r, k, "delete", x.key, x.id, pc) /\ x.kind = k
    BY <1>2 DEF BeginDelete
  <2>2. /\ pc \in Deleting /\ pc # "store"
        /\ pc = "delete" => ApiOf[k].delete \notin {"lookup", "planeFirst"}
    BY DEF Deleting
  <2> HIDE DEF pc
  <2>3. LoneInv'
    BY <2>1, <2>2, BeginLone
  <2> QED
    BY <2>1, <2>3 DEF Begin, AtomicInv, ExtensionInv, At
<1>3. ASSUME NEW r \in Requests, HandlerStep(r) PROVE ExtensionInv' /\ LoneInv'
  <2>1. PICK p : Onward(r, p)
    BY <1>3, HandlersGoOn DEF AtomicInv, IInv
  <2>2. UNCHANGED <<kinds, project, alone>>
    BY <1>3, HandlerEffect DEF AtomicInv
  <2>3. ExtensionInv'
    BY <1>3, <2>2, ExtensionStays DEF AtomicInv, ExtensionInv, At
  <2>4. ASSUME NEW s \in Active', alone'[s]
        PROVE  Active' = {s} /\ project' = "up" /\ LoneRequest(req[s])'
    <3>1. r \in Active /\ \A t \in Requests \ {r} : t \in Active' <=> t \in Active
      BY <1>3, <2>1 DEF HandlerStep, Onward, Active, AtomicInv, IInv, TypeInv
    <3>2. s \in Active /\ alone[s] /\ Active \subseteq Requests /\ Active' \subseteq Requests
      BY <2>2, <2>4, <3>1 DEF Active
    <3>3. Active = {s} /\ project = "up" /\ s = r
      BY <3>1, <3>2 DEF AtomicInv, LoneInv
    <3>4. Active' = {s} /\ project' = "up"
      BY <2>2, <2>4, <3>1, <3>2, <3>3
    <3> QED
      BY <1>3, <2>4, <3>2, <3>3, <3>4, LoneHandler
  <2> QED
    BY <2>3, <2>4 DEF LoneInv
<1>4. CASE DestroyRuntime
  <2>1. \A s \in Requests : alone'[s] => s \notin Active
    <3>1. alone' = [r \in Requests |-> alone[r] /\ r \notin Active]
      BY <1>4 DEF DestroyRuntime
    <3> QED
      BY <3>1, Zenon
  <2>2. Active' = Active /\ Active \subseteq Requests
    BY <1>4 DEF DestroyRuntime, Active
  <2>3. ExtensionInv'
    BY <1>4 DEF DestroyRuntime, AtomicInv, ExtensionInv, At
  <2> QED
    BY <2>1, <2>2, <2>3 DEF LoneInv
<1>5. CASE DeleteProject
  <2>1. \A s \in Active' : ~ alone'[s]
    BY <1>5 DEF DeleteProject, Active, AtomicInv, LoneInv
  <2> QED
    BY <1>5, <2>1 DEF DeleteProject, ExtensionInv, LoneInv
<1>6. CASE Crash
  <2>1. Active' = {}
    BY <1>6 DEF Crash, Active, Done
  <2>2. /\ recs' = saved.recs /\ UNCHANGED kinds
        /\ project' = IF project = "gone" /\ saved.there THEN "destroyed" ELSE project
    BY <1>6 DEF Crash
  <2>3. project' # "gone" => saved.there
    BY <2>2 DEF AtomicInv, SavedInv
  <2> QED
    BY <2>1, <2>2, <2>3 DEF AtomicInv, ExtensionInv, SavedExtension, LoneInv, At
<1>8. CASE SaveElsewhere
  <2>1. UNCHANGED <<kinds, project, recs, plane, req, alone>>
    BY <1>8 DEF SaveElsewhere
  <2>2. Active' = Active /\ ExtensionInv'
    BY <2>1 DEF Active, AtomicInv, ExtensionInv, At
  <2>3. \A s \in Active : LoneRequest(req[s]) => LoneRequest(req[s])'
    BY <2>1 DEF LoneRequest, LoneWrite, LoneDelete, At, OfKind
  <2> QED
    BY <2>1, <2>2, <2>3 DEF AtomicInv, LoneInv
<1>7. CASE UNCHANGED vars
  BY <1>7 DEF vars, AtomicInv, ExtensionInv, LoneInv, LoneRequest, LoneWrite, LoneDelete, At,
              OfKind, Active
<1> QED
  BY <1>1, <1>2, <1>3, <1>4, <1>5, <1>6, <1>7, <1>8 DEF Next

\* A request on its own comes past the store only when it is saved, and then
\* nothing changes the store before its answer.
LEMMA NextLoneSaved == AtomicInv /\ [Next]_vars => LoneSaved'
<1> SUFFICES ASSUME AtomicInv, [Next]_vars,
                    NEW s \in Active', alone'[s], req'[s].pc \in {"list", "apply"}
             PROVE  saved' = Image'
  BY DEF LoneSaved
<1>0. s \in Requests /\ IInv /\ TypeInv
  BY DEF Active, AtomicInv, IInv
<1>1. ASSUME NEW r \in Requests, HandlerStep(r) PROVE saved' = Image'
  <2>1. UNCHANGED <<project, alone>>
    BY <1>0, <1>1, HandlerEffect
  <2>2. PICK p : req' = [req EXCEPT ![r] = p]
    BY <1>0, <1>1, HandlersGoOn DEF Onward
  <2>3. r \in Active /\ s \in Active /\ alone[s]
    BY <1>0, <1>1, <2>1, <2>2 DEF HandlerStep, Active, TypeInv
  <2>4. s = r
    BY <2>3 DEF AtomicInv, LoneInv
  <2>5. req[s] \in Request
    BY <1>0, <2>3, ActiveRequests
  <2>6. \A answer \in {"ok", "failed", "unsaved"} : ~ Answer(r, answer)
    BY <1>0, <2>4 DEF Answer, Done, TypeInv
  <2>7. \A pc : Goto(r, pc) => pc \in {"list", "apply"}
    BY <1>0, <2>4, <2>5 DEF Goto, TypeInv, Request
  <2>8. CASE WriteRecord(r) \/ DeleteRecord(r)
    BY <2>6, <2>8 DEF WriteRecord, DeleteRecord, Checkpoint, Save
  <2>9. CASE ListForApply(r)
    <3>1. req[s].pc = "list" /\ UNCHANGED <<recs, saved>>
      BY <2>4, <2>9 DEF ListForApply
    <3>2. saved = Image
      BY <2>3, <3>1 DEF AtomicInv, LoneSaved
    <3> QED
      BY <2>1, <3>1, <3>2 DEF Image
  <2> QED
    BY <1>1, <2>6, <2>7, <2>8, <2>9 DEF HandlerStep, WriteRejected, ApplyOk, ApplyFails,
       UndoByDelete, UndoByRestore, UndoByRebuild, Recreate, Lookup, RemoveOk, RemoveFails
<1>2. ASSUME NEW r \in Requests, NEW k, NEW op, NEW key, NEW id,
             NEW pc \in {"store", "lookup", "remove", "delete"}, Begin(r, k, op, key, id, pc)
      PROVE  FALSE
  <2> DEFINE p == [pc |-> pc, op |-> op, kind |-> k, key |-> key, id |-> id,
                   before |-> OfKind(k), list |-> {}]
  <2>1. req' = [req EXCEPT ![r] = p] /\ p.pc = pc
    BY <1>2 DEF Begin
  <2>2. alone' = [t \in Requests |->
                 IF t = r THEN Active = {} /\ project = "up" ELSE alone[t] /\ t \notin Active]
    BY <1>2 DEF Begin
  <2> HIDE DEF p
  <2>3. s # r
    BY <1>0, <2>1 DEF TypeInv
  <2>4. s \notin Active
    BY <1>0, <2>2, <2>3, Zenon
  <2> QED
    BY <1>0, <2>1, <2>3, <2>4 DEF Active, TypeInv
<1>3. ASSUME NEW r \in Requests, NEW k, NEW key, BeginWrite(r, k, key) PROVE FALSE
  BY <1>2, <1>3 DEF BeginWrite
<1>4. ASSUME NEW r \in Requests, NEW k, NEW x, BeginDelete(r, k, x) PROVE FALSE
  <2> DEFINE pc == CASE ApiOf[k].delete = "lookup" -> "lookup"
                     [] ApiOf[k].delete = "planeFirst" -> "remove"
                     [] OTHER -> "delete"
  <2>1. Begin(r, k, "delete", x.key, x.id, pc)
    BY <1>4 DEF BeginDelete
  <2>2. pc \in {"store", "lookup", "remove", "delete"}
    OBVIOUS
  <2> HIDE DEF pc
  <2> QED
    BY <1>2, <2>1, <2>2
<1>5. CASE DestroyRuntime
  <2>1. alone' = [r \in Requests |-> alone[r] /\ r \notin Active] /\ req' = req
    BY <1>5 DEF DestroyRuntime
  <2>2. s \notin Active
    BY <1>0, <2>1, Zenon
  <2> QED
    BY <1>0, <2>1, <2>2 DEF Active
<1>6. CASE DeleteProject
  BY <1>0, <1>6 DEF DeleteProject, Active, AtomicInv, LoneInv
<1>7. CASE SaveElsewhere
  BY <1>7 DEF SaveElsewhere, Image
<1>8. CASE Crash
  BY <1>0, <1>8 DEF Crash, Active, Done
<1>9. CASE UNCHANGED vars
  BY <1>9 DEF vars, AtomicInv, LoneSaved, Active, Image
<1> QED
  BY <1>1, <1>3, <1>4, <1>5, <1>6, <1>7, <1>8, <1>9 DEF Next

\* Every step keeps all of it.
LEMMA NextAtomic == AtomicInv /\ [Next]_vars => AtomicInv'
<1> SUFFICES ASSUME AtomicInv, [Next]_vars PROVE AtomicInv'
  OBVIOUS
<1>1. IInv' /\ SavedInv' /\ ExtensionInv' /\ LoneInv' /\ LoneSaved'
  BY NextIInv, NextSaved, NextLone, NextLoneSaved DEF AtomicInv
<1>2. kinds' = kinds
  <2>1. ASSUME NEW r \in Requests, HandlerStep(r) PROVE kinds' = kinds
    BY <2>1, HandlerEffect DEF AtomicInv
  <2> QED
    BY <2>1 DEF Next, BeginWrite, BeginDelete, Begin, DestroyRuntime, DeleteProject, SaveElsewhere,
       Crash, vars
<1>3. CASE saved' = saved
  BY <1>1, <1>2, <1>3 DEF AtomicInv, SavedExtension
<1>4. CASE saved' = Image'
  BY <1>1, <1>4 DEF AtomicInv, SavedExtension, ExtensionInv, Image, At
<1> QED
  BY <1>1, <1>3, <1>4, SavingSteps DEF AtomicInv, SavedInv

\* What it means to be undone, said of the records of the kind.
LEMMA UndoneObjects ==
  ASSUME NEW q,
         \/ Objects({x \in recs' : x.kind = q.kind}) = Objects(q.before)
         \/ /\ q.kind \in Configs
            /\ Objects(q.before) \subseteq Objects({x \in recs' : x.kind = q.kind})
  PROVE  Undone(q)
<1>1. {o \in Objects(recs') : o.kind = q.kind} = Objects({x \in recs' : x.kind = q.kind})
  BY DEF Objects, AsObject
<1> QED
  BY <1>1, Zenon DEF Undone

\* A lone request that fails leaves the records as it found them.
LEMMA LoneFails ==
  ASSUME AtomicInv, [Next]_vars, NEW r \in Requests, alone[r], Finishes(r, "failed"),
         req[r].kind \in Reversible
  PROVE  Undone(req[r])
<1> DEFINE q == req[r]
<1>0. PICK k, key : k = req[r].kind /\ key = req[r].key
  OBVIOUS
<1>1. /\ q \in Request /\ q.kind = k /\ q.key = key /\ k \in Kinds /\ r \in Active /\ IInv /\ TypeInv
      /\ project = "up" /\ LoneRequest(q) /\ Reads(q) /\ HandlerStep(r)
  BY <1>0, ActiveRequests, AnsweredByHandler
     DEF AtomicInv, LoneInv, IInv, ReadInv, Finishes, Request
<1>2. req'[r] = Done("failed") /\ ApiOf[k].undo # "keep"
  BY <1>1, UndoRows DEF Finishes
<1>3. ASSUME NEW pc, Goto(r, pc) PROVE FALSE
  <2>1. req'[r] = [req[r] EXCEPT !.pc = pc, !.list = {}]
    BY <1>3 DEF Goto, AtomicInv, IInv, TypeInv
  <2>2. "kind" \in DOMAIN req'[r]
    BY <1>1, <2>1 DEF Request
  <2> QED
    BY <1>2, <2>2 DEF Done
<1>4. ~ Answer(r, "ok")
  BY <1>2 DEF Answer, Done, AtomicInv, IInv, TypeInv
<1>16. ~ Answer(r, "unsaved")
  BY <1>2 DEF Answer, Done, AtomicInv, IInv, TypeInv
<1>5. ASSUME {x \in recs' : x.kind = k} = q.before PROVE Undone(req[r])
  BY <1>1, <1>5, UndoneObjects
<1>6. ASSUME recs' = recs, OfKind(k) = q.before PROVE Undone(req[r])
  BY <1>5, <1>6 DEF OfKind
<1>7. CASE WriteRejected(r)
  BY <1>1, <1>6, <1>7 DEF WriteRejected, Reads, LoneRequest, LoneWrite
<1>8. CASE UndoByDelete(r)
  <2>1. q.pc = "undo" /\ ApiOf[k].undo = "delete" /\ recs' = Without(At(k, key))
    BY <1>1, <1>8 DEF UndoByDelete
  <2>2. q.op = "write" /\ StoreOf[k].write = "conflict"
    <3>1. q.op # "delete"
      BY <1>1, <2>1, UndoRows, DeleteRows DEF LoneRequest, LoneDelete, Deleting
    <3> QED
      BY <1>1, <2>1, <3>1, UndoRows, ConflictRows DEF Request
  <2>3. Others(OfKind(k), key) = Others(q.before, key) /\ \A x \in q.before : x.key # key
    BY <1>1, <2>1, <2>2 DEF LoneRequest, LoneWrite
  <2>4. OfKind(k)' = Others(OfKind(k), key)
    BY <1>1, <2>1, WithoutTarget
  <2>5. Others(q.before, key) = q.before
    BY <2>3 DEF Others
  <2> QED
    BY <1>5, <2>3, <2>4, <2>5 DEF OfKind
<1>9. CASE UndoByRestore(r)
  <2> DEFINE old == {x \in q.before : k \in Configs \/ x.key = key}
  <2>1. /\ q.pc = "undo" /\ ApiOf[k].undo = "restore"
        /\ recs' = {x \in recs : \A y \in old : x.kind # y.kind \/ x.key # y.key} \cup old
    BY <1>1, <1>9 DEF UndoByRestore
  <2>2. k \in {"runtime_config", "database_extensions"} /\ q.op = "write"
    BY <1>1, <2>1, UndoRows, ExtensionRows, DeleteRows DEF Reads, Request
  <2>3. \A x \in q.before : x.kind = k
    BY <1>1 DEF Reads
  <2>4. CASE k = "runtime_config"
    <3>1. q.before \subseteq recs' /\ k \in Configs
      BY <2>1, <2>4 DEF Configs
    <3>2. q.before \subseteq {x \in recs' : x.kind = k}
      BY <2>3, <3>1
    <3>3. Objects(q.before) \subseteq Objects({x \in recs' : x.kind = k})
      BY <3>2 DEF Objects
    <3> QED
      BY <1>1, <3>1, <3>3, UndoneObjects
  <2>5. CASE k = "database_extensions"
    <3>1. key = "known" /\ (\E x \in q.before : x.key = "known") /\ k \notin Configs
      BY <1>1, <2>5, ExtensionRows DEF Reads, LoneRequest, Configs
    <3>2. old = {x \in q.before : x.key = key} /\ \E x \in old : x.kind = k /\ x.key = key
      BY <2>3, <3>1
    <3>3. Others(OfKind(k), key) = Others(q.before, key)
      BY <1>1, <2>1, <2>2 DEF LoneRequest, LoneWrite
    <3> HIDE DEF old
    <3>4. \A x : x \in recs' /\ x.kind = k <=> x \in Others(OfKind(k), key) \/ x \in old
      BY <2>1, <2>3, <3>2 DEF Others, OfKind
    <3>5. \A x : x \in recs' /\ x.kind = k <=> x \in q.before
      BY <3>2, <3>3, <3>4 DEF Others
    <3> QED
      BY <1>5, <3>5
  <2> QED
    BY <2>2, <2>4, <2>5
<1>10. CASE Recreate(r)
  <2> DEFINE Again(y) == [y EXCEPT !.id = IF At(k, y.key) = {} THEN r
                                          ELSE (CHOOSE x \in At(k, y.key) : TRUE).id]
  <2>1. /\ q.pc = "recreate"
        /\ recs' = {x \in recs : \A y \in q.before : x.kind # y.kind \/ x.key # y.key}
                   \cup {Again(y) : y \in q.before}
    BY <1>1, <1>10 DEF Recreate
  <2>2. OfKind(k) = {} /\ k = "auth_hooks"
    BY <1>1, <2>1, UndoRows DEF LoneRequest, Reads
  <2>3. \A y \in q.before : y \in Record /\ y.kind = k
    BY <1>1 DEF Reads, Request
  <2>4. \A y \in q.before : Again(y).kind = k /\ AsObject(Again(y)) = AsObject(y)
    BY <2>3 DEF AsObject, Record
  <2> HIDE DEF Again
  <2>5. {x \in recs' : x.kind = k} = {Again(y) : y \in q.before}
    BY <2>1, <2>2, <2>4 DEF OfKind
  <2>6. Objects({x \in recs' : x.kind = k}) = Objects(q.before)
    BY <2>4, <2>5 DEF Objects
  <2> QED
    BY <1>1, <2>6, UndoneObjects
<1>11. CASE RemoveFails(r)
  BY <1>1, <1>6, <1>11 DEF RemoveFails, Reads, LoneRequest, LoneDelete, Deleting
<1>12. CASE DeleteRecord(r)
  <2>1. q.pc = "delete" /\ OfKind(k) = q.before
    BY <1>1, <1>12 DEF DeleteRecord, Reads, LoneRequest, LoneDelete, Deleting
  <2>2. Target(q) = {} /\ recs' = recs
    BY <1>3, <1>4, <1>12, <1>16 DEF DeleteRecord, Checkpoint, Continue
  <2> QED
    BY <1>6, <2>1, <2>2
<1>13. ~ ListForApply(r)
  <2>1. SUFFICES ASSUME ListForApply(r) PROVE FALSE
    OBVIOUS
  <2>2. PICK p : Onward(r, p) /\ p \in Request
    BY <1>1, <2>1, ListOnward DEF ListForApply
  <2>3. req'[r] = p
    BY <2>2 DEF Onward, AtomicInv, IInv, TypeInv
  <2> QED
    BY <1>2, <2>2, <2>3, NoRequestEnded DEF Ended
<1>14. ~ Lookup(r)
  BY <1>1, <1>3 DEF Lookup
<1>15. ~ WriteRecord(r) /\ ~ ApplyOk(r) /\ ~ ApplyFails(r) /\ ~ UndoByRebuild(r) /\ ~ RemoveOk(r)
  BY <1>1, <1>2, <1>3, <1>4, <1>16
     DEF WriteRecord, Checkpoint, Continue, ApplyOk, ApplyFails, UndoByRebuild, RemoveOk
<1> QED
  BY <1>1, <1>7, <1>8, <1>9, <1>10, <1>11, <1>12, <1>13, <1>14, <1>15 DEF HandlerStep

\* A lone request that succeeds has what it says in the data plane.
LEMMA LoneSucceeds ==
  ASSUME AtomicInv, [Next]_vars, NEW r \in Requests, alone[r], Finishes(r, "ok"),
         ApiOf[req[r].kind].apply # "none"
  PROVE  InPlace(r)
<1> DEFINE q == req[r]
<1>0. PICK k, key : k = req[r].kind /\ key = req[r].key
  OBVIOUS
<1>1. /\ q \in Request /\ q.kind = k /\ q.key = key /\ k \in Kinds /\ r \in Active /\ IInv /\ TypeInv
      /\ LoneRequest(q) /\ Reads(q) /\ HandlerStep(r)
  BY <1>0, ActiveRequests, AnsweredByHandler
     DEF AtomicInv, LoneInv, IInv, ReadInv, Finishes, Request
<1>2. req'[r] = Done("ok") /\ ApiOf[k].apply # "none"
  BY <1>1 DEF Finishes
<1>3. ~ Answer(r, "failed") /\ ~ Answer(r, "unsaved")
  BY <1>2 DEF Answer, Done, AtomicInv, IInv, TypeInv
<1>4. ASSUME NEW pc, Goto(r, pc) PROVE FALSE
  <2>1. req'[r] = [req[r] EXCEPT !.pc = pc, !.list = {}]
    BY <1>4 DEF Goto, AtomicInv, IInv, TypeInv
  <2>2. "kind" \in DOMAIN req'[r]
    BY <1>1, <2>1 DEF Request
  <2> QED
    BY <1>2, <2>2 DEF Done
<1>5. CASE ApplyOk(r)
  <2>1. q.pc = "apply" /\ recs' = recs /\ plane' = Applied(r)
    BY <1>5 DEF ApplyOk
  <2>2. CASE ApiOf[k].apply = "list"
    <3>1. plane' = {o \in plane : o.kind # k} \cup Objects(OfKind(k))
      <4>1. q.list = Objects(OfKind(k))
        BY <1>1, <2>1, <2>2 DEF LoneRequest
      <4>2. Applied(r) = {o \in plane : o.kind # k} \cup q.list
        BY <1>1, <2>2 DEF Applied
      <4> QED
        BY <2>1, <4>1, <4>2
    <3>2. {o \in Objects(recs') : o.kind = k} = Objects(OfKind(k))
      BY <2>1 DEF Objects, AsObject, OfKind
    <3>3. \A o \in Objects(OfKind(k)) : o.kind = k
      BY DEF Objects, AsObject, OfKind
    <3>4. {o \in plane' : o.kind = k} = Objects(OfKind(k))
      BY <3>1, <3>3
    <3>5. Agree(k)
      BY <3>2, <3>4, Zenon DEF Agree
    <3> QED
      <4>1. Agree(req[r].kind)
        BY <1>1, <3>5
      <4> QED
        BY <1>1, <2>2, <4>1 DEF InPlace
  <2>3. CASE ApiOf[k].apply # "list" /\ q.op = "write"
    BY <1>1, <2>1, <2>3 DEF InPlace, Applied, Put
  <2>4. CASE ApiOf[k].apply # "list" /\ q.op = "delete"
    <3>1. plane' = Removed(k, key)
      BY <1>1, <2>1, <2>4 DEF Applied
    <3>2. At(k, key) = {} /\ \A d \in StoreOf[k].drops : OfKind(d) = {}
      BY <1>1, <2>1, <2>4 DEF LoneRequest, LoneDelete
    <3>3. \A x \in recs' : x.kind # k \/ x.key # key
      BY <2>1, <3>2 DEF At
    <3>4. \A o \in plane' : o.kind # k \/ o.key # key
      BY <3>1 DEF Removed
    <3>5. ASSUME k = "functions", NEW d \in StoreOf[k].drops PROVE Agree(d)
      <4>1. \A o \in plane' : o.kind # d
        BY <3>1, <3>5 DEF Removed
      <4>2. \A o \in Objects(recs') : o.kind # d
        BY <2>1, <3>2, <3>5 DEF Objects, AsObject, OfKind
      <4> QED
        BY <4>1, <4>2 DEF Agree
    <3> QED
      BY <1>1, <2>4, <3>3, <3>4, <3>5 DEF InPlace
  <2> QED
    BY <1>1, <2>2, <2>3, <2>4 DEF Request
<1>6. CASE DeleteRecord(r)
  <2>1. /\ q.pc = "delete" /\ q.op = "delete" /\ Target(q) # {} /\ recs' = Without(Target(q))
        /\ ApiOf[k].delete # "recordFirst" /\ plane' = plane
    <3>1. /\ q.pc = "delete" /\ q.op = "delete" /\ Target(q) # {} /\ recs' = Without(Target(q))
          /\ Checkpoint(r, IF ApiOf[k].delete = "recordFirst" THEN AfterStore(k) ELSE "ok")
          /\ plane' = plane
      BY <1>1, <1>3, <1>4, <1>6 DEF DeleteRecord, Reads, Deleting
    <3>2. ApiOf[k].delete = "recordFirst" => AfterStore(k) # "ok"
      BY <1>1, <1>2, AfterStoreIs
    <3> QED
      BY <1>3, <1>4, <3>1, <3>2 DEF Checkpoint, Continue
  <2>2. At(k, key)' = {}
    BY <1>1, <2>1, TargetIsAll, WithoutTarget
  <2>3. \A x \in recs' : x.kind # k \/ x.key # key
    BY <2>2 DEF At
  <2>4. ApiOf[k].delete \in {"lookup", "planeFirst"} \/ k = "database_schemas"
    BY <1>1, <1>2, <2>1, ApplyRows DEF Reads
  <2>5. ApiOf[k].apply = "object" /\ k # "functions"
    BY <1>1, <2>1, <2>4, ApplyRows, DeleteRows
  <2>6. k # "database_schemas" => \A o \in plane' : o.kind # k \/ o.key # key
    BY <1>1, <2>1, <2>4 DEF LoneRequest, LoneDelete
  <2> QED
    BY <1>1, <2>1, <2>3, <2>5, <2>6 DEF InPlace
<1>7. ~ ListForApply(r)
  <2>1. SUFFICES ASSUME ListForApply(r), project # "gone" PROVE FALSE
    BY <1>3 DEF ListForApply
  <2>2. PICK p : Onward(r, p) /\ p \in Request
    BY <1>1, <2>1, ListOnward DEF ListForApply
  <2>3. req'[r] = p
    BY <2>2 DEF Onward, AtomicInv, IInv, TypeInv
  <2> QED
    BY <1>2, <2>2, <2>3, NoRequestEnded DEF Ended
<1>8. ~ WriteRecord(r)
  BY <1>1, <1>2, <1>3, <1>4, AfterStoreIs DEF WriteRecord, Checkpoint, Continue
<1>9. ~ Lookup(r)
  BY <1>3, <1>4 DEF Lookup
<1>10. ~ WriteRejected(r) /\ ~ ApplyFails(r) /\ ~ UndoByDelete(r) /\ ~ UndoByRestore(r)
       /\ ~ UndoByRebuild(r) /\ ~ Recreate(r) /\ ~ RemoveOk(r) /\ ~ RemoveFails(r)
  BY <1>3, <1>4 DEF WriteRejected, ApplyFails, UndoByDelete, UndoByRestore, UndoByRebuild,
     Recreate, RemoveOk, RemoveFails
<1> QED
  BY <1>1, <1>5, <1>6, <1>7, <1>8, <1>9, <1>10 DEF HandlerStep

\* A lone request that succeeds is saved.
LEMMA LoneIsSaved ==
  ASSUME AtomicInv, [Next]_vars, NEW r \in Requests, alone[r], Finishes(r, "ok")
  PROVE  saved' = Image'
<1>1. r \in Active /\ HandlerStep(r) /\ req'[r] = Done("ok") /\ req[r] \in Request
  BY AnsweredByHandler, ActiveRequests DEF Finishes, AtomicInv, IInv
<1>2. ~ Answer(r, "failed") /\ ~ Answer(r, "unsaved")
  BY <1>1 DEF Answer, Done, AtomicInv, IInv, TypeInv
<1>3. ASSUME NEW pc, Goto(r, pc) PROVE FALSE
  <2>1. req'[r] = [req[r] EXCEPT !.pc = pc, !.list = {}]
    BY <1>3 DEF Goto, AtomicInv, IInv, TypeInv
  <2> QED
    BY <1>1, <2>1 DEF Done, Request
<1>4. CASE ApplyOk(r)
  <2>1. req[r].pc = "apply" /\ UNCHANGED <<saved, project, recs>>
    BY <1>4 DEF ApplyOk
  <2> QED
    BY <1>1, <2>1 DEF AtomicInv, LoneSaved, Image
<1>5. CASE WriteRecord(r) \/ DeleteRecord(r)
  BY <1>2, <1>5 DEF WriteRecord, DeleteRecord, Checkpoint, Save
<1>6. ~ ListForApply(r)
  <2>1. SUFFICES ASSUME ListForApply(r), project # "gone" PROVE FALSE
    BY <1>2 DEF ListForApply
  <2>2. PICK p : Onward(r, p) /\ p \in Request
    BY <1>1, <2>1, ListOnward DEF ListForApply, AtomicInv, IInv
  <2>3. req'[r] = p
    BY <2>2 DEF Onward, AtomicInv, IInv, TypeInv
  <2> QED
    BY <1>1, <2>2, <2>3, NoRequestEnded DEF Ended
<1> QED
  BY <1>1, <1>2, <1>3, <1>4, <1>5, <1>6 DEF HandlerStep, WriteRejected, ApplyFails, UndoByDelete,
     UndoByRestore, UndoByRebuild, Recreate, Lookup, RemoveOk, RemoveFails

\* A lone request whose save fails leaves its record as it asked for, and where it
\* began with the object nothing of that either.
LEMMA LoneUnsaved ==
  ASSUME AtomicInv, [Next]_vars, NEW r \in Requests, alone[r], Finishes(r, "unsaved")
  PROVE  Stands(r)
<1> DEFINE q == req[r]
<1>0. PICK k, key : k = req[r].kind /\ key = req[r].key
  OBVIOUS
<1>1. /\ q \in Request /\ q.kind = k /\ q.key = key /\ k \in Kinds /\ r \in Active /\ IInv /\ TypeInv
      /\ LoneRequest(q) /\ Reads(q) /\ HandlerStep(r)
  BY <1>0, ActiveRequests, AnsweredByHandler
     DEF AtomicInv, LoneInv, IInv, ReadInv, Finishes, Request
<1>2. req'[r] = Done("unsaved")
  BY DEF Finishes
<1>3. ~ Answer(r, "failed") /\ ~ Answer(r, "ok")
  BY <1>2 DEF Answer, Done, AtomicInv, IInv, TypeInv
<1>4. ASSUME NEW pc, Goto(r, pc) PROVE FALSE
  <2>1. req'[r] = [req[r] EXCEPT !.pc = pc, !.list = {}]
    BY <1>4 DEF Goto, AtomicInv, IInv, TypeInv
  <2> QED
    BY <1>1, <1>2, <2>1 DEF Done, Request
<1>5. CASE WriteRecord(r)
  <2> DEFINE n == [kind |-> k, key |-> key, val |-> r,
                   id |-> IF At(k, key) = {} THEN r
                          ELSE (CHOOSE x \in At(k, key) : TRUE).id]
  <2>1. q.op = "write" /\ recs' = (recs \ At(k, key)) \cup {n}
    BY <1>1, <1>5 DEF WriteRecord, Reads, Written
  <2>2. n.kind = k /\ n.key = key /\ AsObject(n) = [kind |-> k, key |-> key, val |-> r]
    BY DEF AsObject
  <2> HIDE DEF n
  <2>3. \A x \in recs' : x.kind = k /\ x.key = key <=> x = n
    BY <2>1, <2>2 DEF At
  <2>4. n \in recs'
    BY <2>1
  <2>5. {x \in Objects(recs') : x.kind = k /\ x.key = key} = {AsObject(n)}
    BY <2>3, <2>4 DEF Objects, AsObject
  <2> QED
    BY <1>1, <2>1, <2>2, <2>5 DEF Stands
<1>6. CASE DeleteRecord(r)
  <2>1. /\ q.pc = "delete" /\ q.op = "delete" /\ Target(q) # {} /\ recs' = Without(Target(q))
        /\ plane' = plane
    BY <1>1, <1>3, <1>6 DEF DeleteRecord, Reads, Deleting
  <2>2. At(k, key)' = {}
    BY <1>1, <2>1, TargetIsAll, WithoutTarget
  <2>3. \A x \in recs' : x.kind # k \/ x.key # key
    BY <2>2 DEF At
  <2>4. {x \in Objects(recs') : x.kind = k /\ x.key = key} = {}
    BY <2>3 DEF Objects, AsObject
  <2>5. ASSUME ApiOf[k].delete \in {"lookup", "planeFirst"} PROVE InPlace(r)
    <3>1. ApiOf[k].apply = "object" /\ k # "functions"
      BY <1>1, <2>5, ApplyRows, DeleteRows
    <3>2. \A o \in plane' : o.kind # k \/ o.key # key
      BY <1>1, <2>1, <2>5 DEF LoneRequest, LoneDelete
    <3> QED
      BY <1>1, <2>1, <2>3, <3>1, <3>2 DEF InPlace
  <2> QED
    BY <1>1, <2>1, <2>4, <2>5 DEF Stands
<1>7. ~ ListForApply(r)
  <2>1. SUFFICES ASSUME ListForApply(r), project # "gone" PROVE FALSE
    BY <1>3 DEF ListForApply
  <2>2. PICK p : Onward(r, p) /\ p \in Request
    BY <1>1, <2>1, ListOnward DEF ListForApply
  <2>3. req'[r] = p
    BY <2>2 DEF Onward, AtomicInv, IInv, TypeInv
  <2> QED
    BY <1>2, <2>2, <2>3, NoRequestEnded DEF Ended
<1> QED
  BY <1>1, <1>3, <1>4, <1>5, <1>6, <1>7 DEF HandlerStep, WriteRejected, ApplyOk, ApplyFails,
     UndoByDelete, UndoByRestore, UndoByRebuild, Recreate, Lookup, RemoveOk, RemoveFails

\* A request with nothing beside it is all or nothing but for a save that fails,
\* for every number of requests before it and whatever they left behind.
THEOREM LoneRequestsAtomic == Spec => LoneRequestsAreAtomic
<1>1. AtomicInv /\ [Next]_vars =>
        [\A r \in Requests : alone[r] =>
           /\ Finishes(r, "failed") /\ req[r].kind \in Reversible => Undone(req[r])
           /\ Finishes(r, "ok") => saved' = Image'
           /\ Finishes(r, "ok") /\ ApiOf[req[r].kind].apply # "none" => InPlace(r)
           /\ Finishes(r, "unsaved") => Stands(r)]_vars
  BY LoneFails, LoneIsSaved, LoneSucceeds, LoneUnsaved
<1> QED
  BY <1>1, InitAtomic, NextAtomic, PTL DEF Spec, LoneRequestsAreAtomic
=============================================================================
