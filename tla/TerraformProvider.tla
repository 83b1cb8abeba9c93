------------------------- MODULE TerraformProvider -------------------------
(***************************************************************************)
(* The Terraform provider (internal/terraform): one resource of each kind  *)
(* it offers, between three copies of the truth, the user's configuration, *)
(* Terraform's state file and the records of the control plane.            *)
(*                                                                         *)
(* An apply reads the record into the state, plans what differs from the   *)
(* configuration and makes the calls of the plan.  A call's answer may be  *)
(* lost after its effect (client.do returns an error either way); others   *)
(* change the same records between and during applies.                     *)
(*                                                                         *)
(* A kind is three rows: PlanX, what its schema and ModifyPlan make of a   *)
(* difference; OpsX, what its Create, Read, Update, Delete and ImportState *)
(* do; CallX, what the calls of client.go do to the control plane.  Its    *)
(* attributes are three: a name (what identifies it to the user), a body,  *)
(* and a secret, which stands for the attributes that answers mask or      *)
(* leave out (for kinds that have none, for one more plain attribute).     *)
(***************************************************************************)
EXTENDS Naturals, FiniteSets

CONSTANTS Kinds,     \* the kinds of resources a behaviour may be about
          Configs,   \* the configurations the user writes, with name, body and secret
          None,      \* no resource in the configuration, or in the state
          NoSecret, Mask,   \* an empty secret, and the ******** of an answer
          Default,   \* the body of a record that has been reset
          Surprises  \* bounds edits, imports, changes elsewhere and lost calls

Names == {c.name : c \in Configs} \cup {None}
Bodies == {c.body : c \in Configs} \cup {Default}
Secrets == {c.secret : c \in Configs} \cup {NoSecret, Default}

\* What the state file may hold of the resource, and the control plane.
Resources == [id : Nat, name : Names, body : Bodies, secret : Secrets \cup {Mask}]
Records == [id : Nat, name : Names, body : Bodies, secret : Secrets,
            made : {"provider", "imported", "elsewhere"},
            by : {"provider", "lost", "elsewhere"}]

ASSUME ContentAssumption == \A c \in Configs : DOMAIN c = {"name", "body", "secret"}
ASSUME NoneAssumption == None \notin Configs \cup Resources
ASSUME MaskAssumption == Mask \notin Secrets
ASSUME SurprisesAssumption == Surprises \in Nat

-----------------------------------------------------------------------------
(* PlanX.  "update": changes are made in place.  "updateBody": so are     *)
(* they, but the attributes that identify the record force a replacement.  *)
(* "replace": every attribute does.  "modifyName" and "modifyId":        *)
(* ModifyPlan asks for a replacement on any difference, by naming the one  *)
(* attribute (requireResourceReplaceOnUpdate).                             *)

PlanOrg                         == "update"
PlanOrgMember                   == "updateBody"
PlanOrgQuota                    == "updateBody"
PlanOrgTeam                     == "replace"
PlanOrgTeamMember               == "replace"
PlanHost                        == "replace"
PlanPlatformDefaults            == "update"
PlanPlatformSSO                 == "update"
PlanBackupStorageTarget         == "update"
PlanProject                     == "replace"
PlanProjectAccessGrant          == "updateBody"
PlanProjectAnalyticsBucket      == "modifyName"
PlanProjectAuthClient           == "modifyName"
PlanProjectAuthHook             == "updateBody"
PlanProjectBackupPolicy         == "updateBody"
PlanProjectBranch               == "replace"
PlanProjectCDNPolicy            == "updateBody"
PlanProjectConfig               == "updateBody"
PlanProjectDatabaseCronJob      == "modifyName"
PlanProjectDatabaseExtension    == "updateBody"
PlanProjectDatabaseQueue        == "modifyName"
PlanProjectDatabaseRole         == "modifyName"
PlanProjectDatabaseSchema       == "modifyName"
PlanProjectDatabaseWebhook      == "modifyName"
PlanProjectDomain               == "replace"
PlanProjectEmbeddingJob         == "modifyId"
PlanProjectFunction             == "updateBody"
PlanProjectFunctionRegion       == "modifyId"
PlanProjectFunctionStorageMount == "modifyId"
PlanProjectLogDrain             == "update"
PlanProjectNetworkConnection    == "modifyId"
PlanProjectPITRPolicy           == "updateBody"
PlanProjectReplica              == "replace"
PlanProjectReplicationPipeline  == "modifyId"
PlanProjectStorageBucket        == "modifyName"
PlanProjectVectorBucket         == "modifyName"
-----------------------------------------------------------------------------
(* OpsX.  find: Read looks the record up by the name or the id in the      *)
(* state, or there is only one.  gone: when there is none, Read drops the  *)
(* resource from the state or reports an error.  remove: Delete deletes,   *)
(* puts the defaults back, or writes nothing.  body, secret: what the set- *)
(* State function takes from an answer, the value ("shown"), the value the *)
(* plan or the state had ("kept"), or that only where the answer says ***  *)
(* ("masked", preserveMaskedSensitiveValue).  import: it has ImportState.  *)

Ops(find, gone, remove, body, secret) ==
  [find |-> find, gone |-> gone, remove |-> remove, body |-> body, secret |-> secret,
   import |-> TRUE]

ByName       == Ops("name", "dropped", "delete", "shown", "shown")
ById         == Ops("id", "dropped", "delete", "shown", "shown")
Policy       == Ops("name", "error", "reset", "shown", "shown")
MaskedByName == [ByName EXCEPT !.secret = "masked"]
MaskedById   == [ById EXCEPT !.secret = "masked"]

OpsOrg                         == ById
OpsOrgMember                   == ByName
OpsOrgQuota                    == Policy
OpsOrgTeam                     == ByName
OpsOrgTeamMember               == ByName
OpsHost                        == ById
OpsPlatformDefaults            == [Policy EXCEPT !.find = "only"]
OpsPlatformSSO                 == [Policy EXCEPT !.find = "only", !.secret = "masked"]
OpsBackupStorageTarget         == [ById EXCEPT !.secret = "kept"]
OpsProject                     == [ByName EXCEPT !.secret = "kept"]   \* its services
OpsProjectAccessGrant          == ByName
OpsProjectAnalyticsBucket      == MaskedByName
OpsProjectAuthClient           == MaskedByName
OpsProjectAuthHook             == MaskedByName
OpsProjectBackupPolicy         == Policy
OpsProjectBranch               == [ByName EXCEPT !.secret = "kept"]   \* its lifetime
OpsProjectCDNPolicy            == Policy
OpsProjectConfig               == [ByName EXCEPT !.remove = "nothing"]
OpsProjectDatabaseCronJob      == MaskedByName
OpsProjectDatabaseExtension    == [ByName EXCEPT !.remove = "reset"]
OpsProjectDatabaseQueue        == MaskedByName
OpsProjectDatabaseRole         == MaskedByName
OpsProjectDatabaseSchema       == MaskedByName
OpsProjectDatabaseWebhook      == MaskedByName
OpsProjectDomain               == ByName
OpsProjectEmbeddingJob         == ById
OpsProjectFunction             == [MaskedByName EXCEPT !.body = "kept", !.import = FALSE]
OpsProjectFunctionRegion       == ById
OpsProjectFunctionStorageMount == ById
OpsProjectLogDrain             == MaskedById
OpsProjectNetworkConnection    == MaskedById
OpsProjectPITRPolicy           == Policy
OpsProjectReplica              == [ById EXCEPT !.find = "idOrName"]
OpsProjectReplicationPipeline  == MaskedById
OpsProjectStorageBucket        == MaskedByName
OpsProjectVectorBucket         == MaskedByName
-----------------------------------------------------------------------------
(* CallX.  write: creating under a name that is taken is refused (409,     *)
(* "conflict"), changes the record that has it ("upsert") or makes another *)
(* record ("append"); a record that is always there is "put".  keeps: an   *)
(* empty secret leaves the one that is stored.  parent: the organisation   *)
(* or project in the path; without it every call is answered 404.          *)
(* outlives: deleting the parent leaves the records (deleteProjectLocked   *)
(* drops the registry of branches, not the branch projects).  refuses: a   *)
(* record in use is not deleted, an organisation with projects, a host     *)
(* with reservations, a promoted replica (409).                            *)

Call(write, parent) ==
  [write |-> write, keeps |-> FALSE, parent |-> parent, outlives |-> FALSE, refuses |-> FALSE]

CallOrg                         == [Call("append", FALSE) EXCEPT !.refuses = TRUE]
CallOrgMember                   == Call("upsert", TRUE)
CallOrgQuota                    == Call("put", TRUE)
CallOrgTeam                     == Call("conflict", TRUE)
CallOrgTeamMember               == Call("upsert", TRUE)
CallHost                        == [Call("append", FALSE) EXCEPT !.refuses = TRUE]
CallPlatformDefaults            == Call("put", FALSE)
CallPlatformSSO                 == Call("put", FALSE)
CallBackupStorageTarget         == [Call("append", FALSE) EXCEPT !.keeps = TRUE]
CallProject                     == Call("conflict", FALSE)
CallProjectAccessGrant          == Call("upsert", TRUE)
CallProjectAnalyticsBucket      == Call("conflict", TRUE)
CallProjectAuthClient           == Call("conflict", TRUE)
CallProjectAuthHook             == Call("upsert", TRUE)
CallProjectBackupPolicy         == Call("put", TRUE)
CallProjectBranch               == [Call("conflict", TRUE) EXCEPT !.outlives = TRUE]
CallProjectCDNPolicy            == Call("put", TRUE)
CallProjectConfig               == [Call("put", TRUE) EXCEPT !.keeps = TRUE]   \* settings not sent
CallProjectDatabaseCronJob      == Call("conflict", TRUE)
CallProjectDatabaseExtension    == Call("put", TRUE)
CallProjectDatabaseQueue        == Call("conflict", TRUE)
CallProjectDatabaseRole         == Call("conflict", TRUE)
CallProjectDatabaseSchema       == Call("conflict", TRUE)
CallProjectDatabaseWebhook      == Call("conflict", TRUE)
CallProjectDomain               == Call("conflict", TRUE)
CallProjectEmbeddingJob         == Call("conflict", TRUE)
CallProjectFunction             == Call("upsert", TRUE)
CallProjectFunctionRegion       == Call("upsert", TRUE)
CallProjectFunctionStorageMount == Call("conflict", TRUE)
CallProjectLogDrain             == Call("append", TRUE)
CallProjectNetworkConnection    == Call("conflict", TRUE)
CallProjectPITRPolicy           == Call("put", TRUE)
CallProjectReplica              == [Call("conflict", TRUE) EXCEPT !.refuses = TRUE]
CallProjectReplicationPipeline  == Call("conflict", TRUE)
CallProjectStorageBucket        == Call("conflict", TRUE)
CallProjectVectorBucket         == Call("conflict", TRUE)

PlanOf ==
  [org |-> PlanOrg, org_member |-> PlanOrgMember, org_quota |-> PlanOrgQuota,
   org_team |-> PlanOrgTeam, org_team_member |-> PlanOrgTeamMember, host |-> PlanHost,
   platform_defaults |-> PlanPlatformDefaults, platform_sso |-> PlanPlatformSSO,
   backup_storage_target |-> PlanBackupStorageTarget, project |-> PlanProject,
   project_access_grant |-> PlanProjectAccessGrant,
   project_analytics_bucket |-> PlanProjectAnalyticsBucket,
   project_auth_client |-> PlanProjectAuthClient,
   project_auth_hook |-> PlanProjectAuthHook,
   project_backup_policy |-> PlanProjectBackupPolicy,
   project_branch |-> PlanProjectBranch, project_cdn_policy |-> PlanProjectCDNPolicy,
   project_config |-> PlanProjectConfig,
   project_database_cron_job |-> PlanProjectDatabaseCronJob,
   project_database_extension |-> PlanProjectDatabaseExtension,
   project_database_queue |-> PlanProjectDatabaseQueue,
   project_database_role |-> PlanProjectDatabaseRole,
   project_database_schema |-> PlanProjectDatabaseSchema,
   project_database_webhook |-> PlanProjectDatabaseWebhook,
   project_domain |-> PlanProjectDomain,
   project_embedding_job |-> PlanProjectEmbeddingJob,
   project_function |-> PlanProjectFunction,
   project_function_region |-> PlanProjectFunctionRegion,
   project_function_storage_mount |-> PlanProjectFunctionStorageMount,
   project_log_drain |-> PlanProjectLogDrain,
   project_network_connection |-> PlanProjectNetworkConnection,
   project_pitr_policy |-> PlanProjectPITRPolicy,
   project_replica |-> PlanProjectReplica,
   project_replication_pipeline |-> PlanProjectReplicationPipeline,
   project_storage_bucket |-> PlanProjectStorageBucket,
   project_vector_bucket |-> PlanProjectVectorBucket]

OpsOf ==
  [org |-> OpsOrg, org_member |-> OpsOrgMember, org_quota |-> OpsOrgQuota,
   org_team |-> OpsOrgTeam, org_team_member |-> OpsOrgTeamMember, host |-> OpsHost,
   platform_defaults |-> OpsPlatformDefaults, platform_sso |-> OpsPlatformSSO,
   backup_storage_target |-> OpsBackupStorageTarget, project |-> OpsProject,
   project_access_grant |-> OpsProjectAccessGrant,
   project_analytics_bucket |-> OpsProjectAnalyticsBucket,
   project_auth_client |-> OpsProjectAuthClient,
   project_auth_hook |-> OpsProjectAuthHook,
   project_backup_policy |-> OpsProjectBackupPolicy,
   project_branch |-> OpsProjectBranch, project_cdn_policy |-> OpsProjectCDNPolicy,
   project_config |-> OpsProjectConfig,
   project_database_cron_job |-> OpsProjectDatabaseCronJob,
   project_database_extension |-> OpsProjectDatabaseExtension,
   project_database_queue |-> OpsProjectDatabaseQueue,
   project_database_role |-> OpsProjectDatabaseRole,
   project_database_schema |-> OpsProjectDatabaseSchema,
   project_database_webhook |-> OpsProjectDatabaseWebhook,
   project_domain |-> OpsProjectDomain,
   project_embedding_job |-> OpsProjectEmbeddingJob,
   project_function |-> OpsProjectFunction,
   project_function_region |-> OpsProjectFunctionRegion,
   project_function_storage_mount |-> OpsProjectFunctionStorageMount,
   project_log_drain |-> OpsProjectLogDrain,
   project_network_connection |-> OpsProjectNetworkConnection,
   project_pitr_policy |-> OpsProjectPITRPolicy, project_replica |-> OpsProjectReplica,
   project_replication_pipeline |-> OpsProjectReplicationPipeline,
   project_storage_bucket |-> OpsProjectStorageBucket,
   project_vector_bucket |-> OpsProjectVectorBucket]

CallOf ==
  [org |-> CallOrg, org_member |-> CallOrgMember, org_quota |-> CallOrgQuota,
   org_team |-> CallOrgTeam, org_team_member |-> CallOrgTeamMember, host |-> CallHost,
   platform_defaults |-> CallPlatformDefaults, platform_sso |-> CallPlatformSSO,
   backup_storage_target |-> CallBackupStorageTarget, project |-> CallProject,
   project_access_grant |-> CallProjectAccessGrant,
   project_analytics_bucket |-> CallProjectAnalyticsBucket,
   project_auth_client |-> CallProjectAuthClient,
   project_auth_hook |-> CallProjectAuthHook,
   project_backup_policy |-> CallProjectBackupPolicy,
   project_branch |-> CallProjectBranch, project_cdn_policy |-> CallProjectCDNPolicy,
   project_config |-> CallProjectConfig,
   project_database_cron_job |-> CallProjectDatabaseCronJob,
   project_database_extension |-> CallProjectDatabaseExtension,
   project_database_queue |-> CallProjectDatabaseQueue,
   project_database_role |-> CallProjectDatabaseRole,
   project_database_schema |-> CallProjectDatabaseSchema,
   project_database_webhook |-> CallProjectDatabaseWebhook,
   project_domain |-> CallProjectDomain,
   project_embedding_job |-> CallProjectEmbeddingJob,
   project_function |-> CallProjectFunction,
   project_function_region |-> CallProjectFunctionRegion,
   project_function_storage_mount |-> CallProjectFunctionStorageMount,
   project_log_drain |-> CallProjectLogDrain,
   project_network_connection |-> CallProjectNetworkConnection,
   project_pitr_policy |-> CallProjectPITRPolicy,
   project_replica |-> CallProjectReplica,
   project_replication_pipeline |-> CallProjectReplicationPipeline,
   project_storage_bucket |-> CallProjectStorageBucket,
   project_vector_bucket |-> CallProjectVectorBucket]

ASSUME KindsAssumption == Kinds \subseteq DOMAIN PlanOf
-----------------------------------------------------------------------------
VARIABLES
  kind,    \* the kind this behaviour is about
  conf,    \* the resource in the configuration
  tf,      \* the resource in the state file
  srv,     \* the control plane's records of the kind; made and by are history:
           \* who created the record (or imported it), and who wrote it last
           \* ("lost": an apply that did not learn of it; of an imported one the
           \* state knows what answers show, as of one written "elsewhere")
  parent,  \* the organisation or project is there
  used,    \* ids of records that are in use
  run,     \* where the apply is: "idle" (none, or it failed), "done", or the next call
  ids,     \* the ids given to records so far
  quiet,   \* history: nothing changed elsewhere since the apply's Read
  unknown, \* history: ids of records the provider does not know of, because their
           \* creation was not answered or a Delete took them for gone
  shared,  \* history: ids of records that were imported, written elsewhere, or
           \* written by a call that was not answered
  left     \* surprises left

vars == <<kind, conf, tf, srv, parent, used, run, ids, quiet, unknown, shared, left>>

plan == PlanOf[kind]
ops  == OpsOf[kind]
call == CallOf[kind]

\* The parent is gone, the records are not.
Orphaned == call.outlives /\ ~parent

Blank == [name |-> None, body |-> None, secret |-> NoSecret]
Applying == {"create", "update", "delete", "replace"}

\* The control plane's side of the calls.  A put kind has its record from
\* the start, under the id 0.

NewRecord(id, c, who) ==
  [id |-> id, name |-> c.name, body |-> c.body, secret |-> c.secret,
   made |-> IF who = "elsewhere" THEN who ELSE "provider", by |-> who]

ChangedRecord(r, c, who) ==
  [r EXCEPT !.name = c.name, !.body = c.body, !.by = who,
            !.secret = IF call.keeps /\ c.secret = NoSecret THEN @ ELSE c.secret]

\* The record a write of c goes to, when it does not make one.
Target(c) ==
  {r \in srv : /\ call.write # "append"
               /\ ops.find = "only" \/ r.name = c.name}

\* validateStorageTarget: a target is created with a secret.
CreateAllowed(c) ==
  /\ call.parent => parent
  /\ call.write = "conflict" => Target(c) = {}
  /\ kind = "backup_storage_target" => c.secret # NoSecret

\* srv after c has been created, and the record that was written.
Creation(c, who) ==
  IF Target(c) = {}
    THEN [record |-> NewRecord(ids + 1, c, who), old |-> {}]
    ELSE LET r == CHOOSE t \in Target(c) : TRUE
         IN [record |-> ChangedRecord(r, c, who), old |-> {r}]

AfterReset(r, who) == [r EXCEPT !.body = Default, !.secret = NoSecret, !.by = who]
-----------------------------------------------------------------------------
(* The provider's side.                                                    *)

\* (mutant of preserveMaskedSensitiveValue) the mask of the answer is believed
BelieveMaskedSensitiveValue(remote, previous) ==
  IF remote = NoSecret THEN NoSecret ELSE Mask

\* What the state gets for a secret the answer masks.
preserveMaskedSensitiveValue(remote, previous) ==
  IF remote = NoSecret THEN NoSecret
  ELSE IF previous # NoSecret THEN previous ELSE Mask

\* set...State: the state made of record r, where prev is the plan or the
\* state the operation started from.
StateOf(r, prev) ==
  [id     |-> r.id,
   name   |-> r.name,
   body   |-> IF ops.body = "kept" THEN prev.body ELSE r.body,
   secret |-> CASE ops.secret = "kept"   -> prev.secret
                [] ops.secret = "masked" -> preserveMaskedSensitiveValue(r.secret, prev.secret)
                [] ops.secret = "shown"  -> r.secret]

\* findInList, or the GET of the one record.
Found(s) ==
  {r \in srv : CASE ops.find = "name" -> r.name = s.name
                 [] ops.find = "id"   -> r.id = s.id
                 [] ops.find = "only" -> TRUE
                 [] ops.find = "idOrName" -> r.id = s.id \/ r.name = s.name}

\* The records Update and Delete address.
Addressed(s) ==
  IF ops.find = "idOrName" THEN {r \in srv : r.id = s.id} ELSE Found(s)

\* (mutant of Differs) the sensitive attributes are left out of the comparison
DiffersInTheOpen(s, c) == s.name # c.name \/ s.body # c.body

Differs(s, c) == s.name # c.name \/ s.body # c.body \/ s.secret # c.secret

\* What Terraform may do about a difference.  For ModifyPlan's request it is
\* Terraform (external) that decides whether an attribute whose value has not
\* changed forces a replacement; without one it calls Update.
ChangeSteps(s, c) ==
  CASE plan = "update"      -> {"update"}
    [] plan = "updateBody" -> IF s.name # c.name THEN {"replace"} ELSE {"update"}
    [] plan = "replace"     -> {"replace"}
    [] plan = "modifyName" -> IF s.name # c.name THEN {"replace"} ELSE {"replace", "update"}
    [] plan = "modifyId"   -> {"replace", "update"}

PlannedSteps(s, c) ==
  CASE s = None /\ c = None -> {"done"}
    [] s = None /\ c # None -> {"create"}
    [] s # None /\ c = None -> {"delete"}
    [] s # None /\ c # None -> IF Differs(s, c) THEN ChangeSteps(s, c) ELSE {"done"}
-----------------------------------------------------------------------------
TypeOK ==
  /\ kind \in Kinds /\ conf \in Configs \cup {None}
  /\ tf \in Resources \cup {None} /\ (tf # None => tf.id \in 0..ids)
  /\ srv \subseteq Records /\ \A r \in srv : r.id \in 0..ids
  /\ run \in Applying \cup {"idle", "done"} /\ parent \in BOOLEAN /\ quiet \in BOOLEAN
  /\ used \subseteq 0..ids
  /\ ids \in Nat /\ unknown \subseteq 0..ids /\ shared \subseteq 0..ids /\ left \in 0..Surprises

Init ==
  /\ kind \in Kinds /\ conf \in Configs
  /\ tf = None /\ parent = TRUE /\ used = {} /\ run = "idle" /\ ids = 0 /\ quiet = TRUE
  /\ unknown = {} /\ shared = {} /\ left = Surprises
  /\ srv = IF call.write # "put" THEN {}
           ELSE {[id |-> 0, name |-> n, body |-> Default,
                  secret |-> IF call.keeps THEN Default ELSE NoSecret,
                  made |-> "elsewhere", by |-> "elsewhere"] :
                 n \in IF ops.find = "only" THEN {None} ELSE {c.name : c \in Configs}}
-----------------------------------------------------------------------------
(* An apply.                                                               *)

\* (mutant of ReadGone) every Read reports a record that is gone as an error
ReadGoneReported ==
  /\ run' = "idle"
  /\ UNCHANGED tf

\* Read when the lookup says ErrNotFound: RemoveResource, and the plan goes on
\* without the resource, or the apply ends with the error.
ReadGone ==
  \/ /\ ops.gone = "dropped"
     /\ tf' = None
     /\ run' \in PlannedSteps(None, conf)
  \/ /\ ops.gone = "error"
     /\ run' = "idle"
     /\ UNCHANGED tf

\* Refresh and plan.
Read ==
  /\ run \in {"idle", "done"}
  /\ \/ /\ tf = None
        /\ run' \in PlannedSteps(None, conf)
        /\ UNCHANGED tf
     \/ /\ tf # None /\ Found(tf) # {}
        /\ \E r \in Found(tf) :
             /\ tf' = StateOf(r, tf)
             /\ run' \in PlannedSteps(StateOf(r, tf), conf)
     \/ tf # None /\ Found(tf) = {} /\ ReadGone
  /\ quiet' = TRUE
  /\ UNCHANGED <<kind, conf, srv, parent, used, ids, unknown, shared, left>>

\* The effect of a create call, or of an update that is one (upsert, put).
CreateOnServer(who) ==
  LET made == Creation(conf, who)
  IN /\ srv' = (srv \ made.old) \cup {made.record}
     /\ ids' = IF made.old = {} THEN ids + 1 ELSE ids
     /\ unknown' = IF who = "lost" THEN unknown \cup ({made.record.id} \ {r.id : r \in made.old})
                                   ELSE unknown \ {made.record.id}
     /\ shared' = IF who = "lost" THEN shared \cup {made.record.id} ELSE shared

Create ==
  /\ run = "create" /\ CreateAllowed(conf)
  /\ CreateOnServer("provider")
  /\ tf' = StateOf(Creation(conf, "provider").record, conf)
  /\ run' = "done"
  /\ UNCHANGED <<kind, conf, parent, used, quiet, left>>

\* The control plane has done it; the answer is lost, late or not decodable.
\* Create reports the error and saves no state.
CreateUnanswered ==
  /\ run = "create" /\ CreateAllowed(conf) /\ left > 0
  /\ CreateOnServer("lost")
  /\ run' = "idle" /\ left' = left - 1
  /\ UNCHANGED <<kind, conf, tf, parent, used, quiet>>

InPlace == plan \in {"update", "updateBody"}

\* Update by PUT or by the same POST as Create, or by PATCH on the id.
UpdateAllowed ==
  /\ InPlace
  /\ call.parent => parent
  /\ call.write = "append" => Addressed(tf) # {}

UpdateOnServer(who) ==
  IF call.write # "append" THEN CreateOnServer(who)
  ELSE /\ srv' = {IF r \in Addressed(tf) THEN ChangedRecord(r, conf, who) ELSE r : r \in srv}
       /\ shared' = IF who = "lost" THEN shared \cup {r.id : r \in Addressed(tf)} ELSE shared
       /\ UNCHANGED <<ids, unknown>>

Updated ==
  IF call.write # "append" THEN Creation(conf, "provider").record
  ELSE ChangedRecord(CHOOSE r \in Addressed(tf) : TRUE, conf, "provider")

Update ==
  /\ run = "update" /\ UpdateAllowed
  /\ UpdateOnServer("provider")
  /\ tf' = StateOf(Updated, conf)
  /\ run' = "done"
  /\ UNCHANGED <<kind, conf, parent, used, quiet, left>>

\* The state stays as Read left it.
UpdateUnanswered ==
  /\ run = "update" /\ UpdateAllowed /\ left > 0
  /\ UpdateOnServer("lost")
  /\ run' = "idle" /\ left' = left - 1
  /\ UNCHANGED <<kind, conf, tf, parent, used, quiet>>

\* (mutant of Delete) a delete that was refused counts as done
DeleteIgnoringErrors ==
  /\ run \in {"delete", "replace"}
  /\ tf' = None
  /\ run' = IF run = "delete" THEN "done" ELSE "create"
  /\ UNCHANGED <<kind, conf, srv, parent, used, ids, quiet, unknown, shared, left>>

\* A delete is answered 404 when the record is gone, a reset only when the
\* parent is: Delete tolerates ErrNotFound, except for the kinds whose Read
\* does not.  The conflict of a record in use it reports.
DeleteAllowed ==
  /\ ops.gone = "error" => (call.parent => parent)
  /\ \A r \in Addressed(tf) : r.id \notin used

\* An orphan is not found any more by the path through its parent.
DeleteOnServer(who) ==
  srv' = CASE ops.remove = "delete"  -> IF Orphaned THEN srv ELSE srv \ Addressed(tf)
           [] ops.remove = "reset"   -> {IF r \in Addressed(tf) THEN AfterReset(r, who) ELSE r : r \in srv}
           [] ops.remove = "nothing" -> srv

Delete ==
  /\ run \in {"delete", "replace"} /\ DeleteAllowed
  /\ DeleteOnServer("provider")
  /\ tf' = None
  /\ run' = IF run = "delete" THEN "done" ELSE "create"
  /\ unknown' = IF Orphaned THEN unknown \cup {r.id : r \in Addressed(tf)} ELSE unknown
  /\ UNCHANGED <<kind, conf, parent, used, ids, quiet, shared, left>>

DeleteUnanswered ==
  /\ run \in {"delete", "replace"} /\ DeleteAllowed /\ left > 0
  /\ DeleteOnServer("lost")
  /\ run' = "idle" /\ left' = left - 1
  /\ UNCHANGED <<kind, conf, tf, parent, used, ids, quiet, unknown, shared>>

\* The calls the control plane answers with an error other than 404 where
\* 404 is fine, and the Update that always reports one
\* (reportUnsupportedInPlaceUpdate).
Blocked == \/ run = "create" /\ ~CreateAllowed(conf)
           \/ run = "update" /\ ~UpdateAllowed
           \/ run \in {"delete", "replace"} /\ ~DeleteAllowed

\* A call without effect ends the apply with an error: it is blocked or, a
\* surprise, it never arrives.  client.do makes no difference.
CallFails ==
  /\ run \in Applying
  /\ Blocked \/ left > 0
  /\ left' = IF Blocked THEN left ELSE left - 1
  /\ run' = "idle"
  /\ UNCHANGED <<kind, conf, tf, srv, parent, used, ids, quiet, unknown, shared>>
-----------------------------------------------------------------------------
(* What the user and others do.                                            *)

EditConfiguration ==
  /\ run \in {"idle", "done"} /\ left > 0
  /\ conf' \in (Configs \cup {None}) \ {conf}
  /\ run' = "idle" /\ left' = left - 1
  /\ UNCHANGED <<kind, tf, srv, parent, used, ids, quiet, unknown, shared>>

\* ImportState sets what Read looks a record up by, and Read does the rest.
ImportState ==
  /\ run \in {"idle", "done"} /\ left > 0
  /\ ops.import /\ tf = None /\ conf # None
  /\ \E r \in srv : /\ tf' = StateOf(r, Blank)
                    /\ srv' = (srv \ {r}) \cup {[r EXCEPT !.made = "imported", !.by = "elsewhere"]}
                    /\ shared' = shared \cup {r.id}
                    /\ unknown' = unknown \ {r.id}
  /\ run' = "idle" /\ left' = left - 1
  /\ UNCHANGED <<kind, conf, parent, used, ids, quiet>>

ChangeElsewhere ==
  /\ left > 0
  /\ \E r \in srv, c \in Configs :
       /\ ops.find # "only" => c.name = r.name
       /\ srv' = (srv \ {r}) \cup {ChangedRecord(r, c, "elsewhere")}
       /\ shared' = shared \cup {r.id}
  /\ quiet' = FALSE /\ left' = left - 1
  /\ UNCHANGED <<kind, conf, tf, parent, used, run, ids, unknown>>

CreateElsewhere ==
  /\ left > 0
  /\ \E c \in Configs :
       /\ CreateAllowed(c) /\ Target(c) = {}
       /\ srv' = srv \cup {NewRecord(ids + 1, c, "elsewhere")}
  /\ ids' = ids + 1 /\ shared' = shared \cup {ids + 1}
  /\ quiet' = FALSE /\ left' = left - 1
  /\ UNCHANGED <<kind, conf, tf, parent, used, run, unknown>>

DeleteElsewhere ==
  /\ left > 0 /\ call.write # "put"
  /\ \E r \in srv : r.id \notin used /\ srv' = srv \ {r}
  /\ quiet' = FALSE /\ left' = left - 1
  /\ UNCHANGED <<kind, conf, tf, parent, used, run, ids, unknown, shared>>

DeleteParent ==
  /\ left > 0 /\ call.parent /\ parent
  /\ parent' = FALSE
  /\ srv' = IF call.outlives THEN srv ELSE {}
  /\ quiet' = FALSE /\ left' = left - 1
  /\ UNCHANGED <<kind, conf, tf, used, run, ids, unknown, shared>>

\* A project is put in the organisation or on the host, or the replica is
\* promoted.
Occupy ==
  /\ left > 0 /\ call.refuses
  /\ \E r \in srv : r.id \notin used /\ used' = used \cup {r.id}
  /\ left' = left - 1
  /\ UNCHANGED <<kind, conf, tf, srv, parent, run, ids, quiet, unknown, shared>>

\* The last project goes, or another replica is promoted.
Vacate ==
  /\ left > 0
  /\ \E id \in used : used' = used \ {id}
  /\ left' = left - 1
  /\ UNCHANGED <<kind, conf, tf, srv, parent, run, ids, quiet, unknown, shared>>

Apply == \/ Read \/ Create \/ CreateUnanswered \/ Update \/ UpdateUnanswered
         \/ Delete \/ DeleteUnanswered \/ CallFails

Next == \/ Apply \/ EditConfiguration \/ ImportState
        \/ ChangeElsewhere \/ CreateElsewhere \/ DeleteElsewhere \/ DeleteParent
        \/ Occupy \/ Vacate

\* An apply that was started ends, and one that failed is started again.
Spec == Init /\ [][Next]_vars /\ WF_vars(Apply)
-----------------------------------------------------------------------------
\* An apply that succeeded left the control plane as configured: the record
\* of the state is there, with the configured name, and with the configured
\* body and secret where the provider was the last to write them; where it
\* was not, those an answer shows.  Nothing changed elsewhere during the apply.
AppliedIsServed ==
  run = "done" /\ quiet /\ conf # None =>
    /\ tf # None
    /\ \E r \in srv :
         /\ r.id = tf.id /\ r.name = conf.name
         /\ r.by = "provider" \/ ops.body = "shown" => r.body = conf.body
         /\ r.by = "provider" \/ ops.secret = "shown" =>
              r.secret = conf.secret \/ (call.keeps /\ conf.secret = NoSecret)

\* What the provider created and was told of, or imported, is in the state
\* file, whatever calls failed since: nothing is left behind that no later
\* apply or destroy would find, but a branch that was destroyed after its
\* source project: Delete takes the 404 of the missing source for success, and
\* the branch project stays.  (Not for records that are always there.)
NothingForgotten ==
  call.write # "put" =>
    \A r \in srv : r.made # "elsewhere" /\ r.id \notin unknown =>
                     tf # None /\ tf.id = r.id

\* The state never shows the mask in place of a secret that this
\* configuration wrote and was told of: only a record that was imported, or
\* written elsewhere or by a call without an answer, brings it there, so no
\* apply plans a change of a secret that is already what it should be.
OwnSecretsStayKnown ==
  tf # None /\ tf.secret = Mask => tf.id \in shared

Settled ==
  IF conf = None THEN tf = None
  ELSE /\ tf # None /\ tf.name = conf.name /\ tf.body = conf.body
       /\ tf.secret = conf.secret \/ (call.keeps /\ conf.secret = NoSecret)

\* A kind that is changed in place reaches its configuration, and stays
\* there, however applies failed before: applies repeat until they succeed,
\* and find nothing in their way but a parent that is gone, an organisation to
\* be deleted that still has projects, or a new storage target without a secret.
InPlaceKindsConverge ==
  InPlace => <>[](\/ Settled
                  \/ ~parent
                  \/ kind = "org" /\ conf = None /\ tf # None /\ tf.id \in used
                  \/ kind = "backup_storage_target" /\ conf # None /\ conf.secret = NoSecret)
=============================================================================
