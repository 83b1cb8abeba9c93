---------------------- MODULE TerraformProviderProofs ----------------------
(***************************************************************************)
(* For every choice of kinds, every configuration and any number of        *)
(* surprises: an apply that succeeded left what is configured, no record   *)
(* that the provider was told of is forgotten (but orphaned branches that  *)
(* a destroy takes for gone), and the state shows the                      *)
(* mask only for what others wrote or an answer did not reach.             *)
(***************************************************************************)
EXTENDS TerraformProvider, TLAPS

-----------------------------------------------------------------------------
(* The rows of the kinds. *)

\* What goes together in the schema p, the operations o and the calls w of a
\* kind: what its Read looks a record up by and what its Delete does follow from
\* how its create call treats a name that is taken.
Row(p, o, w) ==
  /\ p \in {"update", "updateBody", "replace", "modifyName", "modifyId"}
  /\ w.write \in {"append", "conflict", "upsert", "put"}
  /\ o.find \in {"name", "id", "only", "idOrName"}
  /\ o.gone \in {"dropped", "error"}
  /\ o.remove \in {"delete", "reset", "nothing"}
  /\ o.body \in {"shown", "kept"}
  /\ o.secret \in {"shown", "kept", "masked"}
  /\ w.write = "append" => o.find = "id"
  /\ w.write # "put" => o.find # "only" /\ o.gone = "dropped" /\ o.remove = "delete"
  /\ w.write = "put" => /\ o.find \in {"name", "only"} /\ o.remove # "delete"
                        /\ o.body = "shown" /\ o.secret # "kept"
                        /\ o.secret = "masked" => o.find = "only"
  /\ p \in {"update", "updateBody"} /\ w.write \notin {"append", "put"} =>
       p = "updateBody" /\ w.write = "upsert" /\ o.find = "name"
  /\ p \in {"update", "updateBody"} => o.find # "idOrName"
  /\ o.secret = "masked" => ~w.keeps
  /\ o.body = "kept" => ~o.import
  /\ w.outlives => /\ w.parent /\ w.write = "conflict" /\ p = "replace"
                   /\ o.find = "name" /\ o.secret # "masked"

LEMMA KindNames ==
  /\ DOMAIN PlanOf = {"org", "org_member", "org_quota", "org_team", "org_team_member", "host", "platform_defaults", "platform_sso", "backup_storage_target", "project", "project_access_grant", "project_analytics_bucket", "project_auth_client", "project_auth_hook", "project_backup_policy", "project_branch", "project_cdn_policy", "project_config", "project_database_cron_job", "project_database_extension", "project_database_queue", "project_database_role", "project_database_schema", "project_database_webhook", "project_domain", "project_embedding_job", "project_function", "project_function_region", "project_function_storage_mount", "project_log_drain", "project_network_connection", "project_pitr_policy", "project_replica", "project_replication_pipeline", "project_storage_bucket", "project_vector_bucket"}
  /\ DOMAIN OpsOf = DOMAIN PlanOf /\ DOMAIN CallOf = DOMAIN PlanOf
  BY DEF PlanOf, OpsOf, CallOf

LEMMA Rows == \A k \in DOMAIN PlanOf : Row(PlanOf[k], OpsOf[k], CallOf[k])
<1>1. Row(PlanOf["org"], OpsOf["org"], CallOf["org"])
  BY DEF Row, Ops, Call, ByName, ById, Policy, MaskedByName, MaskedById, PlanOf, OpsOf, CallOf, PlanOrg, OpsOrg, CallOrg
<1>2. Row(PlanOf["org_member"], OpsOf["org_member"], CallOf["org_member"])
  BY DEF Row, Ops, Call, ByName, ById, Policy, MaskedByName, MaskedById, PlanOf, OpsOf, CallOf, PlanOrgMember, OpsOrgMember, CallOrgMember
<1>3. Row(PlanOf["org_quota"], OpsOf["org_quota"], CallOf["org_quota"])
  BY DEF Row, Ops, Call, ByName, ById, Policy, MaskedByName, MaskedById, PlanOf, OpsOf, CallOf, PlanOrgQuota, OpsOrgQuota, CallOrgQuota
<1>4. Row(PlanOf["org_team"], OpsOf["org_team"], CallOf["org_team"])
  BY DEF Row, Ops, Call, ByName, ById, Policy, MaskedByName, MaskedById, PlanOf, OpsOf, CallOf, PlanOrgTeam, OpsOrgTeam, CallOrgTeam
<1>5. Row(PlanOf["org_team_member"], OpsOf["org_team_member"], CallOf["org_team_member"])
  BY DEF Row, Ops, Call, ByName, ById, Policy, MaskedByName, MaskedById, PlanOf, OpsOf, CallOf, PlanOrgTeamMember, OpsOrgTeamMember, CallOrgTeamMember
<1>6. Row(PlanOf["host"], OpsOf["host"], CallOf["host"])
  BY DEF Row, Ops, Call, ByName, ById, Policy, MaskedByName, MaskedById, PlanOf, OpsOf, CallOf, PlanHost, OpsHost, CallHost
<1>7. Row(PlanOf["platform_defaults"], OpsOf["platform_defaults"], CallOf["platform_defaults"])
  BY DEF Row, Ops, Call, ByName, ById, Policy, MaskedByName, MaskedById, PlanOf, OpsOf, CallOf, PlanPlatformDefaults, OpsPlatformDefaults, CallPlatformDefaults
<1>8. Row(PlanOf["platform_sso"], OpsOf["platform_sso"], CallOf["platform_sso"])
  BY DEF Row, Ops, Call, ByName, ById, Policy, MaskedByName, MaskedById, PlanOf, OpsOf, CallOf, PlanPlatformSSO, OpsPlatformSSO, CallPlatformSSO
<1>9. Row(PlanOf["backup_storage_target"], OpsOf["backup_storage_target"], CallOf["backup_storage_target"])
  BY DEF Row, Ops, Call, ByName, ById, Policy, MaskedByName, MaskedById, PlanOf, OpsOf, CallOf, PlanBackupStorageTarget, OpsBackupStorageTarget, CallBackupStorageTarget
<1>10. Row(PlanOf["project"], OpsOf["project"], CallOf["project"])
  BY DEF Row, Ops, Call, ByName, ById, Policy, MaskedByName, MaskedById, PlanOf, OpsOf, CallOf, PlanProject, OpsProject, CallProject
<1>11. Row(PlanOf["project_access_grant"], OpsOf["project_access_grant"], CallOf["project_access_grant"])
  BY DEF Row, Ops, Call, ByName, ById, Policy, MaskedByName, MaskedById, PlanOf, OpsOf, CallOf, PlanProjectAccessGrant, OpsProjectAccessGrant, CallProjectAccessGrant
<1>12. Row(PlanOf["project_analytics_bucket"], OpsOf["project_analytics_bucket"], CallOf["project_analytics_bucket"])
  BY DEF Row, Ops, Call, ByName, ById, Policy, MaskedByName, MaskedById, PlanOf, OpsOf, CallOf, PlanProjectAnalyticsBucket, OpsProjectAnalyticsBucket, CallProjectAnalyticsBucket
<1>13. Row(PlanOf["project_auth_client"], OpsOf["project_auth_client"], CallOf["project_auth_client"])
  BY DEF Row, Ops, Call, ByName, ById, Policy, MaskedByName, MaskedById, PlanOf, OpsOf, CallOf, PlanProjectAuthClient, OpsProjectAuthClient, CallProjectAuthClient
<1>14. Row(PlanOf["project_auth_hook"], OpsOf["project_auth_hook"], CallOf["project_auth_hook"])
  BY DEF Row, Ops, Call, ByName, ById, Policy, MaskedByName, MaskedById, PlanOf, OpsOf, CallOf, PlanProjectAuthHook, OpsProjectAuthHook, CallProjectAuthHook
<1>15. Row(PlanOf["project_backup_policy"], OpsOf["project_backup_policy"], CallOf["project_backup_policy"])
  BY DEF Row, Ops, Call, ByName, ById, Policy, MaskedByName, MaskedById, PlanOf, OpsOf, CallOf, PlanProjectBackupPolicy, OpsProjectBackupPolicy, CallProjectBackupPolicy
<1>16. Row(PlanOf["project_branch"], OpsOf["project_branch"], CallOf["project_branch"])
  BY DEF Row, Ops, Call, ByName, ById, Policy, MaskedByName, MaskedById, PlanOf, OpsOf, CallOf, PlanProjectBranch, OpsProjectBranch, CallProjectBranch
<1>17. Row(PlanOf["project_cdn_policy"], OpsOf["project_cdn_policy"], CallOf["project_cdn_policy"])
  BY DEF Row, Ops, Call, ByName, ById, Policy, MaskedByName, MaskedById, PlanOf, OpsOf, CallOf, PlanProjectCDNPolicy, OpsProjectCDNPolicy, CallProjectCDNPolicy
<1>18. Row(PlanOf["project_config"], OpsOf["project_config"], CallOf["project_config"])
  BY DEF Row, Ops, Call, ByName, ById, Policy, MaskedByName, MaskedById, PlanOf, OpsOf, CallOf, PlanProjectConfig, OpsProjectConfig, CallProjectConfig
<1>19. Row(PlanOf["project_database_cron_job"], OpsOf["project_database_cron_job"], CallOf["project_database_cron_job"])
  BY DEF Row, Ops, Call, ByName, ById, Policy, MaskedByName, MaskedById, PlanOf, OpsOf, CallOf, PlanProjectDatabaseCronJob, OpsProjectDatabaseCronJob, CallProjectDatabaseCronJob
<1>20. Row(PlanOf["project_database_extension"], OpsOf["project_database_extension"], CallOf["project_database_extension"])
  BY DEF Row, Ops, Call, ByName, ById, Policy, MaskedByName, MaskedById, PlanOf, OpsOf, CallOf, PlanProjectDatabaseExtension, OpsProjectDatabaseExtension, CallProjectDatabaseExtension
<1>21. Row(PlanOf["project_database_queue"], OpsOf["project_database_queue"], CallOf["project_database_queue"])
  BY DEF Row, Ops, Call, ByName, ById, Policy, MaskedByName, MaskedById, PlanOf, OpsOf, CallOf, PlanProjectDatabaseQueue, OpsProjectDatabaseQueue, CallProjectDatabaseQueue
<1>22. Row(PlanOf["project_database_role"], OpsOf["project_database_role"], CallOf["project_database_role"])
  BY DEF Row, Ops, Call, ByName, ById, Policy, MaskedByName, MaskedById, PlanOf, OpsOf, CallOf, PlanProjectDatabaseRole, OpsProjectDatabaseRole, CallProjectDatabaseRole
<1>23. Row(PlanOf["project_database_schema"], OpsOf["project_database_schema"], CallOf["project_database_schema"])
  BY DEF Row, Ops, Call, ByName, ById, Policy, MaskedByName, MaskedById, PlanOf, OpsOf, CallOf, PlanProjectDatabaseSchema, OpsProjectDatabaseSchema, CallProjectDatabaseSchema
<1>24. Row(PlanOf["project_database_webhook"], OpsOf["project_database_webhook"], CallOf["project_database_webhook"])
  BY DEF Row, Ops, Call, ByName, ById, Policy, MaskedByName, MaskedById, PlanOf, OpsOf, CallOf, PlanProjectDatabaseWebhook, OpsProjectDatabaseWebhook, CallProjectDatabaseWebhook
<1>25. Row(PlanOf["project_domain"], OpsOf["project_domain"], CallOf["project_domain"])
  BY DEF Row, Ops, Call, ByName, ById, Policy, MaskedByName, MaskedById, PlanOf, OpsOf, CallOf, PlanProjectDomain, OpsProjectDomain, CallProjectDomain
<1>26. Row(PlanOf["project_embedding_job"], OpsOf["project_embedding_job"], CallOf["project_embedding_job"])
  BY DEF Row, Ops, Call, ByName, ById, Policy, MaskedByName, MaskedById, PlanOf, OpsOf, CallOf, PlanProjectEmbeddingJob, OpsProjectEmbeddingJob, CallProjectEmbeddingJob
<1>27. Row(PlanOf["project_function"], OpsOf["project_function"], CallOf["project_function"])
  BY DEF Row, Ops, Call, ByName, ById, Policy, MaskedByName, MaskedById, PlanOf, OpsOf, CallOf, PlanProjectFunction, OpsProjectFunction, CallProjectFunction
<1>28. Row(PlanOf["project_function_region"], OpsOf["project_function_region"], CallOf["project_function_region"])
  BY DEF Row, Ops, Call, ByName, ById, Policy, MaskedByName, MaskedById, PlanOf, OpsOf, CallOf, PlanProjectFunctionRegion, OpsProjectFunctionRegion, CallProjectFunctionRegion
<1>29. Row(PlanOf["project_function_storage_mount"], OpsOf["project_function_storage_mount"], CallOf["project_function_storage_mount"])
  BY DEF Row, Ops, Call, ByName, ById, Policy, MaskedByName, MaskedById, PlanOf, OpsOf, CallOf, PlanProjectFunctionStorageMount, OpsProjectFunctionStorageMount, CallProjectFunctionStorageMount
<1>30. Row(PlanOf["project_log_drain"], OpsOf["project_log_drain"], CallOf["project_log_drain"])
  BY DEF Row, Ops, Call, ByName, ById, Policy, MaskedByName, MaskedById, PlanOf, OpsOf, CallOf, PlanProjectLogDrain, OpsProjectLogDrain, CallProjectLogDrain
<1>31. Row(PlanOf["project_network_connection"], OpsOf["project_network_connection"], CallOf["project_network_connection"])
  BY DEF Row, Ops, Call, ByName, ById, Policy, MaskedByName, MaskedById, PlanOf, OpsOf, CallOf, PlanProjectNetworkConnection, OpsProjectNetworkConnection, CallProjectNetworkConnection
<1>32. Row(PlanOf["project_pitr_policy"], OpsOf["project_pitr_policy"], CallOf["project_pitr_policy"])
  BY DEF Row, Ops, Call, ByName, ById, Policy, MaskedByName, MaskedById, PlanOf, OpsOf, CallOf, PlanProjectPITRPolicy, OpsProjectPITRPolicy, CallProjectPITRPolicy
<1>33. Row(PlanOf["project_replica"], OpsOf["project_replica"], CallOf["project_replica"])
  BY DEF Row, Ops, Call, ByName, ById, Policy, MaskedByName, MaskedById, PlanOf, OpsOf, CallOf, PlanProjectReplica, OpsProjectReplica, CallProjectReplica
<1>34. Row(PlanOf["project_replication_pipeline"], OpsOf["project_replication_pipeline"], CallOf["project_replication_pipeline"])
  BY DEF Row, Ops, Call, ByName, ById, Policy, MaskedByName, MaskedById, PlanOf, OpsOf, CallOf, PlanProjectReplicationPipeline, OpsProjectReplicationPipeline, CallProjectReplicationPipeline
<1>35. Row(PlanOf["project_storage_bucket"], OpsOf["project_storage_bucket"], CallOf["project_storage_bucket"])
  BY DEF Row, Ops, Call, ByName, ById, Policy, MaskedByName, MaskedById, PlanOf, OpsOf, CallOf, PlanProjectStorageBucket, OpsProjectStorageBucket, CallProjectStorageBucket
<1>36. Row(PlanOf["project_vector_bucket"], OpsOf["project_vector_bucket"], CallOf["project_vector_bucket"])
  BY DEF Row, Ops, Call, ByName, ById, Policy, MaskedByName, MaskedById, PlanOf, OpsOf, CallOf, PlanProjectVectorBucket, OpsProjectVectorBucket, CallProjectVectorBucket
<1> QED
  BY KindNames, <1>1, <1>2, <1>3, <1>4, <1>5, <1>6, <1>7, <1>8, <1>9, <1>10, <1>11, <1>12, <1>13, <1>14, <1>15, <1>16, <1>17, <1>18, <1>19, <1>20, <1>21, <1>22, <1>23, <1>24, <1>25, <1>26, <1>27, <1>28, <1>29, <1>30, <1>31, <1>32, <1>33, <1>34, <1>35, <1>36

\* The row of the kind that a behaviour is about.
LEMMA KindRow == ASSUME TypeOK PROVE Row(plan, ops, call)
  BY Rows, KindsAssumption DEF TypeOK, plan, ops, call

\* It stays about that kind.
LEMMA SameRow == ASSUME UNCHANGED kind PROVE plan' = plan /\ ops' = ops /\ call' = call
  BY DEF plan, ops, call

-----------------------------------------------------------------------------
(* The invariant. *)

Put == call.write = "put"

\* Ids and names tell records apart, and a record that is always there is there.
Identified ==
  /\ ~Put => \A r, q \in srv : r.id = q.id => r = q
  /\ Put => /\ \A r \in srv : r.id = 0
            /\ tf # None => tf.id = 0
            /\ (call.parent => parent) => \A c \in Configs : Target(c) # {}
  /\ call.write # "append" => \A r, q \in srv : r.name = q.name => r = q
  /\ ops.find = "only" => \A r, q \in srv : r = q

\* An apply is at a call that state and configuration still ask for.
Planned ==
  /\ run = "create" => tf = None /\ conf # None
  /\ run \in {"update", "replace"} => tf # None /\ conf # None
  /\ run = "delete" => tf # None /\ conf = None
  /\ run = "update" /\ plan = "updateBody" => tf.name = conf.name

\* The provider was told of record r's creation, imported it or wrote it last,
\* and no Delete took it for gone.
Known(r) == r.id \notin unknown /\ (r.made # "elsewhere" \/ r.by = "provider")

\* What the provider knows of is the record of the state, and the two have the
\* same name; but for orphans, that is what it wrote last.
Linked ==
  /\ call.write \notin {"append", "put"} =>
       \A r \in srv : tf # None /\ r.id = tf.id => r.name = tf.name
  /\ ~Put => \A r \in srv : Known(r) => tf # None /\ tf.id = r.id
  /\ ~Put /\ ~Orphaned => \A r \in srv : r.by = "provider" => Known(r)
  /\ call.write = "append" /\ tf # None => tf.id \notin unknown

\* Where the provider wrote last, the state has what the answers do not show.
Remembered ==
  tf # None =>
    \A r \in Found(tf) : r.by = "provider" =>
      /\ ops.body = "kept" => r.body = tf.body
      /\ ops.secret = "masked" => tf.secret \in {r.secret, Mask}
      /\ ops.secret = "kept" => r.secret = tf.secret \/ (call.keeps /\ tf.secret = NoSecret)

\* A masked secret that somebody else wrote, and a mask in the state, is about a
\* shared record.
Masked ==
  /\ ops.secret = "masked" =>
       \A r \in srv : r.by # "provider" /\ r.secret # NoSecret => r.id \in shared
  /\ tf # None /\ tf.secret = Mask => ops.secret = "masked" /\ tf.id \in shared

\* The inductive invariant.
IInv ==
  TypeOK /\ Identified /\ Planned /\ Linked /\ Remembered /\ Masked /\ AppliedIsServed

LEMMA IInvForgetsNothing == IInv => NothingForgotten
  BY DEF IInv, Linked, NothingForgotten, Put, Known, Orphaned

LEMMA IInvKnowsSecrets == IInv => OwnSecretsStayKnown
  BY DEF IInv, Masked, OwnSecretsStayKnown

-----------------------------------------------------------------------------
(* The operators of the model. *)

\* A new record.
LEMMA NewRecordFields ==
  ASSUME NEW i \in Nat, NEW c \in Configs, NEW who \in {"provider", "lost", "elsewhere"}
  PROVE  /\ NewRecord(i, c, who) \in Records
         /\ NewRecord(i, c, who).id = i /\ NewRecord(i, c, who).name = c.name
         /\ NewRecord(i, c, who).body = c.body /\ NewRecord(i, c, who).secret = c.secret
         /\ NewRecord(i, c, who).by = who
         /\ who # "elsewhere" => NewRecord(i, c, who).made = "provider"
         /\ who = "elsewhere" => NewRecord(i, c, who).made = "elsewhere"
  BY DEF NewRecord, Records, Names, Bodies, Secrets

\* A record after a write of c.
LEMMA ChangedRecordFields ==
  ASSUME NEW r \in Records, NEW c \in Configs,
         NEW who \in {"provider", "lost", "elsewhere"}
  PROVE  /\ ChangedRecord(r, c, who) \in Records
         /\ ChangedRecord(r, c, who).id = r.id /\ ChangedRecord(r, c, who).name = c.name
         /\ ChangedRecord(r, c, who).body = c.body /\ ChangedRecord(r, c, who).by = who
         /\ ChangedRecord(r, c, who).made = r.made
         /\ ChangedRecord(r, c, who).secret = c.secret
              \/ (call.keeps /\ c.secret = NoSecret)
  BY DEF ChangedRecord, Records, Names, Bodies, Secrets

\* A record after a reset.
LEMMA AfterResetFields ==
  ASSUME NEW r \in Records, NEW who \in {"provider", "lost", "elsewhere"}
  PROVE  /\ AfterReset(r, who) \in Records
         /\ AfterReset(r, who).id = r.id /\ AfterReset(r, who).name = r.name
         /\ AfterReset(r, who).body = Default /\ AfterReset(r, who).secret = NoSecret
         /\ AfterReset(r, who).by = who /\ AfterReset(r, who).made = r.made
  BY DEF AfterReset, Records, Bodies, Secrets

\* An imported record.
LEMMA ImportedFields ==
  ASSUME NEW r \in Records
  PROVE  /\ [r EXCEPT !.made = "imported", !.by = "elsewhere"] \in Records
         /\ [r EXCEPT !.made = "imported", !.by = "elsewhere"].id = r.id
         /\ [r EXCEPT !.made = "imported", !.by = "elsewhere"].name = r.name
         /\ [r EXCEPT !.made = "imported", !.by = "elsewhere"].body = r.body
         /\ [r EXCEPT !.made = "imported", !.by = "elsewhere"].secret = r.secret
         /\ [r EXCEPT !.made = "imported", !.by = "elsewhere"].by = "elsewhere"
  BY DEF Records

\* The state made of a record.
LEMMA StateOfFields ==
  ASSUME TypeOK, NEW r \in Records, NEW prev,
         ops.body = "kept" => prev.body \in Bodies,
         prev.secret \in Secrets \cup {Mask}
  PROVE  /\ StateOf(r, prev) \in Resources
         /\ StateOf(r, prev).id = r.id /\ StateOf(r, prev).name = r.name
         /\ ops.body = "shown" => StateOf(r, prev).body = r.body
         /\ ops.body = "kept" => StateOf(r, prev).body = prev.body
         /\ ops.secret = "shown" => StateOf(r, prev).secret = r.secret
         /\ ops.secret = "kept" => StateOf(r, prev).secret = prev.secret
         /\ ops.secret = "masked" =>
              /\ r.secret = NoSecret => StateOf(r, prev).secret = NoSecret
              /\ r.secret # NoSecret /\ prev.secret # NoSecret =>
                   StateOf(r, prev).secret = prev.secret
              /\ r.secret # NoSecret /\ prev.secret = NoSecret =>
                   StateOf(r, prev).secret = Mask
<1>1. Row(plan, ops, call)
  BY KindRow
<1>2. CASE ops.secret = "shown"
  BY <1>1, <1>2 DEF Row, StateOf, Resources, Records, Secrets
<1>3. CASE ops.secret = "kept"
  BY <1>1, <1>3 DEF Row, StateOf, Resources, Records, Secrets
<1>4. CASE ops.secret = "masked"
  BY <1>1, <1>4 DEF Row, StateOf, preserveMaskedSensitiveValue, Resources, Records, Secrets
<1> QED
  BY <1>1, <1>2, <1>3, <1>4 DEF Row

\* What a plan asks for.
LEMMA PlannedStepsFacts ==
  ASSUME TypeOK, NEW s \in Resources \cup {None}, NEW c \in Configs \cup {None},
         NEW x \in PlannedSteps(s, c)
  PROVE  /\ x \in Applying \cup {"done"}
         /\ x = "create" => s = None /\ c # None
         /\ x \in {"update", "replace"} => s # None /\ c # None
         /\ x = "delete" => s # None /\ c = None
         /\ x = "update" /\ plan = "updateBody" => s.name = c.name
         /\ x = "done" => (s = None /\ c = None) \/ (s # None /\ c # None /\ ~Differs(s, c))
<1>1. Row(plan, ops, call)
  BY KindRow
<1>2. ChangeSteps(s, c) \subseteq {"update", "replace"}
  BY <1>1 DEF Row, ChangeSteps
<1>3. plan = "updateBody" /\ "update" \in ChangeSteps(s, c) => s.name = c.name
  BY DEF ChangeSteps
<1>4. CASE s = None /\ c = None
  <2>1. PlannedSteps(s, c) = {"done"}
    BY <1>4 DEF PlannedSteps
  <2> QED
    BY <1>4, <2>1 DEF Applying
<1>5. CASE s = None /\ c # None
  <2>1. PlannedSteps(s, c) = {"create"}
    BY <1>5 DEF PlannedSteps
  <2> QED
    BY <1>5, <2>1 DEF Applying
<1>6. CASE s # None /\ c = None
  <2>1. PlannedSteps(s, c) = {"delete"}
    BY <1>6 DEF PlannedSteps
  <2> QED
    BY <1>6, <2>1 DEF Applying
<1>7. CASE s # None /\ c # None
  <2>1. PlannedSteps(s, c) = IF Differs(s, c) THEN ChangeSteps(s, c) ELSE {"done"}
    BY <1>7 DEF PlannedSteps
  <2>2. CASE Differs(s, c)
    BY <1>2, <1>3, <1>7, <2>1, <2>2 DEF Applying
  <2>3. CASE ~Differs(s, c)
    BY <1>7, <2>1, <2>3
  <2> QED
    BY <2>2, <2>3
<1> QED
  BY <1>4, <1>5, <1>6, <1>7

\* The record that a create call writes: the one that has the name, or a new one.
LEMMA CreationFacts ==
  ASSUME TypeOK, Identified, call.parent => parent,
         NEW c \in Configs, NEW who \in {"provider", "lost"},
         NEW m, m = Creation(c, who).record, NEW o, o = Creation(c, who).old
  PROVE  /\ m \in Records /\ m.name = c.name /\ m.body = c.body /\ m.by = who
         /\ m.secret = c.secret \/ (call.keeps /\ c.secret = NoSecret)
         /\ o \subseteq srv /\ (Put => o # {})
         /\ o = {} => m.id = ids + 1 /\ m.made = "provider" /\ Target(c) = {}
         /\ \A r \in o : m.id = r.id /\ m.made = r.made /\ o = {r} /\ r \in Target(c)
         /\ \A r \in Target(c) : r \in o
<1>1. Row(plan, ops, call)
  BY KindRow
<1>2. CASE Target(c) = {}
  <2>1. Creation(c, who) = [record |-> NewRecord(ids + 1, c, who), old |-> {}]
    BY <1>2 DEF Creation
  <2>2. m = NewRecord(ids + 1, c, who) /\ o = {}
    BY <2>1
  <2>3. ids + 1 \in Nat
    BY DEF TypeOK
  <2>4. ~Put
    BY <1>2 DEF Identified
  <2> QED
    BY <1>2, <2>2, <2>3, <2>4, NewRecordFields
<1>3. CASE Target(c) # {}
  <2>1. PICK r : r \in Target(c) /\ r = CHOOSE t \in Target(c) : TRUE
    BY <1>3
  <2>2. Creation(c, who) = [record |-> ChangedRecord(r, c, who), old |-> {r}]
    BY <1>3, <2>1 DEF Creation
  <2>3. m = ChangedRecord(r, c, who) /\ o = {r}
    BY <2>2
  <2>4. r \in srv /\ r \in Records
    BY <2>1 DEF Target, TypeOK
  <2>5. \A q \in Target(c) : q = r
    BY <2>1 DEF Target, Identified
  <2> QED
    BY <1>3, <2>1, <2>3, <2>4, <2>5, ChangedRecordFields
<1> QED
  BY <1>2, <1>3

\* The records that are not written have other names.
LEMMA OthersDiffer ==
  ASSUME TypeOK, Identified, NEW c, NEW r \in srv \ Target(c), call.write # "append"
  PROVE  r.name # c.name /\ ops.find # "only"
  BY DEF Target

\* A configuration can be a plan's state.
LEMMA ConfigIsPrevious ==
  ASSUME NEW c \in Configs
  PROVE  c.name \in Names /\ c.body \in Bodies /\ c.secret \in Secrets /\ c.secret # Mask
  BY MaskAssumption DEF Names, Bodies, Secrets

\* The state is a resource, with an id that was given.
LEMMA StateIsPrevious ==
  ASSUME TypeOK, tf # None
  PROVE  /\ tf \in Resources /\ tf.id \in 0..ids
         /\ tf.name \in Names /\ tf.body \in Bodies /\ tf.secret \in Secrets \cup {Mask}
  BY DEF TypeOK, Resources

\* No record holds the mask.
LEMMA NoRecordIsMasked == ASSUME NEW r \in Records PROVE r.secret # Mask /\ r.secret \in Secrets
  BY MaskAssumption DEF Records

-----------------------------------------------------------------------------
LEMMA InitIInv == Init => IInv
<1> SUFFICES ASSUME Init PROVE IInv
  OBVIOUS
<1> DEFINE At(n) == [id |-> 0, name |-> n, body |-> Default,
                     secret |-> IF call.keeps THEN Default ELSE NoSecret,
                     made |-> "elsewhere", by |-> "elsewhere"]
           N == IF ops.find = "only" THEN {None} ELSE {c.name : c \in Configs}
<1>1. Row(plan, ops, call)
  BY Rows, KindsAssumption DEF Init, plan, ops, call
<1>2. srv = IF call.write # "put" THEN {} ELSE {At(n) : n \in N}
  BY DEF Init
<1>3. \A n \in N : At(n) \in Records /\ At(n).id = 0 /\ At(n).name = n
                   /\ At(n).by = "elsewhere" /\ At(n).made = "elsewhere"
                   /\ (At(n).secret # NoSecret => call.keeps)
  BY DEF Records, Names, Bodies, Secrets
<1> HIDE DEF At
<1>4. tf = None /\ run = "idle" /\ conf \in Configs /\ conf # None
  BY NoneAssumption DEF Init
<1>5. TypeOK
  <2>1. srv \subseteq Records /\ \A r \in srv : r.id = 0
    BY <1>2, <1>3
  <2> QED
    BY <2>1, SurprisesAssumption DEF Init, TypeOK
<1>6. Identified
  <2>1. ~Put => srv = {}
    BY <1>2 DEF Put
  <2>2. ASSUME Put, NEW c \in Configs PROVE Target(c) # {}
    <3>1. CASE ops.find = "only"
      <4>1. At(None) \in srv
        BY <1>2, <2>2, <3>1 DEF Put
      <4> QED
        BY <2>2, <3>1, <4>1 DEF Target, Put
    <3>2. CASE ops.find # "only"
      <4>1. c.name \in N /\ At(c.name) \in srv
        BY <1>2, <2>2, <3>2 DEF Put
      <4>2. At(c.name).name = c.name
        BY <1>3, <4>1
      <4> QED
        BY <2>2, <4>1, <4>2 DEF Target, Put
    <3> QED
      BY <3>1, <3>2
  <2>3. \A r, q \in srv : r.name = q.name => r = q
    BY <1>2, <1>3
  <2>4. ops.find = "only" => \A r, q \in srv : r = q
    BY <1>2
  <2>5. Put => \A r \in srv : r.id = 0
    BY <1>2, <1>3
  <2> QED
    BY <1>4, <2>1, <2>2, <2>3, <2>4, <2>5 DEF Identified
<1>7. \A r \in srv : r.by = "elsewhere" /\ (r.secret # NoSecret => call.keeps)
  BY <1>2, <1>3
<1>8. Planned /\ Linked /\ Remembered /\ Masked /\ AppliedIsServed
  BY <1>1, <1>2, <1>4, <1>7 DEF Planned, Linked, Put, Remembered, Masked, Row, AppliedIsServed
<1> QED
  BY <1>5, <1>6, <1>8 DEF IInv

-----------------------------------------------------------------------------
(* An apply. *)

\* A step that writes no record, plans nothing and ends no apply keeps the
\* invariant.
LEMMA QuietStep ==
  ASSUME IInv, UNCHANGED <<kind, tf, srv, parent, used, ids, unknown, shared>>,
         run' = "idle", conf' \in Configs \cup {None}, quiet' \in BOOLEAN, left' \in 0..Surprises
  PROVE  IInv'
<1>1. plan' = plan /\ ops' = ops /\ call' = call
  BY SameRow
<1>2. TypeOK'
  BY DEF IInv, TypeOK
<1>3. Identified'
  BY <1>1 DEF IInv, Identified, Put, Target
<1>4. Planned' /\ Linked' /\ Masked'
  BY <1>1 DEF IInv, Planned, Linked, Put, Known, Orphaned, Masked
<1>5. Remembered'
  BY <1>1 DEF IInv, Remembered, Found
<1>6. AppliedIsServed'
  BY DEF AppliedIsServed
<1> QED
  BY <1>2, <1>3, <1>4, <1>5, <1>6 DEF IInv

\* A surprise leaves one fewer.
LEMMA OneLeft == ASSUME TypeOK, left > 0 PROVE left - 1 \in 0..Surprises
  BY SurprisesAssumption DEF TypeOK

LEMMA CallFailsIInv == ASSUME IInv, CallFails PROVE IInv'
<1>1. left' \in 0..Surprises
  <2>1. CASE Blocked
    BY <2>1 DEF CallFails, IInv, TypeOK
  <2>2. CASE ~Blocked
    BY <2>2, OneLeft DEF CallFails, IInv
  <2> QED
    BY <2>1, <2>2
<1> QED
  BY <1>1, QuietStep DEF CallFails, IInv, TypeOK

LEMMA EditConfigurationIInv == ASSUME IInv, EditConfiguration PROVE IInv'
<1>1. left' \in 0..Surprises
  BY OneLeft DEF EditConfiguration, IInv
<1> QED
  BY <1>1, QuietStep DEF EditConfiguration, IInv, TypeOK

\* What the plan of a Read asks for.
LEMMA PlannedAfterRead ==
  ASSUME TypeOK, UNCHANGED <<kind, conf>>, tf' \in Resources \cup {None},
         run' \in PlannedSteps(tf', conf)
  PROVE  /\ Planned' /\ run' \in Applying \cup {"done"}
         /\ run' = "done" =>
              (tf' = None /\ conf = None) \/ (tf' # None /\ conf # None /\ ~Differs(tf', conf))
<1>1. plan' = plan
  BY SameRow
<1>2. conf \in Configs \cup {None}
  BY DEF TypeOK
<1> QED
  BY <1>1, <1>2, PlannedStepsFacts, Zenon DEF Planned

\* There is no record of the resource.
LEMMA ReadNothing ==
  ASSUME IInv, UNCHANGED <<kind, conf, srv, parent, used, ids, unknown, shared, left>>,
         quiet' = TRUE, tf' = None, run' \in PlannedSteps(None, conf),
         tf # None => Found(tf) = {}
  PROVE  IInv'
<1>1. plan' = plan /\ ops' = ops /\ call' = call
  BY SameRow
<1>2. Row(plan, ops, call)
  BY KindRow DEF IInv
<1>3. Planned' /\ run' \in Applying \cup {"done"} /\ (run' = "done" => conf = None)
  BY PlannedAfterRead DEF IInv
<1>4. TypeOK'
  BY <1>3 DEF IInv, TypeOK
<1>5. Identified'
  BY <1>1 DEF IInv, Identified, Put, Target
<1>6. Linked'
  <2>1. ASSUME ~Put, tf # None, NEW r \in srv PROVE r.id # tf.id
    BY <1>2, <2>1 DEF IInv, Linked, Row, Found, Put
  <2> QED
    BY <1>1, <2>1 DEF IInv, Linked, Put, Known, Orphaned
<1>7. Remembered' /\ AppliedIsServed'
  BY <1>3 DEF Remembered, AppliedIsServed
<1>8. Masked'
  BY <1>1 DEF IInv, Masked
<1> QED
  BY <1>3, <1>4, <1>5, <1>6, <1>7, <1>8 DEF IInv

\* The state is made of the record that Read found.
LEMMA ReadFound ==
  ASSUME IInv, UNCHANGED <<kind, conf, srv, parent, used, ids, unknown, shared, left>>,
         quiet' = TRUE, tf # None, NEW r \in Found(tf),
         tf' = StateOf(r, tf), run' \in PlannedSteps(StateOf(r, tf), conf)
  PROVE  IInv'
<1>1. plan' = plan /\ ops' = ops /\ call' = call
  BY SameRow
<1>2. Row(plan, ops, call)
  BY KindRow DEF IInv
<1>3. r \in srv /\ r \in Records /\ r.id \in 0..ids /\ r.secret # Mask
  BY NoRecordIsMasked DEF Found, IInv, TypeOK
<1>4. /\ tf' \in Resources /\ tf'.id = r.id /\ tf'.name = r.name
      /\ ops.body = "shown" => tf'.body = r.body
      /\ ops.body = "kept" => tf'.body = tf.body
      /\ ops.secret = "shown" => tf'.secret = r.secret
      /\ ops.secret = "kept" => tf'.secret = tf.secret
      /\ ops.secret = "masked" =>
           /\ r.secret = NoSecret => tf'.secret = NoSecret
           /\ r.secret # NoSecret /\ tf.secret # NoSecret => tf'.secret = tf.secret
           /\ r.secret # NoSecret /\ tf.secret = NoSecret => tf'.secret = Mask
  BY <1>3, StateOfFields, StateIsPrevious DEF IInv
<1>5. tf' # None
  BY <1>4, NoneAssumption
<1>6. /\ Planned' /\ run' \in Applying \cup {"done"}
      /\ run' = "done" => conf # None /\ ~Differs(tf', conf)
  BY <1>4, <1>5, PlannedAfterRead DEF IInv
<1>7. TypeOK'
  BY <1>3, <1>4, <1>6 DEF IInv, TypeOK
<1>8. Identified'
  BY <1>1, <1>3, <1>4 DEF IInv, Identified, Put, Target
\* The record of the state is the one that Read finds.
<1>9. \A q \in srv : ~Put /\ q.id = tf.id => q = r
  <2> SUFFICES ASSUME NEW q \in srv, ~Put, q.id = tf.id PROVE q = r
    OBVIOUS
  <2>1. CASE call.write = "append"
    BY <1>2, <1>3, <2>1 DEF Row, Found, IInv, Identified
  <2>2. CASE call.write # "append"
    <3>1. q.name = tf.name
      BY <2>2 DEF IInv, Linked, Put
    <3>2. r.name = q.name \/ r.id = q.id
      BY <1>2, <3>1 DEF Row, Found, Put
    <3> QED
      BY <1>3, <2>2, <3>2 DEF IInv, Identified
  <2> QED
    BY <2>1, <2>2
<1>10. Linked'
  <2>1. call.write \notin {"append", "put"} => \A q \in srv : q.id = r.id => q.name = r.name
    BY <1>3 DEF IInv, Identified, Put
  <2>2. ASSUME ~Put, NEW q \in srv, Known(q) PROVE q.id = r.id
    BY <1>9, <2>2 DEF IInv, Linked
  <2> QED
    BY <1>1, <1>2, <1>3, <1>4, <1>5, <2>1, <2>2
       DEF IInv, Linked, Put, Known, Orphaned, Row, Found
\* What it finds afterwards is what it found.
<1>11. \A q \in srv : q \in Found(tf)' /\ q.by = "provider" => q \in Found(tf)
  <2> SUFFICES ASSUME NEW q \in srv, q \in Found(tf)', q.by = "provider" PROVE q \in Found(tf)
    OBVIOUS
  <2>1. CASE Put
    BY <1>1, <1>2, <1>3, <1>4, <2>1 DEF Row, Found, Put
  <2>2. CASE Orphaned
    BY <1>1, <1>2, <1>4, <2>2 DEF Row, Orphaned, Found
  <2>3. CASE ~Put /\ ~Orphaned
    BY <1>9, <2>3 DEF IInv, Linked
  <2> QED
    BY <2>1, <2>2, <2>3
<1>12. Remembered'
  <2> SUFFICES ASSUME NEW q \in Found(tf)', q.by = "provider"
               PROVE  /\ ops.body = "kept" => q.body = tf'.body
                      /\ ops.secret = "masked" => tf'.secret \in {q.secret, Mask}
                      /\ ops.secret = "kept" =>
                           q.secret = tf'.secret \/ (call.keeps /\ tf'.secret = NoSecret)
    BY <1>1 DEF Remembered
  <2>1. q \in srv /\ q \in Found(tf)
    BY <1>11 DEF Found
  <2>2. ops.body = "kept" => q.body = tf'.body
    BY <1>4, <2>1 DEF IInv, Remembered
  <2>3. ops.secret = "kept" => q.secret = tf'.secret \/ (call.keeps /\ tf'.secret = NoSecret)
    BY <1>4, <2>1 DEF IInv, Remembered
  <2>4. ASSUME ops.secret = "masked" PROVE q = r
    <3>1. CASE Put
      BY <1>2, <1>3, <2>1, <2>4, <3>1 DEF Row, Put, IInv, Identified
    <3>2. CASE ~Put
      BY <1>2, <1>9, <2>1, <2>4, <3>2 DEF Row, Orphaned, IInv, Linked
    <3> QED
      BY <3>1, <3>2
  <2>5. ops.secret = "masked" => tf'.secret \in {q.secret, Mask}
    BY <1>4, <2>1, <2>4 DEF IInv, Remembered
  <2> QED
    BY <2>2, <2>3, <2>5
<1>13. Masked'
  <2> SUFFICES ASSUME tf'.secret = Mask PROVE ops.secret = "masked" /\ r.id \in shared
    BY <1>1, <1>4 DEF IInv, Masked
  <2>1. ops.secret = "masked"
    BY <1>2, <1>3, <1>4 DEF Row, IInv, Masked
  <2>2. r.secret # NoSecret
    BY <1>4, <2>1, MaskAssumption DEF Secrets
  <2>3. CASE r.by # "provider"
    BY <1>3, <2>1, <2>2, <2>3 DEF IInv, Masked
  <2>4. CASE r.by = "provider"
    <3>1. tf.secret = Mask
      BY <1>4, <2>1, <2>2, <2>4 DEF IInv, Remembered
    <3>2. tf.id \in shared
      BY <3>1 DEF IInv, Masked
    <3>3. r.id = tf.id
      BY <1>2, <1>3, <2>1, <2>4 DEF Row, Orphaned, IInv, Identified, Linked
    <3> QED
      BY <2>1, <3>2, <3>3
  <2> QED
    BY <2>3, <2>4
<1>14. AppliedIsServed'
  <2> SUFFICES ASSUME run' = "done"
               PROVE  /\ r.id = tf'.id /\ r.name = conf.name
                      /\ r.by = "provider" \/ ops.body = "shown" => r.body = conf.body
                      /\ r.by = "provider" \/ ops.secret = "shown" =>
                           r.secret = conf.secret \/ (call.keeps /\ conf.secret = NoSecret)
    BY <1>1, <1>3, <1>5 DEF AppliedIsServed
  <2>1. conf \in Configs /\ conf.secret # Mask
    BY <1>6, ConfigIsPrevious DEF IInv, TypeOK
  <2>2. tf'.name = conf.name /\ tf'.body = conf.body /\ tf'.secret = conf.secret
    BY <1>6 DEF Differs
  <2>3. r.by = "provider" \/ ops.body = "shown" => r.body = conf.body
    BY <1>2, <1>4, <2>2 DEF Row, IInv, Remembered
  <2>4. ops.secret = "shown" => r.secret = conf.secret
    BY <1>4, <2>2
  <2>5. r.by = "provider" /\ ops.secret = "kept" =>
          r.secret = conf.secret \/ (call.keeps /\ conf.secret = NoSecret)
    BY <1>4, <2>2 DEF IInv, Remembered
  <2>6. r.by = "provider" /\ ops.secret = "masked" => r.secret = conf.secret
    BY <1>4, <2>1, <2>2 DEF IInv, Remembered
  <2> QED
    BY <1>2, <1>4, <2>2, <2>3, <2>4, <2>5, <2>6 DEF Row
<1> QED
  BY <1>6, <1>7, <1>8, <1>10, <1>12, <1>13, <1>14 DEF IInv

LEMMA ReadIInv == ASSUME IInv, Read PROVE IInv'
<1>1. CASE tf = None /\ run' \in PlannedSteps(None, conf) /\ UNCHANGED tf
  BY <1>1, ReadNothing DEF Read
<1>2. ASSUME tf # None, NEW r \in Found(tf), tf' = StateOf(r, tf),
             run' \in PlannedSteps(StateOf(r, tf), conf)
      PROVE  IInv'
  BY <1>2, ReadFound DEF Read
<1>3. CASE tf # None /\ Found(tf) = {} /\ ReadGone
  <2>1. CASE tf' = None /\ run' \in PlannedSteps(None, conf)
    BY <1>3, <2>1, ReadNothing DEF Read
  <2>2. CASE run' = "idle" /\ UNCHANGED tf
    BY <2>2, QuietStep DEF Read, IInv, TypeOK
  <2> QED
    BY <1>3, <2>1, <2>2 DEF ReadGone
<1> QED
  BY <1>1, <1>2, <1>3 DEF Read

\* What a create call, or an update that is one, does to the records.
LEMMA CreateOnServerFacts ==
  ASSUME IInv, NEW who \in {"provider", "lost"}, CreateOnServer(who), conf # None,
         call.parent => parent, UNCHANGED <<kind, parent>>,
         NEW m, m = Creation(conf, who).record, NEW o, o = Creation(conf, who).old
  PROVE  /\ conf \in Configs /\ srv' = (srv \ o) \cup {m}
         /\ srv' \subseteq Records /\ (\A r \in srv' : r.id \in 0..ids') /\ ids' \in Nat
         /\ ids' >= ids /\ unknown' \subseteq 0..ids' /\ shared \subseteq shared'
         /\ shared' \subseteq 0..ids'
         /\ \A r \in srv \ o : (call.write # "append" => r.name # m.name) /\ (~Put => r.id # m.id)
         /\ ops.find # "only" \/ srv' = {m}
<1> DEFINE c == conf
<1>1. conf \in Configs
  BY DEF IInv, TypeOK
<1>2. /\ m \in Records /\ m.name = c.name
      /\ o \subseteq srv /\ (Put => o # {})
      /\ o = {} => m.id = ids + 1 /\ Target(c) = {}
      /\ \A r \in o : m.id = r.id /\ o = {r} /\ r \in Target(c)
      /\ \A r \in Target(c) : r \in o
  BY <1>1, CreationFacts DEF IInv
<1>3. srv' = (srv \ o) \cup {m} /\ ids' = IF o = {} THEN ids + 1 ELSE ids
  BY DEF CreateOnServer
<1>4. ids \in Nat /\ (\A r \in srv : r \in Records /\ r.id \in 0..ids)
      /\ unknown \subseteq 0..ids /\ shared \subseteq 0..ids
  BY DEF IInv, TypeOK
<1>5. ids' \in Nat /\ ids' >= ids /\ m.id \in 0..ids' /\ (o = {} => m.id \in 0..ids')
  <2>1. CASE o = {}
    BY <1>2, <1>3, <1>4, <2>1
  <2>2. CASE o # {}
    BY <1>2, <1>3, <1>4, <2>2
  <2> QED
    BY <2>1, <2>2
<1>12. 0..ids \subseteq 0..ids' /\ 0..ids \subseteq 0..ids'
  BY <1>4, <1>5
<1>6. \A r \in srv' : r \in Records /\ r.id \in 0..ids'
  BY <1>2, <1>3, <1>4, <1>5
<1>7. unknown' \subseteq 0..ids'
  <2>1. CASE who = "provider"
    <3>1. unknown' = unknown \ {m.id}
      BY <2>1 DEF CreateOnServer
    <3> QED
      BY <1>4, <1>12, <3>1
  <2>2. CASE who = "lost"
    <3>1. unknown' = unknown \cup ({m.id} \ {r.id : r \in o})
      BY <2>2, Zenon DEF CreateOnServer
    <3>2. o # {} => m.id \in {r.id : r \in o}
      BY <1>2
    <3> QED
      BY <1>4, <1>5, <1>12, <3>1, <3>2
  <2> QED
    BY <2>1, <2>2
<1>8. shared \subseteq shared' /\ shared' \subseteq 0..ids'
  <2>1. shared' = shared \/ shared' = shared \cup {m.id}
    BY DEF CreateOnServer
  <2> QED
    BY <1>4, <1>5, <1>12, <2>1
<1>9. ASSUME NEW r \in srv \ o, call.write # "append" PROVE r.name # m.name /\ ops.find # "only"
  BY <1>2, <1>9, OthersDiffer DEF IInv
<1>10. ASSUME NEW r \in srv \ o, ~Put PROVE r.id # m.id
  <2>1. CASE o = {}
    BY <1>2, <1>4, <2>1
  <2>2. CASE o # {}
    BY <1>2, <1>10, <2>2 DEF IInv, Identified
  <2> QED
    BY <2>1, <2>2
<1>11. ops.find = "only" => srv' = {m}
  <2>1. ops.find = "only" => call.write # "append"
    BY KindRow DEF IInv, Row
  <2> QED
    BY <1>3, <1>9, <2>1
<1> QED
  BY <1>1, <1>3, <1>5, <1>6, <1>7, <1>8, <1>9, <1>10, <1>11

\* It keeps the records apart.
LEMMA CreateIdentified ==
  ASSUME IInv, NEW who \in {"provider", "lost"}, CreateOnServer(who), conf # None,
         call.parent => parent, UNCHANGED <<kind, conf, parent, used>>,
         tf' = tf \/ tf'.id = Creation(conf, who).record.id
  PROVE  Identified'
<1>0. PICK m, o : m = Creation(conf, who).record /\ o = Creation(conf, who).old
  OBVIOUS
<1>1. plan' = plan /\ ops' = ops /\ call' = call
  BY SameRow
<1>2. conf \in Configs /\ srv' = (srv \ o) \cup {m}
  BY <1>0, CreateOnServerFacts
<1>3. /\ \A r \in srv \ o : (call.write # "append" => r.name # m.name) /\ (~Put => r.id # m.id)
      /\ ops.find # "only" \/ srv' = {m}
  BY <1>0, CreateOnServerFacts
<1>4. /\ m.name = conf.name /\ o \subseteq srv /\ (Put => o # {})
      /\ \A r \in o : m.id = r.id /\ o = {r} /\ r \in Target(conf)
  BY <1>0, <1>2, CreationFacts DEF IInv
<1>5. ASSUME ~Put, NEW r \in srv', NEW q \in srv', r.id = q.id PROVE r = q
  BY <1>2, <1>3, <1>5 DEF IInv, Identified
<1>6. ASSUME call.write # "append", NEW r \in srv', NEW q \in srv', r.name = q.name
      PROVE  r = q
  BY <1>2, <1>3, <1>6 DEF IInv, Identified
<1>7. ops.find = "only" => \A r, q \in srv' : r = q
  BY <1>3
<1>8. ASSUME Put PROVE (\A r \in srv' : r.id = 0) /\ (tf' # None => tf'.id = 0)
  BY <1>0, <1>2, <1>4, <1>8 DEF IInv, Identified
<1>9. ASSUME Put, NEW c \in Configs PROVE Target(c)' # {}
  <2>1. PICK r : r \in Target(c)
    BY <1>9 DEF IInv, Identified
  <2>2. CASE r \in o
    <3>1. r.name = conf.name \/ ops.find = "only"
      BY <1>4, <2>2 DEF Target
    <3>2. m \in Target(c)'
      BY <1>1, <1>2, <1>4, <1>9, <2>1, <3>1 DEF Target, Put
    <3> QED
      BY <3>2
  <2>3. CASE r \notin o
    <3>1. r \in Target(c)'
      BY <1>1, <1>2, <1>9, <2>1, <2>3 DEF Target, Put
    <3> QED
      BY <3>1
  <2> QED
    BY <2>2, <2>3
<1> QED
  BY <1>1, <1>5, <1>6, <1>7, <1>8, <1>9 DEF Identified, Put

\* A create call that is answered, or an update that is one: what the provider
\* knew of is what it writes.
LEMMA Written ==
  ASSUME IInv, CreateOnServer("provider"), conf # None, call.parent => parent,
         UNCHANGED <<kind, conf, parent, used, quiet, left>>,
         tf' = StateOf(Creation(conf, "provider").record, conf), run' = "done",
         ~Put => \A r \in srv : Known(r) => r \in Target(conf)
  PROVE  IInv'
<1>0. PICK m, o : m = Creation(conf, "provider").record /\ o = Creation(conf, "provider").old
  OBVIOUS
<1>1. plan' = plan /\ ops' = ops /\ call' = call
  BY SameRow
<1>2. Row(plan, ops, call)
  BY KindRow DEF IInv
<1>3. /\ conf \in Configs /\ srv' = (srv \ o) \cup {m}
      /\ srv' \subseteq Records /\ (\A r \in srv' : r.id \in 0..ids') /\ ids' \in Nat /\ ids' >= ids
      /\ unknown' \subseteq 0..ids' /\ shared' \subseteq 0..ids'
      /\ \A r \in srv \ o : (call.write # "append" => r.name # m.name) /\ (~Put => r.id # m.id)
      /\ ops.find # "only" \/ srv' = {m}
  BY <1>0, CreateOnServerFacts
<1>4. /\ m \in Records /\ m.name = conf.name /\ m.body = conf.body /\ m.by = "provider"
      /\ m.secret = conf.secret \/ (call.keeps /\ conf.secret = NoSecret)
      /\ \A r \in Target(conf) : r \in o
  BY <1>0, <1>3, CreationFacts DEF IInv
<1>5. unknown' = unknown \ {m.id} /\ shared' = shared
  BY <1>0 DEF CreateOnServer
<1>6. /\ tf' \in Resources /\ tf'.id = m.id /\ tf'.name = m.name
      /\ ops.body = "kept" => tf'.body = conf.body
      /\ ops.secret = "shown" => tf'.secret = m.secret
      /\ ops.secret = "kept" => tf'.secret = conf.secret
      /\ ops.secret = "masked" =>
           /\ m.secret = NoSecret => tf'.secret = NoSecret
           /\ m.secret # NoSecret /\ conf.secret # NoSecret => tf'.secret = conf.secret
           /\ m.secret # NoSecret /\ conf.secret = NoSecret => tf'.secret = Mask
  BY <1>0, <1>3, <1>4, StateOfFields, ConfigIsPrevious DEF IInv
<1>7. tf' # None /\ conf.secret # Mask /\ m.secret # Mask
  BY <1>3, <1>4, <1>6, NoneAssumption, ConfigIsPrevious, NoRecordIsMasked
<1>8. ops.secret = "masked" => tf'.secret = m.secret
  BY <1>2, <1>4, <1>6 DEF Row
<1>9. TypeOK'
  <2>1. used' \subseteq 0..ids'
    BY <1>3 DEF IInv, TypeOK
  <2> QED
    BY <1>3, <1>4, <1>6, <2>1 DEF IInv, TypeOK
<1>10. Identified'
  BY <1>0, <1>6, CreateIdentified
<1>11. Planned'
  BY DEF Planned
<1>12. ASSUME ~Put, NEW r \in srv', Known(r)' \/ r.by = "provider" PROVE r = m
  <2>1. ~Orphaned
    BY <1>2 DEF Row, Orphaned
  <2>2. r \in srv => Known(r) \/ r = m
    BY <1>3, <1>5, <1>12, <2>1 DEF IInv, Linked, Known
  <2> QED
    BY <1>3, <1>4, <1>12, <2>2
<1>13. Linked'
  <2>1. ASSUME ~Put, NEW r \in srv', r.id = m.id PROVE r = m
    BY <1>3, <2>1
  <2> QED
    BY <1>1, <1>4, <1>5, <1>6, <1>7, <1>12, <2>1 DEF Linked, Put, Known, Orphaned
<1>14. Remembered'
  <2> SUFFICES ASSUME NEW r \in srv', r.by = "provider"
               PROVE  /\ ops.body = "kept" => r.body = tf'.body
                      /\ ops.secret = "masked" => tf'.secret = r.secret
                      /\ ops.secret = "kept" =>
                           r.secret = tf'.secret \/ (call.keeps /\ tf'.secret = NoSecret)
    BY <1>1 DEF Remembered, Found
  <2>1. r = m \/ (ops.body = "shown" /\ ops.secret = "shown")
    BY <1>2, <1>3, <1>12 DEF Row, Put
  <2> QED
    BY <1>4, <1>6, <1>8, <2>1
<1>15. Masked'
  <2>1. tf'.secret # Mask
    BY <1>2, <1>6, <1>7, <1>8 DEF Row
  <2> QED
    BY <1>1, <1>3, <1>4, <1>5, <2>1 DEF IInv, Masked
<1>16. AppliedIsServed'
  BY <1>1, <1>3, <1>4, <1>6, <1>7 DEF AppliedIsServed
<1> QED
  BY <1>9, <1>10, <1>11, <1>13, <1>14, <1>15, <1>16 DEF IInv

\* The same call without an answer.
LEMMA WrittenUnanswered ==
  ASSUME IInv, CreateOnServer("lost"), conf # None, call.parent => parent, left > 0,
         UNCHANGED <<kind, conf, tf, parent, used, quiet>>, run' = "idle", left' = left - 1
  PROVE  IInv'
<1>0. PICK m, o : m = Creation(conf, "lost").record /\ o = Creation(conf, "lost").old
  OBVIOUS
<1>1. plan' = plan /\ ops' = ops /\ call' = call
  BY SameRow
<1>2. Row(plan, ops, call)
  BY KindRow DEF IInv
<1>3. /\ conf \in Configs /\ srv' = (srv \ o) \cup {m}
      /\ srv' \subseteq Records /\ (\A r \in srv' : r.id \in 0..ids') /\ ids' \in Nat
      /\ ids' >= ids /\ unknown' \subseteq 0..ids' /\ shared \subseteq shared'
      /\ shared' \subseteq 0..ids'
      /\ \A r \in srv \ o : ~Put => r.id # m.id
  BY <1>0, CreateOnServerFacts
<1>4. /\ m.name = conf.name /\ m.by = "lost"
      /\ o = {} => m.id = ids + 1
      /\ \A r \in o : m.id = r.id /\ m.made = r.made /\ r \in Target(conf) /\ r \in srv
  BY <1>0, <1>3, CreationFacts DEF IInv
<1>5. unknown' = unknown \cup ({m.id} \ {r.id : r \in o}) /\ shared' = shared \cup {m.id}
  BY <1>0 DEF CreateOnServer
<1>6. ids \in Nat /\ (tf # None => tf.id \in 0..ids)
  BY DEF IInv, TypeOK
<1>7. TypeOK'
  <2>1. tf' # None => tf'.id \in 0..ids'
    BY <1>3, <1>6
  <2>2. used' \subseteq 0..ids'
    BY <1>3, <1>6 DEF IInv, TypeOK
  <2> QED
    BY <1>3, <2>1, <2>2, OneLeft DEF IInv, TypeOK
<1>8. Identified'
  BY <1>0, CreateIdentified
<1>9. Planned' /\ AppliedIsServed'
  BY DEF Planned, AppliedIsServed
\* The record that is written is new and unknown, or what it was before.
<1>10. o # {} \/ (m.id \in unknown' /\ (tf # None => m.id # tf.id))
  BY <1>4, <1>5, <1>6
<1>11. ASSUME ~Put, Known(m)' PROVE tf # None /\ tf.id = m.id
  <2>1. PICK r \in o : TRUE
    BY <1>10, <1>11 DEF Known, Orphaned
  <2>2. Known(r)
    BY <1>4, <1>5, <1>11, <2>1 DEF Known, Orphaned
  <2> QED
    BY <1>4, <1>11, <2>1, <2>2 DEF IInv, Linked
<1>12. ASSUME call.write \notin {"append", "put"}, tf # None, m.id = tf.id PROVE m.name = tf.name
  <2>1. PICK r \in o : TRUE
    BY <1>10, <1>12
  <2>2. r.name = conf.name
    BY <1>2, <1>4, <1>12, <2>1 DEF Row, Target
  <2> QED
    BY <1>4, <1>12, <2>1, <2>2 DEF IInv, Linked
<1>13. Linked'
  <2>1. \A r \in srv' : r \in srv \/ r = m
    BY <1>3
  <2>2. ASSUME NEW r \in srv, Known(r)' PROVE Known(r)
    BY <1>5, <2>2 DEF Known, Orphaned
  <2>3. ASSUME ~Put, NEW r \in srv', Known(r)'
        PROVE  tf # None /\ tf.id = r.id
    BY <1>4, <1>11, <2>1, <2>2, <2>3 DEF IInv, Linked
  <2>4. ASSUME ~Put, ~Orphaned, NEW r \in srv', r.by = "provider" PROVE Known(r)'
    <3>1. r \in srv \ o /\ r.id # m.id
      BY <1>3, <1>4, <2>4
    <3>2. Known(r)
      BY <2>4, <3>1 DEF IInv, Linked
    <3> QED
      BY <1>5, <3>1, <3>2 DEF Known
  <2>5. call.write = "append" /\ tf # None => tf.id \notin unknown'
    <3>1. CASE o = {}
      BY <1>5, <1>10, <3>1 DEF IInv, Linked
    <3>2. CASE o # {}
      <4>1. unknown' = unknown
        BY <1>4, <1>5, <3>2
      <4> QED
        BY <4>1 DEF IInv, Linked
    <3> QED
      BY <3>1, <3>2
  <2> QED
    BY <1>1, <1>12, <2>1, <2>3, <2>4, <2>5 DEF IInv, Linked, Put, Known, Orphaned
<1>14. Remembered'
  BY <1>1, <1>3, <1>4 DEF IInv, Remembered, Found
<1>15. Masked'
  BY <1>1, <1>3, <1>5 DEF IInv, Masked
<1> QED
  BY <1>7, <1>8, <1>9, <1>13, <1>14, <1>15 DEF IInv

LEMMA CreateIInv == ASSUME IInv, Create PROVE IInv'
<1>1. tf = None /\ conf # None
  BY DEF Create, IInv, Planned
<1>2. ~Put => \A r \in srv : ~(Known(r))
  BY <1>1 DEF IInv, Linked
<1> QED
  BY <1>1, <1>2, Written DEF Create, CreateAllowed

LEMMA CreateUnansweredIInv == ASSUME IInv, CreateUnanswered PROVE IInv'
<1>1. conf # None
  BY DEF CreateUnanswered, IInv, Planned
<1> QED
  BY <1>1, WrittenUnanswered DEF CreateUnanswered, CreateAllowed

\* An update that is one of Create's calls goes to the record of the state.
LEMMA UpdateKeepsName ==
  ASSUME IInv, run = "update", UpdateAllowed, call.write \notin {"append", "put"}
  PROVE  \A r \in srv : Known(r) => r \in Target(conf)
<1>1. Row(plan, ops, call)
  BY KindRow DEF IInv
<1>2. plan = "updateBody" /\ tf.name = conf.name
  BY <1>1 DEF Row, UpdateAllowed, InPlace, IInv, Planned
<1>3. \A r \in srv : Known(r) => r.name = conf.name
  BY <1>2 DEF IInv, Linked, Put
<1> QED
  BY <1>3 DEF Target

\* What an update by PATCH does to the records.
LEMMA UpdateAppended ==
  ASSUME IInv, UpdateAllowed, call.write = "append", conf # None,
         NEW who \in {"provider", "lost"}, UpdateOnServer(who)
  PROVE  \E r \in srv :
           /\ r.id = tf.id /\ Addressed(tf) = {r} /\ conf \in Configs
           /\ srv' = (srv \ {r}) \cup {ChangedRecord(r, conf, who)}
           /\ UNCHANGED <<ids, unknown>>
           /\ shared' = IF who = "lost" THEN shared \cup {r.id} ELSE shared
<1>1. ops.find = "id"
  BY KindRow DEF IInv, Row
<1>2. Addressed(tf) = {r \in srv : r.id = tf.id}
  BY <1>1 DEF Addressed, Found
<1>3. PICK r \in srv : r.id = tf.id
  BY <1>2 DEF UpdateAllowed
<1>4. Addressed(tf) = {r}
  BY <1>2, <1>3 DEF IInv, Identified, Put
<1>5. srv' = {IF q \in Addressed(tf) THEN ChangedRecord(q, conf, who) ELSE q : q \in srv}
  BY DEF UpdateOnServer
<1>6. srv' = (srv \ {r}) \cup {ChangedRecord(r, conf, who)}
  <2>1. srv' = {IF q = r THEN ChangedRecord(r, conf, who) ELSE q : q \in srv}
    BY <1>4, <1>5
  <2> HIDE DEF ChangedRecord
  <2> QED
    BY <2>1
<1>7. UNCHANGED <<ids, unknown>>
  BY DEF UpdateOnServer
<1>8. shared' = IF who = "lost" THEN shared \cup {q.id : q \in Addressed(tf)} ELSE shared
  BY DEF UpdateOnServer
<1>9. {q.id : q \in Addressed(tf)} = {r.id}
  BY <1>4
<1> QED
  BY <1>3, <1>4, <1>6, <1>7, <1>8, <1>9 DEF IInv, TypeOK

LEMMA UpdateIInv == ASSUME IInv, Update PROVE IInv'
<1>1. tf # None /\ conf # None
  BY DEF Update, IInv, Planned
<1>2. CASE call.write # "append"
  <2>1. ~Put => \A r \in srv : Known(r) => r \in Target(conf)
    BY <1>2, UpdateKeepsName DEF Update, Put
  <2>2. CreateOnServer("provider") /\ tf' = StateOf(Creation(conf, "provider").record, conf)
    BY <1>2 DEF Update, UpdateOnServer, Updated
  <2> QED
    BY <1>1, <2>1, <2>2, Written DEF Update, UpdateAllowed
<1>3. CASE call.write = "append"
  <2>1. PICK r \in srv :
          /\ r.id = tf.id /\ Addressed(tf) = {r} /\ conf \in Configs
          /\ srv' = (srv \ {r}) \cup {ChangedRecord(r, conf, "provider")}
          /\ UNCHANGED <<ids, unknown, shared>>
    BY <1>1, <1>3, UpdateAppended DEF Update
  <2>2. PICK m : m = ChangedRecord(r, conf, "provider")
    OBVIOUS
  <2>3. plan' = plan /\ ops' = ops /\ call' = call
    BY SameRow DEF Update
  <2>4. Row(plan, ops, call)
    BY KindRow DEF IInv
  <2>5. srv' = (srv \ {r}) \cup {m} /\ r \in Records
    BY <2>1, <2>2 DEF IInv, TypeOK
  <2>6. /\ m \in Records /\ m.id = r.id /\ m.name = conf.name /\ m.body = conf.body
        /\ m.by = "provider" /\ m.made = r.made
        /\ m.secret = conf.secret \/ (call.keeps /\ conf.secret = NoSecret)
    BY <2>1, <2>2, <2>5, ChangedRecordFields
  <2>7. tf' = StateOf(m, conf) /\ run' = "done" /\ UNCHANGED <<kind, conf, parent, used, quiet, left>>
    <3>1. Updated = ChangedRecord(CHOOSE q \in Addressed(tf) : TRUE, conf, "provider")
      BY <1>3 DEF Updated
    <3>2. (CHOOSE q \in Addressed(tf) : TRUE) = r
      BY <2>1
    <3> QED
      BY <2>2, <3>1, <3>2 DEF Update
  <2>8. /\ tf' \in Resources /\ tf'.id = m.id /\ tf'.name = m.name
        /\ ops.body = "kept" => tf'.body = conf.body
        /\ ops.secret = "shown" => tf'.secret = m.secret
        /\ ops.secret = "kept" => tf'.secret = conf.secret
        /\ ops.secret = "masked" =>
             /\ m.secret = NoSecret => tf'.secret = NoSecret
             /\ m.secret # NoSecret /\ conf.secret # NoSecret => tf'.secret = conf.secret
             /\ m.secret # NoSecret /\ conf.secret = NoSecret => tf'.secret = Mask
    BY <2>1, <2>6, <2>7, StateOfFields, ConfigIsPrevious DEF IInv
  <2>9. tf' # None /\ conf.secret # Mask /\ m.secret # Mask
    BY <2>1, <2>6, <2>8, NoneAssumption, ConfigIsPrevious, NoRecordIsMasked
  <2>10. ops.secret = "masked" => tf'.secret = m.secret
    BY <2>4, <2>6, <2>8 DEF Row
  <2>11. \A q \in srv' : q.id = m.id => q = m
    BY <1>3, <2>1, <2>5, <2>6 DEF IInv, Identified, Put
  <2>12. TypeOK'
    BY <2>1, <2>5, <2>6, <2>7, <2>8 DEF IInv, TypeOK
  <2>13. Identified'
    BY <1>3, <2>3, <2>4, <2>5, <2>6, <2>11 DEF IInv, Identified, Put, Row
  <2>14. Planned'
    BY <2>7 DEF Planned
  <2>15. Linked'
    <3>1. m.id = tf.id /\ tf'.id = m.id /\ m.id \notin unknown /\ tf # None
      BY <1>1, <1>3, <2>1, <2>6, <2>8 DEF IInv, Linked, Update, Planned
    <3>2. Known(m)
      BY <2>6, <3>1 DEF Known
    <3>3. ASSUME NEW q \in srv', q # m PROVE q \in srv /\ (Known(q) => q.id = tf.id)
      BY <1>3, <2>5, <3>3 DEF IInv, Linked, Put
    <3>4. ASSUME ~Orphaned, NEW q \in srv', q.by = "provider" PROVE Known(q)
      BY <1>3, <3>2, <3>3, <3>4 DEF IInv, Linked, Put
    <3> QED
      BY <1>3, <2>1, <2>3, <2>7, <2>9, <3>1, <3>3, <3>4
         DEF Linked, Put, Known, Orphaned
  <2>16. Remembered'
    <3>1. \A q \in Found(tf)' : q = m
      BY <1>3, <2>3, <2>4, <2>8, <2>11 DEF Row, Found
    <3> QED
      BY <2>3, <2>6, <2>8, <2>10, <3>1 DEF Remembered
  <2>17. Masked'
    <3>1. tf'.secret # Mask
      BY <2>4, <2>8, <2>9, <2>10 DEF Row
    <3> QED
      BY <2>1, <2>3, <2>5, <2>6, <3>1 DEF IInv, Masked
  <2>18. AppliedIsServed'
    BY <2>3, <2>5, <2>6, <2>7, <2>8, <2>9 DEF AppliedIsServed
  <2> QED
    BY <2>12, <2>13, <2>14, <2>15, <2>16, <2>17, <2>18 DEF IInv
<1> QED
  BY <1>2, <1>3

LEMMA UpdateUnansweredIInv == ASSUME IInv, UpdateUnanswered PROVE IInv'
<1>1. tf # None /\ conf # None
  BY DEF UpdateUnanswered, IInv, Planned
<1>2. CASE call.write # "append"
  BY <1>1, <1>2, WrittenUnanswered DEF UpdateUnanswered, UpdateAllowed, UpdateOnServer
<1>3. CASE call.write = "append"
  <2>1. PICK r \in srv :
          /\ r.id = tf.id /\ Addressed(tf) = {r} /\ conf \in Configs
          /\ srv' = (srv \ {r}) \cup {ChangedRecord(r, conf, "lost")}
          /\ UNCHANGED <<ids, unknown>> /\ shared' = shared \cup {r.id}
    BY <1>1, <1>3, UpdateAppended DEF UpdateUnanswered
  <2>2. PICK m : m = ChangedRecord(r, conf, "lost")
    OBVIOUS
  <2>3. plan' = plan /\ ops' = ops /\ call' = call
    BY SameRow DEF UpdateUnanswered
  <2>4. Row(plan, ops, call)
    BY KindRow DEF IInv
  <2>5. srv' = (srv \ {r}) \cup {m} /\ r \in Records /\ r.id \in 0..ids
    BY <2>1, <2>2 DEF IInv, TypeOK
  <2>6. m \in Records /\ m.id = r.id /\ m.by = "lost" /\ m.made = r.made
    BY <2>1, <2>2, <2>5, ChangedRecordFields
  <2>7. TypeOK'
    BY <2>1, <2>5, <2>6, OneLeft DEF UpdateUnanswered, IInv, TypeOK
  <2>8. Identified'
    BY <1>3, <2>3, <2>4, <2>5, <2>6 DEF IInv, Identified, Put, Row
  <2>9. Planned' /\ AppliedIsServed'
    BY DEF UpdateUnanswered, Planned, AppliedIsServed
  <2>10. Linked'
    BY <1>3, <2>1, <2>3, <2>5, <2>6 DEF UpdateUnanswered, IInv, Linked, Put, Known, Orphaned
  <2>11. Remembered'
    BY <2>3, <2>5, <2>6 DEF UpdateUnanswered, IInv, Remembered, Found
  <2>12. Masked'
    BY <2>1, <2>3, <2>5, <2>6 DEF UpdateUnanswered, IInv, Masked
  <2> QED
    BY <2>7, <2>8, <2>9, <2>10, <2>11, <2>12 DEF IInv
<1> QED
  BY <1>2, <1>3

\* What Delete does to the records: it removes those of the state, or resets them.
LEMMA DeleteRemoves ==
  ASSUME IInv, NEW who, DeleteOnServer(who), ~Put
  PROVE  srv' = IF Orphaned THEN srv ELSE srv \ Addressed(tf)
<1>1. ops.remove = "delete"
  BY KindRow DEF IInv, Row, Put
<1> QED
  BY <1>1 DEF DeleteOnServer

LEMMA DeleteResets ==
  ASSUME IInv, NEW who \in {"provider", "lost"}, DeleteOnServer(who), Put,
         UNCHANGED <<kind, parent>>, tf' = None \/ tf' = tf
  PROVE  /\ \A q \in srv' : q \in srv \/ (q \in Records /\ q.by = who /\ q.secret = NoSecret)
         /\ \A q \in srv' : q.id = 0
         /\ Identified'
<1> DEFINE F(r) == IF ops.remove = "reset" /\ r \in Addressed(tf)
                     THEN AfterReset(r, who) ELSE r
<1>1. plan' = plan /\ ops' = ops /\ call' = call
  BY SameRow
<1>2. srv' = {F(r) : r \in srv}
  <2>1. CASE ops.remove = "reset"
    <3>1. srv' = {IF r \in Addressed(tf) THEN AfterReset(r, who) ELSE r : r \in srv}
      BY <2>1 DEF DeleteOnServer
    <3> HIDE DEF AfterReset, Addressed
    <3> QED
      BY <2>1, <3>1
  <2>2. CASE ops.remove = "nothing"
    <3>1. srv' = srv
      BY <2>2 DEF DeleteOnServer
    <3> QED
      BY <2>2, <3>1
  <2>3. ops.remove \in {"reset", "nothing"}
    BY KindRow DEF IInv, Row, Put
  <2> QED
    BY <2>1, <2>2, <2>3
<1>3. ASSUME NEW r \in srv
      PROVE  /\ F(r) \in Records /\ F(r).id = 0 /\ F(r).name = r.name
             /\ F(r) = r \/ (F(r).by = who /\ F(r).secret = NoSecret)
  <2>1. r \in Records /\ r.id = 0
    BY DEF IInv, TypeOK, Identified
  <2> QED
    BY <2>1, AfterResetFields
<1> HIDE DEF F
<1>4. \A q \in srv' : q \in srv \/ (q \in Records /\ q.by = who /\ q.secret = NoSecret)
  BY <1>2, <1>3
<1>5. \A q \in srv' : q.id = 0
  BY <1>2, <1>3
<1>6. ASSUME NEW p \in srv', NEW q \in srv', p.name = q.name PROVE p = q
  <2>1. PICK r \in srv : p = F(r)
    BY <1>2
  <2>2. PICK s \in srv : q = F(s)
    BY <1>2
  <2>3. r.name = s.name
    BY <1>3, <1>6, <2>1, <2>2
  <2>4. r = s
    BY <2>3 DEF IInv, Identified, Put
  <2> QED
    BY <2>1, <2>2, <2>4
<1>7. ASSUME ops.find = "only", NEW p \in srv', NEW q \in srv' PROVE p = q
  BY <1>2, <1>7 DEF IInv, Identified
<1>8. ASSUME call.parent => parent, NEW c \in Configs PROVE Target(c)' # {}
  <2>1. PICK r \in srv : ops.find = "only" \/ r.name = c.name
    BY <1>8 DEF IInv, Identified, Target
  <2>2. F(r) \in srv' /\ F(r).name = r.name
    BY <1>2, <1>3
  <2>3. F(r) \in Target(c)'
    BY <1>1, <2>1, <2>2 DEF Target, Put
  <2> QED
    BY <2>3
<1>9. Identified'
  BY <1>1, <1>5, <1>6, <1>7, <1>8 DEF IInv, Identified, Put
<1> QED
  BY <1>4, <1>5, <1>9

\* The record of the state is among those that Delete addresses.
LEMMA StateIsAddressed ==
  ASSUME IInv, tf # None, ~Put, NEW r \in srv, r.id = tf.id PROVE r \in Addressed(tf)
<1>1. Row(plan, ops, call)
  BY KindRow DEF IInv
<1>2. ops.find \in {"id", "idOrName"} \/ (ops.find = "name" /\ r.name = tf.name)
  BY <1>1 DEF Row, IInv, Linked, Put
<1>3. CASE ops.find = "id"
  BY <1>3 DEF Addressed, Found
<1>4. CASE ops.find = "idOrName"
  BY <1>4 DEF Addressed
<1>5. CASE ops.find = "name" /\ r.name = tf.name
  BY <1>5 DEF Addressed, Found
<1> QED
  BY <1>2, <1>3, <1>4, <1>5

LEMMA DeleteIInv == ASSUME IInv, Delete PROVE IInv'
<1>1. plan' = plan /\ ops' = ops /\ call' = call
  BY SameRow DEF Delete
<1>2. /\ tf # None /\ tf' = None /\ (run = "delete" => run' = "done" /\ conf = None)
      /\ run # "delete" => run' = "create" /\ conf # None
      /\ UNCHANGED <<kind, conf, parent, used, ids, quiet, shared, left>>
      /\ unknown' = IF Orphaned THEN unknown \cup {r.id : r \in Addressed(tf)} ELSE unknown
  BY DEF Delete, IInv, Planned
<1>3. run' \in {"done", "create"} /\ Planned' /\ Remembered' /\ AppliedIsServed'
  BY <1>2 DEF Planned, Remembered, AppliedIsServed
<1>4. CASE ~Put /\ ~Orphaned
  <2>1. srv' = srv \ Addressed(tf)
    BY <1>4, DeleteRemoves DEF Delete
  <2>2. TypeOK'
    <3>1. unknown' = unknown /\ srv' \subseteq srv
      BY <1>2, <1>4, <2>1
    <3> QED
      BY <1>2, <1>3, <3>1 DEF IInv, TypeOK, Applying
  <2>3. Identified'
    BY <1>1, <1>4, <2>1 DEF IInv, Identified, Put
  <2>4. \A r \in srv' : ~Known(r) /\ r.by # "provider"
    BY <1>2, <1>4, <2>1, StateIsAddressed DEF IInv, Linked
  <2>5. Linked'
    BY <1>1, <1>2, <2>4 DEF Linked, Known, Orphaned, Put
  <2>6. Masked'
    BY <1>1, <1>2, <2>1 DEF IInv, Masked
  <2> QED
    BY <1>3, <2>2, <2>3, <2>5, <2>6 DEF IInv
\* The record of an orphan stays, and is not known any more.
<1>5. CASE Orphaned
  <2>1. ~Put
    BY <1>5, KindRow DEF IInv, Row, Orphaned, Put
  <2>2. srv' = srv
    BY <1>5, <2>1, DeleteRemoves DEF Delete
  <2>3. Addressed(tf) \subseteq srv /\ unknown' = unknown \cup {r.id : r \in Addressed(tf)}
    BY <1>2, <1>5 DEF Addressed, Found
  <2>4. TypeOK'
    BY <1>2, <1>3, <2>2, <2>3 DEF IInv, TypeOK, Applying
  <2>5. Identified'
    BY <1>1, <2>1, <2>2 DEF IInv, Identified, Put
  <2>6. \A r \in srv' : ~Known(r)'
    BY <2>1, <2>2, <2>3, StateIsAddressed DEF IInv, Linked, Known
  <2>7. Linked'
    BY <1>1, <1>2, <1>5, <2>6 DEF Linked, Orphaned
  <2>8. Masked'
    BY <1>1, <1>2, <2>2 DEF IInv, Masked
  <2> QED
    BY <1>3, <2>4, <2>5, <2>7, <2>8 DEF IInv
<1>6. CASE Put
  <2>1. /\ \A q \in srv' : q \in srv \/ (q \in Records /\ q.secret = NoSecret)
        /\ \A q \in srv' : q.id = 0
        /\ Identified'
    BY <1>2, <1>6, DeleteResets DEF Delete
  <2>2. unknown' \subseteq 0..ids
    BY <1>2, <1>6, KindRow DEF IInv, Row, TypeOK, Orphaned, Put
  <2>6. TypeOK'
    BY <1>2, <1>3, <2>1, <2>2 DEF IInv, TypeOK, Applying
  <2>3. Linked'
    BY <1>1, <1>6 DEF Linked, Put
  <2>4. Masked'
    BY <1>1, <1>2, <2>1 DEF IInv, Masked
  <2> QED
    BY <1>3, <2>1, <2>6, <2>3, <2>4 DEF IInv
<1> QED
  BY <1>4, <1>5, <1>6

LEMMA DeleteUnansweredIInv == ASSUME IInv, DeleteUnanswered PROVE IInv'
<1>1. plan' = plan /\ ops' = ops /\ call' = call
  BY SameRow DEF DeleteUnanswered
<1>2. /\ run' = "idle" /\ UNCHANGED <<kind, conf, tf, parent, used, ids, quiet, unknown, shared>>
      /\ left' \in 0..Surprises
  BY OneLeft DEF DeleteUnanswered, IInv
<1>3. Planned' /\ AppliedIsServed'
  BY <1>2 DEF Planned, AppliedIsServed
<1>4. CASE ~Put
  <2>1. srv' \subseteq srv
    BY <1>4, DeleteRemoves DEF DeleteUnanswered
  <2>2. TypeOK'
    BY <1>2, <2>1 DEF IInv, TypeOK
  <2>3. Identified'
    BY <1>1, <1>4, <2>1 DEF IInv, Identified, Put
  <2>4. Linked'
    BY <1>1, <1>2, <2>1 DEF IInv, Linked, Known, Orphaned, Put
  <2>5. Remembered'
    BY <1>1, <1>2, <2>1 DEF IInv, Remembered, Found
  <2>6. Masked'
    BY <1>1, <1>2, <2>1 DEF IInv, Masked
  <2> QED
    BY <1>3, <2>2, <2>3, <2>4, <2>5, <2>6 DEF IInv
<1>5. CASE Put
  <2>1. /\ \A q \in srv' : q \in srv \/ (q \in Records /\ q.by = "lost" /\ q.secret = NoSecret)
        /\ \A q \in srv' : q.id = 0
        /\ Identified'
    BY <1>2, <1>5, DeleteResets DEF DeleteUnanswered
  <2>2. TypeOK'
    BY <1>2, <2>1 DEF IInv, TypeOK
  <2>3. Linked'
    BY <1>1, <1>5 DEF Linked, Put
  <2>4. Remembered'
    BY <1>1, <1>2, <2>1 DEF IInv, Remembered, Found
  <2>5. Masked'
    BY <1>1, <1>2, <2>1 DEF IInv, Masked
  <2> QED
    BY <1>3, <2>1, <2>2, <2>3, <2>4, <2>5 DEF IInv
<1> QED
  BY <1>4, <1>5

-----------------------------------------------------------------------------
(* What the user and others do. *)

LEMMA ImportStateIInv == ASSUME IInv, ImportState PROVE IInv'
<1>1. plan' = plan /\ ops' = ops /\ call' = call
  BY SameRow DEF ImportState
<1>2. Row(plan, ops, call)
  BY KindRow DEF IInv
<1>3. /\ tf = None /\ run' = "idle" /\ UNCHANGED <<kind, conf, parent, used, ids, quiet>>
      /\ left' \in 0..Surprises
  BY OneLeft DEF ImportState, IInv
<1>4. PICK r \in srv : /\ tf' = StateOf(r, Blank)
                       /\ srv' = (srv \ {r}) \cup {[r EXCEPT !.made = "imported", !.by = "elsewhere"]}
                       /\ shared' = shared \cup {r.id} /\ unknown' = unknown \ {r.id}
  BY DEF ImportState
<1>5. PICK m : m = [r EXCEPT !.made = "imported", !.by = "elsewhere"]
  OBVIOUS
<1>6. r \in Records /\ r.id \in 0..ids
  BY DEF IInv, TypeOK
<1>7. /\ m \in Records /\ m.id = r.id /\ m.name = r.name /\ m.by = "elsewhere" /\ m.secret = r.secret
      /\ srv' = (srv \ {r}) \cup {m}
  BY <1>4, <1>5, <1>6, ImportedFields
<1>8. /\ tf' \in Resources /\ tf'.id = r.id /\ tf'.name = r.name
      /\ ops.secret = "shown" => tf'.secret = r.secret
      /\ ops.secret = "kept" => tf'.secret = NoSecret
      /\ ops.secret = "masked" => /\ r.secret = NoSecret => tf'.secret = NoSecret
                                  /\ r.secret # NoSecret => tf'.secret = Mask
  <2>1. ops.body # "kept"
    BY <1>2 DEF Row, ImportState
  <2>2. Blank.secret = NoSecret /\ NoSecret \in Secrets
    BY DEF Blank, Secrets
  <2> QED
    BY <1>4, <1>6, <2>1, <2>2, StateOfFields DEF IInv
<1>9. tf' # None
  BY <1>8, NoneAssumption
<1>10. TypeOK'
  BY <1>3, <1>4, <1>6, <1>7, <1>8 DEF IInv, TypeOK
<1>11. Identified'
  <2>1. \A q \in srv' : \E p \in srv : /\ q.id = p.id /\ q.name = p.name
                                       /\ q = IF p = r THEN m ELSE p
    BY <1>7
  <2>2. ~Put => \A p, q \in srv' : p.id = q.id => p = q
    BY <2>1 DEF IInv, Identified
  <2>3. Put => (\A q \in srv' : q.id = 0) /\ tf'.id = 0
    BY <1>8, <2>1 DEF IInv, Identified
  <2>4. call.write # "append" => \A p, q \in srv' : p.name = q.name => p = q
    BY <2>1 DEF IInv, Identified
  <2>5. ops.find = "only" => \A p, q \in srv' : p = q
    BY <2>1 DEF IInv, Identified
  <2>6. ASSUME Put, call.parent => parent, NEW c \in Configs PROVE Target(c)' # {}
    <3>1. PICK p \in srv : ops.find = "only" \/ p.name = c.name
      BY <2>6 DEF IInv, Identified, Target
    <3>2. \E q \in srv' : q.name = p.name
      BY <1>7
    <3> QED
      BY <1>1, <2>6, <3>1, <3>2 DEF Target, Put
  <2> QED
    BY <1>1, <1>3, <2>2, <2>3, <2>4, <2>5, <2>6 DEF Identified, Put
<1>12. Planned' /\ AppliedIsServed'
  BY <1>3 DEF Planned, AppliedIsServed
\* Without a state the provider knew of nothing.
<1>13. ASSUME ~Put, NEW q \in srv' PROVE q = m \/ ~Known(q)'
  <2>1. CASE q \in srv /\ q # r
    <3>1. ~Known(q) /\ q.id # r.id
      BY <1>3, <1>13, <2>1 DEF IInv, Linked, Identified
    <3> QED
      BY <1>4, <3>1 DEF Known, Orphaned
  <2> QED
    BY <1>7, <2>1
<1>14. Linked'
  <2>1. \A q \in srv' : ~Put /\ q.id = m.id => q = m
    BY <1>7 DEF IInv, Identified
  <2> QED
    BY <1>1, <1>3, <1>4, <1>7, <1>8, <1>9, <1>13, <2>1
       DEF IInv, Linked, Put, Known, Orphaned
<1>15. Remembered'
  <2>1. CASE Put
    <3>1. ops.body # "kept" /\ ops.secret # "kept" /\ (ops.secret = "masked" => ops.find = "only")
      BY <1>2, <2>1 DEF Row, Put
    <3>2. ops.secret = "masked" => \A q \in srv' : q.secret = r.secret
      BY <1>7, <3>1 DEF IInv, Identified
    <3> QED
      BY <1>1, <1>8, <3>1, <3>2 DEF Remembered, Found
  <2>2. CASE Orphaned
    <3>1. ops.find = "name" /\ \A q \in srv' : q.name = r.name => q = m
      BY <1>2, <1>7, <2>2 DEF Row, Orphaned, IInv, Identified
    <3> QED
      BY <1>1, <1>7, <1>8, <3>1 DEF Remembered, Found
  <2>3. CASE ~Put /\ ~Orphaned
    <3>1. \A q \in srv' : q.by # "provider"
      BY <1>3, <1>7, <2>3 DEF IInv, Linked
    <3> QED
      BY <3>1 DEF Remembered, Found
  <2> QED
    BY <2>1, <2>2, <2>3
<1>16. Masked'
  <2>1. tf'.secret = Mask => ops.secret = "masked"
    <3>1. Mask # NoSecret /\ Mask # r.secret
      BY <1>6, MaskAssumption, NoRecordIsMasked DEF Secrets
    <3> QED
      BY <1>2, <1>8, <3>1 DEF Row
  <2> QED
    BY <1>1, <1>4, <1>7, <1>8, <2>1 DEF IInv, Masked
<1> QED
  BY <1>10, <1>11, <1>12, <1>14, <1>15, <1>16 DEF IInv

\* A step that the provider takes no part in.
LEMMA Elsewhere ==
  ASSUME IInv, UNCHANGED <<kind, conf, tf, run>>, quiet' = FALSE
  PROVE  Planned' /\ AppliedIsServed'
<1>1. plan' = plan
  BY SameRow
<1> QED
  BY <1>1 DEF IInv, Planned, AppliedIsServed

LEMMA ChangeElsewhereIInv == ASSUME IInv, ChangeElsewhere PROVE IInv'
<1>1. plan' = plan /\ ops' = ops /\ call' = call
  BY SameRow DEF ChangeElsewhere
<1>2. /\ UNCHANGED <<kind, conf, tf, parent, used, run, ids, unknown>> /\ quiet' = FALSE
      /\ left' \in 0..Surprises
  BY OneLeft DEF ChangeElsewhere, IInv
<1>3. PICK r \in srv, c \in Configs :
        /\ ops.find # "only" => c.name = r.name
        /\ srv' = (srv \ {r}) \cup {ChangedRecord(r, c, "elsewhere")}
        /\ shared' = shared \cup {r.id}
  BY DEF ChangeElsewhere
<1>4. PICK m : m = ChangedRecord(r, c, "elsewhere")
  OBVIOUS
<1>5. r \in Records /\ r.id \in 0..ids
  BY DEF IInv, TypeOK
<1>6. /\ m \in Records /\ m.id = r.id /\ m.by = "elsewhere" /\ m.made = r.made
      /\ ops.find # "only" => m.name = r.name
      /\ srv' = (srv \ {r}) \cup {m}
  BY <1>3, <1>4, <1>5, ChangedRecordFields
<1>7. TypeOK'
  BY <1>2, <1>3, <1>5, <1>6 DEF IInv, TypeOK
<1>8. Planned' /\ AppliedIsServed'
  BY <1>2, Elsewhere
<1>9. ops.find = "only" => Put
  BY KindRow DEF IInv, Row, Put
<1>10. Identified'
  <2>1. \A q \in srv' : \E p \in srv : /\ q.id = p.id /\ (ops.find # "only" => q.name = p.name)
                                       /\ q = IF p = r THEN m ELSE p
    BY <1>6
  <2>2. ~Put => \A p, q \in srv' : p.id = q.id => p = q
    BY <2>1 DEF IInv, Identified
  <2>3. Put => \A q \in srv' : q.id = 0
    BY <2>1 DEF IInv, Identified
  <2>4. ops.find = "only" => \A p, q \in srv' : p = q
    BY <2>1 DEF IInv, Identified
  <2>5. call.write # "append" => \A p, q \in srv' : p.name = q.name => p = q
    BY <2>1, <2>4 DEF IInv, Identified
  <2>6. ASSUME Put, call.parent => parent, NEW d \in Configs PROVE Target(d)' # {}
    <3>1. PICK p \in srv : ops.find = "only" \/ p.name = d.name
      BY <2>6 DEF IInv, Identified, Target
    <3>2. \E q \in srv' : ops.find = "only" \/ q.name = d.name
      BY <1>6, <3>1
    <3> QED
      BY <1>1, <2>6, <3>2 DEF Target, Put
  <2> QED
    BY <1>1, <1>2, <2>2, <2>3, <2>4, <2>5, <2>6 DEF IInv, Identified, Put
<1>11. Linked'
  BY <1>1, <1>2, <1>6, <1>9 DEF IInv, Linked, Put, Known, Orphaned
<1>12. Remembered'
  BY <1>1, <1>2, <1>6 DEF IInv, Remembered, Found
<1>13. Masked'
  BY <1>1, <1>2, <1>3, <1>6 DEF IInv, Masked
<1> QED
  BY <1>7, <1>8, <1>10, <1>11, <1>12, <1>13 DEF IInv

LEMMA CreateElsewhereIInv == ASSUME IInv, CreateElsewhere PROVE IInv'
<1>1. plan' = plan /\ ops' = ops /\ call' = call
  BY SameRow DEF CreateElsewhere
<1>2. /\ UNCHANGED <<kind, conf, tf, parent, used, run, unknown>> /\ quiet' = FALSE
      /\ left' \in 0..Surprises /\ ids' = ids + 1 /\ shared' = shared \cup {ids + 1}
  BY OneLeft DEF CreateElsewhere, IInv
<1>3. PICK c \in Configs :
        /\ CreateAllowed(c) /\ Target(c) = {}
        /\ srv' = srv \cup {NewRecord(ids + 1, c, "elsewhere")}
  BY DEF CreateElsewhere
<1>4. PICK m : m = NewRecord(ids + 1, c, "elsewhere")
  OBVIOUS
<1>5. /\ ids \in Nat /\ ids + 1 \in Nat /\ unknown \subseteq 0..ids /\ shared \subseteq 0..ids
      /\ (\A r \in srv : r \in Records /\ r.id \in 0..ids) /\ (tf # None => tf.id \in 0..ids)
  BY DEF IInv, TypeOK
<1>6. /\ m \in Records /\ m.id = ids + 1 /\ m.name = c.name /\ m.by = "elsewhere"
      /\ m.made = "elsewhere" /\ srv' = srv \cup {m}
  BY <1>3, <1>4, <1>5, NewRecordFields
<1>7. ~Put
  BY <1>3 DEF IInv, Identified, CreateAllowed
<1>8. 0..ids \subseteq 0..(ids + 1) /\ ids + 1 \in 0..(ids + 1)
      /\ (tf # None => tf.id # ids + 1) /\ \A r \in srv : r.id # ids + 1
  BY <1>5
<1>9. TypeOK'
  <2>1. /\ unknown' \subseteq 0..ids' /\ shared' \subseteq 0..ids'
        /\ (tf' # None => tf'.id \in 0..ids')
    BY <1>2, <1>5, <1>8
  <2>2. srv' \subseteq Records /\ \A r \in srv' : r.id \in 0..ids'
    BY <1>2, <1>5, <1>6, <1>8
  <2>3. used' \subseteq 0..ids'
    BY <1>2, <1>8 DEF IInv, TypeOK
  <2> QED
    BY <1>2, <1>5, <2>1, <2>2, <2>3 DEF IInv, TypeOK
<1>10. Planned' /\ AppliedIsServed'
  BY <1>2, Elsewhere
<1>11. Identified'
  <2>1. ops.find # "only"
    BY <1>7, KindRow DEF IInv, Row, Put
  <2>2. call.write # "append" => \A r \in srv : r.name # m.name
    BY <1>3, <1>6, <2>1 DEF Target
  <2> QED
    BY <1>1, <1>6, <1>7, <1>8, <2>1, <2>2 DEF IInv, Identified, Put
<1>12. Linked'
  BY <1>1, <1>2, <1>6, <1>7, <1>8 DEF IInv, Linked, Put, Known, Orphaned
<1>13. Remembered'
  BY <1>1, <1>2, <1>6 DEF IInv, Remembered, Found
<1>14. Masked'
  BY <1>1, <1>2, <1>6 DEF IInv, Masked
<1> QED
  BY <1>9, <1>10, <1>11, <1>12, <1>13, <1>14 DEF IInv

\* Records that are deleted elsewhere take nothing along.
LEMMA DeletedElsewhere ==
  ASSUME IInv, UNCHANGED <<kind, conf, tf, used, run, ids, unknown, shared>>, quiet' = FALSE,
         left' \in 0..Surprises, parent' \in BOOLEAN, parent' => parent, srv' \subseteq srv,
         ~Put \/ (call.parent /\ ~parent')
  PROVE  IInv'
<1>1. plan' = plan /\ ops' = ops /\ call' = call
  BY SameRow
<1>2. TypeOK'
  BY DEF IInv, TypeOK
<1>3. Planned' /\ AppliedIsServed'
  BY Elsewhere
<1>4. Identified'
  BY <1>1 DEF IInv, Identified, Put
<1>5. Linked'
  BY <1>1 DEF IInv, Linked, Put, Known, Orphaned
<1>6. Remembered'
  BY <1>1 DEF IInv, Remembered, Found
<1>7. Masked'
  BY <1>1 DEF IInv, Masked
<1> QED
  BY <1>2, <1>3, <1>4, <1>5, <1>6, <1>7 DEF IInv

\* Which records are in use matters to deletes alone.
LEMMA UsedIInv ==
  ASSUME IInv, UNCHANGED <<kind, conf, tf, srv, parent, run, ids, quiet, unknown, shared>>,
         left' \in 0..Surprises, used' \subseteq 0..ids
  PROVE  IInv'
<1>1. plan' = plan /\ ops' = ops /\ call' = call
  BY SameRow
<1>2. TypeOK' /\ Identified' /\ Planned'
  BY <1>1 DEF IInv, TypeOK, Identified, Put, Target, Planned
<1>3. Linked' /\ Remembered' /\ Masked'
  BY <1>1 DEF IInv, Linked, Put, Known, Orphaned, Remembered, Found, Masked
<1>4. AppliedIsServed'
  BY <1>1 DEF IInv, AppliedIsServed
<1> QED
  BY <1>2, <1>3, <1>4 DEF IInv

-----------------------------------------------------------------------------
LEMMA NextIInv == IInv /\ [Next]_vars => IInv'
<1> SUFFICES ASSUME IInv, [Next]_vars PROVE IInv'
  OBVIOUS
<1>1. CASE Apply
  BY <1>1, ReadIInv, CreateIInv, CreateUnansweredIInv, UpdateIInv, UpdateUnansweredIInv,
     DeleteIInv, DeleteUnansweredIInv, CallFailsIInv DEF Apply
<1>2. CASE EditConfiguration \/ ImportState \/ ChangeElsewhere \/ CreateElsewhere
  BY <1>2, EditConfigurationIInv, ImportStateIInv, ChangeElsewhereIInv, CreateElsewhereIInv
<1>3. CASE DeleteElsewhere
  <2>1. left' \in 0..Surprises
    BY <1>3, OneLeft DEF DeleteElsewhere, IInv
  <2> QED
    BY <1>3, <2>1, DeletedElsewhere DEF DeleteElsewhere, Put, IInv, TypeOK
<1>4. CASE DeleteParent
  <2>1. left' \in 0..Surprises
    BY <1>4, OneLeft DEF DeleteParent, IInv
  <2> QED
    BY <1>4, <2>1, DeletedElsewhere DEF DeleteParent
<1>5. CASE Occupy \/ Vacate
  <2>1. used' \subseteq 0..ids
    <3>1. used \subseteq 0..ids /\ \A r \in srv : r.id \in 0..ids
      BY DEF IInv, TypeOK
    <3>2. CASE Occupy
      BY <3>1, <3>2 DEF Occupy
    <3>3. CASE Vacate
      BY <3>1, <3>3 DEF Vacate
    <3> QED
      BY <1>5, <3>2, <3>3
  <2>2. left' \in 0..Surprises
    BY <1>5, OneLeft DEF Occupy, Vacate, IInv
  <2> QED
    BY <1>5, <2>1, <2>2, UsedIInv DEF Occupy, Vacate
<1>6. CASE UNCHANGED vars
  BY <1>6, UsedIInv DEF vars, IInv, TypeOK
<1> QED
  BY <1>1, <1>2, <1>3, <1>4, <1>5, <1>6 DEF Next

LEMMA Invariance == Spec => []IInv
  BY InitIInv, NextIInv, PTL DEF Spec

-----------------------------------------------------------------------------
(* Every variable has its type: the state holds a resource or nothing, and  *)
(* neither it nor a record has an id that was not given.                    *)
THEOREM TypeCorrect == Spec => []TypeOK
<1>1. IInv => TypeOK
  BY DEF IInv
<1> QED
  BY <1>1, Invariance, PTL

(* An apply that succeeded left the control plane as configured             *)
(* (resource Create, Update and Read), for every kind of resource.          *)
THEOREM AppliesAreServed == Spec => []AppliedIsServed
<1>1. IInv => AppliedIsServed
  BY DEF IInv
<1> QED
  BY <1>1, Invariance, PTL

(* Whatever calls fail, and whatever others do: a record whose creation the *)
(* provider was told of, or that it imported, is the one of the state file, *)
(* unless it is a branch that was destroyed after its source project.       *)
THEOREM NothingIsForgotten == Spec => []NothingForgotten
  BY IInvForgetsNothing, Invariance, PTL

(* The mask of an answer comes into the state only for a record that was    *)
(* imported, or written elsewhere or by a call that was not answered.       *)
THEOREM OwnSecretsAreKnown == Spec => []OwnSecretsStayKnown
  BY IInvKnowsSecrets, Invariance, PTL
=============================================================================
