------------------------- MODULE MCKubernetesRuntime -------------------------
(* A project with a database and a storage service that can be disabled.    *)
EXTENDS KubernetesRuntime

CONSTANTS db, storage, r1, r2
=============================================================================
