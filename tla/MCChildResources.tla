-------------------------- MODULE MCChildResources --------------------------
(* Three requests against one family of kinds at a time: each kind alone,  *)
(* and the kinds that refer to each other together.                        *)
EXTENDS ChildResources, TLC

CONSTANTS r1, r2, r3

MCRequests == {r1, r2, r3}

MCFamilies ==
  {{k} : k \in {x \in DOMAIN StoreOf : StoreOf[x].needs = {}}}
  \cup {{"functions", "function_regions"}, {"cdn_object_events", "storage_buckets"},
        {"functions", "function_storage_mounts", "storage_buckets"}}

MCSymmetry == Permutations(MCRequests)
=============================================================================
