----------------------------- MODULE DurableLog -----------------------------
(***************************************************************************)
(* What the persistent store promises its callers, with no memory image,   *)
(* no lock and no save procedure: there is one durable set of writes, a    *)
(* write is acknowledged only once it is durable, and the durable set      *)
(* forgets a write only because an operator restored an older backup.      *)
(***************************************************************************)
CONSTANT Requests       \* the mutating requests, one write each

VARIABLES durable,      \* the writes a restarted control plane will see
          dropped,      \* the writes some restore of an older backup dropped
          acked         \* the requests that were answered with success

vars == <<durable, dropped, acked>>

Init == /\ durable = {}
        /\ dropped = {}
        /\ acked = {}

\* The durable set is replaced by one that keeps everything not dropped.
Persist == /\ \E S \in SUBSET Requests :
                /\ durable \ dropped \subseteq S
                /\ durable' = S
           /\ UNCHANGED <<dropped, acked>>

\* Success is reported only for what is durable, or was dropped on purpose.
Ack(r) == /\ r \in durable \cup dropped
          /\ acked' = acked \cup {r}
          /\ UNCHANGED <<durable, dropped>>

\* A restore installs another durable set and accounts for what it drops.
Restore == \E S \in SUBSET Requests, T \in SUBSET Requests :
             /\ durable \ S \subseteq T
             /\ durable' = S
             /\ dropped' = dropped \cup T
             /\ UNCHANGED acked

Next == Persist \/ Restore \/ \E r \in Requests : Ack(r)

Spec == Init /\ [][Next]_vars
=============================================================================
