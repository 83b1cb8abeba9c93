----------------------------- MODULE MCPlacement -----------------------------
(* Small instances of Placement. *)
EXTENDS Placement, TLC

CONSTANTS o1, h1, h2, p1, p2

OneOrg == {o1}
TwoHosts == {h1, h2}
TwoRefs == {p1, p2}

\* An operator's limit: three units and two projects.
OneLimit == {[units |-> 3, projects |-> 2]}

\* Hosts are interchangeable, and so are project refs.
Interchangeable == Permutations(TwoHosts) \cup Permutations(TwoRefs)
=============================================================================
