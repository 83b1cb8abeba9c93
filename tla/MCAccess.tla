------------------------------- MODULE MCAccess -------------------------------
(* Small instances of Access. *)
EXTENDS Access, TLC

CONSTANTS o1, o2, u1, u2, u3, t1, t2, e1, e2, e3, s1, p1, p2

Symmetry == Permutations(OrgIds) \cup Permutations(UserIds) \cup Permutations(TeamIds)
            \cup Permutations(Emails) \cup Permutations(Refs)
===============================================================================
