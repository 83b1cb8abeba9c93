------------------------------ MODULE MCAccounts ------------------------------
(* Small instances of Accounts. *)
EXTENDS Accounts, TLC

CONSTANTS u1, u2, h1, h2

Symmetry == Permutations(UserIds) \cup Permutations(Handlers)
===============================================================================
