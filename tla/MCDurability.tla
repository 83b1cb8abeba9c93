---------------------------- MODULE MCDurability ----------------------------
(* Small instances of Durability: one plain write, two platform backups. *)
EXTENDS Durability

CONSTANTS i1, r1, b1, b2

OneInstance == {i1}
WriteAndBackups == {r1, b1, b2}
TwoBackups == {b1, b2}
=============================================================================
