------------------------ MODULE MCTerraformProvider ------------------------
(* Every kind of resource; one name configured with each body and secret,  *)
(* without a secret, and another name.                                     *)
EXTENDS TerraformProvider

CONSTANTS n1, n2, b1, b2, s1, s2

AllKinds == DOMAIN PlanOf

SmallConfigs ==
  {[name |-> n1, body |-> b1, secret |-> s1],
   [name |-> n1, body |-> b1, secret |-> s2],
   [name |-> n1, body |-> b2, secret |-> NoSecret],
   [name |-> n2, body |-> b1, secret |-> s1]}
=============================================================================
