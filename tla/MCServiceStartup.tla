--------------------------- MODULE MCServiceStartup ---------------------------
(* The startup model with the chain that matters (the database, then auth  *)
(* and rest, then the gateway whose probe needs auth, then studio, which   *)
(* waits for the gateway), under both drivers.  One update after creation  *)
(* and one fault give every mixture of an old and a new set of services.   *)
EXTENDS ServiceStartup
=============================================================================
