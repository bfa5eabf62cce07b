--------------------------- MODULE MCSessionClient ---------------------------
(* SessionClient on small instances.                                       *)
EXTENDS SessionClient
=============================================================================
