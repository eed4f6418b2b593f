--------------------------- MODULE MCSessionPump ---------------------------
(* SessionPump on small instances.                                           *)
EXTENDS SessionPump
=============================================================================
