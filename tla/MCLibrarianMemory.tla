-------------------------- MODULE MCLibrarianMemory --------------------------
(* LibrarianMemory on small instances: one fact and replies of two          *)
(* operations, or two facts that replace one another.                       *)
EXTENDS LibrarianMemory, TLC

CONSTANTS m1, l1, f1, f2
=============================================================================
