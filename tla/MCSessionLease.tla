--------------------------- MODULE MCSessionLease ---------------------------
(* SessionLease on small instances.                                          *)
EXTENDS SessionLease, TLC

CONSTANTS p1, p2, f1, f2, s1, s2
Symmetry == Permutations({p1, p2}) \cup Permutations({f1, f2}) \cup Permutations({s1, s2})
=============================================================================
