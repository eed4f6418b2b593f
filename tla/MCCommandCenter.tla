-------------------------- MODULE MCCommandCenter --------------------------
(* CommandCenter on small instances: the desktop (one handler thread, jobs *)
(* and a greeting) and the web server (socket loop and voice timer).       *)
EXTENDS CommandCenter, TLC

CONSTANTS i1, i2, i3, j1, j2, g1, ws, voice

\* Messages are interchangeable, and so are jobs.
Symmetry == Permutations(Inputs) \cup Permutations(Jobs)
=============================================================================
