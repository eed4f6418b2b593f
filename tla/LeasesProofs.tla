---------------------------- MODULE LeasesProofs ----------------------------
(***************************************************************************)
(* The promise of Leases is worth something: no two processes ever use one *)
(* path, for any processes and paths.                                      *)
(***************************************************************************)
EXTENDS Leases, TLAPS

\* Whoever uses a path is a process, and holds the path.
UsersHold ==
    void \/ /\ holder \in [Paths -> Lives \cup {Nobody}]
            /\ using \subseteq Lives \X Paths
            /\ \A u \in using : holder[u[2]] = u[1]

LEMMA UsersHoldStep ==
    ASSUME Nobody \notin Lives
    PROVE  UsersHold /\ [Next]_vars => UsersHold'
<1>v. ASSUME void, [Next]_vars PROVE void'
  <2>1. CASE UNCHANGED vars
    BY <1>v, <2>1 DEF vars
  <2> QED
    BY <1>v, <2>1 DEF Next
<1> SUFFICES ASSUME UsersHold, [Next]_vars, ~void, ~void' PROVE UsersHold'
  BY <1>v, Zenon DEF UsersHold
<1> USE DEF UsersHold
<1>1. CASE UNCHANGED vars
  BY <1>1 DEF vars
<1>2. ASSUME NEW p \in Lives, Start(p) \/ Die(p) PROVE UsersHold'
  BY <1>2 DEF Start, Die
<1>3. ASSUME NEW p \in Lives, NEW f \in Paths, Take(p, f) PROVE UsersHold'
  <2>1. \A u \in using : u[2] # f
    BY <1>3 DEF Take
  <2> QED
    BY <1>3, <2>1 DEF Take
<1>4. ASSUME NEW p \in Lives, NEW f \in Paths, Use(p, f) PROVE UsersHold'
  BY <1>4 DEF Use
<1>5. ASSUME NEW p \in Lives, NEW f \in Paths, GiveUp(p, f) PROVE UsersHold'
  BY <1>5 DEF GiveUp
<1>6. ASSUME NEW f \in Paths, Free(f) PROVE UsersHold'
  <2>1. \A u \in using : u = <<u[1], u[2]>>
    OBVIOUS
  <2>2. \A u \in using : u[2] # f
    BY <1>6, <2>1 DEF Free
  <2> QED
    BY <1>6, <2>2 DEF Free
<1> QED
  BY <1>1, <1>2, <1>3, <1>4, <1>5, <1>6 DEF Next

\* Two processes never use one path, however many there are, whenever they die and start:
\* the reason why the runtime may open a transcript once acquireSessionLease returned.
THEOREM LeasesExclude ==
    ASSUME Nobody \notin Lives
    PROVE  Spec => []Exclusive
<1>1. Init => UsersHold
  BY DEF Init, UsersHold
<1>2. UsersHold => Exclusive
  BY DEF UsersHold, Exclusive
<1> QED
  BY <1>1, <1>2, UsersHoldStep, PTL DEF Spec
=============================================================================
