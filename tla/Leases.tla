------------------------------- MODULE Leases -------------------------------
(***************************************************************************)
(* What session leases promise: a path has at most one holder; whoever     *)
(* uses a path holds it, from the grant until it is given back; a lease is *)
(* taken away only from a process that is gone.  The promise is void once  *)
(* the guard of a running process was broken.                              *)
(***************************************************************************)
CONSTANTS Lives, Paths, Nobody

VARIABLES
    living,  \* the processes that run
    holder,  \* who holds each path
    using,   \* who may open which path
    void     \* the promise does not bind any more

vars == <<living, holder, using, void>>

Init ==
    /\ living \subseteq Lives /\ holder = [f \in Paths |-> Nobody]
    /\ using = {} /\ void = FALSE

Start(p) == living' = living \cup {p} /\ UNCHANGED <<holder, using>>

Die(p) ==
    /\ living' = living \ {p}
    /\ using' = {u \in using : u[1] # p}
    /\ UNCHANGED holder

\* A free path is taken, and then used.
Take(p, f) ==
    /\ p \in living /\ holder[f] = Nobody
    /\ holder' = [holder EXCEPT ![f] = p]
    /\ UNCHANGED <<living, using>>

Use(p, f) ==
    /\ p \in living /\ holder[f] = p
    /\ using' = using \cup {<<p, f>>}
    /\ UNCHANGED <<living, holder>>

\* What is not used any more may be given back; what a dead process left is taken away.
GiveUp(p, f) ==
    /\ using' = using \ {<<p, f>>}
    /\ UNCHANGED <<living, holder>>

Free(f) ==
    /\ <<holder[f], f>> \notin using
    /\ holder' = [holder EXCEPT ![f] = Nobody]
    /\ UNCHANGED <<living, using>>

Next ==
    \/ UNCHANGED void /\ \E p \in Lives :
          \/ Start(p) \/ Die(p)
          \/ \E f \in Paths : Take(p, f) \/ Use(p, f) \/ GiveUp(p, f) \/ Free(f)
    \/ void' = TRUE

Spec == Init /\ [][Next]_vars

\* Two processes never use one path.
Exclusive ==
    void \/ \A u, v \in using : u[2] = v[2] => u[1] = v[1]
=============================================================================
