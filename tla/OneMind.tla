------------------------------ MODULE OneMind ------------------------------
(***************************************************************************)
(* What the command centre promises: there is one mind.  It serves one     *)
(* task at a time, from beginning to end; a plan made during a turn is     *)
(* gone when the turn is over, unless the turn broke off: then it is a     *)
(* leftover until the next turn that ends or plans; a mind that asks the   *)
(* user thinks on only when it has heard the answer.                       *)
(***************************************************************************)
CONSTANTS Tasks, NoTask

VARIABLES
    current,  \* the task being served
    mood,     \* what the mind is doing: "think", "ask", "heard"
    plan,     \* the task whose plan is in force
    leftover, \* that plan was left by a turn that broke off
    served    \* the tasks that are over

vars == <<current, mood, plan, leftover, served>>

Init ==
    /\ current = NoTask /\ mood = "think"
    /\ plan = NoTask /\ leftover = FALSE /\ served = {}

Begin(t) ==
    /\ current = NoTask /\ t \notin served
    /\ current' = t
    /\ UNCHANGED <<mood, plan, leftover, served>>

MakePlan ==
    /\ current # NoTask /\ mood = "think"
    /\ plan' = current /\ leftover' = FALSE
    /\ UNCHANGED <<current, mood, served>>

Ask ==
    /\ current # NoTask /\ mood = "think"
    /\ mood' = "ask"
    /\ UNCHANGED <<current, plan, leftover, served>>

Hear ==
    /\ mood = "ask"
    /\ mood' = "heard"
    /\ UNCHANGED <<current, plan, leftover, served>>

ThinkOn ==
    /\ mood = "heard"
    /\ mood' = "think"
    /\ UNCHANGED <<current, plan, leftover, served>>

Finish ==
    /\ current # NoTask /\ mood = "think"
    /\ served' = served \cup {current}
    /\ current' = NoTask /\ plan' = NoTask /\ leftover' = FALSE
    /\ UNCHANGED mood

\* A turn may end without an answer, and without its plan being dropped.
BreakOff ==
    /\ current # NoTask /\ mood = "think"
    /\ served' = served \cup {current}
    /\ current' = NoTask /\ leftover' = (plan # NoTask)
    /\ UNCHANGED <<mood, plan>>

\* A task may be given up before the mind turns to it.
Abandon(t) ==
    /\ t \notin served \cup {current}
    /\ served' = served \cup {t}
    /\ UNCHANGED <<current, mood, plan, leftover>>

Next ==
    \/ MakePlan \/ Ask \/ Hear \/ ThinkOn \/ Finish \/ BreakOff
    \/ \E t \in Tasks : Begin(t) \/ Abandon(t)

Spec == Init /\ [][Next]_vars
=============================================================================
