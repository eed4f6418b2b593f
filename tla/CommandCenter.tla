--------------------------- MODULE CommandCenter ---------------------------
(***************************************************************************)
(* How a message becomes a turn of Ghost's brain, and how the threads that *)
(* want the brain share it.                                                *)
(*                                                                         *)
(*   - a HANDLER is a thread running CommandHandler.handle: the web        *)
(*     socket's event loop, the Tk main thread, a voice timer.  It takes   *)
(*     one input at a time and reads waiting_for_user and su_an_mesgul     *)
(*     without a lock;                                                     *)
(*   - a TASK is a thread that calls the GhostController: the worker       *)
(*     spawned for an accepted input (_orchestrate_task), a background     *)
(*     job (a scheduler task or a Telegram message, both poll the busy     *)
(*     flag and then set it), or the greeting of the desktop interface     *)
(*     (run_startup, which never touches the busy flag).                   *)
(*                                                                         *)
(* Every step is one access to a shared field: under CPython another       *)
(* thread may run between any two of them.                                 *)
(***************************************************************************)
EXTENDS Naturals

CONSTANTS
    Inputs,        \* the messages the user sends; a worker is named after its input
    Jobs,          \* scheduler tasks and Telegram messages
    Greetings,     \* the greeting turn: empty in the web server, one on the desktop
    Handlers,      \* threads that run CommandHandler.handle
    NoTask,        \* "nobody": no owner of the lock, no plan
    NoInput,       \* no input in hand
    MaxQuestions   \* bound: how many times insana_sor is called in a behaviour

Tasks == Inputs \cup Jobs \cup Greetings

ASSUME TasksAssumption ==
    /\ NoTask \notin Tasks
    /\ NoInput \notin Inputs
    /\ Inputs \cap Jobs = {} /\ Inputs \cap Greetings = {} /\ Jobs \cap Greetings = {}
ASSUME BoundAssumption == MaxQuestions \in Nat

VARIABLES
    busy,       \* CommandHandler.su_an_mesgul
    waiting,    \* CommandHandler.waiting_for_user
    event,      \* CommandHandler.waiting_event is set
    answer,     \* CommandHandler.user_answer, and the question it was given to
    lock,       \* GhostController._lock: its owner
    plan,       \* CommandHandler.aktif_plan: the task whose plan it is
    pc,         \* where each task stands
    handler,    \* where each handler stands, its input, the question it saw
    sent,       \* history: the inputs the user has sent
    question,   \* history: the number of the last question shown
    greeted,    \* history: a greeting turn called insana_sor
    leftover    \* history: the plan in force was left by a turn whose answer raised

vars == <<busy, waiting, event, answer, lock, plan, pc, handler, sent, question, greeted, leftover>>

Asking   == {"clear", "unbusy", "wait"}            \* the flag is up, nobody has read the reply
InAsk    == Asking \cup {"shown", "rebusy", "reply"}   \* inside insana_sor
InTurn   == InAsk \cup {"turn"}                    \* inside the graph
Holding  == InTurn \cup {"release"}                \* inside "with self._lock"
Working  == Holding \cup {"acquire", "finally"}    \* between the busy flag's set and its reset
TaskPcs  == Working \cup {"idle", "begin", "poll", "claim", "done"}
HandlerPcs == {"idle", "checkWaiting", "storeAnswer", "lowerFlag", "setEvent", "checkBusy", "spawn"}

\* Each kind of task runs its own code: only jobs poll, only workers begin, and the
\* greeting has no finally clause.
PathOf(t) ==
    Holding \cup {"idle", "acquire", "done"} \cup
        (IF t \in Greetings THEN {} ELSE {"finally"}) \cup
        (IF t \in Inputs THEN {"begin"} ELSE {}) \cup
        (IF t \in Jobs THEN {"poll", "claim"} ELSE {})

FieldsTyped ==
    /\ busy \in BOOLEAN /\ waiting \in BOOLEAN /\ event \in BOOLEAN
    /\ greeted \in BOOLEAN /\ leftover \in BOOLEAN
    /\ answer \in [text: Inputs \cup {NoInput}, to: Nat]
    /\ lock \in Tasks \cup {NoTask}
    /\ plan \in Tasks \cup {NoTask}
    /\ sent \subseteq Inputs
    /\ question \in Nat

TasksTyped ==
    /\ pc \in [Tasks -> TaskPcs]
    /\ \A t \in Tasks : pc[t] \in PathOf(t)

HandlersTyped ==
    /\ handler \in [Handlers -> [pc: HandlerPcs, input: Inputs \cup {NoInput}, saw: Nat]]
    /\ \A h \in Handlers : handler[h].pc # "idle" => handler[h].input # NoInput

\* The fields keep their types, a handler at work has an input in hand, and every kind of
\* task stays on its own code path (handle, the workers, the jobs, run_startup).
TypeOK == FieldsTyped /\ TasksTyped /\ HandlersTyped

Free == [pc |-> "idle", input |-> NoInput, saw |-> 0]

Init ==
    /\ busy = FALSE /\ waiting = FALSE /\ event = FALSE
    /\ greeted = FALSE /\ leftover = FALSE
    /\ answer = [text |-> NoInput, to |-> 0]
    /\ lock = NoTask /\ plan = NoTask
    /\ pc = [t \in Tasks |-> "idle"]
    /\ handler = [h \in Handlers |-> Free]
    /\ sent = {} /\ question = 0

-----------------------------------------------------------------------------
(* CommandHandler.handle, one shared access at a time *)

At(h, from, to) ==
    /\ handler[h].pc = from
    /\ handler' = [handler EXCEPT ![h].pc = to]

Done(h, from) ==
    /\ handler[h].pc = from
    /\ handler' = [handler EXCEPT ![h] = Free]

\* The user sends a message (an empty one returns at once) and a handler picks it up.
Send(h, i) ==
    /\ i \notin sent
    /\ handler[h].pc = "idle"
    /\ handler' = [handler EXCEPT ![h] = [pc |-> "checkWaiting", input |-> i, saw |-> 0]]
    /\ sent' = sent \cup {i}
    /\ UNCHANGED <<busy, waiting, event, answer, lock, plan, pc, question, greeted, leftover>>

CheckWaiting(h) ==
    /\ handler[h].pc = "checkWaiting"
    /\ LET next == IF waiting THEN "storeAnswer" ELSE "checkBusy"
       IN  handler' = [handler EXCEPT ![h] =
                          [pc |-> next, input |-> handler[h].input, saw |-> question]]
    /\ UNCHANGED <<busy, waiting, event, answer, lock, plan, pc, sent, question, greeted, leftover>>

StoreAnswer(h) ==
    /\ At(h, "storeAnswer", "lowerFlag")
    /\ answer' = [text |-> handler[h].input, to |-> handler[h].saw]
    /\ UNCHANGED <<busy, waiting, event, lock, plan, pc, sent, question, greeted, leftover>>

\* Variant: handle forgets to lower the flag.
LowerFlagForgotten(h) ==
    /\ At(h, "lowerFlag", "setEvent")
    /\ UNCHANGED <<busy, waiting, event, answer, lock, plan, pc, sent, question, greeted, leftover>>

LowerFlag(h) ==
    /\ At(h, "lowerFlag", "setEvent")
    /\ waiting' = FALSE
    /\ UNCHANGED <<busy, event, answer, lock, plan, pc, sent, question, greeted, leftover>>

SetEvent(h) ==
    /\ Done(h, "setEvent")
    /\ event' = TRUE
    /\ UNCHANGED <<busy, waiting, answer, lock, plan, pc, sent, question, greeted, leftover>>

\* A message that finds Ghost busy is dropped without a word.
DropBusy(h) ==
    /\ busy
    /\ Done(h, "checkBusy")
    /\ UNCHANGED <<busy, waiting, event, answer, lock, plan, pc, sent, question, greeted, leftover>>

PassBusy(h) ==
    /\ ~busy
    /\ At(h, "checkBusy", "spawn")
    /\ UNCHANGED <<busy, waiting, event, answer, lock, plan, pc, sent, question, greeted, leftover>>

\* The worker thread exists, but the busy flag is set only when it runs.
Spawn(h) ==
    /\ Done(h, "spawn")
    /\ pc' = [pc EXCEPT ![handler[h].input] = "begin"]
    /\ UNCHANGED <<busy, waiting, event, answer, lock, plan, sent, question, greeted, leftover>>

\* A short "switch the interface" message ends in handle: no turn is taken.
SwitchMode(h) ==
    /\ Done(h, "spawn")
    /\ UNCHANGED <<busy, waiting, event, answer, lock, plan, pc, sent, question, greeted, leftover>>

HandlerStep(h) ==
    \/ CheckWaiting(h) \/ StoreAnswer(h) \/ LowerFlag(h) \/ SetEvent(h)
    \/ DropBusy(h) \/ PassBusy(h) \/ Spawn(h) \/ SwitchMode(h)

-----------------------------------------------------------------------------
(* The tasks *)

Go(t, from, to) ==
    /\ pc[t] = from
    /\ pc' = [pc EXCEPT ![t] = to]

\* _orchestrate_task begins.
BeginTask(t) ==
    /\ Go(t, "begin", "acquire")
    /\ busy' = TRUE
    /\ UNCHANGED <<waiting, event, answer, lock, plan, handler, sent, question, greeted, leftover>>

\* Variant: the call of _enrich_with_memory stands before the try.
EnrichOutsideTry(t) ==
    /\ t \in Inputs
    /\ Go(t, "acquire", "done")
    /\ UNCHANGED <<busy, waiting, event, answer, lock, plan, handler, sent, question, greeted,
                   leftover>>

\* _enrich_with_memory raises (database locked): the finally clause runs, no answer.
EnrichFails(t) ==
    /\ t \in Inputs
    /\ Go(t, "acquire", "finally")
    /\ UNCHANGED <<busy, waiting, event, answer, lock, plan, handler, sent, question, greeted,
                   leftover>>

\* The scheduler starts _llm_gorevi_yurut, or a Telegram message arrives.
JobDue(t) ==
    /\ t \in Jobs
    /\ Go(t, "idle", "poll")
    /\ UNCHANGED <<busy, waiting, event, answer, lock, plan, handler, sent, question, greeted,
                   leftover>>

\* "while su_an_mesgul: sleep(2)" sees the flag down ...
PollFree(t) ==
    /\ ~busy
    /\ Go(t, "poll", "claim")
    /\ UNCHANGED <<busy, waiting, event, answer, lock, plan, handler, sent, question, greeted,
                   leftover>>

\* ... and raises it in a separate step.
ClaimBusy(t) ==
    /\ Go(t, "claim", "acquire")
    /\ busy' = TRUE
    /\ UNCHANGED <<waiting, event, answer, lock, plan, handler, sent, question, greeted, leftover>>

\* run_startup calls the controller with the busy flag as it finds it.
Greet(t) ==
    /\ t \in Greetings
    /\ Go(t, "idle", "acquire")
    /\ UNCHANGED <<busy, waiting, event, answer, lock, plan, handler, sent, question, greeted,
                   leftover>>

\* Variant: the controller has no lock (as _proxy_controller).
AcquireNothing(t) ==
    /\ Go(t, "acquire", "turn")
    /\ lock' = t
    /\ UNCHANGED <<busy, waiting, event, answer, plan, handler, sent, question, greeted, leftover>>

\* "with self._lock" in __call__ and tek_seferlik_gorev.
Acquire(t) ==
    /\ lock = NoTask
    /\ Go(t, "acquire", "turn")
    /\ lock' = t
    /\ UNCHANGED <<busy, waiting, event, answer, plan, handler, sent, question, greeted, leftover>>

\* The tool uzun_gorev_plani_yap leaves a plan the rest of the turn is reminded of.
MakePlan(t) ==
    /\ pc[t] = "turn"
    /\ plan # t
    /\ plan' = t
    /\ leftover' = FALSE
    /\ UNCHANGED <<busy, waiting, event, answer, lock, pc, handler, sent, question, greeted>>

\* insana_sor: the question appears on the screen ...
ShowQuestion(t) ==
    /\ question < MaxQuestions
    /\ Go(t, "turn", "shown")
    /\ question' = question + 1
    /\ greeted' = (greeted \/ t \in Greetings)
    /\ UNCHANGED <<busy, waiting, event, answer, lock, plan, handler, sent, leftover>>

\* ... the flag goes up ...
RaiseFlag(t) ==
    /\ Go(t, "shown", "clear")
    /\ waiting' = TRUE
    /\ UNCHANGED <<busy, event, answer, lock, plan, handler, sent, question, greeted, leftover>>

\* Variant: the event is not cleared, it stays set from the question before.
ClearNothing(t) ==
    /\ Go(t, "clear", "unbusy")
    /\ UNCHANGED <<busy, waiting, event, answer, lock, plan, handler, sent, question, greeted,
                   leftover>>

\* ... the event is cleared ...
ClearEvent(t) ==
    /\ Go(t, "clear", "unbusy")
    /\ event' = FALSE
    /\ UNCHANGED <<busy, waiting, answer, lock, plan, handler, sent, question, greeted, leftover>>

\* ... the busy flag goes down, so that the user can type ...
FreeUi(t) ==
    /\ Go(t, "unbusy", "wait")
    /\ busy' = FALSE
    /\ UNCHANGED <<waiting, event, answer, lock, plan, handler, sent, question, greeted, leftover>>

\* ... the thread sleeps until the event is set ...
Wake(t) ==
    /\ event
    /\ Go(t, "wait", "rebusy")
    /\ UNCHANGED <<busy, waiting, event, answer, lock, plan, handler, sent, question, greeted,
                   leftover>>

\* ... raises the busy flag again ...
Rebusy(t) ==
    /\ Go(t, "rebusy", "reply")
    /\ busy' = TRUE
    /\ UNCHANGED <<waiting, event, answer, lock, plan, handler, sent, question, greeted, leftover>>

\* ... and reads the answer.
ReadReply(t) ==
    /\ Go(t, "reply", "turn")
    /\ UNCHANGED <<busy, waiting, event, answer, lock, plan, handler, sent, question, greeted,
                   leftover>>

\* Variant: a graph that raises leaves the turn without on_task_end.
FinishTurnQuietly(t) ==
    /\ Go(t, "turn", "release")
    /\ plan' \in {NoTask, plan}
    /\ leftover' = FALSE
    /\ UNCHANGED <<busy, waiting, event, answer, lock, handler, sent, question, greeted>>

\* The graph ends or raises; either way on_task_end (gorevi_sonlandir) drops the plan.
FinishTurn(t) ==
    /\ Go(t, "turn", "release")
    /\ plan' = NoTask
    /\ leftover' = FALSE
    /\ UNCHANGED <<busy, waiting, event, answer, lock, handler, sent, question, greeted>>

\* The graph has ended, but reading the answer out of its messages raises: a gorev_bitti
\* whose arguments are a JSON string has no .get.  That code is inside no try, so
\* on_task_end is skipped; the caller's own clauses run.
AnswerRaises(t) ==
    /\ Go(t, "turn", "release")
    /\ leftover' = (plan # NoTask)
    /\ UNCHANGED <<busy, waiting, event, answer, lock, plan, handler, sent, question, greeted>>

\* Variant: run_startup ends in the workers' finally clause.
ReleaseToFinally(t) ==
    /\ Go(t, "release", "finally")
    /\ lock' = NoTask
    /\ UNCHANGED <<busy, waiting, event, answer, plan, handler, sent, question, greeted, leftover>>

\* The lock is released; the greeting has no finally clause.
Release(t) ==
    /\ Go(t, "release", IF t \in Greetings THEN "done" ELSE "finally")
    /\ lock' = NoTask
    /\ UNCHANGED <<busy, waiting, event, answer, plan, handler, sent, question, greeted, leftover>>

\* Variant: the finally clause forgets the busy flag.
FinallyForgets(t) ==
    /\ Go(t, "finally", "done")
    /\ UNCHANGED <<busy, waiting, event, answer, lock, plan, handler, sent, question, greeted,
                   leftover>>

Finally(t) ==
    /\ Go(t, "finally", "done")
    /\ busy' = FALSE
    /\ UNCHANGED <<waiting, event, answer, lock, plan, handler, sent, question, greeted, leftover>>

TaskStep(t) ==
    \/ BeginTask(t) \/ EnrichFails(t) \/ PollFree(t) \/ ClaimBusy(t) \/ Acquire(t)
    \/ MakePlan(t) \/ ShowQuestion(t) \/ RaiseFlag(t) \/ ClearEvent(t) \/ FreeUi(t)
    \/ Wake(t) \/ Rebusy(t) \/ ReadReply(t) \/ FinishTurn(t) \/ AnswerRaises(t)
    \/ Release(t) \/ Finally(t)

Next ==
    \/ \E h \in Handlers : HandlerStep(h) \/ \E i \in Inputs : Send(h, i)
    \/ \E t \in Tasks : TaskStep(t) \/ JobDue(t) \/ Greet(t)

Spec == Init /\ [][Next]_vars

\* Threads run, and a turn ends: every model call has a timeout and the graph a step limit.
\* Nothing obliges the user to send a message or a job to fall due.
Fairness ==
    /\ \A h \in Handlers : WF_vars(HandlerStep(h))
    /\ \A t \in Tasks : WF_vars(TaskStep(t))

FairSpec == Spec /\ Fairness

-----------------------------------------------------------------------------
(* Properties *)

\* Two turns never overlap: the scheduler, Telegram, the greeting and the workers all
\* reach the graph, its message history and its tools through GhostController._lock.
OneTurnAtATime == \A t, u \in Tasks : pc[t] \in Holding /\ pc[u] \in Holding => t = u

\* A plan never leaks out of a turn that on_task_end closes: aktif_plan is the plan of the
\* turn that is running now, also when the graph raised (gorevi_sonlandir runs inside the
\* lock).  What may still be in force is what a turn left whose answer raised, and that
\* only until a later turn ends or makes a plan of its own.
PlanStaysInItsTurn == plan # NoTask => leftover \/ (plan = lock /\ pc[plan] \in InTurn)

\* A busy flag that stays up drops every later message without a word.  It is up only
\* while some task still has its finally clause to run; the one exception is a greeting
\* turn that called insana_sor, which raises the flag and has no finally clause.
BusyIsLowered == busy => greeted \/ \E t \in Tasks : pc[t] \in Working

\* With one handler thread, waiting_for_user is up only while the turn that holds the
\* brain waits in insana_sor: no message is swallowed as the answer to nobody's question.
FlagBelongsToAsker == waiting => \E t \in Tasks : lock = t /\ pc[t] \in Asking

\* With one handler thread, insana_sor returns the answer the user gave to the question
\* it asked, never one given to an earlier question.
AnswerMatchesQuestion ==
    [][\A t \in Tasks : ReadReply(t) => answer.text # NoInput /\ answer.to = question]_vars

\* An accepted message and a job that is due are served in the end, whatever else wants
\* the brain, unless a turn sleeps in insana_sor for ever or a greeting left the flag up.
Served ==
    <>[](~greeted /\ \A t \in Tasks : pc[t] # "wait")
        => \A t \in Tasks : pc[t] \notin {"idle", "done"} ~> pc[t] = "done"

\* handler/command_handler.py:138: the thread is blocked "until the Event is triggered".
\* Once a handler has taken the answer, insana_sor goes on.
AnswerWakesAsker ==
    \A t \in Tasks : pc[t] \in Asking /\ ~waiting ~> pc[t] \notin Asking

-----------------------------------------------------------------------------
(* The command centre implements one mind. *)

MindOf(t) ==
    CASE pc[t] = "shown"                            -> "ask"
      [] pc[t] \in InAsk \ {"shown"} /\ waiting     -> "ask"
      [] pc[t] \in InAsk \ {"shown"} /\ ~waiting    -> "heard"
      [] OTHER                                      -> "think"

InTheTurn == \E t \in Tasks : pc[t] \in InTurn
Serving   == IF InTheTurn THEN CHOOSE t \in Tasks : pc[t] \in InTurn ELSE NoTask
Mood      == IF InTheTurn THEN MindOf(Serving) ELSE "think"
Over      == {t \in Tasks : pc[t] \in {"release", "finally", "done"}}

Mind == INSTANCE OneMind WITH current <- Serving, mood <- Mood, served <- Over

\* With one handler thread the flags, the event and the lock behave as one mind: turns
\* are served one by one, a question is closed before the turn thinks on, and a plan is
\* gone when its turn is, unless that turn broke off.
ImplementsOneMind == Mind!Spec
=============================================================================
