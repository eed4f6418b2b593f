------------------------ MODULE CommandCenterProofs ------------------------
(***************************************************************************)
(* Theorems about CommandCenter, for any number of inputs, jobs,           *)
(* greetings, questions and (unless a theorem says otherwise) handlers.    *)
(***************************************************************************)
EXTENDS CommandCenter, TLAPS

\* An input is in the hands of one handler at most, and has no worker before that handler
\* is done with it.
InHand(h, i) == handler[h].pc # "idle" /\ handler[h].input = i

InputInv ==
    /\ \A i \in Inputs : i \notin sent => pc[i] = "idle"
    /\ \A h \in Handlers, i \in Inputs : InHand(h, i) => i \in sent /\ pc[i] = "idle"
    /\ \A h, k \in Handlers, i \in Inputs : InHand(h, i) /\ InHand(k, i) => h = k

\* The lock's owner is the one task inside "with self._lock".
LockInv == \A t \in Tasks : lock = t <=> pc[t] \in Holding

\* Somebody with a finally clause is at work when the flag is up, or a greeting raised it.
AtWork == \E t \in Tasks \ Greetings : pc[t] \in Working

BusyInv ==
    /\ busy => greeted \/ AtWork
    /\ \A g \in Greetings : pc[g] \in InAsk => greeted

\* The part that needs one handler thread.  A handler that saw the flag up is the only one
\* that can lower it; the event is set only after that; and a question stays open until
\* the answer given to it has been stored.
HeardInv == answer.text # NoInput /\ answer.to = question

DialogueInv ==
    /\ waiting => \E t \in Tasks : pc[t] \in Asking
    /\ \A h \in Handlers :
        /\ handler[h].pc \in {"storeAnswer", "lowerFlag"} => waiting
        /\ handler[h].pc = "storeAnswer" => handler[h].saw = question
        /\ handler[h].pc = "lowerFlag" => HeardInv
        /\ handler[h].pc = "setEvent" =>
             /\ ~waiting
             /\ \E t \in Tasks : pc[t] \in Asking
             /\ \A t \in Tasks : pc[t] \in {"unbusy", "wait"} => ~event
    /\ \A t \in Tasks :
        /\ pc[t] \in {"unbusy", "wait"} /\ event => ~waiting
        /\ pc[t] \in Asking /\ ~waiting => HeardInv
        /\ pc[t] \in {"rebusy", "reply"} => HeardInv

-----------------------------------------------------------------------------
(* Type correctness *)

\* A handler that moves on inside handle keeps its input and its type.
LEMMA HandlerMoves ==
    ASSUME HandlersTyped, NEW h \in Handlers,
           NEW from \in HandlerPcs \ {"idle"}, NEW to \in HandlerPcs, At(h, from, to)
    PROVE  HandlersTyped'
  BY DEF HandlersTyped, At, HandlerPcs

\* A handler that returns from handle is free.
LEMMA HandlerReturns ==
    ASSUME HandlersTyped, NEW h \in Handlers, NEW from \in HandlerPcs, Done(h, from)
    PROVE  HandlersTyped'
  BY DEF HandlersTyped, Done, Free, HandlerPcs

\* A step of a task from one place of its path to another keeps every task on its path.
LEMMA TaskMoves ==
    ASSUME TasksTyped, NEW t \in Tasks, NEW from, NEW to \in PathOf(t), Go(t, from, to)
    PROVE  TasksTyped'
<1>1. to \in TaskPcs
  BY DEF PathOf, TaskPcs, Working
<1> QED
  BY <1>1 DEF TasksTyped, Go

\* Every field keeps its type, and every kind of task stays on its own code path.
LEMMA TypeStep == TypeOK /\ [Next]_vars => TypeOK'
<1> SUFFICES ASSUME TypeOK, [Next]_vars PROVE TypeOK'
  OBVIOUS
<1> USE DEF TypeOK
<1>1. ASSUME NEW h \in Handlers, NEW i \in Inputs, Send(h, i) PROVE TypeOK'
  <2>1. HandlersTyped'
    BY <1>1, TasksAssumption DEF HandlersTyped, Send, HandlerPcs
  <2> QED
    BY <1>1, <2>1 DEF Send, FieldsTyped, TasksTyped
<1>2. ASSUME NEW h \in Handlers, HandlerStep(h) PROVE TypeOK'
  <2> USE DEF HandlerPcs
  <2>1. CASE CheckWaiting(h)
    <3>1. HandlersTyped'
      BY <2>1 DEF CheckWaiting, HandlersTyped, FieldsTyped
    <3> QED BY <2>1, <3>1 DEF CheckWaiting, FieldsTyped, TasksTyped
  <2>2. CASE StoreAnswer(h)
    <3>1. HandlersTyped'
      BY <2>2, HandlerMoves DEF StoreAnswer
    <3>2. answer' \in [text: Inputs \cup {NoInput}, to: Nat]
      BY <2>2 DEF StoreAnswer, HandlersTyped
    <3> QED BY <2>2, <3>1, <3>2 DEF StoreAnswer, FieldsTyped, TasksTyped
  <2>3. CASE LowerFlag(h)
    <3>1. HandlersTyped'
      BY <2>3, HandlerMoves DEF LowerFlag
    <3> QED BY <2>3, <3>1 DEF LowerFlag, FieldsTyped, TasksTyped
  <2>4. CASE SetEvent(h)
    <3>1. HandlersTyped'
      BY <2>4, HandlerReturns DEF SetEvent
    <3> QED BY <2>4, <3>1 DEF SetEvent, FieldsTyped, TasksTyped
  <2>5. CASE DropBusy(h)
    <3>1. HandlersTyped'
      BY <2>5, HandlerReturns DEF DropBusy
    <3> QED BY <2>5, <3>1 DEF DropBusy, FieldsTyped, TasksTyped
  <2>6. CASE PassBusy(h)
    <3>1. HandlersTyped'
      BY <2>6, HandlerMoves DEF PassBusy
    <3> QED BY <2>6, <3>1 DEF PassBusy, FieldsTyped, TasksTyped
  <2>7. CASE Spawn(h)
    <3>1. HandlersTyped'
      BY <2>7, HandlerReturns DEF Spawn
    <3>2. handler[h].input \in Inputs
      BY <2>7 DEF Spawn, Done, HandlersTyped
    <3>3. TasksTyped'
      BY <2>7, <3>2 DEF Spawn, TasksTyped, Tasks, PathOf, TaskPcs
    <3> QED BY <2>7, <3>1, <3>3 DEF Spawn, FieldsTyped
  <2>8. CASE SwitchMode(h)
    <3>1. HandlersTyped'
      BY <2>8, HandlerReturns DEF SwitchMode
    <3> QED BY <2>8, <3>1 DEF SwitchMode, FieldsTyped, TasksTyped
  <2> QED
    BY <1>2, <2>1, <2>2, <2>3, <2>4, <2>5, <2>6, <2>7, <2>8 DEF HandlerStep
<1>3. ASSUME NEW t \in Tasks, TaskStep(t) \/ JobDue(t) \/ Greet(t) PROVE TypeOK'
  <2> USE DEF TaskStep, JobDue, Greet, BeginTask, EnrichFails, PollFree, ClaimBusy, Acquire,
              MakePlan, ShowQuestion, RaiseFlag, ClearEvent, FreeUi, Wake, Rebusy, ReadReply,
              FinishTurn, AnswerRaises, Release, Finally
  <2>a. UNCHANGED <<answer, handler, sent>>
    BY <1>3
  <2>b. question' \in {question, question + 1} /\ lock' \in {lock, t, NoTask}
        /\ plan' \in {plan, t, NoTask}
    BY <1>3
  <2>c. busy' \in BOOLEAN /\ waiting' \in BOOLEAN /\ event' \in BOOLEAN
    BY <1>3 DEF FieldsTyped
  <2>d. greeted' \in BOOLEAN /\ leftover' \in BOOLEAN
    BY <1>3 DEF FieldsTyped
  <2>1. FieldsTyped' /\ HandlersTyped'
    BY <2>a, <2>b, <2>c, <2>d DEF FieldsTyped, HandlersTyped
  <2>2. TasksTyped'
    <3> USE TaskMoves DEF PathOf, Holding, InTurn, InAsk, Asking
    <3>1. CASE BeginTask(t)    BY <3>1 DEF BeginTask
    <3>2. CASE EnrichFails(t)  BY <3>2, TasksAssumption DEF EnrichFails
    <3>3. CASE PollFree(t)     BY <3>3 DEF PollFree, Go, TasksTyped
    <3>4. CASE ClaimBusy(t)    BY <3>4 DEF ClaimBusy
    <3>5. CASE Acquire(t)      BY <3>5 DEF Acquire
    <3>6. CASE MakePlan(t)     BY <3>6 DEF MakePlan, TasksTyped
    <3>7. CASE ShowQuestion(t) BY <3>7 DEF ShowQuestion
    <3>8. CASE RaiseFlag(t)    BY <3>8 DEF RaiseFlag
    <3>9. CASE ClearEvent(t)   BY <3>9 DEF ClearEvent
    <3>10. CASE FreeUi(t)      BY <3>10 DEF FreeUi
    <3>11. CASE Wake(t)        BY <3>11 DEF Wake
    <3>12. CASE Rebusy(t)      BY <3>12 DEF Rebusy
    <3>13. CASE ReadReply(t)   BY <3>13 DEF ReadReply
    <3>14. CASE FinishTurn(t)  BY <3>14 DEF FinishTurn
    <3>19. CASE AnswerRaises(t) BY <3>19 DEF AnswerRaises
    <3>15. CASE Release(t)     BY <3>15 DEF Release
    <3>16. CASE Finally(t)     BY <3>16 DEF Finally
    <3>17. CASE JobDue(t)      BY <3>17 DEF JobDue
    <3>18. CASE Greet(t)       BY <3>18 DEF Greet
    <3> QED
      BY <1>3, <3>1, <3>2, <3>3, <3>4, <3>5, <3>6, <3>7, <3>8, <3>9, <3>10, <3>11, <3>12,
         <3>13, <3>14, <3>15, <3>16, <3>17, <3>18, <3>19 DEF TaskStep
  <2> QED
    BY <2>1, <2>2
<1>4. CASE UNCHANGED vars
  BY <1>4 DEF vars, FieldsTyped, TasksTyped, HandlersTyped
<1> QED
  BY <1>1, <1>2, <1>3, <1>4 DEF Next

\* No reachable state of handle, of the workers, of the jobs or of the greeting leaves the
\* types: for every number of threads.
THEOREM TypeCorrect == Spec => []TypeOK
<1>1. Init => TypeOK
  <2> SUFFICES ASSUME Init PROVE TypeOK
    OBVIOUS
  <2>1. FieldsTyped
    BY DEF Init, FieldsTyped
  <2>2. TasksTyped
    BY DEF Init, TasksTyped, TaskPcs, PathOf
  <2>3. HandlersTyped
    BY DEF Init, Free, HandlersTyped, HandlerPcs
  <2> QED
    BY <2>1, <2>2, <2>3 DEF TypeOK
<1> QED
  BY <1>1, TypeStep, PTL DEF Spec

-----------------------------------------------------------------------------
(* One turn at a time, and its plan *)

TurnInv == InputInv /\ LockInv /\ PlanStaysInItsTurn

\* A worker is started at most once, the lock has one owner, the plan is the owner's.
LEMMA TurnStep == TypeOK /\ TurnInv /\ [Next]_vars => TurnInv'
<1> SUFFICES ASSUME TypeOK, TurnInv, [Next]_vars PROVE TurnInv'
  OBVIOUS
<1> USE DEF TypeOK, TurnInv, TasksTyped, HandlersTyped, FieldsTyped
<1>1. ASSUME NEW h \in Handlers, NEW i \in Inputs, Send(h, i) PROVE TurnInv'
  <2>1. InputInv'
    BY <1>1, TasksAssumption DEF Send, InputInv, InHand
  <2> QED
    BY <1>1, <2>1 DEF Send, LockInv, PlanStaysInItsTurn
<1>2. ASSUME NEW h \in Handlers, HandlerStep(h), ~Spawn(h) PROVE TurnInv'
  <2>1. UNCHANGED <<lock, plan, leftover, pc, sent>>
    BY <1>2 DEF HandlerStep, CheckWaiting, StoreAnswer, LowerFlag, SetEvent, DropBusy,
                PassBusy, SwitchMode
  <2>2. handler[h].pc # "idle"
    BY <1>2 DEF HandlerStep, CheckWaiting, StoreAnswer, LowerFlag, SetEvent, DropBusy,
                PassBusy, SwitchMode, At, Done
  <2>3. /\ \A k \in Handlers \ {h} : handler'[k] = handler[k]
        /\ handler'[h].pc = "idle" \/ handler'[h].input = handler[h].input
    <3>1. CASE CheckWaiting(h)
      BY <3>1 DEF CheckWaiting
    <3>2. ASSUME NEW from, NEW to, At(h, from, to) PROVE <2>3
      BY <3>2 DEF At
    <3>3. ASSUME NEW from, Done(h, from) PROVE <2>3
      BY <3>3 DEF Done, Free
    <3> QED
      BY <1>2, <3>1, <3>2, <3>3
         DEF HandlerStep, StoreAnswer, LowerFlag, SetEvent, DropBusy, PassBusy, SwitchMode
  <2>4. \A k \in Handlers, i \in Inputs : InHand(k, i)' => InHand(k, i)
    BY <2>2, <2>3 DEF InHand
  <2>5. InputInv'
    BY <2>1, <2>4 DEF InputInv
  <2> QED
    BY <2>1, <2>5 DEF LockInv, PlanStaysInItsTurn
<1>3. ASSUME NEW h \in Handlers, Spawn(h) PROVE TurnInv'
  <2> DEFINE i == handler[h].input
  <2>1. i \in Inputs /\ InHand(h, i) /\ pc[i] = "idle" /\ i \in sent
    BY <1>3 DEF Spawn, Done, InputInv, InHand
  <2>2. UNCHANGED <<lock, plan, leftover, sent>> /\ pc' = [pc EXCEPT ![i] = "begin"]
    BY <1>3 DEF Spawn
  <2>3. /\ ~ \E j \in Inputs : InHand(h, j)'
        /\ \A k \in Handlers \ {h}, j \in Inputs : InHand(k, j)' <=> InHand(k, j)
    BY <1>3 DEF Spawn, Done, Free, InHand
  <2>4. InputInv'
    BY <2>1, <2>2, <2>3 DEF InputInv, Tasks
  <2>5. LockInv' /\ PlanStaysInItsTurn'
    BY <2>1, <2>2 DEF LockInv, PlanStaysInItsTurn, Tasks, Holding, InTurn, InAsk, Asking
  <2> QED
    BY <2>4, <2>5
<1>4. ASSUME NEW t \in Tasks, TaskStep(t) \/ JobDue(t) \/ Greet(t) PROVE TurnInv'
  <2> USE DEF Go
  <2>1. UNCHANGED <<handler, sent>> /\ (pc[t] # "idle" \/ t \notin Inputs)
        /\ \A u \in Tasks \ {t} : pc'[u] = pc[u]
    BY <1>4, TasksAssumption
       DEF TaskStep, JobDue, Greet, BeginTask, EnrichFails, PollFree, ClaimBusy, Acquire,
           MakePlan, ShowQuestion, RaiseFlag, ClearEvent, FreeUi, Wake, Rebusy, ReadReply,
           FinishTurn, AnswerRaises, Release, Finally
  <2>2. InputInv'
    BY <2>1 DEF InputInv, InHand, Tasks
  <2> USE DEF LockInv, PlanStaysInItsTurn, Holding, InTurn, InAsk, Asking
  <2>3. CASE Acquire(t)
    BY <2>2, <2>3, TasksAssumption DEF Acquire
  <2>4. CASE MakePlan(t)
    BY <2>2, <2>4 DEF MakePlan
  <2>5. CASE FinishTurn(t) \/ AnswerRaises(t)
    BY <2>2, <2>5, TasksAssumption DEF FinishTurn, AnswerRaises
  <2>6. CASE Release(t)
    BY <2>2, <2>6, TasksAssumption DEF Release
  <2>7. CASE ShowQuestion(t) \/ RaiseFlag(t) \/ ClearEvent(t) \/ FreeUi(t) \/ Wake(t)
             \/ Rebusy(t) \/ ReadReply(t)
    BY <2>2, <2>7
       DEF ShowQuestion, RaiseFlag, ClearEvent, FreeUi, Wake, Rebusy, ReadReply
  <2>8. CASE BeginTask(t) \/ EnrichFails(t) \/ PollFree(t) \/ ClaimBusy(t) \/ Finally(t)
             \/ JobDue(t) \/ Greet(t)
    BY <2>2, <2>8
       DEF BeginTask, EnrichFails, PollFree, ClaimBusy, Finally, JobDue, Greet
  <2> QED
    BY <1>4, <2>3, <2>4, <2>5, <2>6, <2>7, <2>8 DEF TaskStep
<1>5. CASE UNCHANGED vars
  BY <1>5 DEF vars, InputInv, InHand, LockInv, PlanStaysInItsTurn
<1> QED
  BY <1>1, <1>2, <1>3, <1>4, <1>5 DEF Next

\* The invariant behind the two theorems holds in every reachable state.
LEMMA TurnInvariant == Spec => []TurnInv
<1>1. Init => TurnInv
  <2> SUFFICES ASSUME Init PROVE TurnInv
    OBVIOUS
  <2>1. \A h \in Handlers : handler[h].pc = "idle"
    BY DEF Init, Free
  <2>2. \A t \in Tasks : pc[t] = "idle"
    BY DEF Init
  <2>3. InputInv
    BY <2>1, <2>2 DEF InputInv, InHand, Tasks
  <2>4. LockInv /\ PlanStaysInItsTurn
    BY <2>2, TasksAssumption
       DEF Init, LockInv, PlanStaysInItsTurn, Holding, InTurn, InAsk, Asking
  <2> QED
    BY <2>3, <2>4 DEF TurnInv
<1> QED
  BY <1>1, TurnStep, TypeCorrect, PTL DEF Spec

\* GhostController._lock keeps turns apart: workers, jobs and greeting never overlap.
THEOREM MutualExclusion == Spec => []OneTurnAtATime
<1>1. TurnInv => OneTurnAtATime
  BY DEF TurnInv, LockInv, OneTurnAtATime
<1> QED
  BY <1>1, TurnInvariant, PTL

\* gorevi_sonlandir clears aktif_plan before the lock is released, on every path that
\* reaches it; a plan that is still there was left by a turn whose answer raised.
THEOREM PlanConfined == Spec => []PlanStaysInItsTurn
<1>1. TurnInv => PlanStaysInItsTurn
  BY DEF TurnInv
<1> QED
  BY <1>1, TurnInvariant, PTL

-----------------------------------------------------------------------------
(* The busy flag comes down *)

\* Whoever raises the busy flag lowers it in its finally clause; the greeting cannot be
\* the one at work, unless it asked the user something.
LEMMA BusyStep == TypeOK /\ InputInv /\ BusyInv /\ [Next]_vars => BusyInv'
<1> SUFFICES ASSUME TypeOK, InputInv, BusyInv, [Next]_vars PROVE BusyInv'
  OBVIOUS
<1> USE DEF TypeOK, TasksTyped
<1>1. ASSUME NEW h \in Handlers, HandlerStep(h) \/ \E i \in Inputs : Send(h, i), ~Spawn(h)
      PROVE  BusyInv'
  <2>1. UNCHANGED <<busy, pc, greeted>>
    BY <1>1 DEF HandlerStep, CheckWaiting, StoreAnswer, LowerFlag, SetEvent, DropBusy,
                PassBusy, SwitchMode, Send
  <2> QED
    BY <2>1 DEF BusyInv, AtWork
<1>2. ASSUME NEW h \in Handlers, Spawn(h) PROVE BusyInv'
  <2> DEFINE i == handler[h].input
  <2>1. i \in Inputs /\ pc[i] = "idle"
    BY <1>2 DEF Spawn, Done, InputInv, InHand, HandlersTyped
  <2>2. UNCHANGED <<busy, greeted>> /\ pc' = [pc EXCEPT ![i] = "begin"]
    BY <1>2 DEF Spawn
  <2>3. AtWork => AtWork'
    BY <2>1, <2>2 DEF AtWork, Tasks, Working, Holding, InTurn, InAsk, Asking
  <2>4. \A g \in Greetings : pc'[g] \in InAsk => pc[g] \in InAsk
    BY <2>1, <2>2 DEF Tasks, InAsk, Asking
  <2> QED
    BY <2>2, <2>3, <2>4 DEF BusyInv
<1>3. ASSUME NEW t \in Tasks, TaskStep(t) \/ JobDue(t) \/ Greet(t) PROVE BusyInv'
  <2>a. ASSUME NEW to, to \in Working, pc' = [pc EXCEPT ![t] = to] PROVE AtWork => AtWork'
    BY <2>a DEF AtWork
  <2>b. ASSUME pc' = [pc EXCEPT ![t] = pc'[t]], t \in Greetings PROVE AtWork => AtWork'
    BY <2>b DEF AtWork
  <2>c. ASSUME pc' = [pc EXCEPT ![t] = pc'[t]], pc'[t] \notin InAsk \/ greeted
        PROVE  (\A g \in Greetings : pc[g] \in InAsk => greeted)
                  => \A g \in Greetings : pc'[g] \in InAsk => greeted
    BY <2>c DEF Tasks
  <2> USE DEF Go
  <2>1. CASE BeginTask(t) \/ ClaimBusy(t)
    <3>1. t \notin Greetings
      BY <2>1, TasksAssumption
         DEF BeginTask, ClaimBusy, PathOf, Holding, InTurn, InAsk, Asking
    <3>2. AtWork'
      BY <2>1, <3>1 DEF BeginTask, ClaimBusy, AtWork, Working
    <3>3. pc' = [pc EXCEPT ![t] = pc'[t]] /\ pc'[t] \notin InAsk /\ greeted' = greeted
      BY <2>1 DEF BeginTask, ClaimBusy, InAsk, Asking
    <3> QED
      BY <3>2, <3>3, <2>c DEF BusyInv
  <2>2. CASE EnrichFails(t) \/ Acquire(t) \/ FinishTurn(t) \/ AnswerRaises(t) \/ Greet(t)
    <3>1. AtWork => AtWork'
      BY <2>2, <2>a DEF EnrichFails, Acquire, FinishTurn, AnswerRaises, Greet, Working, Holding, InTurn
    <3>2. pc' = [pc EXCEPT ![t] = pc'[t]] /\ pc'[t] \notin InAsk /\ UNCHANGED <<busy, greeted>>
      BY <2>2 DEF EnrichFails, Acquire, FinishTurn, AnswerRaises, Greet, InAsk, Asking
    <3> QED
      BY <3>1, <3>2, <2>c DEF BusyInv
  <2>3. CASE JobDue(t) \/ PollFree(t) \/ MakePlan(t)
    <3>1. /\ \A u \in Tasks : pc[u] \in Working => pc'[u] \in Working
          /\ \A u \in Tasks : pc'[u] \in InAsk => pc[u] \in InAsk
      BY <2>3 DEF JobDue, PollFree, MakePlan, Working, Holding, InTurn, InAsk, Asking
    <3>2. UNCHANGED <<busy, greeted>>
      BY <2>3 DEF JobDue, PollFree, MakePlan
    <3> QED
      BY <3>1, <3>2 DEF BusyInv, AtWork, Tasks
  <2>4. CASE ShowQuestion(t)
    <3>1. AtWork => AtWork'
      BY <2>4, <2>a DEF ShowQuestion, Working, Holding, InTurn, InAsk
    <3>2. /\ busy' = busy /\ (greeted => greeted') /\ (t \in Greetings => greeted')
          /\ \A u \in Tasks : u # t => pc'[u] = pc[u]
      BY <2>4 DEF ShowQuestion
    <3> QED
      BY <3>1, <3>2 DEF BusyInv, Tasks
  <2>5. CASE RaiseFlag(t) \/ ClearEvent(t) \/ Wake(t) \/ ReadReply(t)
    <3>1. AtWork => AtWork'
      BY <2>5, <2>a DEF RaiseFlag, ClearEvent, Wake, ReadReply, Working, Holding, InTurn, InAsk, Asking
    <3>2. /\ UNCHANGED <<busy, greeted>>
          /\ \A u \in Tasks : pc'[u] \in InAsk => pc[u] \in InAsk
      BY <2>5 DEF RaiseFlag, ClearEvent, Wake, ReadReply, InAsk, Asking
    <3> QED
      BY <3>1, <3>2 DEF BusyInv, Tasks
  <2>6. CASE FreeUi(t) \/ Finally(t)
    <3>1. /\ busy' = FALSE /\ greeted' = greeted
          /\ \A u \in Tasks : pc'[u] \in InAsk => pc[u] \in InAsk
      BY <2>6 DEF FreeUi, Finally, InAsk, Asking
    <3> QED
      BY <3>1 DEF BusyInv, Tasks
  <2>7. CASE Rebusy(t)
    <3>1. pc[t] \in InAsk /\ pc'[t] \in Working /\ greeted' = greeted
          /\ \A u \in Tasks : pc'[u] \in InAsk => pc[u] \in InAsk
      BY <2>7 DEF Rebusy, Working, Holding, InTurn, InAsk, Asking
    <3> QED
      BY <3>1 DEF BusyInv, AtWork, Tasks
  <2>8. CASE Release(t)
    <3>1. AtWork => AtWork'
      <4>1. CASE t \in Greetings
        BY <2>8, <4>1, <2>b DEF Release
      <4>2. CASE t \notin Greetings
        BY <2>8, <4>2, <2>a DEF Release, Working
      <4> QED
        BY <4>1, <4>2
    <3>2. pc' = [pc EXCEPT ![t] = pc'[t]] /\ pc'[t] \notin InAsk /\ UNCHANGED <<busy, greeted>>
      BY <2>8 DEF Release, InAsk, Asking
    <3> QED
      BY <3>1, <3>2, <2>c DEF BusyInv
  <2> QED
    BY <1>3, <2>1, <2>2, <2>3, <2>4, <2>5, <2>6, <2>7, <2>8 DEF TaskStep
<1>4. CASE UNCHANGED vars
  BY <1>4 DEF vars, BusyInv, AtWork
<1> QED
  BY <1>1, <1>2, <1>3, <1>4 DEF Next

\* The flag that drops messages is up only while a finally clause is still to run, or a
\* greeting turn called insana_sor.
THEOREM BusyReleased == Spec => []BusyIsLowered
<1>1. Init => BusyInv
  BY DEF Init, BusyInv, InAsk, Asking, Tasks
<1>2. BusyInv => BusyIsLowered
  BY DEF BusyInv, AtWork, BusyIsLowered
<1>3. TurnInv => InputInv
  BY DEF TurnInv
<1> QED
  BY <1>1, <1>2, <1>3, BusyStep, TypeCorrect, TurnInvariant, PTL DEF Spec

-----------------------------------------------------------------------------
(* The dialogue, when one thread runs handle *)

OneHandler == \A h, k \in Handlers : h = k

\* A handler that saw the flag up is the only thread that can lower it and wake the asker.
LEMMA DialogueStep ==
    ASSUME OneHandler
    PROVE  TypeOK /\ TurnInv /\ DialogueInv /\ [Next]_vars => DialogueInv'
<1> SUFFICES ASSUME TypeOK, TurnInv, DialogueInv, [Next]_vars PROVE DialogueInv'
  OBVIOUS
<1> USE DEF TypeOK, TasksTyped, HandlersTyped, FieldsTyped, HeardInv
<1>a. \A t, u \in Tasks : pc[t] \in Holding /\ pc[u] \in Holding => t = u
  BY DEF TurnInv, LockInv
<1>1. ASSUME NEW h \in Handlers, HandlerStep(h) \/ \E i \in Inputs : Send(h, i)
      PROVE  DialogueInv'
  <2>0. Handlers = {h}
    BY DEF OneHandler
  <2> USE <2>0 DEF DialogueInv
  <2>1. CASE \E i \in Inputs : Send(h, i)
    BY <2>1 DEF Send
  <2>2. CASE CheckWaiting(h)
    BY <2>2 DEF CheckWaiting
  <2>3. CASE StoreAnswer(h)
    BY <2>3, <1>a DEF StoreAnswer, At, Asking, Holding, InTurn, InAsk
  <2>4. CASE LowerFlag(h)
    BY <2>4, <1>a DEF LowerFlag, At
  <2>5. CASE SetEvent(h)
    BY <2>5, <1>a DEF SetEvent, Done, Free
  <2>6. CASE DropBusy(h) \/ SwitchMode(h)
    BY <2>6 DEF DropBusy, SwitchMode, Done, Free
  <2>7. CASE PassBusy(h)
    BY <2>7 DEF PassBusy, At
  <2>8. CASE Spawn(h)
    <3> DEFINE i == handler[h].input
    <3>1. i \in Inputs /\ pc[i] = "idle"
      BY <2>8 DEF Spawn, Done, TurnInv, InputInv, InHand
    <3> QED
      BY <2>8, <3>1 DEF Spawn, Done, Free, Asking
  <2> QED
    BY <1>1, <2>1, <2>2, <2>3, <2>4, <2>5, <2>6, <2>7, <2>8 DEF HandlerStep
<1>2. ASSUME NEW t \in Tasks, TaskStep(t) \/ JobDue(t) \/ Greet(t) PROVE DialogueInv'
  <2> USE DEF Go, DialogueInv, Asking
  <2>1. CASE BeginTask(t) \/ EnrichFails(t) \/ JobDue(t) \/ PollFree(t) \/ ClaimBusy(t)
             \/ Greet(t) \/ Acquire(t) \/ FinishTurn(t) \/ AnswerRaises(t) \/ Release(t)
             \/ Finally(t)
    BY <2>1 DEF BeginTask, EnrichFails, JobDue, PollFree, ClaimBusy, Greet, Acquire,
                FinishTurn, AnswerRaises, Release, Finally
  <2>2. CASE MakePlan(t)
    BY <2>2 DEF MakePlan
  <2>3. CASE ShowQuestion(t)
    BY <2>3, <1>a DEF ShowQuestion, Holding, InTurn, InAsk
  <2>4. CASE RaiseFlag(t)
    BY <2>4, <1>a DEF RaiseFlag, Holding, InTurn, InAsk
  <2>5. CASE ClearEvent(t)
    BY <2>5, <1>a DEF ClearEvent, Holding, InTurn, InAsk
  <2>6. CASE FreeUi(t)
    BY <2>6 DEF FreeUi
  <2>7. CASE Wake(t)
    BY <2>7, <1>a DEF Wake, Holding, InTurn, InAsk
  <2>8. CASE Rebusy(t) \/ ReadReply(t)
    BY <2>8 DEF Rebusy, ReadReply
  <2> QED
    BY <1>2, <2>1, <2>2, <2>3, <2>4, <2>5, <2>6, <2>7, <2>8 DEF TaskStep
<1>3. CASE UNCHANGED vars
  BY <1>3 DEF vars, DialogueInv
<1> QED
  BY <1>1, <1>2, <1>3 DEF Next

\* The dialogue's invariant holds in every reachable state.
LEMMA DialogueInvariant == ASSUME OneHandler PROVE Spec => []DialogueInv
<1>1. Init => DialogueInv
  <2> SUFFICES ASSUME Init PROVE DialogueInv
    OBVIOUS
  <2>1. \A h \in Handlers : handler[h].pc = "idle"
    BY DEF Init, Free
  <2>2. ~waiting /\ \A t \in Tasks : pc[t] = "idle"
    BY DEF Init
  <2> QED
    BY <2>1, <2>2 DEF DialogueInv, Asking
<1> QED
  BY <1>1, DialogueStep, TypeCorrect, TurnInvariant, PTL DEF Spec

\* With one thread in handle, waiting_for_user is up only while the owner of the brain waits in insana_sor.
THEOREM FlagOwned == ASSUME OneHandler PROVE Spec => []FlagBelongsToAsker
<1>1. TurnInv /\ DialogueInv => FlagBelongsToAsker
  BY DEF TurnInv, LockInv, DialogueInv, FlagBelongsToAsker, Holding, InTurn, InAsk
<1> QED
  BY <1>1, DialogueInvariant, TurnInvariant, PTL

\* With one thread in handle, insana_sor returns the answer to its own question.
THEOREM AnswersMatch == ASSUME OneHandler PROVE Spec => AnswerMatchesQuestion
<1>1. DialogueInv /\ [Next]_vars
        => [\A t \in Tasks : ReadReply(t) => answer.text # NoInput /\ answer.to = question]_vars
  BY DEF DialogueInv, HeardInv, ReadReply, Go
<1> QED
  BY <1>1, DialogueInvariant, PTL DEF Spec, AnswerMatchesQuestion

-----------------------------------------------------------------------------
(* One mind *)

\* The task in its turn is the one the mind serves.
MindInv ==
    /\ \A t \in Tasks : pc[t] \in InTurn => Serving = t /\ Mood = MindOf(t)
    /\ (\A t \in Tasks : pc[t] \notin InTurn) => Serving = NoTask /\ Mood = "think"

\* Because turns do not overlap, the choice of the task being served is no choice.
LEMMA MindInvariant == Spec => []MindInv
<1>1. OneTurnAtATime => MindInv
  <2> SUFFICES ASSUME OneTurnAtATime PROVE MindInv
    OBVIOUS
  <2>1. ASSUME NEW t \in Tasks, pc[t] \in InTurn PROVE Serving = t /\ Mood = MindOf(t)
    <3>1. InTheTurn /\ \A u \in Tasks : pc[u] \in InTurn => u = t
      BY <2>1 DEF OneTurnAtATime, InTheTurn, Holding
    <3>2. Serving = t
      BY <2>1, <3>1 DEF Serving
    <3> QED
      BY <3>1, <3>2 DEF Mood
  <2>2. ASSUME \A t \in Tasks : pc[t] \notin InTurn PROVE Serving = NoTask /\ Mood = "think"
    BY <2>2 DEF Serving, Mood, InTheTurn
  <2> QED
    BY <2>1, <2>2 DEF MindInv
<1> QED
  BY <1>1, MutualExclusion, PTL

\* A step that leaves the task in its turn, if there is one, and the flag alone does not
\* change the mind.
LEMMA MindStays ==
    ASSUME MindInv, MindInv', waiting' = waiting,
           \A t \in Tasks : pc[t] \in InTurn \/ pc'[t] \in InTurn => pc'[t] = pc[t]
    PROVE  Serving' = Serving /\ Mood' = Mood
<1>1. CASE \E t \in Tasks : pc[t] \in InTurn
  <2>1. PICK t \in Tasks : pc[t] \in InTurn
    BY <1>1
  <2>2. pc'[t] = pc[t]
    BY <2>1
  <2>3. MindOf(t)' = MindOf(t)
    BY <2>2 DEF MindOf
  <2> QED
    BY <2>1, <2>2, <2>3 DEF MindInv
<1>2. CASE \A t \in Tasks : pc[t] \notin InTurn
  <2>1. \A t \in Tasks : pc'[t] \notin InTurn
    BY <1>2
  <2> QED
    BY <1>2, <2>1 DEF MindInv
<1> QED
  BY <1>1, <1>2

\* Lowering the flag is hearing; nothing else a handler does is the mind's business.
LEMMA HandlerMind ==
    ASSUME OneHandler, TypeOK, TurnInv, DialogueInv, MindInv, MindInv',
           NEW h \in Handlers, HandlerStep(h) \/ \E i \in Inputs : Send(h, i)
    PROVE  Mind!Hear \/ UNCHANGED Mind!vars
<1>1. CASE LowerFlag(h)
  <2>1. handler[h].pc = "lowerFlag" /\ waiting' = FALSE /\ UNCHANGED <<pc, plan, leftover>>
    BY <1>1 DEF LowerFlag, At
  <2>2. PICK t \in Tasks : pc[t] \in Asking
    BY <2>1 DEF DialogueInv
  <2>3. waiting /\ pc[t] \in InTurn /\ pc'[t] = pc[t] /\ pc[t] # "shown"
    BY <2>1, <2>2 DEF DialogueInv, InTurn, InAsk, Asking
  <2>4. MindOf(t) = "ask" /\ MindOf(t)' = "heard"
    BY <2>1, <2>2, <2>3 DEF MindOf, InAsk, Asking
  <2>5. Serving = t /\ Serving' = t /\ Mood = "ask" /\ Mood' = "heard"
    BY <2>3, <2>4 DEF MindInv
  <2>6. Over' = Over
    BY <2>1 DEF Over
  <2> QED
    BY <2>1, <2>5, <2>6 DEF Mind!Hear
<1>2. CASE Spawn(h)
  <2> DEFINE i == handler[h].input
  <2>1. i \in Inputs /\ pc[i] = "idle"
    BY <1>2 DEF Spawn, Done, TurnInv, InputInv, InHand, TypeOK, HandlersTyped
  <2>2. pc' = [pc EXCEPT ![i] = "begin"] /\ UNCHANGED <<waiting, plan, leftover>>
    BY <1>2 DEF Spawn
  <2>3. pc \in [Tasks -> TaskPcs] /\ i \in Tasks
    BY <2>1 DEF TypeOK, TasksTyped, Tasks
  <2>4. Over' = Over
    BY <2>1, <2>2, <2>3 DEF Over
  <2>5. \A t \in Tasks : pc[t] \in InTurn \/ pc'[t] \in InTurn => pc'[t] = pc[t]
    BY <2>1, <2>2, <2>3 DEF InTurn, InAsk, Asking
  <2> QED
    BY <2>2, <2>4, <2>5, MindStays DEF Mind!vars
<1>3. CASE ~LowerFlag(h) /\ ~Spawn(h)
  <2>1. UNCHANGED <<waiting, plan, leftover, pc>>
    BY <1>3 DEF HandlerStep, CheckWaiting, StoreAnswer, SetEvent, DropBusy, PassBusy,
                SwitchMode, Send
  <2>2. Over' = Over
    BY <2>1 DEF Over
  <2> QED
    BY <2>1, <2>2, MindStays DEF Mind!vars
<1> QED
  BY <1>1, <1>2, <1>3

\* A task outside the lock turns to the mind when it gets the lock, or is given up.
LEMMA OutsideMind ==
    ASSUME TypeOK, TurnInv, MindInv, MindInv', NEW t \in Tasks,
           \/ BeginTask(t) \/ EnrichFails(t) \/ JobDue(t) \/ PollFree(t) \/ ClaimBusy(t)
           \/ Greet(t) \/ Acquire(t) \/ Release(t) \/ Finally(t)
    PROVE  Mind!Begin(t) \/ Mind!Abandon(t) \/ UNCHANGED Mind!vars
<1> USE DEF Go
<1>0. pc \in [Tasks -> TaskPcs] /\ NoTask # t
  BY TasksAssumption DEF TypeOK, TasksTyped
<1>1. CASE Acquire(t)
  <2>1. pc[t] = "acquire" /\ lock = NoTask /\ pc' = [pc EXCEPT ![t] = "turn"]
        /\ UNCHANGED <<plan, leftover>>
    BY <1>1 DEF Acquire
  <2>2. \A u \in Tasks : pc[u] \notin InTurn
    BY <2>1, TasksAssumption DEF TurnInv, LockInv, Holding
  <2>3. Serving = NoTask /\ Mood = "think"
    BY <2>2 DEF MindInv
  <2>4. pc'[t] = "turn"
    BY <1>0, <2>1
  <2>5. MindOf(t)' = "think"
    BY <2>4 DEF MindOf, InAsk, Asking
  <2>6. Serving' = t /\ Mood' = "think"
    BY <2>4, <2>5 DEF MindInv, InTurn
  <2>7. t \notin Over /\ Over' = Over
    BY <1>0, <2>1 DEF Over
  <2> QED
    BY <2>1, <2>3, <2>6, <2>7 DEF Mind!Begin
<1>2. CASE ~Acquire(t)
  <2>1. /\ UNCHANGED <<waiting, plan, leftover>>
        /\ pc[t] \notin InTurn /\ pc'[t] \notin InTurn
        /\ \A u \in Tasks \ {t} : pc'[u] = pc[u]
    BY <1>0, <1>2 DEF BeginTask, EnrichFails, JobDue, PollFree, ClaimBusy, Greet, Release,
                      Finally, InTurn, InAsk, Asking
  <2>2. Serving' = Serving /\ Mood' = Mood
    <3>1. \A u \in Tasks : pc[u] \in InTurn \/ pc'[u] \in InTurn => pc'[u] = pc[u]
      BY <2>1
    <3> QED
      BY <2>1, <3>1, MindStays
  <2>3. CASE EnrichFails(t)
    <3>1. t \notin Over /\ Over' = Over \cup {t}
      BY <1>0, <2>1, <2>3 DEF EnrichFails, Over
    <3>2. Serving # t
      BY <1>0, <2>1 DEF MindInv
    <3> QED
      BY <2>1, <2>2, <3>1, <3>2 DEF Mind!Abandon
  <2>4. CASE ~EnrichFails(t)
    <3>1. pc[t] \in {"release", "finally", "done"} <=> pc'[t] \in {"release", "finally", "done"}
      BY <1>0, <1>2, <2>4
         DEF BeginTask, JobDue, PollFree, ClaimBusy, Greet, Release, Finally
    <3>2. Over' = Over
      BY <2>1, <3>1 DEF Over
    <3> QED
      BY <2>1, <2>2, <3>2 DEF Mind!vars
  <2> QED
    BY <2>3, <2>4
<1> QED
  BY <1>1, <1>2

\* Inside a turn: insana_sor is Ask and ThinkOn, the end of the graph is Finish, an answer
\* that raises BreakOff.
LEMMA InsideMind ==
    ASSUME TypeOK, TurnInv, DialogueInv, DialogueInv', MindInv, MindInv', NEW t \in Tasks,
           \/ MakePlan(t) \/ ShowQuestion(t) \/ RaiseFlag(t) \/ ClearEvent(t) \/ FreeUi(t)
           \/ Wake(t) \/ Rebusy(t) \/ ReadReply(t) \/ FinishTurn(t) \/ AnswerRaises(t)
    PROVE  \/ Mind!MakePlan \/ Mind!Ask \/ Mind!ThinkOn \/ Mind!Finish \/ Mind!BreakOff
           \/ UNCHANGED Mind!vars
<1> USE DEF Go
<1>0. pc \in [Tasks -> TaskPcs] /\ NoTask # t
  BY TasksAssumption DEF TypeOK, TasksTyped
<1>1. pc[t] \in InTurn
  BY DEF MakePlan, ShowQuestion, RaiseFlag, ClearEvent, FreeUi, Wake, Rebusy, ReadReply,
         FinishTurn, AnswerRaises, InTurn, InAsk, Asking
<1>2. Serving = t /\ Mood = MindOf(t)
  BY <1>1 DEF MindInv
<1>3. \A u \in Tasks \ {t} : pc[u] \notin InTurn /\ pc'[u] = pc[u]
  <2>1. \A u \in Tasks \ {t} : pc[u] \notin InTurn
    BY <1>1 DEF TurnInv, LockInv, Holding
  <2>2. \A u \in Tasks \ {t} : pc'[u] = pc[u]
    BY <1>0 DEF MakePlan, ShowQuestion, RaiseFlag, ClearEvent, FreeUi, Wake, Rebusy,
                ReadReply, FinishTurn, AnswerRaises
  <2> QED
    BY <2>1, <2>2
<1>4. ASSUME pc'[t] \in InTurn
      PROVE  Serving' = t /\ Mood' = MindOf(t)' /\ Over' = Over
  <2>1. Over' = Over
    BY <1>1, <1>3, <1>4 DEF Over, InTurn, InAsk, Asking
  <2> QED
    BY <1>4, <2>1 DEF MindInv
<1>5. ~waiting \/ pc[t] \in Asking
  BY <1>1 DEF TurnInv, LockInv, DialogueInv, Holding, InTurn, InAsk
<1>6. CASE MakePlan(t)
  <2>1. pc[t] = "turn" /\ pc'[t] = "turn" /\ plan' = t /\ leftover' = FALSE
    BY <1>6 DEF MakePlan
  <2>2. MindOf(t) = "think" /\ MindOf(t)' = "think"
    BY <2>1 DEF MindOf, InAsk, Asking
  <2> QED
    BY <1>0, <1>2, <1>4, <2>1, <2>2 DEF Mind!MakePlan, InTurn
<1>7. CASE ShowQuestion(t)
  <2>1. pc[t] = "turn" /\ pc'[t] = "shown" /\ UNCHANGED <<plan, leftover>>
    BY <1>0, <1>7 DEF ShowQuestion
  <2>2. MindOf(t) = "think" /\ MindOf(t)' = "ask"
    BY <2>1 DEF MindOf, InAsk, Asking
  <2> QED
    BY <1>0, <1>2, <1>4, <2>1, <2>2 DEF Mind!Ask, InTurn, InAsk
<1>8. CASE ReadReply(t)
  <2>1. pc[t] = "reply" /\ pc'[t] = "turn" /\ UNCHANGED <<plan, leftover>> /\ ~waiting
    BY <1>0, <1>5, <1>8 DEF ReadReply, Asking
  <2>2. MindOf(t) = "heard" /\ MindOf(t)' = "think"
    BY <2>1 DEF MindOf, InAsk, Asking
  <2> QED
    BY <1>2, <1>4, <2>1, <2>2 DEF Mind!ThinkOn, InTurn
<1>9. CASE FinishTurn(t) \/ AnswerRaises(t)
  <2>1. pc[t] = "turn" /\ pc'[t] = "release"
    BY <1>0, <1>9 DEF FinishTurn, AnswerRaises
  <2>2. MindOf(t) = "think"
    BY <2>1 DEF MindOf, InAsk, Asking
  <2>3. \A u \in Tasks : pc'[u] \notin InTurn
    BY <1>3, <2>1 DEF InTurn, InAsk, Asking
  <2>4. Serving' = NoTask /\ Mood' = "think"
    BY <2>3 DEF MindInv
  <2>5. Over' = Over \cup {t}
    BY <1>3, <2>1 DEF Over
  <2>6. CASE FinishTurn(t)
    <3>1. plan' = NoTask /\ leftover' = FALSE
      BY <2>6 DEF FinishTurn
    <3> QED
      BY <1>0, <1>2, <2>2, <2>4, <2>5, <3>1 DEF Mind!Finish
  <2>7. CASE AnswerRaises(t)
    <3>1. plan' = plan /\ leftover' = (plan # NoTask)
      BY <2>7 DEF AnswerRaises
    <3> QED
      BY <1>0, <1>2, <2>2, <2>4, <2>5, <3>1 DEF Mind!BreakOff
  <2> QED
    BY <1>9, <2>6, <2>7
<1>10. CASE RaiseFlag(t)
  <2>1. pc[t] = "shown" /\ pc'[t] = "clear" /\ waiting' /\ UNCHANGED <<plan, leftover>>
    BY <1>0, <1>10 DEF RaiseFlag
  <2>2. MindOf(t) = "ask" /\ MindOf(t)' = "ask"
    BY <2>1 DEF MindOf, InAsk, Asking
  <2> QED
    BY <1>2, <1>4, <2>1, <2>2 DEF Mind!vars, InTurn, InAsk, Asking
<1>11. CASE ClearEvent(t) \/ FreeUi(t) \/ Wake(t) \/ Rebusy(t)
  <2>1. /\ pc[t] \in InAsk \ {"shown"} /\ pc'[t] \in InAsk \ {"shown"}
        /\ UNCHANGED <<waiting, plan, leftover>>
    BY <1>0, <1>11 DEF ClearEvent, FreeUi, Wake, Rebusy, InAsk, Asking
  <2>2. MindOf(t)' = MindOf(t)
    BY <2>1 DEF MindOf
  <2> QED
    BY <1>2, <1>4, <2>1, <2>2 DEF Mind!vars, InTurn
<1> QED
  BY <1>6, <1>7, <1>8, <1>9, <1>10, <1>11

\* With one thread in handle, the lock, the flags and the event behave as one mind: turns
\* are served one by one, a plan lasts for its turn unless that breaks off, and a question
\* is closed before the turn thinks on.
THEOREM CommandCenterImplementsOneMind == ASSUME OneHandler PROVE Spec => ImplementsOneMind
<1>1. Init => Mind!Init
  <2> SUFFICES ASSUME Init PROVE Mind!Init
    OBVIOUS
  <2>1. ~InTheTurn /\ Over = {}
    BY DEF Init, InTheTurn, Over, InTurn, InAsk, Asking
  <2> QED
    BY <2>1 DEF Init, Mind!Init, Serving, Mood
<1>2. TypeOK /\ TurnInv /\ DialogueInv /\ DialogueInv' /\ MindInv /\ MindInv' /\ [Next]_vars
        => [Mind!Next]_Mind!vars
  <2> SUFFICES ASSUME TypeOK, TurnInv, DialogueInv, DialogueInv', MindInv, MindInv', [Next]_vars
               PROVE  [Mind!Next]_Mind!vars
    OBVIOUS
  <2>1. ASSUME NEW h \in Handlers, HandlerStep(h) \/ \E i \in Inputs : Send(h, i)
        PROVE  Mind!Hear \/ UNCHANGED Mind!vars
    BY <2>1, HandlerMind
  <2>2. ASSUME NEW t \in Tasks, TaskStep(t) \/ JobDue(t) \/ Greet(t)
        PROVE  [Mind!Next]_Mind!vars
    <3>1. CASE \/ BeginTask(t) \/ EnrichFails(t) \/ JobDue(t) \/ PollFree(t) \/ ClaimBusy(t)
               \/ Greet(t) \/ Acquire(t) \/ Release(t) \/ Finally(t)
      <4>1. Mind!Begin(t) \/ Mind!Abandon(t) \/ UNCHANGED Mind!vars
        BY <3>1, OutsideMind
      <4> QED
        BY <4>1 DEF Mind!Next
    <3>2. CASE \/ MakePlan(t) \/ ShowQuestion(t) \/ RaiseFlag(t) \/ ClearEvent(t) \/ FreeUi(t)
               \/ Wake(t) \/ Rebusy(t) \/ ReadReply(t) \/ FinishTurn(t)
               \/ AnswerRaises(t)
      <4>1. \/ Mind!MakePlan \/ Mind!Ask \/ Mind!ThinkOn \/ Mind!Finish \/ Mind!BreakOff
            \/ UNCHANGED Mind!vars
        BY <3>2, InsideMind
      <4> QED
        BY <4>1 DEF Mind!Next
    <3> QED
      BY <2>2, <3>1, <3>2 DEF TaskStep
  <2>3. CASE UNCHANGED vars
    <3>1. Over' = Over /\ UNCHANGED <<plan, leftover, waiting, pc>>
      BY <2>3 DEF vars, Over
    <3> QED
      BY <3>1, MindStays DEF Mind!vars
  <2> QED
    BY <2>1, <2>2, <2>3 DEF Next, Mind!Next
<1> QED
  BY <1>1, <1>2, TypeCorrect, TurnInvariant, DialogueInvariant, MindInvariant, PTL
     DEF Spec, ImplementsOneMind, Mind!Spec
=============================================================================
