---------------------------- MODULE SessionPump ----------------------------
(***************************************************************************)
(* The input scheduler of an AgentSession.  What is submitted becomes an   *)
(* action in one of two lanes of the ActionStore; a pump takes the first   *)
(* queued one (or several turns together), prepares it, and dispatches it  *)
(* to the agent.  Pumps are chained: at most one is at work, each carries  *)
(* the epoch of its request, and a pump of an old epoch puts back what it  *)
(* holds.  Between two awaits of the pump the owner submits, clears or     *)
(* removes input, aborts, resumes, navigates the session tree or prepares  *)
(* an update restart; shell commands and compaction keep the agent busy.   *)
(*                                                                         *)
(* Actions are numbered in the order of their admission, which is the      *)
(* order of a lane.  Their texts, the context messages that travel with    *)
(* them, refinement (one more reason to wait) and the commit fence around  *)
(* each dispatch are left out.                                             *)
(***************************************************************************)
EXTENDS Naturals, Sequences

CONSTANTS
    MaxActions,    \* bound: so many actions are admitted
    MaxInterrupts, \* bound: so many clears, aborts, navigations and restarts
    MaxRuns,       \* bound: so many runs of the agent that are not the pump's
    MaxBusy,       \* bound: so many shell commands or compactions
    MaxFailures    \* bound: so many preparations, commands and events fail

ASSUME BoundsAssumption ==
    {MaxActions, MaxInterrupts, MaxRuns, MaxBusy, MaxFailures} \subseteq Nat

VARIABLES
    actions,  \* what was admitted: kind, queueVisible, wake
    state,    \* the lifecycle of each
    lanes,    \* nextTurnBoundary and whenRunIdle: the actions the store owns
    requested, chain,  \* _sessionInputPumpRequested, the epochs of the pumps to come
    epoch, suspended,  \* _sessionInputPumpEpoch, _sessionInputPumpSuspended
    pc, mine, preselected, batch, \* the pump at work, its epoch, what it holds
    run, told,   \* who owns the agent's run; the messages of the batch it has recorded
    transcript,  \* how often the agent's state has the message of each action
    captured,    \* cancelled after their dispatch: their messages are taken out again
    retry,       \* _retryPromise, the sleep, and the timer of agent.continue
    moved,       \* the leaf was moved beside a run, or a retry that is due
    busy,        \* a shell command or a compaction
    nav, restart,  \* the two owners of queued work pauses
    interrupts, runs, busies, failures,  \* counters
    missed       \* history: work was left without a pump

pumpVars == <<pc, mine, preselected, batch>>
wakeVars == <<requested, chain>>
agentVars == <<run, told, transcript, captured, retry, moved, runs>>
gateVars == <<epoch, suspended, nav, restart, interrupts>>
storeVars == <<actions, state, lanes>>
vars == <<storeVars, wakeVars, gateVars, pumpVars, agentVars, busy, busies, failures, missed>>

Lanes == {"nextTurnBoundary", "whenRunIdle"}
States == {"queued", "selected", "preparing", "committing", "running",
           "completed", "failed", "cancelled"}
Terminal == {"completed", "failed", "cancelled"}
Clearable == {"queued", "selected", "preparing"}
Actions == DOMAIN actions
IsTurn(a) == actions[a].kind = "turn"

Init ==
    /\ actions = <<>> /\ state = <<>> /\ lanes = [lane \in Lanes |-> {}]
    /\ requested = FALSE /\ chain = <<>> /\ epoch = 0 /\ suspended = FALSE
    /\ pc = "idle" /\ mine = 0 /\ preselected = 0 /\ batch = {}
    /\ run = "none" /\ told = {} /\ transcript = <<>> /\ captured = {} /\ retry = "none"
    /\ moved = FALSE
    /\ busy = FALSE /\ nav = "none" /\ restart = "none"
    /\ interrupts = 0 /\ runs = 0 /\ busies = 0 /\ failures = 0 /\ missed = FALSE

-----------------------------------------------------------------------------
(* The store *)

Owned == lanes["nextTurnBoundary"] \cup lanes["whenRunIdle"]
InState(states) == {a \in Owned : state[a] \in states}
Unfinished == InState(States \ Terminal)
Selectable == InState({"queued", "selected"}) # {}

\* The store goes through the lane nextTurnBoundary first.
Earliest(some) == CHOOSE a \in some : \A b \in some : a <= b
First(some) ==
    LET own == some \cap lanes["nextTurnBoundary"] IN Earliest(IF own # {} THEN own ELSE some)

Become(some, s) == state' = [a \in Actions |-> IF a \in some THEN s ELSE state[a]]
Release(some) == lanes' = [lane \in Lanes |-> lanes[lane] \ some]

-----------------------------------------------------------------------------
(* Waking the pump *)

Paused == nav # "none" \/ restart # "none"
Held == suspended \/ Paused
IsRetrying == retry \in {"sleeping", "due", "running", "stuck"}
\* _isBusyForSessionInput at the pump; canSelectSessionAction adds the agent's run.
PumpBusy == busy \/ IsRetrying \/ Held
Deferred == mine # epoch \/ PumpBusy

\* _scheduleSessionInputPump, in the state this step leaves, from the flag and the chain.
Schedule(flag, pumps) ==
    IF Held' \/ flag \/ ~Selectable'
    THEN requested' = flag /\ chain' = pumps
    ELSE requested' = TRUE /\ chain' = Append(pumps, epoch')

-----------------------------------------------------------------------------
(* Admission *)

Kinds == [kind : {"turn"}, visible : BOOLEAN, wake : {"immediate", "later"}]
         \cup [kind : {"session_command"}, visible : {TRUE}, wake : {"immediate"}]

\* _admitSessionInput.  An action that finds the store empty and the session free is
\* selected at once; some submissions lift the suspension of the scheduler.
Admit(action, lane, eligible, lifts) ==
    LET a == Len(actions) + 1
        starts == eligible /\ Unfinished = {}
    IN  /\ a <= MaxActions
        /\ actions' = Append(actions, action)
        /\ state' = Append(state, IF starts THEN "selected" ELSE "queued")
        /\ lanes' = [lanes EXCEPT ![lane] = @ \cup {a}]
        /\ transcript' = Append(transcript, 0)
        /\ suspended' = (suspended /\ ~lifts)
        /\ UNCHANGED <<epoch, nav, restart, interrupts, pumpVars, run, told, captured, retry, moved,
                       runs, busy, busies, failures, missed>>
        /\ IF starts \/ action.wake = "immediate"
                     \/ (lane = "nextTurnBoundary" /\ run # "none")
           THEN Schedule(requested, chain)
           ELSE UNCHANGED wakeVars

\* Variant: the pauses are not looked at.
CanStartPaused == run = "none" /\ ~busy /\ ~IsRetrying

\* _canStartSessionActionImmediately; the submission has lifted a suspension before.
CanStart == run = "none" /\ ~busy /\ ~IsRetrying /\ ~Paused

\* steer, followUp, and prompts beside a running agent or behind other work: visible.
Queue(lane, wake) ==
    Admit([kind |-> "turn", visible |-> TRUE, wake |-> wake], lane, FALSE, wake = "immediate")

\* A prompt to an agent that does not stream.
Prompt(lane) ==
    /\ run = "none"
    /\ Admit([kind |-> "turn", visible |-> FALSE, wake |-> "immediate"], lane, CanStart, TRUE)

Command(lane) ==
    Admit([kind |-> "session_command", visible |-> TRUE, wake |-> "immediate"], lane, CanStart,
          run = "none")

\* A submission that an extension handles, or that is refused: the scheduler is resumed
\* and nothing is scheduled.
PromptHandled ==
    /\ run = "none" /\ suspended
    /\ suspended' = FALSE
    /\ missed' = (missed \/ Selectable)
    /\ UNCHANGED <<storeVars, wakeVars, epoch, nav, restart, interrupts, pumpVars, agentVars,
                   busy, busies, failures>>

-----------------------------------------------------------------------------
(* The pump *)

\* The finally clause of _pumpSessionInputs.
Return(blocked) ==
    /\ pc' = "idle" /\ preselected' = 0 /\ batch' = {} /\ mine' = mine
    /\ IF blocked \/ mine # epoch'
       THEN UNCHANGED wakeVars
       ELSE Schedule(requested, chain)

\* The head of its loop.
Loop(flag, pumps) ==
    IF Selectable'
    THEN /\ pc' = "waiting" /\ preselected' = 0 /\ batch' = {}
         /\ requested' = flag /\ chain' = pumps
    ELSE /\ pc' = "idle" /\ preselected' = 0 /\ batch' = {}
         /\ requested' = flag /\ chain' = pumps

Begin ==
    /\ pc = "idle" /\ chain # <<>>
    /\ mine' = Head(chain)
    /\ UNCHANGED <<storeVars, gateVars, agentVars, busy, busies, failures, missed>>
    /\ Loop(FALSE, Tail(chain))

\* The agent is idle.  A stale pump puts the action it was started for back.
Woken ==
    /\ pc = "waiting" /\ run = "none"
    /\ UNCHANGED <<actions, lanes, gateVars, agentVars, busy, busies, failures, missed>>
    /\ LET selected == InState({"selected"}) IN
       IF mine # epoch
       THEN /\ Become(IF selected = {} THEN {} ELSE {First(selected)}, "queued")
            /\ Return(FALSE)
       ELSE /\ preselected' = IF selected = {} THEN 0 ELSE First(selected)
            /\ pc' = "selecting"
            /\ UNCHANGED <<state, mine, batch, wakeVars>>

\* After the agent's events were processed.
Blocked == Deferred \/ run # "none"

Block ==
    /\ pc = "selecting" /\ Blocked
    /\ UNCHANGED <<storeVars, gateVars, agentVars, busy, busies, failures, missed>>
    /\ Return(TRUE)

\* What was preselected was cancelled meanwhile (the lifecycle refuses to go on), or
\* there is nothing left.
SelectNothing ==
    /\ pc = "selecting" /\ ~Blocked
    /\ \/ preselected # 0 /\ IsTurn(preselected) /\ state[preselected] = "cancelled"
       \/ preselected = 0 /\ InState({"queued"}) = {}
    /\ UNCHANGED <<storeVars, gateVars, agentVars, busy, busies, failures, missed>>
    /\ Return(FALSE)

\* The first action; in mode "all" the turns queued behind it in its lane as well.
Chosen ==
    IF preselected # 0 THEN {{preselected}}
    ELSE LET queued == InState({"queued"})
             first == First(queued)
             upTo(last) == {a \in queued : a <= last /\ \A lane \in Lanes :
                                               first \in lanes[lane] => a \in lanes[lane]}
         IN  {{first}} \cup {some \in {upTo(last) : last \in queued} :
                               first \in some /\ \A a \in some : IsTurn(a)}

Select ==
    /\ pc = "selecting" /\ ~Blocked
    /\ preselected = 0 => InState({"queued"}) # {}
    /\ \E chosen \in Chosen :
          /\ batch' = chosen
          /\ IF \A a \in chosen : IsTurn(a)
             THEN /\ \A a \in chosen : state[a] # "cancelled"
                  /\ pc' = "preparing" /\ Become(chosen, "preparing")
             ELSE /\ pc' = "command"
                  /\ IF preselected # 0 THEN UNCHANGED state ELSE Become(chosen, "selected")
    /\ UNCHANGED <<actions, lanes, wakeVars, gateVars, mine, preselected, agentVars, busy,
                   busies, failures, missed>>

Preparing == {a \in batch : state[a] = "preparing"}

\* The end of the loop's body: a stale pump stops.
Continue ==
    IF mine # epoch' THEN Return(FALSE)
    ELSE Loop(requested, chain) /\ UNCHANGED mine

\* The catch clause.  Deferred: what is not in the transcript goes back to its queue.
Undelivered == {a \in batch : state[a] # "cancelled" /\ transcript[a] = 0}

\* Variant: what was dispatched is not put back.
CatchDeferredPrepared(undelivered) ==
    /\ Become({a \in undelivered : state[a] \in {"selected", "preparing"}}, "queued")
    /\ UNCHANGED lanes
    /\ IF Deferred THEN Return(TRUE) ELSE Continue

CatchDeferred(undelivered) ==
    /\ Become({a \in undelivered : state[a] \in {"selected", "preparing", "committing"}}, "queued")
    /\ UNCHANGED lanes
    /\ IF Deferred THEN Return(TRUE) ELSE Continue
Catch(deferred) ==
    IF deferred THEN CatchDeferred(Undelivered)
    ELSE LET failed == {a \in batch : state[a] \notin Terminal} IN
         /\ Become(failed, "failed") /\ Release(failed)
         /\ Continue

\* Every turn of the batch was cancelled.
PrepareNothing ==
    /\ pc = "preparing" /\ Preparing = {}
    /\ UNCHANGED <<storeVars, gateVars, agentVars, busy, busies, failures, missed>>
    /\ Continue

\* One of the checks of _prepareForCommit finds the handoff deferred.
PrepareDeferred ==
    /\ pc = "preparing" /\ Preparing # {} /\ Deferred
    /\ UNCHANGED <<actions, gateVars, agentVars, busy, busies, failures, missed>>
    /\ Catch(TRUE)

\* Validation or an extension throws.
PrepareFails ==
    /\ pc = "preparing" /\ Preparing # {} /\ failures < MaxFailures
    /\ failures' = failures + 1
    /\ UNCHANGED <<actions, gateVars, agentVars, busy, busies, missed>>
    /\ Catch(Deferred)

Prepare ==
    /\ pc = "preparing" /\ Preparing # {} /\ ~Deferred
    /\ batch' = Preparing
    /\ pc' = "fence"
    /\ UNCHANGED <<storeVars, wakeVars, gateVars, mine, preselected, agentVars, busy, busies,
                   failures, missed>>

\* Variant: behind the fence only the turns and the agent are looked at again.
NotHandedOffUnchecked == run # "none" \/ \E a \in batch : state[a] # "preparing"

\* Behind the fence everything is checked once more.
NotHandedOff == Deferred \/ run # "none" \/ \E a \in batch : state[a] # "preparing"

HandoffDeferred ==
    /\ pc = "fence" /\ NotHandedOff
    /\ UNCHANGED <<actions, gateVars, agentVars, busy, busies, failures, missed>>
    /\ Catch(TRUE)

Dispatch ==
    /\ pc = "fence" /\ ~NotHandedOff
    /\ Become(batch, "committing")
    /\ run' = "pump" /\ told' = {}
    /\ pc' = "dispatched"
    /\ UNCHANGED <<actions, lanes, wakeVars, gateVars, mine, preselected, batch, transcript,
                   captured, retry, moved, runs, busy, busies, failures, missed>>

\* The prompt's promise has settled and the events of the run are processed.  The turns that
\* also await the end of the retries are not told from those an extension triggered.
Settled == pc = "dispatched" /\ run # "pump" /\ (retry # "sleeping" \/ captured # {})
AllDelivered == Undelivered = {}

Settle ==
    /\ Settled /\ AllDelivered
    /\ UNCHANGED <<actions, gateVars, agentVars, busy, busies, failures, missed>>
    /\ LET done == {a \in batch : state[a] \in {"committing", "running"}} IN
       Become(done, "completed") /\ Release(done)
    /\ Continue

SettleUndelivered ==
    /\ Settled /\ ~AllDelivered
    /\ UNCHANGED <<actions, gateVars, agentVars, busy, busies, failures, missed>>
    /\ Catch(Deferred)

\* Processing the last event of the run throws.
SettleFails ==
    /\ Settled /\ failures < MaxFailures
    /\ failures' = failures + 1
    /\ UNCHANGED <<actions, gateVars, agentVars, busy, busies, missed>>
    /\ Catch(Deferred)

-----------------------------------------------------------------------------
(* Session commands: _executeSelectedSessionCommand *)

CommandGivenUp ==
    /\ pc = "command" /\ (Blocked \/ \E a \in batch : state[a] = "cancelled")
    /\ Become({a \in batch : state[a] = "selected"}, "queued")
    /\ UNCHANGED <<actions, lanes, gateVars, agentVars, busy, busies, failures, missed>>
    /\ Return(FALSE)

CommandRuns ==
    /\ pc = "command" /\ ~Blocked /\ \A a \in batch : state[a] = "selected"
    /\ Become(batch, "running")
    /\ pc' = "executing"
    /\ UNCHANGED <<actions, lanes, wakeVars, gateVars, mine, preselected, batch, agentVars, busy,
                   busies, failures, missed>>

CommandEnds ==
    /\ pc = "executing"
    /\ \/ Become(batch, "completed") /\ UNCHANGED failures
       \/ /\ failures < MaxFailures /\ failures' = failures + 1
          /\ Become(batch, "failed")
    /\ Release(batch)
    /\ UNCHANGED <<actions, gateVars, agentVars, busy, busies, missed>>
    /\ Return(FALSE)

-----------------------------------------------------------------------------
(* The agent *)

\* The next message of the batch starts and ends: it is durable.
Untold == batch \ told

Deliver ==
    /\ run = "pump" /\ Untold # {}
    /\ LET a == Earliest(Untold) IN
       /\ told' = told \cup {a}
       /\ transcript' = [transcript EXCEPT ![a] = @ + 1]
       /\ Become({a} \cap {b \in Actions : state[b] = "committing"}, "running")
    /\ UNCHANGED <<actions, lanes, wakeVars, gateVars, pumpVars, run, captured, retry, moved,
                   runs, busy, busies, failures, missed>>

\* Variant: the messages of a cancelled dispatch stay.
ForgetNothing(some) == transcript' = transcript

\* agent_end: the messages of a cancelled dispatch leave the state.  The run of a prompt
\* normally recorded its messages; a listener that failed may have stopped it before.
Forget(some) == transcript' = [a \in Actions |-> IF a \in some THEN 0 ELSE transcript[a]]

RunEnds ==
    /\ run # "none"
    /\ run = "pump" /\ Untold # {} => failures < MaxFailures
    /\ failures' = IF run = "pump" /\ Untold # {} THEN failures + 1 ELSE failures
    /\ run' = "none"
    /\ Forget(captured) /\ captured' = {} /\ Release(captured)
    /\ retry' = IF retry = "running" THEN "none" ELSE retry
    /\ moved' = FALSE
    /\ UNCHANGED <<actions, state, gateVars, pumpVars, told, runs, busy, busies, missed>>
    /\ IF retry = "running" THEN Schedule(requested, chain) ELSE UNCHANGED wakeVars

\* The reply was a provider's error: its agent_end is processed with a sleep in it.
RunEndsRetryable ==
    /\ run # "none" /\ runs < MaxRuns /\ captured = {} /\ retry \in {"none", "running"}
    /\ run = "pump" => Untold = {}
    /\ run' = "none" /\ runs' = runs + 1
    /\ retry' = "sleeping"
    /\ UNCHANGED <<storeVars, wakeVars, gateVars, pumpVars, told, transcript, captured, moved,
                   busy, busies, failures, missed>>

RetryDue ==
    /\ retry = "sleeping"
    /\ retry' = "due"
    /\ UNCHANGED <<storeVars, wakeVars, gateVars, pumpVars, run, told, transcript, captured,
                   moved, runs, busy, busies, failures, missed>>

\* The timer calls agent.continue, which throws when a run is going on.  An abort that comes
\* after the sleep does not stop it: the run finds the pump on its way.
RetryContinues ==
    /\ retry \in {"due", "stray"}
    /\ moved' = FALSE
    /\ run' = IF run = "none" THEN "other" ELSE run
    /\ retry' = IF retry = "due" THEN "running" ELSE "none"
    /\ missed' = (missed \/ retry = "stray")
    /\ UNCHANGED <<storeVars, wakeVars, gateVars, pumpVars, told, transcript, captured, runs, busy,
                   busies, failures>>

\* agent.continue finds a branch that ends with a reply, or an empty one: a navigation has
\* moved the leaf meanwhile, or a run has ended since an abort.  Its error is swallowed, and
\* nobody resolves the promise of the retry.
RetryThrows ==
    /\ retry \in {"due", "stray"} /\ run = "none"
    /\ retry = "stray" \/ nav = "switching" \/ moved
    /\ retry' = IF retry = "due" THEN "stuck" ELSE "none"
    /\ moved' = FALSE
    /\ UNCHANGED <<storeVars, wakeVars, gateVars, pumpVars, run, told, transcript, captured, runs,
                   busy, busies, failures, missed>>

\* _runScheduledPostCompactionContinue
ContinueRun ==
    /\ runs < MaxRuns /\ runs' = runs + 1
    /\ run = "none" /\ ~busy /\ ~IsRetrying /\ ~Paused
    /\ Unfinished = {} /\ ~requested
    /\ run' = "other"
    /\ UNCHANGED <<storeVars, wakeVars, gateVars, pumpVars, told, transcript, captured, retry,
                   moved,
                   busy, busies, failures, missed>>

BusyStarts ==
    /\ ~busy /\ busies < MaxBusy
    /\ busy' = TRUE /\ busies' = busies + 1
    /\ UNCHANGED <<storeVars, wakeVars, gateVars, pumpVars, agentVars, failures, missed>>

\* Variant: the end of a shell command does not wake the pump.
BusyEndsSilently ==
    /\ busy
    /\ busy' = FALSE
    /\ UNCHANGED <<storeVars, wakeVars, gateVars, pumpVars, agentVars, busies, failures, missed>>

BusyEnds ==
    /\ busy
    /\ busy' = FALSE
    /\ UNCHANGED <<storeVars, gateVars, pumpVars, agentVars, busies, failures, missed>>
    /\ Schedule(requested, chain)

-----------------------------------------------------------------------------
(* The owner *)

\* Variant: what was dispatched is released at once.
CancelAtOnce(some) ==
    /\ Become(some, "cancelled")
    /\ Release(some)
    /\ captured' = captured \cup {a \in some : state[a] = "committing"}

\* _cancelSessionActions: what was dispatched is kept until its run has ended.
Cancel(some) ==
    LET dispatched == {a \in some : state[a] = "committing"} IN
    /\ Become(some, "cancelled")
    /\ Release(some \ dispatched)
    /\ captured' = captured \cup dispatched

Interrupt == interrupts < MaxInterrupts /\ interrupts' = interrupts + 1
\* A new epoch: the pump at work is stale, and what it has in hand is not selectable yet.
NewEpoch ==
    /\ epoch' = epoch + 1
    /\ missed' = (missed \/ InState({"preparing", "committing"}) # {})

ClearQueue ==
    LET visible == {a \in InState(Clearable) : actions[a].visible}
        stale == \E a \in visible : IsTurn(a) /\ state[a] = "preparing"
    IN  /\ Interrupt /\ visible # {}
        /\ Cancel(visible)
        /\ IF stale THEN NewEpoch ELSE UNCHANGED <<epoch, missed>>
        /\ UNCHANGED <<actions, wakeVars, suspended, nav, restart, pumpVars, run, told, transcript,
                       retry, moved, runs, busy, busies, failures>>

\* removeQueuedFollowUp and clearQueuedUserMessagesMatching: one turn, also the only one
\* dispatched while its message has not started.
RemoveTurn(a) ==
    LET dispatched == {b \in Owned : IsTurn(b) /\ state[b] \in {"committing", "running"}} IN
    /\ Interrupt
    /\ a \in Owned /\ IsTurn(a)
    /\ state[a] \in Clearable \/ (state[a] = "committing" /\ dispatched = {a})
    /\ Cancel({a})
    /\ UNCHANGED <<actions, wakeVars, epoch, suspended, nav, restart, pumpVars, run, told,
                   transcript, retry, moved, runs, busy, busies, failures, missed>>

\* abortRetry: the promise is resolved.  A timer that runs already is not stopped.
AbortedRetry ==
    /\ retry' = IF retry \in {"due", "stray"} THEN "stray" ELSE "none"
    /\ moved' = (moved /\ run # "none")

AbortRetry ==
    /\ IsRetrying /\ AbortedRetry
    /\ UNCHANGED <<storeVars, gateVars, pumpVars, run, told, transcript, captured, runs, busy,
                   busies,
                   failures, missed>>
    /\ Schedule(requested, chain)

\* The part that requestAbort and abortForUpdateRestart share.
Suspend(cancelled) ==
    /\ NewEpoch
    /\ requested' = FALSE /\ chain' = chain
    /\ suspended' = TRUE
    /\ Cancel(cancelled)
    /\ AbortedRetry
    /\ UNCHANGED <<actions, nav, pumpVars, run, told, transcript, runs, busy, busies, failures>>

\* requestAbort: the hidden turns are cancelled, what is visible stays queued.
RequestAbort ==
    /\ Interrupt
    /\ Suspend({a \in InState(Clearable) : IsTurn(a) /\ ~actions[a].visible})
    /\ UNCHANGED restart

\* abortForUpdateRestart: everything is in the manifest already; the pause is kept.
AbortForUpdateRestart ==
    /\ restart = "checkpointed"
    /\ restart' = "stopped"
    /\ Suspend({})
    /\ UNCHANGED interrupts

\* resumeQueuedWork, also after an edit; with the queued message that is deleted.
Resume(deleted) ==
    /\ suspended \/ deleted # {}
    /\ suspended' = FALSE
    /\ Cancel(deleted)
    /\ UNCHANGED <<actions, epoch, nav, restart, interrupts, pumpVars, run, told, transcript, retry,
                   moved, runs, busy, busies, failures, missed>>
    /\ Schedule(requested, chain)
ResumeQueuedWork == Resume({})
DeleteQueued(a) ==
    a \in InState({"queued"}) /\ actions[a].visible /\ Resume({a})

\* acquireQueuedWorkPause
AcquirePause == requested' = FALSE /\ chain' = chain /\ NewEpoch /\ Interrupt

NavigateTree ==
    /\ nav = "none"
    /\ nav' = "paused" /\ AcquirePause
    /\ UNCHANGED <<storeVars, suspended, restart, pumpVars, agentVars, busy, busies, failures>>

\* The agent is idle and its events are processed: the leaf is moved.
NavigateIdle ==
    /\ nav = "paused" /\ run = "none" /\ retry # "sleeping" /\ pc # "executing"
    /\ nav' = "switching"
    /\ UNCHANGED <<storeVars, wakeVars, epoch, suspended, restart, interrupts, pumpVars, agentVars,
                   busy, busies, failures, missed>>

NavigateDone ==
    /\ nav = "switching"
    /\ nav' = "none"
    /\ moved' = (run # "none" \/ retry = "due")
    /\ UNCHANGED <<storeVars, epoch, suspended, restart, interrupts, pumpVars, run, told,
                   transcript,
                   captured, retry, runs, busy, busies, failures, missed>>
    /\ Schedule(requested, chain)

PrepareRestart ==
    /\ restart = "none"
    /\ restart' = "paused" /\ AcquirePause
    /\ UNCHANGED <<storeVars, suspended, nav, pumpVars, agentVars, busy, busies, failures>>

\* waitForSessionInputCheckpoint
BlocksCheckpoint ==
    \E a \in Owned :
        \/ state[a] = "selected"
        \/ IsTurn(a) /\ state[a] = "preparing"
        \/ IsTurn(a) /\ state[a] = "committing" /\ transcript[a] = 0
        \/ ~IsTurn(a) /\ state[a] = "running"

Checkpoint ==
    /\ restart = "paused" /\ ~BlocksCheckpoint
    /\ restart' = "checkpointed"
    /\ UNCHANGED <<storeVars, wakeVars, epoch, suspended, nav, interrupts, pumpVars, agentVars,
                   busy,
                   busies, failures, missed>>

CancelRestart ==
    /\ restart \in {"paused", "checkpointed"}
    /\ restart' = "none"
    /\ UNCHANGED <<storeVars, epoch, suspended, nav, interrupts, pumpVars, agentVars, busy, busies,
                   failures, missed>>
    /\ Schedule(requested, chain)
-----------------------------------------------------------------------------
Owner ==
    \/ \E lane \in Lanes :
          \/ \E wake \in {"immediate", "later"} : Queue(lane, wake)
          \/ Prompt(lane) \/ Command(lane)
    \/ PromptHandled
    \/ ClearQueue \/ \E a \in Actions : RemoveTurn(a) \/ DeleteQueued(a)
    \/ RequestAbort \/ AbortRetry \/ AbortForUpdateRestart \/ ResumeQueuedWork
    \/ NavigateTree \/ PrepareRestart \/ Checkpoint \/ CancelRestart

Pump ==
    \/ Begin \/ Woken \/ Block \/ SelectNothing \/ Select
    \/ PrepareNothing \/ PrepareDeferred \/ Prepare \/ HandoffDeferred \/ Dispatch
    \/ Settle \/ SettleUndelivered
    \/ CommandGivenUp \/ CommandRuns \/ CommandEnds

Agent == Deliver \/ RunEnds \/ RetryDue \/ RetryContinues \/ RetryThrows
Others == RunEndsRetryable \/ ContinueRun \/ BusyStarts \/ PrepareFails \/ SettleFails
Navigation == NavigateIdle \/ NavigateDone

Next == Owner \/ Pump \/ Agent \/ Others \/ BusyEnds \/ Navigation
Spec == Init /\ [][Next]_vars
\* Promises settle: the pump, runs of the agent, shell commands and navigations go on.
FairSpec ==
    Spec /\ WF_vars(Pump) /\ WF_vars(Agent) /\ WF_vars(BusyEnds) /\ WF_vars(Navigation)

-----------------------------------------------------------------------------
(* Properties *)

\* Types; an action is owned by one lane from its admission until it is terminal, and the
\* pump holds actions only while it is at work.
TypeOK ==
    /\ actions \in Seq(Kinds) /\ state \in Seq(States) /\ DOMAIN state = Actions
    /\ lanes \in [Lanes -> SUBSET Actions]
    /\ {requested, suspended, busy, moved, missed} \subseteq BOOLEAN
    /\ chain \in Seq(0..epoch) /\ {epoch, mine} \subseteq Nat
    /\ pc \in {"idle", "waiting", "selecting", "preparing", "fence", "dispatched", "command",
               "executing"}
    /\ preselected \in Actions \cup {0} /\ batch \subseteq Actions /\ told \subseteq Actions
    /\ run \in {"none", "pump", "other"} /\ transcript \in [Actions -> Nat]
    /\ retry \in {"none", "sleeping", "due", "running", "stray", "stuck"}
    /\ nav \in {"none", "paused", "switching"}
    /\ restart \in {"none", "paused", "checkpointed", "stopped"}
    /\ captured \subseteq {a \in Actions : state[a] = "cancelled"}
    /\ Owned = {a \in Actions : state[a] \notin Terminal} \cup captured
    /\ pc = "idle" => batch = {} /\ preselected = 0

\* A message reaches the transcript once, and a cancelled one does not stay there, whatever
\* was rolled back, cleared, retried or aborted on the way.
DeliveredOnce ==
    /\ \A a \in Actions : transcript[a] <= 1
    /\ run = "none" => \A a \in Actions : state[a] = "cancelled" => transcript[a] = 0

\* A pump that returns leaves nothing half way: what it held is terminal or back in its
\* queue.  Only a turn whose last event failed may be left running.
NothingLeftHalfWay ==
    pc = "idle" => \A a \in Actions :
        /\ state[a] \notin {"preparing", "committing"}
        /\ state[a] = "running" => failures > 0 /\ transcript[a] > 0

\* What the restart manifest is written from does not move: after the checkpoint no input
\* is under way until the pause is released, also while the session is stopped.
CheckpointHolds == restart \in {"checkpointed", "stopped"} => ~BlocksCheckpoint

\* While the leaf of the session tree is moved, the pump dispatches nothing and no command
\* executes; only a retry may start a run.
NavigationAlone == nav = "switching" => run # "pump" /\ pc # "executing"

Waiting(a) == a \in Actions /\ actions[a].wake = "immediate" /\ state[a] = "queued"

\* What wakes the pump by itself is taken up, unless the scheduler is held, an interruption
\* came while a turn was prepared, or a navigation made a retry throw: then the session
\* waits until the retry is aborted.
Served ==
    \A a \in 1..MaxActions : Waiting(a) ~> (~Waiting(a) \/ Held \/ missed \/ retry = "stuck")

\* Queued messages are kept and resume: a message is taken up once nothing holds the scheduler.
QueuedMessage(a) == Waiting(a) /\ IsTurn(a) /\ actions[a].visible
FollowUpDelivered == \A a \in 1..MaxActions : QueuedMessage(a) ~> (~QueuedMessage(a) \/ Held)
=============================================================================
