------------------------- MODULE SessionPumpProofs -------------------------
(***************************************************************************)
(* Theorems about SessionPump, for any number of inputs, interruptions,    *)
(* runs and failures.  The steps are first put into kinds by what they do  *)
(* to the store, the pump and the agent; then each part of the invariant   *)
(* is shown kind by kind.  BatchInv says what the states of the actions in *)
(* the pump's hands are at each of its places, HalfInv that no other       *)
(* action is half way, MessageInv which actions have a message.            *)
(***************************************************************************)
EXTENDS SessionPump, SequenceTheorems, WellFoundedInduction, TLAPS

-----------------------------------------------------------------------------
(* The invariant *)

StoreTypes ==
    /\ actions \in Seq(Kinds)
    /\ state \in [Actions -> States]
    /\ lanes \in [Lanes -> SUBSET Actions]
    /\ transcript \in [Actions -> Nat]
    /\ captured \subseteq Actions /\ told \subseteq Actions
    /\ batch \subseteq Actions /\ preselected \in Actions \cup {0}
    /\ failures \in Nat
FlagTypes ==
    suspended \in BOOLEAN /\ busy \in BOOLEAN /\ moved \in BOOLEAN /\ missed \in BOOLEAN
WakeTypes == requested \in BOOLEAN /\ epoch \in Nat /\ mine \in Nat /\ chain \in Seq(0..epoch)
PlaceTypes ==
    /\ pc \in {"idle", "waiting", "selecting", "preparing", "fence", "dispatched", "command",
               "executing"}
    /\ run \in {"none", "pump", "other"}
    /\ retry \in {"none", "sleeping", "due", "running", "stray", "stuck"}
    /\ nav \in {"none", "paused", "switching"}
    /\ restart \in {"none", "paused", "checkpointed", "stopped"}

\* What the store owns is not finished, or was cancelled with its message on the way.
OwnInv ==
    /\ \A a \in captured : state[a] = "cancelled"
    /\ \A a \in Actions : a \in Owned <=> (state[a] \notin Terminal \/ a \in captured)

\* What the pump holds, at each of its places.
BatchInv ==
    /\ pc \in {"idle", "waiting"} => preselected = 0
    /\ pc \in {"idle", "waiting", "selecting"} => batch = {}
    /\ pc = "selecting" /\ preselected # 0 => state[preselected] \in {"selected", "cancelled"}
    /\ pc \in {"preparing", "fence"} =>
          \A a \in batch : IsTurn(a) /\ state[a] \in {"preparing", "cancelled"}
    /\ pc = "dispatched" => \A a \in batch :
          /\ IsTurn(a) /\ state[a] \in {"committing", "running", "cancelled"}
          /\ a \in told => state[a] # "committing"
          /\ a \notin told => state[a] # "running" /\ transcript[a] = 0
          /\ a \notin told /\ run # "pump" => failures > 0
          /\ run = "pump" /\ state[a] = "cancelled" => a \in captured
    /\ pc = "command" => \A a \in batch : ~IsTurn(a) /\ state[a] \in {"selected", "cancelled"}
    /\ pc = "executing" => \A a \in batch : ~IsTurn(a) /\ state[a] = "running"
    /\ run = "pump" => pc = "dispatched"

\* Only what the pump holds is half way, but for turns whose last event failed.
HalfInv == \A a \in Actions :
    /\ state[a] = "preparing" => a \in batch /\ pc \in {"preparing", "fence"}
    /\ state[a] = "committing" => a \in batch /\ pc = "dispatched"
    /\ state[a] = "running" => \/ a \in batch /\ pc \in {"dispatched", "executing"}
                               \/ failures > 0 /\ transcript[a] > 0

\* A message is recorded once, when its turn begins to run; the message of a cancelled turn
\* is there only until the end of the run.
MessageInv == \A a \in Actions :
    /\ transcript[a] <= 1
    /\ state[a] \in {"queued", "selected", "preparing", "committing"} => transcript[a] = 0
    /\ state[a] = "running" /\ IsTurn(a) => transcript[a] = 1
    /\ state[a] = "cancelled" /\ transcript[a] > 0 => a \in captured /\ run = "pump"

\* From the checkpoint on nothing is under way but turns that were delivered.
CheckpointInv == restart \in {"checkpointed", "stopped"} => \A a \in Actions :
    /\ state[a] \notin {"selected", "preparing", "committing"}
    /\ state[a] = "running" => IsTurn(a)

Good == StoreTypes /\ PlaceTypes /\ OwnInv /\ BatchInv /\ HalfInv /\ MessageInv

-----------------------------------------------------------------------------
(* The kinds of steps *)

\* The owner, a timer or the agent; the store and the pump are left alone.
Outside ==
    \/ PromptHandled \/ NavigateTree \/ NavigateIdle \/ NavigateDone \/ PrepareRestart
    \/ Checkpoint \/ CancelRestart \/ RetryDue \/ RetryContinues \/ RetryThrows
    \/ AbortRetry \/ ContinueRun \/ BusyStarts \/ BusyEnds
Aside ==
    /\ UNCHANGED <<storeVars, pc, preselected, batch, told, transcript, captured, failures>>
    /\ run' = run \/ (run = "none" /\ run' = "other")

\* Something is cancelled that was not finished.
Cancelling ==
    \/ ClearQueue \/ RequestAbort \/ AbortForUpdateRestart \/ ResumeQueuedWork
    \/ \E a \in Actions : RemoveTurn(a) \/ DeleteQueued(a)
Cancels ==
    /\ \E some \in SUBSET {a \in Actions : state[a] \in Clearable \cup {"committing"}} : Cancel(some)
    /\ UNCHANGED <<actions, pc, preselected, batch, run, told, transcript, failures>>

\* The pump has nothing in hand and begins its loop, or returns.
Resting == Begin \/ Block \/ SelectNothing \/ PrepareNothing
LetsGo == pc' \in {"idle", "waiting"} /\ preselected' = 0 /\ batch' = {}
Rests ==
    /\ UNCHANGED <<storeVars, run, told, transcript, captured, failures, retry, gateVars>>
    /\ pc \in {"idle", "selecting", "preparing"} /\ LetsGo
    /\ pc = "preparing" => Preparing = {}

\* The catch clause, before the turn was dispatched and after.
Catching == PrepareDeferred \/ PrepareFails \/ HandoffDeferred \/ SettleUndelivered \/ SettleFails
Catches ==
    /\ UNCHANGED <<actions, run, told, transcript, captured, retry, gateVars>>
    /\ pc \in {"preparing", "fence"} \/ (pc = "dispatched" /\ run # "pump")
    /\ LetsGo
    /\ \/ /\ Become({a \in Undelivered : state[a] \in {"selected", "preparing", "committing"}}, "queued")
          /\ UNCHANGED lanes
       \/ LET failed == {a \in batch : state[a] \notin Terminal} IN
          Become(failed, "failed") /\ Release(failed)
    /\ failures' \in {failures, failures + 1}
    /\ pc = "dispatched" => failures' = failures + 1 \/ Undelivered # {}

\* A new action.
Admitting ==
    \E lane \in Lanes :
        \/ \E wake \in {"immediate", "later"} : Queue(lane, wake)
        \/ Prompt(lane) \/ Command(lane)
Admits ==
    /\ \E action \in Kinds, lane \in Lanes, s \in {"selected", "queued"} :
          /\ actions' = Append(actions, action)
          /\ state' = Append(state, s)
          /\ lanes' = [lanes EXCEPT ![lane] = @ \cup {Len(actions) + 1}]
          /\ s = "selected" => ~Paused
    /\ transcript' = Append(transcript, 0)
    /\ UNCHANGED <<pc, preselected, batch, run, told, captured, failures, retry, nav, restart>>

\* The other steps, each of its own kind.
Working ==
    \/ Woken \/ Select \/ Prepare \/ Dispatch \/ Settle \/ CommandGivenUp \/ CommandRuns
    \/ CommandEnds \/ Deliver \/ RunEnds \/ RunEndsRetryable

\* There are no others.
LEMMA StepKinds == [Next]_vars =>
    Outside \/ Cancelling \/ Resting \/ Catching \/ Admitting \/ Working \/ UNCHANGED vars
BY DEF Next, Owner, Pump, Agent, Others, Navigation, Outside, Cancelling, Resting, Catching,
       Admitting, Working

\* How the pump's loop is left.
LEMMA Returning == \A blocked : Return(blocked) => LetsGo
BY DEF Return, LetsGo

LEMMA Looping == \A flag, pumps : Loop(flag, pumps) => LetsGo
BY DEF Loop, LetsGo

LEMMA Continuing == Continue => LetsGo
BY Returning, Looping DEF Continue

LEMMA OutsideIs == Outside => Aside
BY DEF Outside, Aside, PromptHandled, NavigateTree, NavigateIdle, NavigateDone, PrepareRestart,
       Checkpoint, CancelRestart, RetryDue, RetryContinues, RetryThrows,
       AbortRetry, AbortedRetry, ContinueRun, BusyStarts, BusyEnds, AcquirePause, storeVars, pumpVars, wakeVars, agentVars, gateVars

LEMMA RestingIs == Resting => Rests
<1>1. CASE Begin
  BY <1>1, Looping DEF Begin, Rests, agentVars
<1>2. CASE Block \/ SelectNothing
  BY <1>2, Returning DEF Block, SelectNothing, Rests, agentVars
<1>3. CASE PrepareNothing
  BY <1>3, Continuing DEF PrepareNothing, Rests, agentVars
<1> QED
  BY <1>1, <1>2, <1>3 DEF Resting

\* What the store owns is numbered like everything else.
LEMMA OwnedAreActions == StoreTypes => Owned \subseteq Actions
BY DEF StoreTypes, Owned, Lanes

LEMMA CancellingIs == StoreTypes /\ Cancelling => Cancels
<1> SUFFICES ASSUME StoreTypes, Cancelling PROVE Cancels
  OBVIOUS
<1> USE OwnedAreActions
<1>1. CASE ClearQueue
  BY <1>1 DEF ClearQueue, Cancels, InState, pumpVars
<1>2. CASE RequestAbort
  BY <1>2 DEF RequestAbort, Suspend, Cancels, InState, pumpVars
<1>3. CASE AbortForUpdateRestart
  BY <1>3 DEF AbortForUpdateRestart, Suspend, Cancels, pumpVars
<1>4. CASE ResumeQueuedWork
  BY <1>4 DEF ResumeQueuedWork, Resume, Cancels, pumpVars
<1>5. ASSUME NEW a \in Actions, RemoveTurn(a) PROVE Cancels
  <2>1. Cancel({a}) /\ state[a] \in Clearable \cup {"committing"}
    BY <1>5 DEF RemoveTurn
  <2>2. UNCHANGED <<actions, pc, preselected, batch, run, told, transcript, failures>>
    BY <1>5 DEF RemoveTurn, pumpVars
  <2> QED
    BY <2>1, <2>2 DEF Cancels
<1>6. ASSUME NEW a \in Actions, DeleteQueued(a) PROVE Cancels
  <2>1. Cancel({a}) /\ state[a] \in Clearable
    BY <1>6 DEF DeleteQueued, Resume, InState, Clearable
  <2>2. UNCHANGED <<actions, pc, preselected, batch, run, told, transcript, failures>>
    BY <1>6 DEF DeleteQueued, Resume, pumpVars
  <2> QED
    BY <2>1, <2>2 DEF Cancels
<1> QED
  BY <1>1, <1>2, <1>3, <1>4, <1>5, <1>6 DEF Cancelling

\* The catch clause lets go of everything, whichever way it goes.
LEMMA CatchIs ==
    ASSUME NEW deferred, Catch(deferred)
    PROVE  /\ LetsGo
           /\ \/ /\ Become({a \in Undelivered :
                              state[a] \in {"selected", "preparing", "committing"}}, "queued")
                 /\ UNCHANGED lanes
              \/ LET failed == {a \in batch : state[a] \notin Terminal} IN
                 Become(failed, "failed") /\ Release(failed)
BY Returning, Continuing DEF Catch, CatchDeferred

LEMMA CatchingIs == StoreTypes /\ Catching => Catches
<1> SUFFICES ASSUME StoreTypes, Catching PROVE Catches
  OBVIOUS
<1>1. CASE PrepareDeferred
  BY <1>1, CatchIs DEF PrepareDeferred, Catches, agentVars
<1>2. CASE PrepareFails
  BY <1>2, CatchIs DEF PrepareFails, Catches, agentVars
<1>3. CASE HandoffDeferred
  BY <1>3, CatchIs DEF HandoffDeferred, Catches, agentVars
<1>4. CASE SettleUndelivered
  BY <1>4, CatchIs DEF SettleUndelivered, Settled, AllDelivered, Catches, agentVars
<1>5. CASE SettleFails
  BY <1>5, CatchIs DEF SettleFails, Settled, Catches, agentVars
<1> QED
  BY <1>1, <1>2, <1>3, <1>4, <1>5 DEF Catching

LEMMA AdmitIs ==
    ASSUME NEW action \in Kinds, NEW lane \in Lanes, NEW eligible, NEW lifts,
           Admit(action, lane, eligible, lifts), eligible => ~Paused
    PROVE  Admits
BY DEF Admit, Admits, pumpVars

LEMMA AdmittingIs == Admitting => Admits
<1>1. ASSUME NEW lane \in Lanes, NEW wake \in {"immediate", "later"}, Queue(lane, wake)
      PROVE  Admits
  BY <1>1, AdmitIs DEF Queue, Kinds
<1>2. ASSUME NEW lane \in Lanes, Prompt(lane) PROVE Admits
  BY <1>2, AdmitIs DEF Prompt, Kinds, CanStart
<1>3. ASSUME NEW lane \in Lanes, Command(lane) PROVE Admits
  BY <1>3, AdmitIs DEF Command, Kinds, CanStart
<1> QED
  BY <1>1, <1>2, <1>3 DEF Admitting

-----------------------------------------------------------------------------
(* Types *)

\* A set of numbers has a smallest one: the relation < is well-founded.
LEMMA EarliestIs ==
    ASSUME NEW some, some \subseteq Nat, some # {}
    PROVE  Earliest(some) \in some /\ \A b \in some : Earliest(some) <= b
<1> DEFINE Below == {s \in Nat \X Nat : s[1] < s[2]}
<1>1. OpToRel(<, Nat) = Below
  BY DEF OpToRel
<1>2. IsWellFoundedOn(Below, Nat)
  BY <1>1, NatLessThanWellFounded
<1>3. PICK a \in some : \A b \in some : ~(<<b, a>> \in Below)
  BY <1>2, WFMin
<1>4. ASSUME NEW b \in some PROVE a <= b
  <2>1. <<b, a>> \in Nat \X Nat /\ <<b, a>>[1] = b /\ <<b, a>>[2] = a
    OBVIOUS
  <2>2. ~(b < a)
    BY <1>3, <2>1
  <2> QED
    BY <2>2
<1> QED
  BY <1>4 DEF Earliest

\* The first of some actions is one of them.
LEMMA FirstIs ==
    ASSUME NEW some, some \subseteq Actions, some # {}, StoreTypes
    PROVE  First(some) \in some
<1> some \subseteq Nat
  BY DEF StoreTypes, Actions
<1> DEFINE own == some \cap lanes["nextTurnBoundary"]
<1>1. own # {} => Earliest(own) \in own
  BY EarliestIs
<1>2. Earliest(some) \in some
  BY EarliestIs
<1> QED
  BY <1>1, <1>2 DEF First

\* What is chosen was preselected, or was queued; it is one action or all of it are turns.
LEMMA ChosenIs ==
    ASSUME StoreTypes, NEW chosen \in Chosen, preselected = 0 => InState({"queued"}) # {}
    PROVE  /\ chosen # {} /\ chosen \subseteq Actions
           /\ IF preselected # 0 THEN chosen = {preselected}
              ELSE \A a \in chosen : state[a] = "queued"
           /\ (\A a \in chosen : IsTurn(a)) \/ (\A a \in chosen : ~IsTurn(a))
<1>1. CASE preselected # 0
  BY <1>1 DEF Chosen, StoreTypes
<1>2. CASE preselected = 0
  <2> DEFINE queued == InState({"queued"})
  <2>1. queued \subseteq Actions /\ \A a \in queued : state[a] = "queued"
    BY OwnedAreActions DEF InState
  <2>2. First(queued) \in queued
    BY <1>2, <2>1, FirstIs
  <2>3. CASE chosen = {First(queued)}
    BY <1>2, <2>1, <2>2, <2>3
  <2>4. CASE chosen # {First(queued)}
    <3>1. First(queued) \in chosen /\ chosen \subseteq queued /\ \A a \in chosen : IsTurn(a)
      BY <1>2, <2>4 DEF Chosen
    <3> QED
      BY <1>2, <2>1, <3>1
  <2> QED
    BY <2>3, <2>4
<1> QED
  BY <1>1, <1>2

\* A change of states keeps their types.
LEMMA BecomeTypes ==
    ASSUME StoreTypes, NEW some, NEW s \in States, Become(some, s)
    PROVE  /\ state' \in [Actions -> States]
           /\ \A a \in Actions : state'[a] = IF a \in some THEN s ELSE state[a]
BY DEF StoreTypes, Become

\* What is appended to a sequence is its last element.
LEMMA AppendIs ==
    ASSUME NEW S, NEW q \in Seq(S), NEW x \in S
    PROVE  /\ Append(q, x) \in [1..(Len(q) + 1) -> S]
           /\ Append(q, x)[Len(q) + 1] = x
           /\ \A i \in 1..Len(q) : Append(q, x)[i] = q[i]
<1>1. Append(q, x) \in Seq(S) /\ Len(Append(q, x)) = Len(q) + 1
  OBVIOUS
<1>2. Append(q, x) \in [1..(Len(q) + 1) -> S]
  BY <1>1, LenProperties
<1> QED
  BY <1>2, AppendProperties

\* A cancellation changes no state otherwise.
LEMMA CancelledOnly ==
    StoreTypes /\ Cancelling => \A a \in Actions : state'[a] \in {state[a], "cancelled"}
<1> SUFFICES ASSUME StoreTypes, Cancelling, NEW a \in Actions
             PROVE  state'[a] \in {state[a], "cancelled"}
  OBVIOUS
<1>1. PICK some : Become(some, "cancelled")
  BY CancellingIs DEF Cancels, Cancel
<1> QED
  BY <1>1, BecomeTypes DEF States

\* A new action comes behind all others, and leaves them as they are.
LEMMA AdmitTypes ==
    ASSUME StoreTypes, Admits
    PROVE  /\ StoreTypes'
           /\ Actions \subseteq Actions' /\ Len(actions) + 1 \in Actions'
           /\ \A a \in Actions' : a \in Actions \/ a = Len(actions) + 1
           /\ \A a \in Actions : /\ state'[a] = state[a] /\ transcript'[a] = transcript[a]
                                 /\ IsTurn(a)' = IsTurn(a) /\ a # Len(actions) + 1
                                 /\ a \in Owned' <=> a \in Owned
           /\ Len(actions) + 1 \in Owned'
           /\ state'[Len(actions) + 1] \in {"selected", "queued"}
           /\ transcript'[Len(actions) + 1] = 0
           /\ Paused => state'[Len(actions) + 1] = "queued"
<1> DEFINE n == Len(actions) + 1
<1>1. PICK action \in Kinds, lane \in Lanes, s \in {"selected", "queued"} :
          /\ actions' = Append(actions, action)
          /\ state' = Append(state, s)
          /\ lanes' = [lanes EXCEPT ![lane] = @ \cup {n}]
          /\ s = "selected" => ~Paused
  BY DEF Admits
<1>2. transcript' = Append(transcript, 0)
      /\ UNCHANGED <<preselected, batch, told, captured, failures>>
  BY DEF Admits
<1>3. actions \in Seq(Kinds) /\ n \in Nat /\ Actions = 1..Len(actions) /\ Actions' = 1..n
  BY <1>1 DEF StoreTypes, Actions
<1>4. /\ state \in Seq(States) /\ Len(state) = Len(actions)
      /\ transcript \in Seq(Nat) /\ Len(transcript) = Len(actions)
  <2>1. Len(actions) \in Nat /\ state \in [1..Len(actions) -> States]
        /\ transcript \in [1..Len(actions) -> Nat]
    BY <1>3 DEF StoreTypes
  <2> QED
    BY <2>1
<1>5. /\ state' \in [Actions' -> States] /\ state'[n] = s
      /\ \A a \in Actions : state'[a] = state[a]
  <2>1. s \in States
    BY DEF States
  <2> QED
    BY <1>1, <1>3, <1>4, <2>1, AppendIs
<1>6. /\ transcript' \in [Actions' -> Nat] /\ transcript'[n] = 0
      /\ \A a \in Actions : transcript'[a] = transcript[a]
  <2>1. /\ transcript' \in Seq(Nat) /\ Len(transcript') = n
        /\ transcript'[n] = 0 /\ \A a \in Actions : transcript'[a] = transcript[a]
    BY <1>2, <1>3, <1>4
  <2> QED
    BY <1>3, <2>1, LenProperties
<1>7. /\ actions' \in Seq(Kinds)
      /\ \A a \in Actions : actions'[a] = actions[a]
  BY <1>1, <1>3
<1>8. lanes' \in [Lanes -> SUBSET Actions'] /\ n \in Owned'
      /\ \A a \in Actions : a \in Owned' <=> a \in Owned
  BY <1>1, <1>3 DEF StoreTypes, Owned, Lanes
<1>9. StoreTypes'
  BY <1>2, <1>3, <1>5, <1>6, <1>7, <1>8 DEF StoreTypes
<1> QED
  BY <1>1, <1>3, <1>5, <1>6, <1>7, <1>8, <1>9 DEF IsTurn

\* The types of the store, the transcript and what the pump holds.
LEMMA StoreStep == StoreTypes /\ [Next]_vars => StoreTypes'
<1> SUFFICES ASSUME StoreTypes, [Next]_vars PROVE StoreTypes'
  OBVIOUS
<1> USE DEF StoreTypes
<1>1. CASE Outside \/ Resting \/ UNCHANGED vars
  BY <1>1, OutsideIs, RestingIs DEF Aside, Rests, LetsGo, storeVars, vars, pumpVars, agentVars,
     Actions
<1>2. CASE Cancelling
  <2>1. PICK some \in SUBSET Actions : Cancel(some)
    BY <1>2, CancellingIs DEF Cancels
  <2>2. UNCHANGED <<actions, Actions, preselected, batch, told, transcript, failures>>
    BY <1>2, CancellingIs DEF Cancels, Actions
  <2>3. state' \in [Actions -> States]
    BY <2>1, BecomeTypes DEF Cancel, States
  <2>4. lanes' \in [Lanes -> SUBSET Actions] /\ captured' \subseteq Actions
    BY <2>1 DEF Cancel, Release
  <2> QED
    BY <2>2, <2>3, <2>4
<1>3. CASE Catching
  <2>1. UNCHANGED <<actions, Actions, told, transcript, captured>> /\ LetsGo
        /\ failures' \in {failures, failures + 1}
    BY <1>3, CatchingIs DEF Catches, Actions
  <2>2. state' \in [Actions -> States] /\ lanes' \in [Lanes -> SUBSET Actions]
    BY <1>3, CatchingIs, BecomeTypes DEF Catches, States, Release
  <2> QED
    BY <2>1, <2>2 DEF LetsGo
<1>4. CASE Admitting
  BY <1>4, AdmittingIs, AdmitTypes
<1>5. CASE Woken
  <2> DEFINE selected == InState({"selected"})
  <2>1. UNCHANGED <<actions, Actions, lanes, told, transcript, captured, failures>>
    BY <1>5 DEF Woken, agentVars, Actions
  <2>2. selected \subseteq Actions
    BY OwnedAreActions DEF InState
  <2>3. CASE mine # epoch
    <3>1. state' \in [Actions -> States]
      BY <1>5, <2>3, BecomeTypes DEF Woken, States
    <3>2. preselected' = 0 /\ batch' = {}
      BY <1>5, <2>3 DEF Woken, Return
    <3> QED
      BY <2>1, <3>1, <3>2
  <2>4. CASE mine = epoch
    <3>1. preselected' = (IF selected = {} THEN 0 ELSE First(selected)) /\ UNCHANGED <<state, batch>>
      BY <1>5, <2>4 DEF Woken
    <3>2. preselected' \in Actions \cup {0}
      BY <2>2, <3>1, FirstIs
    <3> QED
      BY <2>1, <3>1, <3>2
  <2> QED
    BY <2>3, <2>4
<1>6. CASE Select
  <2>1. PICK chosen \in Chosen : batch' = chosen
                /\ \/ Become(chosen, "preparing") \/ Become(chosen, "selected") \/ UNCHANGED state
    BY <1>6 DEF Select
  <2>2. chosen \subseteq Actions
    BY <1>6, ChosenIs DEF Select
  <2>3. state' \in [Actions -> States]
    BY <2>1, BecomeTypes DEF States
  <2> QED
    BY <1>6, <2>1, <2>2, <2>3 DEF Select, agentVars, Actions
<1>7. CASE Prepare
  BY <1>7 DEF Prepare, Preparing, storeVars, agentVars, Actions
<1>8. CASE Dispatch
  BY <1>8, BecomeTypes DEF Dispatch, States, Actions
<1>9. CASE Settle
  BY <1>9, Continuing, BecomeTypes DEF Settle, agentVars, LetsGo, Release, States, Actions
<1>10. CASE CommandGivenUp
  BY <1>10, Returning, BecomeTypes DEF CommandGivenUp, agentVars, LetsGo, States, Actions
<1>11. CASE CommandRuns
  BY <1>11, BecomeTypes DEF CommandRuns, agentVars, States, Actions
<1>12. CASE CommandEnds
  <2>1. state' \in [Actions -> States] /\ failures' \in Nat
    BY <1>12, BecomeTypes DEF CommandEnds, States
  <2> QED
    BY <1>12, <2>1, Returning DEF CommandEnds, agentVars, LetsGo, Release, Actions
<1>13. CASE Deliver
  <2>1. Earliest(Untold) \in batch
    <3>1. Untold \subseteq Nat /\ Untold # {}
      <4>1. Actions = 1..Len(actions) /\ Len(actions) \in Nat
        BY DEF Actions
      <4> QED
        BY <1>13, <4>1 DEF Deliver, Untold
    <3> QED
      BY <3>1, EarliestIs DEF Untold
  <2>2. state' \in [Actions -> States]
    BY <1>13, BecomeTypes DEF Deliver, States
  <2>3. /\ told' = told \cup {Earliest(Untold)}
        /\ transcript' = [transcript EXCEPT ![Earliest(Untold)] = @ + 1]
        /\ UNCHANGED <<actions, Actions, lanes, batch, preselected, captured, failures>>
    BY <1>13 DEF Deliver, pumpVars, Actions
  <2>4. transcript' \in [Actions -> Nat] /\ told' \subseteq Actions
    BY <2>1, <2>3
  <2> QED
    BY <2>2, <2>3, <2>4
<1>14. CASE RunEnds
  BY <1>14 DEF RunEnds, Forget, Release, pumpVars, Actions
<1>15. CASE RunEndsRetryable
  BY <1>15 DEF RunEndsRetryable, storeVars, pumpVars, Actions
<1> QED
  BY <1>1, <1>2, <1>3, <1>4, <1>5, <1>6, <1>7, <1>8, <1>9, <1>10, <1>11, <1>12, <1>13, <1>14,
     <1>15, StepKinds DEF Working

\* The places of the pump, the agent's run, the retry and the two pauses.
LEMMA PlaceStep == PlaceTypes /\ StoreTypes /\ [Next]_vars => PlaceTypes'
<1> SUFFICES ASSUME PlaceTypes, StoreTypes, [Next]_vars PROVE PlaceTypes'
  OBVIOUS
<1> USE DEF PlaceTypes
<1>1. CASE Outside
  BY <1>1 DEF Outside, PromptHandled, NavigateTree, NavigateIdle, NavigateDone, PrepareRestart,
       Checkpoint, CancelRestart, RetryDue, RetryContinues, RetryThrows,
       AbortRetry, AbortedRetry, ContinueRun, BusyStarts, BusyEnds, pumpVars, wakeVars, agentVars, gateVars
<1>2. CASE Cancelling
  <2>1. UNCHANGED <<pc, run>>
    BY <1>2, CancellingIs DEF Cancels
  <2>2. CASE ClearQueue \/ ResumeQueuedWork
    BY <2>1, <2>2 DEF ClearQueue, ResumeQueuedWork, Resume
  <2>3. CASE RequestAbort \/ AbortForUpdateRestart
    BY <2>1, <2>3 DEF RequestAbort, AbortForUpdateRestart, Suspend, AbortedRetry
  <2>4. ASSUME NEW a \in Actions, RemoveTurn(a) \/ DeleteQueued(a) PROVE UNCHANGED <<retry, nav, restart>>
    BY <2>4 DEF RemoveTurn, DeleteQueued, Resume
  <2> QED
    BY <1>2, <2>1, <2>2, <2>3, <2>4 DEF Cancelling
<1>3. CASE Resting \/ Catching \/ Admitting
  BY <1>3, RestingIs, CatchingIs, AdmittingIs DEF Rests, Catches, Admits, LetsGo, gateVars
<1>4. CASE Woken
  BY <1>4 DEF Woken, Return, gateVars, agentVars
<1>5. CASE Settle \/ CommandGivenUp \/ CommandEnds
  BY <1>5, Continuing, Returning DEF Settle, CommandGivenUp, CommandEnds, LetsGo, gateVars, agentVars
<1>6. CASE Select \/ Prepare \/ Dispatch \/ CommandRuns
  BY <1>6 DEF Select, Prepare, Dispatch, CommandRuns, gateVars, agentVars
<1>7. CASE Deliver \/ RunEnds \/ RunEndsRetryable
  BY <1>7 DEF Deliver, RunEnds, RunEndsRetryable, gateVars, pumpVars
<1>8. CASE UNCHANGED vars
  BY <1>8 DEF vars, gateVars, pumpVars, agentVars
<1> QED
  BY <1>1, <1>2, <1>3, <1>4, <1>5, <1>6, <1>7, <1>8, StepKinds DEF Working

\* While the leaf is moved no run of the pump and no command is on its way: both begin only
\* when nothing pauses the scheduler, and the leaf is moved only when both have ended.
LEMMA NavigationStep == NavigationAlone /\ StoreTypes /\ [Next]_vars => NavigationAlone'
<1> SUFFICES ASSUME NavigationAlone, StoreTypes, [Next]_vars PROVE NavigationAlone'
  OBVIOUS
<1> USE DEF NavigationAlone
<1>1. CASE Outside
  <2>1. UNCHANGED pc /\ (run' = "pump" => run = "pump")
    BY <1>1, OutsideIs DEF Aside
  <2>2. CASE NavigateIdle
    BY <2>1, <2>2 DEF NavigateIdle
  <2>3. CASE NavigateTree \/ NavigateDone
    BY <2>3 DEF NavigateTree, NavigateDone
  <2>4. CASE ~(NavigateIdle \/ NavigateTree \/ NavigateDone)
    <3>1. UNCHANGED nav
      BY <1>1, <2>4 DEF Outside, PromptHandled, PrepareRestart, Checkpoint, CancelRestart, RetryDue,
           RetryContinues, RetryThrows, AbortRetry, AbortedRetry, ContinueRun, BusyStarts, BusyEnds, gateVars
    <3> QED
      BY <2>1, <3>1
  <2> QED
    BY <2>2, <2>3, <2>4
<1>2. CASE Cancelling
  <2>1. UNCHANGED <<pc, run>>
    BY <1>2, CancellingIs DEF Cancels
  <2>2. CASE ClearQueue \/ ResumeQueuedWork \/ RequestAbort \/ AbortForUpdateRestart
    BY <2>1, <2>2 DEF ClearQueue, ResumeQueuedWork, Resume, RequestAbort, AbortForUpdateRestart,
         Suspend
  <2>3. ASSUME NEW a \in Actions, RemoveTurn(a) \/ DeleteQueued(a) PROVE UNCHANGED nav
    BY <2>3 DEF RemoveTurn, DeleteQueued, Resume
  <2> QED
    BY <1>2, <2>1, <2>2, <2>3 DEF Cancelling
<1>3. CASE Resting \/ Catching \/ Admitting
  BY <1>3, RestingIs, CatchingIs, AdmittingIs DEF Rests, Catches, Admits, LetsGo, gateVars
<1>4. CASE Woken
  BY <1>4 DEF Woken, Return, gateVars, agentVars
<1>5. CASE Settle \/ CommandGivenUp \/ CommandEnds
  BY <1>5, Continuing, Returning DEF Settle, CommandGivenUp, CommandEnds, LetsGo, gateVars, agentVars
<1>6. CASE Select \/ Prepare
  BY <1>6 DEF Select, Prepare, gateVars, agentVars
<1>7. CASE Dispatch \/ CommandRuns
  <2>1. nav = "none" /\ UNCHANGED nav
    BY <1>7 DEF Dispatch, CommandRuns, NotHandedOff, Blocked, Deferred, PumpBusy, Held, Paused,
         gateVars
  <2> QED
    BY <2>1
<1>8. CASE Deliver \/ RunEnds \/ RunEndsRetryable
  BY <1>8 DEF Deliver, RunEnds, RunEndsRetryable, gateVars, pumpVars
<1>9. CASE UNCHANGED vars
  BY <1>9 DEF vars, gateVars, pumpVars, agentVars
<1> QED
  BY <1>1, <1>2, <1>3, <1>4, <1>5, <1>6, <1>7, <1>8, <1>9, StepKinds DEF Working

-----------------------------------------------------------------------------
(* What the store owns *)

\* What ends is released and nothing else is: the store owns what is not finished.
LEMMA OwnMoves ==
    ASSUME StoreTypes, OwnInv, NEW some \in SUBSET Actions, UNCHANGED <<actions, captured>>,
           \A lane \in Lanes : lanes'[lane] = lanes[lane] \ some,
           \A a \in some : state[a] \notin Terminal /\ state'[a] \in Terminal,
           \A a \in Actions \ some :
              state'[a] = state[a] \/ (state[a] \notin Terminal /\ state'[a] \notin Terminal)
    PROVE  OwnInv'
<1>1. Actions' = Actions
  BY DEF Actions
<1>2. \A a \in captured : state[a] = "cancelled" /\ a \in Actions /\ state[a] \in Terminal
  BY DEF OwnInv, StoreTypes, Terminal
<1>3. \A a \in captured : state'[a] = "cancelled"
  BY <1>2
<1>4. Owned' = Owned \ some
  BY DEF Owned, Lanes
<1>5. ASSUME NEW a \in Actions
      PROVE  a \in Owned' <=> (state'[a] \notin Terminal \/ a \in captured')
  <2>1. a \in Owned <=> (state[a] \notin Terminal \/ a \in captured)
    BY DEF OwnInv
  <2>2. CASE a \in some
    BY <1>2, <1>4, <2>1, <2>2
  <2>3. CASE a \notin some
    BY <1>4, <2>1, <2>3
  <2> QED
    BY <2>2, <2>3
<1> QED
  BY <1>1, <1>3, <1>5 DEF OwnInv

\* States change and nothing ends.
LEMMA OwnStays ==
    ASSUME StoreTypes, OwnInv, UNCHANGED <<actions, captured, lanes>>,
           \A a \in Actions :
              state'[a] = state[a] \/ (state[a] \notin Terminal /\ state'[a] \notin Terminal)
    PROVE  OwnInv'
<1>1. PICK none \in SUBSET Actions : none = {}
  OBVIOUS
<1>2. \A lane \in Lanes : lanes'[lane] = lanes[lane] \ none
  BY <1>1
<1> QED
  BY <1>1, <1>2, OwnMoves

LEMMA OwnStep == Good /\ [Next]_vars => OwnInv'
<1> SUFFICES ASSUME Good, [Next]_vars PROVE OwnInv'
  OBVIOUS
<1> USE DEF Good
<1>1. CASE Outside \/ Resting \/ Prepare \/ RunEndsRetryable \/ UNCHANGED vars
  <2>1. UNCHANGED <<actions, captured, lanes, state>>
    BY <1>1, OutsideIs, RestingIs DEF Aside, Rests, Prepare, RunEndsRetryable, storeVars, agentVars,
       vars
  <2> QED
    BY <2>1, OwnStays
<1>2. CASE Cancelling
  <2>1. PICK some \in SUBSET {a \in Actions : state[a] \in Clearable \cup {"committing"}} :
           Cancel(some)
    BY <1>2, CancellingIs DEF Cancels
  <2>2. actions' = actions /\ Actions' = Actions
    BY <1>2, CancellingIs DEF Cancels, Actions
  <2> DEFINE sent == {a \in some : state[a] = "committing"}
  <2>3. /\ \A a \in Actions : state'[a] = IF a \in some THEN "cancelled" ELSE state[a]
        /\ captured' = captured \cup sent
        /\ Owned' = Owned \ (some \ sent)
    BY <2>1, BecomeTypes DEF Cancel, Release, Owned, Lanes, States
  <2>4. \A a \in some : state[a] \notin Terminal
    BY <2>1 DEF Clearable, Terminal
  <2>5. \A a \in captured' : state'[a] = "cancelled"
    BY <2>3, <2>4 DEF OwnInv, StoreTypes
  <2>6. ASSUME NEW a \in Actions
        PROVE  a \in Owned' <=> (state'[a] \notin Terminal \/ a \in captured')
    <3>1. a \in Owned <=> (state[a] \notin Terminal \/ a \in captured)
      BY DEF OwnInv
    <3>2. a \in captured => state[a] \in Terminal
      BY DEF OwnInv, Terminal
    <3> QED
      BY <2>3, <2>4, <3>1, <3>2 DEF Terminal
  <2> QED
    BY <2>2, <2>5, <2>6 DEF OwnInv
<1>3. CASE Catching
  <2>1. UNCHANGED <<actions, captured>>
    BY <1>3, CatchingIs DEF Catches
  <2>2. CASE /\ Become({a \in Undelivered : state[a] \in {"selected", "preparing", "committing"}}, "queued")
             /\ UNCHANGED lanes
    <3>1. \A a \in Actions :
             state'[a] = state[a] \/ (state[a] \notin Terminal /\ state'[a] \notin Terminal)
      BY <2>2, BecomeTypes DEF States, Terminal
    <3> QED
      BY <2>1, <2>2, <3>1, OwnStays
  <2>3. CASE LET failed == {a \in batch : state[a] \notin Terminal} IN
             Become(failed, "failed") /\ Release(failed)
    <3> DEFINE failed == {a \in batch : state[a] \notin Terminal}
    <3>1. failed \in SUBSET Actions
      BY DEF StoreTypes
    <3>2. \A a \in Actions : state'[a] = IF a \in failed THEN "failed" ELSE state[a]
      BY <2>3, BecomeTypes DEF States
    <3>3. \A lane \in Lanes : lanes'[lane] = lanes[lane] \ failed
      BY <2>3 DEF Release
    <3>4. \A a \in failed : state[a] \notin Terminal /\ state'[a] \in Terminal
      BY <3>1, <3>2 DEF Terminal
    <3> QED
      BY <2>1, <3>1, <3>2, <3>3, <3>4, OwnMoves
  <2> QED
    BY <1>3, <2>2, <2>3, CatchingIs DEF Catches
<1>4. CASE Admitting
  <2>1. /\ \A a \in Actions' : a \in Actions \/ a = Len(actions) + 1
        /\ \A a \in Actions : state'[a] = state[a] /\ (a \in Owned' <=> a \in Owned)
        /\ Len(actions) + 1 \in Owned' /\ state'[Len(actions) + 1] \notin Terminal
        /\ captured' = captured
    BY <1>4, AdmittingIs, AdmitTypes DEF Admits, Terminal
  <2> QED
    BY <2>1 DEF OwnInv, StoreTypes
<1>5. CASE Woken
  <2>1. UNCHANGED <<actions, captured, lanes>>
    BY <1>5 DEF Woken, agentVars
  <2> DEFINE selected == InState({"selected"})
  <2>2. CASE mine # epoch /\ selected # {}
    <3>1. First(selected) \in selected /\ selected \subseteq Actions
      BY <2>2, FirstIs, OwnedAreActions DEF InState
    <3>2. Become({First(selected)}, "queued") /\ state[First(selected)] = "selected"
      BY <1>5, <2>2, <3>1 DEF Woken, InState
    <3>3. \A a \in Actions :
             state'[a] = state[a] \/ (state[a] \notin Terminal /\ state'[a] \notin Terminal)
      BY <3>1, <3>2, BecomeTypes DEF States, Terminal
    <3> QED
      BY <2>1, <3>3, OwnStays
  <2>3. CASE ~(mine # epoch /\ selected # {})
    <3>1. \A a \in Actions : state'[a] = state[a]
      BY <1>5, <2>3, BecomeTypes DEF Woken, States
    <3> QED
      BY <2>1, <3>1, OwnStays
  <2> QED
    BY <2>2, <2>3
<1>6. CASE Select
  <2>1. UNCHANGED <<actions, captured, lanes>>
    BY <1>6 DEF Select, agentVars
  <2>2. PICK chosen \in Chosen :
           \/ (\A a \in chosen : state[a] # "cancelled") /\ Become(chosen, "preparing")
           \/ UNCHANGED state
           \/ preselected = 0 /\ Become(chosen, "selected")
    BY <1>6 DEF Select
  <2>3. /\ chosen \subseteq Actions
        /\ \A a \in chosen : state[a] \in {"queued", "selected", "cancelled"}
        /\ preselected = 0 => \A a \in chosen : state[a] = "queued"
    BY <1>6, ChosenIs DEF Select, BatchInv
  <2>4. \A a \in Actions :
           state'[a] = state[a] \/ (state[a] \notin Terminal /\ state'[a] \notin Terminal)
    BY <2>2, <2>3, BecomeTypes DEF States, Terminal
  <2> QED
    BY <2>1, <2>4, OwnStays
<1>7. CASE Dispatch \/ CommandGivenUp \/ CommandRuns \/ Deliver
  <2>1. UNCHANGED <<actions, captured, lanes>>
    BY <1>7 DEF Dispatch, CommandGivenUp, CommandRuns, Deliver, agentVars
  <2>2. ASSUME NEW some, NEW s \in {"queued", "running", "committing"}, Become(some, s),
               \A a \in some : state[a] \in {"preparing", "selected", "committing"}
        PROVE  \A a \in Actions :
                  state'[a] = state[a] \/ (state[a] \notin Terminal /\ state'[a] \notin Terminal)
    BY <2>2, BecomeTypes DEF States, Terminal
  <2>3. \A a \in Actions :
           state'[a] = state[a] \/ (state[a] \notin Terminal /\ state'[a] \notin Terminal)
    <3>1. CASE Dispatch
      BY <2>2, <3>1 DEF Dispatch, NotHandedOff
    <3>2. CASE CommandGivenUp
      BY <2>2, <3>2 DEF CommandGivenUp
    <3>3. CASE CommandRuns
      BY <2>2, <3>3 DEF CommandRuns
    <3>4. CASE Deliver
      BY <2>2, <3>4 DEF Deliver
    <3> QED
      BY <1>7, <3>1, <3>2, <3>3, <3>4
  <2> QED
    BY <2>1, <2>3, OwnStays
<1>8. CASE Settle
  <2> DEFINE done == {a \in batch : state[a] \in {"committing", "running"}}
  <2>1. UNCHANGED <<actions, captured>> /\ Become(done, "completed") /\ Release(done)
    BY <1>8 DEF Settle, agentVars
  <2>2. done \in SUBSET Actions
    BY DEF StoreTypes
  <2>3. \A a \in Actions : state'[a] = IF a \in done THEN "completed" ELSE state[a]
    BY <2>1, BecomeTypes DEF States
  <2>4. \A lane \in Lanes : lanes'[lane] = lanes[lane] \ done
    BY <2>1 DEF Release
  <2>5. \A a \in done : state[a] \notin Terminal /\ state'[a] \in Terminal
    BY <2>2, <2>3 DEF Terminal
  <2> QED
    BY <2>1, <2>2, <2>3, <2>4, <2>5, OwnMoves
<1>9. CASE CommandEnds
  <2>1. UNCHANGED <<actions, captured>> /\ Release(batch) /\ batch \in SUBSET Actions
    BY <1>9 DEF CommandEnds, agentVars, StoreTypes
  <2>2. PICK s \in {"completed", "failed"} : Become(batch, s)
    BY <1>9 DEF CommandEnds
  <2>3. \A a \in Actions : state'[a] = IF a \in batch THEN s ELSE state[a]
    BY <2>2, BecomeTypes DEF States
  <2>4. \A lane \in Lanes : lanes'[lane] = lanes[lane] \ batch
    BY <2>1 DEF Release
  <2>5. \A a \in batch : state[a] \notin Terminal /\ state'[a] \in Terminal
    BY <1>9, <2>1, <2>3 DEF CommandEnds, BatchInv, Terminal
  <2> QED
    BY <2>1, <2>3, <2>4, <2>5, OwnMoves
<1>10. CASE RunEnds
  <2>1. UNCHANGED <<actions, Actions, state>> /\ captured' = {} /\ Owned' = Owned \ captured
    BY <1>10 DEF RunEnds, Release, Owned, Lanes, Actions
  <2>2. \A a \in captured : state[a] \in Terminal
    BY DEF OwnInv, Terminal
  <2> QED
    BY <2>1, <2>2 DEF OwnInv
<1> QED
  BY <1>1, <1>2, <1>3, <1>4, <1>5, <1>6, <1>7, <1>8, <1>9, <1>10, StepKinds DEF Working

-----------------------------------------------------------------------------
(* What the pump holds *)

\* A pump that lets go holds nothing.
LEMMA LettingGo == LetsGo /\ run' # "pump" => BatchInv'
BY DEF LetsGo, BatchInv

LEMMA BatchStep == Good /\ [Next]_vars => BatchInv'
<1> SUFFICES ASSUME Good, [Next]_vars PROVE BatchInv'
  OBVIOUS
<1> USE DEF Good
<1>1. CASE Outside
  <2>1. /\ UNCHANGED <<actions, state, pc, preselected, batch, told, transcript, captured, failures>>
        /\ run' = run \/ (run = "none" /\ run' = "other")
    BY <1>1, OutsideIs DEF Aside, storeVars
  <2> QED
    BY <2>1 DEF BatchInv, IsTurn
<1>2. CASE Cancelling
  <2>1. PICK some \in SUBSET {a \in Actions : state[a] \in Clearable \cup {"committing"}} :
           Cancel(some)
    BY <1>2, CancellingIs DEF Cancels
  <2>2. UNCHANGED <<actions, pc, preselected, batch, run, told, transcript, failures>>
    BY <1>2, CancellingIs DEF Cancels
  <2>3. /\ \A a \in Actions : state'[a] = IF a \in some THEN "cancelled" ELSE state[a]
        /\ captured' = captured \cup {a \in some : state[a] = "committing"}
    BY <2>1, BecomeTypes DEF Cancel, States
  <2>4. \A a \in some : state[a] \in Clearable \cup {"committing"}
    BY <2>1
  <2>5. batch \subseteq Actions /\ preselected \in Actions \cup {0}
    BY DEF StoreTypes
  <2>6. \A a \in batch : IsTurn(a)' = IsTurn(a)
    BY <2>2 DEF IsTurn
  <2>7. CASE pc = "dispatched"
    <3>1. ASSUME NEW a \in batch, a \in some PROVE state[a] = "committing" /\ a \in captured'
      BY <2>3, <2>4, <2>7, <3>1 DEF BatchInv, Clearable
    <3> QED
      BY <2>2, <2>3, <2>5, <2>6, <2>7, <3>1 DEF BatchInv
  <2>8. CASE pc = "executing"
    <3>1. \A a \in batch : a \notin some
      BY <2>4, <2>8 DEF BatchInv, Clearable
    <3> QED
      BY <2>2, <2>3, <2>5, <2>6, <2>8, <3>1 DEF BatchInv
  <2>9. CASE pc \notin {"dispatched", "executing"}
    BY <2>2, <2>3, <2>5, <2>6, <2>9 DEF BatchInv
  <2> QED
    BY <2>7, <2>8, <2>9
<1>3. CASE Resting
  <2>1. LetsGo /\ run' = run /\ pc \in {"idle", "selecting", "preparing"}
    BY <1>3, RestingIs DEF Rests
  <2> QED
    BY <2>1, LettingGo DEF BatchInv
<1>4. CASE Catching
  <2>1. LetsGo /\ run' = run /\ (pc \in {"preparing", "fence"} \/ run # "pump")
    BY <1>4, CatchingIs DEF Catches
  <2> QED
    BY <2>1, LettingGo DEF BatchInv
<1>5. CASE Admitting
  <2>1. /\ UNCHANGED <<pc, preselected, batch, run, told, captured, failures>>
        /\ \A a \in Actions : /\ state'[a] = state[a] /\ transcript'[a] = transcript[a]
                              /\ IsTurn(a)' = IsTurn(a)
        /\ batch \subseteq Actions /\ preselected \in Actions \cup {0}
    BY <1>5, AdmittingIs, AdmitTypes DEF Admits, StoreTypes
  <2> QED
    BY <2>1 DEF BatchInv
<1>6. CASE Woken
  <2>1. run' = "none" /\ pc = "waiting"
    BY <1>6 DEF Woken, agentVars
  <2>2. CASE mine # epoch
    BY <1>6, <2>1, <2>2, Returning, LettingGo DEF Woken
  <2>3. CASE mine = epoch
    <3> DEFINE selected == InState({"selected"})
    <3>1. /\ preselected' = (IF selected = {} THEN 0 ELSE First(selected)) /\ pc' = "selecting"
          /\ UNCHANGED <<state, batch>>
      BY <1>6, <2>3 DEF Woken
    <3>2. selected # {} => state[First(selected)] = "selected"
      BY FirstIs, OwnedAreActions DEF InState
    <3> HIDE DEF selected
    <3> QED
      BY <2>1, <3>1, <3>2 DEF BatchInv
  <2> QED
    BY <2>2, <2>3
<1>7. CASE Select
  <2>1. /\ run' # "pump" /\ UNCHANGED <<actions, preselected>> /\ pc = "selecting"
        /\ pc' \in {"preparing", "command"}
    BY <1>7 DEF Select, Blocked, agentVars
  <2>2. PICK chosen \in Chosen :
           /\ batch' = chosen
           /\ IF \A a \in chosen : IsTurn(a)
              THEN pc' = "preparing" /\ Become(chosen, "preparing")
              ELSE /\ pc' = "command"
                   /\ IF preselected # 0 THEN UNCHANGED state ELSE Become(chosen, "selected")
    BY <1>7 DEF Select
  <2>3. /\ chosen \subseteq Actions
        /\ preselected # 0 => \A a \in chosen : state[a] \in {"selected", "cancelled"}
        /\ (\A a \in chosen : IsTurn(a)) \/ (\A a \in chosen : ~IsTurn(a))
    BY <1>7, <2>1, ChosenIs DEF Select, BatchInv
  <2>4. \A a \in Actions : IsTurn(a)' = IsTurn(a)
    BY <2>1 DEF IsTurn
  <2>5. CASE \A a \in chosen : IsTurn(a)
    <3>1. pc' = "preparing" /\ \A a \in chosen : state'[a] = "preparing"
      BY <2>2, <2>3, <2>5, BecomeTypes DEF States
    <3> QED
      BY <2>1, <2>2, <2>3, <2>4, <2>5, <3>1 DEF BatchInv
  <2>6. CASE ~(\A a \in chosen : IsTurn(a))
    <3>1. pc' = "command" /\ \A a \in chosen : state'[a] \in {"selected", "cancelled"}
      BY <2>2, <2>3, <2>6, BecomeTypes DEF States
    <3>2. \A a \in chosen : ~IsTurn(a)
      BY <2>3, <2>6
    <3> QED
      BY <2>1, <2>2, <2>3, <2>4, <3>1, <3>2 DEF BatchInv
  <2> QED
    BY <2>5, <2>6
<1>8. CASE Prepare
  <2>1. /\ pc = "preparing" /\ pc' = "fence" /\ batch' \subseteq batch
        /\ UNCHANGED <<actions, state, run>>
    BY <1>8 DEF Prepare, Preparing, storeVars, agentVars
  <2> QED
    BY <2>1 DEF BatchInv, IsTurn
<1>9. CASE Dispatch
  <2>1. /\ pc = "fence" /\ pc' = "dispatched" /\ run' = "pump" /\ told' = {}
        /\ UNCHANGED <<actions, transcript, batch>> /\ Become(batch, "committing")
        /\ \A a \in batch : state[a] = "preparing"
    BY <1>9 DEF Dispatch, NotHandedOff
  <2>2. \A a \in batch : state'[a] = "committing" /\ transcript[a] = 0 /\ IsTurn(a)
    BY <2>1, BecomeTypes DEF StoreTypes, States, MessageInv, BatchInv
  <2> QED
    BY <2>1, <2>2 DEF BatchInv, IsTurn
<1>10. CASE Settle
  BY <1>10, Continuing, LettingGo DEF Settle, Settled, agentVars
<1>11. CASE CommandGivenUp \/ CommandEnds
  BY <1>11, Returning, LettingGo DEF CommandGivenUp, CommandEnds, agentVars, BatchInv
<1>12. CASE CommandRuns
  <2>1. /\ pc = "command" /\ pc' = "executing" /\ run' # "pump" /\ UNCHANGED <<actions, batch>>
        /\ Become(batch, "running")
    BY <1>12 DEF CommandRuns, Blocked, agentVars
  <2>2. \A a \in batch : state'[a] = "running" /\ ~IsTurn(a)
    BY <2>1, BecomeTypes DEF StoreTypes, States, BatchInv
  <2> QED
    BY <2>1, <2>2 DEF BatchInv, IsTurn
<1>13. CASE Deliver
  <2> DEFINE a == Earliest(Untold)
  <2>1. a \in batch /\ a \notin told /\ pc = "dispatched"
    <3>1. Untold # {} /\ run = "pump"
      BY <1>13 DEF Deliver
    <3>2. Untold \subseteq Nat
      BY DEF Untold, StoreTypes, Actions
    <3> QED
      BY <3>1, <3>2, EarliestIs DEF Untold, BatchInv
  <2>2. /\ told' = told \cup {a} /\ transcript' = [transcript EXCEPT ![a] = @ + 1]
        /\ UNCHANGED <<actions, pc, batch, run, captured, failures>> /\ run = "pump"
    BY <1>13 DEF Deliver, pumpVars
  <2>3. \A b \in Actions :
           state'[b] = IF b = a /\ state[b] = "committing" THEN "running" ELSE state[b]
    BY <1>13, BecomeTypes DEF Deliver, States
  <2> HIDE DEF a
  <2>4. \A b \in batch : b \in Actions /\ (b # a => transcript'[b] = transcript[b])
    BY <2>2 DEF StoreTypes
  <2> QED
    BY <2>1, <2>2, <2>3, <2>4 DEF BatchInv, IsTurn
<1>14. CASE RunEnds
  <2>1. /\ run' = "none" /\ UNCHANGED <<actions, state, pc, preselected, batch, told>>
        /\ \A a \in Actions : transcript[a] = 0 => transcript'[a] = 0
    BY <1>14 DEF RunEnds, Forget, pumpVars
  <2>2. /\ failures' \in Nat /\ (failures > 0 => failures' > 0)
        /\ run = "pump" /\ Untold # {} => failures' > 0
    BY <1>14 DEF RunEnds, StoreTypes
  <2>3. ASSUME NEW a \in batch, a \notin told, pc = "dispatched" PROVE failures' > 0
    BY <2>2, <2>3 DEF BatchInv, Untold
  <2> QED
    BY <2>1, <2>3 DEF BatchInv, IsTurn, StoreTypes
<1>15. CASE RunEndsRetryable
  <2>1. /\ run' = "none" /\ UNCHANGED <<actions, state, pc, preselected, batch, told, transcript,
                                        failures>>
        /\ run = "pump" => \A a \in batch : a \in told
    BY <1>15 DEF RunEndsRetryable, Untold, storeVars, pumpVars
  <2> QED
    BY <2>1 DEF BatchInv, IsTurn
<1>16. CASE UNCHANGED vars
  BY <1>16 DEF BatchInv, IsTurn, vars, storeVars, pumpVars, agentVars
<1> QED
  BY <1>1, <1>2, <1>3, <1>4, <1>5, <1>6, <1>7, <1>8, <1>9, <1>10, <1>11, <1>12, <1>13, <1>14,
     <1>15, <1>16, StepKinds DEF Working

-----------------------------------------------------------------------------
(* What is half way, and the messages *)

\* The earliest message the run has not told is one of the batch.
LEMMA DeliverIs ==
    ASSUME Good, Deliver
    PROVE  LET a == Earliest(Untold) IN
           /\ a \in batch \ told /\ pc = "dispatched" /\ run = "pump"
           /\ transcript[a] = 0 /\ transcript'[a] = 1 /\ IsTurn(a)
           /\ state[a] \in {"committing", "cancelled"}
           /\ state[a] = "cancelled" => a \in captured
           /\ \A b \in Actions \ {a} : transcript'[b] = transcript[b]
           /\ \A b \in Actions : state'[b] =
                 IF b = a /\ state[b] = "committing" THEN "running" ELSE state[b]
           /\ UNCHANGED <<actions, pc, batch, run, captured, failures>>
<1> USE DEF Good
<1> DEFINE a == Earliest(Untold)
<1>1. a \in batch /\ a \notin told /\ a \in Actions
  <2>1. Untold # {}
    BY DEF Deliver
  <2>2. Untold \subseteq Nat
    BY DEF Untold, StoreTypes, Actions
  <2> QED
    BY <2>1, <2>2, EarliestIs DEF Untold, StoreTypes
<1>2. /\ transcript' = [transcript EXCEPT ![a] = @ + 1] /\ run = "pump"
      /\ UNCHANGED <<actions, pc, batch, run, captured, failures>>
  BY DEF Deliver, pumpVars
<1>3. \A b \in Actions :
         state'[b] = IF b = a /\ state[b] = "committing" THEN "running" ELSE state[b]
  BY BecomeTypes DEF Deliver, States
<1> HIDE DEF a
<1>4. /\ pc = "dispatched" /\ IsTurn(a) /\ state[a] \in {"committing", "cancelled"}
      /\ state[a] = "cancelled" => a \in captured
      /\ transcript[a] = 0
  BY <1>1, <1>2 DEF BatchInv
<1>5. transcript'[a] = 1 /\ \A b \in Actions \ {a} : transcript'[b] = transcript[b]
  BY <1>1, <1>2, <1>4 DEF StoreTypes
<1> QED
  BY <1>1, <1>2, <1>3, <1>4, <1>5 DEF a

LEMMA HalfStep == Good /\ [Next]_vars => HalfInv'
<1> SUFFICES ASSUME Good, [Next]_vars PROVE HalfInv'
  OBVIOUS
<1> USE DEF Good
<1>1. CASE Outside \/ UNCHANGED vars
  <2>1. UNCHANGED <<actions, state, pc, batch, transcript, failures>>
    BY <1>1, OutsideIs DEF Aside, storeVars, vars, pumpVars, agentVars
  <2> QED
    BY <2>1 DEF HalfInv, Actions
<1>2. CASE Cancelling
  <2>1. UNCHANGED <<actions, pc, batch, transcript, failures>>
    BY <1>2, CancellingIs DEF Cancels
  <2>2. \A a \in Actions : state'[a] \in {state[a], "cancelled"}
    BY <1>2, CancelledOnly
  <2> QED
    BY <2>1, <2>2 DEF HalfInv, Actions
<1>3. CASE Resting
  <2>1. /\ UNCHANGED <<actions, state, transcript, failures>>
        /\ pc \in {"idle", "selecting", "preparing"} /\ (pc = "preparing" => Preparing = {})
    BY <1>3, RestingIs DEF Rests, storeVars
  <2>2. \A a \in Actions : state[a] # "preparing"
    BY <2>1 DEF HalfInv, Preparing
  <2> QED
    BY <2>1, <2>2 DEF HalfInv, Actions
<1>4. CASE Catching
  <2>1. /\ UNCHANGED <<actions, transcript>> /\ failures' \in {failures, failures + 1}
        /\ pc \in {"preparing", "fence"} \/ (pc = "dispatched" /\ run # "pump")
        /\ pc = "dispatched" => failures' = failures + 1 \/ Undelivered # {}
    BY <1>4, CatchingIs DEF Catches
  <2>2. \/ \A a \in Actions : state'[a] =
              IF a \in Undelivered /\ state[a] \in {"selected", "preparing", "committing"}
              THEN "queued" ELSE state[a]
        \/ \A a \in Actions : state'[a] =
              IF a \in batch /\ state[a] \notin Terminal THEN "failed" ELSE state[a]
    BY <1>4, CatchingIs, BecomeTypes DEF Catches, States
  <2>3. pc = "dispatched" /\ Undelivered # {} => failures > 0
    <3>1. SUFFICES ASSUME pc = "dispatched", NEW u \in Undelivered PROVE failures > 0
      OBVIOUS
    <3>2. u \in batch /\ state[u] # "cancelled" /\ transcript[u] = 0 /\ u \in Actions
      BY DEF Undelivered, StoreTypes
    <3>3. state[u] = "committing"
      BY <3>1, <3>2 DEF BatchInv, MessageInv
    <3> QED
      BY <2>1, <3>1, <3>2, <3>3 DEF BatchInv
  <2>4. ASSUME NEW a \in Actions, state[a] \in {"preparing", "committing"}
        PROVE  state'[a] \in {"queued", "failed"}
    <3>1. a \in batch /\ transcript[a] = 0
      BY <2>4 DEF HalfInv, MessageInv
    <3> QED
      BY <2>2, <2>4, <3>1 DEF Undelivered, Terminal
  <2>5. ASSUME NEW a \in Actions, state[a] = "running", state'[a] = "running"
        PROVE  failures' > 0 /\ transcript[a] > 0
    <3>1. failures > 0 => failures' > 0
      BY <2>1 DEF StoreTypes
    <3>2. CASE a \in batch /\ pc = "dispatched"
      <4>1. transcript[a] = 1
        BY <2>5, <3>2 DEF BatchInv, MessageInv
      <4>2. failures' > 0
        BY <2>1, <2>3, <3>1, <3>2 DEF StoreTypes
      <4> QED
        BY <4>1, <4>2
    <3> QED
      BY <2>1, <2>5, <3>1, <3>2 DEF HalfInv
  <2>6. \A a \in Actions : state'[a] \in {"preparing", "committing", "running"} => state'[a] = state[a]
    BY <2>2
  <2> QED
    BY <2>1, <2>4, <2>5, <2>6 DEF HalfInv, Actions
<1>5. CASE Admitting
  <2>1. /\ UNCHANGED <<pc, batch, failures>>
        /\ \A a \in Actions' : a \in Actions \/ a = Len(actions) + 1
        /\ \A a \in Actions : state'[a] = state[a] /\ transcript'[a] = transcript[a]
        /\ state'[Len(actions) + 1] \in {"selected", "queued"}
    BY <1>5, AdmittingIs, AdmitTypes DEF Admits
  <2> QED
    BY <2>1 DEF HalfInv
<1>6. CASE Woken
  <2>1. UNCHANGED <<actions, transcript, failures>> /\ pc = "waiting"
    BY <1>6 DEF Woken, agentVars
  <2>2. \A a \in Actions : state'[a] \in {state[a], "queued"}
    BY <1>6, BecomeTypes DEF Woken, States
  <2> QED
    BY <2>1, <2>2 DEF HalfInv, Actions
<1>7. CASE Select
  <2>1. /\ UNCHANGED <<actions, transcript, failures>> /\ pc = "selecting"
    BY <1>7 DEF Select, agentVars
  <2>2. PICK chosen \in Chosen :
           /\ batch' = chosen
           /\ \/ pc' = "preparing" /\ Become(chosen, "preparing")
              \/ UNCHANGED state
              \/ Become(chosen, "selected")
    BY <1>7 DEF Select
  <2>3. \A a \in Actions : \/ state'[a] \in {state[a], "selected"}
                           \/ state'[a] = "preparing" /\ a \in batch' /\ pc' = "preparing"
    <3>1. CASE pc' = "preparing" /\ Become(chosen, "preparing")
      BY <2>2, <3>1, BecomeTypes DEF States
    <3>2. CASE UNCHANGED state \/ Become(chosen, "selected")
      BY <3>2, BecomeTypes DEF States
    <3> QED
      BY <2>2, <3>1, <3>2
  <2> QED
    BY <2>1, <2>3 DEF HalfInv, Actions
<1>8. CASE Prepare
  <2>1. /\ pc = "preparing" /\ pc' = "fence" /\ batch' = Preparing
        /\ UNCHANGED <<actions, state, transcript, failures>>
    BY <1>8 DEF Prepare, storeVars, agentVars
  <2> QED
    BY <2>1 DEF HalfInv, Preparing, Actions
<1>9. CASE Dispatch
  <2>1. /\ pc = "fence" /\ pc' = "dispatched" /\ UNCHANGED <<actions, transcript, batch, failures>>
        /\ Become(batch, "committing")
    BY <1>9 DEF Dispatch
  <2>2. \A a \in Actions : state'[a] = IF a \in batch THEN "committing" ELSE state[a]
    BY <2>1, BecomeTypes DEF States
  <2> QED
    BY <2>1, <2>2 DEF HalfInv, Actions
<1>10. CASE Settle
  <2> DEFINE done == {a \in batch : state[a] \in {"committing", "running"}}
  <2>1. /\ pc = "dispatched" /\ UNCHANGED <<actions, transcript, failures>>
        /\ Become(done, "completed")
    BY <1>10 DEF Settle, Settled, agentVars
  <2>2. \A a \in Actions : state'[a] = IF a \in done THEN "completed" ELSE state[a]
    BY <2>1, BecomeTypes DEF States
  <2> QED
    BY <2>1, <2>2 DEF HalfInv, Actions
<1>11. CASE CommandGivenUp
  <2>1. pc = "command" /\ UNCHANGED <<actions, transcript, failures>>
    BY <1>11 DEF CommandGivenUp, agentVars
  <2>2. \A a \in Actions : state'[a] \in {state[a], "queued"}
    BY <1>11, BecomeTypes DEF CommandGivenUp, States
  <2> QED
    BY <2>1, <2>2 DEF HalfInv, Actions
<1>12. CASE CommandRuns
  <2>1. /\ pc = "command" /\ pc' = "executing" /\ UNCHANGED <<actions, transcript, batch, failures>>
        /\ Become(batch, "running")
    BY <1>12 DEF CommandRuns, agentVars
  <2>2. \A a \in Actions : state'[a] = IF a \in batch THEN "running" ELSE state[a]
    BY <2>1, BecomeTypes DEF States
  <2> QED
    BY <2>1, <2>2 DEF HalfInv, Actions
<1>13. CASE CommandEnds
  <2>1. pc = "executing" /\ UNCHANGED <<actions, transcript>> /\ failures' \in {failures, failures + 1}
    BY <1>13 DEF CommandEnds, agentVars
  <2>2. \A a \in Actions : state'[a] \in IF a \in batch THEN {"completed", "failed"} ELSE {state[a]}
    BY <1>13, BecomeTypes DEF CommandEnds, States
  <2>3. failures > 0 => failures' > 0
    BY <2>1 DEF StoreTypes
  <2> QED
    BY <2>1, <2>2, <2>3 DEF HalfInv, Actions
<1>14. CASE Deliver
  <2>1. \A a \in Actions : transcript[a] > 0 => transcript'[a] > 0
    BY <1>14, DeliverIs
  <2>2. /\ pc = "dispatched" /\ UNCHANGED <<actions, pc, batch, failures>>
        /\ \A a \in Actions : state'[a] = state[a] \/ (state'[a] = "running" /\ a \in batch)
    BY <1>14, DeliverIs
  <2> QED
    BY <2>1, <2>2 DEF HalfInv, Actions
<1>15. CASE RunEnds
  <2>1. /\ UNCHANGED <<actions, state, pc, batch>> /\ (failures > 0 => failures' > 0)
        /\ \A a \in Actions : a \notin captured => transcript'[a] = transcript[a]
    BY <1>15 DEF RunEnds, Forget, pumpVars, StoreTypes
  <2>2. \A a \in Actions : state[a] = "running" => a \notin captured
    BY DEF OwnInv
  <2> QED
    BY <2>1, <2>2 DEF HalfInv, Actions
<1>16. CASE RunEndsRetryable
  <2>1. UNCHANGED <<actions, state, pc, batch, transcript, failures>>
    BY <1>16 DEF RunEndsRetryable, storeVars, pumpVars
  <2> QED
    BY <2>1 DEF HalfInv, Actions
<1> QED
  BY <1>1, <1>2, <1>3, <1>4, <1>5, <1>6, <1>7, <1>8, <1>9, <1>10, <1>11, <1>12, <1>13, <1>14,
     <1>15, <1>16, StepKinds DEF Working

LEMMA MessageStep == Good /\ [Next]_vars => MessageInv'
<1> SUFFICES ASSUME Good, [Next]_vars PROVE MessageInv'
  OBVIOUS
<1> USE DEF Good
<1> DEFINE Fresh == {"queued", "selected", "preparing", "committing"}
\* States change and the messages do not: what becomes fresh has none, and no turn begins.
<1>0. ASSUME UNCHANGED <<actions, run, transcript, captured>>,
             \A a \in Actions :
                \/ state'[a] = state[a] \/ state'[a] \in {"completed", "failed"}
                \/ state'[a] \in Fresh /\ transcript[a] = 0
                \/ state'[a] = "running" /\ ~IsTurn(a)
      PROVE  MessageInv'
  BY <1>0 DEF MessageInv, IsTurn, Actions
<1>1. CASE Outside \/ UNCHANGED vars
  <2>1. /\ UNCHANGED <<actions, state, transcript, captured>>
        /\ run' = run \/ (run = "none" /\ run' = "other")
    BY <1>1, OutsideIs DEF Aside, storeVars, vars, agentVars
  <2> QED
    BY <2>1 DEF MessageInv, IsTurn, Actions
<1>2. CASE Cancelling
  <2>1. PICK some \in SUBSET {a \in Actions : state[a] \in Clearable \cup {"committing"}} :
           Cancel(some)
    BY <1>2, CancellingIs DEF Cancels
  <2>2. UNCHANGED <<actions, run, transcript>>
    BY <1>2, CancellingIs DEF Cancels
  <2>3. /\ \A a \in Actions : state'[a] = IF a \in some THEN "cancelled" ELSE state[a]
        /\ captured \subseteq captured'
    BY <2>1, BecomeTypes DEF Cancel, States
  <2>4. \A a \in some : a \in Actions /\ state[a] \in Fresh
    BY <2>1 DEF Clearable
  <2>5. \A a \in some : transcript[a] = 0
    BY <2>4 DEF MessageInv
  <2> QED
    BY <2>2, <2>3, <2>5 DEF MessageInv, IsTurn, Actions
<1>3. CASE Resting \/ Prepare
  <2>1. UNCHANGED <<actions, state, run, transcript, captured>>
    BY <1>3, RestingIs DEF Rests, Prepare, storeVars, agentVars
  <2> QED
    BY <1>0, <2>1
<1>4. CASE Catching
  <2>1. UNCHANGED <<actions, run, transcript, captured>>
    BY <1>4, CatchingIs DEF Catches
  <2>2. \/ \A a \in Actions : state'[a] =
              IF a \in Undelivered /\ state[a] \in {"selected", "preparing", "committing"}
              THEN "queued" ELSE state[a]
        \/ \A a \in Actions : state'[a] =
              IF a \in batch /\ state[a] \notin Terminal THEN "failed" ELSE state[a]
    BY <1>4, CatchingIs, BecomeTypes DEF Catches, States
  <2>3. \A a \in Actions : \/ state'[a] = state[a] \/ state'[a] = "failed"
                           \/ state'[a] = "queued" /\ transcript[a] = 0
    BY <2>2 DEF Undelivered
  <2> QED
    BY <1>0, <2>1, <2>3
<1>5. CASE Admitting
  <2>1. /\ UNCHANGED <<run, captured>>
        /\ \A a \in Actions' : a \in Actions \/ a = Len(actions) + 1
        /\ \A a \in Actions : /\ state'[a] = state[a] /\ transcript'[a] = transcript[a]
                              /\ IsTurn(a)' = IsTurn(a)
        /\ state'[Len(actions) + 1] \in {"selected", "queued"}
        /\ transcript'[Len(actions) + 1] = 0
    BY <1>5, AdmittingIs, AdmitTypes DEF Admits
  <2> QED
    BY <2>1 DEF MessageInv
<1>6. CASE Woken
  <2>1. UNCHANGED <<actions, run, transcript, captured>>
    BY <1>6 DEF Woken, agentVars
  <2> DEFINE selected == InState({"selected"})
  <2>2. CASE mine # epoch /\ selected # {}
    <3>1. First(selected) \in selected /\ selected \subseteq Actions
      BY <2>2, FirstIs, OwnedAreActions DEF InState
    <3>2. Become({First(selected)}, "queued") /\ state[First(selected)] = "selected"
      BY <1>6, <2>2, <3>1 DEF Woken, InState
    <3>3. \A a \in Actions : state'[a] = state[a] \/ (state'[a] = "queued" /\ transcript[a] = 0)
      BY <3>2, BecomeTypes DEF States, MessageInv
    <3> QED
      BY <1>0, <2>1, <3>3
  <2>3. CASE ~(mine # epoch /\ selected # {})
    <3>1. \A a \in Actions : state'[a] = state[a]
      BY <1>6, <2>3, BecomeTypes DEF Woken, States
    <3> QED
      BY <1>0, <2>1, <3>1
  <2> QED
    BY <2>2, <2>3
<1>7. CASE Select
  <2>1. UNCHANGED <<actions, run, transcript, captured>>
    BY <1>7 DEF Select, agentVars
  <2>2. PICK chosen \in Chosen :
           \/ (\A a \in chosen : state[a] # "cancelled") /\ Become(chosen, "preparing")
           \/ UNCHANGED state
           \/ preselected = 0 /\ Become(chosen, "selected")
    BY <1>7 DEF Select
  <2>3. /\ chosen \subseteq Actions
        /\ \A a \in chosen : state[a] \in {"queued", "selected", "cancelled"}
        /\ preselected = 0 => \A a \in chosen : state[a] = "queued"
    BY <1>7, ChosenIs DEF Select, BatchInv
  <2>4. \A a \in chosen : state[a] # "cancelled" => transcript[a] = 0
    BY <2>3 DEF MessageInv
  <2>5. \A a \in Actions : state'[a] = state[a] \/ (state'[a] \in Fresh /\ transcript[a] = 0)
    BY <2>2, <2>3, <2>4, BecomeTypes DEF States
  <2> QED
    BY <1>0, <2>1, <2>5
<1>8. CASE Dispatch
  <2>1. UNCHANGED <<actions, transcript, captured>> /\ run = "none" /\ Become(batch, "committing")
        /\ \A a \in batch : state[a] = "preparing"
    BY <1>8 DEF Dispatch, NotHandedOff
  <2>2. \A a \in Actions : state'[a] = IF a \in batch THEN "committing" ELSE state[a]
    BY <2>1, BecomeTypes DEF States
  <2> QED
    BY <2>1, <2>2 DEF MessageInv, IsTurn, Actions
<1>9. CASE Settle \/ CommandEnds
  <2>1. UNCHANGED <<actions, run, transcript, captured>>
    BY <1>9 DEF Settle, CommandEnds, agentVars
  <2>2. \A a \in Actions : state'[a] \in {state[a], "completed", "failed"}
    BY <1>9, BecomeTypes DEF Settle, CommandEnds, States
  <2> QED
    BY <1>0, <2>1, <2>2
<1>10. CASE CommandGivenUp
  <2>1. UNCHANGED <<actions, run, transcript, captured>>
    BY <1>10 DEF CommandGivenUp, agentVars
  <2>2. \A a \in Actions : state'[a] = state[a] \/ (state'[a] = "queued" /\ state[a] = "selected")
    BY <1>10, BecomeTypes DEF CommandGivenUp, States
  <2>3. \A a \in Actions : state'[a] = state[a] \/ (state'[a] \in Fresh /\ transcript[a] = 0)
    BY <2>2 DEF MessageInv
  <2> QED
    BY <1>0, <2>1, <2>3
<1>11. CASE CommandRuns
  <2>1. /\ UNCHANGED <<actions, run, transcript, captured>> /\ pc = "command"
        /\ Become(batch, "running")
    BY <1>11 DEF CommandRuns, agentVars
  <2>2. \A a \in Actions : state'[a] = state[a] \/ (state'[a] = "running" /\ ~IsTurn(a))
    BY <2>1, BecomeTypes DEF States, BatchInv
  <2> QED
    BY <1>0, <2>1, <2>2
<1>12. CASE Deliver
  <2> DEFINE a == Earliest(Untold)
  <2>1. /\ run = "pump" /\ UNCHANGED <<actions, run, captured>>
        /\ transcript'[a] = 1 /\ \A b \in Actions \ {a} : transcript'[b] = transcript[b]
        /\ \A b \in Actions \ {a} : state'[b] = state[b]
    BY <1>12, DeliverIs
  <2>2. a \in Actions /\ (state'[a] = "running" \/ (state'[a] = "cancelled" /\ a \in captured))
    BY <1>12, DeliverIs DEF StoreTypes
  <2> HIDE DEF a
  <2> QED
    BY <2>1, <2>2 DEF MessageInv, IsTurn, Actions
<1>13. CASE RunEnds
  <2>1. /\ UNCHANGED <<actions, state>>
        /\ \A a \in Actions : transcript'[a] = IF a \in captured THEN 0 ELSE transcript[a]
    BY <1>13 DEF RunEnds, Forget
  <2>2. \A a \in captured : state[a] = "cancelled"
    BY DEF OwnInv
  <2> QED
    BY <2>1, <2>2 DEF MessageInv, IsTurn, Actions
<1>14. CASE RunEndsRetryable
  <2>1. UNCHANGED <<actions, state, transcript, captured>> /\ captured = {}
    BY <1>14 DEF RunEndsRetryable, storeVars
  <2> QED
    BY <2>1 DEF MessageInv, IsTurn, Actions
<1> QED
  BY <1>1, <1>2, <1>3, <1>4, <1>5, <1>6, <1>7, <1>8, <1>9, <1>10, <1>11, <1>12, <1>13, <1>14,
     StepKinds DEF Working

-----------------------------------------------------------------------------
(* The checkpoint *)

\* At the checkpoint nothing is under way but turns that were delivered, and while the
\* scheduler is paused nothing is taken up.
LEMMA CheckpointStep == Good /\ CheckpointInv /\ [Next]_vars => CheckpointInv'
<1> SUFFICES ASSUME Good, CheckpointInv, [Next]_vars,
                    restart' \in {"checkpointed", "stopped"},
                    NEW a \in Actions'
             PROVE  /\ state'[a] \notin {"selected", "preparing", "committing"}
                    /\ state'[a] = "running" => IsTurn(a)'
  BY DEF CheckpointInv
<1> USE DEF Good
<1>0. ASSUME restart \in {"checkpointed", "stopped"}, UNCHANGED actions,
             \A b \in Actions : state'[b] \in {state[b], "queued", "completed", "failed", "cancelled"}
      PROVE  /\ state'[a] \notin {"selected", "preparing", "committing"}
             /\ state'[a] = "running" => IsTurn(a)'
  BY <1>0 DEF CheckpointInv, IsTurn, Actions
<1>1. CASE Checkpoint
  <2>1. UNCHANGED <<actions, state>> /\ ~BlocksCheckpoint
    BY <1>1 DEF Checkpoint, storeVars
  <2>2. a \in Actions /\ IsTurn(a)' = IsTurn(a)
    BY <2>1 DEF Actions, IsTurn
  <2>3. state[a] \notin Terminal => a \in Owned
    BY <2>2 DEF OwnInv
  <2>4. state[a] = "preparing" => IsTurn(a)
    BY <2>2 DEF HalfInv, BatchInv
  <2>5. state[a] = "committing" => IsTurn(a) /\ transcript[a] = 0
    BY <2>2 DEF HalfInv, BatchInv, MessageInv
  <2> QED
    BY <2>1, <2>2, <2>3, <2>4, <2>5 DEF BlocksCheckpoint, Terminal
<1>2. CASE Outside /\ ~Checkpoint
  <2>1. UNCHANGED <<actions, state>>
    BY <1>2, OutsideIs DEF Aside, storeVars
  <2>2. restart \in {"checkpointed", "stopped"}
    <3>1. CASE PromptHandled \/ NavigateTree \/ NavigateIdle \/ NavigateDone
      BY <3>1 DEF PromptHandled, NavigateTree, NavigateIdle, NavigateDone
    <3>2. CASE PrepareRestart \/ CancelRestart
      BY <3>2 DEF PrepareRestart, CancelRestart
    <3>3. CASE RetryDue \/ RetryContinues \/ RetryThrows \/ AbortRetry \/ ContinueRun \/ BusyStarts \/ BusyEnds
      BY <3>3 DEF RetryDue, RetryContinues, RetryThrows, AbortRetry, AbortedRetry, ContinueRun, BusyStarts, BusyEnds, gateVars
    <3> QED
      BY <1>2, <3>1, <3>2, <3>3 DEF Outside
  <2> QED
    BY <1>0, <2>1, <2>2
<1>3. CASE Cancelling
  <2>1. UNCHANGED actions /\ \A b \in Actions : state'[b] \in {state[b], "cancelled"}
    BY <1>3, CancellingIs, CancelledOnly DEF Cancels
  <2>2. restart \in {"checkpointed", "stopped"}
    <3>1. CASE ClearQueue \/ ResumeQueuedWork \/ RequestAbort \/ AbortForUpdateRestart
      BY <3>1 DEF ClearQueue, ResumeQueuedWork, Resume, RequestAbort, AbortForUpdateRestart
    <3>2. ASSUME NEW b \in Actions, RemoveTurn(b) \/ DeleteQueued(b) PROVE UNCHANGED restart
      BY <3>2 DEF RemoveTurn, DeleteQueued, Resume
    <3> QED
      BY <1>3, <3>1, <3>2 DEF Cancelling
  <2> QED
    BY <1>0, <2>1, <2>2
<1>4. CASE Resting
  <2>1. UNCHANGED <<actions, state, restart>>
    BY <1>4, RestingIs DEF Rests, storeVars, gateVars
  <2> QED
    BY <1>0, <2>1
<1>5. CASE Catching
  <2>1. UNCHANGED <<actions, restart>>
    BY <1>5, CatchingIs DEF Catches, gateVars
  <2>2. \A b \in Actions : state'[b] \in {state[b], "queued", "failed"}
    BY <1>5, CatchingIs, BecomeTypes DEF Catches, States
  <2> QED
    BY <1>0, <2>1, <2>2
<1>6. CASE Admitting
  <2>1. /\ restart' = restart
        /\ a \in Actions \/ a = Len(actions) + 1
        /\ \A b \in Actions : state'[b] = state[b] /\ IsTurn(b)' = IsTurn(b)
        /\ Paused => state'[Len(actions) + 1] = "queued"
    BY <1>6, AdmittingIs, AdmitTypes DEF Admits
  <2> QED
    BY <2>1 DEF CheckpointInv, Paused
<1>7. CASE Woken \/ CommandGivenUp
  <2>1. UNCHANGED <<actions, restart>>
    BY <1>7 DEF Woken, CommandGivenUp, gateVars
  <2>2. \A b \in Actions : state'[b] \in {state[b], "queued"}
    BY <1>7, BecomeTypes DEF Woken, CommandGivenUp, States
  <2> QED
    BY <1>0, <2>1, <2>2
<1>8. CASE Select \/ Dispatch \/ CommandRuns
  <2>1. ~Paused /\ UNCHANGED restart
    BY <1>8 DEF Select, Dispatch, CommandRuns, NotHandedOff, Blocked, Deferred, PumpBusy, Held,
         gateVars
  <2> QED
    BY <2>1 DEF Paused
<1>9. CASE Prepare \/ RunEnds \/ RunEndsRetryable \/ UNCHANGED vars
  <2>1. UNCHANGED <<actions, state, restart>>
    BY <1>9 DEF Prepare, RunEnds, RunEndsRetryable, vars, storeVars, gateVars
  <2> QED
    BY <1>0, <2>1
<1>10. CASE Settle \/ CommandEnds
  <2>1. UNCHANGED <<actions, restart>>
    BY <1>10 DEF Settle, CommandEnds, gateVars
  <2>2. \A b \in Actions : state'[b] \in {state[b], "completed", "failed"}
    BY <1>10, BecomeTypes DEF Settle, CommandEnds, States
  <2> QED
    BY <1>0, <2>1, <2>2
<1>11. CASE Deliver
  <2>1. UNCHANGED <<actions, restart>>
    BY <1>11 DEF Deliver, gateVars
  <2>2. \A b \in Actions : state'[b] = state[b] \/ state[b] = "committing"
    BY <1>11, DeliverIs
  <2>3. \A b \in Actions : state[b] # "committing"
    BY <2>1 DEF CheckpointInv
  <2> QED
    BY <1>0, <2>1, <2>2, <2>3
<1> QED
  BY <1>1, <1>2, <1>3, <1>4, <1>5, <1>6, <1>7, <1>8, <1>9, <1>10, <1>11, StepKinds DEF Working

-----------------------------------------------------------------------------
(* The flags and the chain of pumps *)

LEMMA FlagStep == FlagTypes /\ [Next]_vars => FlagTypes'
<1> SUFFICES ASSUME FlagTypes, [Next]_vars PROVE FlagTypes'
  OBVIOUS
<1> USE DEF FlagTypes
<1>1. CASE Outside
  BY <1>1 DEF Outside, PromptHandled, NavigateTree, NavigateIdle, NavigateDone, PrepareRestart,
       Checkpoint, CancelRestart, RetryDue, RetryContinues, RetryThrows,
       AbortRetry, AbortedRetry, ContinueRun, BusyStarts, BusyEnds, AcquirePause, NewEpoch, gateVars, agentVars
<1>2. CASE ClearQueue \/ RequestAbort \/ AbortForUpdateRestart \/ ResumeQueuedWork
  BY <1>2 DEF ClearQueue, RequestAbort, AbortForUpdateRestart, ResumeQueuedWork, Resume, Suspend,
       AbortedRetry, NewEpoch, agentVars
<1>3. ASSUME NEW a \in Actions, RemoveTurn(a) \/ DeleteQueued(a) PROVE FlagTypes'
  BY <1>3 DEF RemoveTurn, DeleteQueued, Resume
<1>4. CASE Resting
  BY <1>4 DEF Resting, Begin, Block, SelectNothing, PrepareNothing, gateVars, agentVars
<1>5. CASE Catching
  BY <1>5 DEF Catching, PrepareDeferred, PrepareFails, HandoffDeferred, SettleUndelivered,
       SettleFails, gateVars, agentVars
<1>6. CASE Admitting
  BY <1>6 DEF Admitting, Queue, Prompt, Command, Admit
<1>7. CASE Working
  BY <1>7 DEF Working, Woken, Select, Prepare, Dispatch, Settle, CommandGivenUp, CommandRuns,
       CommandEnds, Deliver, RunEnds, RunEndsRetryable, gateVars, agentVars
<1>8. CASE UNCHANGED vars
  BY <1>8 DEF vars, gateVars, agentVars
<1> QED
  BY <1>1, <1>2, <1>3, <1>4, <1>5, <1>6, <1>7, <1>8, StepKinds DEF Cancelling

\* A pump is scheduled for the epoch of its request.
LEMMA Scheduling ==
    ASSUME NEW flag \in BOOLEAN, epoch' \in Nat, NEW pumps \in Seq(0..epoch'), Schedule(flag, pumps)
    PROVE  requested' \in BOOLEAN /\ chain' \in Seq(0..epoch')
<1>1. epoch' \in 0..epoch'
  OBVIOUS
<1>2. Append(pumps, epoch') \in Seq(0..epoch')
  BY <1>1, AppendProperties
<1> QED
  BY <1>2 DEF Schedule

LEMMA WakeStep == WakeTypes /\ [Next]_vars => WakeTypes'
<1> SUFFICES ASSUME WakeTypes, [Next]_vars PROVE WakeTypes'
  OBVIOUS
<1> USE DEF WakeTypes
\* The epoch stays: the chain is kept, or a pump is scheduled.
<1>1. ASSUME UNCHANGED <<epoch, mine>>, UNCHANGED wakeVars \/ Schedule(requested, chain)
      PROVE  WakeTypes'
  BY <1>1, Scheduling DEF wakeVars
<1>2. ASSUME UNCHANGED epoch, \E blocked : Return(blocked) PROVE WakeTypes'
  BY <1>1, <1>2 DEF Return
<1>3. ASSUME UNCHANGED <<epoch, mine>>, Loop(requested, chain) PROVE WakeTypes'
  BY <1>3 DEF Loop
<1>4. ASSUME UNCHANGED epoch, Continue PROVE WakeTypes'
  BY <1>2, <1>3, <1>4 DEF Continue
\* A new epoch: the pumps to come carry older ones.
<1>5. ASSUME epoch' = epoch + 1, UNCHANGED <<mine, chain>>, requested' \in BOOLEAN PROVE WakeTypes'
  <2>1. epoch' \in Nat /\ 0..epoch \subseteq 0..epoch'
    BY <1>5
  <2>2. chain \in Seq(0..epoch')
    BY <2>1
  <2> QED
    BY <1>5, <2>1, <2>2
<1>6. CASE PromptHandled \/ NavigateIdle \/ Checkpoint \/ RetryDue \/ RetryContinues
           \/ RetryThrows \/ AbortRetry \/ ContinueRun \/ BusyStarts \/ NavigateDone \/ CancelRestart \/ BusyEnds
  BY <1>1, <1>6 DEF PromptHandled, NavigateIdle, Checkpoint, RetryDue, RetryContinues,
       RetryThrows, AbortRetry, AbortedRetry, ContinueRun, BusyStarts, NavigateDone, CancelRestart, BusyEnds, gateVars, pumpVars
<1>7. CASE NavigateTree \/ PrepareRestart
  BY <1>5, <1>7 DEF NavigateTree, PrepareRestart, AcquirePause, NewEpoch, pumpVars
<1>8. CASE ClearQueue
  BY <1>1, <1>5, <1>8 DEF ClearQueue, NewEpoch, wakeVars, pumpVars
<1>9. CASE RequestAbort \/ AbortForUpdateRestart
  BY <1>5, <1>9 DEF RequestAbort, AbortForUpdateRestart, Suspend, NewEpoch, pumpVars
<1>10. CASE ResumeQueuedWork
  BY <1>1, <1>10 DEF ResumeQueuedWork, Resume, pumpVars
<1>11. ASSUME NEW a \in Actions, RemoveTurn(a) \/ DeleteQueued(a) PROVE WakeTypes'
  BY <1>1, <1>11 DEF RemoveTurn, DeleteQueued, Resume, pumpVars
<1>12. CASE Begin
  <2>1. Head(chain) \in Nat /\ Tail(chain) \in Seq(0..epoch)
    BY <1>12 DEF Begin
  <2> QED
    BY <1>12, <2>1 DEF Begin, Loop, gateVars
<1>13. CASE Block \/ SelectNothing \/ PrepareNothing
  BY <1>2, <1>4, <1>13 DEF Block, SelectNothing, PrepareNothing, gateVars
<1>14. CASE Catching
  BY <1>2, <1>4, <1>14 DEF Catching, PrepareDeferred, PrepareFails, HandoffDeferred,
       SettleUndelivered, SettleFails, Catch, CatchDeferred, gateVars
<1>15. CASE Admitting
  BY <1>1, <1>15 DEF Admitting, Queue, Prompt, Command, Admit, pumpVars
<1>16. CASE Woken
  BY <1>1, <1>2, <1>16 DEF Woken, gateVars
<1>17. CASE Select \/ Prepare \/ Dispatch \/ CommandRuns \/ Deliver \/ RunEnds \/ RunEndsRetryable
  BY <1>1, <1>17 DEF Select, Prepare, Dispatch, CommandRuns, Deliver, RunEnds, RunEndsRetryable,
       gateVars, pumpVars
<1>18. CASE Settle \/ CommandGivenUp \/ CommandEnds
  BY <1>2, <1>4, <1>18 DEF Settle, CommandGivenUp, CommandEnds, gateVars
<1>19. CASE UNCHANGED vars
  BY <1>1, <1>19 DEF vars, gateVars, pumpVars
<1> QED
  BY <1>6, <1>7, <1>8, <1>9, <1>10, <1>11, <1>12, <1>13, <1>14, <1>15, <1>16, <1>17, <1>18, <1>19,
     StepKinds DEF Outside, Cancelling, Resting, Working

-----------------------------------------------------------------------------
(* Theorems *)

LEMMA InitGood == Init => Good /\ CheckpointInv /\ FlagTypes /\ WakeTypes /\ NavigationAlone
<1> SUFFICES ASSUME Init PROVE Good /\ CheckpointInv /\ FlagTypes /\ WakeTypes /\ NavigationAlone
  OBVIOUS
<1>1. actions \in Seq(Kinds) /\ Actions = {}
  BY DEF Init, Actions
<1>2. state \in [Actions -> States] /\ transcript \in [Actions -> Nat]
  <2>1. \A S : <<>> \in [{} -> S]
    <3>1. TAKE S
    <3>2. <<>> \in Seq(S) /\ Len(<<>>) = 0 /\ 1..0 = {}
      OBVIOUS
    <3> QED
      BY <3>2, LenProperties
  <2> QED
    BY <1>1, <2>1 DEF Init
<1>3. StoreTypes
  BY <1>1, <1>2 DEF Init, StoreTypes
<1>4. OwnInv /\ BatchInv /\ HalfInv /\ MessageInv
  BY <1>1 DEF Init, OwnInv, BatchInv, HalfInv, MessageInv
<1>5. PlaceTypes /\ CheckpointInv /\ FlagTypes /\ NavigationAlone
  BY DEF Init, PlaceTypes, CheckpointInv, FlagTypes, NavigationAlone
<1>6. WakeTypes
  <2>1. \A S : <<>> \in Seq(S)
    OBVIOUS
  <2>2. epoch = 0 /\ mine = 0 /\ requested = FALSE /\ chain = <<>>
    BY DEF Init
  <2> QED
    BY <2>1, <2>2 DEF WakeTypes
<1> QED
  BY <1>3, <1>4, <1>5, <1>6 DEF Good

LEMMA GoodStep == Good /\ [Next]_vars => Good'
BY StoreStep, PlaceStep, OwnStep, BatchStep, HalfStep, MessageStep DEF Good

\* What Admit, Cancel, Release and the pump do keeps the store's lanes, the states of the
\* actions and the pump's hands of one kind: an action is owned until it has ended.
THEOREM TypeCorrect == Spec => []TypeOK
<1>1. Good /\ FlagTypes /\ WakeTypes => TypeOK
  <2> SUFFICES ASSUME Good, FlagTypes, WakeTypes PROVE TypeOK
    OBVIOUS
  <2>1. state \in Seq(States) /\ DOMAIN state = Actions
    <3>1. Len(actions) \in Nat /\ Actions = 1..Len(actions) /\ state \in [Actions -> States]
      BY DEF Good, StoreTypes, Actions
    <3> QED
      BY <3>1
  <2>2. Owned = {a \in Actions : state[a] \notin Terminal} \cup captured
    <3>1. \A a \in Actions : a \in Owned <=> (state[a] \notin Terminal \/ a \in captured)
      BY DEF Good, OwnInv
    <3>2. Owned \subseteq Actions /\ captured \subseteq Actions
      BY OwnedAreActions DEF Good, StoreTypes
    <3> QED
      BY <3>1, <3>2
  <2>3. captured \subseteq {a \in Actions : state[a] = "cancelled"}
    BY DEF Good, StoreTypes, OwnInv
  <2>4. {requested, suspended, busy, moved, missed} \subseteq BOOLEAN
    BY DEF FlagTypes, WakeTypes
  <2>5. actions \in Seq(Kinds) /\ lanes \in [Lanes -> SUBSET Actions]
        /\ transcript \in [Actions -> Nat] /\ batch \subseteq Actions /\ told \subseteq Actions
        /\ preselected \in Actions \cup {0}
    BY DEF Good, StoreTypes
  <2>6. chain \in Seq(0..epoch) /\ {epoch, mine} \subseteq Nat
    BY DEF WakeTypes
  <2>7. pc = "idle" => batch = {} /\ preselected = 0
    BY DEF Good, BatchInv
  <2> QED
    BY <2>1, <2>2, <2>3, <2>4, <2>5, <2>6, <2>7 DEF Good, PlaceTypes, TypeOK
<1> QED
  BY <1>1, InitGood, GoodStep, FlagStep, WakeStep, PTL DEF Spec

\* A message is in the transcript at most once, and that of a cancelled turn is taken out
\* again by the end of its run.
THEOREM NothingTwice == Spec => []DeliveredOnce
<1>1. Good => DeliveredOnce
  <2> SUFFICES ASSUME Good PROVE DeliveredOnce
    OBVIOUS
  <2>1. \A a \in Actions : transcript[a] <= 1
    BY DEF Good, MessageInv
  <2>2. ASSUME run = "none", NEW a \in Actions, state[a] = "cancelled" PROVE transcript[a] = 0
    BY <2>2 DEF Good, MessageInv, StoreTypes
  <2> QED
    BY <2>1, <2>2 DEF DeliveredOnce
<1> QED
  BY <1>1, InitGood, GoodStep, PTL DEF Spec

\* A pump that has returned leaves nothing half way but a turn whose last event failed.
THEOREM NothingHalfWay == Spec => []NothingLeftHalfWay
<1>1. Good => NothingLeftHalfWay
  BY DEF Good, HalfInv, NothingLeftHalfWay
<1> QED
  BY <1>1, InitGood, GoodStep, PTL DEF Spec

\* From the checkpoint of an update restart on, nothing the manifest lacks comes under way.
THEOREM CheckpointStays == Spec => []CheckpointHolds
<1>1. Good /\ CheckpointInv => CheckpointHolds
  BY OwnedAreActions DEF Good, CheckpointInv, CheckpointHolds, BlocksCheckpoint
<1> QED
  BY <1>1, InitGood, GoodStep, CheckpointStep, PTL DEF Spec

\* Nothing the pump started runs while the leaf of the session tree is moved.
THEOREM NothingBesideNavigation == Spec => []NavigationAlone
<1>1. Good /\ NavigationAlone /\ [Next]_vars => NavigationAlone'
  BY NavigationStep DEF Good
<1> QED
  BY <1>1, InitGood, GoodStep, PTL DEF Spec
=============================================================================
