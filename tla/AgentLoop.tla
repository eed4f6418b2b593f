----------------------------- MODULE AgentLoop -----------------------------
(***************************************************************************)
(* prime-agent's core: an Agent owns a transcript and two queues of        *)
(* message batches and drives the agent loop, one run at a time.  A run    *)
(* asks the model, executes the tool calls of its reply, one by one or     *)
(* together, injects what was queued meanwhile and asks again.  Between    *)
(* any two awaits of the loop the owner may queue or withdraw messages or  *)
(* abort the run; every await of a listener may fail.                      *)
(*                                                                         *)
(* Messages are numbered as they are submitted.  A queue is flat: the      *)
(* messages of a batch stand together and know the first one of it.  A     *)
(* reply is its number and its number of calls, a tool result the call it  *)
(* answers.  Streaming updates, their listeners and the state kept for     *)
(* display are left out.                                                   *)
(***************************************************************************)
EXTENDS Naturals, Sequences, FiniteSets, SequencesExt

CONSTANTS
    MaxMessages,  \* bound: so many messages are submitted
    MaxCalls,     \* bound: the calls of one reply
    MaxCallTurns, \* bound: so many replies have calls
    MaxRuns,      \* bound: so many runs are started
    MaxFailures   \* bound: so many listeners fail

ASSUME BoundsAssumption ==
    {MaxMessages, MaxCalls, MaxCallTurns, MaxRuns, MaxFailures} \subseteq Nat

VARIABLES
    pc,          \* where the run stands; "idle" when there is none
    steering, followUp,   \* the queues
    pending,     \* messages taken for injection, not yet recorded
    context, transcript,  \* the messages of the run, and of the agent
    aborted,     \* the signal of the run
    first, skip, \* the first turn; the first poll of the steering queue is skipped
    more,        \* hasMoreToolCalls
    status, at, allStop,  \* the calls of the last reply: their states, the next one, their hints
    run, turns, callTurns, failures, \* counters
    via, withdrawn,  \* how each message was submitted, with which batch; history: the removed
    base         \* history: the replies before this run

queueVars == <<steering, followUp, via, withdrawn>>
toolVars == <<status, at, allStop>>
runVars == <<aborted, first, skip, run, base>>
countVars == <<turns, callTurns>>
vars == <<pc, pending, context, transcript, more, failures, queueVars, toolVars,
          runVars, countVars>>

Channels == {"prompt", "steer", "followUp", "continuation"}
Status == {"waiting", "prepared", "running", "settled"}
User(m) == [role |-> "user", id |-> m]
Reply(n, calls, stop) == [role |-> "assistant", id |-> n, calls |-> calls, stop |-> stop]
Result(n, i) == [role |-> "toolResult", id |-> n, call |-> i]
Users(messages) == [i \in DOMAIN messages |-> User(messages[i])]
Results(n, upTo) == [i \in 1..upTo |-> Result(n, i)]

Messages == 1..Len(via)
Active == pc # "idle"

Init ==
    /\ pc = "idle" /\ pending = <<>> /\ context = <<>> /\ transcript = <<>>
    /\ steering = <<>> /\ followUp = <<>> /\ via = <<>> /\ withdrawn = {}
    /\ aborted = FALSE /\ first = FALSE /\ skip = FALSE /\ more = FALSE
    /\ status = <<>> /\ at = 1 /\ allStop = TRUE
    /\ run = 0 /\ turns = 0 /\ callTurns = 0 /\ failures = 0 /\ base = 0

-----------------------------------------------------------------------------
(* The owner: prompt, continue, steer, followUp, removeQueuedMessages, abort *)

\* The next batch to be submitted: it has one message or more.
Batches == {[i \in 1..n |-> Len(via) + i] : n \in 1..(MaxMessages - Len(via))}
Submitted(batch, channel) ==
    via' = via \o [i \in DOMAIN batch |-> [channel |-> channel, first |-> Head(batch)]]
SameBatch(m, n) == via[m].first = via[n].first

\* runWithLifecycle and createContextSnapshot, with the messages of the prompt.
Begin(messages, skipPoll) ==
    /\ pc = "idle" /\ run < MaxRuns
    /\ run' = run + 1 /\ base' = turns
    /\ pc' = "starting"
    /\ pending' = messages
    /\ context' = transcript \o Users(messages)
    /\ aborted' = FALSE /\ first' = TRUE /\ skip' = skipPoll
    /\ UNCHANGED <<transcript, more, failures, toolVars, countVars>>

Prompt(batch) ==
    /\ Begin(batch, FALSE)
    /\ Submitted(batch, "prompt")
    /\ UNCHANGED <<steering, followUp, withdrawn>>

\* PendingMessageQueue.drain takes the first batch or all there is; the mode may be set at any
\* time.
Drains(queue) ==
    {n \in 0..Len(queue) :
        n = Len(queue) \/ \A i \in DOMAIN queue : i <= n <=> SameBatch(queue[i], Head(queue))}
Taken(queue, n) == SubSeq(queue, 1, n)
Rest(queue, n) == SubSeq(queue, n + 1, Len(queue))

NothingToAnswer == transcript # <<>> => Last(transcript).role = "assistant"

ContinueSteering ==
    /\ NothingToAnswer /\ steering # <<>>
    /\ \E n \in Drains(steering) :
          /\ Begin(Taken(steering, n), TRUE)
          /\ steering' = Rest(steering, n)
    /\ UNCHANGED <<followUp, via, withdrawn>>

ContinueFollowUp ==
    /\ NothingToAnswer /\ steering = <<>> /\ followUp # <<>>
    /\ \E n \in Drains(followUp) :
          /\ Begin(Taken(followUp, n), FALSE)
          /\ followUp' = Rest(followUp, n)
    /\ UNCHANGED <<steering, via, withdrawn>>

Continue ==
    /\ ~NothingToAnswer
    /\ Begin(<<>>, FALSE)
    /\ UNCHANGED queueVars

Steer(batch) ==
    /\ steering' = steering \o batch
    /\ Submitted(batch, "steer")
    /\ UNCHANGED <<pc, pending, context, transcript, more, failures, followUp, withdrawn,
                   toolVars, runVars, countVars>>

FollowUp(batch) ==
    /\ followUp' = followUp \o batch
    /\ Submitted(batch, "followUp")
    /\ UNCHANGED <<pc, pending, context, transcript, more, failures, steering, withdrawn,
                   toolVars, runVars, countVars>>

\* removeWhere: a batch goes as a whole when one of its messages matches.
BatchOf(m) == {n \in Messages : SameBatch(m, n)}
Without(queue, gone, rest) ==
    \E a \in 0..Len(queue) : \E b \in a..Len(queue) :
        /\ \A i \in DOMAIN queue : queue[i] \in gone <=> i \in (a + 1)..b
        /\ rest = SubSeq(queue, 1, a) \o SubSeq(queue, b + 1, Len(queue))

Withdraw(m) ==
    /\ m \in Range(steering) \cup Range(followUp)
    /\ Without(steering, BatchOf(m), steering')
    /\ Without(followUp, BatchOf(m), followUp')
    /\ withdrawn' = withdrawn \cup BatchOf(m)
    /\ UNCHANGED <<pc, pending, context, transcript, more, failures, via,
                   toolVars, runVars, countVars>>

\* Variant: the signal is one of the agent, not of its run.
AbortIdle ==
    /\ ~aborted
    /\ aborted' = TRUE
    /\ UNCHANGED <<pc, pending, context, transcript, more, failures, queueVars, toolVars,
                   first, skip, run, base, countVars>>

Abort ==
    /\ Active /\ ~aborted
    /\ aborted' = TRUE
    /\ UNCHANGED <<pc, pending, context, transcript, more, failures, queueVars, toolVars,
                   first, skip, run, base, countVars>>

-----------------------------------------------------------------------------
(* Events: processEvents changes the state, then awaits the listeners *)

ListenerFails ==
    /\ failures < MaxFailures
    /\ failures' = failures + 1
    /\ pc' = "failed"

Heard(next) == (pc' = next /\ UNCHANGED failures) \/ ListenerFails

\* message_start, then message_end, which records the message.
Recorded(entry, next) ==
    \/ /\ pc' = next /\ UNCHANGED failures
       /\ transcript' = Append(transcript, entry)
    \/ /\ ListenerFails
       /\ transcript' \in {transcript, Append(transcript, entry)}

-----------------------------------------------------------------------------
(* The start of a run *)

Start ==
    /\ pc = "starting"
    /\ Heard("prompting")
    /\ UNCHANGED <<pending, context, transcript, more, queueVars, toolVars, runVars,
                   countVars>>

RecordPrompt ==
    /\ pc = "prompting"
    /\ IF pending = <<>>
       THEN pc' = "firstPoll" /\ UNCHANGED <<pending, transcript, failures>>
       ELSE Recorded(User(Head(pending)), pc) /\ pending' = Tail(pending)
    /\ UNCHANGED <<context, more, queueVars, toolVars, runVars, countVars>>

\* pollMessagesUnlessAborted takes the messages before anything is awaited.
Polled(queue, rest) ==
    IF aborted THEN pending' = <<>> /\ rest = queue
    ELSE \E n \in Drains(queue) : pending' = Taken(queue, n) /\ rest = Rest(queue, n)

FirstPoll ==
    /\ pc = "firstPoll"
    /\ pc' = "firstPolled"
    /\ IF skip THEN pending' = <<>> /\ steering' = steering ELSE Polled(steering, steering')
    /\ skip' = FALSE
    /\ UNCHANGED <<context, transcript, more, failures, followUp, via, withdrawn, toolVars,
                   aborted, first, run, base, countVars>>

FirstPolled ==
    /\ pc = "firstPolled"
    /\ pc' = IF aborted THEN "failed" ELSE "turn"
    /\ UNCHANGED <<pending, context, transcript, more, failures, queueVars, toolVars, runVars,
                   countVars>>

-----------------------------------------------------------------------------
(* A turn: inject, ask, execute *)

TurnStart ==
    /\ pc = "turn"
    /\ first' = FALSE
    /\ IF first THEN pc' = "inject" /\ UNCHANGED failures ELSE Heard("inject")
    /\ UNCHANGED <<pending, context, transcript, more, queueVars, toolVars, aborted, skip, run,
                   base, countVars>>

\* Variant: pendingMessages is not emptied.
InjectKeeps ==
    /\ pc = "inject" /\ pending # <<>>
    /\ Recorded(User(Head(pending)), pc)
    /\ pending' = pending
    /\ context' = Append(context, User(Head(pending)))
    /\ UNCHANGED <<more, queueVars, toolVars, runVars, countVars>>

Inject ==
    /\ pc = "inject" /\ pending # <<>>
    /\ Recorded(User(Head(pending)), pc)
    /\ pending' = Tail(pending)
    /\ context' = Append(context, User(Head(pending)))
    /\ UNCHANGED <<more, queueVars, toolVars, runVars, countVars>>

\* Every step up to the request looks at the signal.
Ask ==
    /\ pc = "inject" /\ pending = <<>>
    /\ pc' = IF aborted THEN "unasked" ELSE "asking"
    /\ UNCHANGED <<pending, context, transcript, more, failures, queueVars, toolVars, runVars,
                   countVars>>

\* The first event of the stream puts a partial reply into the context.
StreamStarts ==
    /\ pc = "asking"
    /\ Heard("streaming")
    /\ context' = Append(context, Reply(turns + 1, 0, "partial"))
    /\ UNCHANGED <<pending, transcript, more, queueVars, toolVars, runVars, countVars>>

\* Variant: the final reply is pushed although a partial one is there.
RepliedTwice(reply, next) ==
    /\ turns' = turns + 1
    /\ context' = Append(context, reply)
    /\ Recorded(reply, next)

\* The final reply replaces the partial one or is pushed.
Replied(reply, next) ==
    /\ turns' = turns + 1
    /\ IF pc = "streaming"
       THEN /\ context' = Append(Front(context), reply)
            /\ transcript' = Append(transcript, reply)
            /\ Heard(next)
       ELSE /\ context' = Append(context, reply)
            /\ Recorded(reply, next)

\* The done event; an abort that comes later does not replace the reply.
ReplyDone(calls) ==
    /\ pc \in {"asking", "streaming"}
    /\ calls > 0 => callTurns < MaxCallTurns
    /\ callTurns' = IF calls > 0 THEN callTurns + 1 ELSE callTurns
    /\ \E next \in IF calls = 0 THEN {"turnEnd"} ELSE {"sequential", "parallel"} :
          Replied(Reply(turns + 1, calls, "done"), next)
    /\ status' = [i \in 1..calls |-> "waiting"] /\ at' = 1 /\ allStop' = TRUE
    /\ more' = FALSE
    /\ UNCHANGED <<pending, queueVars, runVars>>

\* The error event, or the abort: whatever calls it holds are not executed.
ReplyFails(calls) ==
    /\ \/ pc \in {"asking", "streaming"}
       \/ pc = "unasked" /\ calls = 0
    /\ Replied(Reply(turns + 1, calls, IF aborted THEN "aborted" ELSE "error"), "lastTurnEnd")
    /\ UNCHANGED <<pending, more, queueVars, toolVars, runVars, callTurns>>

\* transformContext, the key, the request or the stream throws.
AskThrows ==
    /\ pc \in {"asking", "streaming"}
    /\ pc' = "failed"
    /\ UNCHANGED <<pending, context, transcript, more, failures, queueVars, toolVars, runVars,
                   countVars>>

-----------------------------------------------------------------------------
(* Tools.  A call is prepared (or answered at once: unknown tool, invalid    *)
(* arguments, blocked), executed and finalized; terminate is its hint.       *)

Settled(i, hint) ==
    /\ status' = [status EXCEPT ![i] = "settled"]
    /\ allStop' = (allStop /\ hint)

\* executeToolCallsSequential: start the next call, unless the run is aborted.
Prepare ==
    /\ pc = "sequential" /\ at <= Len(status) /\ ~aborted
    /\ \/ Heard("execute") /\ status' = [status EXCEPT ![at] = "prepared"] /\ UNCHANGED allStop
       \/ Heard("report") /\ Settled(at, FALSE)
    /\ UNCHANGED <<pending, context, transcript, more, queueVars, at, runVars,
                   countVars>>

\* executeToolCallsParallel: a call that is answered at once ends here.
Launch ==
    /\ pc = "parallel" /\ at <= Len(status)
    /\ Heard("parallel")
    /\ at' = at + 1
    /\ \/ status' = [status EXCEPT ![at] = "prepared"] /\ UNCHANGED allStop
       \/ Settled(at, FALSE)
    /\ UNCHANGED <<pending, context, transcript, more, queueVars, runVars, countVars>>

\* executePreparedToolCall looks at the signal before it calls the tool.
Run(calls) ==
    [i \in DOMAIN status |->
        IF i \in calls /\ status[i] = "prepared" /\ ~aborted THEN "running" ELSE status[i]]

Execute ==
    /\ pc = "execute"
    /\ status' = Run({at})
    /\ pc' = "executing"
    /\ UNCHANGED <<pending, context, transcript, more, failures, queueVars, at, allStop,
                   runVars, countVars>>

ExecuteAll ==
    /\ pc = "parallel" /\ at > Len(status)
    /\ status' = Run(DOMAIN status)
    /\ pc' = "join"
    /\ UNCHANGED <<pending, context, transcript, more, failures, queueVars, at, allStop,
                   runVars, countVars>>

\* One call alone: its end and its result are emitted together.
ToolEnds(i, hint) ==
    /\ pc = "executing" /\ i = at
    /\ pc' = "report"
    /\ Settled(i, hint)
    /\ UNCHANGED <<pending, context, transcript, more, failures, queueVars, at, runVars,
                   countVars>>

\* One of several: Promise.all rejects with the first failure, the others run on and are
\* not waited for.
ToolJoins(i, hint) ==
    /\ pc = "join" /\ status[i] # "settled"
    /\ Settled(i, hint)
    /\ Heard("join")
    /\ UNCHANGED <<pending, context, transcript, more, queueVars, at, runVars, countVars>>

\* The tool answers, or the race with the signal is lost.
ToolReturns ==
    \E i \in DOMAIN status, hint \in BOOLEAN :
        status[i] = "running" /\ (ToolEnds(i, hint) \/ ToolJoins(i, hint))
\* Variant: the tool is awaited although the run is aborted.
ToolGivenUpLate ==
    \E i \in DOMAIN status :
        aborted /\ status[i] = "prepared" /\ (ToolEnds(i, FALSE) \/ ToolJoins(i, FALSE))
ToolGivenUp ==
    \E i \in DOMAIN status : aborted /\ (ToolEnds(i, FALSE) \/ ToolJoins(i, FALSE))

Joined ==
    /\ pc = "join" /\ \A i \in DOMAIN status : status[i] = "settled"
    /\ pc' = "reportAll" /\ at' = 1
    /\ UNCHANGED <<pending, context, transcript, more, failures, queueVars, status, allStop,
                   runVars, countVars>>

\* The results are recorded in the order of the calls.
Report ==
    /\ \/ pc = "report" /\ Recorded(Result(turns, at), "sequential")
       \/ pc = "reportAll" /\ at <= Len(status) /\ Recorded(Result(turns, at), pc)
    /\ at' = at + 1
    /\ UNCHANGED <<pending, context, more, queueVars, status, allStop, runVars,
                   countVars>>

\* The batch is over, or a sequential one stops because of the abort.
Gather ==
    /\ \/ pc = "sequential" /\ (at > Len(status) \/ aborted)
       \/ pc = "reportAll" /\ at > Len(status)
    /\ context' = context \o Results(turns, at - 1)
    /\ more' = ~(at > 1 /\ allStop)
    /\ pc' = "turnEnd"
    /\ UNCHANGED <<pending, transcript, failures, queueVars, toolVars, runVars, countVars>>

-----------------------------------------------------------------------------
(* The end of a turn: stop, or poll for more.  Each poll is awaited in a     *)
(* race with the signal: an abort ends the run before what was taken is used *)

TurnEnd ==
    /\ \/ pc = "turnEnd" /\ Heard("turned")
       \/ pc = "lastTurnEnd" /\ Heard("ending")
    /\ UNCHANGED <<pending, context, transcript, more, queueVars, toolVars, runVars, countVars>>

\* The signal after turn_end, shouldStopAfterTurn and shouldStopBeforeTurn; or the poll.
Turned ==
    /\ pc = "turned"
    /\ pc' = IF aborted THEN "ending" ELSE "stopping"
    /\ UNCHANGED <<pending, context, transcript, more, failures, queueVars, toolVars, runVars,
                   countVars>>

Stop ==
    /\ pc \in {"stopping", "outer"}
    /\ pc' = "ending"
    /\ UNCHANGED <<pending, context, transcript, more, failures, queueVars, toolVars, runVars,
                   countVars>>

PollSteering ==
    /\ pc = "stopping"
    /\ pc' = "steered"
    /\ Polled(steering, steering')
    /\ UNCHANGED <<context, transcript, more, failures, followUp, via, withdrawn, toolVars,
                   runVars, countVars>>

PollFollowUp ==
    /\ pc = "outer"
    /\ pc' = "followed"
    /\ Polled(followUp, followUp')
    /\ UNCHANGED <<context, transcript, more, failures, steering, via, withdrawn, toolVars,
                   runVars, countVars>>

\* Another turn; an abort in the last moment is thrown at its head.
NextTurn == pc' = IF aborted THEN "failed" ELSE "turn"

\* Variant: the stop is obeyed even when messages were just taken.
SteeredStops ==
    /\ pc = "steered"
    /\ \/ pc' = "ending"
       \/ NextTurn /\ (more \/ pending # <<>>)
       \/ pc' = "outer" /\ ~more /\ pending = <<>>
    /\ UNCHANGED <<pending, context, transcript, more, failures, queueVars, toolVars, runVars,
                   countVars>>

\* What the poll has taken owns the turn: only an empty poll may still stop.
Steered ==
    /\ pc = "steered"
    /\ \/ pc' = "ending" /\ (aborted \/ pending = <<>>)
       \/ NextTurn /\ (more \/ pending # <<>>)
       \/ pc' = "outer" /\ ~more /\ pending = <<>>
    /\ UNCHANGED <<pending, context, transcript, more, failures, queueVars, toolVars, runVars,
                   countVars>>

Followed ==
    /\ pc = "followed"
    /\ \/ pc' = "ending" /\ (aborted \/ pending = <<>>)
       \/ pending # <<>> /\ NextTurn
       \/ pending = <<>> /\ pc' = "continuing"
    /\ UNCHANGED <<pending, context, transcript, more, failures, queueVars, toolVars, runVars,
                   countVars>>

\* getContinuationMessages: the owner has nothing more, or a message of its own.
Continuing ==
    /\ pc = "continuing"
    /\ \/ pc' = "ending" /\ UNCHANGED <<pending, via>>
       \/ \E batch \in Batches :
             Len(batch) = 1 /\ pending' = batch /\ Submitted(batch, "continuation") /\ NextTurn
    /\ UNCHANGED <<context, transcript, more, failures, steering, followUp, withdrawn, toolVars,
                   runVars, countVars>>

\* agent_end; what is still pending is dropped with the loop.
AgentEnd ==
    /\ pc = "ending"
    /\ Heard("finishing")
    /\ pending' = <<>>
    /\ UNCHANGED <<context, transcript, more, queueVars, toolVars, runVars, countVars>>

\* handleRunFailure: a failure message and an agent_end, whatever the listeners do.
HandleRunFailure ==
    /\ pc = "failed"
    /\ pc' = "finishing"
    /\ turns' = turns + 1
    /\ transcript' = Append(transcript, Reply(turns + 1, 0, IF aborted THEN "aborted" ELSE "error"))
    /\ pending' = <<>>
    /\ UNCHANGED <<context, more, failures, queueVars, toolVars, runVars, callTurns>>

FinishRun ==
    /\ pc = "finishing"
    /\ pc' = "idle"
    /\ context' = <<>> /\ aborted' = FALSE
    /\ more' = FALSE /\ status' = <<>> /\ at' = 1 /\ allStop' = TRUE
    /\ UNCHANGED <<pending, transcript, failures, queueVars, first, skip, run, base,
                   countVars>>

-----------------------------------------------------------------------------
Owner ==
    \/ \E batch \in Batches : Prompt(batch) \/ Steer(batch) \/ FollowUp(batch)
    \/ ContinueSteering \/ ContinueFollowUp \/ Continue
    \/ \E m \in Messages : Withdraw(m)
    \/ Abort

\* What the model, the tools and the hooks do.
Others ==
    \/ StreamStarts \/ AskThrows \/ ToolReturns
    \/ \E calls \in 0..MaxCalls : ReplyDone(calls) \/ (~aborted /\ ReplyFails(calls))

\* What the loop does by itself; listeners return.
Loop ==
    \/ Start \/ RecordPrompt \/ FirstPoll \/ FirstPolled
    \/ TurnStart \/ Inject \/ Ask \/ \E calls \in 0..MaxCalls : aborted /\ ReplyFails(calls)
    \/ Prepare \/ Launch \/ Execute \/ ExecuteAll \/ ToolGivenUp \/ Joined \/ Report \/ Gather
    \/ TurnEnd \/ Turned \/ Stop \/ PollSteering \/ PollFollowUp \/ Steered \/ Followed
    \/ Continuing \/ AgentEnd \/ HandleRunFailure \/ FinishRun

Next == Owner \/ Others \/ Loop
Spec == Init /\ [][Next]_vars
\* Model, tools and hooks may never answer; the loop and the listeners go on.
FairSpec == Spec /\ WF_vars(Loop)

-----------------------------------------------------------------------------
(* Properties *)

Entries ==
    [role: {"user"}, id: Messages]
    \cup [role: {"assistant"}, id: 1..(turns + 1), calls: 0..MaxCalls,
          stop: {"done", "partial", "error", "aborted"}]
    \cup [role: {"toolResult"}, id: 1..turns, call: 1..MaxCalls]
Places == {"idle", "starting", "prompting", "firstPoll", "firstPolled", "turn", "inject",
           "unasked", "asking", "streaming", "sequential", "parallel", "execute", "executing",
           "join", "report", "reportAll", "turnEnd", "lastTurnEnd", "turned", "stopping",
           "steered", "outer", "followed", "continuing", "ending", "failed", "finishing"}

\* Types; an abort signal belongs to a run, and an idle agent holds nothing back.
TypeOK ==
    /\ pc \in Places
    /\ via \in Seq([channel: Channels, first: Nat]) /\ withdrawn \subseteq Messages
    /\ steering \in Seq(Messages) /\ followUp \in Seq(Messages) /\ pending \in Seq(Messages)
    /\ context \in Seq(Entries) /\ transcript \in Seq(Entries)
    /\ {aborted, first, skip, more, allStop} \subseteq BOOLEAN
    /\ status \in Seq(Status) /\ at \in Nat \ {0}
    /\ {run, turns, callTurns, base} \subseteq Nat /\ failures \in 0..MaxFailures
    /\ ~Active => ~aborted /\ pending = <<>> /\ context = <<>>

Submission(entry, channel) == entry.role = "user" /\ via[entry.id].channel = channel

\* Messages of one queue reach the transcript in the order they were submitted, each at
\* most once, whatever is drained, injected, continued or withdrawn in between.
InOrderOnce ==
    \A queue \in {<<"steer", steering>>, <<"followUp", followUp>>} :
        LET way == transcript \o Users(pending \o queue[2])
        IN  \A i, j \in DOMAIN way :
                i < j /\ Submission(way[i], queue[1]) /\ Submission(way[j], queue[1])
                    => way[i].id < way[j].id

UserIds(entries) == {e.id : e \in {t \in Range(entries) : t.role = "user"}}
Located == UserIds(transcript) \cup Range(pending) \cup withdrawn
           \cup Range(steering) \cup Range(followUp)

\* A message that was submitted is dropped only by an abort or a failure, and then only if
\* the loop had already taken it from its queue: a stop or an end of the run drops none.
DroppedOnlyInFlight ==
    [][Located \ Located' \subseteq
           (IF aborted \/ "failed" \in {pc, pc'} THEN Range(pending) ELSE {})]_vars

Answered(entries, since) ==
    \A p \in DOMAIN entries :
        LET e == entries[p] IN
        (e.role = "assistant" /\ e.id > since /\ e.stop = "done") =>
            \A i \in 1..e.calls : p + i \in DOMAIN entries /\ entries[p + i] = Result(e.id, i)

\* The model is asked with exactly the transcript the agent has recorded, and every call it
\* made in this run is answered, once and in the order of the calls.
RequestIsComplete == pc = "asking" => context = transcript /\ Answered(context, base)

\* An aborted run ends although the model, the tools and the hooks never answer.
AbortSettles == (Active /\ aborted) ~> ~Active
=============================================================================
