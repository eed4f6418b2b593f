-------------------------- MODULE AgentLoopProofs --------------------------
(***************************************************************************)
(* Theorems about AgentLoop, for any number of messages, batches of any    *)
(* length, any number of runs, calls and failing listeners.                *)
(***************************************************************************)
EXTENDS AgentLoop, FiniteSetTheorems, SequenceTheorems, TLAPS

-----------------------------------------------------------------------------
(* The actions by what they leave alone *)

\* Only the place of the run, its signal and its hints change.
Quiet ==
    \/ Abort \/ Start \/ FirstPolled \/ TurnStart \/ Ask \/ AskThrows
    \/ TurnEnd \/ Turned \/ Stop \/ Steered \/ Followed

\* Calls are prepared, executed and settled.
Tooling ==
    Prepare \/ Launch \/ Execute \/ ExecuteAll \/ ToolReturns \/ ToolGivenUp \/ Joined

Queues == \E batch \in Batches : Steer(batch) \/ FollowUp(batch)
Begins ==
    \/ \E batch \in Batches : Prompt(batch)
    \/ ContinueSteering \/ ContinueFollowUp \/ Continue
Polls == FirstPoll \/ PollSteering \/ PollFollowUp
Replies == \E calls \in 0..MaxCalls : ReplyDone(calls) \/ ReplyFails(calls)

LEMMA StepKinds ==
    [Next]_vars =>
        \/ Quiet \/ Tooling \/ Queues \/ Begins \/ Polls \/ Replies
        \/ \E m \in Messages : Withdraw(m)
        \/ RecordPrompt \/ Inject \/ StreamStarts \/ Report \/ Gather \/ Continuing
        \/ AgentEnd \/ HandleRunFailure \/ FinishRun \/ UNCHANGED vars
  BY DEF Next, Owner, Others, Loop, Quiet, Tooling, Queues, Begins, Polls, Replies

LEMMA QuietLeaves ==
    Quiet => UNCHANGED <<pending, context, transcript, queueVars, toolVars, run, base, countVars>>
  BY DEF Quiet, Abort, Start, FirstPolled, TurnStart, Ask, AskThrows, TurnEnd, Turned, Stop,
         Steered, Followed, queueVars, toolVars, runVars, countVars

LEMMA ToolingLeaves ==
    Tooling => UNCHANGED <<pending, context, transcript, queueVars, runVars, countVars>>
  BY DEF Tooling, Prepare, Launch, Execute, ExecuteAll, ToolReturns, ToolGivenUp, ToolEnds,
         ToolJoins, Joined, queueVars, runVars, countVars

-----------------------------------------------------------------------------
(* Places, flags and counters *)

FlagTypes ==
    /\ pc \in Places
    /\ aborted \in BOOLEAN /\ first \in BOOLEAN /\ skip \in BOOLEAN /\ more \in BOOLEAN
    /\ run \in Nat /\ turns \in Nat /\ callTurns \in Nat /\ base \in Nat
    /\ failures \in 0..MaxFailures

\* An event is heard, or its listener fails.
LEMMA HeardTypes ==
    ASSUME FlagTypes, NEW next \in Places, Heard(next)
    PROVE  pc' \in Places /\ failures' \in 0..MaxFailures
<1>1. CASE ListenerFails
  BY <1>1, BoundsAssumption DEF ListenerFails, FlagTypes, Places
<1> QED
  BY <1>1 DEF Heard, FlagTypes

LEMMA RecordedTypes ==
    ASSUME FlagTypes, NEW next \in Places, NEW entry, Recorded(entry, next)
    PROVE  pc' \in Places /\ failures' \in 0..MaxFailures
<1>1. CASE ListenerFails
  BY <1>1, BoundsAssumption DEF ListenerFails, FlagTypes, Places
<1> QED
  BY <1>1 DEF Recorded, FlagTypes

\* Where a reply leads to.
LEMMA ReplyNext ==
    Replies => \E next \in {"turnEnd", "sequential", "parallel", "lastTurnEnd"} :
                  \E reply : Replied(reply, next)
<1> DEFINE Nexts == {"turnEnd", "sequential", "parallel", "lastTurnEnd"}
<1>1. ASSUME NEW calls \in 0..MaxCalls, ReplyDone(calls)
      PROVE  \E next \in Nexts : \E reply : Replied(reply, next)
  <2>1. PICK next \in IF calls = 0 THEN {"turnEnd"} ELSE {"sequential", "parallel"} :
           Replied(Reply(turns + 1, calls, "done"), next)
    BY <1>1 DEF ReplyDone
  <2>2. next \in Nexts
    OBVIOUS
  <2> QED
    BY <2>1, <2>2
<1>2. ASSUME NEW calls \in 0..MaxCalls, ReplyFails(calls)
      PROVE  \E next \in Nexts : \E reply : Replied(reply, next)
  <2>1. \E reply : Replied(reply, "lastTurnEnd")
    BY <1>2 DEF ReplyFails
  <2> QED
    BY <2>1
<1> QED
  BY <1>1, <1>2 DEF Replies

LEMMA FlagStep == FlagTypes /\ [Next]_vars => FlagTypes'
<1> SUFFICES ASSUME FlagTypes, [Next]_vars PROVE FlagTypes'
  OBVIOUS
<1> USE DEF queueVars, toolVars, runVars, countVars
<1>1. CASE Quiet
  <2>1. UNCHANGED <<run, turns, callTurns, base>>
    BY <1>1, QuietLeaves
  <2>2. UNCHANGED <<skip, more>>
    BY <1>1 DEF Quiet, Abort, Start, FirstPolled, TurnStart, Ask, AskThrows, TurnEnd, Turned,
                Stop, Steered, Followed
  <2>3. aborted' \in BOOLEAN /\ first' \in BOOLEAN
    BY <1>1 DEF Quiet, Abort, Start, FirstPolled, TurnStart, Ask, AskThrows, TurnEnd, Turned,
                Stop, Steered, Followed, FlagTypes
  <2>4. pc' \in Places /\ failures' \in 0..MaxFailures
    <3>1. CASE Start \/ TurnEnd \/ (TurnStart /\ ~first)
      <4>1. \E next \in {"prompting", "inject", "turned", "ending"} : Heard(next)
        BY <3>1 DEF Start, TurnEnd, TurnStart
      <4> QED
        BY <4>1, HeardTypes DEF Places
    <3>2. CASE Abort \/ FirstPolled \/ Ask \/ AskThrows \/ Turned \/ Stop \/ (TurnStart /\ first)
      BY <3>2 DEF Abort, FirstPolled, Ask, AskThrows, Turned, Stop, TurnStart, FlagTypes, Places
    <3>3. CASE Steered \/ Followed
      BY <3>3 DEF Steered, Followed, NextTurn, FlagTypes, Places
    <3> QED
      BY <1>1, <3>1, <3>2, <3>3 DEF Quiet
  <2> QED
    BY <2>1, <2>2, <2>3, <2>4 DEF FlagTypes
<1>2. CASE Tooling
  <2>1. UNCHANGED <<run, turns, callTurns, base, aborted, first, skip>>
    BY <1>2, ToolingLeaves
  <2>2. more' = more
    BY <1>2 DEF Tooling, Prepare, Launch, Execute, ExecuteAll, ToolReturns, ToolGivenUp, ToolEnds,
                ToolJoins, Joined
  <2>3. pc' \in Places /\ failures' \in 0..MaxFailures
    <3>1. CASE Prepare \/ Launch \/ \E i \in DOMAIN status, hint \in BOOLEAN : ToolJoins(i, hint)
      <4>1. \E next \in {"execute", "report", "parallel", "join"} : Heard(next)
        BY <3>1 DEF Prepare, Launch, ToolJoins
      <4> QED
        BY <4>1, HeardTypes DEF Places
    <3>2. CASE Execute \/ ExecuteAll \/ Joined
                 \/ \E i \in DOMAIN status, hint \in BOOLEAN : ToolEnds(i, hint)
      BY <3>2 DEF Execute, ExecuteAll, Joined, ToolEnds, FlagTypes, Places
    <3> QED
      BY <1>2, <3>1, <3>2 DEF Tooling, ToolReturns, ToolGivenUp
  <2> QED
    BY <2>1, <2>2, <2>3 DEF FlagTypes
<1>3. CASE Queues \/ (\E m \in Messages : Withdraw(m)) \/ UNCHANGED vars
  BY <1>3 DEF Queues, Steer, FollowUp, Withdraw, vars, FlagTypes
<1>4. CASE Begins
  <2>1. PICK messages : Begin(messages, FALSE) \/ Begin(messages, TRUE)
    BY <1>4 DEF Begins, Prompt, ContinueSteering, ContinueFollowUp, Continue
  <2>2. aborted' \in BOOLEAN /\ first' \in BOOLEAN /\ skip' \in BOOLEAN
    BY <2>1 DEF Begin
  <2>3. pc' = "starting" /\ run' = run + 1 /\ base' = turns
        /\ UNCHANGED <<more, failures, turns, callTurns>>
    BY <2>1 DEF Begin
  <2> QED
    BY <2>2, <2>3 DEF FlagTypes, Places
<1>5. CASE Polls
  BY <1>5 DEF Polls, FirstPoll, PollSteering, PollFollowUp, FlagTypes, Places
<1>6. CASE Replies
  <2>1. PICK calls \in 0..MaxCalls : ReplyDone(calls) \/ ReplyFails(calls)
    BY <1>6 DEF Replies
  <2>2. PICK next \in {"turnEnd", "sequential", "parallel", "lastTurnEnd"} :
           \E reply : Replied(reply, next)
    BY <1>6, ReplyNext
  <2>3. Heard(next) \/ \E reply : Recorded(reply, next)
    BY <2>2 DEF Replied
  <2>4. pc' \in Places /\ failures' \in 0..MaxFailures
    BY <2>3, HeardTypes, RecordedTypes DEF Places
  <2>5. turns' = turns + 1
    BY <2>2 DEF Replied
  <2>6. callTurns' \in {callTurns, callTurns + 1} /\ more' \in {more, FALSE}
        /\ UNCHANGED <<aborted, first, skip, run, base>>
    BY <2>1 DEF ReplyDone, ReplyFails
  <2>7. more' \in BOOLEAN
    BY <2>6 DEF FlagTypes
  <2>8. turns' \in Nat /\ callTurns' \in Nat
    BY <2>5, <2>6 DEF FlagTypes
  <2> QED
    BY <2>4, <2>6, <2>7, <2>8 DEF FlagTypes
<1>7. CASE RecordPrompt \/ Inject \/ StreamStarts \/ Report
  <2>1. UNCHANGED <<aborted, first, skip, run, base, turns, callTurns, more>>
    BY <1>7 DEF RecordPrompt, Inject, StreamStarts, Report
  <2>2. \/ \E next \in Places : Heard(next) \/ \E entry : Recorded(entry, next)
        \/ pc' = "firstPoll" /\ UNCHANGED failures
    BY <1>7 DEF RecordPrompt, Inject, StreamStarts, Report, FlagTypes, Places
  <2>3. pc' \in Places /\ failures' \in 0..MaxFailures
    BY <2>2, HeardTypes, RecordedTypes DEF Places, FlagTypes
  <2> QED
    BY <2>1, <2>3 DEF FlagTypes
<1>8. CASE Gather
  BY <1>8 DEF Gather, FlagTypes, Places
<1>9. CASE Continuing
  BY <1>9 DEF Continuing, NextTurn, FlagTypes, Places
<1>10. CASE AgentEnd
  <2>1. pc' \in Places /\ failures' \in 0..MaxFailures
    BY <1>10, HeardTypes DEF AgentEnd, Places
  <2> QED
    BY <1>10, <2>1 DEF AgentEnd, FlagTypes
<1>11. CASE HandleRunFailure
  BY <1>11 DEF HandleRunFailure, FlagTypes, Places
<1>12. CASE FinishRun
  BY <1>12 DEF FinishRun, FlagTypes, Places
<1> QED
  BY <1>1, <1>2, <1>3, <1>4, <1>5, <1>6, <1>7, <1>8, <1>9, <1>10, <1>11, <1>12, StepKinds

-----------------------------------------------------------------------------
(* Messages and queues *)

QueueTypes ==
    /\ via \in Seq([channel: Channels, first: Nat]) /\ withdrawn \subseteq Messages
    /\ steering \in Seq(Messages) /\ followUp \in Seq(Messages) /\ pending \in Seq(Messages)

\* Taking from the front of a sequence, or taking a piece out of it.
LEMMA Pieces ==
    ASSUME NEW S, NEW s \in Seq(S), NEW a \in 0..Len(s), NEW b \in a..Len(s)
    PROVE  /\ SubSeq(s, 1, a) \in Seq(S) /\ SubSeq(s, b + 1, Len(s)) \in Seq(S)
           /\ Len(SubSeq(s, 1, a)) = a /\ Len(SubSeq(s, b + 1, Len(s))) = Len(s) - b
           /\ \A i \in 1..a : SubSeq(s, 1, a)[i] = s[i]
           /\ \A i \in 1..(Len(s) - b) : SubSeq(s, b + 1, Len(s))[i] = s[b + i]
<1>1. Len(s) \in Nat
  BY LenProperties
<1>2. \A i \in 1..a : s[i] \in S
  BY <1>1, ElementOfSeq
<1>3. \A i \in (b + 1)..Len(s) : s[i] \in S
  BY <1>1, ElementOfSeq
<1> QED
  BY <1>1, <1>2, <1>3, SubSeqProperties

LEMMA DrainTypes ==
    ASSUME NEW S, NEW queue \in Seq(S), NEW n \in Drains(queue)
    PROVE  Taken(queue, n) \in Seq(S) /\ Rest(queue, n) \in Seq(S)
<1>1. n \in 0..Len(queue) /\ n \in n..Len(queue)
  BY LenProperties DEF Drains
<1> QED
  BY <1>1, Pieces DEF Taken, Rest

LEMMA WithoutTypes ==
    ASSUME NEW S, NEW queue \in Seq(S), NEW gone, NEW rest, Without(queue, gone, rest)
    PROVE  rest \in Seq(S)
<1>1. PICK a \in 0..Len(queue) : \E b \in a..Len(queue) :
         rest = SubSeq(queue, 1, a) \o SubSeq(queue, b + 1, Len(queue))
  BY DEF Without
<1>2. PICK b \in a..Len(queue) :
         rest = SubSeq(queue, 1, a) \o SubSeq(queue, b + 1, Len(queue))
  BY <1>1
<1>3. SubSeq(queue, 1, a) \in Seq(S) /\ SubSeq(queue, b + 1, Len(queue)) \in Seq(S)
  BY Pieces
<1> QED
  BY <1>2, <1>3, ConcatProperties

\* A new batch continues the numbering of the messages.
LEMMA BatchTypes ==
    ASSUME QueueTypes, NEW batch \in Batches, NEW channel \in Channels, Submitted(batch, channel)
    PROVE  /\ via' \in Seq([channel: Channels, first: Nat])
           /\ Len(via') = Len(via) + Len(batch) /\ Len(via) \in Nat /\ Len(batch) \in Nat \ {0}
           /\ batch \in Seq(Messages') /\ Messages \subseteq Messages'
           /\ DOMAIN batch = 1..Len(batch) /\ \A i \in DOMAIN batch : batch[i] = Len(via) + i
           /\ \A m \in Messages : via'[m] = via[m]
           /\ \A m \in Messages' \ Messages : via'[m].channel = channel
<1>1. Len(via) \in Nat
  BY LenProperties DEF QueueTypes
<1>2. PICK n \in 1..(MaxMessages - Len(via)) : batch = [i \in 1..n |-> Len(via) + i]
  BY DEF Batches
<1>3. n \in Nat \ {0} /\ batch \in Seq(Nat) /\ Len(batch) = n /\ DOMAIN batch = 1..n
  BY <1>1, <1>2, BoundsAssumption
<1>4. Head(batch) = Len(via) + 1
  BY <1>2, <1>3
<1> DEFINE how == [i \in DOMAIN batch |-> [channel |-> channel, first |-> Head(batch)]]
<1>5. how \in Seq([channel: Channels, first: Nat]) /\ Len(how) = n
      /\ \A i \in 1..n : how[i].channel = channel
  BY <1>1, <1>3, <1>4
<1>6. via' = via \o how
  BY DEF Submitted
<1> HIDE DEF how
<1>7. /\ via' \in Seq([channel: Channels, first: Nat])
      /\ Len(via') = Len(via) + n
      /\ \A i \in 1..(Len(via) + n) : via'[i] = IF i <= Len(via) THEN via[i] ELSE how[i - Len(via)]
  BY <1>5, <1>6, ConcatProperties DEF QueueTypes
<1>8. Messages' = 1..(Len(via) + n) /\ Messages = 1..Len(via)
  BY <1>7 DEF Messages
<1>9. batch \in Seq(Messages')
  BY <1>1, <1>2, <1>3, <1>8
<1>10. \A m \in Messages : via'[m] = via[m]
  BY <1>1, <1>3, <1>7, <1>8
<1>11. ASSUME NEW m \in Messages' \ Messages PROVE via'[m].channel = channel
  <2>1. m \in 1..(Len(via) + n) /\ ~(m <= Len(via)) /\ m - Len(via) \in 1..n
    BY <1>1, <1>3, <1>8
  <2>2. via'[m] = how[m - Len(via)]
    BY <1>7, <2>1
  <2> QED
    BY <1>5, <2>1, <2>2
<1> QED
  BY <1>1, <1>2, <1>3, <1>7, <1>8, <1>9, <1>10, <1>11

LEMMA PollTypes ==
    ASSUME NEW S, NEW queue \in Seq(S), NEW rest, Polled(queue, rest)
    PROVE  pending' \in Seq(S) /\ rest \in Seq(S)
<1>1. CASE aborted
  BY <1>1 DEF Polled
<1>2. CASE ~aborted
  BY <1>2, DrainTypes DEF Polled
<1> QED
  BY <1>1, <1>2

LEMMA QueueStep == QueueTypes /\ [Next]_vars => QueueTypes'
<1> SUFFICES ASSUME QueueTypes, [Next]_vars PROVE QueueTypes'
  OBVIOUS
<1> USE DEF queueVars
<1>1. ASSUME UNCHANGED queueVars, pending' \in {pending, <<>>} PROVE QueueTypes'
  <2>1. Messages' = Messages
    BY <1>1 DEF Messages
  <2>2. pending' \in Seq(Messages)
    <3>1. pending \in Seq(Messages) /\ <<>> \in Seq(Messages)
      BY DEF QueueTypes
    <3> QED
      BY <1>1, <3>1
  <2> QED
    BY <1>1, <2>1, <2>2 DEF QueueTypes
<1>2. CASE \/ Quiet \/ Tooling \/ Replies \/ StreamStarts \/ Report \/ Gather \/ AgentEnd
           \/ HandleRunFailure \/ FinishRun \/ UNCHANGED vars
  <2>1. UNCHANGED queueVars /\ pending' \in {pending, <<>>}
    BY <1>2, QuietLeaves, ToolingLeaves
       DEF Replies, ReplyDone, ReplyFails, StreamStarts, Report, Gather, AgentEnd,
           HandleRunFailure, FinishRun, vars
  <2> QED
    BY <1>1, <2>1
<1>3. ASSUME NEW batch \in Batches, NEW channel \in Channels, Submitted(batch, channel),
             withdrawn' = withdrawn, steering' \in {steering, steering \o batch},
             followUp' \in {followUp, followUp \o batch}, pending' \in {pending, batch}
      PROVE  QueueTypes'
  <2>1. /\ via' \in Seq([channel: Channels, first: Nat])
        /\ batch \in Seq(Messages') /\ Messages \subseteq Messages'
    BY <1>3, BatchTypes
  <2>2. steering \in Seq(Messages') /\ followUp \in Seq(Messages') /\ pending \in Seq(Messages')
    BY <2>1, SeqMonotonic DEF QueueTypes
  <2>3. steering \o batch \in Seq(Messages') /\ followUp \o batch \in Seq(Messages')
    BY <2>1, <2>2, ConcatProperties
  <2> QED
    BY <1>3, <2>1, <2>2, <2>3 DEF QueueTypes
<1>4. CASE Queues
  BY <1>3, <1>4 DEF Queues, Steer, FollowUp, Channels
<1>5. CASE Begins
  <2>1. CASE \E batch \in Batches : Prompt(batch)
    BY <1>3, <2>1 DEF Prompt, Begin, Channels
  <2>2. CASE ContinueSteering \/ ContinueFollowUp
    <3>1. UNCHANGED <<via, withdrawn>> /\ pending' \in Seq(Messages)
          /\ steering' \in Seq(Messages) /\ followUp' \in Seq(Messages)
      BY <2>2, DrainTypes DEF ContinueSteering, ContinueFollowUp, Begin, QueueTypes
    <3> QED
      BY <3>1 DEF QueueTypes, Messages
  <2>3. CASE Continue
    BY <1>1, <2>3 DEF Continue, Begin
  <2> QED
    BY <1>5, <2>1, <2>2, <2>3 DEF Begins
<1>6. CASE Polls
  <2>1. UNCHANGED <<via, withdrawn>> /\ pending' \in Seq(Messages)
        /\ steering' \in Seq(Messages) /\ followUp' \in Seq(Messages)
    <3>1. CASE FirstPoll
      <4>1. CASE skip
        BY <3>1, <4>1 DEF FirstPoll, QueueTypes
      <4>2. CASE ~skip
        BY <3>1, <4>2, PollTypes DEF FirstPoll, QueueTypes
      <4> QED
        BY <4>1, <4>2
    <3>2. CASE PollSteering
      BY <3>2, PollTypes DEF PollSteering, QueueTypes
    <3>3. CASE PollFollowUp
      BY <3>3, PollTypes DEF PollFollowUp, QueueTypes
    <3> QED
      BY <1>6, <3>1, <3>2, <3>3 DEF Polls
  <2> QED
    BY <2>1 DEF QueueTypes, Messages
<1>7. ASSUME NEW m \in Messages, Withdraw(m) PROVE QueueTypes'
  <2>1. UNCHANGED <<via, pending>> /\ withdrawn' = withdrawn \cup BatchOf(m)
        /\ steering' \in Seq(Messages) /\ followUp' \in Seq(Messages)
    BY <1>7, WithoutTypes DEF Withdraw, QueueTypes
  <2> QED
    BY <2>1 DEF QueueTypes, BatchOf, Messages
<1>8. CASE RecordPrompt \/ Inject
  <2>1. UNCHANGED queueVars /\ (pending' = pending \/ (pending # <<>> /\ pending' = Tail(pending)))
    BY <1>8 DEF RecordPrompt, Inject
  <2>2. pending' \in Seq(Messages)
    BY <2>1, HeadTailProperties DEF QueueTypes
  <2> QED
    BY <2>1, <2>2 DEF QueueTypes, Messages
<1>9. CASE Continuing
  BY <1>1, <1>3, <1>9 DEF Continuing, Channels
<1> QED
  BY <1>2, <1>4, <1>5, <1>6, <1>7, <1>8, <1>9, StepKinds

-----------------------------------------------------------------------------
(* The calls of a reply *)

OneByOne == {"sequential", "execute", "executing", "report"}
Tools == OneByOne \cup {"parallel", "join", "reportAll"}

\* While calls are handled the next one is theirs, or all were taken.
CallsInHand ==
    /\ Len(status) \in 1..MaxCalls /\ at \in 1..(Len(status) + 1)
    /\ pc \in {"execute", "executing", "report"} => at <= Len(status)
ToolTypes ==
    /\ status \in Seq(Status) /\ at \in Nat \ {0} /\ allStop \in BOOLEAN
    /\ pc \in Tools => CallsInHand

\* After an event the run goes on, or has failed.
LEMMA HeardPlaces ==
    ASSUME NEW next, NEW entry, Heard(next) \/ Recorded(entry, next)
    PROVE  pc' \in {next, "failed"}
  BY DEF Heard, Recorded, ListenerFails

\* Away from the calls, no step comes to handle calls unless it is a reply.
LEMMA OutsideTools ==
    ASSUME Quiet \/ Queues \/ Begins \/ Polls \/ (\E m \in Messages : Withdraw(m))
           \/ RecordPrompt \/ Inject \/ StreamStarts \/ Gather \/ Continuing \/ AgentEnd
           \/ HandleRunFailure \/ UNCHANGED vars
    PROVE  UNCHANGED toolVars /\ (pc' = pc \/ pc' \notin Tools)
<1> USE DEF toolVars
<1>1. CASE Quiet
  <2>1. UNCHANGED toolVars
    BY <1>1, QuietLeaves
  <2>2. CASE Start \/ TurnEnd \/ (TurnStart /\ ~first)
    <3>1. PICK next \in {"prompting", "inject", "turned", "ending"} : Heard(next)
      BY <2>2 DEF Start, TurnEnd, TurnStart
    <3>2. pc' \in {next, "failed"}
      BY <3>1, HeardPlaces
    <3> QED
      BY <2>1, <3>1, <3>2 DEF Tools, OneByOne
  <2>3. CASE Abort \/ FirstPolled \/ Ask \/ AskThrows \/ Turned \/ Stop \/ (TurnStart /\ first)
    BY <2>1, <2>3 DEF Abort, FirstPolled, Ask, AskThrows, Turned, Stop, TurnStart, Tools, OneByOne
  <2>4. CASE Steered \/ Followed
    BY <2>1, <2>4 DEF Steered, Followed, NextTurn, Tools, OneByOne
  <2> QED
    BY <1>1, <2>2, <2>3, <2>4 DEF Quiet
<1>2. CASE Queues \/ (\E m \in Messages : Withdraw(m)) \/ UNCHANGED vars
  BY <1>2 DEF Queues, Steer, FollowUp, Withdraw, vars
<1>3. CASE Begins
  <2>1. PICK messages, skipPoll : Begin(messages, skipPoll)
    BY <1>3 DEF Begins, Prompt, ContinueSteering, ContinueFollowUp, Continue
  <2> QED
    BY <2>1 DEF Begin, Tools, OneByOne
<1>4. CASE Polls
  BY <1>4 DEF Polls, FirstPoll, PollSteering, PollFollowUp, Tools, OneByOne
<1>5. CASE RecordPrompt
  <2>1. UNCHANGED toolVars /\ pc = "prompting"
        /\ (pc' = "firstPoll" \/ \E entry : Recorded(entry, pc))
    BY <1>5 DEF RecordPrompt
  <2>2. pc' \in {"firstPoll", pc, "failed"}
    BY <2>1, HeardPlaces
  <2> QED
    BY <2>1, <2>2 DEF Tools, OneByOne
<1>6. CASE Inject
  <2>1. UNCHANGED toolVars /\ pc = "inject" /\ \E entry : Recorded(entry, pc)
    BY <1>6 DEF Inject
  <2>2. pc' \in {pc, "failed"}
    BY <2>1, HeardPlaces
  <2> QED
    BY <2>1, <2>2 DEF Tools, OneByOne
<1>7. CASE StreamStarts \/ AgentEnd
  <2>1. UNCHANGED toolVars /\ (Heard("streaming") \/ Heard("finishing"))
    BY <1>7 DEF StreamStarts, AgentEnd
  <2>2. pc' \in {"streaming", "finishing", "failed"}
    BY <2>1, HeardPlaces
  <2> QED
    BY <2>1, <2>2 DEF Tools, OneByOne
<1>8. CASE Gather \/ Continuing \/ HandleRunFailure
  BY <1>8 DEF Gather, Continuing, NextTurn, HandleRunFailure, Tools, OneByOne
<1> QED
  BY <1>1, <1>2, <1>3, <1>4, <1>5, <1>6, <1>7, <1>8

\* Preparing, executing and settling keep the number of calls.
LEMMA ToolingTypes ==
    ASSUME ToolTypes, Tooling
    PROVE  status' \in Seq(Status) /\ Len(status') = Len(status) /\ allStop' \in BOOLEAN
<1>1. DOMAIN status = 1..Len(status) /\ Len(status) \in Nat
      /\ \A i \in DOMAIN status : status[i] \in Status
  BY LenProperties, ElementOfSeq DEF ToolTypes
<1> DEFINE Fits(new) == DOMAIN new = 1..Len(status) /\ \A i \in 1..Len(status) : new[i] \in Status
<1>0. ASSUME NEW new, new = [i \in 1..Len(status) |-> new[i]], Fits(new)
      PROVE  new \in Seq(Status) /\ Len(new) = Len(status)
  <2>1. new \in [1..Len(status) -> Status]
    BY <1>0
  <2> QED
    BY <1>1, <2>1
<1>2. ASSUME NEW call, NEW s \in Status, status' = [status EXCEPT ![call] = s]
      PROVE  status' \in Seq(Status) /\ Len(status') = Len(status)
  <2>1. status' = [i \in 1..Len(status) |-> IF i = call THEN s ELSE status[i]]
    BY <1>1, <1>2
  <2>2. status' = [i \in 1..Len(status) |-> status'[i]] /\ Fits(status')
    BY <1>1, <2>1
  <2> QED
    BY <1>0, <2>2
<1>3. ASSUME NEW call, NEW hint \in BOOLEAN, Settled(call, hint)
      PROVE  status' \in Seq(Status) /\ Len(status') = Len(status) /\ allStop' \in BOOLEAN
  <2>1. "settled" \in Status
    BY DEF Status
  <2> QED
    BY <1>2, <1>3, <2>1 DEF Settled, ToolTypes
<1>4. CASE Prepare
  <2>1. CASE status' = [status EXCEPT ![at] = "prepared"] /\ UNCHANGED allStop
    BY <1>2, <2>1 DEF ToolTypes, Status
  <2>2. CASE Settled(at, FALSE)
    BY <1>3, <2>2
  <2> QED
    BY <1>4, <2>1, <2>2 DEF Prepare
<1>5. CASE Launch
  <2>1. CASE status' = [status EXCEPT ![at] = "prepared"] /\ UNCHANGED allStop
    BY <1>2, <2>1 DEF ToolTypes, Status
  <2>2. CASE Settled(at, FALSE)
    BY <1>3, <2>2
  <2> QED
    BY <1>5, <2>1, <2>2 DEF Launch
<1>6. CASE Execute \/ ExecuteAll
  <2>1. PICK calls : status' = Run(calls) /\ UNCHANGED allStop
    BY <1>6 DEF Execute, ExecuteAll
  <2>2. status' = [i \in 1..Len(status) |-> status'[i]] /\ Fits(status')
    BY <1>1, <2>1 DEF Run, Status
  <2>3. status' \in Seq(Status) /\ Len(status') = Len(status)
    BY <1>0, <2>2
  <2> QED
    BY <2>1, <2>3 DEF ToolTypes
<1>7. CASE ToolReturns \/ ToolGivenUp
  <2>1. PICK i \in DOMAIN status : \E hint \in BOOLEAN : Settled(i, hint)
    BY <1>7 DEF ToolReturns, ToolGivenUp, ToolEnds, ToolJoins
  <2> QED
    BY <1>3, <2>1
<1>8. CASE Joined
  BY <1>8 DEF Joined, ToolTypes
<1> QED
  BY <1>4, <1>5, <1>6, <1>7, <1>8 DEF Tooling

LEMMA ToolStep == ToolTypes /\ [Next]_vars => ToolTypes'
<1> SUFFICES ASSUME ToolTypes, [Next]_vars PROVE ToolTypes'
  OBVIOUS
<1> USE DEF toolVars
<1>1. Len(status) \in Nat /\ at \in Nat \ {0} /\ MaxCalls \in Nat
  BY LenProperties, BoundsAssumption DEF ToolTypes
<1>2. CASE Quiet \/ Queues \/ Begins \/ Polls \/ (\E m \in Messages : Withdraw(m))
           \/ RecordPrompt \/ Inject \/ StreamStarts \/ Gather \/ Continuing \/ AgentEnd
           \/ HandleRunFailure \/ UNCHANGED vars
  <2>1. UNCHANGED toolVars /\ (pc' = pc \/ pc' \notin Tools)
    BY <1>2, OutsideTools
  <2> QED
    BY <2>1 DEF ToolTypes, CallsInHand
<1>3. CASE Tooling
  <2>1. status' \in Seq(Status) /\ Len(status') = Len(status) /\ allStop' \in BOOLEAN
    BY <1>3, ToolingTypes
  <2>2. pc \in Tools /\ at' \in Nat \ {0} /\ (pc' \in Tools => CallsInHand')
    <3>1. CASE Prepare
      <4>1. /\ pc = "sequential" /\ at <= Len(status) /\ at' = at
            /\ \E next \in {"execute", "report"} : Heard(next)
        BY <3>1 DEF Prepare
      <4>2. pc' \in {"execute", "report", "failed"}
        BY <4>1, HeardPlaces
      <4> QED
        BY <1>1, <2>1, <4>1, <4>2 DEF ToolTypes, CallsInHand, Tools, OneByOne
    <3>2. CASE Launch
      <4>1. pc = "parallel" /\ at <= Len(status) /\ at' = at + 1 /\ pc' \in {"parallel", "failed"}
        BY <3>2, HeardPlaces DEF Launch
      <4> QED
        BY <1>1, <2>1, <4>1 DEF ToolTypes, CallsInHand, Tools, OneByOne
    <3>3. CASE Execute \/ ExecuteAll
      <4>1. at' = at /\ ((pc = "execute" /\ pc' = "executing") \/ (pc = "parallel" /\ pc' = "join"))
        BY <3>3 DEF Execute, ExecuteAll
      <4> QED
        BY <1>1, <2>1, <4>1 DEF ToolTypes, CallsInHand, Tools, OneByOne
    <3>4. CASE ToolReturns \/ ToolGivenUp
      <4>1. PICK i \in DOMAIN status : \E hint \in BOOLEAN : ToolEnds(i, hint) \/ ToolJoins(i, hint)
        BY <3>4 DEF ToolReturns, ToolGivenUp
      <4>2. /\ at' = at
            /\ (pc = "executing" /\ pc' = "report") \/ (pc = "join" /\ pc' \in {"join", "failed"})
        BY <4>1, HeardPlaces DEF ToolEnds, ToolJoins
      <4> QED
        BY <1>1, <2>1, <4>2 DEF ToolTypes, CallsInHand, Tools, OneByOne
    <3>5. CASE Joined
      <4>1. pc = "join" /\ pc' = "reportAll" /\ at' = 1
        BY <3>5 DEF Joined
      <4> QED
        BY <1>1, <2>1, <4>1 DEF ToolTypes, CallsInHand, Tools, OneByOne
    <3> QED
      BY <1>3, <3>1, <3>2, <3>3, <3>4, <3>5 DEF Tooling
  <2> QED
    BY <2>1, <2>2 DEF ToolTypes
<1>4. ASSUME NEW calls \in 0..MaxCalls, ReplyDone(calls) PROVE ToolTypes'
  <2>1. status' = [i \in 1..calls |-> "waiting"] /\ at' = 1 /\ allStop' = TRUE
    BY <1>4 DEF ReplyDone
  <2>2. status' \in Seq(Status) /\ Len(status') = calls
    BY <1>1, <2>1 DEF Status
  <2>3. calls = 0 => pc' \notin Tools
    <3> SUFFICES ASSUME calls = 0 PROVE pc' \notin Tools
      OBVIOUS
    <3>1. \E reply : Replied(reply, "turnEnd")
      BY <1>4 DEF ReplyDone
    <3>2. Heard("turnEnd") \/ \E reply : Recorded(reply, "turnEnd")
      BY <3>1 DEF Replied
    <3>3. pc' \in {"turnEnd", "failed"}
      BY <3>2, HeardPlaces
    <3> QED
      BY <3>3 DEF Tools, OneByOne
  <2>4. calls # 0 => pc' \notin {"execute", "executing", "report"}
    <3> SUFFICES ASSUME calls # 0 PROVE pc' \notin {"execute", "executing", "report"}
      OBVIOUS
    <3>1. PICK next \in {"sequential", "parallel"} : \E reply : Replied(reply, next)
      BY <1>4 DEF ReplyDone
    <3>2. Heard(next) \/ \E reply : Recorded(reply, next)
      BY <3>1 DEF Replied
    <3>3. pc' \in {next, "failed"}
      BY <3>2, HeardPlaces
    <3> QED
      BY <3>3
  <2>5. calls # 0 => CallsInHand'
    BY <1>1, <2>1, <2>2, <2>4 DEF CallsInHand
  <2> QED
    BY <2>1, <2>2, <2>3, <2>5 DEF ToolTypes
<1>5. ASSUME NEW calls \in 0..MaxCalls, ReplyFails(calls) PROVE ToolTypes'
  <2>1. UNCHANGED toolVars /\ \E reply : Replied(reply, "lastTurnEnd")
    BY <1>5 DEF ReplyFails
  <2>2. Heard("lastTurnEnd") \/ \E reply : Recorded(reply, "lastTurnEnd")
    BY <2>1 DEF Replied
  <2>3. pc' \in {"lastTurnEnd", "failed"}
    BY <2>2, HeardPlaces
  <2> QED
    BY <2>1, <2>3 DEF ToolTypes, Tools, OneByOne
<1>6. CASE Report
  <2>1. /\ UNCHANGED <<status, allStop>> /\ at' = at + 1
        /\ \/ pc = "report" /\ \E entry : Recorded(entry, "sequential")
           \/ pc = "reportAll" /\ at <= Len(status) /\ \E entry : Recorded(entry, "reportAll")
    BY <1>6 DEF Report
  <2>2. \/ pc = "report" /\ pc' \in {"sequential", "failed"}
        \/ pc = "reportAll" /\ at <= Len(status) /\ pc' \in {"reportAll", "failed"}
    BY <2>1, HeardPlaces
  <2> QED
    BY <1>1, <2>1, <2>2 DEF ToolTypes, CallsInHand, Tools, OneByOne
<1>7. CASE FinishRun
  <2>1. status' = <<>> /\ at' = 1 /\ allStop' = TRUE /\ pc' = "idle"
    BY <1>7 DEF FinishRun
  <2> QED
    BY <2>1 DEF ToolTypes, Tools, OneByOne
<1> QED
  BY <1>2, <1>3, <1>4, <1>5, <1>6, <1>7, StepKinds DEF Replies

-----------------------------------------------------------------------------
(* What was taken from a queue is held only on the way into the transcript *)

Carrying == {"starting", "prompting", "firstPolled", "turn", "inject", "steered", "followed", "failed"}
InFlight == pending # <<>> => pc \in Carrying \/ (pc = "ending" /\ aborted)
AtRest == ~Active => ~aborted /\ context = <<>>

LEMMA InFlightStep == InFlight /\ [Next]_vars => InFlight'
<1> SUFFICES ASSUME InFlight, [Next]_vars PROVE InFlight'
  OBVIOUS
<1>1. CASE Quiet
  <2>1. pending' = pending
    BY <1>1, QuietLeaves
  <2>2. CASE Start \/ TurnEnd \/ (TurnStart /\ ~first)
    <3>1. \/ pc = "starting" /\ pc' \in {"prompting", "failed"}
          \/ pc = "turnEnd" \/ pc = "lastTurnEnd"
          \/ pc = "turn" /\ pc' \in {"inject", "failed"}
      BY <2>2, HeardPlaces DEF Start, TurnEnd, TurnStart
    <3> QED
      BY <2>1, <3>1 DEF InFlight, Carrying
  <2>3. CASE Abort
    BY <2>1, <2>3 DEF Abort, InFlight
  <2>4. CASE FirstPolled \/ Ask \/ AskThrows \/ Turned \/ Stop \/ (TurnStart /\ first)
    BY <2>1, <2>4 DEF FirstPolled, Ask, AskThrows, Turned, Stop, TurnStart, InFlight, Carrying
  <2>5. CASE Steered \/ Followed
    BY <2>1, <2>5 DEF Steered, Followed, NextTurn, InFlight, Carrying, runVars
  <2> QED
    BY <1>1, <2>2, <2>3, <2>4, <2>5 DEF Quiet
<1>2. CASE Tooling \/ Replies \/ StreamStarts \/ Report \/ Gather
  <2>1. UNCHANGED pending
    BY <1>2, ToolingLeaves DEF Replies, ReplyDone, ReplyFails, StreamStarts, Report, Gather
  <2>2. pc \notin Carrying /\ pc # "ending"
    <3>1. CASE Tooling
      BY <3>1 DEF Tooling, Prepare, Launch, Execute, ExecuteAll, ToolReturns, ToolGivenUp,
                  ToolEnds, ToolJoins, Joined, Carrying
    <3>2. CASE Replies \/ StreamStarts \/ Report \/ Gather
      BY <3>2 DEF Replies, ReplyDone, ReplyFails, StreamStarts, Report, Gather, Carrying
    <3> QED
      BY <1>2, <3>1, <3>2
  <2> QED
    BY <2>1, <2>2 DEF InFlight
<1>3. CASE Queues \/ (\E m \in Messages : Withdraw(m)) \/ UNCHANGED vars
  BY <1>3 DEF Queues, Steer, FollowUp, Withdraw, vars, runVars, InFlight
<1>4. CASE Begins
  BY <1>4 DEF Begins, Prompt, ContinueSteering, ContinueFollowUp, Continue, Begin, InFlight,
              Carrying
<1>5. CASE Polls
  <2>1. CASE FirstPoll \/ PollSteering
    BY <2>1 DEF FirstPoll, PollSteering, InFlight, Carrying
  <2>2. CASE PollFollowUp
    BY <2>2 DEF PollFollowUp, InFlight, Carrying
  <2> QED
    BY <1>5, <2>1, <2>2 DEF Polls
<1>6. CASE RecordPrompt \/ Inject
  <2>1. \/ pc' = "firstPoll" /\ pending = <<>> /\ pending' = pending
        \/ pc \in Carrying /\ \E entry : Recorded(entry, pc)
    BY <1>6 DEF RecordPrompt, Inject, Carrying
  <2>2. (pending' # <<>>) => pc' \in Carrying
    BY <2>1, HeardPlaces DEF Carrying
  <2> QED
    BY <2>2 DEF InFlight
<1>7. CASE Continuing
  BY <1>7 DEF Continuing, NextTurn, InFlight, Carrying
<1>8. CASE AgentEnd \/ HandleRunFailure
  BY <1>8 DEF AgentEnd, HandleRunFailure, InFlight
<1>9. CASE FinishRun
  BY <1>9 DEF FinishRun, InFlight, Carrying
<1> QED
  BY <1>1, <1>2, <1>3, <1>4, <1>5, <1>6, <1>7, <1>8, <1>9, StepKinds

LEMMA AtRestStep == AtRest /\ [Next]_vars => AtRest'
<1> SUFFICES ASSUME AtRest, [Next]_vars, ~Active' PROVE ~aborted' /\ context' = <<>>
  BY DEF AtRest
<1>1. CASE FinishRun
  BY <1>1 DEF FinishRun
<1>2. CASE Queues \/ (\E m \in Messages : Withdraw(m)) \/ UNCHANGED vars
  BY <1>2 DEF Queues, Steer, FollowUp, Withdraw, vars, runVars, AtRest, Active
<1>3. ASSUME Quiet \/ Tooling \/ Begins \/ Polls \/ Replies \/ RecordPrompt \/ Inject
             \/ StreamStarts \/ Report \/ Gather \/ Continuing \/ AgentEnd \/ HandleRunFailure
      PROVE  pc' # "idle"
  <2>1. ASSUME NEW next \in Places \ {"idle"}, Heard(next) \/ \E entry : Recorded(entry, next)
        PROVE  pc' # "idle"
    BY <2>1, HeardPlaces
  <2>2. CASE Quiet
    <3>1. CASE Start \/ TurnEnd \/ (TurnStart /\ ~first)
      <4>1. \E next \in {"prompting", "inject", "turned", "ending"} : Heard(next)
        BY <3>1 DEF Start, TurnEnd, TurnStart
      <4> QED
        BY <2>1, <4>1 DEF Places
    <3>2. CASE Abort \/ FirstPolled \/ Ask \/ AskThrows \/ Turned \/ Stop \/ (TurnStart /\ first)
      BY <3>2 DEF Abort, Active, FirstPolled, Ask, AskThrows, Turned, Stop, TurnStart
    <3>3. CASE Steered \/ Followed
      BY <3>3 DEF Steered, Followed, NextTurn
    <3> QED
      BY <2>2, <3>1, <3>2, <3>3 DEF Quiet
  <2>3. CASE Tooling
    <3>1. CASE Prepare \/ Launch \/ \E i \in DOMAIN status, hint \in BOOLEAN : ToolJoins(i, hint)
      <4>1. \E next \in {"execute", "report", "parallel", "join"} : Heard(next)
        BY <3>1 DEF Prepare, Launch, ToolJoins
      <4> QED
        BY <2>1, <4>1 DEF Places
    <3>2. CASE Execute \/ ExecuteAll \/ Joined
                 \/ \E i \in DOMAIN status, hint \in BOOLEAN : ToolEnds(i, hint)
      BY <3>2 DEF Execute, ExecuteAll, Joined, ToolEnds
    <3> QED
      BY <2>3, <3>1, <3>2 DEF Tooling, ToolReturns, ToolGivenUp
  <2>4. CASE Begins
    BY <2>4 DEF Begins, Prompt, ContinueSteering, ContinueFollowUp, Continue, Begin
  <2>5. CASE Polls
    BY <2>5 DEF Polls, FirstPoll, PollSteering, PollFollowUp
  <2>6. CASE Replies
    <3>1. PICK next \in {"turnEnd", "sequential", "parallel", "lastTurnEnd"} :
             \E reply : Replied(reply, next)
      BY <2>6, ReplyNext
    <3>2. Heard(next) \/ \E reply : Recorded(reply, next)
      BY <3>1 DEF Replied
    <3> QED
      BY <2>1, <3>2 DEF Places
  <2>7. CASE RecordPrompt \/ Inject \/ StreamStarts \/ Report \/ AgentEnd
    <3>1. \/ pc' = "firstPoll"
          \/ \E next \in {"prompting", "inject", "streaming", "sequential", "reportAll", "finishing"} :
                Heard(next) \/ \E entry : Recorded(entry, next)
      BY <2>7 DEF RecordPrompt, Inject, StreamStarts, Report, AgentEnd
    <3> QED
      BY <2>1, <3>1 DEF Places
  <2>8. CASE Gather \/ Continuing \/ HandleRunFailure
    BY <2>8 DEF Gather, Continuing, NextTurn, HandleRunFailure
  <2> QED
    BY <1>3, <2>2, <2>3, <2>4, <2>5, <2>6, <2>7, <2>8
<1> QED
  BY <1>1, <1>2, <1>3, StepKinds DEF Active

-----------------------------------------------------------------------------
(* The entries of the transcript *)

EntryTypes ==
    /\ context \in Seq(Entries) /\ transcript \in Seq(Entries)
    /\ pc \in Tools => turns # 0

LEMMA UsersAre ==
    ASSUME NEW S, NEW messages \in Seq(S)
    PROVE  /\ Users(messages) \in Seq([role: {"user"}, id: S])
           /\ Len(Users(messages)) = Len(messages) /\ Len(messages) \in Nat
           /\ \A i \in 1..Len(messages) :
                 Users(messages)[i] = User(messages[i]) /\ messages[i] \in S
<1>1. Len(messages) \in Nat /\ DOMAIN messages = 1..Len(messages)
  BY LenProperties
<1>2. \A i \in 1..Len(messages) : messages[i] \in S
  BY ElementOfSeq
<1>3. Users(messages) = [i \in 1..Len(messages) |-> User(messages[i])]
  BY <1>1 DEF Users
<1>4. \A i \in 1..Len(messages) : User(messages[i]) \in [role: {"user"}, id: S]
  BY <1>2 DEF User
<1>5. Users(messages) \in [1..Len(messages) -> [role: {"user"}, id: S]]
  BY <1>3, <1>4
<1> QED
  BY <1>1, <1>2, <1>3, <1>5

LEMMA ResultsAre ==
    ASSUME NEW n, NEW k \in Nat
    PROVE  /\ Results(n, k) \in Seq([role: {"toolResult"}, id: {n}, call: 1..k])
           /\ Len(Results(n, k)) = k
           /\ \A i \in 1..k : Results(n, k)[i] = Result(n, i)
<1>1. \A i \in 1..k : Result(n, i) \in [role: {"toolResult"}, id: {n}, call: 1..k]
  BY DEF Result
<1>2. Results(n, k) \in [1..k -> [role: {"toolResult"}, id: {n}, call: 1..k]]
  BY <1>1 DEF Results
<1> QED
  BY <1>2 DEF Results

LEMMA Numbering ==
    [Next]_vars =>
        \/ UNCHANGED via
        \/ \E batch \in Batches : \E channel \in Channels : Submitted(batch, channel)
<1> SUFFICES ASSUME [Next]_vars
             PROVE  \/ UNCHANGED via
                    \/ \E batch \in Batches : \E channel \in Channels : Submitted(batch, channel)
  OBVIOUS
<1>1. CASE Queues
  BY <1>1 DEF Queues, Steer, FollowUp, Channels
<1>2. CASE Begins
  BY <1>2 DEF Begins, Prompt, ContinueSteering, ContinueFollowUp, Continue, queueVars, Channels
<1>3. CASE Continuing
  BY <1>3 DEF Continuing, Channels
<1>4. CASE Quiet \/ Tooling
  BY <1>4, QuietLeaves, ToolingLeaves DEF queueVars
<1>5. CASE Polls \/ Replies \/ (\E m \in Messages : Withdraw(m)) \/ RecordPrompt \/ Inject
  BY <1>5 DEF Polls, FirstPoll, PollSteering, PollFollowUp, Replies, ReplyDone, ReplyFails,
              Withdraw, RecordPrompt, Inject, queueVars
<1>6. CASE StreamStarts \/ Report \/ Gather \/ AgentEnd \/ HandleRunFailure \/ FinishRun
           \/ UNCHANGED vars
  BY <1>6 DEF StreamStarts, Report, Gather, AgentEnd, HandleRunFailure, FinishRun, queueVars, vars
<1> QED
  BY <1>1, <1>2, <1>3, <1>4, <1>5, <1>6, StepKinds

\* Replies are numbered by the turns, which only grow.
LEMMA Counting ==
    [Next]_vars =>
        IF Replies \/ HandleRunFailure THEN turns' = turns + 1 ELSE UNCHANGED turns
<1> SUFFICES ASSUME [Next]_vars
             PROVE  IF Replies \/ HandleRunFailure THEN turns' = turns + 1 ELSE UNCHANGED turns
  OBVIOUS
<1> USE DEF countVars
<1>1. CASE Replies \/ HandleRunFailure
  BY <1>1, ReplyNext DEF Replied, HandleRunFailure
<1>2. CASE Quiet \/ Tooling
  BY <1>1, <1>2, QuietLeaves, ToolingLeaves
<1>3. CASE Queues \/ Begins \/ Polls \/ (\E m \in Messages : Withdraw(m)) \/ RecordPrompt
           \/ Inject \/ StreamStarts \/ Report \/ Gather \/ Continuing \/ AgentEnd \/ FinishRun
           \/ UNCHANGED vars
  <2>1. UNCHANGED turns
    BY <1>3 DEF Queues, Steer, FollowUp, Begins, Prompt, ContinueSteering, ContinueFollowUp,
                Continue, Begin, Polls, FirstPoll, PollSteering, PollFollowUp, Withdraw,
                RecordPrompt, Inject, StreamStarts, Report, Gather, Continuing, AgentEnd,
                FinishRun, vars
  <2> QED
    BY <1>1, <2>1
<1> QED
  BY <1>1, <1>2, <1>3, StepKinds

LEMMA EntriesGrow ==
    ASSUME FlagTypes, QueueTypes, [Next]_vars
    PROVE  /\ Messages \subseteq Messages' /\ turns \in Nat /\ turns' \in {turns, turns + 1}
           /\ \A m \in Messages : via'[m] = via[m]
           /\ Entries \subseteq Entries'
<1>1. Messages \subseteq Messages' /\ \A m \in Messages : via'[m] = via[m]
  <2>1. CASE UNCHANGED via
    BY <2>1 DEF Messages
  <2>2. ASSUME NEW batch \in Batches, NEW channel \in Channels, Submitted(batch, channel)
        PROVE  Messages \subseteq Messages' /\ \A m \in Messages : via'[m] = via[m]
    BY <2>2, BatchTypes
  <2> QED
    BY <2>1, <2>2, Numbering
<1>2. turns \in Nat /\ turns' \in {turns, turns + 1}
  BY Counting DEF FlagTypes
<1>3. 1..turns \subseteq 1..turns' /\ 1..(turns + 1) \subseteq 1..(turns' + 1)
  <2>1. ASSUME NEW m \in Nat, NEW n \in Nat, m <= n
        PROVE  1..m \subseteq 1..n /\ 1..(m + 1) \subseteq 1..(n + 1)
    BY <2>1
  <2>2. turns' \in Nat /\ turns <= turns'
    BY <1>2
  <2> QED
    BY <1>2, <2>1, <2>2
<1>4. /\ [role: {"user"}, id: Messages] \subseteq [role: {"user"}, id: Messages']
      /\ [role: {"toolResult"}, id: 1..turns, call: 1..MaxCalls]
            \subseteq [role: {"toolResult"}, id: 1..turns', call: 1..MaxCalls]
      /\ [role: {"assistant"}, id: 1..(turns + 1), calls: 0..MaxCalls,
          stop: {"done", "partial", "error", "aborted"}]
            \subseteq [role: {"assistant"}, id: 1..(turns' + 1), calls: 0..MaxCalls,
                       stop: {"done", "partial", "error", "aborted"}]
  BY <1>1, <1>3
<1>5. Entries \subseteq Entries'
  BY <1>4 DEF Entries
<1> QED
  BY <1>1, <1>2, <1>5

\* What the actions append.
LEMMA EntriesMade ==
    ASSUME turns \in Nat
    PROVE  /\ \A m \in Messages : User(m) \in Entries
           /\ \A n \in 1..(turns + 1), calls \in 0..MaxCalls,
                 stop \in {"done", "partial", "error", "aborted"} : Reply(n, calls, stop) \in Entries
           /\ \A n \in 1..turns, i \in 1..MaxCalls : Result(n, i) \in Entries
           /\ \A messages \in Seq(Messages) : Users(messages) \in Seq(Entries)
<1>1. /\ \A m \in Messages : User(m) \in Entries
      /\ \A n \in 1..turns, i \in 1..MaxCalls : Result(n, i) \in Entries
  BY DEF User, Result, Entries
<1>2. \A n \in 1..(turns + 1), calls \in 0..MaxCalls,
        stop \in {"done", "partial", "error", "aborted"} : Reply(n, calls, stop) \in Entries
  BY DEF Reply, Entries
<1>3. ASSUME NEW messages \in Seq(Messages) PROVE Users(messages) \in Seq(Entries)
  <2>1. Users(messages) \in Seq([role: {"user"}, id: Messages])
    BY UsersAre
  <2>2. [role: {"user"}, id: Messages] \subseteq Entries
    BY DEF Entries
  <2> QED
    BY <2>1, <2>2, SeqMonotonic
<1> QED
  BY <1>1, <1>2, <1>3

LEMMA RecordedEntries ==
    ASSUME NEW S, transcript \in Seq(S), NEW entry \in S, NEW next, Recorded(entry, next)
    PROVE  transcript' \in Seq(S) /\ transcript' \in {transcript, Append(transcript, entry)}
  BY AppendProperties DEF Recorded

LEMMA RepliedEntries ==
    ASSUME NEW S, context \in Seq(S), transcript \in Seq(S), NEW reply \in S, NEW next,
           Replied(reply, next)
    PROVE  /\ context' \in Seq(S) /\ transcript' \in Seq(S)
           /\ transcript' \in {transcript, Append(transcript, reply)}
<1>1. Front(context) \in Seq(S)
  <2>1. Len(context) \in Nat /\ \A i \in 1..(Len(context) - 1) : context[i] \in S
    BY LenProperties, ElementOfSeq
  <2> QED
    BY <2>1, SubSeqProperties DEF Front
<1>2. context' = Append(Front(context), reply) \/ context' = Append(context, reply)
  BY DEF Replied
<1>3. context' \in Seq(S)
  <2>1. Append(Front(context), reply) \in Seq(S) /\ Append(context, reply) \in Seq(S)
    BY <1>1, AppendProperties
  <2> QED
    BY <1>2, <2>1
<1>4. CASE transcript' = Append(transcript, reply)
  BY <1>3, <1>4, AppendProperties
<1>5. CASE Recorded(reply, next)
  BY <1>3, <1>5, RecordedEntries
<1> QED
  BY <1>4, <1>5 DEF Replied

LEMMA AnswersAsked ==
    ASSUME FlagTypes, pc \in Tools => turns # 0, [Next]_vars
    PROVE  pc' \in Tools => turns' # 0
<1>1. turns \in Nat /\ (turns' = turns \/ turns' = turns + 1)
  BY Counting DEF FlagTypes
<1>2. CASE Tooling \/ Report
  <2>1. pc \in Tools
    BY <1>2 DEF Tooling, Prepare, Launch, Execute, ExecuteAll, ToolReturns, ToolGivenUp, ToolEnds,
                ToolJoins, Joined, Report, Tools, OneByOne
  <2> QED
    BY <1>1, <2>1
<1>3. CASE Replies \/ HandleRunFailure
  BY <1>1, <1>3, Counting
<1>4. CASE FinishRun
  BY <1>4 DEF FinishRun, Tools, OneByOne
<1>5. CASE Quiet \/ Queues \/ Begins \/ Polls \/ (\E m \in Messages : Withdraw(m))
           \/ RecordPrompt \/ Inject \/ StreamStarts \/ Gather \/ Continuing \/ AgentEnd
           \/ UNCHANGED vars
  <2>1. pc' = pc \/ pc' \notin Tools
    BY <1>5, OutsideTools
  <2> QED
    BY <1>1, <2>1
<1> QED
  BY <1>2, <1>3, <1>4, <1>5, StepKinds

LEMMA EntryStep ==
    ASSUME FlagTypes, QueueTypes, ToolTypes, EntryTypes, QueueTypes', [Next]_vars
    PROVE  EntryTypes'
<1>1. Entries \subseteq Entries' /\ turns \in Nat
  BY EntriesGrow
<1>2. context \in Seq(Entries') /\ transcript \in Seq(Entries')
  BY <1>1, SeqMonotonic DEF EntryTypes
<1>3. pc' \in Tools => turns' # 0
  BY AnswersAsked DEF EntryTypes
<1> SUFFICES context' \in Seq(Entries') /\ transcript' \in Seq(Entries')
  BY <1>3 DEF EntryTypes
<1>4. CASE Quiet \/ Tooling \/ Queues \/ Polls \/ (\E m \in Messages : Withdraw(m)) \/ Continuing
           \/ AgentEnd \/ UNCHANGED vars
  <2>1. UNCHANGED <<context, transcript>>
    BY <1>4, QuietLeaves, ToolingLeaves
       DEF Queues, Steer, FollowUp, Polls, FirstPoll, PollSteering, PollFollowUp, Withdraw,
           Continuing, AgentEnd, vars
  <2> QED
    BY <1>2, <2>1
<1>5. CASE Begins
  <2>1. context' = transcript \o Users(pending') /\ UNCHANGED transcript
    BY <1>5 DEF Begins, Prompt, ContinueSteering, ContinueFollowUp, Continue, Begin
  <2>2. pending' \in Seq(Messages')
    BY DEF QueueTypes
  <2>3. Users(pending') \in Seq([role: {"user"}, id: Messages'])
    BY <2>2, UsersAre
  <2>4. [role: {"user"}, id: Messages'] \subseteq Entries'
    BY DEF Entries
  <2>5. Users(pending') \in Seq(Entries')
    BY <2>3, <2>4, SeqMonotonic
  <2> QED
    BY <1>2, <2>1, <2>5, ConcatProperties
<1>6. CASE RecordPrompt \/ Inject
  <2>1. CASE UNCHANGED <<context, transcript>>
    BY <1>2, <2>1
  <2>2. CASE pending # <<>> /\ Recorded(User(Head(pending)), pc)
             /\ context' \in {context, Append(context, User(Head(pending)))}
    <3>1. Head(pending) \in Messages
      BY <2>2, HeadTailProperties DEF QueueTypes
    <3>2. User(Head(pending)) \in Entries'
      BY <1>1, <3>1, EntriesMade
    <3>3. transcript' \in Seq(Entries')
      BY <1>2, <2>2, <3>2, RecordedEntries
    <3>4. Append(context, User(Head(pending))) \in Seq(Entries')
      BY <1>2, <3>2, AppendProperties
    <3>5. context' \in Seq(Entries')
      BY <1>2, <2>2, <3>4
    <3> QED
      BY <3>3, <3>5
  <2> QED
    BY <1>6, <2>1, <2>2 DEF RecordPrompt, Inject
<1>7. CASE StreamStarts
  <2>1. context' = Append(context, Reply(turns + 1, 0, "partial")) /\ UNCHANGED transcript
    BY <1>7 DEF StreamStarts
  <2>2. Reply(turns + 1, 0, "partial") \in Entries
    <3>1. turns + 1 \in 1..(turns + 1) /\ 0 \in 0..MaxCalls
      BY <1>1, BoundsAssumption
    <3> QED
      BY <1>1, <3>1, EntriesMade
  <2> QED
    BY <1>1, <1>2, <2>1, <2>2, AppendProperties
<1>8. CASE Report
  <2>1. pc \in Tools /\ at <= Len(status) /\ UNCHANGED context
        /\ \E next : Recorded(Result(turns, at), next)
    BY <1>8 DEF Report, Tools, OneByOne, ToolTypes, CallsInHand
  <2>2. at \in 1..MaxCalls /\ turns \in 1..turns
    <3>1. Len(status) \in 1..MaxCalls /\ at \in Nat \ {0} /\ turns # 0 /\ MaxCalls \in Nat
      BY <2>1, BoundsAssumption DEF ToolTypes, CallsInHand, EntryTypes
    <3> QED
      BY <1>1, <2>1, <3>1
  <2>3. Result(turns, at) \in Entries'
    BY <1>1, <2>2, EntriesMade
  <2> QED
    BY <1>2, <2>1, <2>3, RecordedEntries
<1>9. CASE Gather
  <2>1. pc \in Tools /\ context' = context \o Results(turns, at - 1) /\ UNCHANGED transcript
    BY <1>9 DEF Gather, Tools, OneByOne
  <2>2. at - 1 \in 0..MaxCalls /\ turns \in 1..turns
    <3>1. Len(status) \in 1..MaxCalls /\ at \in 1..(Len(status) + 1) /\ turns # 0 /\ MaxCalls \in Nat
      BY <2>1, BoundsAssumption DEF ToolTypes, CallsInHand, EntryTypes
    <3> QED
      BY <1>1, <3>1
  <2>3. at - 1 \in Nat /\ 1..(at - 1) \subseteq 1..MaxCalls /\ MaxCalls \in Nat
    BY <2>2, BoundsAssumption
  <2>4. Results(turns, at - 1) \in Seq([role: {"toolResult"}, id: {turns}, call: 1..(at - 1)])
    BY <2>3, ResultsAre
  <2>5. [role: {"toolResult"}, id: {turns}, call: 1..(at - 1)] \subseteq Entries
    BY <2>2, <2>3 DEF Entries
  <2>6. Results(turns, at - 1) \in Seq(Entries')
    BY <1>1, <2>4, <2>5, SeqMonotonic
  <2> QED
    BY <1>2, <2>1, <2>6, ConcatProperties
<1>10. CASE Replies
  <2>1. PICK calls \in 0..MaxCalls : ReplyDone(calls) \/ ReplyFails(calls)
    BY <1>10 DEF Replies
  <2>2. \E stop \in {"done", "partial", "error", "aborted"} :
           \E next : Replied(Reply(turns + 1, calls, stop), next)
    BY <2>1 DEF ReplyDone, ReplyFails
  <2>3. turns + 1 \in 1..(turns + 1)
    BY <1>1
  <2>4. \A stop \in {"done", "partial", "error", "aborted"} : Reply(turns + 1, calls, stop) \in Entries'
    BY <1>1, <2>3, EntriesMade
  <2> QED
    BY <1>2, <2>2, <2>4, RepliedEntries
<1>11. CASE HandleRunFailure
  <2>1. /\ UNCHANGED context
        /\ transcript' = Append(transcript, Reply(turns + 1, 0, IF aborted THEN "aborted" ELSE "error"))
    BY <1>11 DEF HandleRunFailure
  <2>2. turns + 1 \in 1..(turns + 1) /\ 0 \in 0..MaxCalls
        /\ (IF aborted THEN "aborted" ELSE "error") \in {"done", "partial", "error", "aborted"}
    BY <1>1, BoundsAssumption
  <2>3. Reply(turns + 1, 0, IF aborted THEN "aborted" ELSE "error") \in Entries'
    BY <1>1, <2>2, EntriesMade
  <2> QED
    BY <1>2, <2>1, <2>3, AppendProperties
<1>12. CASE FinishRun
  <2>1. context' = <<>> /\ UNCHANGED transcript
    BY <1>12 DEF FinishRun
  <2> QED
    BY <1>2, <2>1
<1> QED
  BY <1>4, <1>5, <1>6, <1>7, <1>8, <1>9, <1>10, <1>11, <1>12, StepKinds

-----------------------------------------------------------------------------
(* Type correctness *)

Types ==
    /\ FlagTypes /\ QueueTypes /\ ToolTypes /\ EntryTypes
    /\ InFlight /\ AtRest

LEMMA TypesHold == Spec => []Types
<1>1. Init => Types
  <2> SUFFICES ASSUME Init PROVE Types
    OBVIOUS
  <2>1. FlagTypes
    <3>1. failures \in 0..MaxFailures
      BY BoundsAssumption DEF Init
    <3> QED
      BY <3>1 DEF Init, FlagTypes, Places
  <2>4. InFlight /\ AtRest
    BY DEF Init, InFlight, AtRest, Active
  <2>2. QueueTypes
    BY DEF Init, QueueTypes
  <2>3. ToolTypes /\ EntryTypes
    BY DEF Init, ToolTypes, EntryTypes, Tools, OneByOne
  <2> QED
    BY <2>1, <2>2, <2>3, <2>4 DEF Types
<1>2. Types /\ [Next]_vars => Types'
  <2> SUFFICES ASSUME Types, [Next]_vars PROVE Types'
    OBVIOUS
  <2>1. FlagTypes' /\ QueueTypes' /\ ToolTypes' /\ InFlight' /\ AtRest'
    BY FlagStep, QueueStep, ToolStep, InFlightStep, AtRestStep DEF Types
  <2>2. EntryTypes'
    BY <2>1, EntryStep DEF Types
  <2> QED
    BY <2>1, <2>2 DEF Types
<1> QED
  BY <1>1, <1>2, PTL DEF Spec

\* Every variable keeps its type; an abort signal belongs to a run, and an idle agent has
\* dropped neither a message it took nor kept a context (Agent.runWithLifecycle, finishRun).
THEOREM TypeCorrect == Spec => []TypeOK
<1>1. Types => TypeOK
  <2> SUFFICES ASSUME Types PROVE TypeOK
    OBVIOUS
  <2>1. pc \in Places /\ {aborted, first, skip, more} \subseteq BOOLEAN
        /\ {run, turns, callTurns, base} \subseteq Nat /\ failures \in 0..MaxFailures
    BY DEF Types, FlagTypes
  <2>2. ~Active => ~aborted /\ pending = <<>> /\ context = <<>>
    BY DEF Types, AtRest, InFlight, Active, Carrying
  <2> QED
    BY <2>1, <2>2 DEF Types, QueueTypes, ToolTypes, EntryTypes, TypeOK
<1> QED
  BY <1>1, TypesHold, PTL

-----------------------------------------------------------------------------
(* What becomes of a message *)

LEMMA RangeIs ==
    ASSUME NEW S, NEW s \in Seq(S)
    PROVE  Range(s) = {s[i] : i \in 1..Len(s)} /\ Range(s) \subseteq S /\ Len(s) \in Nat
<1>1. DOMAIN s = 1..Len(s) /\ Len(s) \in Nat
  BY LenProperties
<1> QED
  BY <1>1, ElementOfSeq DEF Range

LEMMA RangeAppend ==
    ASSUME NEW S, NEW s \in Seq(S), NEW e \in S
    PROVE  Range(Append(s, e)) = Range(s) \cup {e}
<1> DEFINE t == Append(s, e)
<1>1. /\ t \in Seq(S) /\ Len(t) = Len(s) + 1 /\ Len(s) \in Nat
      /\ \A i \in 1..Len(s) : t[i] = s[i]
      /\ t[Len(s) + 1] = e
  BY AppendProperties, LenProperties
<1> HIDE DEF t
<1>2. Range(t) = {t[i] : i \in 1..Len(t)} /\ Range(s) = {s[i] : i \in 1..Len(s)}
  BY <1>1, RangeIs
<1>3. Range(t) = Range(s) \cup {e}
  BY <1>1, <1>2
<1> QED
  BY <1>3 DEF t

LEMMA RangeConcat ==
    ASSUME NEW S, NEW s \in Seq(S), NEW t \in Seq(S)
    PROVE  Range(s \o t) = Range(s) \cup Range(t)
<1> DEFINE u == s \o t
<1>1. /\ u \in Seq(S) /\ Len(u) = Len(s) + Len(t) /\ Len(s) \in Nat /\ Len(t) \in Nat
      /\ \A i \in 1..(Len(s) + Len(t)) : u[i] = IF i <= Len(s) THEN s[i] ELSE t[i - Len(s)]
  BY ConcatProperties, LenProperties
<1> HIDE DEF u
<1>2. /\ Range(u) = {u[i] : i \in 1..Len(u)} /\ Range(s) = {s[i] : i \in 1..Len(s)}
      /\ Range(t) = {t[i] : i \in 1..Len(t)}
  BY <1>1, RangeIs
<1>3. \A i \in 1..Len(s) : s[i] \in Range(u)
  BY <1>1, <1>2
<1>4. ASSUME NEW i \in 1..Len(t) PROVE t[i] \in Range(u)
  <2>1. Len(s) + i \in 1..(Len(s) + Len(t)) /\ ~(Len(s) + i <= Len(s)) /\ Len(s) + i - Len(s) = i
    BY <1>1
  <2>2. u[Len(s) + i] = t[i]
    BY <1>1, <2>1
  <2> QED
    BY <1>1, <1>2, <2>1, <2>2
<1>5. ASSUME NEW i \in 1..Len(u) PROVE u[i] \in Range(s) \cup Range(t)
  BY <1>1, <1>2
<1>6. Range(u) = Range(s) \cup Range(t)
  BY <1>2, <1>3, <1>4, <1>5
<1> QED
  BY <1>6 DEF u

\* A message that is drained is taken or stays.
LEMMA DrainKeeps ==
    ASSUME NEW S, NEW queue \in Seq(S), NEW n \in Drains(queue)
    PROVE  Range(queue) = Range(Taken(queue, n)) \cup Range(Rest(queue, n))
<1>1. n \in 0..Len(queue) /\ n \in n..Len(queue) /\ Len(queue) \in Nat
  BY LenProperties DEF Drains
<1> DEFINE t == Taken(queue, n)
           r == Rest(queue, n)
<1>2. /\ t \in Seq(S) /\ r \in Seq(S) /\ Len(t) = n /\ Len(r) = Len(queue) - n
      /\ \A i \in 1..n : t[i] = queue[i]
      /\ \A i \in 1..(Len(queue) - n) : r[i] = queue[n + i]
  BY <1>1, Pieces DEF Taken, Rest
<1> HIDE DEF t, r
<1>3. /\ Range(queue) = {queue[i] : i \in 1..Len(queue)} /\ Range(t) = {t[i] : i \in 1..n}
      /\ Range(r) = {r[i] : i \in 1..(Len(queue) - n)}
  BY <1>2, RangeIs
<1>4. ASSUME NEW i \in 1..Len(queue) PROVE queue[i] \in Range(t) \cup Range(r)
  <2>1. CASE i <= n
    BY <1>1, <1>2, <1>3, <2>1
  <2>2. CASE ~(i <= n)
    <3>1. i - n \in 1..(Len(queue) - n) /\ n + (i - n) = i
      BY <1>1, <2>2
    <3>2. r[i - n] = queue[i]
      BY <1>2, <3>1
    <3> QED
      BY <1>3, <3>1, <3>2
  <2> QED
    BY <2>1, <2>2
<1>5. Range(t) \subseteq Range(queue) /\ Range(r) \subseteq Range(queue)
  <2>1. \A i \in 1..n : i \in 1..Len(queue)
    BY <1>1
  <2>2. \A i \in 1..(Len(queue) - n) : n + i \in 1..Len(queue)
    BY <1>1
  <2> QED
    BY <1>2, <1>3, <2>1, <2>2
<1>6. Range(queue) = Range(t) \cup Range(r)
  BY <1>3, <1>4, <1>5
<1> QED
  BY <1>6 DEF t, r

\* Withdrawing loses no message of another batch.
LEMMA WithoutKeeps ==
    ASSUME NEW S, NEW queue \in Seq(S), NEW gone, NEW rest, Without(queue, gone, rest)
    PROVE  Range(queue) \subseteq Range(rest) \cup gone
<1>1. PICK a \in 0..Len(queue) : \E b \in a..Len(queue) :
         /\ \A i \in DOMAIN queue : queue[i] \in gone <=> i \in (a + 1)..b
         /\ rest = SubSeq(queue, 1, a) \o SubSeq(queue, b + 1, Len(queue))
  BY DEF Without
<1>2. PICK b \in a..Len(queue) :
         /\ \A i \in DOMAIN queue : queue[i] \in gone <=> i \in (a + 1)..b
         /\ rest = SubSeq(queue, 1, a) \o SubSeq(queue, b + 1, Len(queue))
  BY <1>1
<1>3. Len(queue) \in Nat /\ DOMAIN queue = 1..Len(queue)
  BY LenProperties
<1> DEFINE f == SubSeq(queue, 1, a)
           l == SubSeq(queue, b + 1, Len(queue))
<1>4. /\ f \in Seq(S) /\ l \in Seq(S) /\ Len(f) = a /\ Len(l) = Len(queue) - b
      /\ \A i \in 1..a : f[i] = queue[i]
      /\ \A i \in 1..(Len(queue) - b) : l[i] = queue[b + i]
  BY Pieces
<1>5. rest = f \o l
  BY <1>2
<1> HIDE DEF f, l
<1>6. Range(rest) = Range(f) \cup Range(l)
  BY <1>4, <1>5, RangeConcat
<1>7. /\ Range(queue) = {queue[i] : i \in 1..Len(queue)} /\ Range(f) = {f[i] : i \in 1..a}
      /\ Range(l) = {l[i] : i \in 1..(Len(queue) - b)}
  BY <1>4, RangeIs
<1>8. ASSUME NEW i \in 1..Len(queue), queue[i] \notin gone PROVE queue[i] \in Range(rest)
  <2>1. i <= a \/ b < i
    BY <1>2, <1>3, <1>8
  <2>2. CASE i <= a
    BY <1>3, <1>4, <1>6, <1>7, <2>2
  <2>3. CASE b < i
    <3>1. i - b \in 1..(Len(queue) - b) /\ b + (i - b) = i
      BY <1>3, <2>3
    <3>2. l[i - b] = queue[i]
      BY <1>4, <3>1
    <3> QED
      BY <1>6, <1>7, <3>1, <3>2
  <2> QED
    BY <2>1, <2>2, <2>3
<1> QED
  BY <1>7, <1>8

LEMMA TailKeeps ==
    ASSUME NEW S, NEW s \in Seq(S), s # <<>>
    PROVE  Range(s) = {Head(s)} \cup Range(Tail(s))
<1> DEFINE t == Tail(s)
<1>1. /\ t \in Seq(S) /\ Len(t) = Len(s) - 1 /\ \A i \in 1..Len(t) : t[i] = s[i + 1]
      /\ Len(s) \in Nat \ {0} /\ Head(s) = s[1]
  BY HeadTailProperties, LenProperties, EmptySeq
<1> HIDE DEF t
<1>2. Range(s) = {s[i] : i \in 1..Len(s)} /\ Range(t) = {t[i] : i \in 1..Len(t)}
  BY <1>1, RangeIs
<1>3. ASSUME NEW i \in 1..Len(s) PROVE s[i] \in {s[1]} \cup Range(t)
  <2>1. CASE i = 1
    BY <2>1
  <2>2. CASE i # 1
    <3>1. i - 1 \in 1..Len(t) /\ (i - 1) + 1 = i
      BY <1>1, <2>2
    <3>2. t[i - 1] = s[i]
      BY <1>1, <3>1
    <3> QED
      BY <1>2, <3>1, <3>2
  <2> QED
    BY <2>1, <2>2
<1>4. s[1] \in Range(s) /\ Range(t) \subseteq Range(s)
  BY <1>1, <1>2
<1>5. Range(s) = {s[1]} \cup Range(t)
  BY <1>2, <1>3, <1>4
<1> QED
  BY <1>1, <1>5 DEF t

\* What a step records: nothing, an entry that is not a user's, or the first of what is held.
RecordsHeld ==
    /\ pending # <<>> /\ pending' = Tail(pending) /\ UNCHANGED queueVars
    /\ \/ transcript' = Append(transcript, User(Head(pending)))
       \/ transcript' = transcript /\ pc' = "failed"
RecordsOther ==
    \/ UNCHANGED transcript
    \/ \E e \in Entries' :
          /\ e.role # "user" /\ (e.role = "assistant" => e.id <= turns')
          /\ transcript' = Append(transcript, e)

LEMMA Recording ==
    ASSUME Types, Types', [Next]_vars
    PROVE  RecordsOther \/ (RecordsHeld /\ (RecordPrompt \/ Inject))
<1>1. Entries \subseteq Entries' /\ turns \in Nat
  BY EntriesGrow DEF Types
<1>8. Replies \/ HandleRunFailure => turns' = turns + 1 /\ turns + 1 <= turns'
  BY <1>1, Counting
<1>2. CASE Quiet \/ Tooling \/ Queues \/ Polls \/ (\E m \in Messages : Withdraw(m)) \/ Continuing
           \/ AgentEnd \/ StreamStarts \/ Gather \/ FinishRun \/ UNCHANGED vars
  BY <1>2, QuietLeaves, ToolingLeaves
     DEF Queues, Steer, FollowUp, Polls, FirstPoll, PollSteering, PollFollowUp, Withdraw,
         Continuing, AgentEnd, StreamStarts, Gather, FinishRun, vars, RecordsOther
<1>3. CASE Begins
  BY <1>3 DEF Begins, Prompt, ContinueSteering, ContinueFollowUp, Continue, Begin, RecordsOther
<1>4. CASE RecordPrompt \/ Inject
  <2>1. CASE UNCHANGED transcript /\ pending = <<>>
    BY <2>1 DEF RecordsOther
  <2>2. CASE pending # <<>> /\ pending' = Tail(pending) /\ UNCHANGED queueVars
             /\ Recorded(User(Head(pending)), pc)
    BY <1>4, <2>2 DEF Recorded, ListenerFails, RecordsHeld
  <2> QED
    BY <1>4, <2>1, <2>2 DEF RecordPrompt, Inject
<1>5. CASE Report
  <2>1. pc \in Tools /\ at <= Len(status) /\ \E next : Recorded(Result(turns, at), next)
    BY <1>5 DEF Types, Report, Tools, OneByOne, ToolTypes, CallsInHand
  <2>2. at \in 1..MaxCalls /\ turns \in 1..turns
    <3>1. Len(status) \in 1..MaxCalls /\ at \in Nat \ {0} /\ turns # 0 /\ MaxCalls \in Nat
      BY <2>1, BoundsAssumption DEF Types, ToolTypes, CallsInHand, EntryTypes
    <3> QED
      BY <1>1, <2>1, <3>1
  <2>3. Result(turns, at) \in Entries'
    BY <1>1, <2>2, EntriesMade
  <2> QED
    BY <2>1, <2>3, RecordedEntries DEF Types, EntryTypes, Recorded, RecordsOther, Result
<1>6. CASE Replies
  <2>1. PICK calls \in 0..MaxCalls : ReplyDone(calls) \/ ReplyFails(calls)
    BY <1>6 DEF Replies
  <2>2. PICK stop \in {"done", "partial", "error", "aborted"} :
           \E next : Replied(Reply(turns + 1, calls, stop), next)
    BY <2>1 DEF ReplyDone, ReplyFails
  <2>3. turns + 1 \in 1..(turns + 1)
    BY <1>1
  <2>4. /\ Reply(turns + 1, calls, stop) \in Entries' /\ Reply(turns + 1, calls, stop).role # "user"
        /\ Reply(turns + 1, calls, stop).id <= turns'
    BY <1>1, <1>6, <1>8, <2>3, EntriesMade DEF Reply
  <2>5. transcript' \in {transcript, Append(transcript, Reply(turns + 1, calls, stop))}
    BY <2>2 DEF Replied, Recorded
  <2> QED
    BY <2>4, <2>5 DEF RecordsOther
<1>7. CASE HandleRunFailure
  <2> DEFINE stop == IF aborted THEN "aborted" ELSE "error"
  <2>1. transcript' = Append(transcript, Reply(turns + 1, 0, stop))
    BY <1>7 DEF HandleRunFailure
  <2>2. turns + 1 \in 1..(turns + 1) /\ 0 \in 0..MaxCalls
        /\ stop \in {"done", "partial", "error", "aborted"}
    BY <1>1, BoundsAssumption
  <2>3. /\ Reply(turns + 1, 0, stop) \in Entries' /\ Reply(turns + 1, 0, stop).role # "user"
        /\ Reply(turns + 1, 0, stop).id <= turns'
    BY <1>1, <1>7, <1>8, <2>2, EntriesMade DEF Reply
  <2> QED
    BY <2>1, <2>3 DEF RecordsOther
<1> QED
  BY <1>2, <1>3, <1>4, <1>5, <1>6, <1>7, StepKinds

LEMMA RecordedIds ==
    ASSUME NEW S, NEW s \in Seq(S), NEW e \in S
    PROVE  UserIds(Append(s, e)) = UserIds(s) \cup (IF e.role = "user" THEN {e.id} ELSE {})
<1>1. Range(Append(s, e)) = Range(s) \cup {e}
  BY RangeAppend
<1> QED
  BY <1>1 DEF UserIds

Queued == Range(steering) \cup Range(followUp) \cup withdrawn

\* The queues give up a message only to the run that takes it.
LEMMA QueuesKeep ==
    ASSUME Types, Types', [Next]_vars
    PROVE  /\ Queued \subseteq Queued' \cup Range(pending')
           /\ \/ pending' = pending \/ pending = <<>> \/ RecordsHeld
              \/ AgentEnd \/ HandleRunFailure
<1> USE DEF queueVars
<1>1. ASSUME UNCHANGED queueVars PROVE Queued \subseteq Queued' \cup Range(pending')
  BY <1>1 DEF Queued
<1>2. CASE Quiet \/ Tooling
  BY <1>1, <1>2, QuietLeaves, ToolingLeaves
<1>3. CASE Replies \/ StreamStarts \/ Report \/ Gather \/ AgentEnd \/ HandleRunFailure \/ FinishRun
           \/ UNCHANGED vars
  <2>1. UNCHANGED queueVars /\ (pending' = pending \/ AgentEnd \/ HandleRunFailure)
    BY <1>3 DEF Replies, ReplyDone, ReplyFails, StreamStarts, Report, Gather, AgentEnd,
                HandleRunFailure, FinishRun, vars
  <2> QED
    BY <1>1, <2>1
<1>4. CASE RecordPrompt \/ Inject
  <2>1. UNCHANGED queueVars /\ (pending' = pending \/ RecordsHeld)
    BY <1>4 DEF RecordPrompt, Inject, RecordsHeld, Recorded, ListenerFails
  <2> QED
    BY <1>1, <2>1
<1>5. CASE Queues
  <2>1. PICK batch \in Batches : Steer(batch) \/ FollowUp(batch)
    BY <1>5 DEF Queues
  <2>2. \E channel \in Channels : Submitted(batch, channel)
    BY <2>1 DEF Steer, FollowUp, Channels
  <2>3. batch \in Seq(Messages') /\ steering \in Seq(Messages') /\ followUp \in Seq(Messages')
    BY <2>2, BatchTypes, SeqMonotonic DEF Types, QueueTypes
  <2>4. Range(steering) \subseteq Range(steering') /\ Range(followUp) \subseteq Range(followUp')
        /\ withdrawn' = withdrawn /\ pending' = pending
    <3>1. CASE Steer(batch)
      BY <2>3, <3>1, RangeConcat DEF Steer
    <3>2. CASE FollowUp(batch)
      BY <2>3, <3>2, RangeConcat DEF FollowUp
    <3> QED
      BY <2>1, <3>1, <3>2
  <2> QED
    BY <2>4 DEF Queued
<1>6. CASE Begins
  <2>1. pending = <<>>
    BY <1>6 DEF Begins, Prompt, ContinueSteering, ContinueFollowUp, Continue, Begin, Types,
                InFlight, Carrying
  <2>2. withdrawn' = withdrawn /\ Range(steering) \subseteq Range(steering') \cup Range(pending')
        /\ Range(followUp) \subseteq Range(followUp') \cup Range(pending')
    <3>1. CASE (\E batch \in Batches : Prompt(batch)) \/ Continue
      BY <3>1 DEF Prompt, Continue
    <3>2. CASE ContinueSteering
      BY <3>2, DrainKeeps DEF ContinueSteering, Begin, Types, QueueTypes
    <3>3. CASE ContinueFollowUp
      BY <3>3, DrainKeeps DEF ContinueFollowUp, Begin, Types, QueueTypes
    <3> QED
      BY <1>6, <3>1, <3>2, <3>3 DEF Begins
  <2> QED
    BY <2>1, <2>2 DEF Queued
<1>7. CASE Polls
  <2>1. pending = <<>>
    BY <1>7 DEF Polls, FirstPoll, PollSteering, PollFollowUp, Types, InFlight, Carrying
  <2>2. ASSUME NEW queue \in Seq(Messages), NEW rest, Polled(queue, rest)
        PROVE  Range(queue) \subseteq Range(rest) \cup Range(pending')
    BY <2>2, DrainKeeps DEF Polled
  <2>3. withdrawn' = withdrawn /\ Range(steering) \subseteq Range(steering') \cup Range(pending')
        /\ Range(followUp) \subseteq Range(followUp') \cup Range(pending')
    <3>1. CASE FirstPoll
      BY <2>2, <3>1 DEF FirstPoll, Types, QueueTypes
    <3>2. CASE PollSteering
      BY <2>2, <3>2 DEF PollSteering, Types, QueueTypes
    <3>3. CASE PollFollowUp
      BY <2>2, <3>3 DEF PollFollowUp, Types, QueueTypes
    <3> QED
      BY <1>7, <3>1, <3>2, <3>3 DEF Polls
  <2> QED
    BY <2>1, <2>3 DEF Queued
<1>8. ASSUME NEW m \in Messages, Withdraw(m)
      PROVE  Queued \subseteq Queued' /\ pending' = pending
  <2>1. /\ Range(steering) \subseteq Range(steering') \cup BatchOf(m)
        /\ Range(followUp) \subseteq Range(followUp') \cup BatchOf(m)
        /\ withdrawn' = withdrawn \cup BatchOf(m) /\ pending' = pending
    BY <1>8, WithoutKeeps DEF Withdraw, Types, QueueTypes
  <2> QED
    BY <2>1 DEF Queued
<1>9. CASE Continuing
  <2>1. pending = <<>> /\ UNCHANGED <<steering, followUp, withdrawn>>
    BY <1>9 DEF Continuing, Types, InFlight, Carrying
  <2> QED
    BY <2>1 DEF Queued
<1> QED
  BY <1>2, <1>3, <1>4, <1>5, <1>6, <1>7, <1>8, <1>9, StepKinds

\* A message that was submitted and not withdrawn is waiting, held or recorded: a step loses
\* it only when the run is aborted or fails, and then only if the run held it
\* (PendingMessageQueue, runLoop, handleRunFailure).
THEOREM DropsAreAborts == Spec => DroppedOnlyInFlight
<1>1. ASSUME Types, Types', [Next]_vars
      PROVE  Located \ Located' \subseteq
                (IF aborted \/ "failed" \in {pc, pc'} THEN Range(pending) ELSE {})
  <2> DEFINE Lost == IF aborted \/ "failed" \in {pc, pc'} THEN Range(pending) ELSE {}
  <2>1. /\ Located = UserIds(transcript) \cup Range(pending) \cup Queued
        /\ Located' = UserIds(transcript') \cup Range(pending') \cup Queued'
    BY DEF Located, Queued
  <2>2. Queued \subseteq Queued' \cup Range(pending')
    BY <1>1, QueuesKeep
  <2>3. transcript \in Seq(Entries') /\ pending \in Seq(Messages) /\ Messages \subseteq Messages'
        /\ turns \in Nat /\ Entries \subseteq Entries'
    BY <1>1, EntriesGrow, SeqMonotonic DEF Types, EntryTypes, QueueTypes
  <2>4. pending # <<>> => /\ Head(pending) \in Messages /\ User(Head(pending)) \in Entries'
                          /\ Range(pending) = {Head(pending)} \cup Range(Tail(pending))
    BY <2>3, HeadTailProperties, TailKeeps, EntriesMade
  <2>5. UserIds(transcript) \subseteq UserIds(transcript')
    <3>1. CASE UNCHANGED transcript
      BY <3>1
    <3>2. ASSUME NEW e \in Entries', transcript' = Append(transcript, e)
          PROVE  UserIds(transcript) \subseteq UserIds(transcript')
      BY <2>3, <3>2, RecordedIds
    <3> QED
      BY <1>1, <2>4, <3>1, <3>2, Recording DEF RecordsOther, RecordsHeld
  <2>6. Range(pending) \subseteq UserIds(transcript') \cup Range(pending') \cup Lost
    <3>1. CASE pending' = pending
      BY <3>1
    <3>2. CASE pending = <<>>
      BY <3>2 DEF Range
    <3>3. CASE RecordsHeld
      <4>1. CASE transcript' = Append(transcript, User(Head(pending)))
        <5>1. Head(pending) \in UserIds(transcript')
          BY <2>3, <2>4, <3>3, <4>1, RecordedIds DEF RecordsHeld, User
        <5> QED
          BY <2>4, <3>3, <5>1 DEF RecordsHeld
      <4>2. CASE pc' = "failed"
        BY <4>2
      <4> QED
        BY <3>3, <4>1, <4>2 DEF RecordsHeld
    <3>4. CASE AgentEnd /\ pending # <<>>
      BY <1>1, <3>4 DEF AgentEnd, Types, InFlight, Carrying
    <3>5. CASE HandleRunFailure
      BY <3>5 DEF HandleRunFailure
    <3> QED
      BY <1>1, <3>1, <3>2, <3>3, <3>4, <3>5, QueuesKeep
  <2>7. Located \subseteq Located' \cup Lost
    BY <2>1, <2>2, <2>5, <2>6
  <2> QED
    BY <2>7
<1>2. Types /\ Types' /\ [Next]_vars =>
         [Located \ Located' \subseteq
              (IF aborted \/ "failed" \in {pc, pc'} THEN Range(pending) ELSE {})]_vars
  BY <1>1
<1> QED
  BY <1>2, TypesHold, PTL DEF Spec, DroppedOnlyInFlight

-----------------------------------------------------------------------------
(* The context of the run against the transcript of the agent *)

Asking == {"firstPoll", "firstPolled", "turn", "inject", "unasked", "asking", "stopping",
           "steered", "outer", "followed", "continuing"}
Level == Asking \cup {"turnEnd", "turned"}
Loose == {"idle", "failed", "lastTurnEnd", "ending", "finishing"}

History ==
    /\ base <= turns
    /\ \A i \in DOMAIN transcript : transcript[i].role = "assistant" => transcript[i].id <= turns

\* While a run is asking the two are the same; the transcript lags behind the prompt and is
\* ahead by the results that were reported.
Mirror ==
    /\ pc \in {"starting", "prompting"} => context = transcript \o Users(pending)
    /\ pc \in Level => context = transcript
    /\ pc = "streaming" => context = Append(transcript, Reply(turns + 1, 0, "partial"))
    /\ pc \in OneByOne \cup {"reportAll"} => transcript = context \o Results(turns, at - 1)
    /\ pc \in {"parallel", "join"} => transcript = context

\* The calls that are handled are those of the last reply; all earlier ones are answered.
Complete ==
    /\ pc \in {"starting", "prompting"} \cup Asking => Answered(context, base)
    /\ pc = "streaming" => Answered(transcript, base)
    /\ pc \in {"turnEnd", "turned"} => aborted \/ Answered(context, base)
    /\ pc \in Tools => \E s \in Seq(Entries) :
                          context = Append(s, Reply(turns, Len(status), "done")) /\ Answered(s, base)

Story == History /\ Mirror /\ Complete

LEMMA AppendHas ==
    ASSUME NEW S, NEW s \in Seq(S), NEW e \in S
    PROVE  /\ Len(s) \in Nat /\ Append(s, e) \in Seq(S) /\ Len(Append(s, e)) = Len(s) + 1
           /\ DOMAIN s = 1..Len(s) /\ DOMAIN Append(s, e) = 1..(Len(s) + 1)
           /\ \A i \in 1..Len(s) : Append(s, e)[i] = s[i] /\ s[i] \in S
           /\ Append(s, e)[Len(s) + 1] = e
           /\ Front(Append(s, e)) = s
<1>1. /\ Append(s, e) \in Seq(S) /\ Len(Append(s, e)) = Len(s) + 1 /\ Len(s) \in Nat
      /\ \A i \in 1..Len(s) : Append(s, e)[i] = s[i]
      /\ Append(s, e)[Len(s) + 1] = e
  BY AppendProperties, LenProperties
<1>2. DOMAIN s = 1..Len(s) /\ DOMAIN Append(s, e) = 1..(Len(s) + 1)
  BY <1>1, LenProperties
<1>3. \A i \in 1..Len(s) : s[i] \in S
  BY ElementOfSeq
<1>4. Front(Append(s, e)) = s
  <2> DEFINE t == Append(s, e)
             f == SubSeq(t, 1, Len(t) - 1)
  <2>1. Len(t) - 1 = Len(s) /\ \A i \in 1..(Len(t) - 1) : t[i] \in S /\ t[i] = s[i]
    BY <1>1, <1>3
  <2>2. f \in Seq(S) /\ Len(f) = Len(s) /\ \A i \in 1..Len(s) : f[i] = s[i]
    <3> HIDE DEF t
    <3>1. /\ SubSeq(t, 1, Len(t) - 1) \in Seq(S)
          /\ Len(SubSeq(t, 1, Len(t) - 1)) = IF 1 <= Len(t) - 1 THEN (Len(t) - 1) - 1 + 1 ELSE 0
          /\ \A i \in 1..(Len(t) - 1) - 1 + 1 : SubSeq(t, 1, Len(t) - 1)[i] = t[1 + i - 1]
      BY <1>1, <2>1, SubSeqProperties
    <3> QED
      BY <1>1, <2>1, <3>1
  <2> HIDE DEF f
  <2>3. f = s
    BY <2>2, SeqEqual
  <2> QED
    BY <2>3 DEF f, Front
<1> QED
  BY <1>1, <1>2, <1>3, <1>4

\* An entry that asks for nothing leaves what is answered answered.
LEMMA AppendAnswered ==
    ASSUME NEW S, NEW s \in Seq(S), NEW e \in S, NEW since, Answered(s, since),
           \A n \in DOMAIN s : s[n].role = "assistant" => s[n].calls \in Nat,
           e.role = "assistant" => e.stop # "done" \/ e.calls = 0
    PROVE  Answered(Append(s, e), since)
<1> DEFINE t == Append(s, e)
<1>1. /\ Len(s) \in Nat /\ DOMAIN s = 1..Len(s) /\ DOMAIN t = 1..(Len(s) + 1)
      /\ \A i \in 1..Len(s) : t[i] = s[i]
      /\ t[Len(s) + 1] = e
  BY AppendHas
<1> HIDE DEF t
<1>2. ASSUME NEW p \in DOMAIN t, t[p].role = "assistant", t[p].id > since, t[p].stop = "done",
             NEW i \in 1..t[p].calls
      PROVE  p + i \in DOMAIN t /\ t[p + i] = Result(t[p].id, i)
  <2>1. CASE p \in DOMAIN s
    <3>1. t[p] = s[p] /\ p + i \in DOMAIN s /\ s[p + i] = Result(s[p].id, i)
      BY <1>1, <1>2, <2>1 DEF Answered
    <3> QED
      BY <1>1, <3>1
  <2>2. CASE p \notin DOMAIN s
    <3>1. t[p] = e
      BY <1>1, <2>2
    <3> QED
      BY <1>2, <3>1
  <2> QED
    BY <2>1, <2>2
<1>3. Answered(t, since)
  BY <1>2 DEF Answered
<1> QED
  BY <1>3 DEF t

\* A reply with calls is answered by its results.
LEMMA ResultsAnswer ==
    ASSUME NEW S, NEW s \in Seq(S), NEW n \in Nat, NEW k \in Nat, NEW since, Answered(s, since),
           Reply(n, k, "done") \in S, Results(n, k) \in Seq(S),
           \A m \in DOMAIN s : s[m].role = "assistant" => s[m].calls \in Nat
    PROVE  Answered(Append(s, Reply(n, k, "done")) \o Results(n, k), since)
<1> DEFINE c == Append(s, Reply(n, k, "done"))
           t == c \o Results(n, k)
<1>1. /\ Len(s) \in Nat /\ DOMAIN s = 1..Len(s) /\ c \in Seq(S) /\ Len(c) = Len(s) + 1
      /\ \A i \in 1..Len(s) : c[i] = s[i]
      /\ c[Len(s) + 1] = Reply(n, k, "done")
  BY AppendHas
<1>2. Len(Results(n, k)) = k /\ \A i \in 1..k : Results(n, k)[i] = Result(n, i)
  BY ResultsAre
<1> HIDE DEF c
<1>3. /\ t \in Seq(S) /\ Len(t) = Len(s) + 1 + k
      /\ \A i \in 1..(Len(s) + 1 + k) : t[i] = IF i <= Len(s) + 1 THEN c[i]
                                              ELSE Results(n, k)[i - (Len(s) + 1)]
  <2>1. /\ t \in Seq(S) /\ Len(t) = Len(c) + Len(Results(n, k))
        /\ \A i \in 1..(Len(c) + Len(Results(n, k))) :
              t[i] = IF i <= Len(c) THEN c[i] ELSE Results(n, k)[i - Len(c)]
    BY <1>1, ConcatProperties
  <2> HIDE DEF t
  <2> QED
    BY <1>1, <1>2, <2>1
<1>4. DOMAIN t = 1..(Len(s) + 1 + k)
  BY <1>3, LenProperties
<1> HIDE DEF t
<1>5. \A i \in 1..Len(s) : t[i] = s[i]
  BY <1>1, <1>3
<1>6. t[Len(s) + 1] = Reply(n, k, "done")
  BY <1>1, <1>3
<1>7. ASSUME NEW i \in 1..k PROVE t[Len(s) + 1 + i] = Result(n, i)
  <2>1. Len(s) + 1 + i \in 1..(Len(s) + 1 + k) /\ ~(Len(s) + 1 + i <= Len(s) + 1)
        /\ Len(s) + 1 + i - (Len(s) + 1) = i
    BY <1>1
  <2> QED
    BY <1>2, <1>3, <2>1
<1>8. ASSUME NEW p \in DOMAIN t, t[p].role = "assistant", t[p].id > since, t[p].stop = "done",
             NEW i \in 1..t[p].calls
      PROVE  p + i \in DOMAIN t /\ t[p + i] = Result(t[p].id, i)
  <2>1. CASE p \in 1..Len(s)
    <3>1. t[p] = s[p] /\ p + i \in 1..Len(s) /\ s[p + i] = Result(s[p].id, i)
      BY <1>1, <1>5, <1>8, <2>1 DEF Answered
    <3> QED
      BY <1>1, <1>4, <1>5, <3>1
  <2>2. CASE p = Len(s) + 1
    <3>1. t[p].calls = k /\ t[p].id = n
      BY <1>6, <2>2 DEF Reply
    <3>2. p + i \in 1..(Len(s) + 1 + k)
      BY <1>1, <1>8, <2>2, <3>1
    <3> QED
      BY <1>4, <1>7, <1>8, <2>2, <3>1, <3>2
  <2>3. CASE p \notin 1..(Len(s) + 1)
    <3>1. p - (Len(s) + 1) \in 1..k /\ Len(s) + 1 + (p - (Len(s) + 1)) = p
      BY <1>1, <1>4, <2>3
    <3>2. t[p] = Result(n, p - (Len(s) + 1))
      BY <1>7, <3>1
    <3> QED
      BY <1>8, <3>2 DEF Result
  <2>4. p \in 1..Len(s) \/ p = Len(s) + 1 \/ p \notin 1..(Len(s) + 1)
    BY <1>1
  <2> QED
    BY <2>1, <2>2, <2>3, <2>4
<1>9. Answered(t, since)
  BY <1>8 DEF Answered
<1> QED
  BY <1>9 DEF t, c

LEMMA UsersShift ==
    ASSUME NEW S, NEW M, NEW t \in Seq(S), NEW messages \in Seq(M), messages # <<>>,
           \A m \in M : User(m) \in S
    PROVE  Append(t, User(Head(messages))) \o Users(Tail(messages)) = t \o Users(messages)
<1>1. /\ Head(messages) = messages[1] /\ Head(messages) \in M /\ Tail(messages) \in Seq(M)
      /\ Len(messages) \in Nat \ {0} /\ Len(Tail(messages)) = Len(messages) - 1
      /\ \A i \in 1..Len(Tail(messages)) : Tail(messages)[i] = messages[i + 1]
  BY HeadTailProperties, LenProperties, EmptySeq
<1> DEFINE u == Users(messages)
           v == Users(Tail(messages))
           a == Append(t, User(Head(messages)))
<1>2. [role: {"user"}, id: M] \subseteq S
  <2>1. ASSUME NEW e \in [role: {"user"}, id: M] PROVE e \in S
    <3>1. e = User(e.id) /\ e.id \in M
      BY DEF User
    <3> QED
      BY <3>1
  <2> QED
    BY <2>1
<1>3. /\ u \in Seq(S) /\ Len(u) = Len(messages)
      /\ \A i \in 1..Len(messages) : u[i] = User(messages[i])
  BY <1>2, UsersAre, SeqMonotonic
<1>4. /\ v \in Seq(S) /\ Len(v) = Len(messages) - 1
      /\ \A i \in 1..(Len(messages) - 1) : v[i] = User(messages[i + 1])
  <2>1. /\ v \in Seq([role: {"user"}, id: M]) /\ Len(v) = Len(Tail(messages))
        /\ \A i \in 1..Len(Tail(messages)) : v[i] = User(Tail(messages)[i])
    BY <1>1, UsersAre
  <2>2. v \in Seq(S)
    BY <1>2, <2>1, SeqMonotonic
  <2> HIDE DEF v
  <2> QED
    BY <1>1, <2>1, <2>2
<1>5. /\ Len(t) \in Nat /\ a \in Seq(S) /\ Len(a) = Len(t) + 1
      /\ \A i \in 1..Len(t) : a[i] = t[i]
      /\ a[Len(t) + 1] = User(messages[1])
  BY <1>1, AppendHas
<1> HIDE DEF u, v, a
<1>6. /\ a \o v \in Seq(S) /\ Len(a \o v) = Len(a) + Len(v)
      /\ \A i \in 1..(Len(a) + Len(v)) : (a \o v)[i] = IF i <= Len(a) THEN a[i] ELSE v[i - Len(a)]
  BY <1>4, <1>5, ConcatProperties
<1>7. /\ t \o u \in Seq(S) /\ Len(t \o u) = Len(t) + Len(u)
      /\ \A i \in 1..(Len(t) + Len(u)) : (t \o u)[i] = IF i <= Len(t) THEN t[i] ELSE u[i - Len(t)]
  BY <1>3, ConcatProperties
<1> DEFINE x == a \o v
           y == t \o u
<1>8. x \in Seq(S) /\ y \in Seq(S) /\ Len(x) = Len(t) + Len(messages) /\ Len(y) = Len(x)
  BY <1>1, <1>3, <1>4, <1>5, <1>6, <1>7
<1>9. ASSUME NEW i \in 1..(Len(t) + Len(messages)) PROVE x[i] = y[i]
  <2>1. i \in 1..(Len(a) + Len(v)) /\ i \in 1..(Len(t) + Len(u)) /\ i \in Nat \ {0}
    BY <1>1, <1>3, <1>4, <1>5
  <2>2. CASE i <= Len(t)
    <3>1. x[i] = a[i] /\ y[i] = t[i] /\ i \in 1..Len(t)
      BY <1>5, <1>6, <1>7, <2>1, <2>2
    <3> QED
      BY <1>5, <3>1
  <2>3. CASE i = Len(t) + 1
    <3>1. x[i] = a[i] /\ y[i] = u[1]
      BY <1>5, <1>6, <1>7, <2>1, <2>3
    <3> QED
      BY <1>1, <1>3, <1>5, <2>3, <3>1
  <2>4. CASE ~(i <= Len(t) + 1)
    <3>1. /\ x[i] = v[i - (Len(t) + 1)] /\ y[i] = u[i - Len(t)]
      BY <1>5, <1>6, <1>7, <2>1, <2>4
    <3>2. i - (Len(t) + 1) \in 1..(Len(messages) - 1) /\ i - (Len(t) + 1) + 1 = i - Len(t)
          /\ i - Len(t) \in 1..Len(messages)
      BY <1>1, <1>5, <2>4
    <3> QED
      BY <1>3, <1>4, <3>1, <3>2
  <2> QED
    BY <1>5, <2>1, <2>2, <2>3, <2>4
<1> HIDE DEF x, y
<1>10. x = y
  BY <1>8, <1>9, SeqEqual
<1> QED
  BY <1>10 DEF x, y, a, v, u

LEMMA ResultsShift ==
    ASSUME NEW S, NEW c \in Seq(S), NEW n, NEW k \in Nat \ {0},
           \A i \in 1..k : Result(n, i) \in S
    PROVE  Append(c \o Results(n, k - 1), Result(n, k)) = c \o Results(n, k)
<1> DEFINE r == Results(n, k - 1)
           q == Results(n, k)
           a == c \o r
<1>1. /\ Len(r) = k - 1 /\ \A i \in 1..(k - 1) : r[i] = Result(n, i)
      /\ Len(q) = k /\ \A i \in 1..k : q[i] = Result(n, i)
      /\ q \in Seq([role: {"toolResult"}, id: {n}, call: 1..k])
      /\ r \in Seq([role: {"toolResult"}, id: {n}, call: 1..(k - 1)])
  <2>1. k - 1 \in Nat
    OBVIOUS
  <2> QED
    BY <2>1, ResultsAre
<1> HIDE DEF r, q
<1>2. [role: {"toolResult"}, id: {n}, call: 1..k] \subseteq S
  <2>1. ASSUME NEW e \in [role: {"toolResult"}, id: {n}, call: 1..k] PROVE e \in S
    <3>1. e = Result(n, e.call) /\ e.call \in 1..k
      BY DEF Result
    <3> QED
      BY <3>1
  <2> QED
    BY <2>1
<1>3. [role: {"toolResult"}, id: {n}, call: 1..(k - 1)] \subseteq S
  BY <1>2
<1>4. r \in Seq(S) /\ q \in Seq(S)
  BY <1>1, <1>2, <1>3, SeqMonotonic
<1>5. /\ a \in Seq(S) /\ Len(a) = Len(c) + (k - 1) /\ Len(c) \in Nat
      /\ \A i \in 1..(Len(c) + (k - 1)) : a[i] = IF i <= Len(c) THEN c[i] ELSE r[i - Len(c)]
  <2>1. /\ a \in Seq(S) /\ Len(a) = Len(c) + Len(r) /\ Len(c) \in Nat
        /\ \A i \in 1..(Len(c) + Len(r)) : a[i] = IF i <= Len(c) THEN c[i] ELSE r[i - Len(c)]
    BY <1>4, ConcatProperties, LenProperties
  <2> HIDE DEF a
  <2> QED
    BY <1>1, <2>1
<1>6. /\ c \o q \in Seq(S) /\ Len(c \o q) = Len(c) + k
      /\ \A i \in 1..(Len(c) + k) : (c \o q)[i] = IF i <= Len(c) THEN c[i] ELSE q[i - Len(c)]
  BY <1>1, <1>4, ConcatProperties
<1> HIDE DEF a
<1> DEFINE x == Append(a, Result(n, k))
           y == c \o q
<1>7. /\ x \in Seq(S) /\ Len(x) = Len(a) + 1
      /\ \A i \in 1..Len(a) : x[i] = a[i]
      /\ x[Len(a) + 1] = Result(n, k)
  <2>1. Result(n, k) \in S
    OBVIOUS
  <2> QED
    BY <1>5, <2>1, AppendHas
<1>8. x \in Seq(S) /\ y \in Seq(S) /\ Len(x) = Len(c) + k /\ Len(y) = Len(x)
  BY <1>5, <1>6, <1>7
<1> HIDE DEF x
<1>9. ASSUME NEW i \in 1..(Len(c) + k) PROVE x[i] = y[i]
  <2>1. CASE i = Len(c) + k
    <3>1. x[i] = Result(n, k) /\ y[i] = q[k]
      BY <1>5, <1>6, <1>7, <2>1
    <3> QED
      BY <1>1, <3>1
  <2>2. CASE i <= Len(c)
    <3>1. i \in 1..Len(a) /\ i \in 1..(Len(c) + (k - 1))
      BY <1>5, <2>2
    <3>2. x[i] = a[i] /\ a[i] = c[i] /\ y[i] = c[i]
      BY <1>5, <1>6, <1>7, <2>2, <3>1
    <3> QED
      BY <3>2
  <2>3. CASE ~(i <= Len(c)) /\ i # Len(c) + k
    <3>1. i - Len(c) \in 1..(k - 1) /\ i \in 1..Len(a) /\ i - Len(c) \in 1..k
      BY <1>5, <2>3
    <3>2. x[i] = r[i - Len(c)] /\ y[i] = q[i - Len(c)]
      BY <1>5, <1>6, <1>7, <2>3, <3>1
    <3> QED
      BY <1>1, <3>1, <3>2
  <2> QED
    BY <1>5, <2>1, <2>2, <2>3
<1> HIDE DEF y
<1>10. x = y
  BY <1>8, <1>9, SeqEqual
<1> QED
  BY <1>10 DEF x, y, a, r, q

LEMMA NoResults ==
    ASSUME NEW S, NEW c \in Seq(S), NEW n
    PROVE  c \o Results(n, 0) = c
<1>1. Results(n, 0) = <<>>
  BY DEF Results
<1> QED
  BY <1>1, ConcatEmptySeq

LEMMA ReplyTypes ==
    ASSUME NEW s \in Seq(Entries)
    PROVE  \A i \in DOMAIN s : s[i].role = "assistant" => s[i].calls \in Nat
<1>1. \A i \in DOMAIN s : s[i] \in Entries
  BY LenProperties, ElementOfSeq
<1>2. \A e \in Entries : e.role = "assistant" => e.calls \in 0..MaxCalls
  BY DEF Entries
<1>3. 0..MaxCalls \subseteq Nat
  BY BoundsAssumption
<1> QED
  BY <1>1, <1>2, <1>3

LEMMA HistoryStep ==
    ASSUME Types, Types', History, [Next]_vars
    PROVE  History'
<1>1. turns \in Nat /\ turns' \in {turns, turns + 1} /\ Entries \subseteq Entries' /\ base \in Nat
  BY EntriesGrow DEF Types, FlagTypes
<1>2. base' = base \/ (base' = turns /\ turns' = turns)
  <2>1. CASE Begins
    BY <2>1 DEF Begins, Prompt, ContinueSteering, ContinueFollowUp, Continue, Begin, countVars
  <2>2. CASE Quiet \/ Tooling
    BY <2>2, QuietLeaves, ToolingLeaves DEF runVars
  <2>3. CASE Queues \/ Polls \/ Replies \/ (\E m \in Messages : Withdraw(m)) \/ RecordPrompt
             \/ Inject \/ StreamStarts \/ Report \/ Gather \/ Continuing \/ AgentEnd
             \/ HandleRunFailure \/ FinishRun \/ UNCHANGED vars
    BY <2>3 DEF Queues, Steer, FollowUp, Polls, FirstPoll, PollSteering, PollFollowUp, Replies,
                ReplyDone, ReplyFails, Withdraw, RecordPrompt, Inject, StreamStarts, Report,
                Gather, Continuing, AgentEnd, HandleRunFailure, FinishRun, vars, runVars
  <2> QED
    BY <2>1, <2>2, <2>3, StepKinds
<1>3. base' <= turns'
  <2>1. base <= turns
    BY DEF History
  <2> QED
    BY <1>1, <1>2, <2>1
<1>4. transcript \in Seq(Entries')
  BY <1>1, SeqMonotonic DEF Types, EntryTypes
<1>5. turns <= turns'
  BY <1>1
<1>6. ASSUME NEW i \in DOMAIN transcript, transcript[i].role = "assistant"
      PROVE  transcript[i].id <= turns'
  <2>1. transcript[i].id <= turns /\ transcript[i] \in Entries
    BY <1>6, LenProperties, ElementOfSeq DEF History, Types, EntryTypes
  <2>2. transcript[i].id \in Nat
    <3>1. \A e \in Entries : e.role = "assistant" => e.id \in 1..(turns + 1)
      BY DEF Entries
    <3> QED
      BY <1>1, <1>6, <2>1, <3>1
  <2> QED
    BY <1>1, <1>5, <2>1, <2>2
<1>7. ASSUME NEW e \in Entries', e.role = "assistant" => e.id <= turns',
             transcript' = Append(transcript, e)
      PROVE  \A i \in DOMAIN transcript' : transcript'[i].role = "assistant" => transcript'[i].id <= turns'
  <2>1. /\ Len(transcript) \in Nat /\ DOMAIN transcript' = 1..(Len(transcript) + 1)
        /\ DOMAIN transcript = 1..Len(transcript)
        /\ \A i \in 1..Len(transcript) : transcript'[i] = transcript[i]
        /\ transcript'[Len(transcript) + 1] = e
    BY <1>4, <1>7, AppendHas
  <2> QED
    BY <1>6, <1>7, <2>1
<1>8. \A i \in DOMAIN transcript' : transcript'[i].role = "assistant" => transcript'[i].id <= turns'
  <2>1. CASE UNCHANGED transcript
    BY <1>6, <2>1
  <2>2. CASE pending # <<>> /\ transcript' = Append(transcript, User(Head(pending)))
    <3>1. User(Head(pending)) \in Entries' /\ User(Head(pending)).role # "assistant"
      BY <1>1, <2>2, HeadTailProperties, EntriesMade DEF Types, QueueTypes, User
    <3> QED
      BY <1>7, <2>2, <3>1
  <2> QED
    BY <1>7, <2>1, <2>2, Recording DEF RecordsOther, RecordsHeld
<1> QED
  BY <1>3, <1>8 DEF History

\* Nothing is asked of a place where the run has stopped or failed.
LEMMA LooseStory ==
    ASSUME pc' \in Loose PROVE Mirror' /\ Complete'
  BY DEF Loose, Mirror, Complete, Level, Asking, Tools, OneByOne

\* The story goes on where the run stands still.
LEMMA StillStory ==
    ASSUME Types, Types', Story, [Next]_vars, pc' = pc, aborted => aborted',
           UNCHANGED <<pending, context, transcript, base, turns, toolVars>>
    PROVE  Mirror' /\ Complete'
<1>1. Entries \subseteq Entries'
  BY EntriesGrow DEF Types
<1>2. Mirror'
  BY DEF Story, Mirror, toolVars
<1>3. ASSUME NEW s \in Seq(Entries) PROVE s \in Seq(Entries')
  BY <1>1, SeqMonotonic
<1>4. pc' \in Tools => \E s \in Seq(Entries') :
          context' = Append(s, Reply(turns', Len(status'), "done")) /\ Answered(s, base')
  BY <1>3 DEF Story, Complete, toolVars
<1> QED
  BY <1>2, <1>4 DEF Story, Complete

LEMMA QuietStory ==
    ASSUME Types, Types', Story, [Next]_vars, Quiet
    PROVE  Mirror' /\ Complete'
<1>1. UNCHANGED <<pending, context, transcript, base, turns, toolVars>>
  BY QuietLeaves DEF countVars
<1>2. CASE Abort
  BY <1>1, <1>2, StillStory DEF Abort
<1>3. CASE pc' \in Loose
  BY <1>3, LooseStory
<1>4. CASE pc = "starting" /\ pc' = "prompting"
  BY <1>1, <1>4 DEF Story, Mirror, Complete, Level, Asking, Tools, OneByOne
<1>5. CASE pc \in Asking /\ pc' \in Asking
  BY <1>1, <1>5 DEF Story, Mirror, Complete, Level, Asking, Tools, OneByOne
<1>6. CASE pc = "turnEnd" /\ pc' = "turned" /\ aborted' = aborted
  BY <1>1, <1>6 DEF Story, Mirror, Complete, Level, Asking, Tools, OneByOne
<1>7. CASE pc = "turned" /\ ~aborted /\ pc' = "stopping"
  BY <1>1, <1>7 DEF Story, Mirror, Complete, Level, Asking, Tools, OneByOne
<1>8. CASE Start
  BY <1>3, <1>4, <1>8, HeardPlaces DEF Start, Loose
<1>9. CASE FirstPolled \/ Ask \/ AskThrows \/ Stop
  BY <1>3, <1>5, <1>9 DEF FirstPolled, Ask, AskThrows, Stop, Loose, Asking
<1>10. CASE TurnStart
  <2>1. pc = "turn" /\ pc' \in {"inject", "failed"}
    BY <1>10, HeardPlaces DEF TurnStart
  <2> QED
    BY <1>3, <1>5, <2>1 DEF Loose, Asking
<1>11. CASE TurnEnd
  <2>1. /\ aborted' = aborted
        /\ \/ pc = "turnEnd" /\ pc' \in {"turned", "failed"}
           \/ pc = "lastTurnEnd" /\ pc' \in {"ending", "failed"}
    BY <1>11, HeardPlaces DEF TurnEnd, runVars
  <2> QED
    BY <1>3, <1>6, <2>1 DEF Loose
<1>12. CASE Turned
  BY <1>3, <1>7, <1>12 DEF Turned, Loose
<1>13. CASE Steered \/ Followed
  <2>1. pc \in {"steered", "followed"} /\ pc' \in {"ending", "failed", "turn", "outer", "continuing"}
    BY <1>13 DEF Steered, Followed, NextTurn
  <2> QED
    BY <1>3, <1>5, <2>1 DEF Loose, Asking
<1> QED
  BY <1>2, <1>8, <1>9, <1>10, <1>11, <1>12, <1>13 DEF Quiet

LEMMA ToolingStory ==
    ASSUME Types, Types', Story, [Next]_vars, Tooling
    PROVE  Mirror' /\ Complete'
<1>1. UNCHANGED <<pending, context, transcript, base, turns, aborted>>
  BY ToolingLeaves DEF countVars, runVars
<1>2. Len(status') = Len(status)
  BY ToolingTypes DEF Types
<1>3. /\ pc \in Tools
      /\ \/ pc' \in Loose
         \/ pc \in OneByOne /\ pc' \in OneByOne /\ at' = at
         \/ pc \in {"parallel", "join"} /\ pc' \in {"parallel", "join"}
         \/ pc = "join" /\ pc' = "reportAll" /\ at' = 1
  <2>1. CASE Prepare
    <3>1. pc = "sequential" /\ at' = at /\ pc' \in {"execute", "report", "failed"}
      <4>1. pc = "sequential" /\ at' = at /\ \E next \in {"execute", "report"} : Heard(next)
        BY <2>1 DEF Prepare
      <4> QED
        BY <4>1, HeardPlaces
    <3> QED
      BY <3>1 DEF Tools, OneByOne, Loose
  <2>2. CASE Launch
    <3>1. pc = "parallel" /\ pc' \in {"parallel", "failed"}
      BY <2>2, HeardPlaces DEF Launch
    <3> QED
      BY <3>1 DEF Tools, Loose
  <2>3. CASE Execute \/ ExecuteAll \/ Joined
    BY <2>3 DEF Execute, ExecuteAll, Joined, Tools, OneByOne
  <2>4. CASE ToolReturns \/ ToolGivenUp
    <3>1. PICK i \in DOMAIN status : \E hint \in BOOLEAN : ToolEnds(i, hint) \/ ToolJoins(i, hint)
      BY <2>4 DEF ToolReturns, ToolGivenUp
    <3>2. \/ pc = "executing" /\ pc' = "report" /\ at' = at
          \/ pc = "join" /\ pc' \in {"join", "failed"}
      BY <3>1, HeardPlaces DEF ToolEnds, ToolJoins
    <3> QED
      BY <3>2 DEF Tools, OneByOne, Loose
  <2> QED
    BY <2>1, <2>2, <2>3, <2>4 DEF Tooling
<1>4. CASE pc' \in Loose
  BY <1>4, LooseStory
<1>5. CASE pc' \in Tools
  <2>1. Entries \subseteq Entries' /\ context \in Seq(Entries)
    BY EntriesGrow DEF Types, EntryTypes
  <2>2. PICK s \in Seq(Entries) :
           context = Append(s, Reply(turns, Len(status), "done")) /\ Answered(s, base)
    BY <1>3 DEF Story, Complete
  <2>3. s \in Seq(Entries')
    BY <2>1, SeqMonotonic
  <2>4. context' = Append(s, Reply(turns', Len(status'), "done")) /\ Answered(s, base')
    BY <1>1, <1>2, <2>2
  <2>5. Complete'
    BY <1>5, <2>3, <2>4 DEF Complete, Asking, Tools, OneByOne
  <2>6. CASE pc \in OneByOne /\ pc' \in OneByOne /\ at' = at
    BY <1>1, <2>5, <2>6 DEF Story, Mirror, Level, Asking, OneByOne
  <2>7. CASE pc \in {"parallel", "join"} /\ pc' \in {"parallel", "join"}
    BY <1>1, <2>5, <2>7 DEF Story, Mirror, Level, Asking, OneByOne
  <2>8. CASE pc = "join" /\ pc' = "reportAll" /\ at' = 1
    <3>1. context' \o Results(turns', at' - 1) = context
      BY <1>1, <2>1, <2>8, NoResults
    <3> QED
      BY <1>1, <2>5, <2>8, <3>1 DEF Story, Mirror, Level, Asking, OneByOne
  <2> QED
    BY <1>3, <1>5, <2>6, <2>7, <2>8 DEF Tools, OneByOne, Loose
<1> QED
  BY <1>3, <1>4, <1>5 DEF Tools

\* A run that begins has asked nothing yet.
LEMMA BeginStory ==
    ASSUME Types, Types', Story, [Next]_vars, Begins
    PROVE  Mirror' /\ Complete'
<1>1. /\ pc' = "starting" /\ context' = transcript \o Users(pending') /\ UNCHANGED transcript
      /\ base' = turns
  BY DEF Begins, Prompt, ContinueSteering, ContinueFollowUp, Continue, Begin
<1>2. Mirror'
  BY <1>1 DEF Mirror, Level, Asking, OneByOne
<1> DEFINE u == Users(pending')
           c == transcript \o u
<1>3. Users(pending') \in Seq([role: {"user"}, id: Messages'])
  BY UsersAre DEF Types, QueueTypes
<1>4. [role: {"user"}, id: Messages'] \subseteq Entries'
  BY DEF Entries
<1>5. u \in Seq(Entries') /\ \A i \in 1..Len(u) : u[i].role = "user"
  <2>1. u \in Seq(Entries')
    BY <1>3, <1>4, SeqMonotonic
  <2> DEFINE M == [role: {"user"}, id: Messages']
  <2>2. u \in Seq(M) /\ \A e \in M : e.role = "user"
    BY <1>3
  <2> HIDE DEF u, M
  <2>3. \A i \in 1..Len(u) : u[i] \in M
    BY <2>2, ElementOfSeq
  <2> QED
    BY <2>1, <2>2, <2>3
<1>6. transcript \in Seq(Entries') /\ turns \in Nat
  BY EntriesGrow, SeqMonotonic DEF Types, EntryTypes
<1> HIDE DEF u
<1>7. /\ c \in Seq(Entries') /\ Len(c) = Len(transcript) + Len(u)
      /\ Len(transcript) \in Nat /\ Len(u) \in Nat /\ DOMAIN transcript = 1..Len(transcript)
      /\ \A i \in 1..(Len(transcript) + Len(u)) :
            c[i] = IF i <= Len(transcript) THEN transcript[i] ELSE u[i - Len(transcript)]
  BY <1>5, <1>6, ConcatProperties, LenProperties
<1>8. DOMAIN c = 1..(Len(transcript) + Len(u))
  BY <1>7, LenProperties
<1> HIDE DEF c
<1>9. ASSUME NEW i \in DOMAIN c, c[i].role = "assistant" PROVE ~(c[i].id > turns)
  <2>1. CASE i <= Len(transcript)
    <3>1. i \in DOMAIN transcript /\ c[i] = transcript[i]
      BY <1>7, <1>8, <2>1
    <3>2. transcript[i].id <= turns /\ transcript[i] \in Entries
      BY <1>9, <3>1, <1>7, ElementOfSeq DEF Story, History, Types, EntryTypes
    <3>3. \A e \in Entries : e.role = "assistant" => e.id \in 1..(turns + 1)
      BY DEF Entries
    <3>4. transcript[i].id \in Nat
      BY <1>6, <1>9, <3>1, <3>2, <3>3
    <3> QED
      BY <1>6, <3>1, <3>2, <3>4
  <2>2. CASE ~(i <= Len(transcript))
    <3>1. i - Len(transcript) \in 1..Len(u) /\ c[i] = u[i - Len(transcript)]
      BY <1>7, <1>8, <2>2
    <3> QED
      BY <1>5, <1>9, <3>1
  <2> QED
    BY <2>1, <2>2
<1>10. Answered(c, turns)
  BY <1>9 DEF Answered
<1>11. Answered(context', base')
  BY <1>1, <1>10 DEF c, u
<1> QED
  BY <1>1, <1>2, <1>11 DEF Complete, Asking, Tools, OneByOne

LEMMA PollStory ==
    ASSUME Story, Polls \/ Continuing
    PROVE  Mirror' /\ Complete'
<1>1. /\ UNCHANGED <<context, transcript, base>>
      /\ pc \in Asking /\ pc' \in Asking \cup Loose
  <2>1. CASE Polls
    BY <2>1 DEF Polls, FirstPoll, PollSteering, PollFollowUp, Asking, runVars
  <2>2. CASE Continuing
    BY <2>2 DEF Continuing, NextTurn, Asking, Loose, runVars
  <2> QED
    BY <2>1, <2>2
<1>2. CASE pc' \in Loose
  BY <1>2, LooseStory
<1>3. CASE pc' \in Asking
  BY <1>1, <1>3 DEF Story, Mirror, Complete, Level, Asking, Tools, OneByOne
<1> QED
  BY <1>1, <1>2, <1>3

LEMMA PromptStory ==
    ASSUME Types, Types', Story, [Next]_vars, RecordPrompt
    PROVE  Mirror' /\ Complete'
<1>1. pc = "prompting" /\ UNCHANGED <<context, base>>
  BY DEF RecordPrompt, runVars
<1>2. context = transcript \o Users(pending) /\ Answered(context, base)
  BY <1>1 DEF Story, Mirror, Complete
<1>3. Entries \subseteq Entries' /\ transcript \in Seq(Entries') /\ pending \in Seq(Messages)
      /\ turns \in Nat
  BY EntriesGrow, SeqMonotonic DEF Types, EntryTypes, QueueTypes
<1>4. CASE pending = <<>>
  <2>1. pc' = "firstPoll" /\ UNCHANGED transcript
    BY <1>4 DEF RecordPrompt
  <2>2. Users(<<>>) = <<>>
    BY DEF Users
  <2>3. context = transcript
    BY <1>2, <1>3, <1>4, <2>2, ConcatEmptySeq
  <2> QED
    BY <1>1, <1>2, <2>1, <2>3 DEF Mirror, Complete, Level, Asking, Tools, OneByOne
<1>5. CASE pending # <<>>
  <2>1. Recorded(User(Head(pending)), pc) /\ pending' = Tail(pending)
    BY <1>5 DEF RecordPrompt
  <2>2. CASE pc' = "failed"
    BY <2>2, LooseStory DEF Loose
  <2>3. CASE pc' = "prompting" /\ transcript' = Append(transcript, User(Head(pending)))
    <3>1. \A m \in Messages : User(m) \in Entries'
      BY <1>3, EntriesMade
    <3>2. transcript' \o Users(pending') = context'
      BY <1>1, <1>2, <1>3, <1>5, <2>1, <2>3, <3>1, UsersShift
    <3> QED
      BY <1>1, <1>2, <2>3, <3>2 DEF Mirror, Complete, Level, Asking, Tools, OneByOne
  <2> QED
    BY <1>1, <2>1, <2>2, <2>3 DEF Recorded, ListenerFails
<1> QED
  BY <1>4, <1>5

LEMMA InjectStory ==
    ASSUME Types, Types', Story, [Next]_vars, Inject
    PROVE  Mirror' /\ Complete'
<1> DEFINE e == User(Head(pending))
<1>1. pc = "inject" /\ pending # <<>> /\ Recorded(e, pc) /\ context' = Append(context, e)
      /\ UNCHANGED base
  BY DEF Inject, runVars
<1>2. context = transcript /\ Answered(context, base)
  BY <1>1 DEF Story, Mirror, Complete, Level, Asking
<1>3. /\ context \in Seq(Entries) /\ e \in Entries /\ e.role # "assistant"
      /\ \A n \in DOMAIN context : context[n].role = "assistant" => context[n].calls \in Nat
  BY <1>1, EntriesGrow, EntriesMade, HeadTailProperties, ReplyTypes
     DEF Types, EntryTypes, QueueTypes, User
<1>4. CASE pc' = "failed"
  BY <1>4, LooseStory DEF Loose
<1>5. CASE pc' = "inject" /\ transcript' = Append(transcript, e)
  <2>1. Answered(context', base')
    <3> HIDE DEF e
    <3> QED
      BY <1>1, <1>2, <1>3, AppendAnswered
  <2>2. context' = transcript'
    BY <1>1, <1>2, <1>5
  <2> QED
    BY <1>5, <2>1, <2>2 DEF Mirror, Complete, Level, Asking, Tools, OneByOne
<1> QED
  BY <1>1, <1>4, <1>5 DEF Recorded, ListenerFails

LEMMA StreamStory ==
    ASSUME Story, StreamStarts
    PROVE  Mirror' /\ Complete'
<1>1. /\ pc = "asking" /\ pc' \in {"streaming", "failed"} /\ UNCHANGED <<transcript, base, turns>>
      /\ context' = Append(context, Reply(turns + 1, 0, "partial"))
  BY HeardPlaces DEF StreamStarts, runVars, countVars
<1>2. context = transcript /\ Answered(context, base)
  BY <1>1 DEF Story, Mirror, Complete, Level, Asking
<1>3. CASE pc' = "failed"
  BY <1>3, LooseStory DEF Loose
<1>4. CASE pc' = "streaming"
  BY <1>1, <1>2, <1>4 DEF Mirror, Complete, Level, Asking, Tools, OneByOne
<1> QED
  BY <1>1, <1>3, <1>4

\* A reply stands at the end of both, in the place of the partial one.
LEMMA RepliedStory ==
    ASSUME Types, Story, NEW reply \in Entries, NEW next, Replied(reply, next), next # "failed",
           pc \in {"asking", "streaming"}
    PROVE  /\ pc' \in {next, "failed"} /\ Answered(transcript, base)
           /\ pc' = next => context' = Append(transcript, reply) /\ transcript' = context'
<1>1. Heard(next) \/ Recorded(reply, next)
  BY DEF Replied
<1>2. pc' \in {next, "failed"}
  BY <1>1, HeardPlaces
<1>3. CASE pc = "streaming"
  <2>1. context = Append(transcript, Reply(turns + 1, 0, "partial")) /\ Answered(transcript, base)
    BY <1>3 DEF Story, Mirror, Complete
  <2>2. transcript \in Seq(Entries) /\ Reply(turns + 1, 0, "partial") \in Entries
    <3>1. turns \in Nat /\ turns + 1 \in 1..(turns + 1) /\ 0 \in 0..MaxCalls
      BY BoundsAssumption DEF Types, FlagTypes
    <3> QED
      BY <3>1, EntriesMade DEF Types, EntryTypes
  <2>3. Front(context) = transcript
    BY <2>1, <2>2, AppendHas
  <2>4. context' = Append(Front(context), reply) /\ transcript' = Append(transcript, reply)
    BY <1>3 DEF Replied
  <2> QED
    BY <1>2, <2>1, <2>3, <2>4
<1>4. CASE pc = "asking"
  <2>1. context = transcript /\ Answered(context, base)
    BY <1>4 DEF Story, Mirror, Complete, Level, Asking
  <2>2. context' = Append(context, reply) /\ Recorded(reply, next)
    BY <1>4 DEF Replied
  <2>3. pc' = next => transcript' = Append(transcript, reply)
    BY <2>2 DEF Recorded, ListenerFails
  <2> QED
    BY <1>2, <2>1, <2>2, <2>3
<1> QED
  BY <1>3, <1>4

LEMMA ReplyStory ==
    ASSUME Types, Types', Story, [Next]_vars, Replies
    PROVE  Mirror' /\ Complete'
<1>1. Entries \subseteq Entries' /\ turns \in Nat /\ turns' = turns + 1
  BY EntriesGrow, Counting DEF Types
<1>2. turns + 1 \in 1..(turns + 1) /\ transcript \in Seq(Entries) /\ transcript \in Seq(Entries')
  BY <1>1, SeqMonotonic DEF Types, EntryTypes
<1>3. ASSUME NEW calls \in 0..MaxCalls, ReplyDone(calls)
      PROVE  Mirror' /\ Complete'
  <2> DEFINE reply == Reply(turns + 1, calls, "done")
  <2>1. /\ pc \in {"asking", "streaming"} /\ UNCHANGED base
        /\ status' = [i \in 1..calls |-> "waiting"] /\ at' = 1
    BY <1>3 DEF ReplyDone, runVars
  <2>2. reply \in Entries
    BY <1>1, <1>2, EntriesMade
  <2>3. PICK next \in IF calls = 0 THEN {"turnEnd"} ELSE {"sequential", "parallel"} :
           Replied(reply, next)
    BY <1>3 DEF ReplyDone
  <2>4. next # "failed"
    BY <2>3
  <2>5. /\ pc' \in {next, "failed"} /\ Answered(transcript, base)
        /\ pc' = next => context' = Append(transcript, reply) /\ transcript' = context'
    <3> HIDE DEF reply
    <3> QED
      BY <1>3, <2>1, <2>2, <2>3, <2>4, RepliedStory
  <2>6. CASE pc' = "failed"
    BY <2>6, LooseStory DEF Loose
  <2>7. CASE pc' = next /\ calls = 0
    <3>1. \A n \in DOMAIN transcript : transcript[n].role = "assistant" => transcript[n].calls \in Nat
      BY <1>2, ReplyTypes
    <3>2. reply.calls = 0
      BY <2>7 DEF Reply
    <3>3. Answered(Append(transcript, reply), base)
      <4> HIDE DEF reply
      <4> QED
        BY <1>2, <2>2, <2>5, <3>1, <3>2, AppendAnswered
    <3>4. Answered(context', base') /\ context' = transcript' /\ pc' = "turnEnd"
      BY <2>1, <2>3, <2>5, <2>7, <3>3
    <3> QED
      BY <3>4 DEF Mirror, Complete, Level, Asking, Tools, OneByOne
  <2>8. CASE pc' = next /\ calls # 0
    <3>1. Len(status') = calls
      BY <2>1
    <3>2. context' = Append(transcript, Reply(turns', Len(status'), "done"))
          /\ transcript' = context' /\ Answered(transcript, base')
      BY <1>1, <2>1, <2>5, <2>8, <3>1
    <3>3. context' \in Seq(Entries')
      BY DEF Types, EntryTypes
    <3>4. context' \o Results(turns', at' - 1) = context'
      BY <2>1, <3>3, NoResults
    <3>5. pc' \in {"sequential", "parallel"}
      BY <2>3, <2>8
    <3>6. Mirror'
      BY <3>2, <3>4, <3>5 DEF Mirror, Level, Asking, OneByOne
    <3>7. Complete'
      BY <1>2, <3>2, <3>5 DEF Complete, Asking, Tools, OneByOne
    <3> QED
      BY <3>6, <3>7
  <2> QED
    BY <2>5, <2>6, <2>7, <2>8
<1>4. ASSUME NEW calls \in 0..MaxCalls, ReplyFails(calls)
      PROVE  Mirror' /\ Complete'
  <2>1. \E reply : Replied(reply, "lastTurnEnd")
    BY <1>4 DEF ReplyFails
  <2>2. Heard("lastTurnEnd") \/ \E reply : Recorded(reply, "lastTurnEnd")
    BY <2>1 DEF Replied
  <2>3. pc' \in Loose
    BY <2>2, HeardPlaces DEF Loose
  <2> QED
    BY <2>3, LooseStory
<1> QED
  BY <1>3, <1>4 DEF Replies

LEMMA ReportStory ==
    ASSUME Types, Types', Story, [Next]_vars, Report
    PROVE  Mirror' /\ Complete'
<1> DEFINE result == Result(turns, at)
<1>1. /\ UNCHANGED <<context, base, turns, status>> /\ at' = at + 1
      /\ \/ pc = "report" /\ Recorded(result, "sequential")
         \/ pc = "reportAll" /\ at <= Len(status) /\ Recorded(result, "reportAll")
  BY DEF Report, runVars, countVars
<1>2. pc \in Tools /\ transcript = context \o Results(turns, at - 1)
  BY <1>1 DEF Story, Mirror, Tools, OneByOne
<1>3. Entries \subseteq Entries' /\ context \in Seq(Entries) /\ turns \in Nat /\ turns # 0
  BY <1>2, EntriesGrow DEF Types, EntryTypes
<1>4. at \in Nat \ {0} /\ at <= MaxCalls /\ MaxCalls \in Nat
  <2>1. at <= Len(status) /\ Len(status) \in 1..MaxCalls /\ at \in Nat \ {0} /\ MaxCalls \in Nat
    BY <1>1, <1>2, BoundsAssumption DEF Types, ToolTypes, CallsInHand
  <2> QED
    BY <2>1
<1>5. \A i \in 1..at : Result(turns, i) \in Entries
  <2>1. turns \in 1..turns /\ \A i \in 1..at : i \in 1..MaxCalls
    BY <1>3, <1>4
  <2> QED
    BY <1>3, <2>1, EntriesMade
<1>6. CASE pc' = "failed"
  BY <1>6, LooseStory DEF Loose
<1>7. CASE pc' \in {"sequential", "reportAll"} /\ transcript' = Append(transcript, result)
  <2>1. Append(context \o Results(turns, at - 1), Result(turns, at)) = context \o Results(turns, at)
    BY <1>3, <1>4, <1>5, ResultsShift
  <2>2. at' - 1 = at
    BY <1>1, <1>4
  <2>3. transcript' = context' \o Results(turns', at' - 1)
    BY <1>1, <1>2, <1>7, <2>1, <2>2
  <2>4. Mirror'
    BY <1>7, <2>3 DEF Mirror, Level, Asking, OneByOne
  <2>5. PICK s \in Seq(Entries) :
           context = Append(s, Reply(turns, Len(status), "done")) /\ Answered(s, base)
    BY <1>2 DEF Story, Complete
  <2>6. s \in Seq(Entries')
    BY <1>3, SeqMonotonic
  <2>7. context' = Append(s, Reply(turns', Len(status'), "done")) /\ Answered(s, base')
    BY <1>1, <2>5
  <2>8. Complete'
    BY <1>7, <2>6, <2>7 DEF Complete, Asking, Tools, OneByOne
  <2> QED
    BY <2>4, <2>8
<1> QED
  BY <1>1, <1>6, <1>7 DEF Recorded, ListenerFails

\* A batch that was not cut short by an abort is answered in full.
LEMMA GatherStory ==
    ASSUME Types, Types', Story, [Next]_vars, Gather
    PROVE  Mirror' /\ Complete'
<1>1. /\ pc \in {"sequential", "reportAll"} /\ pc' = "turnEnd" /\ UNCHANGED <<transcript, base, aborted>>
      /\ context' = context \o Results(turns, at - 1)
      /\ aborted \/ at > Len(status)
  BY DEF Gather, runVars
<1>2. pc \in Tools /\ transcript = context \o Results(turns, at - 1)
  BY <1>1 DEF Story, Mirror, Tools, OneByOne
<1>3. PICK s \in Seq(Entries) :
         context = Append(s, Reply(turns, Len(status), "done")) /\ Answered(s, base)
  BY <1>2 DEF Story, Complete
<1>4. turns \in Nat /\ turns # 0 /\ Len(status) \in 1..MaxCalls /\ at \in 1..(Len(status) + 1)
      /\ MaxCalls \in Nat
  BY <1>2, EntriesGrow, BoundsAssumption DEF Types, EntryTypes, ToolTypes, CallsInHand
<1>5. CASE aborted
  BY <1>1, <1>2, <1>5 DEF Mirror, Complete, Level, Asking, Tools, OneByOne
<1>6. CASE ~aborted
  <2> DEFINE k == Len(status)
  <2>1. at - 1 = k /\ k \in Nat /\ k \in 0..MaxCalls /\ turns \in 1..(turns + 1) /\ turns \in 1..turns
    BY <1>1, <1>4, <1>6
  <2>2. Reply(turns, k, "done") \in Entries /\ \A i \in 1..k : Result(turns, i) \in Entries
    <3>1. \A i \in 1..k : i \in 1..MaxCalls
      BY <1>4
    <3> QED
      BY <1>4, <2>1, <3>1, EntriesMade
  <2>3. Results(turns, k) \in Seq(Entries)
    <3>1. Results(turns, k) \in Seq([role: {"toolResult"}, id: {turns}, call: 1..k])
      BY <2>1, ResultsAre
    <3>2. [role: {"toolResult"}, id: {turns}, call: 1..k] \subseteq Entries
      BY <1>4, <2>1 DEF Entries
    <3> QED
      BY <3>1, <3>2, SeqMonotonic
  <2>4. \A m \in DOMAIN s : s[m].role = "assistant" => s[m].calls \in Nat
    BY ReplyTypes
  <2> HIDE DEF k
  <2>5. Answered(Append(s, Reply(turns, k, "done")) \o Results(turns, k), base)
    BY <1>3, <1>4, <2>1, <2>2, <2>3, <2>4, ResultsAnswer
  <2>6. Answered(context', base')
    BY <1>1, <1>3, <2>1, <2>5 DEF k
  <2> QED
    BY <1>1, <1>2, <2>6 DEF Mirror, Complete, Level, Asking, Tools, OneByOne
<1> QED
  BY <1>5, <1>6

LEMMA StoryStep ==
    ASSUME Types, Types', Story, [Next]_vars
    PROVE  Story'
<1>1. History'
  BY HistoryStep DEF Story
<1> SUFFICES Mirror' /\ Complete'
  BY <1>1 DEF Story
<1>2. CASE Queues \/ (\E m \in Messages : Withdraw(m)) \/ UNCHANGED vars
  <2>1. UNCHANGED <<pc, aborted, pending, context, transcript, base, turns, toolVars>>
    BY <1>2 DEF Queues, Steer, FollowUp, Withdraw, vars, runVars, countVars
  <2> QED
    BY <2>1, StillStory
<1>3. CASE AgentEnd \/ HandleRunFailure \/ FinishRun
  <2>1. pc' \in Loose
    BY <1>3, HeardPlaces DEF AgentEnd, HandleRunFailure, FinishRun, Loose
  <2> QED
    BY <2>1, LooseStory
<1> QED
  BY <1>2, <1>3, QuietStory, ToolingStory, BeginStory, PollStory, PromptStory, InjectStory,
     StreamStory, ReplyStory, ReportStory, GatherStory, StepKinds

\* The model is never asked with a call of this run that has no answer, an answer twice or
\* out of place, or with other messages than the agent has recorded (runLoop,
\* createContextSnapshot, executeToolCalls).
THEOREM RequestsComplete == Spec => []RequestIsComplete
<1>1. Init => Story
  BY DEF Init, Story, History, Mirror, Complete, Level, Asking, Tools, OneByOne
<1>2. Types /\ Types' /\ Story /\ [Next]_vars => Story'
  BY StoryStep
<1>3. Story => RequestIsComplete
  BY DEF Story, Mirror, Complete, Level, Asking, RequestIsComplete
<1> QED
  BY <1>1, <1>2, <1>3, TypesHold, PTL DEF Spec

-----------------------------------------------------------------------------
(* The order of the messages of one queue, from the transcript to the queue *)

Rising(s, K) == \A i, j \in DOMAIN s : i < j /\ s[i] \in K /\ s[j] \in K => s[i] < s[j]
RisingEntries(s, K) ==
    \A i, j \in DOMAIN s :
        i < j /\ s[i].role = "user" /\ s[i].id \in K /\ s[j].role = "user" /\ s[j].id \in K
            => s[i].id < s[j].id
Precede(A, B) == \A a \in A, b \in B : a < b

\* Those of K are recorded in t, held in p and waiting in q, in their order.
Way(K, t, p, q) ==
    /\ Range(q) \subseteq K
    /\ RisingEntries(t, K) /\ Rising(p, K) /\ Rising(q, K)
    /\ Precede(UserIds(t) \cap K, Range(p) \cap K)
    /\ Precede(UserIds(t) \cap K, Range(q))
    /\ Precede(Range(p) \cap K, Range(q))

LEMMA InRange ==
    ASSUME NEW s, NEW i \in DOMAIN s
    PROVE  s[i] \in Range(s)
  BY DEF Range

LEMMA InUserIds ==
    ASSUME NEW s, NEW i \in DOMAIN s, s[i].role = "user"
    PROVE  s[i].id \in UserIds(s)
  BY DEF UserIds, Range

\* Messages that come later do not matter to those that are there.
LEMMA WayOfMore ==
    ASSUME NEW K, NEW L, NEW M, NEW t, NEW p, NEW q, Way(K, t, p, q), K \subseteq L,
           L \cap M \subseteq K, UserIds(t) \subseteq M, Range(p) \subseteq M, Range(q) \subseteq M
    PROVE  Way(L, t, p, q)
<1>1. UserIds(t) \cap L = UserIds(t) \cap K /\ Range(p) \cap L = Range(p) \cap K
  OBVIOUS
<1>2. RisingEntries(t, L)
  <2>1. \A i \in DOMAIN t : t[i].role = "user" /\ t[i].id \in L => t[i].id \in K
    BY <1>1, InUserIds
  <2> QED
    BY <2>1 DEF Way, RisingEntries
<1>3. \A i \in DOMAIN p : p[i] \in L => p[i] \in K
  BY <1>1, InRange
<1>4. \A i \in DOMAIN q : q[i] \in K
  BY InRange DEF Way
<1> QED
  BY <1>1, <1>2, <1>3, <1>4 DEF Way, Rising

LEMMA WayRecordsOther ==
    ASSUME NEW K, NEW S, NEW t \in Seq(S), NEW p, NEW q, Way(K, t, p, q), NEW e \in S, e.role # "user"
    PROVE  Way(K, Append(t, e), p, q)
<1>1. UserIds(Append(t, e)) = UserIds(t)
  <2>1. UserIds(Append(t, e)) = UserIds(t) \cup (IF e.role = "user" THEN {e.id} ELSE {})
    BY RecordedIds
  <2> QED
    BY <2>1
<1>2. RisingEntries(Append(t, e), K)
  <2>1. /\ Len(t) \in Nat /\ DOMAIN t = 1..Len(t) /\ DOMAIN Append(t, e) = 1..(Len(t) + 1)
        /\ \A i \in 1..Len(t) : Append(t, e)[i] = t[i]
        /\ Append(t, e)[Len(t) + 1] = e
    BY AppendHas
  <2>2. \A i \in DOMAIN Append(t, e) : Append(t, e)[i].role = "user" =>
            i \in DOMAIN t /\ Append(t, e)[i] = t[i]
    BY <2>1
  <2> QED
    BY <2>2 DEF Way, RisingEntries
<1> QED
  BY <1>1, <1>2 DEF Way

LEMMA WayHoldsOthers ==
    ASSUME NEW K, NEW t, NEW p, NEW q, Way(K, t, p, q), NEW r, Range(r) \cap K = {}
    PROVE  Way(K, t, r, q)
<1>1. Rising(r, K)
  BY InRange DEF Rising
<1> QED
  BY <1>1 DEF Way, Precede

LEMMA WayLetsGo ==
    ASSUME NEW K, NEW M, NEW t, NEW p \in Seq(M), NEW q, Way(K, t, p, q), p # <<>>
    PROVE  Way(K, t, Tail(p), q)
<1>1. /\ Len(p) \in Nat /\ Tail(p) \in Seq(M) /\ Len(Tail(p)) = Len(p) - 1
      /\ \A i \in 1..Len(Tail(p)) : Tail(p)[i] = p[i + 1]
      /\ DOMAIN p = 1..Len(p)
  BY HeadTailProperties, LenProperties
<1>2. DOMAIN Tail(p) = 1..(Len(p) - 1)
  BY <1>1, LenProperties
<1>3. \A i \in DOMAIN Tail(p) : i + 1 \in DOMAIN p /\ Tail(p)[i] = p[i + 1]
  BY <1>1, <1>2
<1>4. Rising(Tail(p), K)
  <2> SUFFICES ASSUME NEW i \in DOMAIN Tail(p), NEW j \in DOMAIN Tail(p), i < j,
                      Tail(p)[i] \in K, Tail(p)[j] \in K
               PROVE  Tail(p)[i] < Tail(p)[j]
    BY DEF Rising
  <2>1. i + 1 < j + 1
    BY <1>1, <1>2
  <2> QED
    BY <1>3, <2>1 DEF Way, Rising
<1>5. Range(Tail(p)) \subseteq Range(p)
  BY TailKeeps
<1> QED
  BY <1>4, <1>5 DEF Way, Precede

LEMMA WayRecordsHeld ==
    ASSUME NEW K, NEW S, NEW M, NEW t \in Seq(S), NEW p \in Seq(M), NEW q, Way(K, t, p, q),
           p # <<>>, User(Head(p)) \in S
    PROVE  Way(K, Append(t, User(Head(p))), Tail(p), q)
<1> DEFINE h == Head(p)
           e == User(h)
           u == Append(t, e)
<1>1. Way(K, t, Tail(p), q)
  BY WayLetsGo
<1>2. UserIds(u) = UserIds(t) \cup {h}
  <2>1. UserIds(u) = UserIds(t) \cup (IF e.role = "user" THEN {e.id} ELSE {})
    BY RecordedIds
  <2> QED
    BY <2>1 DEF User
<1>3. /\ Len(p) \in Nat \ {0} /\ h = p[1] /\ DOMAIN p = 1..Len(p)
      /\ Len(Tail(p)) = Len(p) - 1 /\ Tail(p) \in Seq(M)
      /\ \A i \in 1..Len(Tail(p)) : Tail(p)[i] = p[i + 1]
  BY HeadTailProperties, LenProperties, EmptySeq
<1>4. h \in Range(p)
  BY <1>3, InRange
<1>5. h \in K => \A m \in Range(Tail(p)) \cap K : h < m
  <2> SUFFICES ASSUME h \in K, NEW m \in Range(Tail(p)) \cap K PROVE h < m
    OBVIOUS
  <2> DEFINE r == Tail(p)
  <2>3. r \in Seq(M)
    BY <1>3
  <2> HIDE DEF r
  <2>4. Range(r) = {r[i] : i \in 1..Len(r)}
    BY <2>3, RangeIs
  <2>1. PICK i \in 1..Len(Tail(p)) : m = Tail(p)[i]
    BY <2>4 DEF r
  <2>2. m = p[i + 1] /\ i + 1 \in DOMAIN p /\ 1 \in DOMAIN p /\ 1 < i + 1
    BY <1>3, <2>1
  <2> QED
    BY <1>3, <2>2 DEF Way, Rising
<1>6. RisingEntries(u, K)
  <2>1. /\ Len(t) \in Nat /\ DOMAIN t = 1..Len(t) /\ DOMAIN u = 1..(Len(t) + 1)
        /\ \A i \in 1..Len(t) : u[i] = t[i]
        /\ u[Len(t) + 1] = e
    BY AppendHas
  <2> HIDE DEF u
  <2> SUFFICES ASSUME NEW i \in DOMAIN u, NEW j \in DOMAIN u, i < j,
                      u[i].role = "user", u[i].id \in K, u[j].role = "user", u[j].id \in K
               PROVE  u[i].id < u[j].id
    BY DEF RisingEntries
  <2>2. i \in DOMAIN t /\ u[i] = t[i]
    BY <2>1
  <2>3. CASE j \in DOMAIN t
    BY <2>1, <2>2, <2>3 DEF Way, RisingEntries
  <2>4. CASE j \notin DOMAIN t
    <3>1. u[j] = e /\ u[j].id = h
      BY <2>1, <2>4 DEF User
    <3>2. t[i].id \in UserIds(t) \cap K /\ h \in Range(p) \cap K
      BY <1>4, <2>2, <3>1, InUserIds
    <3> QED
      BY <2>2, <3>1, <3>2 DEF Way, Precede
  <2> QED
    BY <2>3, <2>4
<1> HIDE DEF u
<1>7. Precede(UserIds(u) \cap K, Range(Tail(p)) \cap K)
  BY <1>1, <1>2, <1>5 DEF Way, Precede
<1>8. Precede(UserIds(u) \cap K, Range(q))
  BY <1>2, <1>4 DEF Way, Precede
<1>9. Way(K, u, Tail(p), q)
  BY <1>1, <1>6, <1>7, <1>8 DEF Way
<1> QED
  BY <1>9 DEF u

\* What is drained goes ahead of what stays.
LEMMA WayDrains ==
    ASSUME NEW K, NEW M, NEW t, NEW p, NEW q \in Seq(M), Way(K, t, p, q), NEW n \in Drains(q)
    PROVE  Way(K, t, Taken(q, n), Rest(q, n))
<1> DEFINE f == Taken(q, n)
           r == Rest(q, n)
<1>1. n \in 0..Len(q) /\ n \in n..Len(q) /\ Len(q) \in Nat /\ DOMAIN q = 1..Len(q)
  BY LenProperties DEF Drains
<1>2. /\ f \in Seq(M) /\ r \in Seq(M) /\ Len(f) = n /\ Len(r) = Len(q) - n
      /\ \A i \in 1..n : f[i] = q[i]
      /\ \A i \in 1..(Len(q) - n) : r[i] = q[n + i]
  BY <1>1, Pieces DEF Taken, Rest
<1>3. Range(q) = Range(f) \cup Range(r)
  BY DrainKeeps
<1> HIDE DEF f, r
<1>4. DOMAIN f = 1..n /\ DOMAIN r = 1..(Len(q) - n)
  BY <1>2, LenProperties
<1>5. \A i \in DOMAIN f : i \in DOMAIN q /\ f[i] = q[i]
  BY <1>1, <1>2, <1>4
<1>6. \A i \in DOMAIN r : n + i \in DOMAIN q /\ r[i] = q[n + i]
  BY <1>1, <1>2, <1>4
<1>7. Rising(f, K)
  BY <1>5 DEF Way, Rising
<1>8. Rising(r, K)
  <2> SUFFICES ASSUME NEW i \in DOMAIN r, NEW j \in DOMAIN r, i < j, r[i] \in K, r[j] \in K
               PROVE  r[i] < r[j]
    BY DEF Rising
  <2>1. n + i < n + j
    BY <1>1, <1>4
  <2> QED
    BY <1>6, <2>1 DEF Way, Rising
<1>9. Precede(Range(f) \cap K, Range(r))
  <2> SUFFICES ASSUME NEW a \in Range(f) \cap K, NEW b \in Range(r) PROVE a < b
    BY DEF Precede
  <2>1. PICK i \in DOMAIN f : a = f[i]
    BY DEF Range
  <2>2. PICK j \in DOMAIN r : b = r[j]
    BY DEF Range
  <2>3. i < n + j
    BY <1>1, <1>4
  <2>4. b \in K
    BY <1>3 DEF Way
  <2> QED
    BY <1>5, <1>6, <2>1, <2>2, <2>3, <2>4 DEF Way, Rising
<1>10. Way(K, t, f, r)
  BY <1>3, <1>7, <1>8, <1>9 DEF Way, Precede
<1> QED
  BY <1>10 DEF f, r

LEMMA WayWithdraws ==
    ASSUME NEW K, NEW M, NEW t, NEW p, NEW q \in Seq(M), Way(K, t, p, q), NEW gone, NEW rest,
           Without(q, gone, rest)
    PROVE  Way(K, t, p, rest)
<1>1. PICK a \in 0..Len(q) : \E b \in a..Len(q) :
         rest = SubSeq(q, 1, a) \o SubSeq(q, b + 1, Len(q))
  BY DEF Without
<1>2. PICK b \in a..Len(q) : rest = SubSeq(q, 1, a) \o SubSeq(q, b + 1, Len(q))
  BY <1>1
<1> DEFINE f == SubSeq(q, 1, a)
           l == SubSeq(q, b + 1, Len(q))
<1>3. /\ f \in Seq(M) /\ l \in Seq(M) /\ Len(f) = a /\ Len(l) = Len(q) - b
      /\ \A i \in 1..a : f[i] = q[i]
      /\ \A i \in 1..(Len(q) - b) : l[i] = q[b + i]
  BY Pieces
<1>4. rest = f \o l /\ Len(q) \in Nat /\ DOMAIN q = 1..Len(q)
  BY <1>2, LenProperties
<1> HIDE DEF f, l
<1>5. /\ rest \in Seq(M) /\ Len(rest) = a + (Len(q) - b)
      /\ \A i \in 1..(a + (Len(q) - b)) : rest[i] = IF i <= a THEN f[i] ELSE l[i - a]
  <2>1. /\ f \o l \in Seq(M) /\ Len(f \o l) = Len(f) + Len(l)
        /\ \A i \in 1..(Len(f) + Len(l)) : (f \o l)[i] = IF i <= Len(f) THEN f[i] ELSE l[i - Len(f)]
    BY <1>3, ConcatProperties
  <2> QED
    BY <1>3, <1>4, <2>1
<1>6. DOMAIN rest = 1..(a + (Len(q) - b))
  BY <1>5, LenProperties
<1> DEFINE from(i) == IF i <= a THEN i ELSE i + (b - a)
<1>7. ASSUME NEW i \in DOMAIN rest PROVE from(i) \in DOMAIN q /\ rest[i] = q[from(i)]
  <2>1. CASE i <= a
    BY <1>3, <1>4, <1>5, <1>6, <2>1
  <2>2. CASE ~(i <= a)
    <3>1. i - a \in 1..(Len(q) - b) /\ b + (i - a) = from(i) /\ from(i) \in 1..Len(q)
      BY <1>4, <1>6, <2>2
    <3>2. rest[i] = l[i - a]
      BY <1>5, <1>6, <2>2
    <3> HIDE DEF from
    <3> QED
      BY <1>3, <1>4, <3>1, <3>2
  <2> QED
    BY <2>1, <2>2
<1>8. \A i, j \in DOMAIN rest : i < j => from(i) < from(j)
  BY <1>4, <1>6
<1> HIDE DEF from
<1>9. Rising(rest, K)
  BY <1>7, <1>8 DEF Way, Rising
<1>10. Range(rest) \subseteq Range(q)
  BY <1>7 DEF Range
<1> QED
  BY <1>9, <1>10 DEF Way, Precede

\* A batch goes behind everything that was submitted before it.
LEMMA WayQueues ==
    ASSUME NEW K, NEW M, NEW t, NEW p, NEW q \in Seq(M), NEW batch \in Seq(M), Way(K, t, p, q),
           Range(batch) \subseteq K, Rising(batch, K),
           Precede(UserIds(t) \cup Range(p) \cup Range(q), Range(batch))
    PROVE  Way(K, t, p, q \o batch)
<1> DEFINE u == q \o batch
<1>1. /\ u \in Seq(M) /\ Len(u) = Len(q) + Len(batch) /\ Len(q) \in Nat /\ Len(batch) \in Nat
      /\ \A i \in 1..(Len(q) + Len(batch)) : u[i] = IF i <= Len(q) THEN q[i] ELSE batch[i - Len(q)]
      /\ DOMAIN q = 1..Len(q) /\ DOMAIN batch = 1..Len(batch)
  BY ConcatProperties, LenProperties
<1>2. Range(u) = Range(q) \cup Range(batch)
  BY RangeConcat
<1> HIDE DEF u
<1>3. DOMAIN u = 1..(Len(q) + Len(batch))
  BY <1>1, LenProperties
<1>4. ASSUME NEW i \in DOMAIN u, i <= Len(q) PROVE i \in DOMAIN q /\ u[i] = q[i]
  BY <1>1, <1>3, <1>4
<1>5. ASSUME NEW i \in DOMAIN u, ~(i <= Len(q))
      PROVE  i - Len(q) \in DOMAIN batch /\ u[i] = batch[i - Len(q)]
  BY <1>1, <1>3, <1>5
<1>6. Rising(u, K)
  <2> SUFFICES ASSUME NEW i \in DOMAIN u, NEW j \in DOMAIN u, i < j, u[i] \in K, u[j] \in K
               PROVE  u[i] < u[j]
    BY DEF Rising
  <2>1. CASE j <= Len(q)
    <3>1. i <= Len(q)
      BY <1>1, <1>3, <2>1
    <3> QED
      BY <1>4, <2>1, <3>1 DEF Way, Rising
  <2>2. CASE i <= Len(q) /\ ~(j <= Len(q))
    <3>1. u[i] \in Range(q) /\ u[j] \in Range(batch)
      BY <1>4, <1>5, <2>2, InRange
    <3> QED
      BY <3>1 DEF Precede
  <2>3. CASE ~(i <= Len(q))
    <3>1. ~(j <= Len(q)) /\ i - Len(q) < j - Len(q)
      BY <1>1, <1>3, <2>3
    <3> QED
      BY <1>5, <2>3, <3>1 DEF Rising
  <2> QED
    BY <2>1, <2>2, <2>3
<1>7. Way(K, t, p, u)
  BY <1>2, <1>6 DEF Way, Precede
<1> QED
  BY <1>7 DEF u

\* Seen as one sequence.
LEMMA WayInOrder ==
    ASSUME NEW K, NEW M, NEW S, NEW t \in Seq(S), NEW p \in Seq(M), NEW q \in Seq(M),
           Way(K, t, p, q), \A m \in M : User(m) \in S
    PROVE  RisingEntries(t \o Users(p \o q), K)
<1> DEFINE h == p \o q
           u == Users(h)
           w == t \o u
<1>1. /\ h \in Seq(M) /\ Len(h) = Len(p) + Len(q) /\ Len(p) \in Nat /\ Len(q) \in Nat
      /\ \A i \in 1..(Len(p) + Len(q)) : h[i] = IF i <= Len(p) THEN p[i] ELSE q[i - Len(p)]
      /\ DOMAIN p = 1..Len(p) /\ DOMAIN q = 1..Len(q)
  BY ConcatProperties, LenProperties
<1> HIDE DEF h
<1>2. /\ u \in Seq([role: {"user"}, id: M]) /\ Len(u) = Len(h)
      /\ \A i \in 1..Len(h) : u[i] = User(h[i])
  BY <1>1, UsersAre
<1>3. [role: {"user"}, id: M] \subseteq S
  <2>1. ASSUME NEW e \in [role: {"user"}, id: M] PROVE e \in S
    <3>1. e = User(e.id) /\ e.id \in M
      BY DEF User
    <3> QED
      BY <3>1
  <2> QED
    BY <2>1
<1>4. u \in Seq(S)
  BY <1>2, <1>3, SeqMonotonic
<1> HIDE DEF u
<1>5. /\ w \in Seq(S) /\ Len(w) = Len(t) + Len(u) /\ Len(t) \in Nat /\ DOMAIN t = 1..Len(t)
      /\ \A i \in 1..(Len(t) + Len(u)) : w[i] = IF i <= Len(t) THEN t[i] ELSE u[i - Len(t)]
  BY <1>4, ConcatProperties, LenProperties
<1>6. DOMAIN w = 1..(Len(t) + Len(h))
  BY <1>2, <1>5, LenProperties
<1> HIDE DEF w
<1>7. ASSUME NEW i \in DOMAIN w, i <= Len(t) PROVE i \in DOMAIN t /\ w[i] = t[i]
  BY <1>1, <1>2, <1>5, <1>6, <1>7
<1>8. ASSUME NEW i \in DOMAIN w, ~(i <= Len(t))
      PROVE  i - Len(t) \in 1..Len(h) /\ w[i].id = h[i - Len(t)]
  <2>1. i - Len(t) \in 1..Len(h) /\ w[i] = u[i - Len(t)]
    BY <1>1, <1>2, <1>5, <1>6, <1>8
  <2>2. u[i - Len(t)] = User(h[i - Len(t)])
    BY <1>2, <2>1
  <2> QED
    BY <2>1, <2>2 DEF User
<1>9. ASSUME NEW i \in 1..Len(h), i <= Len(p) PROVE i \in DOMAIN p /\ h[i] = p[i]
  BY <1>1, <1>9
<1>10. ASSUME NEW i \in 1..Len(h), ~(i <= Len(p)) PROVE i - Len(p) \in DOMAIN q /\ h[i] = q[i - Len(p)]
  BY <1>1, <1>10
<1>11. Rising(h, K) /\ DOMAIN h = 1..Len(h)
  <2>1. DOMAIN h = 1..Len(h)
    BY <1>1, LenProperties
  <2> SUFFICES ASSUME NEW i \in 1..Len(h), NEW j \in 1..Len(h), i < j, h[i] \in K, h[j] \in K
               PROVE  h[i] < h[j]
    BY <2>1 DEF Rising
  <2>2. CASE j <= Len(p)
    <3>1. i <= Len(p)
      BY <1>1, <2>2
    <3> QED
      BY <1>9, <2>2, <3>1 DEF Way, Rising
  <2>3. CASE i <= Len(p) /\ ~(j <= Len(p))
    <3>1. h[i] \in Range(p) /\ h[j] \in Range(q)
      BY <1>9, <1>10, <2>3, InRange
    <3> QED
      BY <3>1 DEF Way, Precede
  <2>4. CASE ~(i <= Len(p))
    <3>1. ~(j <= Len(p)) /\ i - Len(p) < j - Len(p)
      BY <1>1, <2>4
    <3> QED
      BY <1>10, <2>4, <3>1 DEF Way, Rising
  <2> QED
    BY <2>2, <2>3, <2>4
<1>12. Range(h) = Range(p) \cup Range(q)
  BY RangeConcat DEF h
<1>13. RisingEntries(w, K)
  <2> SUFFICES ASSUME NEW i \in DOMAIN w, NEW j \in DOMAIN w, i < j,
                      w[i].role = "user", w[i].id \in K, w[j].role = "user", w[j].id \in K
               PROVE  w[i].id < w[j].id
    BY DEF RisingEntries
  <2>1. CASE j <= Len(t)
    <3>1. i <= Len(t)
      BY <1>5, <1>6, <2>1
    <3> QED
      BY <1>7, <2>1, <3>1 DEF Way, RisingEntries
  <2>2. CASE i <= Len(t) /\ ~(j <= Len(t))
    <3>1. w[i].id \in UserIds(t) \cap K
      BY <1>7, <2>2, InUserIds
    <3>2. w[j].id \in (Range(p) \cup Range(q)) \cap K
      BY <1>8, <1>11, <1>12, <2>2, InRange
    <3> QED
      BY <3>1, <3>2 DEF Way, Precede
  <2>3. CASE ~(i <= Len(t))
    <3>1. ~(j <= Len(t)) /\ i - Len(t) < j - Len(t)
      BY <1>5, <1>6, <2>3
    <3> QED
      BY <1>8, <1>11, <2>3, <3>1 DEF Rising
  <2> QED
    BY <2>1, <2>2, <2>3
<1> QED
  BY <1>13 DEF w, u, h

Kept == {"steer", "followUp"}
Of(channel) == {m \in Messages : via[m].channel = channel}
Waiting(channel) == IF channel = "steer" THEN steering ELSE followUp
Order == \A channel \in Kept : Way(Of(channel), transcript, pending, Waiting(channel))

LEMMA EntryIds ==
    ASSUME NEW s \in Seq(Entries)
    PROVE  UserIds(s) \subseteq Messages
<1>1. Range(s) \subseteq Entries
  BY RangeIs
<1>2. \A e \in Entries : e.role = "user" => e.id \in Messages
  BY DEF Entries
<1> QED
  BY <1>1, <1>2 DEF UserIds

\* What a step does to the messages of one queue, numbering and recording apart.
LEMMA QueueMoves ==
    ASSUME Types, Types', Order, [Next]_vars, NEW channel \in Kept
    PROVE  LET q == Waiting(channel) IN
           \/ RecordsHeld
           \/ pending' \in {pending, <<>>} /\ Waiting(channel)' = q
           \/ pending = <<>> /\ Range(pending') \cap Of(channel)' = {} /\ Waiting(channel)' = q
           \/ /\ pending = <<>>
              /\ \E n \in Drains(q) : pending' = Taken(q, n) /\ Waiting(channel)' = Rest(q, n)
           \/ pending' = pending /\ \E gone : Without(q, gone, Waiting(channel)')
           \/ /\ pending' = pending
              /\ \E batch \in Batches : Submitted(batch, channel) /\ Waiting(channel)' = q \o batch
<1> DEFINE q == Waiting(channel)
           Still == pending' \in {pending, <<>>} /\ Waiting(channel)' = q
           Other == pending = <<>> /\ Range(pending') \cap Of(channel)' = {} /\ Waiting(channel)' = q
           Drain == /\ pending = <<>>
                    /\ \E n \in Drains(q) : pending' = Taken(q, n) /\ Waiting(channel)' = Rest(q, n)
           Loses == pending' = pending /\ \E gone : Without(q, gone, Waiting(channel)')
           Gains == /\ pending' = pending
                    /\ \E batch \in Batches : Submitted(batch, channel) /\ Waiting(channel)' = q \o batch
<1> SUFFICES RecordsHeld \/ Still \/ Other \/ Drain \/ Loses \/ Gains
  OBVIOUS
<1> USE DEF queueVars, Kept, Waiting
<1>1. CASE Quiet \/ Tooling
  BY <1>1, QuietLeaves, ToolingLeaves
<1>2. CASE Replies \/ StreamStarts \/ Report \/ Gather \/ AgentEnd \/ HandleRunFailure \/ FinishRun
           \/ UNCHANGED vars
  BY <1>2 DEF Replies, ReplyDone, ReplyFails, StreamStarts, Report, Gather, AgentEnd,
              HandleRunFailure, FinishRun, vars
<1>3. CASE RecordPrompt \/ Inject
  BY <1>3 DEF RecordPrompt, Inject, RecordsHeld, Recorded, ListenerFails
<1>4. CASE Queues
  <2>1. PICK batch \in Batches : Steer(batch) \/ FollowUp(batch)
    BY <1>4 DEF Queues
  <2> QED
    BY <2>1 DEF Steer, FollowUp
<1>5. ASSUME NEW m \in Messages, Withdraw(m) PROVE Loses
  BY <1>5 DEF Withdraw
<1>6. ASSUME NEW batch \in Batches, NEW other \in Channels \ Kept, Submitted(batch, other),
             pending = <<>>, pending' = batch, UNCHANGED <<steering, followUp>>
      PROVE  Other
  <2>1. /\ batch \in Seq(Messages') /\ DOMAIN batch = 1..Len(batch)
        /\ \A i \in DOMAIN batch : batch[i] = Len(via) + i
        /\ \A m \in Messages' \ Messages : via'[m].channel = other
        /\ Len(via) \in Nat /\ Len(batch) \in Nat
    BY <1>6, BatchTypes DEF Types
  <2>2. Range(batch) \subseteq Messages' \ Messages
    <3>1. \A i \in 1..Len(batch) : batch[i] \in Messages' /\ batch[i] \notin Messages
      BY <2>1, ElementOfSeq DEF Messages
    <3> QED
      BY <2>1, <3>1 DEF Range
  <2> QED
    BY <1>6, <2>1, <2>2 DEF Of
    \* A queue is drained for another channel: it holds none of this one.
<1>7. ASSUME NEW other \in Kept, other # channel, NEW n \in Drains(Waiting(other)), pending = <<>>,
             pending' = Taken(Waiting(other), n), UNCHANGED <<via, Waiting(channel)>>
      PROVE  Other
  <2>1. Waiting(other) \in Seq(Messages) /\ Range(Waiting(other)) \subseteq Of(other)
    BY DEF Types, QueueTypes, Order, Way
  <2>2. Range(pending') \subseteq Range(Waiting(other))
    BY <1>7, <2>1, DrainKeeps
  <2>3. Of(channel)' \cap Of(other) = {}
    BY <1>7 DEF Of, Messages
  <2> QED
    BY <1>7, <2>1, <2>2, <2>3
<1>8. CASE Begins
  <2>1. pending = <<>>
    BY <1>8 DEF Begins, Prompt, ContinueSteering, ContinueFollowUp, Continue, Begin, Types,
                InFlight, Carrying
  <2>2. CASE \E batch \in Batches : Prompt(batch)
    BY <1>6, <2>1, <2>2 DEF Prompt, Begin, Channels
  <2>3. CASE ContinueSteering
    BY <1>7, <2>1, <2>3 DEF ContinueSteering, Begin
  <2>4. CASE ContinueFollowUp
    BY <1>7, <2>1, <2>4 DEF ContinueFollowUp, Begin
  <2>5. CASE Continue
    BY <2>5 DEF Continue, Begin
  <2> QED
    BY <1>8, <2>2, <2>3, <2>4, <2>5 DEF Begins
<1>9. CASE Polls
  <2>1. pending = <<>>
    BY <1>9 DEF Polls, FirstPoll, PollSteering, PollFollowUp, Types, InFlight, Carrying
  <2>2. CASE FirstPoll \/ PollSteering
    BY <1>7, <2>1, <2>2 DEF FirstPoll, PollSteering, Polled
  <2>3. CASE PollFollowUp
    BY <1>7, <2>1, <2>3 DEF PollFollowUp, Polled
  <2> QED
    BY <1>9, <2>2, <2>3 DEF Polls
<1>10. CASE Continuing
  <2>1. pending = <<>>
    BY <1>10 DEF Continuing, Types, InFlight, Carrying
  <2> QED
    BY <1>6, <1>10, <2>1 DEF Continuing, Channels
<1> QED
  BY <1>1, <1>2, <1>3, <1>4, <1>5, <1>8, <1>9, <1>10, StepKinds

\* No step both numbers and records.
LEMMA RecordingKeepsVia ==
    [Next]_vars => UNCHANGED via \/ UNCHANGED transcript
<1> SUFFICES ASSUME [Next]_vars PROVE UNCHANGED via \/ UNCHANGED transcript
  OBVIOUS
<1>1. CASE Quiet \/ Tooling
  BY <1>1, QuietLeaves, ToolingLeaves
<1>2. CASE Queues \/ Begins \/ Polls \/ Continuing \/ (\E m \in Messages : Withdraw(m))
           \/ UNCHANGED vars
  BY <1>2 DEF Queues, Steer, FollowUp, Begins, Prompt, ContinueSteering, ContinueFollowUp,
              Continue, Begin, Polls, FirstPoll, PollSteering, PollFollowUp, Continuing,
              Withdraw, vars
<1>3. CASE Replies \/ RecordPrompt \/ Inject \/ StreamStarts \/ Report \/ Gather \/ AgentEnd
           \/ HandleRunFailure \/ FinishRun
  BY <1>3 DEF Replies, ReplyDone, ReplyFails, RecordPrompt, Inject, StreamStarts, Report, Gather,
              AgentEnd, HandleRunFailure, FinishRun, queueVars
<1> QED
  BY <1>1, <1>2, <1>3, StepKinds

LEMMA BatchFollows ==
    ASSUME Types, NEW batch \in Batches, NEW channel \in Kept, Submitted(batch, channel),
           NEW A, A \subseteq Messages, NEW K
    PROVE  /\ Range(batch) \subseteq Of(channel)' /\ Rising(batch, K) /\ Precede(A, Range(batch))
           /\ batch \in Seq(Messages') /\ Messages \subseteq Messages'
<1>1. /\ batch \in Seq(Messages') /\ DOMAIN batch = 1..Len(batch)
      /\ \A i \in DOMAIN batch : batch[i] = Len(via) + i
      /\ \A m \in Messages' \ Messages : via'[m].channel = channel
      /\ Len(via) \in Nat /\ Len(batch) \in Nat /\ Messages \subseteq Messages'
  <2>1. channel \in Channels
    BY DEF Kept, Channels
  <2> QED
    BY <2>1, BatchTypes DEF Types
<1>2. \A i \in 1..Len(batch) : batch[i] \in Messages' /\ batch[i] \notin Messages
  <2>1. \A i \in 1..Len(batch) : batch[i] \in Messages'
    BY <1>1, ElementOfSeq
  <2>2. ASSUME NEW i \in 1..Len(batch) PROVE batch[i] \notin Messages
    <3>1. i \in DOMAIN batch /\ Len(via) \in Nat /\ Len(batch) \in Nat
      BY <1>1
    <3>2. batch[i] = Len(via) + i
      BY <1>1, <3>1
    <3>3. i \in Nat \ {0}
      BY <3>1
    <3> QED
      BY <3>1, <3>2, <3>3 DEF Messages
  <2> QED
    BY <2>1, <2>2
<1>3. Range(batch) \subseteq Messages' \ Messages
  BY <1>1, <1>2 DEF Range
<1>4. Range(batch) \subseteq Of(channel)'
  BY <1>1, <1>3 DEF Of
<1>5. Rising(batch, K)
  BY <1>1 DEF Rising
<1>6. Precede(A, Range(batch))
  <2> SUFFICES ASSUME NEW a \in A, NEW b \in Range(batch) PROVE a < b
    BY DEF Precede
  <2>1. PICK i \in DOMAIN batch : b = batch[i]
    BY DEF Range
  <2>2. b = Len(via) + i /\ i \in Nat \ {0} /\ a \in 1..Len(via)
    BY <1>1, <2>1 DEF Messages
  <2> QED
    BY <1>1, <2>2
<1> QED
  BY <1>1, <1>4, <1>5, <1>6

LEMMA OrderStep ==
    ASSUME Types, Types', Order, [Next]_vars, NEW channel \in Kept
    PROVE  Way(Of(channel)', transcript', pending', Waiting(channel)')
<1> DEFINE q == Waiting(channel)
           K == Of(channel)
           L == Of(channel)'
<1>1. /\ Messages \subseteq Messages' /\ \A m \in Messages : via'[m] = via[m]
      /\ turns \in Nat /\ Entries \subseteq Entries'
  BY EntriesGrow DEF Types
<1>2. K \subseteq L /\ L \cap Messages \subseteq K
  BY <1>1 DEF Of
<1>3. /\ transcript \in Seq(Entries) /\ pending \in Seq(Messages) /\ q \in Seq(Messages)
      /\ transcript \in Seq(Entries')
  BY <1>1, SeqMonotonic DEF Types, EntryTypes, QueueTypes, Waiting
<1>4. UserIds(transcript) \subseteq Messages /\ Range(pending) \subseteq Messages
      /\ Range(q) \subseteq Messages
  <2> HIDE DEF q
  <2> QED
    BY <1>3, EntryIds, RangeIs
<1>5. Way(L, transcript, pending, q)
  <2>1. Way(K, transcript, pending, q)
    BY DEF Order
  <2> HIDE DEF K, L, q
  <2> QED
    BY <1>2, <1>4, <2>1, WayOfMore
<1>6. CASE RecordsHeld
  <2>1. Waiting(channel)' = q /\ pending # <<>> /\ pending' = Tail(pending)
    BY <1>6 DEF RecordsHeld, queueVars, Waiting
  <2>2. CASE transcript' = transcript
    <3> HIDE DEF L, q
    <3>1. Way(L, transcript, Tail(pending), q)
      BY <1>3, <1>5, <2>1, WayLetsGo
    <3> QED
      BY <2>1, <2>2, <3>1 DEF L
  <2>3. CASE transcript' = Append(transcript, User(Head(pending)))
    <3> HIDE DEF L, q
    <3>1. User(Head(pending)) \in Entries'
      BY <1>1, <1>3, <2>1, HeadTailProperties, EntriesMade
    <3>2. Way(L, Append(transcript, User(Head(pending))), Tail(pending), q)
      BY <1>3, <1>5, <2>1, <3>1, WayRecordsHeld
    <3> QED
      BY <2>1, <2>3, <3>2 DEF L
  <2> QED
    BY <1>6, <2>2, <2>3 DEF RecordsHeld
<1>7. CASE RecordsOther /\ ~RecordsHeld
  <2>1. Way(L, transcript', pending, q)
    <3> HIDE DEF L, q
    <3>1. CASE UNCHANGED transcript
      BY <1>5, <3>1
    <3>2. ASSUME NEW e \in Entries', e.role # "user", transcript' = Append(transcript, e)
          PROVE  Way(L, transcript', pending, q)
      BY <1>3, <1>5, <3>2, WayRecordsOther
    <3> QED
      BY <1>7, <3>1, <3>2 DEF RecordsOther
  <2>2. \/ pending' \in {pending, <<>>} /\ Waiting(channel)' = q
        \/ pending = <<>> /\ Range(pending') \cap L = {} /\ Waiting(channel)' = q
        \/ /\ pending = <<>>
           /\ \E n \in Drains(q) : pending' = Taken(q, n) /\ Waiting(channel)' = Rest(q, n)
        \/ pending' = pending /\ \E gone : Without(q, gone, Waiting(channel)')
        \/ /\ pending' = pending
           /\ \E batch \in Batches : Submitted(batch, channel) /\ Waiting(channel)' = q \o batch
    BY <1>7, QueueMoves
  <2>3. ASSUME NEW batch \in Batches, Submitted(batch, channel) PROVE Way(L, transcript', pending, q \o batch)
    <3> DEFINE A == UserIds(transcript') \cup Range(pending) \cup Range(q)
    <3>1. UNCHANGED transcript
      <4>1. via' # via
        <5>1. Len(via') = Len(via) + Len(batch) /\ Len(via) \in Nat /\ Len(batch) \in Nat \ {0}
          <6>1. channel \in Channels
            BY DEF Kept, Channels
          <6> QED
            BY <2>3, <6>1, BatchTypes DEF Types
        <5> QED
          BY <5>1
      <4> QED
        BY <4>1, RecordingKeepsVia
    <3>2. A \subseteq Messages
      BY <1>4, <3>1
    <3> HIDE DEF A
    <3>3. /\ Range(batch) \subseteq L /\ Rising(batch, L) /\ Precede(A, Range(batch))
          /\ batch \in Seq(Messages') /\ q \in Seq(Messages')
      BY <1>1, <1>3, <2>3, <3>2, BatchFollows, SeqMonotonic
    <3> HIDE DEF L, q
    <3> QED
      BY <2>1, <3>3, WayQueues DEF A
  <2> HIDE DEF L, q
  <2>4. Range(<<>>) \cap L = {}
    BY DEF Range
  <2>5. CASE pending' \in {pending, <<>>} /\ Waiting(channel)' = q
    <3>1. Way(L, transcript', <<>>, q)
      BY <2>1, <2>4, WayHoldsOthers
    <3> QED
      BY <2>1, <2>5, <3>1 DEF L
  <2>6. CASE Range(pending') \cap L = {} /\ Waiting(channel)' = q
    <3>1. Way(L, transcript', pending', q)
      BY <2>1, <2>6, WayHoldsOthers
    <3> QED
      BY <2>6, <3>1 DEF L
  <2>7. ASSUME NEW n \in Drains(q), pending' = Taken(q, n), Waiting(channel)' = Rest(q, n)
        PROVE  Way(L, transcript', pending', Waiting(channel)')
    <3>1. Way(L, transcript', Taken(q, n), Rest(q, n))
      BY <1>3, <2>1, WayDrains
    <3> QED
      BY <2>7, <3>1
  <2>8. ASSUME NEW gone, pending' = pending, Without(q, gone, Waiting(channel)')
        PROVE  Way(L, transcript', pending', Waiting(channel)')
    <3>1. Way(L, transcript', pending, Waiting(channel)')
      BY <1>3, <2>1, <2>8, WayWithdraws
    <3> QED
      BY <2>8, <3>1
  <2>9. ASSUME NEW batch \in Batches, pending' = pending, Submitted(batch, channel),
               Waiting(channel)' = q \o batch
        PROVE  Way(L, transcript', pending', Waiting(channel)')
    BY <2>3, <2>9
  <2> QED
    BY <2>2, <2>5, <2>6, <2>7, <2>8, <2>9 DEF L
<1> QED
  BY <1>6, <1>7, Recording

\* Messages of one queue reach the transcript in the order they were submitted, each at most
\* once, for any batches, drains, withdrawals, aborts and failures (PendingMessageQueue,
\* injectPendingMessages, Agent.continue).
THEOREM InOrder == Spec => []InOrderOnce
<1>1. Init => Order
  <2> SUFFICES ASSUME Init PROVE Order
    OBVIOUS
  <2>1. Range(<<>>) = {} /\ UserIds(<<>>) = {}
    BY DEF Range, UserIds
  <2>2. transcript = <<>> /\ pending = <<>> /\ steering = <<>> /\ followUp = <<>>
    BY DEF Init
  <2>3. \A K : Rising(<<>>, K) /\ RisingEntries(<<>>, K)
    BY DEF Rising, RisingEntries
  <2> QED
    BY <2>1, <2>2, <2>3 DEF Order, Way, Waiting, Precede
<1>2. Types /\ Types' /\ Order /\ [Next]_vars => Order'
  BY OrderStep DEF Order
<1>3. Types /\ Order => InOrderOnce
  <2> SUFFICES ASSUME Types, Order, NEW channel \in Kept
               PROVE  LET way == transcript \o Users(pending \o Waiting(channel))
                      IN  \A i, j \in DOMAIN way :
                             i < j /\ Submission(way[i], channel) /\ Submission(way[j], channel)
                                 => way[i].id < way[j].id
    BY DEF InOrderOnce, Kept, Waiting
  <2> DEFINE q == Waiting(channel)
             K == Of(channel)
             way == transcript \o Users(pending \o q)
  <2>1. /\ transcript \in Seq(Entries) /\ pending \in Seq(Messages) /\ q \in Seq(Messages)
        /\ \A m \in Messages : User(m) \in Entries
    BY EntriesMade DEF Types, FlagTypes, EntryTypes, QueueTypes, Waiting
  <2>2. Way(K, transcript, pending, q)
    BY DEF Order
  <2> HIDE DEF q, K
  <2>3. RisingEntries(way, K)
    BY <2>1, <2>2, WayInOrder
  <2>4. way \in Seq(Entries)
    <3>1. pending \o q \in Seq(Messages)
      BY <2>1, ConcatProperties
    <3>2. Users(pending \o q) \in Seq(Entries)
      BY <3>1, EntriesMade DEF Types, FlagTypes
    <3> QED
      BY <2>1, <3>2, ConcatProperties
  <2> HIDE DEF way
  <2>5. ASSUME NEW i \in DOMAIN way, Submission(way[i], channel)
        PROVE  way[i].role = "user" /\ way[i].id \in K
    <3>1. way[i].role = "user" /\ way[i].id \in UserIds(way)
      BY <2>5, InUserIds DEF Submission
    <3>2. way[i].id \in Messages
      BY <2>4, <3>1, EntryIds
    <3> QED
      BY <2>5, <3>1, <3>2 DEF Submission, K, Of
  <2> QED
    BY <2>3, <2>5 DEF RisingEntries, way, q
<1> QED
  BY <1>1, <1>2, <1>3, TypesHold, PTL DEF Spec
-----------------------------------------------------------------------------
(* An aborted run ends *)

\* The places of a run, in the order in which an aborted one passes them on its way down.
Height == [idle |-> 0, finishing |-> 1, failed |-> 2, ending |-> 3, continuing |-> 4, followed |-> 5,
           outer |-> 6, steered |-> 7, stopping |-> 8, turned |-> 9, turnEnd |-> 10, lastTurnEnd |-> 11,
           sequential |-> 12, report |-> 13, executing |-> 14, execute |-> 15, reportAll |-> 16,
           join |-> 17, parallel |-> 18, streaming |-> 19, asking |-> 20, unasked |-> 21,
           inject |-> 22, turn |-> 23, firstPolled |-> 24, firstPoll |-> 25, prompting |-> 26,
           starting |-> 27]

\* What is left to do at a place that takes several steps.
Unsettled == {i \in DOMAIN status : status[i] # "settled"}
Left ==
    CASE pc \in {"prompting", "inject"}   -> Len(pending)
      [] pc \in {"parallel", "reportAll"} -> IF at <= Len(status) THEN (Len(status) + 1) - at ELSE 0
      [] pc = "join"                      -> Cardinality(Unsettled)
      [] OTHER                            -> 0

Lower == Height[pc'] < Height[pc] \/ (pc' = pc /\ Left' < Left)

\* Once a run is aborted, each step of the loop, the model, a tool or a hook brings it closer to
\* its end, and the owner's calls take nothing back.
AbortRunsDown ==
    Active /\ aborted =>
        /\ Height[pc] \in Nat /\ Left \in Nat
        /\ Loop \/ Others => Lower
        /\ ~(Loop \/ Others) => UNCHANGED <<pc, Left>>
        /\ aborted' \/ pc' = "idle"

LEMMA Heights ==
    /\ Height["idle"] = 0 /\ Height["finishing"] = 1 /\ Height["failed"] = 2 /\ Height["ending"] = 3
    /\ Height["continuing"] = 4 /\ Height["followed"] = 5 /\ Height["outer"] = 6
    /\ Height["steered"] = 7 /\ Height["stopping"] = 8 /\ Height["turned"] = 9
    /\ Height["turnEnd"] = 10 /\ Height["lastTurnEnd"] = 11 /\ Height["sequential"] = 12
    /\ Height["report"] = 13 /\ Height["executing"] = 14 /\ Height["execute"] = 15
    /\ Height["reportAll"] = 16 /\ Height["join"] = 17 /\ Height["parallel"] = 18
    /\ Height["streaming"] = 19 /\ Height["asking"] = 20 /\ Height["unasked"] = 21
    /\ Height["inject"] = 22 /\ Height["turn"] = 23 /\ Height["firstPolled"] = 24
    /\ Height["firstPoll"] = 25 /\ Height["prompting"] = 26 /\ Height["starting"] = 27
  BY DEF Height

\* What the types say of the parts of the rank.
LEMMA RankTypes ==
    ASSUME TypeOK
    PROVE  /\ Len(pending) \in Nat /\ Len(status) \in Nat /\ DOMAIN status = 1..Len(status)
           /\ at \in Nat /\ at > 0
           /\ pending # <<>> => Len(Tail(pending)) < Len(pending) /\ Len(Tail(pending)) \in Nat
           /\ IsFiniteSet(Unsettled) /\ Cardinality(Unsettled) \in Nat
           /\ Height[pc] \in Nat /\ Left \in Nat
<1>1. Len(pending) \in Nat /\ Len(status) \in Nat /\ DOMAIN status = 1..Len(status)
      /\ at \in Nat /\ at > 0
  BY DEF TypeOK
<1>2. pending # <<>> => Len(Tail(pending)) < Len(pending) /\ Len(Tail(pending)) \in Nat
  BY DEF TypeOK
<1>3. IsFiniteSet(Unsettled) /\ Cardinality(Unsettled) \in Nat
  <2>1. IsFiniteSet(1..Len(status))
    BY <1>1, FS_Interval
  <2>2. Unsettled \subseteq 1..Len(status)
    BY <1>1 DEF Unsettled
  <2> QED
    BY <2>1, <2>2, FS_Subset, FS_CardinalityType
<1>4. Height[pc] \in Nat
  <2>1. pc \in Places
    BY DEF TypeOK
  <2>2. CASE pc \in {"idle", "finishing", "failed", "ending", "continuing", "followed", "outer",
                    "steered", "stopping", "turned", "turnEnd", "lastTurnEnd", "sequential", "report"}
    BY <2>2, Heights
  <2>3. CASE pc \in {"executing", "execute", "reportAll", "join", "parallel", "streaming", "asking",
                    "unasked", "inject", "turn", "firstPolled", "firstPoll", "prompting", "starting"}
    BY <2>3, Heights
  <2> QED
    BY <2>1, <2>2, <2>3 DEF Places
<1>5. Left \in Nat
  BY <1>1, <1>3 DEF Left
<1> QED
  BY <1>1, <1>2, <1>3, <1>4, <1>5

\* Settling a call leaves fewer unsettled.
LEMMA SettlingCounts ==
    ASSUME TypeOK, NEW i \in DOMAIN status, status[i] # "settled",
           status' = [status EXCEPT ![i] = "settled"]
    PROVE  Cardinality(Unsettled') < Cardinality(Unsettled)
<1>1. Unsettled' = Unsettled \ {i} /\ i \in Unsettled
  BY DEF Unsettled
<1>2. IsFiniteSet(Unsettled) /\ Cardinality(Unsettled) \in Nat
  BY RankTypes
<1>3. Cardinality(Unsettled \ {i}) = Cardinality(Unsettled) - 1
  BY <1>1, <1>2, FS_RemoveElement
<1> QED
  BY <1>1, <1>2, <1>3

\* The next call leaves fewer calls to come.
LEMMA NextCallLeavesLess ==
    ASSUME TypeOK, pc \in {"parallel", "reportAll"}, pc' = pc, at <= Len(status), at' = at + 1,
           Len(status') = Len(status)
    PROVE  Lower
<1>1. Len(status) \in Nat /\ at \in Nat
  BY RankTypes
<1>2. Left = (Len(status) + 1) - at
  BY DEF Left
<1>3. Left' = IF at + 1 <= Len(status) THEN Len(status) - at ELSE 0
  <2>1. Left' = IF at' <= Len(status') THEN (Len(status') + 1) - at' ELSE 0
    BY DEF Left
  <2> QED
    BY <1>1, <2>1
<1> QED
  BY <1>1, <1>2, <1>3 DEF Lower

LEMMA LoopGoesDown ==
    ASSUME TypeOK, Active, aborted, Loop \/ Others
    PROVE  Lower
<1> USE Heights
<1>1. ASSUME Height[pc'] < Height[pc] PROVE Lower
  BY <1>1 DEF Lower
<1>2. CASE Start
  BY <1>1, <1>2 DEF Start, Heard, ListenerFails
<1>3. CASE RecordPrompt
  <2>1. CASE pending = <<>> \/ pc' = "failed"
    BY <1>1, <1>3, <2>1 DEF RecordPrompt
  <2>2. CASE pending # <<>> /\ pc' # "failed"
    <3>1. pc = "prompting" /\ pc' = pc /\ pending' = Tail(pending)
      BY <1>3, <2>2 DEF RecordPrompt, Recorded, ListenerFails
    <3> QED
      BY <2>2, <3>1, RankTypes DEF Lower, Left
  <2> QED
    BY <2>1, <2>2
<1>4. CASE FirstPoll \/ FirstPolled \/ TurnStart \/ Ask
  <2>1. CASE FirstPoll
    BY <1>1, <2>1 DEF FirstPoll
  <2>2. CASE FirstPolled
    BY <1>1, <2>2 DEF FirstPolled
  <2>3. CASE TurnStart
    BY <1>1, <2>3 DEF TurnStart, Heard, ListenerFails
  <2>4. CASE Ask
    BY <1>1, <2>4 DEF Ask
  <2> QED
    BY <1>4, <2>1, <2>2, <2>3, <2>4
<1>5. CASE Inject
  <2>1. CASE pc' = "failed"
    BY <1>1, <1>5, <2>1 DEF Inject
  <2>2. CASE pc' # "failed"
    <3>1. pc = "inject" /\ pc' = pc /\ pending' = Tail(pending) /\ pending # <<>>
      BY <1>5, <2>2 DEF Inject, Recorded, ListenerFails
    <3> QED
      BY <3>1, RankTypes DEF Lower, Left
  <2> QED
    BY <2>1, <2>2
<1>6. CASE StreamStarts \/ AskThrows
  BY <1>1, <1>6 DEF StreamStarts, AskThrows, Heard, ListenerFails
<1>7. ASSUME NEW calls, ReplyFails(calls) PROVE Lower
  <2>1. pc \in {"asking", "streaming", "unasked"} /\ pc' \in {"lastTurnEnd", "failed"}
    BY <1>7 DEF ReplyFails, Replied, Recorded, Heard, ListenerFails
  <2> QED
    BY <1>1, <2>1
<1>8. ASSUME NEW calls, ReplyDone(calls) PROVE Lower
  <2>1. /\ pc \in {"asking", "streaming"}
        /\ pc' \in {"turnEnd", "sequential", "parallel", "failed"}
    BY <1>8 DEF ReplyDone, Replied, Recorded, Heard, ListenerFails
  <2> QED
    BY <1>1, <2>1
<1>9. CASE Launch
  <2>1. CASE pc' = "failed"
    BY <1>1, <1>9, <2>1 DEF Launch
  <2>2. CASE pc' # "failed"
    <3>1. pc = "parallel" /\ pc' = pc /\ at <= Len(status) /\ at' = at + 1
      BY <1>9, <2>2 DEF Launch, Heard, ListenerFails
    <3>2. Len(status') = Len(status)
      BY <1>9 DEF Launch, Settled, TypeOK
    <3> QED
      BY <3>1, <3>2, NextCallLeavesLess
  <2> QED
    BY <2>1, <2>2
<1>10. CASE Prepare
  BY <1>10 DEF Prepare
<1>11. CASE Execute \/ ExecuteAll \/ Joined
  BY <1>1, <1>11 DEF Execute, ExecuteAll, Joined
<1>12. ASSUME NEW i \in DOMAIN status, NEW hint, ToolEnds(i, hint) \/ ToolJoins(i, hint) PROVE Lower
  <2>1. CASE ToolEnds(i, hint)
    BY <1>1, <2>1 DEF ToolEnds
  <2>2. CASE ToolJoins(i, hint) /\ pc' = "failed"
    BY <1>1, <2>2 DEF ToolJoins
  <2>3. CASE ToolJoins(i, hint) /\ pc' # "failed"
    <3>1. /\ pc = "join" /\ pc' = pc /\ status[i] # "settled"
          /\ status' = [status EXCEPT ![i] = "settled"]
      BY <2>3 DEF ToolJoins, Heard, ListenerFails, Settled
    <3> QED
      BY <3>1, SettlingCounts DEF Lower, Left
  <2> QED
    BY <1>12, <2>1, <2>2, <2>3
<1>13. CASE ToolReturns \/ ToolGivenUp
  BY <1>12, <1>13 DEF ToolReturns, ToolGivenUp
<1>14. CASE Report
  <2>1. CASE pc = "report" \/ pc' = "failed"
    <3>1. pc \in {"report", "reportAll"} /\ (pc = "report" => pc' \in {"sequential", "failed"})
      BY <1>14 DEF Report, Recorded, ListenerFails
    <3> QED
      BY <1>1, <2>1, <3>1
  <2>2. CASE pc # "report" /\ pc' # "failed"
    <3>1. pc = "reportAll" /\ pc' = pc /\ at <= Len(status) /\ at' = at + 1 /\ status' = status
      BY <1>14, <2>2 DEF Report, Recorded, ListenerFails
    <3> QED
      BY <3>1, NextCallLeavesLess
  <2> QED
    BY <2>1, <2>2
<1>15. CASE Gather \/ TurnEnd
  <2>1. CASE Gather
    <3>1. pc \in {"sequential", "reportAll"} /\ pc' = "turnEnd"
      BY <2>1 DEF Gather
    <3> QED
      BY <1>1, <3>1
  <2>2. CASE TurnEnd
    <3>1. \/ pc = "turnEnd" /\ pc' \in {"turned", "failed"}
          \/ pc = "lastTurnEnd" /\ pc' \in {"ending", "failed"}
      BY <2>2 DEF TurnEnd, Heard, ListenerFails
    <3> QED
      BY <1>1, <3>1
  <2> QED
    BY <1>15, <2>1, <2>2
<1>16. CASE Turned \/ Stop \/ PollSteering \/ PollFollowUp
  <2>1. CASE Turned
    BY <1>1, <2>1 DEF Turned
  <2>2. CASE Stop
    BY <1>1, <2>2 DEF Stop
  <2>3. CASE PollSteering
    BY <1>1, <2>3 DEF PollSteering
  <2>4. CASE PollFollowUp
    BY <1>1, <2>4 DEF PollFollowUp
  <2> QED
    BY <1>16, <2>1, <2>2, <2>3, <2>4
<1>17. CASE Steered \/ Followed \/ Continuing
  <2>1. CASE Steered
    BY <1>1, <2>1 DEF Steered, NextTurn
  <2>2. CASE Followed
    BY <1>1, <2>2 DEF Followed, NextTurn
  <2>3. CASE Continuing
    BY <1>1, <2>3 DEF Continuing, NextTurn
  <2> QED
    BY <1>17, <2>1, <2>2, <2>3
<1>18. CASE AgentEnd \/ HandleRunFailure \/ FinishRun
  BY <1>1, <1>18 DEF AgentEnd, HandleRunFailure, FinishRun, Heard, ListenerFails
<1> QED
  BY <1>2, <1>3, <1>4, <1>5, <1>6, <1>7, <1>8, <1>9, <1>10, <1>11, <1>13, <1>14, <1>15, <1>16,
     <1>17, <1>18 DEF Loop, Others

\* While a run is going on, the owner queues and withdraws, and nothing else.
LEMMA OwnerWaits ==
    ASSUME Active, aborted, Owner \/ UNCHANGED vars
    PROVE  UNCHANGED <<pc, pending, status, at, aborted>>
<1>1. ASSUME NEW batch, Prompt(batch) PROVE FALSE
  BY <1>1 DEF Prompt, Begin, Active
<1>2. ASSUME NEW batch, Steer(batch) \/ FollowUp(batch)
      PROVE  UNCHANGED <<pc, pending, status, at, aborted>>
  BY <1>2 DEF Steer, FollowUp, toolVars, runVars
<1>3. ~ContinueSteering /\ ~ContinueFollowUp /\ ~Continue /\ ~Abort
  BY DEF ContinueSteering, ContinueFollowUp, Continue, Begin, Active, Abort
<1>4. ASSUME NEW m, Withdraw(m) PROVE UNCHANGED <<pc, pending, status, at, aborted>>
  BY <1>4 DEF Withdraw, toolVars, runVars
<1>5. CASE UNCHANGED vars
  BY <1>5 DEF vars, toolVars, runVars
<1> QED
  BY <1>1, <1>2, <1>3, <1>4, <1>5 DEF Owner

\* The signal stays up until the run is over.
LEMMA SignalStays ==
    ASSUME Active, aborted, Loop \/ Others
    PROVE  aborted' \/ pc' = "idle"
<1>1. CASE Start \/ RecordPrompt \/ FirstPoll \/ FirstPolled \/ TurnStart \/ Inject \/ Ask
  BY <1>1 DEF Start, RecordPrompt, FirstPoll, FirstPolled, TurnStart, Inject, Ask, runVars
<1>2. ASSUME NEW calls, ReplyFails(calls) \/ ReplyDone(calls) PROVE aborted'
  BY <1>2 DEF ReplyFails, ReplyDone, runVars
<1>3. CASE StreamStarts \/ AskThrows \/ Prepare \/ Launch \/ Execute \/ ExecuteAll \/ Joined \/ Report
           \/ Gather
  BY <1>3 DEF StreamStarts, AskThrows, Prepare, Launch, Execute, ExecuteAll, Joined, Report, Gather,
              runVars
<1>4. ASSUME NEW i, NEW hint, ToolEnds(i, hint) \/ ToolJoins(i, hint) PROVE aborted'
  BY <1>4 DEF ToolEnds, ToolJoins, runVars
<1>5. CASE TurnEnd \/ Turned \/ Stop \/ PollSteering \/ PollFollowUp \/ Steered \/ Followed \/ Continuing
  BY <1>5 DEF TurnEnd, Turned, Stop, PollSteering, PollFollowUp, Steered, Followed, Continuing, runVars
<1>6. CASE AgentEnd \/ HandleRunFailure \/ FinishRun
  BY <1>6 DEF AgentEnd, HandleRunFailure, FinishRun, runVars
<1> QED
  BY <1>1, <1>2, <1>3, <1>4, <1>5, <1>6 DEF Loop, Others, ToolReturns, ToolGivenUp

\* An aborted run has finitely many steps left, whatever the model, the tools and the hooks do,
\* and nothing the owner does gives it more of them: it never loops, retries or polls on.
THEOREM AbortedRunsEnd == Spec => [][AbortRunsDown]_vars
<1>1. TypeOK /\ [Next]_vars => [AbortRunsDown]_vars
  <2> SUFFICES ASSUME TypeOK, Next, Active, aborted
               PROVE  /\ Height[pc] \in Nat /\ Left \in Nat
                      /\ Loop \/ Others => Lower
                      /\ ~(Loop \/ Others) => UNCHANGED <<pc, Left>>
                      /\ aborted' \/ pc' = "idle"
    BY DEF AbortRunsDown
  <2>1. Height[pc] \in Nat /\ Left \in Nat
    BY RankTypes
  <2>2. CASE Loop \/ Others
    BY <2>1, <2>2, LoopGoesDown, SignalStays
  <2>3. CASE ~(Loop \/ Others)
    <3>1. UNCHANGED <<pc, pending, status, at, aborted>>
      BY <2>3, OwnerWaits DEF Next
    <3>2. UNCHANGED Left
      BY <3>1 DEF Left, Unsettled
    <3> QED
      BY <2>1, <2>3, <3>1, <3>2
  <2> QED
    BY <2>2, <2>3
<1> QED
  BY <1>1, TypeCorrect, PTL DEF Spec
=============================================================================
