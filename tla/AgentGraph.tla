----------------------------- MODULE AgentGraph -----------------------------
(***************************************************************************)
(* One turn of Ghost's brain: the graph supervisor -> tools | coder |      *)
(* critic -> supervisor that GhostController builds, and the frame         *)
(* _raw_supervisor_call puts around it.  A turn runs in one thread under   *)
(* the controller's lock (module CommandCenter), so a node is one step;    *)
(* what is uncertain is what the models say, what fails, and when the      *)
(* graph's step limit is hit.                                              *)
(*                                                                         *)
(* A call is [name, arg]: gorev_bitti ("done"), kod_iste (write code), or  *)
(* any other tool.  A model reply is a batch of calls, with or without     *)
(* call ids, and some content.  The prompt asks for one call at a time;    *)
(* the program takes what comes.                                           *)
(***************************************************************************)
EXTENDS Naturals, Sequences, FiniteSets

CONSTANTS
    Args,       \* the arguments of a call: tool parameters, or file and instruction
    MaxBatch,   \* the most calls a reply holds
    StepLimit,  \* recursion_limit of the graph (100 in the code)
    MaxTurns    \* bound: how many turns a behaviour has

ASSUME ConstantsAssumption ==
    /\ MaxBatch \in Nat /\ StepLimit \in Nat /\ MaxTurns \in Nat

\* The ozet of a gorev_bitti: some text, nothing, or out of reach because the arguments are a
\* JSON string and not an object (the guardrail reads both, the graph does not).
Summaries == {"full", "empty", "loose"}

\* Arguments that are a string are one more kind of Args for a tool; a kod_iste at the head
\* of a batch with such arguments raises in supervisor_node (GraphFails).
Calls == [name: {"arac", "kod_iste"}, arg: Args] \cup [name: {"gorev_bitti"}, arg: Summaries]

\* What a node remembers of a call: tools_node and coder_node write different signatures.
Signatures == [node: {"tools", "coder"}, call: Calls]
Sig(n, c) == [node |-> n, call |-> c]

Batches == UNION {[1..n -> Calls] : n \in 0..MaxBatch}

\* content "echo": the model repeats the critic's warning mark in its own words.  The words
\* of a reply matter only where somebody looks at them: when it has no calls, and at the
\* critic.
Replies == {r \in [calls: Batches, ids: BOOLEAN, content: {"empty", "text", "echo"}] :
    IF r.calls = <<>> THEN ~r.ids /\ r.content # "echo"
    ELSE r.content = "empty" \/ (r.content = "echo" /\ r.calls[1].name = "gorev_bitti")}

VARIABLES
    node,       \* where the turn stands
    reply,      \* the model's last reply (state["tool_calls"] and its message)
    tried,      \* calisan_araclar: the signatures of this turn
    written,    \* yazilan_dosyalar: the files the turn knows it wrote
    retry,      \* critic_retry_count
    steps,      \* graph steps taken
    answer,     \* nihai_cevap so far: where it comes from
    outcome,    \* what the user was told at the end of the last turn
    poisoned,   \* a reply of the turn had a gorev_bitti whose ozet is out of reach
    turns, ends, raised, \* turns begun; calls of on_task_end; turns whose answer raised
    ran,        \* history: node visits in which a signature was executed
    open,       \* history: calls of the last reply that no tool message answers yet
    verdict,    \* history: the critic's verdict on the last summary
    warnings    \* history: corrections the critic sent back

vars == <<node, reply, tried, written, retry, steps, answer, outcome, poisoned, turns, ends,
          raised, ran, open, verdict, warnings>>

Nodes == {"idle", "supervisor", "tools", "coder", "critic", "end"}
\* A summary is that of a call at the head of its batch, or hidden behind another call.
Answers == {"none", "summary", "hidden", "text", "question"}
Outcomes == Answers \cup {"explained", "failed", "raised"}
Verdicts == {"none", "approved", "rejected", "crashed"}

NoReply == [calls |-> <<>>, ids |-> FALSE, content |-> "empty"]

Init ==
    /\ node = "idle" /\ reply = NoReply
    /\ tried = {} /\ written = {} /\ retry = 0 /\ steps = 0
    /\ answer = "none" /\ outcome = "none" /\ poisoned = FALSE
    /\ turns = 0 /\ ends = 0 /\ raised = 0
    /\ ran = [s \in Signatures |-> 0]
    /\ open = {} /\ verdict = "none" /\ warnings = 0

-----------------------------------------------------------------------------
(* The frame of a turn *)

\* _raw_supervisor_call begins: the graph starts from a fresh state.
StartTurn ==
    /\ node = "idle" /\ turns < MaxTurns
    /\ node' = "supervisor" /\ turns' = turns + 1
    /\ reply' = NoReply /\ tried' = {} /\ written' = {} /\ retry' = 0 /\ steps' = 0
    /\ answer' = "none" /\ outcome' = "none" /\ poisoned' = FALSE
    /\ ran' = [s \in Signatures |-> 0]
    /\ open' = {} /\ verdict' = "none" /\ warnings' = 0
    /\ UNCHANGED <<ends, raised>>

\* on_task_end is called, the turn has an outcome.
EndTurn(o) ==
    /\ node' = "idle" /\ outcome' = o /\ ends' = ends + 1
    /\ UNCHANGED <<reply, tried, written, retry, steps, answer, poisoned, turns, raised, ran,
                   open, verdict, warnings>>

\* Variant: the except clause does not catch the step limit.
LimitEscapes ==
    /\ node \in {"supervisor", "tools", "coder", "critic"} /\ steps < StepLimit
    /\ EndTurn("failed")

\* The graph raised: the step limit, the model's server, the database behind the tool log or
\* the project memory, the arguments of a call that heads its batch and is no object.
GraphFails ==
    /\ node \in {"supervisor", "tools", "coder", "critic"}
    /\ EndTurn("failed")

\* The graph ended with an answer.
Deliver ==
    /\ node = "end" /\ answer # "none" /\ ~poisoned
    /\ EndTurn(answer)

\* It ended with none: the model is asked to explain, from a history that lacks the turn's
\* messages.
Recover ==
    /\ node = "end" /\ answer = "none" /\ ~poisoned
    /\ EndTurn("explained")

\* Reading the summaries out of the turn's messages raises: the exception leaves
\* _raw_supervisor_call, and on_task_end is not called.
AnswerRaises ==
    /\ node = "end" /\ poisoned
    /\ node' = "idle" /\ outcome' = "raised" /\ raised' = raised + 1
    /\ UNCHANGED <<reply, tried, written, retry, steps, answer, poisoned, turns, ends, ran,
                   open, verdict, warnings>>

-----------------------------------------------------------------------------
(* The nodes *)

\* Variant: the limit lets one step too many through.
StepBeyondLimit(from, to) ==
    /\ node = from /\ steps <= StepLimit
    /\ node' = to /\ steps' = steps + 1
    /\ UNCHANGED <<turns, ends, raised, outcome>>

Step(from, to) ==
    /\ node = from /\ steps < StepLimit
    /\ node' = to /\ steps' = steps + 1
    /\ UNCHANGED <<turns, ends, raised, outcome>>

\* Variant: a completed task ends the graph, as before there was a critic.
RouteTrusting(calls) ==
    IF calls = <<>> \/ calls[1].name = "gorev_bitti" THEN "end"
    ELSE IF calls[1].name = "kod_iste" THEN "coder" ELSE "tools"

\* yonlendirici looks at the first call only.
Route(calls) ==
    IF calls = <<>> THEN "end"
    ELSE CASE calls[1].name = "kod_iste"    -> "coder"
           [] calls[1].name = "gorev_bitti" -> "critic"
           [] OTHER                         -> "tools"

Dones(calls) == {i \in DOMAIN calls : calls[i].name = "gorev_bitti"}

\* How a message of the assistant changes nihai_cevap: the ozet of its last gorev_bitti, or
\* its text if it has no call.
AnswerAfter(r) ==
    LET dones  == Dones(r.calls)
        spoken == \E i \in dones : r.calls[i].arg = "full" /\ \A k \in dones : k <= i
    IN  IF dones # {}
        THEN IF ~spoken THEN "none" ELSE IF dones = {1} THEN "summary" ELSE "hidden"
        ELSE IF r.calls = <<>> /\ r.content # "empty" THEN "text" ELSE answer

\* supervisor_node, after validate_and_rescue: whatever reply it ends up with.
AskModel(r) ==
    /\ Step("supervisor", Route(r.calls))
    /\ reply' = r
    /\ open' = DOMAIN r.calls
    /\ answer' = AnswerAfter(r)
    /\ poisoned' = (poisoned \/ \E i \in Dones(r.calls) : r.calls[i].arg = "loose")
    /\ verdict' = IF Dones(r.calls) # {} THEN "none" ELSE verdict
    /\ UNCHANGED <<tried, written, retry, ran, warnings>>

\* tools_node runs the calls of the batch that no earlier step of the turn has tried.
RunTools ==
    LET fresh == {i \in DOMAIN reply.calls : Sig("tools", reply.calls[i]) \notin tried}
        new   == {Sig("tools", reply.calls[i]) : i \in fresh}
    IN  /\ Step("tools", "supervisor")
        /\ tried' = tried \cup new
        /\ ran' = [s \in Signatures |-> IF s \in new THEN ran[s] + 1 ELSE ran[s]]
        /\ open' = {}
        /\ UNCHANGED <<reply, written, retry, answer, poisoned, verdict, warnings>>

Coded == Sig("coder", reply.calls[1])

\* coder_node answers the first call of the batch and no other.
CoderAnswers ==
    /\ Step("coder", "supervisor")
    /\ open' = open \ {1}
    /\ UNCHANGED <<reply, retry, answer, poisoned, verdict, warnings>>

CoderRefuses ==
    /\ CoderAnswers
    /\ Coded \in tried
    /\ UNCHANGED <<tried, written, ran>>

\* The worker wrote code and dosya_yaz came back: the file is on disk, or the user refused
\* the diff; the turn remembers it as written either way.
CoderWrites ==
    /\ CoderAnswers
    /\ Coded \notin tried
    /\ tried' = tried \cup {Coded}
    /\ ran' = [ran EXCEPT ![Coded] = @ + 1]
    /\ written' = written \cup {reply.calls[1].arg}

\* Variant: a crash of the coder leaves no signature.
CoderCrashForgets ==
    /\ CoderAnswers
    /\ Coded \notin tried
    /\ ran' = [ran EXCEPT ![Coded] = @ + 1]
    /\ UNCHANGED <<tried, written>>

\* "Taşeron çöktü": the worker raised, or the steps after the write did (load_dynamic_skill,
\* harness.upsert): the file may be on disk, the turn does not know it.
CoderCrashes ==
    /\ CoderAnswers
    /\ Coded \notin tried
    /\ tried' = tried \cup {Coded}
    /\ ran' = [ran EXCEPT ![Coded] = @ + 1]
    /\ UNCHANGED written

\* critic_node reads the ozet of the call at the head, and leaves a message for that call if
\* it has an id.
CriticStep(to) ==
    /\ Step("critic", to)
    /\ reply.calls[1].arg # "loose"
    /\ UNCHANGED <<reply, tried, written, poisoned, ran>>

Closed == IF reply.ids THEN open \ {1} ELSE open

\* The router after the critic looks for the warning mark in the last message: without a
\* message of the critic that is the model's own.
AfterSilence == IF reply.content = "echo" THEN "supervisor" ELSE "end"

CriticApproves ==
    /\ CriticStep(IF reply.ids THEN "end" ELSE AfterSilence)
    /\ verdict' = "approved"
    /\ open' = Closed
    /\ UNCHANGED <<retry, answer, warnings>>

\* The critic itself fails: "silently passed".
CriticCrashes ==
    /\ CriticStep(AfterSilence)
    /\ verdict' = "crashed"
    /\ UNCHANGED <<retry, answer, open, warnings>>

\* Variant: the correction is a free system message, the call stays open.
CriticSendsSystemMessage ==
    /\ retry < 2
    /\ CriticStep("supervisor")
    /\ verdict' = "rejected"
    /\ retry' = retry + 1 /\ warnings' = warnings + 1
    /\ UNCHANGED <<answer, open>>

\* A rejection goes back to the supervisor as a correction ...
CriticSendsBack ==
    /\ retry < 2
    /\ CriticStep("supervisor")
    /\ verdict' = "rejected"
    /\ open' = Closed
    /\ retry' = retry + 1 /\ warnings' = warnings + 1
    /\ UNCHANGED answer

\* ... until the third, which gives up.  The request for help becomes the answer only if
\* it is an assistant message, which it is when the call has no id.  It quotes the critic:
\* a critic that repeats the warning mark it was shown sends the turn back once more.
CriticGivesUp ==
    /\ retry >= 2
    /\ \E critic \in {"text", "echo"} :
          CriticStep(IF critic = "echo" THEN "supervisor" ELSE "end")
    /\ verdict' = "rejected"
    /\ open' = Closed
    /\ retry' = retry + 1
    /\ answer' = IF reply.ids THEN answer ELSE "question"
    /\ UNCHANGED warnings

TurnStep ==
    \/ GraphFails \/ Deliver \/ Recover \/ AnswerRaises
    \/ \E r \in Replies : AskModel(r)
    \/ RunTools
    \/ CoderRefuses \/ CoderWrites \/ CoderCrashes
    \/ CriticApproves \/ CriticCrashes \/ CriticSendsBack \/ CriticGivesUp

Next == StartTurn \/ TurnStep

Spec == Init /\ [][Next]_vars

\* A turn that has begun goes on, for model calls, the coder and the critic have timeouts.  A
\* tool need not return: insana_sor waits for the user without one.
FairSpec == Spec /\ WF_vars(TurnStep /\ node # "tools")

-----------------------------------------------------------------------------
(* Properties *)

TypeOK ==
    /\ node \in Nodes /\ reply \in Replies
    /\ tried \subseteq Signatures
    /\ written \subseteq Args
    /\ retry \in Nat /\ steps \in 0..StepLimit
    /\ answer \in Answers /\ outcome \in Outcomes
    /\ turns \in 0..MaxTurns /\ ends \in 0..turns /\ raised \in 0..turns
    /\ poisoned \in BOOLEAN
    /\ ran \in [Signatures -> Nat]
    /\ open \subseteq 1..MaxBatch
    /\ verdict \in Verdicts /\ warnings \in Nat

\* Repetition guard of tools_node and coder_node: a signature executed in one step of the
\* turn is refused in every later one, whatever the models do in between.
RunsOnce == \A s \in Signatures : ran[s] <= 1

\* The critic's own corrections send a turn back at most twice, whatever ids the calls have.
CorrectionsBounded == warnings <= 2

\* on_task_end is called once in every turn, on success, failure and step limit alike, but for
\* the turns whose answer raised: they end without it.
TurnEndsOnce ==
    /\ ends + raised = IF node = "idle" THEN turns ELSE turns - 1
    /\ node = "idle" /\ turns > 0 => outcome # "none"

\* README.md:10: a task that is marked complete is re-checked, completion is not trusted
\* blindly.  A summary at the head of its batch reaches the user only if the critic
\* approved it, failed, gave up on it, or rejected it and the model then had no more to
\* say.  (A summary behind another call is not reviewed at all.)
SummaryWasReviewed ==
    outcome = "summary" =>
        \/ verdict \in {"approved", "crashed"}
        \/ verdict = "rejected" /\ (retry > 2 \/ reply.calls = <<>>)

\* The calls of a batch that nobody will look at: those behind a kod_iste or a gorev_bitti.
Ignored(calls) ==
    IF calls # <<>> /\ calls[1].name # "arac" THEN 2..Len(calls) ELSE {}

\* A call that has an id is answered by a tool message before the model is asked again, so
\* that no call stays open in the prompt, except the ignored ones (and that of a critic
\* that crashed, when the model's own words carried the turn back).
NoCallLeftOpen ==
    [][(\E r \in Replies : AskModel(r)) /\ reply.ids =>
           \/ open \subseteq Ignored(reply.calls)
           \/ verdict = "crashed" /\ 1 \in Dones(reply.calls)]_vars

\* A turn ends unless a tool keeps it waiting: the corrections, the repetition guard and the
\* step limit see to it, whatever the models say and whatever fails.
TurnEnds == []<>(node # "tools") => (node # "idle" ~> node = "idle")
=============================================================================
