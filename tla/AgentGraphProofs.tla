-------------------------- MODULE AgentGraphProofs --------------------------
(***************************************************************************)
(* Theorems about AgentGraph, for any set of arguments, any batch size,    *)
(* any step limit and any number of turns.                                 *)
(***************************************************************************)
EXTENDS AgentGraph, TLAPS

\* What the repetition guard keeps: the memory of the turn is exactly what it executed.
GuardInv ==
    /\ tried \subseteq Signatures
    /\ ran \in [Signatures -> Nat]
    /\ reply \in Replies
    /\ node \in {"tools", "coder", "critic"} => node = Route(reply.calls)
    /\ \A s \in Signatures : ran[s] = IF s \in tried THEN 1 ELSE 0

\* A correction costs a retry.
RetryInv ==
    /\ retry \in Nat /\ warnings \in Nat
    /\ warnings <= retry /\ warnings <= 2

\* A turn under way has not been counted as ended, nor as raised.
FrameInv ==
    /\ turns \in Nat /\ ends \in Nat /\ raised \in Nat
    /\ node = "idle" => ends + raised = turns /\ (turns > 0 => outcome # "none")
    /\ node # "idle" => ends + raised = turns - 1 /\ turns > 0

\* What the critic's verdict must be for a summary to be the answer where the turn stands: a
\* rejected one is with the models again, or was rejected for the third time, or the model
\* had nothing more to say.
Reviewed ==
    \/ verdict \in {"approved", "crashed"}
    \/ verdict = "rejected" /\ (retry > 2 \/ reply.calls = <<>>)

ReviewInv ==
    /\ answer = "summary" /\ node \notin {"critic", "idle"} =>
           Reviewed \/ (verdict = "rejected" /\ node # "end")
    /\ outcome = "summary" => node = "idle" /\ Reviewed

-----------------------------------------------------------------------------
(* Lemmas about replies *)

\* A reply that has calls has a first one; a reply without a call ends the graph.
LEMMA RouteFollowsFirstCall ==
    ASSUME NEW r \in Replies
    PROVE  Route(r.calls) # "end" => 1 \in DOMAIN r.calls /\ r.calls[1] \in Calls
<1> SUFFICES ASSUME Route(r.calls) # "end" PROVE 1 \in DOMAIN r.calls /\ r.calls[1] \in Calls
  OBVIOUS
<1>1. PICK n \in 0..MaxBatch : r.calls \in [1..n -> Calls]
  BY DEF Replies, Batches
<1>2. n # 0
  <2>1. SUFFICES ASSUME n = 0 PROVE FALSE
    OBVIOUS
  <2>2. r.calls = <<>>
    BY <1>1, <2>1
  <2> QED
    BY <2>2 DEF Route
<1> QED
  BY <1>1, <1>2, ConstantsAssumption

\* Every call of a reply is a call.
LEMMA CallsOfReply ==
    ASSUME NEW r \in Replies
    PROVE  \A i \in DOMAIN r.calls : r.calls[i] \in Calls
<1>1. PICK n \in 0..MaxBatch : r.calls \in [1..n -> Calls]
  BY DEF Replies, Batches
<1> QED
  BY <1>1

\* Where a reply leads, and what it must hold to lead there.
LEMMA RouteCases ==
    ASSUME NEW r \in Replies
    PROVE  \/ Route(r.calls) = "end"
           \/ Route(r.calls) = "critic" /\ r.calls[1].name = "gorev_bitti"
           \/ Route(r.calls) \in {"coder", "tools"} /\ r.calls[1].name # "gorev_bitti"
  BY DEF Route

\* The empty reply a turn starts from is a reply.
LEMMA NoReplyIsReply == NoReply \in Replies
<1>1. <<>> \in [1..0 -> Calls] /\ 0 \in 0..MaxBatch
  BY ConstantsAssumption
<1>2. <<>> \in Batches
  BY <1>1 DEF Batches
<1> QED
  BY <1>2 DEF NoReply, Replies

\* A node that handles a call has one to handle, of its kind.
LEMMA HeadOfReply ==
    ASSUME GuardInv
    PROVE  /\ node \in {"tools", "coder", "critic"} =>
                  1 \in DOMAIN reply.calls /\ reply.calls[1] \in Calls
           /\ node = "coder" => reply.calls[1].name = "kod_iste"
           /\ node = "critic" => reply.calls[1].name = "gorev_bitti"
  BY RouteFollowsFirstCall DEF GuardInv, Route

-----------------------------------------------------------------------------
(* The repetition guard *)

\* No step makes the guard forget, or execute what it remembers.
LEMMA GuardStep == GuardInv /\ [Next]_vars => GuardInv'
<1> SUFFICES ASSUME GuardInv, [Next]_vars PROVE GuardInv'
  OBVIOUS
<1> USE DEF GuardInv
<1>1. CASE StartTurn
  BY <1>1, NoReplyIsReply DEF StartTurn
<1>2. CASE GraphFails \/ Deliver \/ Recover \/ AnswerRaises
  BY <1>2 DEF GraphFails, Deliver, Recover, AnswerRaises, EndTurn
<1>3. ASSUME NEW r \in Replies, AskModel(r) PROVE GuardInv'
  <2>1. reply' = r /\ node' = Route(r.calls) /\ UNCHANGED <<tried, ran>>
    BY <1>3 DEF AskModel, Step
  <2> QED
    BY <2>1
<1>4. CASE RunTools
  <2> DEFINE fresh == {i \in DOMAIN reply.calls : Sig("tools", reply.calls[i]) \notin tried}
             new == {Sig("tools", reply.calls[i]) : i \in fresh}
  <2>1. /\ node' = "supervisor" /\ reply' = reply /\ tried' = tried \cup new
        /\ ran' = [s \in Signatures |-> IF s \in new THEN ran[s] + 1 ELSE ran[s]]
    BY <1>4 DEF RunTools, Step
  <2>2. new \subseteq Signatures
    BY CallsOfReply DEF Sig, Signatures
  <2>3. new \cap tried = {}
    OBVIOUS
  <2> HIDE DEF new
  <2>4. \A s \in Signatures : ran'[s] = IF s \in tried' THEN 1 ELSE 0
    BY <2>1, <2>2, <2>3
  <2>5. tried' \subseteq Signatures /\ ran' \in [Signatures -> Nat]
    BY <2>1, <2>2
  <2> QED
    BY <2>1, <2>4, <2>5
<1>5. CASE CoderRefuses
  BY <1>5 DEF CoderRefuses, CoderAnswers, Step
<1>6. CASE CoderWrites \/ CoderCrashes
  <2>1. /\ node' = "supervisor" /\ reply' = reply /\ Coded \notin tried
        /\ tried' = tried \cup {Coded} /\ ran' = [ran EXCEPT ![Coded] = @ + 1]
    BY <1>6 DEF CoderWrites, CoderCrashes, CoderAnswers, Step
  <2>2. node = "coder"
    BY <1>6 DEF CoderWrites, CoderCrashes, CoderAnswers, Step
  <2>3. Coded \in Signatures
    BY <2>2, HeadOfReply DEF Coded, Sig, Signatures
  <2> HIDE DEF GuardInv
  <2>4. \A s \in Signatures : ran'[s] = IF s \in tried' THEN 1 ELSE 0
    BY <2>1, <2>3 DEF GuardInv
  <2>5. tried' \subseteq Signatures /\ ran' \in [Signatures -> Nat]
    BY <2>1, <2>3 DEF GuardInv
  <2> QED
    BY <2>1, <2>4, <2>5 DEF GuardInv
<1>7. CASE CriticApproves \/ CriticCrashes \/ CriticSendsBack \/ CriticGivesUp
  BY <1>7 DEF CriticApproves, CriticCrashes, CriticSendsBack, CriticGivesUp, CriticStep, Step,
              AfterSilence
<1>8. CASE UNCHANGED vars
  BY <1>8 DEF vars
<1> QED
  BY <1>1, <1>2, <1>3, <1>4, <1>5, <1>6, <1>7, <1>8 DEF Next, TurnStep

\* The guard's memory is, in every reachable state, what the turn executed.
LEMMA GuardInvariant == Spec => []GuardInv
<1>1. Init => GuardInv
  BY NoReplyIsReply DEF Init, GuardInv
<1> QED
  BY <1>1, GuardStep, PTL DEF Spec

\* No tool call and no coding instruction is executed in two steps of one turn.
THEOREM NothingRunsTwice == Spec => []RunsOnce
<1>1. GuardInv => RunsOnce
  BY DEF GuardInv, RunsOnce
<1> QED
  BY <1>1, GuardInvariant, PTL

-----------------------------------------------------------------------------
(* The critic's corrections *)

\* Each correction costs a retry, and none is sent from the second retry on.
LEMMA RetryStep == RetryInv /\ [Next]_vars => RetryInv'
<1> SUFFICES ASSUME RetryInv, [Next]_vars PROVE RetryInv'
  OBVIOUS
<1> USE DEF RetryInv
<1>1. CASE StartTurn
  BY <1>1 DEF StartTurn
<1>2. CASE GraphFails \/ Deliver \/ Recover \/ AnswerRaises
  BY <1>2 DEF GraphFails, Deliver, Recover, AnswerRaises, EndTurn
<1>3. CASE \E r \in Replies : AskModel(r)
  BY <1>3 DEF AskModel
<1>4. CASE RunTools
  BY <1>4 DEF RunTools
<1>5. CASE CoderRefuses \/ CoderWrites \/ CoderCrashes
  BY <1>5 DEF CoderRefuses, CoderWrites, CoderCrashes, CoderAnswers
<1>6. CASE CriticApproves \/ CriticCrashes
  BY <1>6 DEF CriticApproves, CriticCrashes
<1>7. CASE CriticSendsBack
  BY <1>7 DEF CriticSendsBack
<1>8. CASE CriticGivesUp
  BY <1>8 DEF CriticGivesUp
<1>9. CASE UNCHANGED vars
  BY <1>9 DEF vars
<1> QED
  BY <1>1, <1>2, <1>3, <1>4, <1>5, <1>6, <1>7, <1>8, <1>9 DEF Next, TurnStep

\* The critic's corrections send a turn back at most twice.
THEOREM CorrectionsAreBounded == Spec => []CorrectionsBounded
<1>1. Init => RetryInv
  BY DEF Init, RetryInv
<1>2. RetryInv => CorrectionsBounded
  BY DEF RetryInv, CorrectionsBounded
<1> QED
  BY <1>1, <1>2, RetryStep, PTL DEF Spec

-----------------------------------------------------------------------------
(* The frame of a turn *)

\* A step inside a turn leaves the turn open; the others open or close exactly one.
LEMMA FrameStep == FrameInv /\ [Next]_vars => FrameInv'
<1> SUFFICES ASSUME FrameInv, [Next]_vars PROVE FrameInv'
  OBVIOUS
<1> USE DEF FrameInv
<1>1. CASE StartTurn
  BY <1>1 DEF StartTurn
<1>2. CASE GraphFails \/ Deliver \/ Recover \/ AnswerRaises
  BY <1>2 DEF GraphFails, Deliver, Recover, AnswerRaises, EndTurn
<1>3. ASSUME node # "idle", node' # "idle", UNCHANGED <<turns, ends, raised, outcome>>
      PROVE  FrameInv'
  BY <1>3
<1>4. CASE \E r \in Replies : AskModel(r)
  <2>1. PICK r \in Replies : AskModel(r)
    BY <1>4
  <2>2. Route(r.calls) # "idle"
    BY RouteCases
  <2> QED
    BY <1>3, <2>1, <2>2 DEF AskModel, Step
<1>5. CASE RunTools
  BY <1>3, <1>5 DEF RunTools, Step
<1>6. CASE CoderRefuses \/ CoderWrites \/ CoderCrashes
  BY <1>3, <1>6 DEF CoderRefuses, CoderWrites, CoderCrashes, CoderAnswers, Step
<1>7. CASE CriticApproves \/ CriticCrashes \/ CriticSendsBack \/ CriticGivesUp
  BY <1>3, <1>7 DEF CriticApproves, CriticCrashes, CriticSendsBack, CriticGivesUp, CriticStep,
                    Step, AfterSilence
<1>8. CASE UNCHANGED vars
  BY <1>8 DEF vars
<1> QED
  BY <1>1, <1>2, <1>4, <1>5, <1>6, <1>7, <1>8 DEF Next, TurnStep

\* on_task_end is called exactly once for every turn that ends, unless reading its answer
\* raised: then not at all.  Either way the turn has an outcome.
THEOREM OneEndPerTurn == Spec => []TurnEndsOnce
<1>1. Init => FrameInv
  BY DEF Init, FrameInv
<1>2. FrameInv => TurnEndsOnce
  BY DEF FrameInv, TurnEndsOnce
<1> QED
  BY <1>1, <1>2, FrameStep, PTL DEF Spec

-----------------------------------------------------------------------------
(* The critic's place before the answer *)

\* A summary that becomes the answer and heads its batch goes to the critic.
LEMMA SummaryGoesToCritic ==
    ASSUME NEW r \in Replies, Dones(r.calls) # {}, AnswerAfter(r) = "summary"
    PROVE  Route(r.calls) = "critic"
<1>1. Dones(r.calls) = {1}
  BY DEF AnswerAfter
<1>2. 1 \in DOMAIN r.calls /\ r.calls[1].name = "gorev_bitti"
  BY <1>1 DEF Dones
<1>3. r.calls # <<>>
  BY <1>2
<1> QED
  BY <1>2, <1>3 DEF Route

\* A summary is with the critic, or the critic has spoken.
LEMMA ReviewStep == RetryInv /\ ReviewInv /\ [Next]_vars => ReviewInv'
<1> SUFFICES ASSUME RetryInv, ReviewInv, [Next]_vars PROVE ReviewInv'
  OBVIOUS
<1> USE DEF ReviewInv, Reviewed
<1>1. CASE StartTurn
  BY <1>1 DEF StartTurn
<1>2. CASE GraphFails \/ Deliver \/ Recover \/ AnswerRaises
  BY <1>2 DEF GraphFails, Deliver, Recover, AnswerRaises, EndTurn
<1>3. ASSUME NEW r \in Replies, AskModel(r) PROVE ReviewInv'
  <2>1. /\ node = "supervisor" /\ node' = Route(r.calls) /\ reply' = r
        /\ answer' = AnswerAfter(r) /\ UNCHANGED <<retry, outcome>>
        /\ verdict' = IF Dones(r.calls) # {} THEN "none" ELSE verdict
    BY <1>3 DEF AskModel, Step
  <2>2. CASE Dones(r.calls) # {}
    BY <2>1, <2>2, SummaryGoesToCritic
  <2>3. CASE Dones(r.calls) = {}
    <3>1. answer' = "summary" => answer = "summary"
      BY <2>1, <2>3 DEF AnswerAfter
    <3>2. node' = "end" => r.calls = <<>>
      BY <2>1 DEF Route
    <3> QED
      BY <2>1, <2>3, <3>1, <3>2
  <2> QED
    BY <2>2, <2>3
<1>4. CASE RunTools
  BY <1>4 DEF RunTools, Step
<1>5. CASE CoderRefuses \/ CoderWrites \/ CoderCrashes
  BY <1>5 DEF CoderRefuses, CoderWrites, CoderCrashes, CoderAnswers, Step
<1>6. CASE CriticApproves
  BY <1>6 DEF CriticApproves, CriticStep, Step
<1>7. CASE CriticCrashes
  BY <1>7 DEF CriticCrashes, CriticStep, Step
<1>8. CASE CriticSendsBack
  BY <1>8 DEF CriticSendsBack, CriticStep, Step
<1>9. CASE CriticGivesUp
  BY <1>9 DEF CriticGivesUp, CriticStep, Step, RetryInv
<1>10. CASE UNCHANGED vars
  BY <1>10 DEF vars
<1> QED
  BY <1>1, <1>2, <1>3, <1>4, <1>5, <1>6, <1>7, <1>8, <1>9, <1>10 DEF Next, TurnStep

\* No summary that heads its batch reaches the user unless the critic approved it, failed, gave
\* up on it, or rejected it and the model then fell silent, however long the batches are.
THEOREM SummariesReviewed == Spec => []SummaryWasReviewed
<1>1. Init => RetryInv /\ ReviewInv
  BY DEF Init, RetryInv, ReviewInv
<1>2. ReviewInv => SummaryWasReviewed
  BY DEF ReviewInv, Reviewed, SummaryWasReviewed
<1> QED
  BY <1>1, <1>2, RetryStep, ReviewStep, PTL DEF Spec

-----------------------------------------------------------------------------
(* Type correctness *)

\* The calls of a reply are numbered from 1 to at most MaxBatch.
LEMMA BatchBound ==
    ASSUME NEW r \in Replies
    PROVE  DOMAIN r.calls \subseteq 1..MaxBatch /\ Len(r.calls) \in Nat
<1>1. PICK n \in 0..MaxBatch : r.calls \in [1..n -> Calls]
  BY DEF Replies, Batches
<1>2. n \in Nat /\ n <= MaxBatch /\ MaxBatch \in Nat
  BY ConstantsAssumption
<1>3. r.calls \in Seq(Calls)
  BY <1>1, <1>2
<1>4. Len(r.calls) \in Nat
  BY <1>3
<1>5. DOMAIN r.calls = 1..n
  BY <1>1
<1> QED
  BY <1>2, <1>4, <1>5

\* The part of TypeOK that the guard's invariant does not give: one conjunct per field.
Fields ==
    /\ node \in Nodes
    /\ written \subseteq Args
    /\ retry \in Nat /\ steps \in 0..StepLimit
    /\ answer \in Answers /\ outcome \in Outcomes
    /\ turns \in 0..MaxTurns
    /\ open \subseteq 1..MaxBatch
    /\ verdict \in Verdicts /\ warnings \in Nat
    /\ poisoned \in BOOLEAN

\* Every step keeps the fields in their types.
LEMMA FieldsStep == GuardInv /\ Fields /\ [Next]_vars => Fields'
<1> SUFFICES ASSUME GuardInv, Fields, [Next]_vars PROVE Fields'
  OBVIOUS
<1> USE ConstantsAssumption DEF Fields, Nodes, Answers, Outcomes, Verdicts
<1>1. CASE StartTurn
  <2>1. poisoned' \in BOOLEAN
    BY <1>1 DEF StartTurn
  <2>2. /\ node' = "supervisor" /\ turns' = turns + 1 /\ turns < MaxTurns
        /\ written' = {} /\ retry' = 0 /\ steps' = 0 /\ warnings' = 0
        /\ answer' = "none" /\ outcome' = "none" /\ open' = {} /\ verdict' = "none"
    BY <1>1 DEF StartTurn
  <2> QED
    BY <2>1, <2>2
<1>2. CASE GraphFails \/ Deliver \/ Recover \/ AnswerRaises
  <2>1. /\ node' = "idle" /\ outcome' \in Outcomes
        /\ UNCHANGED <<written, retry, steps, answer, poisoned, turns, open, verdict,
                        warnings>>
    <3>1. CASE GraphFails
      BY <3>1 DEF GraphFails, EndTurn
    <3>2. CASE Deliver
      BY <3>2 DEF Deliver, EndTurn
    <3>3. CASE Recover
      BY <3>3 DEF Recover, EndTurn
    <3>4. CASE AnswerRaises
      BY <3>4 DEF AnswerRaises
    <3> QED
      BY <1>2, <3>1, <3>2, <3>3, <3>4
  <2> QED
    BY <2>1
<1>3. ASSUME NEW r \in Replies, AskModel(r) PROVE Fields'
  <2>1. node' \in Nodes
    BY <1>3, RouteCases DEF AskModel, Step
  <2>2. answer' \in Answers /\ verdict' \in Verdicts /\ poisoned' \in BOOLEAN
    <3>1. AnswerAfter(r) \in {"none", "summary", "hidden", "text", answer}
      BY DEF AnswerAfter
    <3>2. /\ answer' = AnswerAfter(r)
          /\ verdict' = IF Dones(r.calls) # {} THEN "none" ELSE verdict
          /\ poisoned' = (poisoned \/ \E i \in Dones(r.calls) : r.calls[i].arg = "loose")
      BY <1>3 DEF AskModel
    <3>3. poisoned' \in BOOLEAN
      BY <3>2
    <3> QED
      BY <3>1, <3>2, <3>3
  <2>3. open' \subseteq 1..MaxBatch
    BY <1>3, BatchBound DEF AskModel
  <2>4. steps' \in 0..StepLimit
    BY <1>3 DEF AskModel, Step
  <2>5. UNCHANGED <<written, retry, warnings, turns, outcome>>
    BY <1>3 DEF AskModel, Step
  <2> QED
    BY <2>1, <2>2, <2>3, <2>4, <2>5
<1>4. CASE RunTools
  BY <1>4 DEF RunTools, Step
<1>5. CASE CoderRefuses \/ CoderWrites \/ CoderCrashes
  <2>1. CoderAnswers
    BY <1>5 DEF CoderRefuses, CoderWrites, CoderCrashes
  <2>2. /\ node = "coder" /\ node' = "supervisor" /\ steps' \in 0..StepLimit
        /\ open' = open \ {1}
        /\ UNCHANGED <<retry, answer, poisoned, turns, outcome, verdict, warnings>>
    BY <2>1 DEF CoderAnswers, Step
  <2>3. reply.calls[1] \in Calls /\ reply.calls[1].name = "kod_iste"
    BY <2>2, HeadOfReply
  <2>4. reply.calls[1].arg \in Args
    BY <2>3 DEF Calls
  <2>5. /\ written' \in {written, written \cup {reply.calls[1].arg}}
    BY <1>5 DEF CoderRefuses, CoderWrites, CoderCrashes
  <2> QED
    BY <2>2, <2>4, <2>5
<1>6. CASE CriticApproves \/ CriticCrashes \/ CriticSendsBack \/ CriticGivesUp
  <2>1. PICK to \in {"supervisor", "end"} : CriticStep(to)
    BY <1>6 DEF CriticApproves, CriticCrashes, CriticSendsBack, CriticGivesUp, AfterSilence
  <2>2. /\ node' \in {"supervisor", "end"} /\ steps' \in 0..StepLimit
        /\ UNCHANGED <<turns, outcome, written, poisoned>>
    BY <2>1 DEF CriticStep, Step
  <2>3. /\ open' \subseteq open /\ verdict' \in Verdicts
        /\ answer' \in {answer, "question"} /\ retry' \in {retry, retry + 1}
        /\ warnings' \in {warnings, warnings + 1}
    BY <1>6 DEF CriticApproves, CriticCrashes, CriticSendsBack, CriticGivesUp, Closed
  <2> QED
    BY <2>2, <2>3
<1>7. CASE UNCHANGED vars
  BY <1>7 DEF vars
<1> QED
  BY <1>1, <1>2, <1>3, <1>4, <1>5, <1>6, <1>7 DEF Next, TurnStep

\* The state of a turn keeps its types, the step count its limit, and no turn ends twice.
THEOREM TypeCorrect == Spec => []TypeOK
<1>1. Init => Fields /\ FrameInv
  <2> SUFFICES ASSUME Init PROVE Fields /\ FrameInv
    OBVIOUS
  <2>1. poisoned \in BOOLEAN
    BY DEF Init
  <2>2. FrameInv
    BY DEF Init, FrameInv
  <2> QED
    BY <2>1, <2>2, ConstantsAssumption DEF Init, Fields, Nodes, Answers, Outcomes, Verdicts
<1>2. GuardInv /\ FrameInv /\ Fields => TypeOK
  <2> SUFFICES ASSUME GuardInv, FrameInv, Fields PROVE TypeOK
    OBVIOUS
  <2>1. ends \in 0..turns /\ raised \in 0..turns
    <3>1. /\ turns \in Nat /\ ends \in Nat /\ raised \in Nat
          /\ (ends + raised = turns \/ ends + raised = turns - 1)
      BY DEF FrameInv
    <3> QED
      BY <3>1
  <2>2. tried \subseteq Signatures /\ ran \in [Signatures -> Nat] /\ reply \in Replies
    BY DEF GuardInv
  <2> QED
    BY <2>1, <2>2 DEF Fields, TypeOK
<1> QED
  BY <1>1, <1>2, GuardInvariant, FieldsStep, FrameStep, PTL DEF Spec

-----------------------------------------------------------------------------
(* Every call is answered *)

\* While a node works on a reply, the calls that are open are among its calls; afterwards only
\* the ignored ones are open, or that of the critic that crashed.
OpenInv ==
    /\ node \in {"coder", "critic"} => open \subseteq DOMAIN reply.calls
    /\ node = "supervisor" /\ reply.ids =>
           \/ open \subseteq Ignored(reply.calls)
           \/ verdict = "crashed" /\ 1 \in Dones(reply.calls)

\* The calls behind the head are ignored, when coder or critic looked at the head.
LEMMA RestIsIgnored ==
    ASSUME GuardInv, node \in {"coder", "critic"}, open \subseteq DOMAIN reply.calls
    PROVE  open \ {1} \subseteq Ignored(reply.calls)
<1>1. PICK n \in 0..MaxBatch : reply.calls \in [1..n -> Calls]
  BY DEF GuardInv, Replies, Batches
<1>2. n \in Nat /\ reply.calls \in Seq(Calls) /\ Len(reply.calls) = n /\ DOMAIN reply.calls = 1..n
  BY <1>1, ConstantsAssumption
<1>3. 1 \in DOMAIN reply.calls /\ reply.calls[1].name # "arac"
  BY HeadOfReply
<1>4. reply.calls # <<>>
  BY <1>3
<1>5. Ignored(reply.calls) = 2..n
  BY <1>2, <1>3, <1>4 DEF Ignored
<1> QED
  BY <1>2, <1>5

\* The node that handles a batch answers its calls, but for the ignored ones.
LEMMA OpenStep == GuardInv /\ OpenInv /\ [Next]_vars => OpenInv'
<1> SUFFICES ASSUME GuardInv, OpenInv, [Next]_vars PROVE OpenInv'
  OBVIOUS
<1> USE DEF OpenInv
<1>1. CASE StartTurn
  BY <1>1 DEF StartTurn
<1>2. CASE GraphFails \/ Deliver \/ Recover \/ AnswerRaises
  BY <1>2 DEF GraphFails, Deliver, Recover, AnswerRaises, EndTurn
<1>3. ASSUME NEW r \in Replies, AskModel(r) PROVE OpenInv'
  <2>1. open' = DOMAIN r.calls /\ node' = Route(r.calls) /\ reply' = r
    BY <1>3 DEF AskModel, Step
  <2>2. node' # "supervisor"
    BY <2>1, RouteCases
  <2> QED
    BY <2>1, <2>2
<1>4. CASE RunTools
  BY <1>4 DEF RunTools, Step
<1>5. CASE CoderRefuses \/ CoderWrites \/ CoderCrashes
  <2>1. /\ node = "coder" /\ node' = "supervisor" /\ open' = open \ {1} /\ reply' = reply
    BY <1>5 DEF CoderRefuses, CoderWrites, CoderCrashes, CoderAnswers, Step
  <2> QED
    BY <2>1, RestIsIgnored
<1>6. CASE CriticApproves \/ CriticSendsBack \/ CriticGivesUp
  <2>1. /\ node = "critic" /\ node' \in {"supervisor", "end"} /\ reply' = reply
        /\ open' = IF reply.ids THEN open \ {1} ELSE open
    BY <1>6 DEF CriticApproves, CriticSendsBack, CriticGivesUp, CriticStep, Step, Closed,
                AfterSilence
  <2> QED
    BY <2>1, RestIsIgnored
<1>7. CASE CriticCrashes
  <2>1. /\ node = "critic" /\ node' \in {"supervisor", "end"} /\ reply' = reply
        /\ verdict' = "crashed"
    BY <1>7 DEF CriticCrashes, CriticStep, Step, AfterSilence
  <2>2. 1 \in Dones(reply.calls)
    BY <2>1, HeadOfReply DEF Dones
  <2> QED
    BY <2>1, <2>2
<1>8. CASE UNCHANGED vars
  BY <1>8 DEF vars
<1> QED
  BY <1>1, <1>2, <1>3, <1>4, <1>5, <1>6, <1>7, <1>8 DEF Next, TurnStep

\* Before the model is asked again, every call that has an id is answered by a tool message,
\* but for those behind a kod_iste or a gorev_bitti and that of a critic that crashed.
THEOREM CallsAreClosed == Spec => NoCallLeftOpen
<1>1. Init => OpenInv
  BY DEF Init, OpenInv, NoReply
<1>2. OpenInv /\ [Next]_vars
        => [(\E r \in Replies : AskModel(r)) /\ reply.ids =>
               \/ open \subseteq Ignored(reply.calls)
               \/ verdict = "crashed" /\ 1 \in Dones(reply.calls)]_vars
  BY DEF OpenInv, AskModel, Step
<1> QED
  BY <1>1, <1>2, OpenStep, GuardInvariant, PTL DEF Spec, NoCallLeftOpen

-----------------------------------------------------------------------------
(* A turn ends *)

\* The most steps a turn may still take: those of the graph, and the one that ends the turn.
Fuel == IF node = "idle" THEN 0 ELSE (StepLimit - steps) + 1

\* Nothing a model says, refuses or repeats is free: each step of a turn costs one of the steps
\* of its limit, so a turn is over after StepLimit + 1 steps, whatever its routers do.
THEOREM TurnsAreBounded ==
    Spec => [][TurnStep => Fuel' < Fuel /\ Fuel \in 1..(StepLimit + 1)]_vars
<1>1. TypeOK => Fuel \in 0..(StepLimit + 1) /\ (node # "idle" => Fuel > 0)
  BY ConstantsAssumption DEF TypeOK, Fuel
<1>2. ASSUME TypeOK, TurnStep PROVE Fuel' < Fuel
  <2>1. steps \in 0..StepLimit /\ StepLimit \in Nat
    BY <1>2, ConstantsAssumption DEF TypeOK
  <2>2. ASSUME NEW from, NEW to, Step(from, to), from # "idle" PROVE Fuel' < Fuel
    BY <2>1, <2>2 DEF Step, Fuel
  <2>3. CASE GraphFails \/ Deliver \/ Recover \/ AnswerRaises
    BY <2>1, <2>3 DEF GraphFails, Deliver, Recover, AnswerRaises, EndTurn, Fuel
  <2>4. ASSUME NEW r \in Replies, AskModel(r) PROVE Fuel' < Fuel
    BY <2>2, <2>4 DEF AskModel
  <2>5. CASE RunTools \/ CoderRefuses \/ CoderWrites \/ CoderCrashes
    BY <2>2, <2>5 DEF RunTools, CoderRefuses, CoderWrites, CoderCrashes, CoderAnswers
  <2>6. CASE CriticApproves \/ CriticCrashes \/ CriticSendsBack \/ CriticGivesUp
    BY <2>2, <2>6 DEF CriticApproves, CriticCrashes, CriticSendsBack, CriticGivesUp, CriticStep
  <2> QED
    BY <1>2, <2>3, <2>4, <2>5, <2>6 DEF TurnStep
<1>3. TypeOK /\ [Next]_vars => [TurnStep => Fuel' < Fuel /\ Fuel \in 1..(StepLimit + 1)]_vars
  <2>1. TurnStep => node # "idle"
    BY DEF TurnStep, GraphFails, Deliver, Recover, AnswerRaises, AskModel, RunTools, CoderRefuses, CoderWrites,
           CoderCrashes, CoderAnswers, CriticApproves, CriticCrashes, CriticSendsBack,
           CriticGivesUp, CriticStep, Step
  <2> QED
    BY <1>1, <1>2, <2>1, ConstantsAssumption
<1> QED
  BY <1>1, <1>3, TypeCorrect, PTL DEF Spec
=============================================================================
