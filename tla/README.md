# Ghost Operator V2 in TLA+

Ghost Operator is a desktop and web assistant: a chat front end, a LangGraph
agent over several language models, a set of tools, and memories of several
kinds that background threads keep. The repository also carries the coding agent
it drives, prime-agent, in TypeScript under `src/prime_agent_temp/`. This directory
models the parts of both whose correctness depends on *orders of events*:
threads that share flags, loops driven by unreliable models, queues that several
owners touch, files that several processes claim. TLC checks the models on
small instances, TLAPS proves the main invariants for all instances.

Paths are relative to `src/`; those of prime-agent to
`src/prime_agent_temp/prime-agent-main/packages/`.

## 1. The system

### The assistant (Python)

| Component | State it keeps | Operations | Interacts through |
|---|---|---|---|
| Command centre, `handler/command_handler.py` | `su_an_mesgul`, `waiting_for_user`, `waiting_event`, `user_answer`, `aktif_plan` | `handle`, `_orchestrate_task`, `_tool_insana_sor`, `gorevi_sonlandir`, `run_startup` | called by socket loop, Tk, voice timer; calls the controller |
| Controller and graph, `ai/llm.py` | `_lock`, `mesaj_gecmisi`, the graph state of a turn | `__call__`, `tek_seferlik_gorev`, nodes supervisor, tools, coder, critic | model servers, `tool_runner`, `on_task_end` |
| Scheduler, `core/scheduler.py` | table `zamanlanmis_gorevler` | the loop, one thread per job | polls and sets `su_an_mesgul` |
| Telegram, greeting, `legacy/ui_v1/main.py` | - | a message is a turn, the greeting is a turn | the same flag, the same controller |
| EpisodicDB, `hafıza/episodic_db.py` | rows of chat and tool logs, `proje_durumu`, `proje_yol_haritasi` | save, fetch, mark analyzed, update the working state | SQLite, a connection per call |
| Librarian, `ai/librarian_agent.py` | none but its thread | `_analiz_et` every 30 s | EpisodicDB, a model, Bellek |
| Bellek, `hafıza/rag_hafıza.py` | the vector store: texts with `confidence`, `confirmation_count`, `created_at` | write, look up, delete, prune | librarian, `save_note`, the scheduler's pruning task |
| File writing, `_tool_write_file` | pending diffs | ask for approval, wait 120 s, write | web socket, local bridge |
| Project code memory, `hafıza/symbol_graph.py`, `proje_kod_bellek.py` | tables symbols, calls, file_hashes; a vector per symbol | index a file or a project, context for a prompt | coder node, the files on disk |
| Harness and project memory, `hafıza/harness_state.py`, `project_memory.py` | JSON files | load, upsert, delete, save | critic, coder, tools |
| Skill worker and sandbox, `core/` | a worker process | run a skill, restart | HTTP, 60 s on both sides |
| Web server, `server.py`, `sessions/` | connections, the session in use | socket loop, REST | everything above |
| Voice, `handler/voice_handler.py` | `is_listening` | start, loop, deliver | calls `handle` from a timer thread |

### The coding agent (TypeScript)

| Component | State it keeps | Operations | Interacts through |
|---|---|---|---|
| Agent and loop, `agent/src/agent.ts`, `agent-loop.ts` | transcript, steering and follow-up queues, the active run and its abort signal | prompt, continue, steer, followUp, abort; the turns of a run, tool batches | a model stream, tools, hooks, awaited listeners |
| Session input, `coding-agent/src/core/session-action-store.ts`, the pump in `agent-session.ts` | actions in two lanes with a lifecycle; the pump's request flag, epoch and suspension; pauses | submit, steer, clear, remove, abort, resume, navigate, prepare an update restart; the pump and the retry timer | calls the Agent, hears its events; called by every user interface and by the daemon |
| Leases, `core/session-lease.ts`, `agent-session-runtime.ts` | a directory with `owner.json` per transcript, a guard file; the runtime's session and lease | acquire, reclaim, release; open, switch, fork, dispose | the file system, other worker processes |
| Cron jobs, `core/cron-jobs.ts` | a file of jobs with claims | claim, record, recover | the daemon's timer, sessions |
| Daemon, supervisor, workers, `modes/daemon/` | worker records, journals | start, hand over, stop, restart for an update | sockets, sessions |
| Session files, compaction, context tree | entries of a transcript | append, branch, compact | one writer, guarded by its lease |
| Kernel, tools, RLM runtime | a Python process, files | run code, edit | the loop's tool calls |
| Agent messages, goals, refinement, side questions | small files | become accepted inputs | session input |
| Models, authentication, settings, extensions, packages | configuration | load, refresh | everything |
| Interactive mode, agents view, RPC, ACP, terminal library | what is on screen, requests | show, forward | the session's operations and events |

What is hard in it:

- *Command centre.* Any number of threads want one brain. The busy flag is read
  and set in separate steps, insana_sor blocks a turn in the middle while it holds
  the lock, and any handler thread may answer. It must never run two turns at
  once, never keep a plan after its turn, never leave the busy flag up with nobody
  to lower it, and never take an old answer for a new one.
- *Graph.* The models may say anything: several calls at once, calls without
  ids, nothing. Any node may raise. It must end, run no call twice, send nothing
  unreviewed to the user, and call `on_task_end` once.
- *Memory.* A cycle of the librarian takes minutes and touches two stores
  without a transaction; a second thread rewrites one of them meanwhile; a crash
  may fall between any two calls. No row may be skipped, and no fact may be worth
  more than what confirmed it.
- *Project code memory.* A file is read twice while its owner edits it, a graph
  and a vector store are brought up to date one after the other, and an
  insertion that fails leaves its transaction open on a connection the next file
  uses. A hash must never stand for a file that is half indexed, and a question
  to the graph must find all of a symbol's neighbourhood.
- *Agent loop.* At every `await` the owner may queue, withdraw or abort, and the
  model, a tool, a hook or a listener may fail or never answer. What is queued
  must reach the transcript in order and once, each request must be a transcript
  in which every call is answered, and an abort must end the run whatever hangs.
- *Session input.* A pump that waits and checks again at many places, an epoch
  that makes it stale, and a dozen operations that suspend, pause, cancel or
  wake it. No input may be delivered twice or be left half way, a cancelled one
  must leave no trace, and nothing accepted may wait for ever for a pump that was
  not scheduled.
- *Leases.* Several processes, a guard that may be broken while its holder stands
  still, crashes between any two accesses, pids that are used again, and a runtime
  whose switches overlap. Two processes must never write one transcript, and a
  lease must not be left behind by a process that runs on.
- *The rest.* Files rewritten in place, read-modify-write of rows, timeouts that
  race late answers. `PROJECT.json` lists the hazards of the modelled parts line by
  line; section 5 names those of the others.

## 2. Modules

### CommandCenter (abstract: OneMind)

Threads are of two kinds. A **handler** runs `CommandHandler.handle`; a **task**
calls the controller: the worker of an accepted input, a job (scheduler task or
Telegram message), or the greeting of the desktop. Every action is one access
to a shared field, because CPython may switch threads between any two.

| TLA+ | Code |
|---|---|
| `busy`, `waiting`, `event`, `answer`, `plan` | `su_an_mesgul`, `waiting_for_user`, `waiting_event`, `user_answer`, `aktif_plan` |
| `lock` | `GhostController._lock` |
| `CheckWaiting` ... `Spawn`, `SwitchMode` | `handle`, from top to bottom |
| `BeginTask`, `EnrichFails`, `Finally` | `_orchestrate_task` |
| `JobDue`, `PollFree`, `ClaimBusy` | `_llm_gorevi_yurut`, `_telegram_mesaji_isle` |
| `Greet` | `run_startup` |
| `Acquire`, `FinishTurn`, `Release` | `with self._lock`, the graph's end, `on_task_end` |
| `ShowQuestion` ... `ReadReply` | `_tool_insana_sor`, statement by statement |

`answer.to`, `question`, `greeted`, `sent` and `leftover` are history: they say to which
question a reply was given, that the one turn without a `finally` clause asked one, and
that the plan in force was left by a turn whose answer raised. That is `AnswerRaises`: the
loop that reads the summaries (llm.py:829-838) is inside no `try`, and a `gorev_bitti` whose
arguments the guardrail left as a JSON string makes it raise, so `on_task_end` is skipped.

`OneMind` is what all of this promises: one task is served at a time, from
beginning to end; a question is closed before the turn thinks on; a plan ends
with its turn, unless the turn breaks off (`BreakOff`): then it is left over until a later
turn ends or plans. `CommandCenter` implements it under the mapping at the end of the
module (a task is *served* once it is past its turn; the mind is the task inside
the graph; between the handler lowering the flag and the turn reading the
reply, the mind has *heard*).

### AgentGraph

One turn: `_raw_supervisor_call` and the graph inside it. A turn runs in one
thread under the controller's lock, so one node is one step. Nondeterminism is in
what the models reply (`Replies`: any batch of calls, with or without ids), in
the critic's verdict, and in failures: `GraphFails` may strike at every node.

| TLA+ | Code |
|---|---|
| `tried`, `written`, `retry`, `reply` | `calisan_araclar`, `yazilan_dosyalar`, `critic_retry_count`, `tool_calls` of GhostState |
| `steps`, `StepLimit` | LangGraph's `recursion_limit` (100) |
| `AskModel`, `RunTools`, `Coder*`, `Critic*` | `supervisor_node`, `tools_node`, `coder_node`, `critic_node`; one action per way out of the node |
| `Route`, `AfterSilence` | `yonlendirici`, `critic_yonlendirici` |
| `StartTurn`, `Deliver`, `Recover`, `AnswerRaises`, `GraphFails`, `EndTurn` | `_raw_supervisor_call` |

A text is reduced to what the routers look at: empty, plain, or carrying the
critic's warning mark. `Replies` is everything the guardrail adapter can return. The
summary of a `gorev_bitti` is some text, nothing, or "loose": arguments that are a
string, which raise in the critic when the call is at the head of its batch and in the answer
loop when it is behind another call (`poisoned`). An answer that comes from a call
behind another one is "hidden": the router looks at the head only, so the critic never sees it.

### LibrarianMemory

The rows, the librarian's cycle, the store, pruning and notes; one action per
call on a database. A similarity lookup is a choice: it may find any fact
(`Confirm(g)`, `Replace(g)`) or miss (`Discover`, `Introduce`), because the embedding
server may fail, the threshold may not be met, or the fact may be filed under
another project. A reply is any list of operations up to `MaxOps`.

| TLA+ | Code |
|---|---|
| `Fetch`, `ModelReplies`, `Confirm` ... `Replace` | `_analiz_et` |
| `Delete`, `Write`, `WriteFails` | `bellekten_sil`, `bellege_yaz` (both swallow errors) |
| `MarkMessages`, `MarkLogs` | the two commits of `_isaretle` |
| `CycleFails`, `BareFactFound`, `Restart` | the except clauses, metadata that is `None`, a process that ends |
| `PruneRead`, `PruneDelete`, `PruneUpdate`, `PruneFails` | `bellek_budamasi_yap` |
| `SaveNote` | `_tool_save_note` |

Which old facts have decayed below 0.3 is left open: `PruneRead` takes any subset.

### CodeIndex

`ProjeKodBellek` and the `SymbolGraph` inside it. Files have no state of their own in the
model: each of the two reads of an indexing takes any content, because the owner
edits at any time. A file has several spellings of its path: the graph resolves
it (`FileOf`), the vector store takes it as given. `db` is what the one SQLite connection sees, `saved` what is
committed; a failed statement leaves `db` changed and `saved` not, and the next commit,
of whatever file, takes the remains along.

| TLA+ | Code |
|---|---|
| `Open`, `Clear`, `Insert` | `index_file` up to the hash check, to the commit of `_clear_file`, to its own commit |
| `ClearFails`, `InsertFails`, `CommitFails` | an exception of sqlite3 at any statement, caught in `dosyayi_indexle`; `ClearFails` may stop between the symbols and the hash (`Torn`) |
| `Embed`, `EmbedUncleared`, `EmbedNothing` | the rest of `dosyayi_indexle`; each symbol may fail to embed, the deletion may fail silently, the file may not parse. `index_project`, which does not embed, ends in `EmbedNothing` too |
| `Ask`, `Expand`, `Answer` | `sembol_ara`, then the loop of `get_context`, one turn of it per step; SQLite's order of rows is left open |
| `Crash` | the process ends: `db` falls back to `saved` |

A symbol is its file, place, name and the names it calls; a version of a file is a set of
symbols. A caller whose symbol is gone is queued by the code under its id, which names
nothing; the model leaves it out of the queue.

### AgentLoop

`Agent` with its two queues, and `runLoop` below it, which has one step between any two
awaits. Messages are numbered in the order of their submission; a reply is its number,
its number of calls and how it stopped; a tool result is the call it answers.

| TLA+ | Code |
|---|---|
| `steering`, `followUp`, `via` | the two `PendingMessageQueue`s, their batches one after the other; `via[m].first` is the first message of m's batch, so it names the batch |
| `context`, `transcript` | the loop's `currentContext.messages` and the agent's `_state.messages` |
| `pending`, `more`, `first`, `skip` | `pendingMessages`, `hasMoreToolCalls`, `firstTurn`, `skipInitialSteeringPoll` |
| `Prompt`, `Continue*`, `Steer`, `FollowUp`, `Withdraw`, `Abort` | the operations of `Agent`; `Withdraw` is `removeWhere` |
| `Start` ... `Continuing`, `AgentEnd` | `runAgentLoop`, `runLoop` |
| `Ask`, `StreamStarts`, `ReplyDone`, `ReplyFails`, `AskThrows` | `streamAssistantResponse` |
| `Execute`, `ExecuteAll`, `Prepare`, `Run`, `Tool*`, `Joined`, `Report`, `Gather` | `executeToolCallsSequential`, `executeToolCallsParallel` and what they call |
| `Heard`, `ListenerFails`, `HandleRunFailure`, `FinishRun` | `processEvents` and the end of `runWithLifecycle` |

A drain takes the first batch or the whole queue (`Drains`): the modes may be set at any time.
Hooks may decide anything. Left out: streaming updates and what is kept for
display, `reset` and the `clear*` calls, roles added by an application, and a tool
call that goes on after its run has ended; a `shouldStop` or `getContinuationMessages` hook that throws
(agent-loop.ts:385-401, 416, 439-445), on which no property depends. `message_start` and `message_end` of one
message are one step.

### SessionPump

The scheduler of an `AgentSession`'s input. Every submission becomes an action of one of
two lanes; a pump is a promise chained behind the one before it, and carries the epoch of
its request.

| TLA+ | Code |
|---|---|
| `actions`, `state`, `lanes` | `SessionActionStore`: the actions, their lifecycle, the lanes |
| `requested`, `chain`, `epoch`, `suspended` | `_sessionInputPumpRequested`, the promise chain, `_sessionInputPumpEpoch`, `_sessionInputPumpSuspended` |
| `nav`, `restart` | the owners of `_queuedWorkPauses`: navigation of the session tree, preparation of an update restart |
| `Queue`, `Prompt`, `Command`, `PromptHandled` | `_admitSessionInput` and the ways into it |
| `Begin` ... `Select`, `Prepare*`, `HandoffDeferred`, `Dispatch`, `Settle*` | `_pumpSessionInputs`, `_prepareForCommit`, `_commit...`, one action per stretch between awaits |
| `Command*` | `_executeSelectedSessionCommand` |
| `Deliver`, `RunEnds*`, `Retry*`, `ContinueRun` | the agent's events as the session processes them, the auto-retry timer; `RetryThrows` is a `continue` that finds nothing to continue |
| `ClearQueue`, `RemoveTurn`, `RequestAbort`, `AbortRetry`, `AbortForUpdateRestart`, `Resume`, `Navigate*`, `PrepareRestart`, `Checkpoint`, `CancelRestart` | the owner's operations of the same names |

A batch is any run of turns at the head of a lane, because the mode may change; a wake
is `immediate` or `later`. Left out: texts, the context records that travel with a turn, refinement (one more
reason to wait), the commit fence, moving, swapping and editing what is queued, goal contexts
put in front of a lane, coalescing by `queueKey`, and what compaction does. The turns that also
await the end of the retries are not told from those that do not. `moved` remembers that the
leaf was moved beside a run or beside a retry that is due, so that the retry's `continue` may find
a branch that ends with a reply and throw. Of the daemon only the two calls
of an update restart appear.

### SessionLease (abstract: Leases)

`session-lease.ts` access by access, and the runtime that uses it. `acquireSessionLease`
and `release` are synchronous, so a process is in one call at most (`call`), but other
processes work between its accesses to the file system. The runtime awaits between
acquiring, tearing down, building and applying, and in its disposal: another switch may do
any of its steps there.

| TLA+ | Code |
|---|---|
| `guard`, `expired` | the lock file of proper-lockfile, stale after 5 s; taking over a stale one is one step |
| `owner` | `owner.json`: `Free` without a directory, `Bare` with an empty one |
| `made`, `released` | the `SessionLease` objects, their `released` field |
| `AcquireEnters`, `Rename`, `RenameFails`, `Reclaim`, `AcquireReturns`, `AcquireGivesUp` | `acquireSessionLease`, `reclaimStaleLease`, `isLeaseOwnerAlive` |
| `ReleaseEnters`, `RemoveOwner`, `RemoveDirectory`, `ReleaseReturns`, `ReleaseGivesUp` | `SessionLease.release` |
| `Open*`, `Switch*`, `TearDown`, `Build`, `Dispose*` | `AgentSessionRuntime`: creation, the replacement of a session, disposal |
| `End`, `Start`, `GuardExpires` | a process ends, its pid is used again, 5 s pass |

`orphans` are the sessions that `apply` replaced while they were open: another switch had
applied them since this one's teardown. Disposal is two steps, `Dispose` (the session the runtime
has then, agent-session-runtime.ts:728) and `Disposed` (the lease it has by then, 742); what a session
still writes while it is being disposed is left out. `overtaken`, `gaveUp`, `adopted` are history: the guard of a running process was
broken; the release of a lease did not get the guard; a lease already released became a
runtime's lease. Paths are canonical already; a worker has one runtime; subagents are left
out, and so are an `owner.json` that exists and cannot be read and a process that cannot read its
own start id.

`Leases` is the promise: a path has one holder, whoever uses a path holds it, and
a lease is taken away only from a process that is gone. A pid in one of its lives is
a process of `Leases`; `owner.json` is the holder; a lease in hand and not released
is a use. Once the guard of a running process was broken the promise is void:
proper-lockfile does not tell the process it was overtaken before its next access.

## 3. Runs

| Run | Instance | Shows |
|---|---|---|
| `command_desk` | 3 messages, 2 jobs, 1 greeting, 1 handler, 2 questions | TypeOK, mutual exclusion, busy flag, waiting flag, answers, and the refinement of OneMind, which contains that a plan stays in a turn that ends properly |
| `command_web` | 3 messages, 1 job, 2 handlers, 2 questions | everybody is served |
| `graph_batches` | up to 2 calls per reply, 6 graph steps, 2 turns | types, nothing runs twice, summaries reviewed, calls closed, and termination |
| `memory_cycle` | 1 chat row, 1 log row, 1 fact, replies of up to 2 operations, counts up to 3 | types, no row skipped, counts backed, every row is analyzed |
| `code_index` | 2 files, one of them under 2 paths, 2 versions, 1 project and no project, 2 indexings, depth 1, 3 nodes | types, hashes are sound, vectors of one version, the context is the neighbourhood |
| `agent_loop` | 2 messages, 1 reply with up to 2 calls, 2 runs, 1 failing listener | types, the order of messages, complete requests, what an abort may drop, an abort settles |
| `session_pump` | 2 inputs, 1 interruption, 1 extra run, 1 shell command, 1 failure | types, one delivery, nothing half way, the restart's checkpoint, navigation, every input served |
| `session_lease` | 2 processes, 2 transcripts, 2 switches, which may overlap, 3 leases, 1 crash or stall | types, leases on disk, one writer, nothing left behind, and the refinement of Leases |

Why these bounds are enough for the cases that matter: three messages give a
worker that asks, an answer, and a bystander; two questions let an answer to
the first meet the second; two jobs race for the flag. Two calls per reply put each kind
of call at the head and behind it. Six graph steps hold three rounds of supervisor and critic,
in the last of which the critic gives up, or a call, its repetition and a round with the
critic; a second turn can see what the first left behind. Two operations
let a cycle fail half way; a count of 3 makes a fact *strong*, and one fact suffices
because facts do not touch one another. Two indexings of two files, each reading
any of four contents twice and failing at any place, give a transaction left open
by one and committed by the other, and a symbol that keeps its id while its
calls change; with three nodes at most the traversal is sometimes cut off and
sometimes complete, and a question starts from one symbol (`MaxRoots`). Two messages
and two runs let a message be queued in one run and continued in the next; two calls
give a batch that stops in the middle. Two inputs give one in the pump's hands and
one behind it, and the one interruption may fall at every place of the pump. Three
leases and two switches let a switch, a switch back and another process meet: without its exceptions
`OneWriter` is violated within these bounds, by a session that an overlapping switch replaced and by one
applied during the disposal. Symmetry is
used in `command_desk`, `session_lease` and `lease_reused` only, where no liveness is checked. `CHECK_DEADLOCK FALSE` in
every run: when the inputs of the instance are used up, the system rightly has
nothing left to do.

Fairness. `command_web` assumes that every thread that can run does run
(`WF` of each handler's and each task's steps); it does not assume that anybody sends a
message or that a turn asks a question. A lock under contention needs no more,
because each task takes it once. A turn that waits for the user is served only if
somebody answers, so `Served` is conditional on no turn sleeping in insana_sor for
ever, and on no greeting having left the flag up. `graph_batches` assumes that a
turn in progress goes on (one thread; the model calls, the coder and the critic have
timeouts) except while a tool is at work: insana_sor waits for the user without one, so
`TurnEnds` is about turns that no tool keeps waiting for ever;
`memory_cycle` that the librarian's loop goes on, and its property excepts
behaviours in which cycles keep failing: that is the case a bare note found by
every lookup produces, so the exception is real. `agent_loop` assumes that the loop's own
steps and its listeners go on, and nothing of the model, the tools and the hooks:
`AbortSettles` says that an abort does not need them. `session_pump` assumes that promises
settle: the pump, the agent's runs, shell commands and navigations; it assumes nothing
of the owner, so `Served` excepts a scheduler that is held. It also excepts a retry that
is stuck: a navigation during the sleep of a retry can leave a branch that ends with a reply,
then `agent.continue()` throws, agent-session.ts:10379 swallows the error, nobody resolves the retry's promise,
and the session counts as retrying until somebody aborts the retry. Without that exception TLC
finds this behaviour at once.

The history variable `missed` bounds what `Served` claims: when an interruption or a
stray retry came at a moment in which the pump that gives up is not followed by
another one, the input waits for the next event that schedules a pump.
`session_stranded` shows one such case that the documentation rules out.

### What the code does against its own words

Each of these runs finds a counterexample to a sentence of the repository.

| Run | The sentence | What happens |
|---|---|---|
| `command_lost_wakeup` | command_handler.py:138, blocked "until the Event is triggered" | the flag goes up before the event is cleared: an answer in between is wiped out and the turn sleeps on, holding the lock |
| `code_stale_calls` | symbol_graph.py:236, "clear the old symbols and call relations" | `_clear_file` deletes the symbols, then looks for their ids: the calls of the old version stay for ever |
| `session_stranded` | docs/usage.md:71, "Queued messages are kept and resume after your next submit or edit" | a submission that an extension handles lifts the suspension (agent-session.ts:4669) and schedules no pump; the one that waits is stale and stops |
| `lease_reused` | docs/daemon.md:59, "Every persisted session is protected by a process-safe lease" | a switch back reuses the current lease object (agent-session-runtime.ts:244), an overlapping switch or the disposal releases it, and the session opens without a lease |

Others met while modelling, without a run of their own; where a property would say otherwise it
names the exception. *Turns.* A `gorev_bitti` behind another call of its batch is delivered without the critic
(llm.py:588, 835), and a summary the critic rejected reaches the user when the model then falls silent, or after the
third rejection (683), although README.md:10 says completion is not trusted blindly;
command_handler.py:379 says that `gorev_bitti` never passes `_execute_tool_call`, which it does behind another
tool of a batch; command_handler.py:446-456 and llm.py:337-341 say that every turn ends in `on_task_end`,
which a raise at llm.py:835 skips, so that the plan leaks into the next turn after all; the critic that "gives up and asks the user" (llm.py:676) writes a
tool message which the answer loop skips (683); the rescue prompt does not carry the turn's
messages that llm.py:849 says are included (850). *Memory.* A confirmation made during the pruning
is overwritten by older metadata (rag_hafıza.py:151, 198). *Code index.* The hash is to protect against a stale index
(symbol_graph.py:216), but a failure at 401 leaves it without symbols, the next file commits that, and the file is
skipped from then on; proje_kod_bellek.py:57 clears "this file's old symbols", but by the path as it was given (69, 105), so
another spelling keeps vectors of another version. *Coding agent.* agent-session.ts:10380 says that a failed retry is caught by the
next `agent_end`, which does not come (see Fairness); docs/daemon.md:66 says that two processes never write one transcript,
which a session replaced without disposal (agent-session-runtime.ts:235-241, 281) or applied during the
disposal (728-742) may do; `agent_end` is not the last
event of a run that fails beside a parallel tool call (agent.ts:240, agent-loop.ts:735).

`CountsAreBacked` says "unless a cycle stopped half way" for a reason: such a cycle is
repeated with the same rows, and confirms the same facts again.

## 4. Proofs

`CommandCenterProofs`, `AgentGraphProofs`, `LibrarianMemoryProofs`, `CodeIndexProofs`, `AgentLoopProofs`,
`LeasesProofs`, `SessionLeaseProofs` and `SessionPumpProofs` hold theorems about the very
modules TLC runs, for every value of the constants; the assumptions are the
named ASSUMEs of the modules: the kinds of tasks are disjoint, bounds are naturals, `Nobody` is
nobody, each path is one of a file, and a version of a file defines finitely many symbols, each of which calls finitely many
names. Every safety property of the passing runs is a theorem, and for three of the five liveness
properties the half that does not depend on fairness is one too.

*CommandCenter.* The invariants are proved in the order in which they lean
on each other: `TypeCorrect`; `MutualExclusion`, from "whoever is inside holds the
lock"; `PlanConfined` and `BusyReleased` on top of it. `FlagOwned` and `AnswersMatch`
additionally assume `OneHandler`, which the web server does not grant when the
voice timer is on: there a second `handle` may still be about to lower the flag
and set the event when the next question goes up. Their inductive invariant says, for
each place of the single handler, what the asking turn must be doing and which
question the stored answer belongs to. It is needed because neither the flag nor the
event alone tells an old answer from a new one. That the plan stays in its turn is
a theorem only, `PlanConfined`, which excepts a plan left over by a turn whose answer raised; the run has it
as part of `ImplementsOneMind`.
`CommandCenterImplementsOneMind` uses all of it: `MutualExclusion` makes the `CHOOSE` of the
refinement mapping no choice (`MindInv`); acquiring the lock is a `Begin`, a failed enrichment an
`Abandon`, lowering the flag a `Hear`, which needs `DialogueInv` to know that somebody asks;
reading the reply is a `ThinkOn`, which needs it to know that the flag is down.

*AgentGraph.* All of it is for batches of any length. `GuardInv` (an executed signature is in `tried`, and was
executed once) gives `NothingRunsTwice`; `RetryInv`
(`warnings` counts what `retry` counts) gives `CorrectionsAreBounded`; `FrameInv` gives
`OneEndPerTurn`: `on_task_end` is called once in every turn but those whose answer raised. `ReviewInv` (the
summary of a call at the head of its batch is at the critic, or has been) gives `SummariesReviewed`, and `OpenInv`
(which calls of the last reply may still be open, at each node) gives `CallsAreClosed`. Both state where the
program stops short: a summary behind another call is not reviewed, and the calls behind a `kod_iste` or
a `gorev_bitti` are answered by nobody.
`TurnsAreBounded` has a rank, `Fuel`: every step of a turn, failing ones included, costs one of the
`StepLimit + 1` steps it has.

*LibrarianMemory.* `ReadInv` (the rows of the batch were shown to the model once it has
answered) gives `ReadBeforeMarked`. `CountsBacked` needs more: the pruning task may
write an old count back, so the snapshot is bounded by the evidence too; the fact
about to be written is bounded; and an operation must not have been counted
before, which holds because evidence names either rows that are marked or an
operation the current cycle has passed. `FiniteInv` lets cardinalities be compared.
`CyclesEnd` has the rank `StepsLeft`, the operations still
to be carried out and the steps behind them, and says that the last commit of a cycle leaves
nothing of the batch unanalyzed.

*CodeIndex.* `HashMeansIndexed` (for both `db` and `saved`, a file with a hash has exactly
the symbols of that version and at least its calls, or none where a deletion stopped before the hash) is inductive only with `WorkInv`:
between `Clear` and the end of the insertion the file under way has no hash and no
symbols. A commit then makes it complete, and the remains of an abandoned
insertion belong to a file without a hash. `TablesInv` says that the tables are
records with a hash or none for every file. `OneVersionEach` (it assumes that some version exists) is
inductive by itself, since only the end of an indexing touches the vector store. `TypeCorrect` adds
`QueryInv`: outside a question nothing has been found. There may be infinitely many names, as there
are in Python; what makes the names reached in a step a list that can be queued is that the tables
are finite (`FiniteInv`), which rests on the assumption about versions.

`ContextIsComplete` is about the loop of `get_context` against its definition by levels, `Near`. `Near` is
a recursive function, and that such a function exists is itself an induction over data. Here it
can be avoided: the ends of the paths from the roots, of each length, solve the equation, so
`Near` does (`NearHasLevels`), and nothing else about it is used but `Levels`. `SearchInv` says there is a level k such
that the queue holds names of level k followed by names of level k + 1 (`Ahead`); every
name of level k is taken or queued, and whatever follows from a taken one too (`Behind`); the symbols
of a name are taken together (`Whole`). Taking a name keeps k; when the last name of level k has gone, k + 1
takes its place (`NextLevel`), which is where a visit on a long way could have hidden a symbol
that a shorter way needs: it cannot, because the queue is in the order of the levels. The
tables do not change during a question: the coder node asks first and indexes afterwards.

*AgentLoop.* The actions are put into kinds (`StepKinds`) by what they leave alone. `Types` strengthens
`TypeOK` by what each place of the loop has in hand: flags, queues, calls (`ToolTypes`: `at` counts
the calls that are prepared or reported), entries, and that messages are held only at the places
in `Carrying` (`InFlight`) and none by an idle agent (`AtRest`). `DropsAreAborts` needs no more: a step that does not
abort or fail records what it takes out of `pending`, or found it empty.
`RequestsComplete` is about a place in the middle of a turn and owes its truth to the whole turn before
it. `Story` says for each place how the loop's context and the agent's transcript differ (`Mirror`: by the
prompt, a partial reply, the results reported so far) and which calls are answered
(`Complete`: while tools are at work all but those of the last reply; after an abort
not even those, but then nothing is asked any more); `History`, that earlier runs' replies
have smaller numbers. `InOrder` is proved from `Order`, per queue: the numbers of its messages rise
along transcript, `pending` and queue. The lemmas about `Way` say how messages move on from one of
the three to the next, or drop out, without disturbing that; each action is an
instance of one of them. `AbortedRunsEnd` has a rank: `Height`, the place on the way down, and `Left`, the messages,
calls or results still to be handled there. Under a raised signal every step of `Loop` and of
`Others` lowers it, and the owner's operations leave it as it is.

*SessionPump.* The actions are first put into kinds by what they do (`StepKinds`): something
outside moves, something is cancelled, a pump lets go, a catch clause cleans up, an input
is admitted, or one of eleven steps of a kind of their own works on the batch. None of the properties is inductive, because
each is about one state and owes its truth to three actors. `OwnInv` ties the lanes to the
lifecycle: what has ended is released, except a cancelled turn whose messages are on their way. `BatchInv`
says for each place of the pump which states its batch may be in, and which messages the
run has told. `HalfInv` says that nothing else is half way, `MessageInv` which states
an input with a recorded message may be in. Together they are inductive and give
`TypeCorrect`, `NothingTwice` and `NothingHalfWay`: a rollback puts back only what has no message, and at the
settling of a run the untold part of a batch is there only after a failure.
`CheckpointStays` adds `CheckpointInv`, because delivery may turn a dispatched turn
into a running one but the pause keeps the pump from dispatching another; `NothingBesideNavigation`
needs no more than the guards of `Dispatch`, `CommandRuns` and `NavigateIdle`, which must agree.
The earliest of a set of inputs is a `CHOOSE`; that it exists comes from the well-foundedness of < on
the naturals.

*Leases.* `LeasesExclude`: users of a path hold it, and a path has one holder. Dying keeps
the holder and drops the uses, so a path is freed only when nobody uses it.

*SessionLease.* The invariants come in three layers. The first holds whatever happens:
types; what a call, a runtime or a switch has in hand is a lease that was made, of the right
path, in no other hand (`AcquireInv`, `ReleaseInv`, `HandInv`, `ApartInv`, which give
`TypeCorrect`); the dead have nothing (`DeadInv`); `owner.json` names a life that
began (`OwnerInv`); until a released lease is adopted, the lease a runtime has is not released (`AdoptInv`). The second holds until a
guard is broken: one process at most is behind a guard (`GuardInv`), so what it read
there is still true when it acts on it (`SeenInv`), so the directory of a
lease in hand is neither reclaimed nor removed (`DiskInv`); that gives `LeasesAreOnDisk`
and, because the lease of an open session is in hand unless it was adopted,
`OneWriterOnly`, which is about the session a runtime has: those it has forgotten (`orphans`, and one
applied during its disposal) may have a second writer. The third, `LeftInv`, says where every directory of a running
process is accounted for, and gives `NothingIsLeft`.

`FilesImplementLeases` uses all of them. `LifeInv` bounds the lives of a pid by the crashes, so
that the processes of `Leases` are a set of pairs fixed in advance; the theorem assumes
that `Nobody` is not such a pair. Then `Rename` is a `Take`, the return of the call a `Use`, the call
of `release` a `GiveUp`, reclaiming and the removal of `owner.json` a `Free`, and everything
between them a stutter; a step that breaks the guard of a running process voids the promise.

Only model-checked: the five liveness properties, `Served` (of `command_web` and of `session_pump`), `TurnEnds`, `Drained` and
`AbortSettles`. They need fairness, which speaks of ENABLED, and that is outside what the prover
handles. For the last three the theorems `TurnsAreBounded`, `CyclesEnd` and `AbortedRunsEnd` state the part
that is not about scheduling: there is no way to go on for ever. What TLC adds is
that none of the places on the way is stuck. The two `Served` have no such rank: other actors may
put more work in front of a waiting one. The four runs that expect a violation have no theorems.

## 5. Not modelled, and next

The models map about 4,000 of some 196,000 lines of implementation, nearly all of them
lines where an order of events is decided. The rest is mostly data (a generated table of
models alone has 21,900 lines), translation between formats, user interfaces, loading and
configuration, where there is no order of events to get wrong; what does have one and is still
missing is this:

- *Prime cron jobs* (`coding-agent/src/core/cron-jobs.ts`, the daemon's `runCronJob`): the
  claim of a due tick, its dispatch, the recovery of claims after a crash. Next in the plan.
- *Prime daemon, supervisor and workers*: process ownership, start, hand-over, journals. The
  leases and the update restart's effect on a session are modelled, the protocol is not.
- *Working state* (`episodic_db.py:189`): `durum_guncelle` reads a row, merges and writes
  it back; the key of a renamed project is migrated in two transactions
  (`command_handler.py:460`).
- *Diff approval* (`command_handler.py:1100`): a late answer meets the end of the 120 s wait.
- *Controller details* (`llm.py:433`, `571`): duplicates inside one batch, a failure after a
  file was written.
- *Sessions of the web server* (`server.py:161`): opening one replaces the history
  while a turn appends to it; a second handler that sets an event late (`command_handler.py:211`).
- *Skill worker* (`core/skill_worker.py:36`): both sides wait 60 s.
- *Harness state and project memory*: several objects over one JSON file.
- *Pure functions*: the guardrail adapter, `dosya_bul`, `proje_adi_bul`.

Vision, browser, WhatsApp, Spotify and keyboard tools, audio, `frontend/`, `legacy/ui_v1/`,
prime-agent's interactive mode, terminal library, exports, providers and command line are I/O or
layout. `FlightSim/`, `scratch/` and `forge_temp/` are not part of the program. Reads that
only enrich a prompt have no action.

Composition: cron jobs and the daemon extend SessionPump by one more owner of a session and
SessionLease by the supervisor that starts its processes; diff approval and the working state are
tools of a turn, so they extend the picture of CommandCenter (one turn at a time) and add the
threads that do not take the lock.
