-------------------------- MODULE LibrarianMemory --------------------------
(***************************************************************************)
(* The long-term memory: rows of chat and tool logs (EpisodicDB), the      *)
(* librarian thread that turns them into facts (LibrarianAgent), the       *)
(* vector store that holds the facts (Bellek), the scheduler's pruning     *)
(* task and the tool save_note, which write to the same store.             *)
(*                                                                         *)
(* One action per call on the database or on the store.  The model's reply *)
(* is any list of operations.  A similarity lookup finds any stored fact,  *)
(* or misses: the embedding server failed, the nearest fact is too far, or *)
(* it is filed under another project.                                      *)
(***************************************************************************)
EXTENDS Naturals, Sequences, FiniteSets

CONSTANTS
    Messages,   \* rows of sohbet_gecmisi
    Logs,       \* rows of arac_gunlukleri
    Facts,      \* texts a fact can have; the store's key is a hash of the text
    Nothing,    \* no fact
    MaxOps,     \* the most operations in a reply
    MaxCount    \* bound: confirmation_count is counted up to here

Rows == Messages \cup Logs

ASSUME ConstantsAssumption ==
    /\ Messages \cap Logs = {} /\ IsFiniteSet(Rows)
    /\ Nothing \notin Facts
    /\ MaxOps \in Nat /\ MaxCount \in Nat /\ MaxCount > 0

VARIABLES
    arrived, analyzed,     \* the rows written; those with is_analyzed = 1
    memory,                \* the vector store
    pc, batch, ops, k,     \* the librarian's cycle: its rows, the reply, the operation in hand
    victim, draft,         \* the fact about to be deleted, the one about to be written
    prunePc, snapshot, doomed, faded,   \* bellek_budamasi_yap: what it read and decided
    read,                  \* history: rows shown to a model that answered
    evidence,              \* history: the operations that confirmed each fact
    halfway                \* history: a cycle stopped after it had begun to apply its reply

cycleVars == <<pc, batch, ops, k, victim, draft>>
pruneVars == <<prunePc, snapshot, doomed, faded>>
vars == <<arrived, analyzed, memory, cycleVars, pruneVars, read, evidence, halfway>>

\* A fact is absent, kept with a confirmation_count and an age, or bare: written by
\* save_note, which gives no metadata.  "old": created more than a day ago.
Entries == [kind: {"absent", "bare", "kept"}, count: 0..MaxCount, old: BOOLEAN]
Absent == [kind |-> "absent", count |-> 0, old |-> FALSE]
Bare   == [kind |-> "bare", count |-> 0, old |-> FALSE]
Kept(n, o) == [kind |-> "kept", count |-> n, old |-> o]
Stored == {f \in Facts : memory[f].kind # "absent"}

\* firm: the confidence is at least 0.8, or the operation says override.
Operations == [act: {"save", "update"}, fact: Facts, firm: BOOLEAN]
RepliesOfLength(n) == [1..n -> Operations]
Op == ops[k]

Evidence == (SUBSET Rows) \X (1..MaxOps)
NoDraft == [fact |-> Nothing, entry |-> Absent]

Init ==
    /\ arrived = {} /\ analyzed = {}
    /\ memory = [f \in Facts |-> Absent]
    /\ pc = "sleep" /\ batch = {} /\ ops = <<>> /\ k = 1 /\ victim = Nothing /\ draft = NoDraft
    /\ prunePc = "idle" /\ snapshot = memory /\ doomed = {} /\ faded = {}
    /\ read = {} /\ evidence = [f \in Facts |-> {}]
    /\ halfway = FALSE

-----------------------------------------------------------------------------
(* The other threads: rows arrive, notes are saved, days pass *)

\* mesaj_kaydet, arac_log_kaydet
RowArrives(r) ==
    /\ r \notin arrived
    /\ arrived' = arrived \cup {r}
    /\ UNCHANGED <<analyzed, memory, cycleVars, pruneVars, read, evidence, halfway>>

\* Variant: a note starts from an empty metadata record.
SaveNoteAnew(f) ==
    /\ memory[f] # Bare
    /\ memory' = [memory EXCEPT ![f] = [kind |-> "bare", count |-> @.count, old |-> FALSE]]
    /\ UNCHANGED <<arrived, analyzed, cycleVars, pruneVars, read, evidence, halfway>>

\* save_note writes without metadata: a fact that is there keeps its own.
SaveNote(f) ==
    /\ memory[f].kind = "absent"
    /\ memory' = [memory EXCEPT ![f] = Bare]
    /\ UNCHANGED <<arrived, analyzed, cycleVars, pruneVars, read, evidence, halfway>>

Aged(e) == IF e.kind = "kept" THEN Kept(e.count, TRUE) ELSE e

\* created_at is written once, so a fact on its way into the store ages with the others.
DayPasses ==
    /\ memory' = [f \in Facts |-> Aged(memory[f])]
    /\ draft' = [draft EXCEPT !.entry = Aged(@)]
    /\ UNCHANGED <<arrived, analyzed, pc, batch, ops, k, victim, pruneVars, read, evidence,
                   halfway>>

-----------------------------------------------------------------------------
(* _analiz_et *)

Fetch ==
    /\ pc = "sleep"
    /\ arrived \ analyzed # {}
    /\ batch' = arrived \ analyzed
    /\ pc' = "ask"
    /\ UNCHANGED <<arrived, analyzed, memory, ops, k, victim, draft, pruneVars, read, evidence,
                   halfway>>

\* The model answers with a list of operations, perhaps an empty one.
ModelReplies(reply) ==
    /\ pc = "ask"
    /\ ops' = reply
    /\ read' = read \cup batch
    /\ pc' = IF reply = <<>> THEN "markMessages" ELSE "op"
    /\ UNCHANGED <<arrived, analyzed, memory, batch, k, victim, draft, pruneVars, evidence,
                   halfway>>

Backed(f) == evidence' = [evidence EXCEPT ![f] = @ \cup {<<batch, k>>}]

\* A lookup of the operation in hand has led to a fact to write.
Prepare(f, entry) ==
    /\ draft' = [fact |-> f, entry |-> entry]
    /\ pc' = "write"
    /\ Backed(f)
    /\ UNCHANGED <<arrived, analyzed, memory, batch, ops, k, victim, pruneVars, read, halfway>>

\* save: a similar fact g is there, it is confirmed once more.
Confirm(g) ==
    /\ pc = "op" /\ Op.act = "save"
    /\ memory[g].kind = "kept"
    /\ LET n == memory[g].count
       IN  Prepare(g, Kept(IF n < MaxCount THEN n + 1 ELSE n, memory[g].old))

\* save: the lookup misses, the fact is new.
Discover ==
    /\ pc = "op" /\ Op.act = "save"
    /\ Prepare(Op.fact, Kept(1, FALSE))

\* update: nothing was found to replace.
Introduce ==
    /\ pc = "op" /\ Op.act = "update"
    /\ Prepare(Op.fact, Kept(1, FALSE))

Strong(g) == memory[g].count >= 3

\* The operation in hand is done.
Advance ==
    /\ k' = IF k = Len(ops) THEN 1 ELSE k + 1
    /\ pc' = IF k = Len(ops) THEN "markMessages" ELSE "op"
    /\ UNCHANGED <<arrived, analyzed, batch, ops, pruneVars, read, halfway>>

\* update: the fact found is well confirmed and the new claim weak.
Reject(g) ==
    /\ pc = "op" /\ Op.act = "update"
    /\ memory[g].kind = "kept" /\ Strong(g) /\ ~Op.firm
    /\ Advance
    /\ UNCHANGED <<memory, victim, draft, evidence>>

\* update: the fact found is to be replaced.
Replace(g) ==
    /\ pc = "op" /\ Op.act = "update"
    /\ memory[g].kind = "kept" /\ (Strong(g) => Op.firm)
    /\ victim' = g
    /\ pc' = "delete"
    /\ UNCHANGED <<arrived, analyzed, memory, batch, ops, k, draft, pruneVars, read, evidence,
                   halfway>>

\* bellekten_sil swallows its errors: the old fact may survive.
Delete ==
    /\ pc = "delete"
    /\ memory' \in {memory, [memory EXCEPT ![victim] = Absent]}
    /\ victim' = Nothing
    /\ draft' = [fact |-> Op.fact, entry |-> Kept(1, FALSE)]
    /\ pc' = "write"
    /\ Backed(Op.fact)
    /\ UNCHANGED <<arrived, analyzed, batch, ops, k, pruneVars, read, halfway>>

\* bellege_yaz: the fact is in the store ...
Write ==
    /\ pc = "write"
    /\ memory' = [memory EXCEPT ![draft.fact] = draft.entry]
    /\ draft' = NoDraft
    /\ Advance
    /\ UNCHANGED <<victim, evidence>>

\* ... or an error was swallowed (embedding server, store).
WriteFails ==
    /\ pc = "write"
    /\ draft' = NoDraft
    /\ Advance
    /\ UNCHANGED <<memory, victim, evidence>>

\* Variant: every unanalyzed row is marked, not only those of the batch.
MarkAllMessages ==
    /\ pc = "markMessages"
    /\ analyzed' = analyzed \cup (arrived \cap Messages)
    /\ pc' = "markLogs"
    /\ UNCHANGED <<arrived, memory, batch, ops, k, victim, draft, pruneVars, read, evidence,
                   halfway>>

\* _isaretle commits the messages and the logs one after the other.
MarkMessages ==
    /\ pc = "markMessages"
    /\ analyzed' = analyzed \cup (batch \cap Messages)
    /\ pc' = "markLogs"
    /\ UNCHANGED <<arrived, memory, batch, ops, k, victim, draft, pruneVars, read, evidence,
                   halfway>>

EndCycle ==
    /\ pc' = "sleep" /\ batch' = {} /\ ops' = <<>> /\ k' = 1
    /\ victim' = Nothing /\ draft' = NoDraft

\* Variant: _isaretle marks the messages only.
MarkLogsForgotten ==
    /\ pc = "markLogs"
    /\ EndCycle
    /\ UNCHANGED <<arrived, analyzed, memory, pruneVars, read, evidence, halfway>>

MarkLogs ==
    /\ pc = "markLogs"
    /\ analyzed' = analyzed \cup (batch \cap Logs)
    /\ EndCycle
    /\ UNCHANGED <<arrived, memory, pruneVars, read, evidence, halfway>>

\* Part of the reply is in the store, or about to be, and some rows are not marked.
Applying == ops # <<>> /\ (pc # "op" \/ k > 1)

Abandon ==
    /\ EndCycle
    /\ halfway' = (halfway \/ Applying)
    /\ UNCHANGED <<arrived, analyzed, memory, read, evidence>>

\* The call fails, the reply is not a JSON list of objects, the database is locked.
CycleFails ==
    /\ pc \in {"ask", "op", "markMessages", "markLogs"}
    /\ Abandon
    /\ UNCHANGED pruneVars

\* A lookup found a bare fact: its metadata is None, and None has no get.
BareFactFound(g) ==
    /\ pc = "op" /\ memory[g].kind = "bare"
    /\ Abandon
    /\ UNCHANGED pruneVars

\* Ghost is closed and started again: both threads are daemons.
Restart ==
    /\ pc # "sleep" \/ prunePc # "idle"
    /\ Abandon
    /\ prunePc' = "idle" /\ doomed' = {} /\ faded' = {}
    /\ snapshot' = [f \in Facts |-> Absent]

Fails == CycleFails \/ Restart \/ \E g \in Facts : BareFactFound(g)

Cycle ==
    \/ Fetch
    \/ \E n \in 0..MaxOps : \E reply \in RepliesOfLength(n) : ModelReplies(reply)
    \/ \E g \in Facts : Confirm(g) \/ Reject(g) \/ Replace(g) \/ BareFactFound(g)
    \/ Discover \/ Introduce
    \/ Delete \/ Write \/ WriteFails
    \/ MarkMessages \/ MarkLogs \/ CycleFails

-----------------------------------------------------------------------------
(* bellek_budamasi_yap: read everything, then delete, then write back *)

Old == {f \in Facts : memory[f].kind = "kept" /\ memory[f].old}

\* Every fact older than a day loses confidence; which ones fall below 0.3 is left open.
PruneRead(bad) ==
    /\ prunePc = "idle"
    /\ Old # {}
    /\ prunePc' = "delete"
    /\ doomed' = bad /\ faded' = Old \ bad
    /\ snapshot' = [f \in Facts |-> IF f \in Old \ bad THEN memory[f] ELSE Absent]
    /\ UNCHANGED <<arrived, analyzed, memory, cycleVars, read, evidence, halfway>>

PruneDelete ==
    /\ prunePc = "delete"
    /\ memory' = [f \in Facts |-> IF f \in doomed THEN Absent ELSE memory[f]]
    /\ prunePc' = "update"
    /\ UNCHANGED <<arrived, analyzed, cycleVars, snapshot, doomed, faded, read, evidence,
                   halfway>>

EndPruning ==
    /\ prunePc' = "idle" /\ doomed' = {} /\ faded' = {}
    /\ snapshot' = [f \in Facts |-> Absent]
    /\ UNCHANGED <<arrived, analyzed, cycleVars, read, evidence, halfway>>

\* The metadata that was read, with a lower confidence, is written back; an update of a
\* fact that has gone is ignored by the store.
PruneUpdate ==
    /\ prunePc = "update"
    /\ memory' = [f \in Facts |->
                     IF f \in faded \cap Stored THEN snapshot[f] ELSE memory[f]]
    /\ EndPruning

\* An error anywhere ends the pruning.
PruneFails ==
    /\ prunePc # "idle"
    /\ UNCHANGED memory
    /\ EndPruning

Prune ==
    \/ \E bad \in SUBSET Old : PruneRead(bad)
    \/ PruneDelete \/ PruneUpdate \/ PruneFails

Next ==
    \/ Cycle \/ Prune \/ Restart \/ DayPasses
    \/ \E r \in Rows : RowArrives(r)
    \/ \E f \in Facts : SaveNote(f)

Spec == Init /\ [][Next]_vars

\* The librarian's loop goes on for ever.
FairSpec == Spec /\ WF_vars(Cycle)

-----------------------------------------------------------------------------
(* Properties *)

\* The store holds well-formed facts, and the librarian and the pruning task work on facts
\* they have read.
TypeOK ==
    /\ arrived \subseteq Rows /\ analyzed \subseteq arrived /\ read \subseteq arrived
    /\ memory \in [Facts -> Entries]
    /\ \A f \in Facts : memory[f].kind = "kept" <=> memory[f].count > 0
    /\ pc \in {"sleep", "ask", "op", "delete", "write", "markMessages", "markLogs"}
    /\ batch \subseteq arrived
    /\ ops \in UNION {RepliesOfLength(n) : n \in 0..MaxOps}
    /\ pc \in {"op", "delete", "write"} => k \in DOMAIN ops
    /\ victim \in Facts \cup {Nothing} /\ (pc = "delete" => victim # Nothing)
    /\ draft \in [fact: Facts \cup {Nothing}, entry: Entries]
    /\ pc = "write" => draft.fact # Nothing /\ draft.entry.kind = "kept" /\ draft.entry.count > 0
    /\ prunePc \in {"idle", "delete", "update"}
    /\ snapshot \in [Facts -> Entries]
    /\ doomed \subseteq Facts /\ faded \subseteq Facts
    /\ \A f \in faded : snapshot[f].kind = "kept" /\ snapshot[f].count > 0
    /\ evidence \in [Facts -> SUBSET Evidence]
    /\ halfway \in BOOLEAN

\* No row is skipped: a row that arrives while the model is thinking, or is marked by one of
\* the two commits of _isaretle only, is not passed over; is_analyzed means that a model
\* that answered has been shown the row.
OnlyReadRowsMarked == analyzed \subseteq read

\* A fact is worth what confirmed it: while no cycle stopped half way, confirmation_count
\* never exceeds the number of distinct operations, over distinct batches of rows, that
\* named the fact, with the pruning task writing old metadata back at any time.
CountsAreBacked ==
    ~halfway => \A f \in Facts : memory[f].count <= Cardinality(evidence[f])

\* Every row is analyzed in the end, unless cycles keep failing.
Drained == []<><<Fails>>_vars \/ \A r \in Rows : r \in arrived ~> r \in analyzed
=============================================================================
