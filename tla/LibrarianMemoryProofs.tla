----------------------- MODULE LibrarianMemoryProofs -----------------------
(***************************************************************************)
(* Theorems about LibrarianMemory, for any rows, any facts, replies of any *)
(* length and any bound on the counts.                                     *)
(***************************************************************************)
EXTENDS LibrarianMemory, FiniteSetTheorems, TLAPS

\* The rows in hand have been shown to the model once it has answered.
ReadInv ==
    /\ analyzed \subseteq read
    /\ pc \in {"op", "delete", "write", "markMessages", "markLogs"} => batch \subseteq read

-----------------------------------------------------------------------------
(* Only rows that a model has read are marked *)

LEMMA ReadStep == ReadInv /\ [Next]_vars => ReadInv'
<1> SUFFICES ASSUME ReadInv, [Next]_vars PROVE ReadInv'
  OBVIOUS
<1> USE DEF ReadInv
<1>1. CASE Fetch
  BY <1>1 DEF Fetch
<1>2. ASSUME NEW n \in 0..MaxOps, NEW reply \in RepliesOfLength(n), ModelReplies(reply)
      PROVE  ReadInv'
  BY <1>2 DEF ModelReplies
<1>3. ASSUME NEW g \in Facts, Confirm(g) \/ Reject(g) \/ Replace(g) PROVE ReadInv'
  BY <1>3 DEF Confirm, Reject, Replace, Prepare, Advance
<1>4. CASE Discover \/ Introduce
  BY <1>4 DEF Discover, Introduce, Prepare
<1>5. CASE Delete \/ Write \/ WriteFails
  BY <1>5 DEF Delete, Write, WriteFails, Advance
<1>6. CASE MarkMessages \/ MarkLogs
  BY <1>6 DEF MarkMessages, MarkLogs, EndCycle
<1>7. CASE Fails
  BY <1>7 DEF Fails, CycleFails, Restart, BareFactFound, Abandon, EndCycle
<1>8. ASSUME NEW bad \in SUBSET Old, PruneRead(bad) PROVE ReadInv'
  BY <1>8 DEF PruneRead, cycleVars
<1>9. CASE PruneDelete \/ PruneUpdate \/ PruneFails
  BY <1>9 DEF PruneDelete, PruneUpdate, PruneFails, EndPruning, cycleVars
<1>10. CASE DayPasses
  BY <1>10 DEF DayPasses
<1>11. ASSUME NEW r \in Rows, RowArrives(r) PROVE ReadInv'
  BY <1>11 DEF RowArrives, cycleVars
<1>12. ASSUME NEW f \in Facts, SaveNote(f) PROVE ReadInv'
  BY <1>12 DEF SaveNote, cycleVars
<1>13. CASE UNCHANGED vars
  BY <1>13 DEF vars, cycleVars
<1> QED
  BY <1>1, <1>2, <1>3, <1>4, <1>5, <1>6, <1>7, <1>8, <1>9, <1>10, <1>11, <1>12, <1>13
  DEF Next, Cycle, Prune, Fails

\* is_analyzed is set only on rows that a model that answered has been shown: nothing that
\* arrives during a cycle, and nothing of a cycle that failed, is passed over.
THEOREM ReadBeforeMarked == Spec => []OnlyReadRowsMarked
<1>1. Init => ReadInv
  BY DEF Init, ReadInv
<1>2. ReadInv => OnlyReadRowsMarked
  BY DEF ReadInv, OnlyReadRowsMarked
<1> QED
  BY <1>1, <1>2, ReadStep, PTL DEF Spec

-----------------------------------------------------------------------------
(* Types *)

Marking == {"markMessages", "markLogs"}
InHand == {"op", "delete", "write"}

\* The parts of the type invariant, and that a cycle begins with the first operation.
RowTypes ==
    /\ arrived \subseteq Rows /\ analyzed \subseteq arrived /\ read \subseteq arrived
    /\ batch \subseteq arrived
    /\ halfway \in BOOLEAN

WellKept(e) == e \in Entries /\ (e.kind = "kept" <=> e.count > 0)

StoreTypes ==
    /\ memory \in [Facts -> Entries]
    /\ \A f \in Facts : WellKept(memory[f])
    /\ draft \in [fact: Facts \cup {Nothing}, entry: Entries]
    /\ pc = "write" => draft.fact # Nothing /\ draft.entry.kind = "kept" /\ draft.entry.count > 0
    /\ victim \in Facts \cup {Nothing} /\ (pc = "delete" => victim # Nothing)

CycleTypes ==
    /\ pc \in {"sleep", "ask"} \cup InHand \cup Marking
    /\ ops \in UNION {RepliesOfLength(n) : n \in 0..MaxOps}
    /\ IF pc \in InHand THEN k \in DOMAIN ops ELSE k = 1

PruneTypes ==
    /\ prunePc \in {"idle", "delete", "update"}
    /\ snapshot \in [Facts -> Entries]
    /\ doomed \subseteq Facts /\ faded \subseteq Facts
    /\ \A f \in faded : snapshot[f].kind = "kept" /\ snapshot[f].count > 0

EvidenceTypes == evidence \in [Facts -> SUBSET Evidence]

TypeInv == RowTypes /\ StoreTypes /\ CycleTypes /\ PruneTypes /\ EvidenceTypes

\* A reply is a sequence of operations no longer than MaxOps.
LEMMA ReplyIsSequence ==
    ASSUME NEW o \in UNION {RepliesOfLength(n) : n \in 0..MaxOps}
    PROVE  /\ o \in Seq(Operations) /\ Len(o) \in 0..MaxOps /\ DOMAIN o = 1..Len(o)
           /\ \A i \in DOMAIN o : o[i] \in Operations
           /\ o = <<>> <=> Len(o) = 0
<1>1. PICK n \in 0..MaxOps : o \in [1..n -> Operations]
  BY DEF RepliesOfLength
<1>2. n \in Nat
  BY ConstantsAssumption
<1>3. o \in Seq(Operations)
  BY <1>1, <1>2
<1>4. Len(o) = n
  BY <1>1, <1>2
<1> QED
  BY <1>1, <1>2, <1>3, <1>4

LEMMA NextIndex == \A n \in Nat : \A i \in 1..n : i # n => i + 1 \in 1..n
  OBVIOUS

LEMMA EntriesAreWellKept ==
    /\ WellKept(Absent) /\ WellKept(Bare)
    /\ \A n \in 1..MaxCount, o \in BOOLEAN :
          WellKept(Kept(n, o)) /\ Kept(n, o).kind = "kept" /\ Kept(n, o).count = n
    /\ \A e \in Entries : WellKept(e) =>
          WellKept(Aged(e)) /\ Aged(e).kind = e.kind /\ Aged(e).count = e.count
  BY ConstantsAssumption DEF WellKept, Absent, Bare, Kept, Aged, Entries

LEMMA RowTypesStep == RowTypes /\ [Next]_vars => RowTypes'
<1> SUFFICES ASSUME RowTypes, [Next]_vars PROVE RowTypes'
  OBVIOUS
<1> USE DEF RowTypes
<1>1. CASE Fetch
  BY <1>1 DEF Fetch
<1>2. ASSUME NEW n \in 0..MaxOps, NEW reply \in RepliesOfLength(n), ModelReplies(reply)
      PROVE  RowTypes'
  BY <1>2 DEF ModelReplies
<1>3. ASSUME NEW g \in Facts, Confirm(g) \/ Reject(g) \/ Replace(g) PROVE RowTypes'
  BY <1>3 DEF Confirm, Reject, Replace, Prepare, Advance
<1>4. CASE Discover \/ Introduce
  BY <1>4 DEF Discover, Introduce, Prepare
<1>5. CASE Delete \/ Write \/ WriteFails
  BY <1>5 DEF Delete, Write, WriteFails, Advance
<1>6. CASE MarkMessages \/ MarkLogs
  BY <1>6 DEF MarkMessages, MarkLogs, EndCycle
<1>7. CASE Fails
  <2>1. UNCHANGED <<arrived, analyzed, read>> /\ batch' = {}
        /\ halfway' = (halfway \/ Applying)
    BY <1>7 DEF Fails, CycleFails, Restart, BareFactFound, Abandon, EndCycle
  <2> QED
    BY <2>1
<1>8. ASSUME NEW bad \in SUBSET Old, PruneRead(bad) PROVE RowTypes'
  BY <1>8 DEF PruneRead, cycleVars
<1>9. CASE PruneDelete \/ PruneUpdate \/ PruneFails
  BY <1>9 DEF PruneDelete, PruneUpdate, PruneFails, EndPruning, cycleVars
<1>10. CASE DayPasses
  BY <1>10 DEF DayPasses
<1>11. ASSUME NEW r \in Rows, RowArrives(r) PROVE RowTypes'
  BY <1>11 DEF RowArrives, cycleVars
<1>12. ASSUME NEW f \in Facts, SaveNote(f) PROVE RowTypes'
  BY <1>12 DEF SaveNote, cycleVars
<1>13. CASE UNCHANGED vars
  BY <1>13 DEF vars, cycleVars
<1> QED
  BY <1>1, <1>2, <1>3, <1>4, <1>5, <1>6, <1>7, <1>8, <1>9, <1>10, <1>11, <1>12, <1>13
  DEF Next, Cycle, Prune, Fails

LEMMA CycleTypesStep == CycleTypes /\ [Next]_vars => CycleTypes'
<1> SUFFICES ASSUME CycleTypes, [Next]_vars PROVE CycleTypes'
  OBVIOUS
<1> USE DEF CycleTypes, InHand, Marking
<1>0. <<>> \in UNION {RepliesOfLength(n) : n \in 0..MaxOps}
  <2>1. 0 \in 0..MaxOps /\ <<>> \in [1..0 -> Operations]
    BY ConstantsAssumption
  <2> QED
    BY <2>1 DEF RepliesOfLength
<1>a. /\ Len(ops) \in Nat /\ DOMAIN ops = 1..Len(ops)
  BY ReplyIsSequence, ConstantsAssumption
<1>b. ASSUME pc \in InHand, Advance PROVE CycleTypes'
  <2>1. k \in 1..Len(ops)
    BY <1>a, <1>b
  <2>2. k # Len(ops) => k + 1 \in 1..Len(ops)
    BY <1>a, <2>1, NextIndex
  <2> QED
    BY <1>a, <1>b, <2>1, <2>2 DEF Advance
<1>1. CASE Fetch
  BY <1>1 DEF Fetch
<1>2. ASSUME NEW n \in 0..MaxOps, NEW reply \in RepliesOfLength(n), ModelReplies(reply)
      PROVE  CycleTypes'
  <2>1. reply \in UNION {RepliesOfLength(i) : i \in 0..MaxOps}
    BY <1>2
  <2>2. reply # <<>> => 1 \in DOMAIN reply
    BY <2>1, ReplyIsSequence
  <2>3. ops' = reply /\ k' = k /\ k = 1 /\ pc' = IF reply = <<>> THEN "markMessages" ELSE "op"
    BY <1>2 DEF ModelReplies
  <2> QED
    BY <2>1, <2>2, <2>3
<1>3. ASSUME NEW g \in Facts, Confirm(g) \/ Replace(g) PROVE CycleTypes'
  BY <1>3 DEF Confirm, Replace, Prepare
<1>4. CASE Discover \/ Introduce \/ Delete
  BY <1>4 DEF Discover, Introduce, Prepare, Delete
<1>5. ASSUME NEW g \in Facts, Reject(g) PROVE CycleTypes'
  BY <1>5, <1>b DEF Reject
<1>6. CASE Write \/ WriteFails
  BY <1>6, <1>b DEF Write, WriteFails
<1>7. CASE MarkMessages \/ MarkLogs
  BY <1>7, <1>0 DEF MarkMessages, MarkLogs, EndCycle
<1>8. CASE Fails
  BY <1>8, <1>0 DEF Fails, CycleFails, Restart, BareFactFound, Abandon, EndCycle
<1>9. ASSUME NEW bad \in SUBSET Old, PruneRead(bad) PROVE CycleTypes'
  BY <1>9 DEF PruneRead, cycleVars
<1>10. CASE PruneDelete \/ PruneUpdate \/ PruneFails
  BY <1>10 DEF PruneDelete, PruneUpdate, PruneFails, EndPruning, cycleVars
<1>11. CASE DayPasses
  BY <1>11 DEF DayPasses
<1>12. ASSUME NEW r \in Rows, RowArrives(r) PROVE CycleTypes'
  BY <1>12 DEF RowArrives, cycleVars
<1>13. ASSUME NEW f \in Facts, SaveNote(f) PROVE CycleTypes'
  BY <1>13 DEF SaveNote, cycleVars
<1>14. CASE UNCHANGED vars
  BY <1>14 DEF vars, cycleVars
<1> QED
  BY <1>1, <1>2, <1>3, <1>4, <1>5, <1>6, <1>7, <1>8, <1>9, <1>10, <1>11, <1>12, <1>13, <1>14
  DEF Next, Cycle, Prune, Fails

LEMMA StoreTypesStep == StoreTypes /\ CycleTypes /\ PruneTypes /\ [Next]_vars => StoreTypes'
<1> SUFFICES ASSUME StoreTypes, CycleTypes, PruneTypes, [Next]_vars PROVE StoreTypes'
  OBVIOUS
<1> USE DEF StoreTypes
<1>a. /\ Absent \in Entries /\ WellKept(Absent) /\ Bare \in Entries /\ WellKept(Bare)
      /\ NoDraft \in [fact: Facts \cup {Nothing}, entry: Entries]
  BY EntriesAreWellKept DEF WellKept, NoDraft
<1>b. ASSUME pc = "op"
      PROVE  Op \in Operations /\ Op.fact \in Facts /\ Op.fact # Nothing
  BY <1>b, ReplyIsSequence, ConstantsAssumption DEF CycleTypes, InHand, Op, Operations
<1>c. ASSUME NEW f \in Facts, NEW n \in 1..MaxCount, NEW o \in BOOLEAN,
             draft' = [fact |-> f, entry |-> Kept(n, o)], memory' = memory,
             pc' = "write", victim' \in {victim, Nothing}
      PROVE  StoreTypes'
  BY <1>c, EntriesAreWellKept, ConstantsAssumption DEF WellKept
<1>d. 1 \in 1..MaxCount
  BY ConstantsAssumption
<1>1. CASE Fetch
  BY <1>1 DEF Fetch
<1>2. ASSUME NEW n \in 0..MaxOps, NEW reply \in RepliesOfLength(n), ModelReplies(reply)
      PROVE  StoreTypes'
  BY <1>2 DEF ModelReplies
<1>3. ASSUME NEW g \in Facts, Confirm(g) PROVE StoreTypes'
  <2> DEFINE n == memory[g].count
             m == IF n < MaxCount THEN n + 1 ELSE n
  <2>1. memory[g] \in Entries /\ n \in 0..MaxCount /\ n > 0 /\ memory[g].old \in BOOLEAN
    BY <1>3 DEF Confirm, Entries, WellKept
  <2>2. m \in 1..MaxCount
    BY <2>1, ConstantsAssumption
  <2>3. draft' = [fact |-> g, entry |-> Kept(m, memory[g].old)] /\ memory' = memory
        /\ pc' = "write" /\ victim' = victim
    BY <1>3 DEF Confirm, Prepare
  <2> QED
    BY <2>1, <2>2, <2>3, <1>c
<1>4. CASE Discover \/ Introduce
  <2>1. pc = "op" /\ draft' = [fact |-> Op.fact, entry |-> Kept(1, FALSE)] /\ memory' = memory
        /\ pc' = "write" /\ victim' = victim
    BY <1>4 DEF Discover, Introduce, Prepare
  <2> QED
    BY <2>1, <1>b, <1>c, <1>d
<1>5. ASSUME NEW g \in Facts, Reject(g) \/ Replace(g) PROVE StoreTypes'
  BY <1>5, ConstantsAssumption DEF Reject, Replace, Advance
<1>6. CASE Delete
  <2>1. Op \in Operations /\ Op.fact \in Facts /\ Op.fact # Nothing
    BY <1>6, ReplyIsSequence, ConstantsAssumption DEF CycleTypes, InHand, Op, Operations, Delete
  <2>2. memory' \in {memory, [memory EXCEPT ![victim] = Absent]} /\ victim' = Nothing
        /\ draft' = [fact |-> Op.fact, entry |-> Kept(1, FALSE)] /\ pc' = "write"
    BY <1>6 DEF Delete
  <2>3. memory' \in [Facts -> Entries] /\ \A f \in Facts : WellKept(memory'[f])
    BY <2>2, <1>a
  <2>4. draft' \in [fact: Facts \cup {Nothing}, entry: Entries] /\ draft'.fact # Nothing
        /\ draft'.entry.kind = "kept" /\ draft'.entry.count > 0
    BY <2>1, <2>2, <1>d, EntriesAreWellKept DEF WellKept
  <2> QED
    BY <2>2, <2>3, <2>4
<1>7. CASE Write
  <2>1. draft.fact \in Facts /\ draft.entry \in Entries /\ WellKept(draft.entry)
    BY <1>7 DEF Write, WellKept
  <2>2. memory' = [memory EXCEPT ![draft.fact] = draft.entry] /\ draft' = NoDraft
        /\ pc' \in {"markMessages", "op"} /\ victim' = victim
    BY <1>7 DEF Write, Advance
  <2> QED
    BY <2>1, <2>2, <1>a
<1>8. CASE WriteFails
  BY <1>8, <1>a DEF WriteFails, Advance
<1>9. CASE MarkMessages \/ MarkLogs
  BY <1>9, <1>a DEF MarkMessages, MarkLogs, EndCycle
<1>10. CASE Fails
  BY <1>10, <1>a DEF Fails, CycleFails, Restart, BareFactFound, Abandon, EndCycle
<1>11. ASSUME NEW bad \in SUBSET Old, PruneRead(bad) PROVE StoreTypes'
  BY <1>11 DEF PruneRead, cycleVars
<1>12. CASE PruneDelete
  BY <1>12, <1>a DEF PruneDelete, cycleVars
<1>13. CASE PruneUpdate
  <2>1. \A f \in faded : snapshot[f] \in Entries /\ WellKept(snapshot[f])
    BY DEF PruneTypes, WellKept
  <2> QED
    BY <1>13, <2>1 DEF PruneUpdate, EndPruning, cycleVars
<1>14. CASE PruneFails
  BY <1>14 DEF PruneFails, EndPruning, cycleVars
<1>15. CASE DayPasses
  <2>1. /\ memory' = [f \in Facts |-> Aged(memory[f])]
        /\ draft'.fact = draft.fact /\ draft'.entry = Aged(draft.entry)
        /\ draft' = [fact |-> draft.fact, entry |-> Aged(draft.entry)]
        /\ pc' = pc /\ victim' = victim
    <3>1. draft = [fact |-> draft.fact, entry |-> draft.entry]
      OBVIOUS
    <3> DEFINE a == Aged(draft.entry)
    <3>2. draft' = [draft EXCEPT !.entry = a]
      BY <1>15 DEF DayPasses
    <3> HIDE DEF a
    <3>3. draft' = [fact |-> draft.fact, entry |-> a]
      BY <3>1, <3>2
    <3> QED
      BY <3>3, <1>15 DEF DayPasses, a
  <2>2. \A e \in Entries : Aged(e) \in Entries /\ Aged(e).kind = e.kind /\ Aged(e).count = e.count
    BY DEF Aged, Entries, Kept
  <2>3. memory' \in [Facts -> Entries] /\ \A f \in Facts : WellKept(memory'[f])
    BY <2>1, <2>2 DEF WellKept
  <2> QED
    BY <2>1, <2>2, <2>3
<1>16. ASSUME NEW r \in Rows, RowArrives(r) PROVE StoreTypes'
  BY <1>16 DEF RowArrives, cycleVars
<1>17. ASSUME NEW f \in Facts, SaveNote(f) PROVE StoreTypes'
  BY <1>17, <1>a DEF SaveNote, cycleVars
<1>18. CASE UNCHANGED vars
  BY <1>18 DEF vars, cycleVars
<1> QED
  BY <1>1, <1>2, <1>3, <1>4, <1>5, <1>6, <1>7, <1>8, <1>9, <1>10, <1>11, <1>12, <1>13, <1>14,
     <1>15, <1>16, <1>17, <1>18
  DEF Next, Cycle, Prune, Fails

LEMMA PruneTypesStep == StoreTypes /\ PruneTypes /\ [Next]_vars => PruneTypes'
<1> SUFFICES ASSUME StoreTypes, PruneTypes, [Next]_vars PROVE PruneTypes'
  OBVIOUS
<1> USE DEF PruneTypes
<1>a. Absent \in Entries
  BY EntriesAreWellKept DEF WellKept
<1>1. ASSUME NEW bad \in SUBSET Old, PruneRead(bad) PROVE PruneTypes'
  <2>1. \A f \in Old : memory[f].kind = "kept" /\ memory[f].count > 0 /\ f \in Facts
    BY DEF Old, StoreTypes, WellKept
  <2>2. memory \in [Facts -> Entries]
    BY DEF StoreTypes
  <2> QED
    BY <1>1, <1>a, <2>1, <2>2 DEF PruneRead
<1>2. CASE PruneDelete
  BY <1>2 DEF PruneDelete
<1>3. CASE PruneUpdate \/ PruneFails
  BY <1>3, <1>a DEF PruneUpdate, PruneFails, EndPruning
<1>4. CASE Restart
  BY <1>4, <1>a DEF Restart
<1>5. ASSUME UNCHANGED pruneVars PROVE PruneTypes'
  BY <1>5 DEF pruneVars
<1>6. CASE Cycle \/ DayPasses
  BY <1>6, <1>5
  DEF Cycle, Fetch, ModelReplies, Confirm, Reject, Replace, BareFactFound, Discover, Introduce,
      Delete, Write, WriteFails, MarkMessages, MarkLogs, CycleFails, Prepare, Advance, DayPasses
<1>7. ASSUME NEW r \in Rows, RowArrives(r) PROVE PruneTypes'
  BY <1>7, <1>5 DEF RowArrives
<1>8. ASSUME NEW f \in Facts, SaveNote(f) PROVE PruneTypes'
  BY <1>8, <1>5 DEF SaveNote
<1>9. CASE UNCHANGED vars
  BY <1>9, <1>5 DEF vars
<1> QED
  BY <1>1, <1>2, <1>3, <1>4, <1>6, <1>7, <1>8, <1>9 DEF Next, Prune

\* Only the four ways to prepare a fact add to the evidence.
LEMMA EvidenceChanges ==
    ASSUME [Next]_vars
    PROVE  \/ UNCHANGED evidence
           \/ /\ \/ \E g \in Facts : Confirm(g)
                 \/ Discover \/ Introduce \/ Delete
              /\ evidence' = [evidence EXCEPT ![draft'.fact] = @ \cup {<<batch, k>>}]
<1>1. ASSUME NEW g \in Facts, Confirm(g)
      PROVE  evidence' = [evidence EXCEPT ![draft'.fact] = @ \cup {<<batch, k>>}]
  <2>1. draft'.fact = g
    BY <1>1 DEF Confirm, Prepare
  <2> QED
    BY <1>1, <2>1 DEF Confirm, Prepare, Backed
<1>2. ASSUME Discover \/ Introduce \/ Delete
      PROVE  evidence' = [evidence EXCEPT ![draft'.fact] = @ \cup {<<batch, k>>}]
  <2>1. draft' = [fact |-> Op.fact, entry |-> Kept(1, FALSE)]
    BY <1>2 DEF Discover, Introduce, Delete, Prepare
  <2> QED
    BY <1>2, <2>1 DEF Discover, Introduce, Delete, Prepare, Backed
<1>3. ASSUME \/ Fetch \/ Write \/ WriteFails \/ MarkMessages \/ MarkLogs \/ CycleFails
             \/ Restart \/ DayPasses \/ PruneDelete \/ PruneUpdate \/ PruneFails
             \/ UNCHANGED vars
      PROVE  UNCHANGED evidence
  BY <1>3 DEF Fetch, Write, WriteFails, Advance, MarkMessages, MarkLogs, CycleFails, Restart,
              Abandon, DayPasses, PruneDelete, PruneUpdate, PruneFails, EndPruning, vars
<1>4. ASSUME NEW g \in Facts, Reject(g) \/ Replace(g) \/ BareFactFound(g) \/ SaveNote(g)
      PROVE  UNCHANGED evidence
  BY <1>4 DEF Reject, Replace, BareFactFound, SaveNote, Advance, Abandon
<1>5. ASSUME NEW n \in 0..MaxOps, NEW reply \in RepliesOfLength(n), ModelReplies(reply)
      PROVE  UNCHANGED evidence
  BY <1>5 DEF ModelReplies
<1>6. ASSUME NEW bad \in SUBSET Old, PruneRead(bad) PROVE UNCHANGED evidence
  BY <1>6 DEF PruneRead
<1>7. ASSUME NEW r \in Rows, RowArrives(r) PROVE UNCHANGED evidence
  BY <1>7 DEF RowArrives
<1> QED
  BY <1>1, <1>2, <1>3, <1>4, <1>5, <1>6, <1>7 DEF Next, Cycle, Prune

\* An operation in hand is one of a batch of rows.
LEMMA OperationInHand ==
    ASSUME RowTypes, CycleTypes, pc \in InHand
    PROVE  /\ <<batch, k>> \in Evidence
           /\ Op.fact \in Facts
  BY ReplyIsSequence, ConstantsAssumption
  DEF RowTypes, CycleTypes, InHand, Op, Operations, Evidence

LEMMA EvidenceTypesStep ==
    RowTypes /\ CycleTypes /\ EvidenceTypes /\ [Next]_vars => EvidenceTypes'
<1> SUFFICES ASSUME RowTypes, CycleTypes, EvidenceTypes, [Next]_vars PROVE EvidenceTypes'
  OBVIOUS
<1>1. CASE UNCHANGED evidence
  BY <1>1 DEF EvidenceTypes
<1>2. CASE /\ \/ \E g \in Facts : Confirm(g)
              \/ Discover \/ Introduce \/ Delete
           /\ evidence' = [evidence EXCEPT ![draft'.fact] = @ \cup {<<batch, k>>}]
  <2>1. pc \in InHand
    BY <1>2 DEF Confirm, Discover, Introduce, Delete, InHand
  <2> QED
    BY <1>2, <2>1, OperationInHand DEF EvidenceTypes
<1> QED
  BY <1>1, <1>2, EvidenceChanges

LEMMA TypeInvInit == Init => TypeInv
<1> SUFFICES ASSUME Init PROVE TypeInv
  OBVIOUS
<1>1. 0 \in 0..MaxOps /\ <<>> \in [1..0 -> Operations]
  BY ConstantsAssumption
<1>2. ops \in UNION {RepliesOfLength(n) : n \in 0..MaxOps}
  BY <1>1 DEF Init, RepliesOfLength
<1> QED
  BY <1>2, EntriesAreWellKept
  DEF Init, TypeInv, RowTypes, StoreTypes, CycleTypes, PruneTypes, EvidenceTypes, InHand,
      Marking, NoDraft, WellKept

LEMMA TypeInvStep == TypeInv /\ [Next]_vars => TypeInv'
  BY RowTypesStep, StoreTypesStep, CycleTypesStep, PruneTypesStep, EvidenceTypesStep
  DEF TypeInv

\* The types are right in every reachable state: in particular an operation in hand is one of
\* the reply, and the pruning task writes back only metadata that it has read.
THEOREM TypeCorrect == Spec => []TypeOK
<1>1. TypeInv => TypeOK
  BY DEF TypeInv, TypeOK, RowTypes, StoreTypes, CycleTypes, PruneTypes, EvidenceTypes,
         WellKept, InHand, Marking
<1> QED
  BY <1>1, TypeInvInit, TypeInvStep, PTL DEF Spec

-----------------------------------------------------------------------------
(* A batch of rows confirms a fact at most once per operation *)

\* The rows in hand are some, and none of them was marked before.
BatchInv ==
    /\ pc # "sleep" => batch # {}
    /\ pc \in {"ask", "markMessages"} \cup InHand => batch \cap analyzed = {}
    /\ pc = "markLogs" => batch \cap Messages \subseteq analyzed

\* The operation e was carried out by the cycle under way, before the one in hand.
DoneInCycle(e) ==
    /\ e[1] = batch
    /\ \/ pc \in {"op", "delete"} /\ e[2] < k
       \/ pc = "write" /\ e[2] <= k
       \/ pc \in Marking /\ ops # <<>>

\* While no cycle stopped half way, an operation that confirmed a fact belongs to rows that
\* are marked, or to the cycle under way.
FreshInv ==
    ~halfway => \A f \in Facts : \A e \in evidence[f] : e[1] \subseteq analyzed \/ DoneInCycle(e)

FiniteInv == \A f \in Facts : IsFiniteSet(evidence[f])

\* A count is backed wherever it is kept: in the store, in the pruning task's snapshot, in
\* the fact about to be written.
CountInv ==
    ~halfway =>
        /\ \A f \in Facts : /\ memory[f].count <= Cardinality(evidence[f])
                            /\ snapshot[f].count <= Cardinality(evidence[f])
        /\ pc = "write" => draft.entry.count <= Cardinality(evidence[draft.fact])

LEMMA BatchStep == RowTypes /\ BatchInv /\ [Next]_vars => BatchInv'
<1> SUFFICES ASSUME RowTypes, BatchInv, [Next]_vars PROVE BatchInv'
  OBVIOUS
<1> USE DEF BatchInv, InHand
<1>1. CASE Fetch
  BY <1>1 DEF Fetch
<1>2. ASSUME NEW n \in 0..MaxOps, NEW reply \in RepliesOfLength(n), ModelReplies(reply)
      PROVE  BatchInv'
  BY <1>2 DEF ModelReplies
<1>3. ASSUME NEW g \in Facts, Confirm(g) \/ Reject(g) \/ Replace(g) PROVE BatchInv'
  BY <1>3 DEF Confirm, Reject, Replace, Prepare, Advance
<1>4. CASE Discover \/ Introduce
  BY <1>4 DEF Discover, Introduce, Prepare
<1>5. CASE Delete \/ Write \/ WriteFails
  BY <1>5 DEF Delete, Write, WriteFails, Advance
<1>6. CASE MarkMessages \/ MarkLogs
  BY <1>6 DEF MarkMessages, MarkLogs, EndCycle
<1>7. CASE Fails
  BY <1>7 DEF Fails, CycleFails, Restart, BareFactFound, Abandon, EndCycle
<1>8. ASSUME NEW bad \in SUBSET Old, PruneRead(bad) PROVE BatchInv'
  BY <1>8 DEF PruneRead, cycleVars
<1>9. CASE PruneDelete \/ PruneUpdate \/ PruneFails
  BY <1>9 DEF PruneDelete, PruneUpdate, PruneFails, EndPruning, cycleVars
<1>10. CASE DayPasses
  BY <1>10 DEF DayPasses
<1>11. ASSUME NEW r \in Rows, RowArrives(r) PROVE BatchInv'
  BY <1>11 DEF RowArrives, cycleVars
<1>12. ASSUME NEW f \in Facts, SaveNote(f) PROVE BatchInv'
  BY <1>12 DEF SaveNote, cycleVars
<1>13. CASE UNCHANGED vars
  BY <1>13 DEF vars, cycleVars
<1> QED
  BY <1>1, <1>2, <1>3, <1>4, <1>5, <1>6, <1>7, <1>8, <1>9, <1>10, <1>11, <1>12, <1>13
  DEF Next, Cycle, Prune, Fails

LEMMA FreshStep ==
    TypeInv /\ BatchInv /\ FreshInv /\ [Next]_vars => FreshInv'
<1> SUFFICES ASSUME TypeInv, BatchInv, FreshInv, [Next]_vars, ~halfway',
                    NEW f \in Facts, NEW e \in evidence'[f]
             PROVE  (e[1] \subseteq analyzed \/ DoneInCycle(e))'
  BY DEF FreshInv
<1> USE DEF InHand, Marking
<1>a. /\ Len(ops) \in Nat /\ DOMAIN ops = 1..Len(ops) /\ (ops = <<>> <=> Len(ops) = 0)
      /\ evidence \in [Facts -> SUBSET Evidence]
      /\ pc \in InHand => k \in 1..Len(ops) /\ ops # <<>>
      /\ pc \in {"sleep", "ask"} \cup InHand \cup Marking
  BY ReplyIsSequence, ConstantsAssumption DEF TypeInv, CycleTypes, EvidenceTypes
<1>b. ~halfway => \A d \in evidence[f] : d[1] \subseteq analyzed \/ DoneInCycle(d)
  BY DEF FreshInv
<1>c. ASSUME e \in evidence[f] PROVE e[2] \in Nat
  BY <1>a, <1>c DEF Evidence
<1>d. ASSUME UNCHANGED <<analyzed, batch, pc, k, ops, evidence, halfway>>
      PROVE  (e[1] \subseteq analyzed \/ DoneInCycle(e))'
  BY <1>b, <1>d DEF DoneInCycle
<1>e. ASSUME Advance, UNCHANGED evidence, pc \in InHand
      PROVE  (e[1] \subseteq analyzed \/ DoneInCycle(e))'
  <2>1. /\ pc' = (IF k = Len(ops) THEN "markMessages" ELSE "op")
        /\ k' = (IF k = Len(ops) THEN 1 ELSE k + 1)
        /\ UNCHANGED <<analyzed, batch, ops, halfway>>
    BY <1>e DEF Advance
  <2>2. e[1] \subseteq analyzed \/ (e[1] = batch /\ e[2] <= k)
    BY <1>b, <1>c, <1>e, <2>1, <1>a DEF DoneInCycle
  <2>3. e[2] <= k => e[2] < k + 1
    BY <1>a, <1>c, <1>e
  <2> QED
    BY <1>a, <1>e, <2>1, <2>2, <2>3 DEF DoneInCycle
<1>f. ASSUME UNCHANGED <<analyzed, batch, k, ops, halfway>>, pc \in {"op", "delete"}, pc' = "write",
             evidence' = [evidence EXCEPT ![draft'.fact] = @ \cup {<<batch, k>>}]
      PROVE  (e[1] \subseteq analyzed \/ DoneInCycle(e))'
  <2>1. e \in evidence[f] \/ e = <<batch, k>>
    BY <1>f, <1>a
  <2>2. CASE e \in evidence[f]
    <3>1. e[1] \subseteq analyzed \/ (e[1] = batch /\ e[2] < k)
      BY <1>b, <1>f, <2>2 DEF DoneInCycle
    <3>2. e[2] < k => e[2] <= k
      BY <1>a, <1>c, <1>f, <2>2
    <3> QED
      BY <1>f, <3>1, <3>2 DEF DoneInCycle
  <2>3. CASE e = <<batch, k>>
    <3>1. e[1] = batch /\ e[2] = k /\ k <= k
      BY <1>a, <1>f, <2>3
    <3> QED
      BY <1>f, <3>1 DEF DoneInCycle
  <2> QED
    BY <2>1, <2>2, <2>3
<1>1. CASE Fetch
  BY <1>1, <1>b DEF Fetch, DoneInCycle
<1>2. ASSUME NEW n \in 0..MaxOps, NEW reply \in RepliesOfLength(n), ModelReplies(reply)
      PROVE  (e[1] \subseteq analyzed \/ DoneInCycle(e))'
  BY <1>2, <1>b DEF ModelReplies, DoneInCycle
<1>3. ASSUME (\E g \in Facts : Confirm(g)) \/ Discover \/ Introduce \/ Delete
      PROVE  (e[1] \subseteq analyzed \/ DoneInCycle(e))'
  <2>1. UNCHANGED <<analyzed, batch, k, ops, halfway>> /\ pc \in {"op", "delete"} /\ pc' = "write"
    BY <1>3 DEF Confirm, Discover, Introduce, Delete, Prepare
  <2>2. CASE UNCHANGED evidence
    <3>1. e[1] \subseteq analyzed \/ (e[1] = batch /\ e[2] < k)
      BY <1>b, <2>1, <2>2 DEF DoneInCycle
    <3>2. e[2] < k => e[2] <= k
      BY <1>a, <1>c, <2>1, <2>2
    <3> QED
      BY <2>1, <3>1, <3>2 DEF DoneInCycle
  <2> QED
    BY <2>1, <2>2, <1>f, EvidenceChanges
<1>4. ASSUME NEW g \in Facts, Reject(g)
      PROVE  (e[1] \subseteq analyzed \/ DoneInCycle(e))'
  BY <1>4, <1>e DEF Reject
<1>5. CASE Write \/ WriteFails
  BY <1>5, <1>e DEF Write, WriteFails
<1>6. ASSUME NEW g \in Facts, Replace(g)
      PROVE  (e[1] \subseteq analyzed \/ DoneInCycle(e))'
  BY <1>6, <1>b DEF Replace, DoneInCycle
<1>7. CASE MarkMessages
  BY <1>7, <1>b DEF MarkMessages, DoneInCycle
<1>8. CASE MarkLogs
  <2>1. batch \subseteq analyzed'
    BY <1>8 DEF MarkLogs, TypeInv, RowTypes, BatchInv, Rows
  <2>2. analyzed \subseteq analyzed' /\ UNCHANGED <<evidence, halfway>>
    BY <1>8 DEF MarkLogs
  <2> QED
    BY <1>b, <2>1, <2>2 DEF DoneInCycle
<1>9. CASE Fails
  <2>1. UNCHANGED <<analyzed, evidence>> /\ halfway' = (halfway \/ Applying)
    BY <1>9 DEF Fails, CycleFails, Restart, BareFactFound, Abandon
  <2>2. ~halfway /\ ~Applying
    BY <2>1
  <2>3. e \in evidence[f] /\ e[2] \in Nat /\ e[2] # 0
    BY <2>1, <1>a DEF Evidence
  <2>4. ~DoneInCycle(e)
    <3>1. ops = <<>> \/ (pc = "op" /\ ~(k > 1))
      BY <2>2 DEF Applying
    <3>2. CASE ops = <<>>
      BY <3>2, <1>a DEF DoneInCycle
    <3>3. CASE pc = "op" /\ ~(k > 1)
      <4>1. ~(e[2] < k)
        BY <3>3, <2>3, <1>a
      <4> QED
        BY <3>3, <4>1 DEF DoneInCycle
    <3> QED
      BY <3>1, <3>2, <3>3
  <2> QED
    BY <1>b, <2>1, <2>2, <2>3, <2>4
<1>10. ASSUME NEW bad \in SUBSET Old, PruneRead(bad)
       PROVE  (e[1] \subseteq analyzed \/ DoneInCycle(e))'
  BY <1>10, <1>d DEF PruneRead, cycleVars
<1>11. CASE PruneDelete \/ PruneUpdate \/ PruneFails
  BY <1>11, <1>d DEF PruneDelete, PruneUpdate, PruneFails, EndPruning, cycleVars
<1>12. CASE DayPasses
  BY <1>12, <1>d DEF DayPasses
<1>13. ASSUME NEW r \in Rows, RowArrives(r)
       PROVE  (e[1] \subseteq analyzed \/ DoneInCycle(e))'
  BY <1>13, <1>d DEF RowArrives, cycleVars
<1>14. ASSUME NEW g \in Facts, SaveNote(g)
       PROVE  (e[1] \subseteq analyzed \/ DoneInCycle(e))'
  BY <1>14, <1>d DEF SaveNote, cycleVars
<1>15. CASE UNCHANGED vars
  BY <1>15, <1>d DEF vars, cycleVars
<1> QED
  BY <1>1, <1>2, <1>3, <1>4, <1>5, <1>6, <1>7, <1>8, <1>9, <1>10, <1>11, <1>12, <1>13, <1>14,
     <1>15
  DEF Next, Cycle, Prune, Fails

\* What confirms a fact now has not confirmed it before.
LEMMA OperationIsFresh ==
    ASSUME TypeInv, BatchInv, FreshInv, ~halfway, pc \in {"op", "delete"},
           NEW f \in Facts
    PROVE  <<batch, k>> \notin evidence[f]
<1>1. SUFFICES ASSUME <<batch, k>> \in evidence[f] PROVE FALSE
  OBVIOUS
<1>2. batch \subseteq analyzed \/ DoneInCycle(<<batch, k>>)
  BY <1>1 DEF FreshInv
<1>3. batch # {} /\ batch \cap analyzed = {}
  BY DEF BatchInv, InHand
<1>4. k \in Nat
  BY ReplyIsSequence, ConstantsAssumption DEF TypeInv, CycleTypes, InHand
<1>5. ~(k < k)
  BY <1>4
<1> QED
  BY <1>2, <1>3, <1>5 DEF DoneInCycle, Marking

\* Evidence is finite, and grows by one where a fact is confirmed.
LEMMA EvidenceGrows ==
    ASSUME TypeInv, FiniteInv, NEW f \in Facts, NEW e,
           evidence' = [evidence EXCEPT ![f] = @ \cup {e}]
    PROVE  /\ FiniteInv'
           /\ \A g \in Facts : Cardinality(evidence[g]) <= Cardinality(evidence'[g])
           /\ \A g \in Facts : Cardinality(evidence[g]) \in Nat /\ Cardinality(evidence'[g]) \in Nat
           /\ e \notin evidence[f] =>
                 Cardinality(evidence'[f]) = Cardinality(evidence[f]) + 1
<1>1. \A g \in Facts : evidence'[g] = IF g = f THEN evidence[f] \cup {e} ELSE evidence[g]
  BY DEF TypeInv, EvidenceTypes
<1>2. \A g \in Facts : IsFiniteSet(evidence[g]) /\ Cardinality(evidence[g]) \in Nat
  BY FS_CardinalityType DEF FiniteInv
<1>3. /\ IsFiniteSet(evidence[f] \cup {e})
      /\ Cardinality(evidence[f] \cup {e}) =
            IF e \in evidence[f] THEN Cardinality(evidence[f]) ELSE Cardinality(evidence[f]) + 1
  BY <1>2, FS_AddElement
<1> DEFINE C(g) == Cardinality(evidence[g])
           D(g) == Cardinality(evidence'[g])
<1>4. D(f) = IF e \in evidence[f] THEN C(f) ELSE C(f) + 1
  BY <1>1, <1>3
<1>5. \A g \in Facts : g # f => D(g) = C(g)
  BY <1>1
<1>6. FiniteInv'
  BY <1>1, <1>2, <1>3 DEF FiniteInv
<1>7. \A g \in Facts : C(g) \in Nat
  BY <1>2
<1> HIDE DEF C, D
<1>8. \A g \in Facts : C(g) <= D(g) /\ D(g) \in Nat
  BY <1>4, <1>5, <1>7
<1> QED
  BY <1>4, <1>6, <1>7, <1>8 DEF C, D

LEMMA FiniteStep == TypeInv /\ FiniteInv /\ [Next]_vars => FiniteInv'
<1> SUFFICES ASSUME TypeInv, FiniteInv, [Next]_vars PROVE FiniteInv'
  OBVIOUS
<1>1. CASE UNCHANGED evidence
  BY <1>1 DEF FiniteInv
<1>2. CASE /\ \/ \E g \in Facts : Confirm(g)
              \/ Discover \/ Introduce \/ Delete
           /\ evidence' = [evidence EXCEPT ![draft'.fact] = @ \cup {<<batch, k>>}]
  <2>1. pc \in InHand
    BY <1>2 DEF Confirm, Discover, Introduce, Delete, InHand
  <2>2. Op.fact \in Facts
    BY <2>1, OperationInHand DEF TypeInv
  <2>3. draft'.fact \in Facts
    <3>1. CASE \E g \in Facts : Confirm(g)
      BY <3>1 DEF Confirm, Prepare
    <3>2. CASE Discover \/ Introduce \/ Delete
      <4>1. draft' = [fact |-> Op.fact, entry |-> Kept(1, FALSE)]
        BY <3>2 DEF Discover, Introduce, Delete, Prepare
      <4> QED
        BY <4>1, <2>2
    <3> QED
      BY <1>2, <3>1, <3>2
  <2> QED
    BY <1>2, <2>3, EvidenceGrows
<1> QED
  BY <1>1, <1>2, EvidenceChanges

LEMMA CountStep ==
    TypeInv /\ BatchInv /\ FreshInv /\ FiniteInv /\ CountInv /\ [Next]_vars => CountInv'
<1> SUFFICES ASSUME TypeInv, BatchInv, FreshInv, FiniteInv, CountInv, [Next]_vars, ~halfway'
             PROVE  /\ \A f \in Facts : /\ memory'[f].count <= Cardinality(evidence'[f])
                                        /\ snapshot'[f].count <= Cardinality(evidence'[f])
                    /\ pc' = "write" =>
                          draft'.entry.count <= Cardinality(evidence'[draft'.fact])
  BY DEF CountInv
<1> DEFINE C(f) == Cardinality(evidence[f])
           Goal == /\ \A f \in Facts : memory'[f].count <= C(f)' /\ snapshot'[f].count <= C(f)'
                   /\ pc' = "write" => draft'.entry.count <= C(draft.fact)'
<1>a. ~halfway
  BY DEF Next, Cycle, Prune, Fetch, ModelReplies, Confirm, Reject, Replace, BareFactFound,
         Discover, Introduce, Delete, Write, WriteFails, MarkMessages, MarkLogs, CycleFails,
         Restart, Abandon, DayPasses, PruneRead, PruneDelete, PruneUpdate, PruneFails,
         EndPruning, RowArrives, SaveNote, Prepare, Advance, vars
<1>b. /\ \A f \in Facts : memory[f].count <= C(f) /\ snapshot[f].count <= C(f)
      /\ pc = "write" => draft.entry.count <= C(draft.fact)
  BY <1>a DEF CountInv
<1>c. /\ memory \in [Facts -> Entries] /\ snapshot \in [Facts -> Entries]
      /\ draft \in [fact: Facts \cup {Nothing}, entry: Entries]
      /\ pc = "write" => draft.fact \in Facts
  BY DEF TypeInv, StoreTypes, PruneTypes
<1>d. \A f \in Facts : C(f) \in Nat /\ 0 <= C(f)
  BY FS_CardinalityType DEF FiniteInv
<1>e. Absent.count = 0 /\ Bare.count = 0 /\ \A n, o : Kept(n, o).count = n
  BY DEF Absent, Bare, Kept
<1> SUFFICES Goal
  BY DEF C
<1> HIDE DEF C
<1>1. ASSUME NEW g \in Facts, pc \in {"op", "delete"}, snapshot' = snapshot,
             draft'.fact = g, draft'.entry.count \in Nat, draft'.entry.count <= C(g) + 1,
             \A f \in Facts : memory'[f].count <= memory[f].count \/ memory'[f].count = 0,
             evidence' = [evidence EXCEPT ![g] = @ \cup {<<batch, k>>}]
      PROVE  Goal
  <2>1. /\ C(g)' = C(g) + 1
        /\ \A f \in Facts : C(f) <= C(f)' /\ C(f)' \in Nat
    BY <1>1, <1>a, OperationIsFresh, EvidenceGrows DEF C
  <2>2. C(draft.fact)' = C(g)'
    BY <1>1 DEF C
  <2>3. draft'.entry.count <= C(draft.fact)'
    BY <1>1, <2>1, <2>2
  <2>4. \A f \in Facts : snapshot'[f].count <= C(f)'
    <3>1. \A f \in Facts : snapshot[f].count \in Nat
      BY <1>c, ConstantsAssumption DEF Entries
    <3> QED
      BY <1>1, <1>b, <1>d, <2>1, <3>1
  <2>5. \A f \in Facts : memory'[f].count <= C(f)'
    <3>1. \A f \in Facts : memory[f].count \in Nat
      BY <1>c, ConstantsAssumption DEF Entries
    <3> SUFFICES ASSUME NEW f \in Facts PROVE memory'[f].count <= C(f)'
      OBVIOUS
    <3>2. C(f) <= C(f)' /\ C(f)' \in Nat /\ C(f) \in Nat /\ memory[f].count <= C(f)
      BY <1>b, <1>d, <2>1
    <3>3. CASE memory'[f].count = 0
      BY <3>2, <3>3
    <3>4. CASE memory'[f].count <= memory[f].count
      <4>1. memory'[f].count \in Nat
        BY TypeInvStep, ConstantsAssumption DEF TypeInv, StoreTypes, Entries
      <4> QED
        BY <3>1, <3>2, <3>4, <4>1
    <3> QED
      BY <1>1, <3>3, <3>4
  <2> QED
    BY <2>3, <2>4, <2>5
<1>2. ASSUME UNCHANGED <<evidence, memory, snapshot>>, pc' = "write" => UNCHANGED <<pc, draft>>
      PROVE  Goal
  BY <1>2, <1>b DEF C
<1>3. ASSUME UNCHANGED <<evidence, snapshot>>, pc' # "write",
             \A f \in Facts : memory'[f] = memory[f] \/ memory'[f].count <= C(f)
      PROVE  Goal
  BY <1>3, <1>b DEF C
<1>4. ASSUME UNCHANGED <<evidence, pc, draft>>,
             \A f \in Facts : memory'[f] \in {memory[f], snapshot[f], Absent, Bare},
             \A f \in Facts : snapshot'[f] \in {memory[f], snapshot[f], Absent}
      PROVE  Goal
  BY <1>4, <1>b, <1>d, <1>e DEF C
<1>5. ASSUME NEW g \in Facts, Confirm(g) PROVE Goal
  <2> DEFINE n == memory[g].count
             m == IF n < MaxCount THEN n + 1 ELSE n
  <2>1. m \in Nat /\ m <= C(g) + 1
    BY <1>b, <1>c, <1>d, ConstantsAssumption DEF Entries
  <2>2. draft' = [fact |-> g, entry |-> Kept(m, memory[g].old)] /\ memory' = memory
        /\ snapshot' = snapshot /\ pc = "op"
        /\ evidence' = [evidence EXCEPT ![g] = @ \cup {<<batch, k>>}]
    BY <1>5 DEF Confirm, Prepare, Backed, pruneVars
  <2>3. \A f \in Facts : memory'[f].count <= memory[f].count
    BY <2>2, <1>c, ConstantsAssumption DEF Entries
  <2> HIDE DEF m
  <2>4. draft'.fact = g /\ draft'.entry.count = m
    BY <2>2, <1>e
  <2> HIDE DEF Goal
  <2> QED
    BY <2>1, <2>2, <2>3, <2>4, <1>1
<1>6. CASE Discover \/ Introduce \/ Delete
  <2>1. pc \in InHand
    BY <1>6 DEF Discover, Introduce, Delete, InHand
  <2>2. PICK g \in Facts : g = Op.fact
    BY <2>1, OperationInHand DEF TypeInv
  <2>3. /\ pc \in {"op", "delete"} /\ snapshot' = snapshot
        /\ draft' = [fact |-> g, entry |-> Kept(1, FALSE)]
        /\ evidence' = [evidence EXCEPT ![g] = @ \cup {<<batch, k>>}]
        /\ memory' \in {memory, [memory EXCEPT ![victim] = Absent]}
    BY <1>6, <2>2 DEF Discover, Introduce, Delete, Prepare, Backed, pruneVars
  <2>4. \A f \in Facts : memory'[f].count <= memory[f].count \/ memory'[f].count = 0
    BY <2>3, <1>c, <1>e, ConstantsAssumption DEF Entries
  <2>5. draft'.fact = g /\ draft'.entry.count = 1
    BY <2>3, <1>e
  <2>6. draft'.entry.count \in Nat /\ draft'.entry.count <= C(g) + 1
    BY <2>5, <1>d
  <2> HIDE DEF Goal
  <2> QED
    BY <2>3, <2>4, <2>5, <2>6, <1>1
<1>7. CASE Write
  <2>1. draft.fact \in Facts /\ draft.entry.count <= C(draft.fact) /\ UNCHANGED <<evidence, snapshot>>
        /\ pc' # "write" /\ memory' = [memory EXCEPT ![draft.fact] = draft.entry]
    BY <1>7, <1>b, <1>c DEF Write, Advance, pruneVars
  <2>2. \A f \in Facts : memory'[f] = memory[f] \/ memory'[f].count <= C(f)
    BY <2>1, <1>c
  <2> QED
    BY <2>1, <2>2, <1>3
<1>8. CASE WriteFails \/ Fetch \/ MarkMessages \/ MarkLogs
  BY <1>8, <1>2 DEF WriteFails, Fetch, MarkMessages, MarkLogs, EndCycle, Advance, pruneVars
<1>9. ASSUME NEW n \in 0..MaxOps, NEW reply \in RepliesOfLength(n), ModelReplies(reply)
      PROVE  Goal
  BY <1>9, <1>2 DEF ModelReplies, pruneVars
<1>10. ASSUME NEW g \in Facts, Reject(g) \/ Replace(g) \/ BareFactFound(g) PROVE Goal
  BY <1>10, <1>2 DEF Reject, Replace, BareFactFound, Abandon, EndCycle, Advance, pruneVars
<1>11. CASE CycleFails
  BY <1>11, <1>2 DEF CycleFails, Abandon, EndCycle, pruneVars
<1>12. CASE Restart
  <2>1. UNCHANGED <<evidence, memory>> /\ pc' = "sleep" /\ snapshot' = [f \in Facts |-> Absent]
    BY <1>12 DEF Restart, Abandon, EndCycle
  <2> QED
    BY <2>1, <1>b, <1>d, <1>e DEF C
<1>13. CASE DayPasses
  <2>1. \A e \in Entries : Aged(e).count = e.count
    BY DEF Aged, Entries, Kept
  <2>2. /\ UNCHANGED <<evidence, snapshot, pc>> /\ memory' = [f \in Facts |-> Aged(memory[f])]
        /\ draft'.fact = draft.fact /\ draft'.entry = Aged(draft.entry)
    <3> DEFINE a == Aged(draft.entry)
    <3>1. draft' = [draft EXCEPT !.entry = a]
      BY <1>13 DEF DayPasses
    <3> HIDE DEF a
    <3>2. draft'.fact = draft.fact /\ draft'.entry = a
      BY <3>1, <1>c
    <3> QED
      BY <3>2, <1>13 DEF DayPasses, pruneVars, a
  <2>3. draft.entry \in Entries
    BY <1>c
  <2> QED
    BY <2>1, <2>2, <2>3, <1>b, <1>c DEF C
<1>14. ASSUME NEW bad \in SUBSET Old, PruneRead(bad) PROVE Goal
  BY <1>14, <1>4 DEF PruneRead, cycleVars
<1>15. CASE PruneDelete
  BY <1>15, <1>4 DEF PruneDelete, cycleVars
<1>16. CASE PruneUpdate \/ PruneFails
  <2>1. /\ UNCHANGED <<evidence, pc, draft>> /\ snapshot' = [f \in Facts |-> Absent]
        /\ \/ memory' = memory
           \/ memory' = [f \in Facts |-> IF f \in faded \cap Stored THEN snapshot[f] ELSE memory[f]]
    BY <1>16 DEF PruneUpdate, PruneFails, EndPruning, cycleVars
  <2> QED
    BY <2>1, <1>4
<1>17. ASSUME NEW r \in Rows, RowArrives(r) PROVE Goal
  BY <1>17, <1>4 DEF RowArrives, cycleVars, pruneVars
<1>18. ASSUME NEW g \in Facts, SaveNote(g) PROVE Goal
  <2>1. UNCHANGED <<evidence, pc, draft, snapshot>> /\ memory' = [memory EXCEPT ![g] = Bare]
    BY <1>18 DEF SaveNote, cycleVars, pruneVars
  <2>2. \A f \in Facts : memory'[f] \in {memory[f], Bare}
    BY <2>1, <1>c
  <2> QED
    BY <2>1, <2>2, <1>4
<1>19. CASE UNCHANGED vars
  BY <1>19, <1>2 DEF vars, cycleVars, pruneVars
<1> HIDE DEF Goal
<1> QED
  BY <1>5, <1>6, <1>7, <1>8, <1>9, <1>10, <1>11, <1>12, <1>13, <1>14, <1>15, <1>16, <1>17,
     <1>18, <1>19
  DEF Next, Cycle, Prune

\* Until a cycle stops half way, a count never exceeds the distinct confirmations of the fact,
\* whatever the pruning task writes back and whenever it does.
THEOREM CountsBacked == Spec => []CountsAreBacked
<1> DEFINE Inv == TypeInv /\ BatchInv /\ FreshInv /\ FiniteInv /\ CountInv
<1>1. Init => Inv
  <2> SUFFICES ASSUME Init PROVE Inv
    OBVIOUS
  <2>1. \A f \in Facts : evidence[f] = {} /\ memory[f].count = 0 /\ snapshot[f].count = 0
    BY DEF Init, Absent
  <2> QED
    BY <2>1, TypeInvInit, FS_EmptySet
    DEF Init, BatchInv, FreshInv, FiniteInv, CountInv, InHand
<1>2. Inv /\ [Next]_vars => Inv'
  BY TypeInvStep, BatchStep, FreshStep, FiniteStep, CountStep DEF TypeInv
<1>3. Inv => CountsAreBacked
  BY DEF CountInv, CountsAreBacked
<1> QED
  BY <1>1, <1>2, <1>3, PTL DEF Spec
-----------------------------------------------------------------------------
(* The end of a cycle *)

\* The most steps the cycle under way may still take: three for each operation.
StepsLeft ==
    CASE pc = "sleep"        -> 0
      [] pc = "markLogs"     -> 1
      [] pc = "markMessages" -> 2
      [] pc = "write"        -> 3 * (Len(ops) - k) + 3
      [] pc = "delete"       -> 3 * (Len(ops) - k) + 4
      [] pc = "op"           -> 3 * (Len(ops) - k) + 5
      [] pc = "ask"          -> 3 * MaxOps + 3

\* A step of the cycle leaves fewer to take, nobody else adds one, and a cycle that gets to its
\* last step has marked every row it was given.
CycleAdvances ==
    /\ StepsLeft \in Nat /\ (pc # "sleep" => StepsLeft' < StepsLeft \/ UNCHANGED StepsLeft)
    /\ Cycle /\ pc # "sleep" => StepsLeft' < StepsLeft
    /\ MarkLogs => batch \subseteq analyzed'

\* A cycle of the librarian is finite, whatever the model, the store and the pruning task do, and
\* once its log rows are marked none of its batch is left for the next cycle.
THEOREM CyclesEnd == Spec => [][CycleAdvances]_vars
<1>1. ASSUME CycleTypes
      PROVE  /\ StepsLeft \in Nat /\ (pc \in InHand => k \in 1..Len(ops))
             /\ Len(ops) \in 0..MaxOps /\ MaxOps \in Nat /\ k \in Nat
             /\ ops = <<>> <=> Len(ops) = 0
  <2>1. /\ Len(ops) \in 0..MaxOps /\ DOMAIN ops = 1..Len(ops) /\ MaxOps \in Nat
        /\ ops = <<>> <=> Len(ops) = 0
    BY <1>1, ReplyIsSequence, ConstantsAssumption DEF CycleTypes
  <2>2. pc \in InHand => k \in 1..Len(ops)
    BY <1>1, <2>1 DEF CycleTypes
  <2> QED
    BY <1>1, <2>1, <2>2 DEF CycleTypes, StepsLeft, InHand, Marking
<1>2. ASSUME CycleTypes, CycleTypes', Cycle, pc # "sleep" PROVE StepsLeft' < StepsLeft
  <2>1. /\ Len(ops) \in 0..MaxOps /\ MaxOps \in Nat /\ k \in Nat
        /\ pc \in InHand => k \in 1..Len(ops)
    BY <1>1, <1>2
  <2>2. /\ Len(ops') \in 0..MaxOps /\ k' \in Nat
        /\ pc' \in InHand => k' \in 1..Len(ops')
        /\ ops' = <<>> <=> Len(ops') = 0
    <3>1. /\ ops' \in UNION {RepliesOfLength(n) : n \in 0..MaxOps}
          /\ IF pc' \in InHand THEN k' \in DOMAIN ops' ELSE k' = 1
      BY <1>2 DEF CycleTypes
    <3>2. /\ Len(ops') \in 0..MaxOps /\ DOMAIN ops' = 1..Len(ops')
          /\ ops' = <<>> <=> Len(ops') = 0
      BY <3>1, ReplyIsSequence
    <3> QED
      BY <3>1, <3>2
  <2>3. ASSUME Advance, pc \in InHand PROVE StepsLeft' < StepsLeft
    <3>1. CASE k = Len(ops)
      BY <2>1, <2>3, <3>1 DEF Advance, StepsLeft, InHand
    <3>2. CASE k # Len(ops)
      BY <2>1, <2>3, <3>2 DEF Advance, StepsLeft, InHand
    <3> QED
      BY <3>1, <3>2
  <2>4. ASSUME NEW n \in 0..MaxOps, NEW reply \in RepliesOfLength(n), ModelReplies(reply)
        PROVE  StepsLeft' < StepsLeft
    <3>1. pc = "ask" /\ ops' = reply /\ k' = k /\ k = 1
          /\ pc' = IF reply = <<>> THEN "markMessages" ELSE "op"
      BY <1>2, <2>4 DEF ModelReplies, CycleTypes, InHand
    <3> QED
      BY <2>1, <2>2, <3>1 DEF StepsLeft
  <2>5. ASSUME NEW f, NEW entry, Prepare(f, entry), pc = "op" PROVE StepsLeft' < StepsLeft
    BY <2>1, <2>5 DEF Prepare, StepsLeft, InHand
  <2>6. ASSUME NEW g \in Facts, Confirm(g) \/ Reject(g) \/ Replace(g) PROVE StepsLeft' < StepsLeft
    <3>1. CASE Confirm(g)
      BY <2>5, <3>1 DEF Confirm
    <3>2. CASE Reject(g)
      BY <2>3, <3>2 DEF Reject, InHand
    <3>3. CASE Replace(g)
      BY <2>1, <3>3 DEF Replace, StepsLeft, InHand
    <3> QED
      BY <2>6, <3>1, <3>2, <3>3
  <2>7. CASE Discover \/ Introduce
    BY <2>5, <2>7 DEF Discover, Introduce
  <2>8. CASE Delete
    BY <2>1, <2>8 DEF Delete, StepsLeft, InHand
  <2>9. CASE Write \/ WriteFails
    BY <2>3, <2>9 DEF Write, WriteFails, InHand
  <2>10. CASE MarkMessages
    BY <2>10 DEF MarkMessages, StepsLeft
  <2>11. ASSUME EndCycle PROVE StepsLeft' < StepsLeft
    BY <1>2, <2>1, <2>11 DEF EndCycle, StepsLeft, CycleTypes, InHand, Marking
  <2>12. CASE MarkLogs \/ CycleFails \/ \E g \in Facts : BareFactFound(g)
    BY <2>11, <2>12 DEF MarkLogs, CycleFails, BareFactFound, Abandon
  <2> QED
    BY <1>2, <2>4, <2>6, <2>7, <2>8, <2>9, <2>10, <2>12 DEF Cycle, Fetch
<1>3. ASSUME CycleTypes, Next, ~Cycle PROVE StepsLeft' < StepsLeft \/ UNCHANGED StepsLeft \/ pc = "sleep"
  <2>1. CASE UNCHANGED <<pc, ops, k>>
    BY <2>1 DEF StepsLeft
  <2>2. CASE Restart
    <3>1. pc' = "sleep" /\ StepsLeft' = 0
      BY <2>2 DEF Restart, Abandon, EndCycle, StepsLeft
    <3> QED
      BY <1>1, <1>3, <3>1 DEF CycleTypes, InHand, Marking, StepsLeft
  <2>3. Restart \/ UNCHANGED <<pc, ops, k>>
    <3>1. ASSUME NEW bad, PruneRead(bad) PROVE UNCHANGED <<pc, ops, k>>
      BY <3>1 DEF PruneRead, cycleVars
    <3>2. CASE PruneDelete \/ PruneUpdate \/ PruneFails
      BY <3>2 DEF PruneDelete, PruneUpdate, PruneFails, EndPruning, cycleVars
    <3>3. CASE DayPasses
      BY <3>3 DEF DayPasses
    <3>4. ASSUME NEW r, RowArrives(r) PROVE UNCHANGED <<pc, ops, k>>
      BY <3>4 DEF RowArrives, cycleVars
    <3>5. ASSUME NEW f, SaveNote(f) PROVE UNCHANGED <<pc, ops, k>>
      BY <3>5 DEF SaveNote, cycleVars
    <3> QED
      BY <1>3, <3>1, <3>2, <3>3, <3>4, <3>5 DEF Next, Prune
  <2> QED
    BY <2>1, <2>2, <2>3
<1>4. ASSUME TypeInv, BatchInv, MarkLogs PROVE batch \subseteq analyzed'
  <2>1. batch \subseteq Messages \cup Logs
    BY <1>4 DEF TypeInv, RowTypes, Rows
  <2> QED
    BY <1>4, <2>1 DEF MarkLogs, BatchInv
<1>5. TypeInv /\ TypeInv' /\ BatchInv /\ [Next]_vars => [CycleAdvances]_vars
  BY <1>1, <1>2, <1>3, <1>4 DEF TypeInv, CycleAdvances
<1>6. Init => BatchInv
  BY DEF Init, BatchInv, InHand
<1>7. TypeInv /\ BatchInv /\ [Next]_vars => BatchInv'
  BY BatchStep DEF TypeInv
<1> QED
  BY <1>5, <1>6, <1>7, TypeInvInit, TypeInvStep, PTL DEF Spec
=============================================================================
