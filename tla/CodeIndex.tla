----------------------------- MODULE CodeIndex -----------------------------
(***************************************************************************)
(* The memory of a project's code (ProjeKodBellek): a table of symbols and *)
(* calls in SQLite (SymbolGraph) and an embedding of every symbol in the   *)
(* vector store.  The coder node asks it for context before it writes a    *)
(* file and has the file indexed afterwards.  The owner edits the same     *)
(* files at any time: whenever one is read, it may hold anything.  Ghost   *)
(* may be closed at any time.                                              *)
(*                                                                         *)
(* A symbol keeps its place (class and line), its name and the names it    *)
(* calls; signatures and docstrings are left out, and so are the edges     *)
(* get_context prints beside the nodes.                                    *)
(***************************************************************************)
EXTENDS Naturals, Sequences, FiniteSets, SequencesExt

CONSTANTS
    Files, Names, Places,
    Spellings, FileOf,  \* the paths files are named by, and the file each one resolves to
    Versions,        \* contents of a file that parse
    Broken, Gone,    \* a file that does not parse, a file that cannot be read
    Defs,            \* the symbols each version defines
    Projects, Unknown, \* project names; the one of a file outside every project
    NoHash,
    MaxDepth, MaxNodes,  \* graph_depth, graph_max_nodes
    MaxRoots,            \* limit of the semantic search
    MaxIndexings         \* bound: so many files are indexed

Contents == Versions \cup {Broken, Gone}
Labels == Projects \cup {Unknown}

ASSUME ConstantsAssumption ==
    /\ Broken \notin Versions /\ Gone \notin Versions /\ Broken # Gone
    /\ NoHash \notin Contents
    /\ FileOf \in [Spellings -> Files]
    /\ Unknown \notin Projects
    /\ Defs \in [Versions -> SUBSET [at: Places, name: Names, calls: SUBSET Names]]
    /\ \A v \in Versions : IsFiniteSet(Defs[v]) /\ \A d \in Defs[v] : IsFiniteSet(d.calls)
    /\ MaxDepth \in Nat /\ MaxNodes \in Nat /\ MaxRoots \in Nat
    /\ MaxIndexings \in Nat

VARIABLES
    db, saved,       \* the graph as its connection sees it, and what is committed
    vectors,         \* the symbols in the vector store
    pc, work,        \* the operation under way, the file it indexes and the path it was given
    scope, roots, queue, found,   \* get_context
    indexings,       \* the number of indexings so far
    unclean          \* history: paths whose old vectors could not be deleted

workVars == <<pc, work, indexings>>
queryVars == <<scope, roots, queue, found>>
vars == <<db, saved, vectors, workVars, queryVars, unclean>>

\* symbol_id is the file, the place and the name: the resolved file in the graph, the path as
\* it was given in the vector store.
Ids == [file: Files, at: Places, name: Names]
VectorIds == [file: Spellings, at: Places, name: Names]
Id(f, d) == [file |-> f, at |-> d.at, name |-> d.name]
Symbols == [id: Ids, project: Labels]
Vectors == [id: VectorIds, project: Labels]
SymbolsOf(f, p, defs) == {[id |-> Id(f, d), project |-> p] : d \in defs}
CallsOf(f, defs) == UNION {{Id(f, d)} \X d.calls : d \in defs}

\* torn is history: the files whose symbols were deleted and whose hash was not.
Tables == [symbols: SUBSET Symbols, calls: SUBSET (Ids \X Names),
           hashes: [Files -> Contents \cup {NoHash}], torn: SUBSET Files]
NoWork == [file |-> NoHash, path |-> NoHash, project |-> Unknown, seen |-> NoHash]

Init ==
    /\ db = [symbols |-> {}, calls |-> {}, hashes |-> [f \in Files |-> NoHash], torn |-> {}]
    /\ saved = db
    /\ vectors = {}
    /\ pc = "idle" /\ work = NoWork /\ indexings = 0
    /\ scope = Unknown /\ roots = {} /\ queue = <<>> /\ found = {}
    /\ unclean = {}

-----------------------------------------------------------------------------
(* dosyayi_indexle: first index_file, then the vectors *)

\* index_file reads the file and looks its hash up.
Open(path, p, content) ==
    /\ pc = "idle"
    /\ indexings < MaxIndexings
    /\ indexings' = indexings + 1
    /\ work' = [file |-> FileOf[path], path |-> path, project |-> p, seen |-> content]
    /\ pc' = IF content \in {Gone, db.hashes[FileOf[path]]} THEN "embed" ELSE "clear"
    /\ UNCHANGED <<db, saved, vectors, queryVars, unclean>>

\* _clear_file selects the ids of the old symbols when their rows have gone already.
Cleared(f) ==
    LET symbols == {s \in db.symbols : s.id.file # f}
        oldIds == {s.id : s \in {r \in symbols : r.id.file = f}}
    IN  [symbols |-> symbols,
         calls |-> {c \in db.calls : c[1] \notin oldIds},
         hashes |-> [db.hashes EXCEPT ![f] = NoHash],
         torn |-> db.torn \ {f}]

\* The symbols are gone, the hash is there: the deletion stopped between the two.
Torn(f) ==
    [symbols |-> {s \in db.symbols : s.id.file # f},
     calls |-> db.calls, hashes |-> db.hashes, torn |-> db.torn \cup {f}]

\* Variant: a file that does not parse is inserted all the same.
ClearUnparsed ==
    /\ pc = "clear"
    /\ db' = Cleared(work.file)
    /\ saved' = db'
    /\ pc' = "insert"
    /\ UNCHANGED <<vectors, work, indexings, queryVars, unclean>>

\* The commit of _clear_file, also of what a failed insertion has left open.
Clear ==
    /\ pc = "clear"
    /\ db' = Cleared(work.file)
    /\ saved' = db'
    /\ pc' = IF work.seen = Broken THEN "embed" ELSE "insert"
    /\ UNCHANGED <<vectors, work, indexings, queryVars, unclean>>

\* An error of the database, at the first statement, at the one that deletes the hash, or at the
\* commit: the transaction stays open.
ClearFails ==
    /\ pc = "clear"
    /\ db' \in {db, Torn(work.file), Cleared(work.file)}
    /\ pc' = "embed"
    /\ UNCHANGED <<saved, vectors, work, indexings, queryVars, unclean>>

WithSymbols(defs, calls, hashes) ==
    [symbols |-> db.symbols \cup SymbolsOf(work.file, work.project, defs),
     calls |-> db.calls \cup calls, hashes |-> hashes, torn |-> db.torn]

Hashed == [db.hashes EXCEPT ![work.file] = work.seen]
Inserted == WithSymbols(Defs[work.seen], CallsOf(work.file, Defs[work.seen]), Hashed)

Insert ==
    /\ pc = "insert"
    /\ db' = Inserted
    /\ saved' = db'
    /\ pc' = "embed"
    /\ UNCHANGED <<vectors, work, indexings, queryVars, unclean>>

\* Variant: the hash is written before the symbols.
InsertFailsHashed(part, last, some) ==
    /\ pc = "insert"
    /\ last \in part
    /\ some \subseteq CallsOf(work.file, {last})
    /\ db' = WithSymbols(part, CallsOf(work.file, part \ {last}) \cup some, Hashed)
    /\ pc' = "embed"
    /\ UNCHANGED <<saved, vectors, work, indexings, queryVars, unclean>>

\* The insertion stops inside the calls of the symbol last; the transaction stays open.
InsertFails(part, last, some) ==
    /\ pc = "insert"
    /\ last \in part
    /\ some \subseteq CallsOf(work.file, {last})
    /\ db' = WithSymbols(part, CallsOf(work.file, part \ {last}) \cup some, db.hashes)
    /\ pc' = "embed"
    /\ UNCHANGED <<saved, vectors, work, indexings, queryVars, unclean>>

\* It stops before the first symbol, or at the commit.
CommitFails ==
    /\ pc = "insert"
    /\ db' \in {db, Inserted}
    /\ pc' = "embed"
    /\ UNCHANGED <<saved, vectors, work, indexings, queryVars, unclean>>

EndIndexing ==
    /\ pc' = "idle" /\ work' = NoWork
    /\ UNCHANGED <<db, saved, indexings, queryVars>>

\* The file is read a second time; if it does not parse its old vectors stay.
EmbedNothing ==
    /\ pc = "embed"
    /\ EndIndexing
    /\ UNCHANGED <<vectors, unclean>>

NewVectors(v) == SymbolsOf(work.path, work.project, Defs[v])

\* Variant: the old vectors are left to the upsert.
EmbedOverOld(v, kept) ==
    /\ pc = "embed"
    /\ kept \subseteq NewVectors(v)
    /\ vectors' = {s \in vectors : \A r \in kept : r.id # s.id} \cup kept
    /\ EndIndexing
    /\ UNCHANGED unclean

\* The vectors filed under this path are deleted, then each symbol is embedded, or is not: the
\* embedding server failed, or Ghost was closed.
Embed(v, kept) ==
    /\ pc = "embed"
    /\ kept \subseteq NewVectors(v)
    /\ vectors' = {s \in vectors : s.id.file # work.path} \cup kept
    /\ unclean' = unclean \ {work.path}
    /\ EndIndexing

\* _dosya_sembollerini_sil swallows its errors: old vectors stay unless they are replaced.
EmbedUncleared(v, kept) ==
    /\ pc = "embed"
    /\ kept \subseteq NewVectors(v)
    /\ vectors' = {s \in vectors : \A r \in kept : r.id # s.id} \cup kept
    /\ unclean' = unclean \cup {work.path}
    /\ EndIndexing

-----------------------------------------------------------------------------
(* baglam_metni_uret: the semantic search gives the roots of get_context *)

InScope(s) == scope = Unknown \/ s.project = scope

\* sembol_ara: the nearest symbols, in any order and perhaps of the same name.
Ask(p, names) ==
    /\ pc = "idle"
    /\ names # <<>>
    /\ \A i \in DOMAIN names :
          \E s \in vectors : s.id.name = names[i] /\ (p = Unknown \/ s.project = p)
    /\ scope' = p
    /\ roots' = ToSet(names)
    /\ queue' = [i \in DOMAIN names |-> [name |-> names[i], depth |-> 0]]
    /\ pc' = "query"
    /\ UNCHANGED <<db, saved, vectors, work, indexings, found, unclean>>

Full == Cardinality(found) >= MaxNodes
Answered == pc = "query" /\ (queue = <<>> \/ Full)

\* _find_by_name, _get_callees, _get_callers (a caller whose symbol has gone is queued by its
\* id, which is the name of nothing).
Named(n) == {s \in db.symbols : s.id.name = n /\ InScope(s)}
Callees(symbols) == {c[2] : c \in {d \in db.calls : \E s \in symbols : d[1] = s.id}}
Callers(n, seen) ==
    {s.id.name : s \in {r \in db.symbols : <<r.id, n>> \in db.calls /\ r \notin seen}}

Take(n, taken) ==
    /\ taken \subseteq Named(n) \ found
    /\ Cardinality(taken) =
          IF Cardinality(found) + Cardinality(Named(n) \ found) <= MaxNodes
          THEN Cardinality(Named(n) \ found)
          ELSE MaxNodes - Cardinality(found)
    /\ found' = found \cup taken

\* The names reached from the symbols taken, one call further.
Reached(n, taken, depth) ==
    IF taken = {} \/ depth > MaxDepth THEN {} ELSE Callees(taken) \cup Callers(n, found)

\* Variant: what is reached from a symbol keeps its depth.
ExpandLevel(taken, order) ==
    /\ pc = "query" /\ ~Answered
    /\ LET n == Head(queue).name
           depth == Head(queue).depth
       IN  /\ Take(n, taken)
           /\ order \in SetToSeqs(Reached(n, taken, depth + 1))
           /\ queue' = Tail(queue) \o [i \in DOMAIN order |-> [name |-> order[i], depth |-> depth]]
    /\ UNCHANGED <<db, saved, vectors, workVars, scope, roots, unclean>>

\* One turn of the loop of get_context.
Expand(taken, order) ==
    /\ pc = "query" /\ ~Answered
    /\ LET n == Head(queue).name
           depth == Head(queue).depth + 1
       IN  /\ Take(n, taken)
           /\ order \in SetToSeqs(Reached(n, taken, depth))
           /\ queue' = Tail(queue) \o [i \in DOMAIN order |-> [name |-> order[i], depth |-> depth]]
    /\ UNCHANGED <<db, saved, vectors, workVars, scope, roots, unclean>>

EndQuery == pc' = "idle" /\ scope' = Unknown /\ roots' = {} /\ queue' = <<>> /\ found' = {}

Answer ==
    /\ Answered
    /\ EndQuery
    /\ UNCHANGED <<db, saved, vectors, work, indexings, unclean>>

-----------------------------------------------------------------------------

\* Ghost is closed: what was not committed is gone.
Crash ==
    /\ pc # "idle" \/ db # saved
    /\ db' = saved
    /\ work' = NoWork
    /\ EndQuery
    /\ UNCHANGED <<saved, vectors, indexings, unclean>>

Index ==
    \/ \E path \in Spellings, p \in Labels, c \in Contents : Open(path, p, c)
    \/ Clear \/ ClearFails \/ Insert \/ CommitFails
    \/ /\ pc = "insert"
       /\ \E part \in SUBSET Defs[work.seen] : \E last \in part :
             \E some \in SUBSET CallsOf(work.file, {last}) : InsertFails(part, last, some)
    \/ EmbedNothing
    \/ /\ pc = "embed"
       /\ \E v \in Versions : \E kept \in SUBSET NewVectors(v) :
             Embed(v, kept) \/ EmbedUncleared(v, kept)

RootLists == UNION {[1..n -> Names] : n \in 1..MaxRoots}

Query ==
    \/ \E p \in Labels, names \in RootLists : Ask(p, names)
    \/ /\ pc = "query" /\ queue # <<>>
       /\ \E taken \in SUBSET Named(Head(queue).name) :
             \E order \in SetToSeqs(Reached(Head(queue).name, taken, Head(queue).depth + 1)) :
                Expand(taken, order)
    \/ Answer

Next ==
    \/ Index \/ Query \/ Crash

Spec == Init /\ [][Next]_vars

-----------------------------------------------------------------------------
(* Properties *)

\* The tables hold symbols of the files, an operation under way has a file or a question.
TypeOK ==
    /\ db \in Tables /\ saved \in Tables
    /\ vectors \subseteq Vectors
    /\ pc \in {"idle", "clear", "insert", "embed", "query"}
    /\ pc \in {"clear", "insert", "embed"} =>
          /\ work \in [file: Files, path: Spellings, project: Labels, seen: Contents]
          /\ work.file = FileOf[work.path]
    /\ pc = "insert" => work.seen \in Versions
    /\ scope \in Labels /\ roots \subseteq Names
    /\ queue \in Seq([name: Names, depth: 0..MaxDepth])
    /\ found \subseteq db.symbols
    /\ indexings \in 0..MaxIndexings
    /\ unclean \subseteq Spellings

Indexed(t, f) ==
    LET defs == Defs[t.hashes[f]]
    IN  /\ {s.id : s \in {r \in t.symbols : r.id.file = f}} = {Id(f, d) : d \in defs}
        /\ CallsOf(f, defs) \subseteq t.calls

\* A file is skipped only when it is completely indexed: wherever an indexing stopped, what
\* the connection sees and what a restart finds, a hash stands for all symbols and calls of
\* that very version and no symbol of another one; or for none at all, if the deletion of
\* the file's rows stopped before it reached the hash.
HashMeansIndexed ==
    \A t \in {db, saved} : \A f \in Files :
        t.hashes[f] # NoHash =>
            \/ Indexed(t, f)
            \/ f \in t.torn /\ \A s \in t.symbols : s.id.file # f

\* The semantic search never mixes two versions of a file that is always named by the same
\* path, until a deletion fails.  (Under two paths it has two sets of vectors, each of the
\* version that was read under that path last.)
VectorsOfOneVersion ==
    \A path \in Spellings \ unclean :
        \E v \in Versions :
            \A s \in vectors : s.id.file = path => s.id \in {Id(path, d) : d \in Defs[v]}

\* The names at most d calls away from the roots, through symbols of the scope.
Near[d \in Nat] ==
    IF d = 0 THEN roots
    ELSE Near[d - 1] \cup
         UNION {Callees(Named(n)) \cup Callers(n, {}) : n \in {m \in Near[d - 1] : Named(m) # {}}}

Neighbourhood == UNION {Named(n) : n \in Near[MaxDepth]}

\* get_context answers with the symbols at most max_depth calls away, callers and callees, all
\* of them unless they are more than max_nodes.
ContextIsNeighbourhood ==
    Answered =>
        /\ found \subseteq Neighbourhood
        /\ Cardinality(found) = IF Cardinality(Neighbourhood) <= MaxNodes
                                THEN Cardinality(Neighbourhood) ELSE MaxNodes

\* hafıza/symbol_graph.py:236: before a changed file is indexed again, "Eski semboller + çağrı
\* ilişkilerini temizle" (clear the old symbols and call relations).
OldCallsCleared ==
    \A f \in Files : db.hashes[f] # NoHash =>
        {c \in db.calls : c[1].file = f} = CallsOf(f, Defs[db.hashes[f]])
=============================================================================
