-------------------------- MODULE CodeIndexProofs --------------------------
(***************************************************************************)
(* What a hash in the graph stands for, which version the vectors of a     *)
(* file are of, and the types: for any files, any versions of them and any *)
(* number of indexings.                                                    *)
(***************************************************************************)
EXTENDS CodeIndex, FiniteSetTheorems, SequenceTheorems, WellFoundedInduction, TLAPS

\* What is known of the file under way: after _clear_file nothing of it is left in the graph.
WorkInv ==
    /\ pc \in {"clear", "insert", "embed"} => work.file \in Files /\ work.path \in Spellings
    /\ pc = "clear" => work.seen \in Versions \cup {Broken}
    /\ pc = "insert" => /\ work.seen \in Versions
                        /\ db.hashes[work.file] = NoHash
                        /\ \A s \in db.symbols : s.id.file # work.file

TablesInv ==
    \A t \in {db, saved} :
        /\ t = [symbols |-> t.symbols, calls |-> t.calls, hashes |-> t.hashes, torn |-> t.torn]
        /\ t.hashes \in [Files -> Versions \cup {NoHash}]

\* The rows of one file, read from the tables separately.
IdsOf(symbols, f) == {s.id : s \in {r \in symbols : r.id.file = f}}
Complete(symbols, calls, v, f) ==
    /\ IdsOf(symbols, f) = {Id(f, d) : d \in Defs[v]}
    /\ CallsOf(f, Defs[v]) \subseteq calls

\* Nothing of the file is left, and the deletion did not get to its hash.
Hollow(symbols, torn, f) == f \in torn /\ \A s \in symbols : s.id.file # f

LEMMA CompleteIsIndexed ==
    HashMeansIndexed <=>
        \A t \in {db, saved} : \A f \in Files :
            t.hashes[f] # NoHash => \/ Complete(t.symbols, t.calls, t.hashes[f], f)
                                    \/ Hollow(t.symbols, t.torn, f)
  BY DEF HashMeansIndexed, Indexed, Complete, IdsOf, Hollow

\* Symbols of one file do not disturb another one's.
LEMMA OtherFilesKeepTheirs ==
    ASSUME NEW symbols, NEW calls, NEW more, NEW added, NEW f, NEW g, NEW v, f # g,
           \A s \in added : s.id.file = g,
           Complete(symbols, calls, v, f)
    PROVE  Complete(symbols \cup added, calls \cup more, v, f)
<1>1. IdsOf(symbols \cup added, f) = IdsOf(symbols, f)
  BY DEF IdsOf
<1> QED
  BY <1>1 DEF Complete

LEMMA DeletingSparesOthers ==
    ASSUME NEW symbols, NEW calls, NEW f, NEW g, NEW v, f # g,
           Complete(symbols, calls, v, f)
    PROVE  Complete({s \in symbols : s.id.file # g}, calls, v, f)
<1>1. IdsOf({s \in symbols : s.id.file # g}, f) = IdsOf(symbols, f)
  BY DEF IdsOf
<1> QED
  BY <1>1 DEF Complete

\* What _clear_file leaves, when it gets to its end and when it stops before the hash.
LEMMA Deletions ==
    ASSUME NEW g
    PROVE  /\ Cleared(g).symbols = {s \in db.symbols : s.id.file # g}
           /\ Cleared(g).calls = db.calls
           /\ Cleared(g).hashes = [db.hashes EXCEPT ![g] = NoHash]
           /\ Cleared(g).torn = db.torn \ {g}
           /\ Torn(g).symbols = {s \in db.symbols : s.id.file # g}
           /\ Torn(g).calls = db.calls
           /\ Torn(g).hashes = db.hashes
           /\ Torn(g).torn = db.torn \cup {g}
<1>1. Cleared(g).calls = db.calls
  BY DEF Cleared
<1> QED
  BY <1>1 DEF Cleared, Torn

\* The symbols of a version, put where there was none of the file, make it complete.
LEMMA InsertedIsComplete ==
    ASSUME NEW symbols, NEW calls, NEW f \in Files, NEW p, NEW v,
           \A s \in symbols : s.id.file # f
    PROVE  /\ Complete(symbols \cup SymbolsOf(f, p, Defs[v]), calls \cup CallsOf(f, Defs[v]), v, f)
           /\ \A s \in SymbolsOf(f, p, Defs[v]) : s.id.file = f
<1>1. \A d : Id(f, d).file = f
  BY DEF Id
<1>2. \A s \in SymbolsOf(f, p, Defs[v]) : s.id.file = f
  BY <1>1 DEF SymbolsOf
<1>3. IdsOf(symbols \cup SymbolsOf(f, p, Defs[v]), f) = {Id(f, d) : d \in Defs[v]}
  <2> DEFINE new == SymbolsOf(f, p, Defs[v])
  <2>1. \A s \in new : \E d \in Defs[v] : s.id = Id(f, d)
    BY DEF SymbolsOf
  <2>2. \A d \in Defs[v] : \E s \in new : s.id = Id(f, d)
    <3>1. \A d \in Defs[v] : [id |-> Id(f, d), project |-> p] \in new
      BY DEF SymbolsOf
    <3>2. \A x : [id |-> x, project |-> p].id = x
      OBVIOUS
    <3> HIDE DEF new
    <3> QED
      BY <3>1, <3>2
  <2>3. {r \in symbols \cup new : r.id.file = f} = new
    BY <1>2
  <2> HIDE DEF new
  <2>4. IdsOf(symbols \cup new, f) = {Id(f, d) : d \in Defs[v]}
    BY <2>1, <2>2, <2>3 DEF IdsOf
  <2> QED
    BY <2>4 DEF new
<1> QED
  BY <1>2, <1>3 DEF Complete

-----------------------------------------------------------------------------
(* The file under way *)

LEMMA WorkStep == TablesInv /\ WorkInv /\ [Next]_vars => WorkInv'
<1> SUFFICES ASSUME TablesInv, WorkInv, [Next]_vars PROVE WorkInv'
  OBVIOUS
<1> USE DEF WorkInv
<1>1. ASSUME NEW f \in Spellings, NEW p \in Labels, NEW c \in Contents, Open(f, p, c)
      PROVE  WorkInv'
  BY <1>1, ConstantsAssumption DEF Open, Contents
<1>2. CASE Clear
  <2>1. /\ work' = work /\ db' = Cleared(work.file)
        /\ pc' = IF work.seen = Broken THEN "embed" ELSE "insert"
        /\ work.file \in Files /\ work.path \in Spellings
        /\ work.seen \in Versions \cup {Broken}
    BY <1>2 DEF Clear
  <2>2. Cleared(work.file).hashes[work.file] = NoHash
    BY <2>1 DEF Cleared, TablesInv
  <2>3. \A s \in Cleared(work.file).symbols : s.id.file # work.file
    BY DEF Cleared
  <2> QED
    BY <2>1, <2>2, <2>3
<1>3. CASE ClearFails
  BY <1>3 DEF ClearFails
<1>4. CASE Insert \/ CommitFails
  BY <1>4 DEF Insert, CommitFails
<1>5. ASSUME NEW part, NEW last, NEW some, InsertFails(part, last, some)
      PROVE  WorkInv'
  BY <1>5 DEF InsertFails
<1>6. CASE EmbedNothing
  BY <1>6 DEF EmbedNothing, EndIndexing
<1>7. ASSUME NEW v \in Versions, NEW kept \in SUBSET NewVectors(v),
             Embed(v, kept) \/ EmbedUncleared(v, kept)
      PROVE  WorkInv'
  BY <1>7 DEF Embed, EmbedUncleared, EndIndexing
<1>8. ASSUME NEW p \in Labels, NEW names \in RootLists, Ask(p, names) PROVE WorkInv'
  BY <1>8 DEF Ask
<1>9. ASSUME NEW taken, NEW order, Expand(taken, order) PROVE WorkInv'
  BY <1>9 DEF Expand, workVars
<1>10. CASE Answer
  BY <1>10 DEF Answer, EndQuery
<1>11. CASE Crash
  BY <1>11 DEF Crash, EndQuery
<1>12. CASE UNCHANGED vars
  BY <1>12 DEF vars, workVars
<1> QED
  BY <1>1, <1>2, <1>3, <1>4, <1>5, <1>6, <1>7, <1>8, <1>9, <1>10, <1>11, <1>12
  DEF Next, Index, Query

-----------------------------------------------------------------------------
(* What a hash stands for *)

\* What each step does to the tables.
LEMMA TablesChange ==
    ASSUME WorkInv, [Next]_vars
    PROVE  \/ /\ db' \in {db, saved} /\ saved' = saved
           \/ /\ work.file \in Files
              /\ db' = Cleared(work.file) /\ saved' \in {saved, db'}
           \/ /\ work.file \in Files
              /\ db' = Torn(work.file) /\ saved' = saved
           \/ /\ pc = "insert"
              /\ db' = Inserted /\ saved' \in {saved, db'}
           \/ /\ pc = "insert"
              /\ \E part \in SUBSET Defs[work.seen] : \E calls \in SUBSET CallsOf(work.file, Defs[work.seen]) :
                    db' = WithSymbols(part, calls, db.hashes)
              /\ saved' = saved
<1>1. CASE Clear \/ ClearFails
  BY <1>1 DEF Clear, ClearFails, WorkInv
<1>2. CASE Insert \/ CommitFails
  BY <1>2 DEF Insert, CommitFails
<1>3. ASSUME NEW part \in SUBSET Defs[work.seen], NEW last \in part, NEW some,
             InsertFails(part, last, some)
      PROVE  /\ pc = "insert" /\ saved' = saved
             /\ \E calls \in SUBSET CallsOf(work.file, Defs[work.seen]) :
                   db' = WithSymbols(part, calls, db.hashes)
  <2>1. CallsOf(work.file, part \ {last}) \cup some \subseteq CallsOf(work.file, Defs[work.seen])
    BY <1>3 DEF InsertFails, CallsOf
  <2> QED
    BY <1>3, <2>1 DEF InsertFails
<1>4. ASSUME NEW f \in Spellings, NEW p \in Labels, NEW c \in Contents, Open(f, p, c)
      PROVE  UNCHANGED <<db, saved>>
  BY <1>4 DEF Open
<1>5. CASE EmbedNothing \/ Answer \/ UNCHANGED vars
  BY <1>5 DEF EmbedNothing, EndIndexing, Answer, vars
<1>6. ASSUME NEW v \in Versions, NEW kept \in SUBSET NewVectors(v),
             Embed(v, kept) \/ EmbedUncleared(v, kept)
      PROVE  UNCHANGED <<db, saved>>
  BY <1>6 DEF Embed, EmbedUncleared, EndIndexing
<1>7. ASSUME NEW p \in Labels, NEW names \in RootLists, Ask(p, names)
      PROVE  UNCHANGED <<db, saved>>
  BY <1>7 DEF Ask
<1>8. ASSUME NEW taken, NEW order, Expand(taken, order) PROVE UNCHANGED <<db, saved>>
  BY <1>8 DEF Expand
<1>9. CASE Crash
  BY <1>9 DEF Crash
<1> QED
  BY <1>1, <1>2, <1>3, <1>4, <1>5, <1>6, <1>7, <1>8, <1>9 DEF Next, Index, Query

LEMMA TablesStep == WorkInv /\ TablesInv /\ [Next]_vars => TablesInv'
<1> SUFFICES ASSUME WorkInv, TablesInv, [Next]_vars PROVE TablesInv'
  OBVIOUS
<1> DEFINE Hashes == [Files -> Versions \cup {NoHash}]
           IsRecord(t) == t = [symbols |-> t.symbols, calls |-> t.calls, hashes |-> t.hashes,
                               torn |-> t.torn]
           Good(t) == IsRecord(t) /\ t.hashes \in Hashes
<1>1. Good(db) /\ Good(saved)
  BY DEF TablesInv
<1>2. Good(Cleared(work.file)) /\ Good(Torn(work.file))
  BY DEF Cleared, Torn, TablesInv
<1>3. pc = "insert" => Good(Inserted)
  BY DEF WorkInv, TablesInv, Inserted, Hashed, WithSymbols
<1>4. \A part, calls : Good(WithSymbols(part, calls, db.hashes))
  BY DEF TablesInv, WithSymbols
<1> HIDE DEF Good
<1>5. Good(db') /\ Good(saved')
  BY <1>1, <1>2, <1>3, <1>4, TablesChange
<1> QED
  BY <1>5 DEF Good, TablesInv

LEMMA HashStep == WorkInv /\ TablesInv /\ HashMeansIndexed /\ [Next]_vars => HashMeansIndexed'
<1> SUFFICES ASSUME WorkInv, TablesInv, HashMeansIndexed, [Next]_vars PROVE HashMeansIndexed'
  OBVIOUS
<1> DEFINE Sound(t) == \A f \in Files :
              t.hashes[f] # NoHash => \/ Complete(t.symbols, t.calls, t.hashes[f], f)
                                      \/ Hollow(t.symbols, t.torn, f)
<1>1. Sound(db) /\ Sound(saved)
  BY CompleteIsIndexed
<1>2. Sound(Cleared(work.file)) /\ Sound(Torn(work.file))
  <2> DEFINE left == {s \in db.symbols : s.id.file # work.file}
  <2>1. /\ Cleared(work.file).symbols = left /\ Torn(work.file).symbols = left
        /\ Cleared(work.file).calls = db.calls /\ Torn(work.file).calls = db.calls
        /\ Cleared(work.file).hashes = [db.hashes EXCEPT ![work.file] = NoHash]
        /\ Torn(work.file).hashes = db.hashes
        /\ Cleared(work.file).torn = db.torn \ {work.file}
        /\ Torn(work.file).torn = db.torn \cup {work.file}
    BY Deletions
  <2>2. ASSUME NEW f \in Files, f # work.file, db.hashes[f] # NoHash
        PROVE  \/ Complete(left, db.calls, db.hashes[f], f)
               \/ Hollow(left, db.torn, f)
    <3>1. Complete(db.symbols, db.calls, db.hashes[f], f) \/ Hollow(db.symbols, db.torn, f)
      BY <1>1, <2>2
    <3>2. CASE Complete(db.symbols, db.calls, db.hashes[f], f)
      BY <2>2, <3>2, DeletingSparesOthers
    <3>3. CASE Hollow(db.symbols, db.torn, f)
      BY <3>3 DEF Hollow
    <3> QED
      BY <3>1, <3>2, <3>3
  <2>3. Hollow(left, db.torn \cup {work.file}, work.file)
    BY DEF Hollow
  <2>4. \A f : Hollow(left, db.torn, f) => Hollow(left, db.torn \cup {work.file}, f)
    BY DEF Hollow
  <2>5. \A f : f # work.file /\ Hollow(left, db.torn, f) => Hollow(left, db.torn \ {work.file}, f)
    BY DEF Hollow
  <2>6. \A f \in Files : f # work.file => Cleared(work.file).hashes[f] = db.hashes[f]
    BY <2>1 DEF TablesInv
  <2>7. work.file \in Files => Cleared(work.file).hashes[work.file] = NoHash
    BY <2>1 DEF TablesInv
  <2> HIDE DEF left
  <2> QED
    BY <2>1, <2>2, <2>3, <2>4, <2>5, <2>6, <2>7
<1>3. pc = "insert" => Sound(Inserted)
  <2> SUFFICES ASSUME pc = "insert", NEW f \in Files, Inserted.hashes[f] # NoHash
               PROVE  \/ Complete(Inserted.symbols, Inserted.calls, Inserted.hashes[f], f)
                      \/ Hollow(Inserted.symbols, Inserted.torn, f)
    OBVIOUS
  <2>1. /\ Inserted.symbols = db.symbols \cup SymbolsOf(work.file, work.project, Defs[work.seen])
        /\ Inserted.calls = db.calls \cup CallsOf(work.file, Defs[work.seen])
        /\ Inserted.hashes = [db.hashes EXCEPT ![work.file] = work.seen]
        /\ Inserted.torn = db.torn
    BY DEF Inserted, Hashed, WithSymbols
  <2>2. work.file \in Files /\ \A s \in db.symbols : s.id.file # work.file
    BY DEF WorkInv
  <2>3. CASE f = work.file
    <3>1. Complete(db.symbols \cup SymbolsOf(work.file, work.project, Defs[work.seen]),
                   db.calls \cup CallsOf(work.file, Defs[work.seen]), work.seen, work.file)
      BY <2>2, InsertedIsComplete
    <3>2. Inserted.hashes[work.file] = work.seen
      BY <2>1, <2>2 DEF TablesInv
    <3> QED
      BY <2>1, <2>3, <3>1, <3>2
  <2>4. CASE f # work.file
    <3>1. Inserted.hashes[f] = db.hashes[f]
      BY <2>1, <2>4 DEF TablesInv
    <3>2. \A s \in SymbolsOf(work.file, work.project, Defs[work.seen]) : s.id.file = work.file
      BY DEF SymbolsOf, Id
    <3>3. Complete(db.symbols, db.calls, db.hashes[f], f) \/ Hollow(db.symbols, db.torn, f)
      BY <1>1, <3>1
    <3>4. CASE Complete(db.symbols, db.calls, db.hashes[f], f)
      <4>1. Complete(db.symbols \cup SymbolsOf(work.file, work.project, Defs[work.seen]),
                     db.calls \cup CallsOf(work.file, Defs[work.seen]), db.hashes[f], f)
        BY <2>4, <3>2, <3>4, OtherFilesKeepTheirs
      <4> QED
        BY <2>1, <3>1, <4>1
    <3>5. CASE Hollow(db.symbols, db.torn, f)
      BY <2>1, <2>4, <3>2, <3>5 DEF Hollow
    <3> QED
      BY <3>3, <3>4, <3>5
  <2> QED
    BY <2>3, <2>4
<1>4. ASSUME pc = "insert", NEW part, NEW calls PROVE Sound(WithSymbols(part, calls, db.hashes))
  <2> SUFFICES ASSUME NEW f \in Files, WithSymbols(part, calls, db.hashes).hashes[f] # NoHash
               PROVE  \/ Complete(WithSymbols(part, calls, db.hashes).symbols,
                                  WithSymbols(part, calls, db.hashes).calls,
                                  WithSymbols(part, calls, db.hashes).hashes[f], f)
                      \/ Hollow(WithSymbols(part, calls, db.hashes).symbols,
                                WithSymbols(part, calls, db.hashes).torn, f)
    OBVIOUS
  <2>1. /\ WithSymbols(part, calls, db.hashes).symbols =
              db.symbols \cup SymbolsOf(work.file, work.project, part)
        /\ WithSymbols(part, calls, db.hashes).calls = db.calls \cup calls
        /\ WithSymbols(part, calls, db.hashes).hashes = db.hashes
        /\ WithSymbols(part, calls, db.hashes).torn = db.torn
    BY DEF WithSymbols
  <2>2. f # work.file
    BY <1>4, <2>1 DEF WorkInv
  <2>3. \A s \in SymbolsOf(work.file, work.project, part) : s.id.file = work.file
    BY DEF SymbolsOf, Id
  <2>4. Complete(db.symbols, db.calls, db.hashes[f], f) \/ Hollow(db.symbols, db.torn, f)
    BY <1>1, <2>1
  <2>5. CASE Complete(db.symbols, db.calls, db.hashes[f], f)
    <3>1. Complete(db.symbols \cup SymbolsOf(work.file, work.project, part),
                   db.calls \cup calls, db.hashes[f], f)
      BY <2>2, <2>3, <2>5, OtherFilesKeepTheirs
    <3> QED
      BY <2>1, <3>1
  <2>6. CASE Hollow(db.symbols, db.torn, f)
    BY <2>1, <2>2, <2>3, <2>6 DEF Hollow
  <2> QED
    BY <2>4, <2>5, <2>6
<1> HIDE DEF Sound
<1>5. Sound(db') /\ Sound(saved')
  BY <1>1, <1>2, <1>3, <1>4, TablesChange
<1> QED
  BY <1>5 DEF Sound, HashMeansIndexed, Indexed, Complete, IdsOf, Hollow

\* index_file skips a file only when the graph holds all of the version it read, or nothing of
\* the file because a deletion stopped before its hash: crashes, errors of the database and
\* transactions left open never leave a hash behind that stands for anything in between.
THEOREM HashesAreSound == Spec => []HashMeansIndexed
<1>1. Init => WorkInv /\ TablesInv /\ HashMeansIndexed
  BY DEF Init, WorkInv, TablesInv, HashMeansIndexed
<1> QED
  BY <1>1, WorkStep, TablesStep, HashStep, PTL DEF Spec

-----------------------------------------------------------------------------
(* The vectors *)

\* Only the end of an indexing touches the vector store: it replaces the vectors of the path, or
\* leaves some of the old ones and notes it.
LEMMA VectorsChange ==
    ASSUME [Next]_vars
    PROVE  \/ UNCHANGED <<vectors, unclean>>
           \/ \E v \in Versions : \E kept \in SUBSET NewVectors(v) :
                 \/ /\ vectors' = {s \in vectors : s.id.file # work.path} \cup kept
                    /\ unclean' = unclean \ {work.path}
                 \/ /\ vectors' \subseteq vectors \cup kept
                    /\ unclean' = unclean \cup {work.path}
<1>1. CASE Clear \/ ClearFails \/ Insert \/ CommitFails \/ EmbedNothing \/ Answer \/ Crash
           \/ UNCHANGED vars
  BY <1>1 DEF Clear, ClearFails, Insert, CommitFails, EmbedNothing, Answer, Crash, vars
<1>2. ASSUME NEW f, NEW p, NEW c, Open(f, p, c) PROVE UNCHANGED <<vectors, unclean>>
  BY <1>2 DEF Open
<1>3. ASSUME NEW part, NEW last, NEW some, InsertFails(part, last, some)
      PROVE  UNCHANGED <<vectors, unclean>>
  BY <1>3 DEF InsertFails
<1>4. ASSUME NEW p, NEW names, Ask(p, names) PROVE UNCHANGED <<vectors, unclean>>
  BY <1>4 DEF Ask
<1>5. ASSUME NEW taken, NEW order, Expand(taken, order) PROVE UNCHANGED <<vectors, unclean>>
  BY <1>5 DEF Expand
<1>6. ASSUME NEW v \in Versions, NEW kept \in SUBSET NewVectors(v), Embed(v, kept)
      PROVE  /\ vectors' = {s \in vectors : s.id.file # work.path} \cup kept
             /\ unclean' = unclean \ {work.path}
  BY <1>6 DEF Embed
<1>7. ASSUME NEW v \in Versions, NEW kept \in SUBSET NewVectors(v), EmbedUncleared(v, kept)
      PROVE  /\ vectors' \subseteq vectors \cup kept
             /\ unclean' = unclean \cup {work.path}
  BY <1>7 DEF EmbedUncleared
<1> QED
  BY <1>1, <1>2, <1>3, <1>4, <1>5, <1>6, <1>7 DEF Next, Index, Query

\* While no deletion fails, the vectors of a path are symbols of a single version of its file, however
\* many of them were embedded and whatever the owner wrote between the two readings.
THEOREM OneVersionEach ==
    ASSUME Versions # {}
    PROVE  Spec => []VectorsOfOneVersion
<1> DEFINE Of(all, f, v) == \A s \in all : s.id.file = f => s.id \in {Id(f, d) : d \in Defs[v]}
<1>1. Init => VectorsOfOneVersion
  BY DEF Init, VectorsOfOneVersion
<1>2. VectorsOfOneVersion /\ [Next]_vars => VectorsOfOneVersion'
  <2> SUFFICES ASSUME VectorsOfOneVersion, [Next]_vars, NEW f \in Spellings, f \notin unclean'
               PROVE  \E v \in Versions : Of(vectors', f, v)
    BY DEF VectorsOfOneVersion
  <2>0. f \notin unclean => \E v \in Versions : Of(vectors, f, v)
    BY DEF VectorsOfOneVersion
  <2>1. ASSUME NEW v PROVE \A s \in NewVectors(v) : /\ s.id.file = work.path
                                                  /\ s.id \in {Id(work.path, d) : d \in Defs[v]}
    BY DEF NewVectors, SymbolsOf, Id
  <2>2. CASE UNCHANGED <<vectors, unclean>>
    BY <2>0, <2>2
  <2>3. ASSUME NEW v \in Versions, NEW kept \in SUBSET NewVectors(v),
               vectors' = {s \in vectors : s.id.file # work.path} \cup kept,
               unclean' = unclean \ {work.path}
        PROVE  \E w \in Versions : Of(vectors', f, w)
    <3>1. CASE f = work.path
      <4>1. Of(vectors', f, v)
        BY <2>1, <2>3, <3>1
      <4> QED
        BY <4>1
    <3>2. CASE f # work.path
      <4>1. PICK w \in Versions : Of(vectors, f, w)
        BY <2>0, <2>3, <3>2
      <4>2. Of(vectors', f, w)
        BY <2>1, <2>3, <3>2, <4>1
      <4> QED
        BY <4>2
    <3> QED
      BY <3>1, <3>2
  <2>4. ASSUME NEW v \in Versions, NEW kept \in SUBSET NewVectors(v),
               vectors' \subseteq vectors \cup kept, unclean' = unclean \cup {work.path}
        PROVE  \E w \in Versions : Of(vectors', f, w)
    <3>1. f # work.path
      BY <2>4
    <3>2. PICK w \in Versions : Of(vectors, f, w)
      BY <2>0, <2>4
    <3>3. Of(vectors', f, w)
      BY <2>1, <2>4, <3>1, <3>2
    <3> QED
      BY <3>3
  <2> QED
    BY <2>2, <2>3, <2>4, VectorsChange
<1> QED
  BY <1>1, <1>2, PTL DEF Spec

-----------------------------------------------------------------------------
(* The tables are finite *)

FiniteInv == \A t \in {db, saved} : IsFiniteSet(t.symbols) /\ IsFiniteSet(t.calls)

LEMMA RowsAreFinite ==
    ASSUME NEW f, NEW p, NEW v \in Versions, NEW part \in SUBSET Defs[v]
    PROVE  IsFiniteSet(SymbolsOf(f, p, part)) /\ IsFiniteSet(CallsOf(f, part))
<1>1. IsFiniteSet(part) /\ \A d \in part : IsFiniteSet(d.calls)
  BY FS_Subset, ConstantsAssumption
<1>2. IsFiniteSet(SymbolsOf(f, p, part))
  <2> DEFINE row == [d \in part |-> [id |-> Id(f, d), project |-> p]]
  <2>1. row \in Surjection(part, SymbolsOf(f, p, part))
    BY DEF Surjection, SymbolsOf
  <2> QED
    BY <1>1, <2>1, FS_Surjection
<1>3. IsFiniteSet(CallsOf(f, part))
  <2> DEFINE callsOf(d) == {Id(f, d)} \X d.calls
             all == {callsOf(d) : d \in part}
             from == [d \in part |-> callsOf(d)]
  <2>1. from \in Surjection(part, all)
    BY DEF Surjection
  <2>2. IsFiniteSet(all)
    BY <1>1, <2>1, FS_Surjection
  <2>3. \A d \in part : IsFiniteSet(callsOf(d))
    BY <1>1, FS_Singleton, FS_Product
  <2>4. IsFiniteSet(UNION all)
    <3>1. \A x \in all : IsFiniteSet(x)
      BY <2>3
    <3> HIDE DEF all
    <3> QED
      BY <2>2, <3>1, FS_UNION
  <2> QED
    BY <2>4 DEF CallsOf
<1> QED
  BY <1>2, <1>3

LEMMA FiniteStep == WorkInv /\ TablesInv /\ FiniteInv /\ [Next]_vars => FiniteInv'
<1> SUFFICES ASSUME WorkInv, TablesInv, FiniteInv, [Next]_vars PROVE FiniteInv'
  OBVIOUS
<1> DEFINE Finite(t) == IsFiniteSet(t.symbols) /\ IsFiniteSet(t.calls)
<1>1. Finite(db) /\ Finite(saved)
  BY DEF FiniteInv
<1>2. Finite(Cleared(work.file)) /\ Finite(Torn(work.file))
  <2>1. /\ Cleared(work.file).symbols \subseteq db.symbols /\ Cleared(work.file).calls = db.calls
        /\ Torn(work.file).symbols \subseteq db.symbols /\ Torn(work.file).calls = db.calls
    BY Deletions
  <2> QED
    BY <1>1, <2>1, FS_Subset
<1>3. ASSUME pc = "insert", NEW part \in SUBSET Defs[work.seen],
             NEW calls \in SUBSET CallsOf(work.file, Defs[work.seen]), NEW hashes
      PROVE  Finite(WithSymbols(part, calls, hashes))
  <2>1. work.seen \in Versions
    BY <1>3 DEF WorkInv
  <2>2. IsFiniteSet(SymbolsOf(work.file, work.project, part)) /\ IsFiniteSet(calls)
    BY <2>1, RowsAreFinite, FS_Subset
  <2>3. /\ WithSymbols(part, calls, hashes).symbols =
              db.symbols \cup SymbolsOf(work.file, work.project, part)
        /\ WithSymbols(part, calls, hashes).calls = db.calls \cup calls
    BY DEF WithSymbols
  <2>4. IsFiniteSet(db.symbols \cup SymbolsOf(work.file, work.project, part))
    BY <1>1, <2>2, FS_Union
  <2>5. IsFiniteSet(db.calls \cup calls)
    BY <1>1, <2>2, FS_Union
  <2> QED
    BY <2>3, <2>4, <2>5
<1>4. pc = "insert" => Finite(Inserted)
  BY <1>3 DEF Inserted
<1> HIDE DEF Finite
<1>5. Finite(db') /\ Finite(saved')
  BY <1>1, <1>2, <1>3, <1>4, TablesChange
<1> QED
  BY <1>5 DEF Finite, FiniteInv

-----------------------------------------------------------------------------
(* Types *)

\* Outside a question nothing is found.
QueryInv == pc # "query" => found = {}

\* The rows of a version, or of a part of it, are rows of the tables.
LEMMA RowsAreRows ==
    ASSUME NEW f \in Files, NEW p \in Labels, NEW v \in Versions, NEW part \in SUBSET Defs[v]
    PROVE  /\ SymbolsOf(f, p, part) \subseteq Symbols
           /\ CallsOf(f, part) \subseteq Ids \X Names
<1>1. \A d \in part : d \in [at : Places, name : Names, calls : SUBSET Names]
  BY ConstantsAssumption
<1>2. \A d \in part : Id(f, d) \in Ids
  BY <1>1 DEF Id, Ids
<1>3. SymbolsOf(f, p, part) \subseteq Symbols
  BY <1>2 DEF SymbolsOf, Symbols
<1>4. \A d \in part : {Id(f, d)} \X d.calls \subseteq Ids \X Names
  BY <1>1, <1>2
<1> QED
  BY <1>3, <1>4 DEF CallsOf

\* The vectors of a version, or of a part of it, are vectors.
LEMMA VectorsAreVectors ==
    ASSUME NEW path \in Spellings, NEW p \in Labels, NEW v \in Versions
    PROVE  SymbolsOf(path, p, Defs[v]) \subseteq Vectors
<1>1. \A d \in Defs[v] : d \in [at : Places, name : Names, calls : SUBSET Names]
  BY ConstantsAssumption
<1>2. \A d \in Defs[v] : Id(path, d) \in VectorIds
  BY <1>1 DEF Id, VectorIds
<1> QED
  BY <1>2 DEF SymbolsOf, Vectors

\* What is inserted keeps the tables' types.
LEMMA WithSymbolsTypes ==
    ASSUME db \in Tables,
           work \in [file : Files, path : Spellings, project : Labels, seen : Versions],
           NEW part \in SUBSET Defs[work.seen], NEW calls \in SUBSET (Ids \X Names),
           NEW hashes \in [Files -> Contents \cup {NoHash}]
    PROVE  WithSymbols(part, calls, hashes) \in Tables
<1>1. SymbolsOf(work.file, work.project, part) \subseteq Symbols
  BY RowsAreRows
<1> QED
  BY <1>1 DEF WithSymbols, Tables

\* Every name reached from a symbol is queued behind it, and nothing else.
LEMMA ReachedAreNames ==
    ASSUME FiniteInv, db \in Tables, NEW n, NEW taken, NEW depth,
           NEW order \in SetToSeqs(Reached(n, taken, depth))
    PROVE  /\ order \in Seq(Names)
           /\ \A m : m \in Reached(n, taken, depth) <=> \E i \in DOMAIN order : order[i] = m
           /\ depth > MaxDepth => order = <<>>
<1> DEFINE reached == Reached(n, taken, depth)
<1>1. reached \subseteq Names
  <2>1. db.symbols \subseteq Symbols /\ db.calls \subseteq Ids \X Names
    BY DEF Tables
  <2>2. Callees(taken) \subseteq Names
    BY <2>1 DEF Callees
  <2>3. Callers(n, found) \subseteq Names
    BY <2>1 DEF Callers, Symbols, Ids
  <2> QED
    BY <2>2, <2>3 DEF Reached
<1>2. IsFiniteSet(reached) /\ Cardinality(reached) \in Nat
  <2> DEFINE called == {d \in db.calls : \E s \in taken : d[1] = s.id}
             calling == {r \in db.symbols : <<r.id, n>> \in db.calls /\ r \notin found}
             callee == [c \in called |-> c[2]]
             caller == [s \in calling |-> s.id.name]
  <2>1. IsFiniteSet(called) /\ IsFiniteSet(calling)
    BY FS_Subset DEF FiniteInv
  <2>2. callee \in Surjection(called, Callees(taken))
    BY DEF Surjection, Callees
  <2>3. caller \in Surjection(calling, Callers(n, found))
    BY DEF Surjection, Callers
  <2>4. IsFiniteSet(Callees(taken)) /\ IsFiniteSet(Callers(n, found))
    BY <2>1, <2>2, <2>3, FS_Surjection
  <2> QED
    BY <2>4, FS_Union, FS_EmptySet, FS_CardinalityType DEF Reached
<1>3. order \in [1..Cardinality(reached) -> reached]
  BY DEF SetToSeqs
<1>4. \A m \in reached : \E i \in DOMAIN order : order[i] = m
  <2>1. order \in Injection(1..Cardinality(reached), reached)
    BY <1>3 DEF SetToSeqs, Injection, IsInjective
  <2>2. Cardinality(1..Cardinality(reached)) = Cardinality(reached)
    BY <1>2, FS_Interval
  <2>3. order \in Surjection(1..Cardinality(reached), reached)
    BY <1>2, <2>1, <2>2, FS_Injection
  <2> QED
    BY <2>3 DEF Surjection
<1>5. order \in Seq(Names)
  BY <1>1, <1>2, <1>3
<1>6. ASSUME depth > MaxDepth PROVE order = <<>>
  <2>1. reached = {} /\ Cardinality(reached) = 0
    BY <1>6, FS_EmptySet DEF Reached
  <2> QED
    BY <1>3, <2>1
<1> QED
  BY <1>3, <1>5, <1>6, <1>4

LEMMA TypeStep ==
    ASSUME FiniteInv, WorkInv, TablesInv, TypeOK, QueryInv, [Next]_vars
    PROVE  TypeOK' /\ QueryInv'
<1> USE DEF QueryInv, Contents, Labels
<1> USE ConstantsAssumption
\* Both tables, the vectors and the list are of their types, whoever changes them.
<1>1. ASSUME NEW f \in Spellings, NEW p \in Labels, NEW c \in Contents, Open(f, p, c)
      PROVE  TypeOK' /\ QueryInv'
  <2>1. /\ work' \in [file : Files, path : Spellings, project : Labels, seen : Contents]
        /\ work'.file = FileOf[work'.path]
    BY <1>1 DEF Open
  <2>2. pc' = "clear" \/ pc' = "embed"
    BY <1>1 DEF Open
  <2>3. indexings' \in 0..MaxIndexings
    BY <1>1 DEF Open, TypeOK
  <2> QED
    BY <1>1, <2>1, <2>2, <2>3 DEF Open, queryVars, TypeOK
<1>2. CASE Clear \/ ClearFails
  <2>1. Cleared(work.file) \in Tables /\ Torn(work.file) \in Tables
    <3>1. /\ db.symbols \subseteq Symbols /\ db.calls \subseteq Ids \X Names
          /\ db.hashes \in [Files -> Contents \cup {NoHash}] /\ db.torn \subseteq Files
          /\ work.file \in Files
      BY <1>2 DEF Tables, TypeOK, WorkInv, Clear, ClearFails
    <3>2. {s \in db.symbols : s.id.file # work.file} \subseteq Symbols
      BY <3>1
    <3>3. [db.hashes EXCEPT ![work.file] = NoHash] \in [Files -> Contents \cup {NoHash}]
      BY <3>1
    <3> QED
      BY <3>1, <3>2, <3>3 DEF Tables, Cleared, Torn
  <2>2. db' \in Tables /\ saved' \in Tables /\ found = {}
    BY <1>2, <2>1 DEF Clear, ClearFails, TypeOK
  <2>3. /\ UNCHANGED <<vectors, work, indexings, queryVars, unclean>>
        /\ pc = "clear" /\ pc' \in {"insert", "embed"}
        /\ pc' = "insert" => work.seen \in Versions
    BY <1>2 DEF Clear, ClearFails, WorkInv
  <2>4. /\ work \in [file : Files, path : Spellings, project : Labels, seen : Contents]
        /\ work.file = FileOf[work.path]
    BY <2>3 DEF TypeOK
  <2>5. found' = {} /\ UNCHANGED <<scope, roots, queue>>
    BY <2>2, <2>3 DEF queryVars
  <2> QED
    BY <2>2, <2>3, <2>4, <2>5 DEF TypeOK
<1>3. ASSUME pc = "insert"
      PROVE  work \in [file : Files, path : Spellings, project : Labels, seen : Versions]
  BY <1>3 DEF TypeOK
<1>4. CASE Insert \/ CommitFails
  <2>1. pc = "insert"
    BY <1>4 DEF Insert, CommitFails
  <2>2. Inserted \in Tables
    <3>1. CallsOf(work.file, Defs[work.seen]) \subseteq Ids \X Names
      BY <1>3, <2>1, RowsAreRows
    <3>2. Hashed \in [Files -> Contents \cup {NoHash}]
      BY <1>3, <2>1 DEF Hashed, Tables, TypeOK
    <3> QED
      BY <1>3, <2>1, <3>1, <3>2, WithSymbolsTypes DEF Inserted, TypeOK
  <2>3. db' \in Tables /\ saved' \in Tables /\ found = {}
    BY <1>4, <2>1, <2>2 DEF Insert, CommitFails, TypeOK
  <2>4. UNCHANGED <<vectors, work, indexings, queryVars, unclean>> /\ pc' = "embed"
    BY <1>4 DEF Insert, CommitFails
  <2> QED
    BY <2>1, <2>3, <2>4 DEF TypeOK, queryVars
<1>5. ASSUME NEW part \in SUBSET Defs[work.seen], NEW last \in part,
             NEW some \in SUBSET CallsOf(work.file, {last}), InsertFails(part, last, some)
      PROVE  TypeOK' /\ QueryInv'
  <2>1. pc = "insert" /\ part \ {last} \in SUBSET Defs[work.seen] /\ {last} \in SUBSET Defs[work.seen]
    BY <1>5 DEF InsertFails
  <2>2. CallsOf(work.file, part \ {last}) \cup some \subseteq Ids \X Names
    BY <1>3, <2>1, RowsAreRows
  <2>3. db.hashes \in [Files -> Contents \cup {NoHash}]
    BY DEF TypeOK, Tables
  <2>4. WithSymbols(part, CallsOf(work.file, part \ {last}) \cup some, db.hashes) \in Tables
    BY <1>3, <2>1, <2>2, <2>3, WithSymbolsTypes DEF TypeOK
  <2>5. db' \in Tables /\ pc' = "embed" /\ found = {}
        /\ UNCHANGED <<saved, vectors, work, indexings, queryVars, unclean>>
    BY <1>5, <2>1, <2>4 DEF InsertFails
  <2> QED
    BY <2>1, <2>5 DEF TypeOK, queryVars
<1>6. CASE EmbedNothing
  BY <1>6 DEF EmbedNothing, EndIndexing, queryVars, TypeOK
<1>7. ASSUME NEW v \in Versions, NEW kept \in SUBSET NewVectors(v),
             Embed(v, kept) \/ EmbedUncleared(v, kept)
      PROVE  TypeOK' /\ QueryInv'
  <2>1. kept \subseteq Vectors /\ pc = "embed" /\ work.path \in Spellings
    BY <1>7, VectorsAreVectors DEF NewVectors, Embed, EmbedUncleared, TypeOK
  <2>2. vectors' \subseteq Vectors /\ unclean' \subseteq Spellings
    BY <1>7, <2>1 DEF Embed, EmbedUncleared, TypeOK
  <2> QED
    BY <1>7, <2>1, <2>2 DEF Embed, EmbedUncleared, EndIndexing, queryVars, TypeOK
<1>8. ASSUME NEW p \in Labels, NEW names \in RootLists, Ask(p, names)
      PROVE  TypeOK' /\ QueryInv'
  <2>1. PICK n \in 1..MaxRoots : names \in [1..n -> Names]
    BY DEF RootLists
  <2>2. queue' \in Seq([name : Names, depth : 0..MaxDepth])
    <3>1. queue' = [i \in 1..n |-> [name |-> names[i], depth |-> 0]]
      BY <1>8, <2>1 DEF Ask
    <3> DEFINE Entry == [name : Names, depth : 0..MaxDepth]
    <3>2. \A i \in 1..n : [name |-> names[i], depth |-> 0] \in Entry
      BY <2>1
    <3>3. n \in Nat
      BY <2>1
    <3> HIDE DEF Entry
    <3>4. queue' \in [1..n -> Entry]
      BY <3>1, <3>2
    <3>5. queue' \in Seq(Entry)
      BY <3>3, <3>4
    <3> QED
      BY <3>5 DEF Entry
  <2>3. roots' \subseteq Names
    BY <1>8, <2>1 DEF Ask, ToSet
  <2> QED
    BY <1>8, <2>2, <2>3 DEF Ask, TypeOK
<1>9. ASSUME pc = "query", queue # <<>>, NEW taken \in SUBSET Named(Head(queue).name),
             NEW order \in SetToSeqs(Reached(Head(queue).name, taken, Head(queue).depth + 1)),
             Expand(taken, order)
      PROVE  TypeOK' /\ QueryInv'
  <2> DEFINE Entry == [name : Names, depth : 0..MaxDepth]
             depth == Head(queue).depth + 1
             more == [i \in DOMAIN order |-> [name |-> order[i], depth |-> depth]]
  <2>1. queue \in Seq(Entry) /\ Head(queue) \in Entry /\ Tail(queue) \in Seq(Entry)
    <3>1. queue \in Seq(Entry)
      BY DEF TypeOK
    <3> HIDE DEF Entry
    <3> QED
      BY <1>9, <3>1
  <2>2. order \in Seq(Names) /\ (depth > MaxDepth => order = <<>>)
    BY <1>9, ReachedAreNames DEF TypeOK
  <2>3. more \in Seq(Entry)
    <3>1. Len(order) \in Nat /\ DOMAIN order = 1..Len(order)
      BY <2>2
    <3>2. ASSUME NEW i \in 1..Len(order) PROVE order[i] \in Names /\ depth \in 0..MaxDepth
      <4>1. Head(queue).depth \in 0..MaxDepth
        BY <2>1
      <4>2. depth <= MaxDepth
        BY <2>2, <3>1, <3>2, <4>1
      <4> QED
        BY <2>2, <3>1, <4>1, <4>2
    <3> HIDE DEF depth
    <3>3. more \in [1..Len(order) -> Entry]
      BY <3>1, <3>2
    <3> QED
      BY <3>1, <3>3
  <2>4. queue' = Tail(queue) \o more
    BY <1>9 DEF Expand
  <2> HIDE DEF more, Entry
  <2>5. queue' \in Seq(Entry)
    BY <2>1, <2>3, <2>4
  <2>6. found' \subseteq db.symbols
    BY <1>9 DEF Expand, Take, Named, TypeOK
  <2> QED
    <3>1. UNCHANGED <<db, saved, vectors, pc, work, indexings, scope, roots, unclean>>
      BY <1>9 DEF Expand, workVars
    <3>2. queue' \in Seq([name : Names, depth : 0..MaxDepth])
      BY <2>5 DEF Entry
    <3> QED
      BY <1>9, <2>6, <3>1, <3>2 DEF TypeOK
<1>10. CASE Answer \/ Crash
  <2>1. queue' \in Seq([name : Names, depth : 0..MaxDepth])
    <3>1. queue' = <<>>
      BY <1>10 DEF Answer, Crash, EndQuery
    <3>2. \A S : <<>> \in Seq(S)
      OBVIOUS
    <3> QED
      BY <3>1, <3>2
  <2>2. /\ pc' = "idle" /\ scope' = Unknown /\ roots' = {} /\ found' = {} /\ saved' = saved
        /\ db' \in {db, saved} /\ UNCHANGED <<vectors, indexings, unclean>>
    BY <1>10 DEF Answer, Crash, EndQuery
  <2> QED
    BY <2>1, <2>2 DEF TypeOK
<1>11. CASE UNCHANGED vars
  BY <1>11 DEF vars, workVars, queryVars, TypeOK
<1> QED
  BY <1>1, <1>2, <1>4, <1>5, <1>6, <1>7, <1>8, <1>9, <1>10, <1>11 DEF Next, Index, Query

LEMMA TypesHold == Spec => [](TypeOK /\ QueryInv /\ FiniteInv)
<1>1. Init => TypeOK /\ QueryInv /\ WorkInv /\ TablesInv /\ FiniteInv
  <2> SUFFICES ASSUME Init PROVE TypeOK /\ QueryInv /\ WorkInv /\ TablesInv /\ FiniteInv
    OBVIOUS
  <2>1. db \in Tables /\ saved \in Tables
    BY DEF Init, Tables
  <2>2. queue \in Seq([name : Names, depth : 0..MaxDepth])
    BY DEF Init
  <2>3. indexings \in 0..MaxIndexings
    BY ConstantsAssumption DEF Init
  <2>4. FiniteInv
    <3>1. db.symbols = {} /\ db.calls = {} /\ saved = db
      BY DEF Init
    <3> QED
      BY <3>1, FS_EmptySet DEF FiniteInv
  <2> QED
    BY <2>1, <2>2, <2>3, <2>4 DEF Init, TypeOK, QueryInv, Labels, WorkInv, TablesInv
<1>2. FiniteInv /\ WorkInv /\ TablesInv /\ TypeOK /\ QueryInv /\ [Next]_vars
        => TypeOK' /\ QueryInv'
  BY TypeStep
<1> QED
  BY <1>1, <1>2, WorkStep, TablesStep, FiniteStep, PTL DEF Spec

\* Types: what the indexing and the questions keep is of the tables' kinds, and no name is
\* queued beyond the depth of the graph.
THEOREM TypeCorrect == Spec => []TypeOK
  BY TypesHold, PTL
-----------------------------------------------------------------------------
(* The levels of the graph *)

\* A call, or a caller, away from a name that stands for a symbol of the scope.
Steps(n) == IF Named(n) = {} THEN {} ELSE Callees(Named(n)) \cup Callers(n, {})
Follows(names) == UNION {Steps(n) : n \in names}
Levels(L) == L[0] = roots /\ \A d \in Nat : L[d + 1] = L[d] \cup Follows(L[d])

\* Any set of numbers has a least one.
LEMMA LeastNumber ==
    ASSUME NEW T \in SUBSET Nat, T # {}
    PROVE  \E x \in T : \A y \in T : x <= y
<1> DEFINE Less == {s \in Nat \X Nat : s[1] < s[2]}
<1>1. OpToRel(<, Nat) = Less
  BY DEF OpToRel
<1>2. IsWellFoundedOn(Less, Nat)
  BY <1>1, NatLessThanWellFounded
<1>3. PICK x \in T : \A y \in T : ~(<<y, x>> \in Less)
  BY <1>2, WFMin
<1>4. ASSUME NEW y \in T PROVE x <= y
  <2>1. <<y, x>> \in Nat \X Nat
    OBVIOUS
  <2>2. ~(y < x)
    BY <1>3, <2>1
  <2> QED
    BY <2>2
<1> QED
  BY <1>4

LEMMA LevelsGrow ==
    ASSUME NEW L, Levels(L), NEW d \in Nat, NEW e \in Nat, d <= e
    PROVE  L[d] \subseteq L[e]
<1> DEFINE short == {i \in Nat : d <= i /\ ~(L[d] \subseteq L[i])}
<1> SUFFICES short = {}
  OBVIOUS
<1>1. SUFFICES ASSUME short # {} PROVE FALSE
  OBVIOUS
<1>2. PICK i \in short : \A j \in short : i <= j
  BY <1>1, LeastNumber
<1>3. i # d /\ i - 1 \in Nat /\ d <= i - 1 /\ L[d] \subseteq L[i - 1]
  BY <1>2
<1>4. L[(i - 1) + 1] = L[i - 1] \cup Follows(L[i - 1])
  BY <1>3 DEF Levels
<1> QED
  BY <1>2, <1>3, <1>4

\* Near is the recursive definition of the levels: the ends of the paths from the roots solve
\* its equation, so it has a solution.
LEMMA NearHasLevels == TypeOK => Levels(Near)
<1> SUFFICES ASSUME TypeOK PROVE Levels(Near)
  OBVIOUS
<1> DEFINE IsPath(p, d) == /\ p \in [0..d -> Names] /\ p[0] \in roots
                          /\ \A i \in 1..d : p[i] = p[i - 1] \/ p[i] \in Steps(p[i - 1])
           Ends(d) == {n \in Names : \E p : IsPath(p, d) /\ p[d] = n}
           ends == [d \in Nat |-> Ends(d)]
<1>1. roots \subseteq Names /\ \A n : Steps(n) \subseteq Names
  <2>1. db.symbols \subseteq Symbols /\ db.calls \subseteq Ids \X Names
    BY DEF TypeOK, Tables
  <2>2. \A n : Callers(n, {}) \subseteq Names
    BY <2>1 DEF Symbols, Ids, Callers
  <2>3. \A symbols : Callees(symbols) \subseteq Names
    BY <2>1 DEF Callees
  <2> QED
    BY <2>2, <2>3 DEF TypeOK, Steps
<1>2. Ends(0) = roots
  <2>1. ASSUME NEW n \in roots PROVE IsPath([i \in 0..0 |-> n], 0)
    BY <1>1
  <2>2. ASSUME NEW n \in roots PROVE n \in Ends(0)
    <3>1. [i \in 0..0 |-> n][0] = n
      OBVIOUS
    <3> QED
      BY <1>1, <2>1, <3>1
  <2> QED
    BY <2>2
<1>3. ASSUME NEW d \in Nat PROVE Ends(d + 1) = Ends(d) \cup Follows(Ends(d))
  <2>1. ASSUME NEW m \in Ends(d), NEW n \in Names, n = m \/ n \in Steps(m)
        PROVE  n \in Ends(d + 1)
    <3>1. PICK p : IsPath(p, d) /\ p[d] = m
      BY <2>1
    <3> DEFINE q == [i \in 0..(d + 1) |-> IF i = d + 1 THEN n ELSE p[i]]
    <3>2. q \in [0..(d + 1) -> Names] /\ q[0] = p[0] /\ q[d + 1] = n
      BY <3>1
    <3>3. ASSUME NEW i \in 1..(d + 1) PROVE q[i] = q[i - 1] \/ q[i] \in Steps(q[i - 1])
      <4>1. CASE i = d + 1
        <5>1. q[i] = n /\ q[i - 1] = m
          BY <3>1, <4>1
        <5> QED
          BY <2>1, <5>1
      <4>2. CASE i # d + 1
        <5>1. i \in 1..d /\ q[i] = p[i] /\ q[i - 1] = p[i - 1]
          BY <4>2
        <5> QED
          BY <3>1, <5>1
      <4> QED
        BY <4>1, <4>2
    <3> HIDE DEF q
    <3>4. IsPath(q, d + 1)
      BY <3>1, <3>2, <3>3
    <3> QED
      BY <3>2, <3>4
  <2>2. ASSUME NEW n \in Ends(d + 1)
        PROVE  \E m \in Ends(d) : n = m \/ n \in Steps(m)
    <3>1. PICK q : IsPath(q, d + 1) /\ q[d + 1] = n
      BY <2>2
    <3> DEFINE p == [i \in 0..d |-> q[i]]
    <3>2. IsPath(p, d) /\ p[d] = q[d]
      BY <3>1
    <3>3. d + 1 \in 1..(d + 1) /\ (d + 1) - 1 = d
      OBVIOUS
    <3>4. n = q[d] \/ n \in Steps(q[d])
      BY <3>1, <3>3
    <3>5. q[d] \in Ends(d)
      <4>1. q[d] \in Names
        BY <3>1
      <4> HIDE DEF p, IsPath
      <4> QED
        BY <3>2, <4>1
    <3> QED
      BY <3>4, <3>5
  <2> HIDE DEF Ends
  <2>3. Ends(d) \subseteq Names
    BY DEF Ends
  <2>4. Ends(d) \cup Follows(Ends(d)) \subseteq Ends(d + 1)
    BY <1>1, <2>1, <2>3 DEF Follows
  <2>5. Ends(d + 1) \subseteq Ends(d) \cup Follows(Ends(d))
    BY <2>2 DEF Follows
  <2> QED
    BY <2>4, <2>5
<1> DEFINE After(names) ==
      UNION {Callees(Named(n)) \cup Callers(n, {}) : n \in {m \in names : Named(m) # {}}}
<1>4. ASSUME NEW names PROVE After(names) = Follows(names)
  BY DEF Follows, Steps
<1> DEFINE Solves(g) == g = [d \in Nat |-> IF d = 0 THEN roots ELSE g[d - 1] \cup After(g[d - 1])]
<1>5. Solves(ends)
  <2> HIDE DEF Ends, After
  <2>1. ASSUME NEW d \in Nat PROVE Ends(d) = IF d = 0 THEN roots ELSE ends[d - 1] \cup After(ends[d - 1])
    <3>1. CASE d = 0
      BY <1>2, <3>1
    <3>2. CASE d # 0
      <4>1. d - 1 \in Nat /\ (d - 1) + 1 = d /\ ends[d - 1] = Ends(d - 1)
        BY <3>2
      <4> QED
        BY <1>3, <1>4, <3>2, <4>1
    <3> QED
      BY <3>1, <3>2
  <2> QED
    BY <2>1
<1>6. Solves(Near)
  <2>1. Near = CHOOSE g : Solves(g)
    BY DEF Near
  <2> HIDE DEF Solves, ends
  <2> QED
    BY <1>5, <2>1
<1> HIDE DEF After
<1>7. Near[0] = roots
  BY <1>6
<1>8. ASSUME NEW d \in Nat PROVE Near[d + 1] = Near[d] \cup Follows(Near[d])
  <2>1. d + 1 \in Nat /\ d + 1 # 0 /\ (d + 1) - 1 = d
    OBVIOUS
  <2>2. Near[d + 1] = Near[(d + 1) - 1] \cup After(Near[(d + 1) - 1])
    BY <1>6, <2>1
  <2> QED
    BY <1>4, <2>1, <2>2
<1> QED
  BY <1>7, <1>8 DEF Levels
-----------------------------------------------------------------------------
(* The search *)

QueuedAt(m, k) == \E i \in DOMAIN queue : queue[i].name = m /\ queue[i].depth = k
Queued(m) == \E i \in DOMAIN queue : queue[i].name = m
Covered(n) == Named(n) \subseteq found

\* The queue holds names of level k, then names of the next level; no symbol was taken
\* further away than that.
Ahead(L, k) ==
    /\ \A i, j \in DOMAIN queue : i <= j => queue[i].depth <= queue[j].depth
    /\ \A i \in DOMAIN queue : queue[i].depth \in {k, k + 1} /\ queue[i].name \in L[queue[i].depth]
    /\ \A s \in found : s.id.name \in L[k]

\* Nothing of level k is lost, and nothing that follows from what was taken.
Behind(L, k) ==
    /\ \A m \in L[k] : Covered(m) \/ QueuedAt(m, k)
    /\ k < MaxDepth => \A n \in L[k] : Covered(n) => \A m \in Steps(n) : Covered(m) \/ Queued(m)

\* A name's symbols are taken together.
Whole == \A n : Named(n) \cap found = {} \/ Covered(n)

SearchInv ==
    pc = "query" =>
        /\ \A s \in found : InScope(s)
        /\ Cardinality(found) <= MaxNodes
        /\ ~Full => Whole
        /\ \A L : Levels(L) => \E k \in 0..MaxDepth : Ahead(L, k) /\ (~Full => Behind(L, k))

\* The graph and its levels stay as they are during a question.
LEMMA SameGraph ==
    ASSUME UNCHANGED <<db, scope, roots>>
    PROVE  /\ \A n : Named(n)' = Named(n) /\ Steps(n)' = Steps(n)
           /\ \A s : InScope(s)' <=> InScope(s)
           /\ \A L : Levels(L)' <=> Levels(L)
<1>1. \A s : InScope(s)' <=> InScope(s)
  BY DEF InScope
<1>2. \A n : Named(n)' = Named(n)
  BY <1>1 DEF Named
<1>3. ASSUME NEW n PROVE Steps(n)' = Steps(n)
  BY <1>2 DEF Steps, Callees, Callers
<1>4. ASSUME NEW L PROVE Levels(L)' <=> Levels(L)
  BY <1>3 DEF Levels, Follows
<1> QED
  BY <1>1, <1>2, <1>3, <1>4

\* When level k is done, everything queued is of the next level and nothing of it is missing.
LEMMA NextLevel ==
    ASSUME TypeOK, NEW L, Levels(L), NEW k \in 0..MaxDepth, Ahead(L, k), Behind(L, k),
           queue # <<>>, Head(queue).depth # k
    PROVE  k + 1 \in 0..MaxDepth /\ Ahead(L, k + 1) /\ Behind(L, k + 1)
<1> DEFINE Entry == [name : Names, depth : 0..MaxDepth]
<1>1. queue \in Seq(Entry) /\ MaxDepth \in Nat
  BY ConstantsAssumption DEF TypeOK
<1>2. 1 \in DOMAIN queue /\ Head(queue) = queue[1] /\ \A i \in DOMAIN queue : i \in Nat /\ 1 <= i /\ queue[i] \in Entry
  <2> HIDE DEF Entry
  <2> QED
    BY <1>1
<1>3. ASSUME NEW i \in DOMAIN queue PROVE queue[i].depth = k + 1
  BY <1>1, <1>2 DEF Ahead
<1>4. k + 1 \in 0..MaxDepth /\ k < MaxDepth
  BY <1>1, <1>2, <1>3
<1>5. L[k + 1] = L[k] \cup Follows(L[k])
  BY <1>1 DEF Levels
<1>6. Ahead(L, k + 1)
  <2>1. \A s \in found : s.id.name \in L[k + 1]
    BY <1>5 DEF Ahead
  <2>2. \A i \in DOMAIN queue : queue[i].depth \in {k + 1, (k + 1) + 1} /\ queue[i].name \in L[queue[i].depth]
    BY <1>3 DEF Ahead
  <2>3. \A i, j \in DOMAIN queue : i <= j => queue[i].depth <= queue[j].depth
    BY DEF Ahead
  <2> QED
    BY <2>1, <2>2, <2>3 DEF Ahead
<1>7. ASSUME NEW m \in L[k] PROVE Covered(m)
  BY <1>3 DEF Behind, QueuedAt
<1>8. ASSUME NEW m \in L[k + 1] PROVE Covered(m) \/ QueuedAt(m, k + 1)
  <2>1. CASE m \in L[k]
    BY <1>7, <2>1
  <2>2. ASSUME NEW n \in L[k], m \in Steps(n) PROVE Covered(m) \/ QueuedAt(m, k + 1)
    <3>1. Covered(m) \/ Queued(m)
      BY <1>4, <1>7, <2>2 DEF Behind
    <3> QED
      BY <1>3, <3>1 DEF Queued, QueuedAt
  <2> QED
    BY <1>5, <2>1, <2>2 DEF Follows
<1>9. ASSUME NEW n \in L[k + 1], Covered(n), NEW m \in Steps(n) PROVE Covered(m) \/ Queued(m)
  <2>1. PICK s : s \in Named(n)
    BY <1>9 DEF Steps
  <2>2. n \in L[k]
    BY <1>9, <2>1 DEF Covered, Ahead, Named
  <2>3. m \in L[k + 1]
    BY <1>5, <1>9, <2>2 DEF Follows
  <2> QED
    BY <1>8, <2>3 DEF QueuedAt, Queued
<1> QED
  BY <1>4, <1>6, <1>8, <1>9 DEF Behind

\* Unless the answer is full, all symbols of the name are taken.
LEMMA TakeTakesAll ==
    ASSUME TypeOK, FiniteInv, ~Full, NEW n, NEW taken, Take(n, taken)
    PROVE  /\ taken \subseteq Named(n) /\ found' = found \cup taken
           /\ Cardinality(found') <= MaxNodes
           /\ ~Full' => Named(n) \subseteq found'
<1> DEFINE rest == Named(n) \ found
<1>1. taken \subseteq rest /\ found' = found \cup taken /\ MaxNodes \in Nat
  BY ConstantsAssumption DEF Take
<1>2. rest \subseteq db.symbols /\ found \subseteq db.symbols /\ IsFiniteSet(db.symbols)
  BY DEF Named, TypeOK, FiniteInv
<1>3. IsFiniteSet(rest) /\ IsFiniteSet(found)
  BY <1>2, FS_Subset
<1>4. IsFiniteSet(taken) /\ (Cardinality(taken) = Cardinality(rest) => taken = rest)
  BY <1>1, <1>3, FS_Subset
<1>5. Cardinality(rest) \in Nat /\ Cardinality(found) \in Nat /\ Cardinality(taken) \in Nat
  BY <1>3, <1>4, FS_CardinalityType
<1>6. Cardinality(found') = Cardinality(found) + Cardinality(taken)
  <2>1. found \cap taken = {} /\ Cardinality({}) = 0
    BY <1>1, FS_EmptySet
  <2>2. Cardinality(found \cup taken) =
           Cardinality(found) + Cardinality(taken) - Cardinality(found \cap taken)
    BY <1>3, <1>4, FS_Union
  <2>3. Cardinality(found \cap taken) = 0 /\ Cardinality(found') = Cardinality(found \cup taken)
    BY <1>1, <2>1
  <2> HIDE DEF rest
  <2> QED
    BY <1>5, <2>2, <2>3
<1>7. Cardinality(taken) = IF Cardinality(found) + Cardinality(rest) <= MaxNodes
                           THEN Cardinality(rest) ELSE MaxNodes - Cardinality(found)
  BY DEF Take
<1>8. Cardinality(found) < MaxNodes
  BY <1>1, <1>5 DEF Full
<1> HIDE DEF rest
<1>9. CASE Cardinality(found) + Cardinality(rest) <= MaxNodes
  <2>1. taken = rest /\ Cardinality(found') <= MaxNodes
    BY <1>1, <1>4, <1>5, <1>6, <1>7, <1>9
  <2> QED
    BY <1>1, <2>1 DEF rest
<1>10. CASE ~(Cardinality(found) + Cardinality(rest) <= MaxNodes)
  <2>1. Cardinality(found') = MaxNodes
    BY <1>1, <1>5, <1>6, <1>7, <1>10
  <2>2. Full'
    BY <1>1, <2>1 DEF Full
  <2> QED
    BY <1>1, <2>1, <2>2 DEF rest
<1> QED
  BY <1>9, <1>10
\* One turn of the loop at level k.
LEMMA Turn ==
    ASSUME TypeOK, FiniteInv, ~Full, \A s \in found : InScope(s), Whole,
           NEW L, Levels(L), NEW k \in 0..MaxDepth, Ahead(L, k), Behind(L, k),
           queue # <<>>, Head(queue).depth = k, NEW n, n = Head(queue).name,
           NEW taken, NEW order \in SetToSeqs(Reached(n, taken, k + 1)),
           Expand(taken, order)
    PROVE  Ahead(L, k)' /\ (~Full' => Behind(L, k)' /\ Whole')
<1> DEFINE reached == Reached(n, taken, k + 1)
           more == [i \in DOMAIN order |-> [name |-> order[i], depth |-> k + 1]]
           lt == Len(Tail(queue))
<1>1. MaxDepth \in Nat /\ L[k + 1] = L[k] \cup Follows(L[k])
  BY ConstantsAssumption DEF Levels
<1>2. /\ UNCHANGED <<db, scope, roots>>
      /\ Take(n, taken) /\ queue' = Tail(queue) \o more
  BY DEF Expand
<1>3. \A x : Named(x)' = Named(x) /\ Steps(x)' = Steps(x)
  BY <1>2, SameGraph
<1>4. /\ taken \subseteq Named(n) /\ found' = found \cup taken
      /\ ~Full' => Named(n) \subseteq found'
  BY <1>2, TakeTakesAll
<1>5. /\ 1 \in DOMAIN queue /\ n = queue[1].name /\ queue[1].depth = k
      /\ lt \in Nat /\ DOMAIN queue = 1..(lt + 1)
      /\ \A i \in 1..lt : Tail(queue)[i] = queue[i + 1]
  <2> DEFINE Entry == [name : Names, depth : 0..MaxDepth]
  <2>1. queue \in Seq(Entry)
    BY DEF TypeOK
  <2> HIDE DEF Entry
  <2> QED
    BY <2>1
<1>6. /\ order \in Seq(Names)
      /\ \A m : m \in reached <=> \E i \in DOMAIN order : order[i] = m
  BY ReachedAreNames DEF TypeOK
<1>7. /\ DOMAIN queue' = 1..(lt + Len(order)) /\ Len(order) \in Nat /\ DOMAIN order = 1..Len(order)
      /\ \A i \in 1..lt : queue'[i] = queue[i + 1]
      /\ \A i \in (lt + 1)..(lt + Len(order)) :
            queue'[i] = [name |-> order[i - lt], depth |-> k + 1]
  <2>1. Len(order) \in Nat /\ DOMAIN order = 1..Len(order)
    BY <1>6
  <2>2. more \in Seq([name : Names, depth : {k + 1}]) /\ Len(more) = Len(order)
    BY <1>6, <2>1
  <2>3. Tail(queue) \in Seq([name : Names, depth : 0..MaxDepth])
    BY <1>5 DEF TypeOK
  <2>4. \A i \in 1..Len(order) : more[i] = [name |-> order[i], depth |-> k + 1]
    BY <2>1
  <2> HIDE DEF more
  <2> DEFINE Entry == [name : Names, depth : Nat]
  <2>5. Tail(queue) \in Seq(Entry) /\ more \in Seq(Entry)
    <3>1. [name : Names, depth : {k + 1}] \subseteq Entry /\ [name : Names, depth : 0..MaxDepth] \subseteq Entry
      BY <1>1
    <3> HIDE DEF Entry
    <3> QED
      BY <2>2, <2>3, <3>1, SeqMonotonic
  <2> HIDE DEF Entry
  <2>6. /\ Len(Tail(queue) \o more) = Len(Tail(queue)) + Len(more)
        /\ \A i \in 1..(Len(Tail(queue)) + Len(more)) :
              (Tail(queue) \o more)[i] = IF i <= Len(Tail(queue)) THEN Tail(queue)[i]
                                        ELSE more[i - Len(Tail(queue))]
        /\ Tail(queue) \o more \in Seq(Entry)
    BY <2>5, ConcatProperties
  <2>7. DOMAIN queue' = 1..(lt + Len(order))
    BY <1>2, <2>2, <2>6
  <2>8. lt \in Nat /\ lt = Len(Tail(queue))
    BY <2>3, LenProperties
  <2> HIDE DEF lt
  <2>9. ASSUME NEW i \in 1..lt PROVE queue'[i] = Tail(queue)[i]
    BY <1>2, <2>1, <2>2, <2>6, <2>8
  <2>10. ASSUME NEW i \in (lt + 1)..(lt + Len(order))
         PROVE  queue'[i] = [name |-> order[i - lt], depth |-> k + 1]
    <3>1. queue'[i] = more[i - lt] /\ i - lt \in 1..Len(order)
      BY <1>2, <2>1, <2>2, <2>6, <2>8
    <3> QED
      BY <2>4, <3>1
  <2> QED
    BY <1>5, <2>1, <2>7, <2>8, <2>9, <2>10
<1> HIDE DEF lt, more
<1>8. reached \subseteq Steps(n)
  <2>1. taken # {} => Named(n) # {} /\ Callees(taken) \subseteq Callees(Named(n))
    BY <1>4 DEF Callees
  <2>2. Callers(n, found) \subseteq Callers(n, {})
    BY DEF Callers
  <2> QED
    BY <2>1, <2>2 DEF Reached, Steps
<1>9. n \in L[k]
  BY <1>5 DEF Ahead
<1>10. \A i \in DOMAIN order : order[i] \in L[k + 1]
  BY <1>1, <1>6, <1>8, <1>9 DEF Follows
<1> HIDE DEF reached
<1>11. Ahead(L, k)'
  <2>1. \A s \in found' : s.id.name \in L[k]
    BY <1>4, <1>9 DEF Ahead, Named
  <2>2. ASSUME NEW i \in 1..lt
        PROVE  i + 1 \in DOMAIN queue /\ queue'[i] = queue[i + 1] /\ queue'[i].depth \in {k, k + 1}
    BY <1>5, <1>7 DEF Ahead
  <2>3. ASSUME NEW i \in (lt + 1)..(lt + Len(order))
        PROVE  queue'[i].depth = k + 1 /\ queue'[i].name \in L[k + 1]
    <3>1. i - lt \in DOMAIN order
      BY <1>5, <1>7
    <3>2. queue'[i] = [name |-> order[i - lt], depth |-> k + 1]
      BY <1>7
    <3>3. order[i - lt] \in L[k + 1]
      BY <1>10, <3>1
    <3> QED
      BY <3>2, <3>3
  <2>4. ASSUME NEW i \in DOMAIN queue'
        PROVE  i \in 1..lt \/ i \in (lt + 1)..(lt + Len(order))
    BY <1>5, <1>7
  <2>5. ASSUME NEW i \in DOMAIN queue'
        PROVE  queue'[i].depth \in {k, k + 1} /\ queue'[i].name \in L[queue'[i].depth]
    BY <2>2, <2>3, <2>4 DEF Ahead
  <2>6. ASSUME NEW i \in DOMAIN queue', NEW j \in DOMAIN queue', i <= j
        PROVE  queue'[i].depth <= queue'[j].depth
    <3>1. CASE j \in 1..lt
      <4>1. i \in 1..lt /\ i + 1 <= j + 1
        BY <1>5, <1>7, <2>4, <2>6, <3>1
      <4> QED
        BY <2>2, <3>1, <4>1 DEF Ahead
    <3>2. CASE j \in (lt + 1)..(lt + Len(order))
      <4>1. queue'[j].depth = k + 1 /\ queue'[i].depth \in {k, k + 1}
        BY <2>3, <2>5, <3>2
      <4> QED
        BY <4>1
    <3> QED
      BY <2>4, <3>1, <3>2
  <2> QED
    BY <2>1, <2>5, <2>6 DEF Ahead
\* Only the first name leaves the queue.
<1>12. ASSUME NEW m, m # n
       PROVE  (QueuedAt(m, k) => QueuedAt(m, k)') /\ (Queued(m) => Queued(m)')
  <2>1. ASSUME NEW i \in DOMAIN queue, queue[i].name = m
        PROVE  \E j \in DOMAIN queue' : queue'[j] = queue[i]
    <3>1. i # 1
      BY <1>5, <1>12, <2>1
    <3>2. i - 1 \in 1..lt /\ (i - 1) + 1 = i
      BY <1>5, <3>1
    <3>3. i - 1 \in DOMAIN queue' /\ queue'[i - 1] = queue[i]
      BY <1>5, <1>7, <3>2
    <3> QED
      BY <3>3
  <2> QED
    BY <2>1 DEF QueuedAt, Queued
<1>13. ASSUME NEW m \in reached PROVE Queued(m)'
  <2>1. PICK i \in DOMAIN order : order[i] = m
    BY <1>6
  <2>2. i + lt \in (lt + 1)..(lt + Len(order)) /\ i + lt \in DOMAIN queue' /\ (i + lt) - lt = i
    BY <1>5, <1>7
  <2>3. queue'[i + lt].name = m
    <3>1. queue'[i + lt] = [name |-> order[(i + lt) - lt], depth |-> k + 1]
      BY <1>7, <2>2
    <3>2. order[(i + lt) - lt] = m
      BY <2>1, <2>2
    <3> QED
      BY <3>1, <3>2
  <2> QED
    BY <2>2, <2>3 DEF Queued
<1>14. \A m : Covered(m) => Covered(m)'
  BY <1>3, <1>4 DEF Covered
<1>15. ASSUME ~Full' PROVE Behind(L, k)' /\ Whole'
  <2>1. Covered(n)'
    BY <1>3, <1>4, <1>15 DEF Covered
  <2>2. \A s \in taken : s.id.name = n
    BY <1>4 DEF Named
  <2>3. \A m \in L[k] : Covered(m)' \/ QueuedAt(m, k)'
    BY <1>12, <1>14, <2>1 DEF Behind
  <2>4. ASSUME k < MaxDepth, NEW x \in L[k], Covered(x)', NEW m \in Steps(x)
        PROVE  Covered(m)' \/ Queued(m)'
    <3>1. CASE Covered(x)
      BY <1>12, <1>14, <2>1, <2>4, <3>1 DEF Behind
    <3>2. CASE ~Covered(x)
      <4>1. x = n /\ taken # {}
        <5>1. PICK s \in Named(x) : s \notin found
          BY <3>2 DEF Covered
        <5>2. s \in taken
          BY <1>3, <1>4, <2>4, <5>1 DEF Covered
        <5> QED
          BY <2>2, <5>1, <5>2 DEF Named
      <4>2. taken = Named(n)
        <5>1. Named(n) \cap found = {}
          BY <3>2, <4>1 DEF Whole
        <5> QED
          BY <1>4, <1>15, <5>1
      <4>3. reached = Callees(Named(n)) \cup Callers(n, found)
        BY <1>1, <2>4, <4>1, <4>2 DEF reached, Reached
      <4>4. m \in Callees(Named(n)) \/ m \in Callers(n, {})
        BY <2>4, <4>1 DEF Steps
      <4>5. CASE m \in Callees(Named(n))
        BY <1>13, <4>3, <4>5
      <4>6. CASE m \in Callers(n, {})
        <5>1. PICK r \in db.symbols : <<r.id, n>> \in db.calls /\ m = r.id.name
          BY <4>6 DEF Callers
        <5>2. CASE r \notin found
          BY <1>13, <4>3, <5>1, <5>2 DEF Callers
        <5>3. CASE r \in found
          <6>1. r \in Named(m)
            BY <5>1, <5>3 DEF Named
          <6>2. Covered(m)
            BY <5>3, <6>1 DEF Whole
          <6> QED
            BY <1>14, <6>2
        <5> QED
          BY <5>2, <5>3
      <4> QED
        BY <4>4, <4>5, <4>6
    <3> QED
      BY <3>1, <3>2
  <2>5. Behind(L, k)'
    BY <1>3, <2>3, <2>4 DEF Behind
  <2>6. ASSUME NEW x PROVE Named(x) \cap found' = {} \/ Covered(x)'
    <3>1. CASE x = n
      BY <2>1, <3>1
    <3>2. CASE x # n /\ Named(x) \cap found = {}
      <4>1. Named(x) \cap taken = {}
        BY <2>2, <3>2 DEF Named
      <4> QED
        BY <1>4, <3>2, <4>1
    <3>3. CASE Covered(x)
      BY <1>14, <3>3
    <3> QED
      BY <3>1, <3>2, <3>3 DEF Whole
  <2> QED
    BY <1>3, <2>5, <2>6 DEF Whole
<1> QED
  BY <1>11, <1>15
LEMMA HeadIsFirst ==
    ASSUME TypeOK, queue # <<>>
    PROVE  1 \in DOMAIN queue /\ Head(queue) = queue[1]
<1> DEFINE Entry == [name : Names, depth : 0..MaxDepth]
<1>1. queue \in Seq(Entry)
  BY DEF TypeOK
<1> HIDE DEF Entry
<1> QED
  BY <1>1

LEMMA SearchStep ==
    ASSUME TypeOK, FiniteInv, QueryInv, SearchInv, [Next]_vars
    PROVE  SearchInv'
<1> USE ConstantsAssumption
<1>1. ASSUME pc # "query", pc' # "query" \/ UNCHANGED <<pc>> PROVE SearchInv'
  BY <1>1 DEF SearchInv
<1>2. CASE Index
  <2>1. ASSUME NEW f, NEW p, NEW c, Open(f, p, c) PROVE pc # "query" /\ pc' # "query"
    BY <2>1 DEF Open
  <2>2. CASE Clear \/ ClearFails \/ Insert \/ CommitFails \/ EmbedNothing
    BY <1>1, <2>2 DEF Clear, ClearFails, Insert, CommitFails, EmbedNothing, EndIndexing
  <2>3. ASSUME NEW part, NEW last, NEW some, InsertFails(part, last, some)
        PROVE  pc # "query" /\ pc' # "query"
    BY <2>3 DEF InsertFails
  <2>4. ASSUME NEW v, NEW kept, Embed(v, kept) \/ EmbedUncleared(v, kept)
        PROVE  pc # "query" /\ pc' # "query"
    BY <2>4 DEF Embed, EmbedUncleared, EndIndexing
  <2> QED
    BY <1>1, <1>2, <2>1, <2>2, <2>3, <2>4 DEF Index
<1>3. ASSUME NEW p \in Labels, NEW names \in RootLists, Ask(p, names) PROVE SearchInv'
  <2>1. pc' = "query" /\ found' = {} /\ Cardinality(found') = 0 /\ roots' = ToSet(names) /\ db' = db
    BY <1>3, FS_EmptySet DEF Ask, QueryInv
  <2>2. /\ DOMAIN queue' = DOMAIN names
        /\ \A i \in DOMAIN names : queue'[i].name = names[i] /\ queue'[i].depth = 0
    BY <1>3 DEF Ask
  <2>3. 0 \in 0..MaxDepth /\ Cardinality(found') <= MaxNodes /\ Whole'
    BY <2>1 DEF Whole
  <2>4. ASSUME NEW L, Levels(L)' PROVE Ahead(L, 0)' /\ Behind(L, 0)'
    <3>1. L[0] = ToSet(names)
      BY <2>1, <2>4 DEF Levels
    <3>2. \A i \in DOMAIN names : names[i] \in L[0]
      BY <3>1 DEF ToSet
    <3>3. Ahead(L, 0)'
      BY <2>1, <2>2, <3>2 DEF Ahead
    <3>4. \A m \in L[0] : \E i \in DOMAIN names : names[i] = m
      BY <3>1 DEF ToSet
    <3>5. \A m \in L[0] : QueuedAt(m, 0)'
      BY <2>2, <3>4 DEF QueuedAt
    <3>6. \A n : Covered(n)' => Steps(n)' = {}
      BY <2>1 DEF Covered, Steps
    <3> QED
      BY <3>3, <3>5, <3>6 DEF Behind
  <2> QED
    BY <2>1, <2>3, <2>4 DEF SearchInv
<1>4. ASSUME pc = "query", queue # <<>>, NEW taken \in SUBSET Named(Head(queue).name),
             NEW order \in SetToSeqs(Reached(Head(queue).name, taken, Head(queue).depth + 1)),
             Expand(taken, order)
      PROVE  SearchInv'
  <2>1. /\ ~Full /\ Whole /\ Cardinality(found) <= MaxNodes /\ \A s \in found : InScope(s)
        /\ \A L : Levels(L) => \E k \in 0..MaxDepth : Ahead(L, k) /\ Behind(L, k)
    BY <1>4 DEF Expand, Answered, SearchInv
  <2>2. UNCHANGED <<db, scope, roots>> /\ Take(Head(queue).name, taken)
    BY <1>4 DEF Expand
  <2>3. taken \subseteq Named(Head(queue).name) /\ found' = found \cup taken /\ Cardinality(found') <= MaxNodes
    BY <2>1, <2>2, TakeTakesAll
  <2>4. (\A s \in found : InScope(s))'
    BY <2>1, <2>2, <2>3, SameGraph DEF Named
  <2>5. ASSUME NEW L, Levels(L)'
        PROVE  \E k \in 0..MaxDepth : Ahead(L, k)' /\ (~Full' => Behind(L, k)' /\ Whole')
    <3>1. Levels(L)
      BY <2>2, <2>5, SameGraph
    <3>2. PICK j \in 0..MaxDepth : Ahead(L, j) /\ Behind(L, j)
      BY <2>1, <3>1
    <3>3. PICK k \in 0..MaxDepth : Ahead(L, k) /\ Behind(L, k) /\ Head(queue).depth = k
      <4>1. CASE Head(queue).depth = j
        BY <3>2, <4>1
      <4>2. CASE Head(queue).depth # j
        <5>1. j + 1 \in 0..MaxDepth /\ Ahead(L, j + 1) /\ Behind(L, j + 1)
          BY <1>4, <3>1, <3>2, <4>2, NextLevel
        <5>2. 1 \in DOMAIN queue /\ Head(queue) = queue[1]
          BY <1>4, HeadIsFirst
        <5>3. Head(queue).depth \in {j, j + 1}
          BY <3>2, <5>2 DEF Ahead
        <5> QED
          BY <4>2, <5>1, <5>3
      <4> QED
        BY <4>1, <4>2
    <3>4. order \in SetToSeqs(Reached(Head(queue).name, taken, k + 1))
      BY <1>4, <3>3
    <3>5. Ahead(L, k)' /\ (~Full' => Behind(L, k)' /\ Whole')
      BY <1>4, <2>1, <3>1, <3>3, <3>4, Turn
    <3> QED
      BY <3>5
  <2>6. ~Full' => Whole'
    <3>1. PICK L : Levels(L)
      BY NearHasLevels
    <3>2. Levels(L)'
      BY <2>2, <3>1, SameGraph
    <3> QED
      BY <2>5, <3>2
  <2> QED
    BY <2>3, <2>4, <2>5, <2>6 DEF SearchInv
<1>5. CASE Answer \/ Crash
  BY <1>5 DEF Answer, Crash, EndQuery, SearchInv
<1>6. CASE UNCHANGED vars
  <2>1. UNCHANGED <<db, pc, scope, roots, queue, found>>
    BY <1>6 DEF vars, workVars, queryVars
  <2>2. /\ \A s : InScope(s)' <=> InScope(s)
        /\ \A L : Levels(L)' <=> Levels(L)
        /\ \A n : Named(n)' = Named(n) /\ Steps(n)' = Steps(n)
    BY <2>1, SameGraph
  <2>3. \A n : Covered(n)' <=> Covered(n)
    BY <2>1, <2>2 DEF Covered
  <2>4. (Full' <=> Full) /\ (Whole' <=> Whole)
    BY <2>1, <2>2, <2>3 DEF Full, Whole
  <2>5. ASSUME NEW L, NEW k PROVE (Ahead(L, k)' <=> Ahead(L, k)) /\ (Behind(L, k)' <=> Behind(L, k))
    <3>1. Ahead(L, k)' <=> Ahead(L, k)
      BY <2>1 DEF Ahead
    <3>2. \A m : (QueuedAt(m, k)' <=> QueuedAt(m, k)) /\ (Queued(m)' <=> Queued(m))
      BY <2>1 DEF QueuedAt, Queued
    <3>3. Behind(L, k)' <=> Behind(L, k)
      BY <2>2, <2>3, <3>2 DEF Behind
    <3> QED
      BY <3>1, <3>3
  <2> QED
    BY <2>1, <2>2, <2>4, <2>5 DEF SearchInv
<1> QED
  BY <1>2, <1>3, <1>4, <1>5, <1>6 DEF Next, Query

\* When the search ends it has found the neighbourhood, or as much of it as it may.
LEMMA SearchIsComplete ==
    TypeOK /\ FiniteInv /\ SearchInv => ContextIsNeighbourhood
<1> SUFFICES ASSUME TypeOK, FiniteInv, SearchInv, Answered
             PROVE  /\ found \subseteq Neighbourhood
                    /\ Cardinality(found) = IF Cardinality(Neighbourhood) <= MaxNodes
                                            THEN Cardinality(Neighbourhood) ELSE MaxNodes
  BY DEF ContextIsNeighbourhood
<1>1. MaxDepth \in Nat /\ MaxNodes \in Nat /\ Levels(Near)
  BY ConstantsAssumption, NearHasLevels
<1>2. /\ \A s \in found : InScope(s)
      /\ Cardinality(found) <= MaxNodes /\ (queue = <<>> \/ Full)
  BY DEF Answered, SearchInv
<1>3. PICK k \in 0..MaxDepth : Ahead(Near, k) /\ (~Full => Behind(Near, k))
  BY <1>1 DEF Answered, SearchInv
<1>4. found \subseteq Neighbourhood
  <2>1. Near[k] \subseteq Near[MaxDepth]
    BY <1>1, LevelsGrow
  <2>2. ASSUME NEW s \in found PROVE s \in Named(s.id.name) /\ s.id.name \in Near[MaxDepth]
    BY <1>2, <1>3, <2>1 DEF Named, Ahead, TypeOK
  <2> QED
    BY <2>2 DEF Neighbourhood
<1>5. IsFiniteSet(Neighbourhood) /\ IsFiniteSet(found) /\ Cardinality(found) <= Cardinality(Neighbourhood)
  <2>1. Neighbourhood \subseteq db.symbols
    BY DEF Neighbourhood, Named
  <2> QED
    BY <1>4, <2>1, FS_Subset DEF FiniteInv
<1>6. Cardinality(Neighbourhood) \in Nat /\ Cardinality(found) \in Nat
  BY <1>5, FS_CardinalityType
<1>7. CASE Full
  BY <1>1, <1>2, <1>4, <1>5, <1>6, <1>7 DEF Full
<1>8. CASE ~Full
  <2> DEFINE missing == {e \in Nat : k <= e /\ \E n \in Near[e] : ~Covered(n)}
  <2>1. queue = <<>> /\ Behind(Near, k)
    BY <1>2, <1>3, <1>8
  <2>2. \A n \in Near[k] : Covered(n)
    BY <2>1 DEF Behind, QueuedAt
  <2>3. ASSUME NEW e \in missing, \A i \in missing : e <= i, e <= MaxDepth PROVE FALSE
    <3>1. e # k /\ e - 1 \in Nat /\ (e - 1) + 1 = e /\ k < MaxDepth /\ k <= e - 1
      BY <1>1, <2>2, <2>3
    <3>2. e - 1 \notin missing
      BY <2>3, <3>1
    <3>3. \A n \in Near[e - 1] : Covered(n)
      BY <3>1, <3>2
    <3>4. Near[e] = Near[e - 1] \cup Follows(Near[e - 1])
      BY <1>1, <3>1 DEF Levels
    <3>5. PICK n \in Near[e] : ~Covered(n)
      BY <2>3
    <3>6. PICK m \in Near[e - 1] : n \in Steps(m)
      BY <3>3, <3>4, <3>5 DEF Follows
    <3>7. m \in Near[k]
      <4>1. PICK s : s \in Named(m)
        BY <3>6 DEF Steps
      <4> QED
        BY <1>3, <3>3, <3>6, <4>1 DEF Covered, Ahead, Named
    <3> QED
      BY <2>1, <2>2, <3>1, <3>5, <3>6, <3>7 DEF Behind, Queued
  <2>4. \A n \in Near[MaxDepth] : Covered(n)
    <3>1. SUFFICES ASSUME NEW n \in Near[MaxDepth], ~Covered(n) PROVE FALSE
      OBVIOUS
    <3>2. MaxDepth \in missing
      BY <1>1, <3>1
    <3>3. PICK e \in missing : \A i \in missing : e <= i
      BY <3>2, LeastNumber
    <3> QED
      BY <2>3, <3>2, <3>3
  <2>5. Neighbourhood = found
    BY <1>4, <2>4 DEF Neighbourhood, Covered
  <2> QED
    BY <1>2, <2>5
<1> QED
  BY <1>7, <1>8

\* get_context answers with the symbols at most max_depth calls away from the roots, callers and
\* callees, whatever the order in which they are queued, and with all of them unless they are
\* more than max_nodes: a symbol found on a long way is never missed on a shorter one.
THEOREM ContextIsComplete == Spec => []ContextIsNeighbourhood
<1>1. Init => SearchInv
  BY DEF Init, SearchInv
<1>2. TypeOK /\ FiniteInv /\ QueryInv /\ SearchInv /\ [Next]_vars => SearchInv'
  BY SearchStep
<1> QED
  BY <1>1, <1>2, SearchIsComplete, TypesHold, PTL DEF Spec
=============================================================================
