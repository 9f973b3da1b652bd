---------------------------- MODULE IndexerProofs ----------------------------
(***************************************************************************)
(* What the index holds, for any files, sources, limit and edits, wherever *)
(* a run is cut off.                                                       *)
(***************************************************************************)
EXTENDS Indexer, ChunkerProofs

ChunkingInv == ChunkTypeOK /\ ChunkInv /\ CoverInv

Versions ==
  /\ edits \in 0..MaxEdits
  /\ ver \in [Files -> 0..edits]
  /\ seen \in 0..edits
  /\ \A x \in store : x.file \in Files /\ x.ver \in 0..edits

FileInv ==
  /\ disk = [f \in Files |-> disk[f]]
  /\ \A f \in Files : disk[f] = Missing \/ IsSource(disk[f])
  /\ ipc \in {"idle", "walk", "chunk", "delete", "upsert"}
  /\ todo \subseteq Files
  /\ file \in Files
  /\ fresh \subseteq Files

\* While a file is worked on, its version tells whether the chunks are those of
\* its present text; each file is worked on once, and has no entries left when
\* the new ones are inserted.
Progress ==
  /\ ipc \in {"chunk", "delete", "upsert"} =>
       /\ seen = ver[file] => doc = disk[file]
       /\ file \notin fresh
       /\ file \notin todo
  /\ ipc \in {"delete", "upsert"} => cpc = "done" /\ chunks # {}
  /\ ipc = "upsert" => Entries(file) = {}
  /\ ipc # "idle" => fresh \cap todo = {}

Found == OneVersion /\ FreshIsSearchable

IndexInv == ChunkingInv /\ Versions /\ FileInv /\ Progress /\ Found

indexAll == <<chunkVars, indexVars>>

-----------------------------------------------------------------------------
LEMMA EmptyIsSource == IsSource(Empty)
BY EditsAssumption, SourcesAssumption

\* A call of chunk_source begins in a state that satisfies its invariants.
LEMMA CallBegins ==
  ASSUME NEW d, IsSource(d), Call(d)
  PROVE  ChunkingInv'
<1>1. ChunkTypeOK'
  BY DEF Call, ChunkTypeOK, IsSource
<1>2. ChunkInv' /\ CoverInv'
  BY DEF Call, ChunkInv, SpansApart, ChunksDisjoint, ChunksBounded, Phases, CoverInv
<1>3. QED
  BY <1>1, <1>2 DEF ChunkingInv

LEMMA ChunkingStutters ==
  ASSUME ChunkingInv, UNCHANGED chunkVars
  PROVE  ChunkingInv'
BY ChunkTypeStep, ChunkInvStep, CoverStep DEF ChunkingInv

LEMMA ChunkingStep ==
  ASSUME ChunkingInv, FileInv, [IndexNext]_indexAll
  PROVE  ChunkingInv'
<1>1. CASE \E f \in Files : ReadFile(f)
  BY <1>1, CallBegins DEF ReadFile, FileInv
<1>2. CASE ChunkStep
  BY <1>2, ChunkTypeStep, ChunkInvStep, CoverStep DEF ChunkStep, ChunkingInv
<1>3. CASE Chunked
  BY <1>3, CallBegins, EmptyIsSource, ChunkingStutters DEF Chunked, Forget
<1>4. CASE UpsertChunks \/ Abort
  BY <1>4, CallBegins, EmptyIsSource DEF UpsertChunks, Abort, Forget
<1>5. CASE \E f \in Files : Edit(f) \/ SkipUnreadable(f)
  BY <1>5, ChunkingStutters DEF Edit, SkipUnreadable
<1>6. CASE Start \/ DeleteByFile \/ End \/ UNCHANGED indexAll
  BY <1>6, ChunkingStutters DEF Start, DeleteByFile, End, indexAll
<1>7. QED
  BY <1>1, <1>2, <1>3, <1>4, <1>5, <1>6 DEF IndexNext

LEMMA VersionsStep ==
  ASSUME Versions, FileInv, [IndexNext]_indexAll
  PROVE  Versions'
<1> USE DEF Versions
<1>0. edits \in Nat /\ MaxEdits \in Nat
  BY EditsAssumption
<1>1. CASE \E f \in Files : Edit(f)
  <2>1. PICK f \in Files : Edit(f)
    BY <1>1
  <2>2. edits' = edits + 1 /\ edits' \in 0..MaxEdits
    BY <1>0, <2>1 DEF Edit
  <2>3. ver' = [ver EXCEPT ![f] = edits'] /\ seen' = seen /\ store' = store
    BY <2>1 DEF Edit
  <2>4. \A n \in 0..edits : n \in 0..edits'
    BY <1>0, <2>2
  <2>5. QED
    BY <1>0, <2>2, <2>3, <2>4
<1>2. CASE \E f \in Files : ReadFile(f)
  BY <1>2 DEF ReadFile
<1>3. CASE UpsertChunks
  <2>1. edits' = edits /\ ver' = ver /\ seen' = 0
    BY <1>3 DEF UpsertChunks, Forget
  <2>2. \A x \in store' : x.file \in Files /\ x.ver \in 0..edits
    BY <1>3 DEF UpsertChunks, Upserted, FileInv
  <2>3. QED
    BY <1>0, <2>1, <2>2
<1>4. CASE DeleteByFile
  BY <1>4 DEF DeleteByFile
<1>5. CASE Chunked \/ Abort
  BY <1>0, <1>5 DEF Chunked, Abort, Forget
<1>6. CASE \E f \in Files : SkipUnreadable(f)
  BY <1>6 DEF SkipUnreadable
<1>7. CASE Start \/ End \/ ChunkStep \/ UNCHANGED indexAll
  BY <1>7 DEF Start, End, ChunkStep, indexAll, indexVars
<1>8. QED
  BY <1>1, <1>2, <1>3, <1>4, <1>5, <1>6, <1>7 DEF IndexNext

LEMMA FilesStep ==
  ASSUME FileInv, [IndexNext]_indexAll
  PROVE  FileInv'
<1> USE DEF FileInv
<1>1. CASE \E f \in Files : Edit(f)
  <2>1. PICK f \in Files : Edit(f)
    BY <1>1
  <2>2. PICK d \in Edits \cup {Missing} : disk' = [disk EXCEPT ![f] = d]
    BY <2>1 DEF Edit
  <2>3. d = Missing \/ IsSource(d)
    BY <2>2, EditsAssumption, SourcesAssumption
  <2>4. disk' = [g \in Files |-> IF g = f THEN d ELSE disk[g]]
    BY <2>2
  <2>5. QED
    BY <2>1, <2>3, <2>4 DEF Edit
<1>2. CASE \E f \in Files : ReadFile(f) \/ SkipUnreadable(f)
  BY <1>2 DEF ReadFile, SkipUnreadable
<1>3. CASE UpsertChunks \/ DeleteByFile \/ Chunked \/ Abort
  BY <1>3 DEF UpsertChunks, DeleteByFile, Chunked, Abort, Forget
<1>4. CASE Start \/ End \/ ChunkStep \/ UNCHANGED indexAll
  BY <1>4 DEF Start, End, ChunkStep, indexAll, indexVars
<1>5. QED
  BY <1>1, <1>2, <1>3, <1>4 DEF IndexNext

LEMMA ProgressStep ==
  ASSUME ChunkingInv, Versions, FileInv, Progress, [IndexNext]_indexAll
  PROVE  Progress'
<1> USE DEF Progress
<1>1. CASE \E f \in Files : Edit(f)
  <2>1. PICK f \in Files : Edit(f)
    BY <1>1
  <2>2. /\ ver' = [ver EXCEPT ![f] = edits + 1] /\ fresh' = fresh \ {f}
        /\ UNCHANGED <<chunkVars, ipc, todo, file, seen, store>>
    BY <2>1 DEF Edit
  <2>3. \A g \in Files \ {f} : disk'[g] = disk[g] /\ ver'[g] = ver[g]
    BY <2>1, <2>2 DEF Edit, FileInv, Versions
  <2>4. seen # edits + 1 /\ ver'[f] = edits + 1
    BY <2>2, EditsAssumption DEF Versions
  <2>5. QED
    BY <2>2, <2>3, <2>4 DEF FileInv, Entries, chunkVars
<1>2. CASE \E f \in Files : ReadFile(f)
  BY <1>2 DEF ReadFile, Call
<1>3. CASE \E f \in Files : SkipUnreadable(f)
  BY <1>3 DEF SkipUnreadable
<1>4. CASE Start
  BY <1>4 DEF Start
<1>5. CASE ChunkStep
  BY <1>5 DEF ChunkStep, indexVars, ChunkNext, WholeFile, Parse, NextGap, LastGap,
              TakeSpan, Cut, EndOfSpan, Return
<1>6. CASE Chunked
  BY <1>6 DEF Chunked, chunkVars
<1>7. CASE DeleteByFile
  BY <1>7 DEF DeleteByFile, OldEntries, Entries, chunkVars
<1>8. CASE UpsertChunks
  BY <1>8 DEF UpsertChunks
<1>9. CASE End \/ Abort
  BY <1>9 DEF End, Abort
<1>10. CASE UNCHANGED indexAll
  BY <1>10 DEF indexAll, indexVars, chunkVars, Entries
<1>11. QED
  BY <1>1, <1>2, <1>3, <1>4, <1>5, <1>6, <1>7, <1>8, <1>9, <1>10 DEF IndexNext

\* What FreshIsSearchable says of one file.
Searchable(f) ==
  /\ Entries(f) # {}
  /\ \A x \in Entries(f) : x.ver = ver[f]
  /\ \A x, y \in Entries(f) : x # y => Apart(x.chunk, y.chunk)
  /\ \A n \in 0..disk[f].size :
       /\ n < disk[f].size
       /\ n \notin disk[f].blank
       /\ ~LeftOut(disk[f], n)
       => \E x \in Entries(f) : In(n, x.chunk)

LEMMA FreshOnes == /\ FreshIsSearchable <=> \A f \in fresh : Searchable(f)
                   /\ FreshIsSearchable' <=> \A f \in fresh' : Searchable(f)'
BY DEF FreshIsSearchable, Searchable

\* A file whose entries, text and version stay is as searchable as before.
LEMMA StaysSearchable ==
  ASSUME NEW f, Searchable(f), Entries(f)' = Entries(f),
         disk'[f] = disk[f], ver'[f] = ver[f]
  PROVE  Searchable(f)'
BY DEF Searchable, LeftOut, HeadEnd, Inner

\* A file whose present text has just been stored is searchable.
LEMMA StoredIsSearchable ==
  ASSUME ChunkingInv, Versions, FileInv, Progress, UpsertChunks,
         NEW f, f = file, seen = ver[f]
  PROVE  Searchable(f)'
<1>1. doc = disk[f] /\ cpc = "done" /\ chunks # {} /\ Entries(f) = {}
  BY DEF Progress, UpsertChunks
<1>2. Entries(f)' = {[file |-> f, chunk |-> c, ver |-> seen] : c \in chunks}
  BY <1>1 DEF Entries, UpsertChunks, Upserted
<1>3. disk' = disk /\ ver' = ver
  BY DEF UpsertChunks
<1>4. \A c, d \in chunks : c # d => Apart(c, d)
  BY DEF ChunkingInv, ChunkInv, ChunksDisjoint
<1>5. ChunksCover
  BY DEF ChunkingInv, ChunkInv, Phases, CoverInv, Kept, Text, ChunksCover
<1>6. \A n \in 0..disk[f].size :
        n < disk[f].size /\ n \notin disk[f].blank /\ ~LeftOut(disk[f], n)
        => \E c \in chunks : In(n, c)
  BY <1>1, <1>5 DEF ChunksCover
<1>7. \A n : LeftOut(disk[f], n)' <=> LeftOut(disk[f], n)
  BY <1>3 DEF LeftOut, HeadEnd, Inner
<1>8. \A x \in Entries(f)' : x.ver = ver[f] /\ x.chunk \in chunks
  BY <1>2
<1>9. \A x, y \in Entries(f)' : x # y => Apart(x.chunk, y.chunk)
  BY <1>2, <1>4
<1>10. ASSUME NEW c \in chunks
       PROVE  \E x \in Entries(f)' : x.chunk = c
  <2> DEFINE e == [file |-> f, chunk |-> c, ver |-> seen]
  <2>1. e \in Entries(f)'
    BY <1>2
  <2>2. e.chunk = c
    OBVIOUS
  <2>3. QED
    BY <2>1, <2>2
<1>11. ASSUME NEW n \in 0..disk[f].size, n < disk[f].size,
              n \notin disk[f].blank, ~LeftOut(disk[f], n)
       PROVE  \E x \in Entries(f)' : In(n, x.chunk)
  <2>1. PICK c \in chunks : In(n, c)
    BY <1>6, <1>11
  <2>2. PICK x \in Entries(f)' : x.chunk = c
    BY <1>10
  <2>3. QED
    BY <2>1, <2>2
<1>12. Entries(f)' # {}
  BY <1>1, <1>2
<1>13. QED
  BY <1>3, <1>7, <1>8, <1>9, <1>11, <1>12 DEF Searchable

LEMMA FoundStep ==
  ASSUME ChunkingInv, Versions, FileInv, Progress, Found, [IndexNext]_indexAll
  PROVE  Found'
<1> USE DEF Found
<1>1. CASE \E f \in Files : Edit(f)
  <2>1. PICK f \in Files : Edit(f)
    BY <1>1
  <2>2. store' = store /\ fresh' = fresh \ {f}
    BY <2>1 DEF Edit
  <2>3. \A g \in Files \ {f} : disk'[g] = disk[g] /\ ver'[g] = ver[g]
    BY <2>1 DEF Edit, FileInv, Versions
  <2>4. \A g : Entries(g)' = Entries(g)
    BY <2>2 DEF Entries
  <2>5. \A g \in fresh' : Searchable(g)'
    BY <2>2, <2>3, <2>4, FreshOnes, StaysSearchable DEF FileInv
  <2>6. QED
    BY <2>2, <2>5, FreshOnes DEF OneVersion
<1>2. CASE DeleteByFile
  <2>1. /\ store' = store \ Entries(file) /\ fresh' = fresh
        /\ disk' = disk /\ ver' = ver /\ file \notin fresh
    BY <1>2 DEF DeleteByFile, OldEntries, Progress
  <2>2. \A g : g # file => Entries(g)' = Entries(g)
    BY <2>1 DEF Entries
  <2>3. \A g \in fresh' : Searchable(g)'
    BY <2>1, <2>2, FreshOnes, StaysSearchable
  <2>4. QED
    BY <2>1, <2>3, FreshOnes DEF OneVersion
<1>3. CASE UpsertChunks
  <2>1. /\ store' = Upserted /\ disk' = disk /\ ver' = ver
        /\ Entries(file) = {} /\ file \notin fresh
        /\ fresh' = IF seen = ver[file] THEN fresh \cup {file} ELSE fresh
    BY <1>3 DEF UpsertChunks, Progress
  <2>2. \A g : g # file => Entries(g)' = Entries(g)
    BY <2>1 DEF Entries, Upserted
  <2>3. \A g \in fresh : Searchable(g)'
    BY <2>1, <2>2, FreshOnes, StaysSearchable
  <2>4. \A g \in fresh' : Searchable(g)'
    BY <1>3, <2>1, <2>3, StoredIsSearchable
  <2>5. OneVersion'
    <3>1. \A x \in store' : x.file = file => x.ver = seen
      BY <2>1 DEF Upserted, Entries
    <3>2. \A x \in store' : x.file # file => x \in store
      BY <2>1 DEF Upserted
    <3>3. QED
      BY <3>1, <3>2 DEF OneVersion
  <2>6. QED
    BY <2>4, <2>5, FreshOnes
<1>4. CASE \/ \E f \in Files : ReadFile(f) \/ SkipUnreadable(f)
           \/ Start \/ ChunkStep \/ Chunked \/ End \/ Abort \/ UNCHANGED indexAll
  <2>1. store' = store /\ disk' = disk /\ ver' = ver /\ fresh' \subseteq fresh
    BY <1>4 DEF ReadFile, SkipUnreadable, Start, ChunkStep, Chunked, End, Abort,
                indexAll, indexVars
  <2>2. \A g : Entries(g)' = Entries(g)
    BY <2>1 DEF Entries
  <2>3. \A g \in fresh' : Searchable(g)'
    BY <2>1, <2>2, FreshOnes, StaysSearchable
  <2>4. QED
    BY <2>1, <2>3, FreshOnes DEF OneVersion
<1>5. QED
  BY <1>1, <1>2, <1>3, <1>4 DEF IndexNext

-----------------------------------------------------------------------------
LEMMA IndexInvHolds == IndexSpec => []IndexInv
<1>1. IndexInit => IndexInv
  <2> SUFFICES ASSUME IndexInit PROVE IndexInv
    OBVIOUS
  <2>1. ChunkingInv
    BY EmptyIsSource DEF IndexInit, ChunkInit, ChunkingInv, ChunkTypeOK, IsSource,
       ChunkInv, SpansApart, ChunksDisjoint, ChunksBounded, Phases, CoverInv
  <2>2. Versions /\ Progress /\ Found
    BY EditsAssumption DEF IndexInit, Versions, Progress, Found, OneVersion,
       FreshIsSearchable
  <2>3. FileInv
    <3>1. PICK d \in Sources :
            disk = [f \in Files |-> IF f = file THEN d ELSE Missing]
      BY DEF IndexInit
    <3>2. QED
      BY <3>1, SourcesAssumption DEF IndexInit, FileInv
  <2>4. QED
    BY <2>1, <2>2, <2>3 DEF IndexInv
<1>2. IndexInv /\ [IndexNext]_indexAll => IndexInv'
  BY ChunkingStep, VersionsStep, FilesStep, ProgressStep, FoundStep DEF IndexInv
<1>3. QED
  BY <1>1, <1>2, PTL DEF IndexSpec, indexAll

\* Every variable of the indexer and of the chunker keeps its type.
THEOREM IndexTypeCorrect == IndexSpec => []IndexTypeOK
<1>1. IndexInv => IndexTypeOK
  <2> SUFFICES ASSUME IndexInv PROVE IndexTypeOK
    OBVIOUS
  <2>1. \A n \in 0..edits : n \in 0..MaxEdits
    BY EditsAssumption DEF IndexInv, Versions
  <2>2. ver \in [Files -> 0..MaxEdits]
    BY <2>1 DEF IndexInv, Versions
  <2>3. QED
    BY <2>1, <2>2 DEF IndexInv, IndexTypeOK, ChunkingInv, Versions, FileInv
<1>2. QED
  BY <1>1, IndexInvHolds, PTL

\* A search never mixes texts of different versions of one file.
THEOREM NeverMixed == IndexSpec => []OneVersion
<1>1. IndexInv => OneVersion
  BY DEF IndexInv, Found
<1>2. QED
  BY <1>1, IndexInvHolds, PTL

\* A file that was stored as it is can be found, byte for byte and once.
THEOREM FreshIsFound == IndexSpec => []FreshIsSearchable
<1>1. IndexInv => FreshIsSearchable
  BY DEF IndexInv, Found
<1>2. QED
  BY <1>1, IndexInvHolds, PTL
=============================================================================
