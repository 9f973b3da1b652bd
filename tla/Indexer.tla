------------------------------- MODULE Indexer -------------------------------
(***************************************************************************)
(* The semantic index of a repository: index_repository (rag/indexer.py)   *)
(* walks the files, chunks each (Chunker) and replaces the file's chunks   *)
(* in the ChromaDB collection (rag/vector_store.py), by a deletion and an  *)
(* insertion.  Files change while it runs, and it may be cut off anywhere. *)
(***************************************************************************)
EXTENDS Chunker

CONSTANTS
  Files,
  Edits,     \* the sources that a file may become, a subset of Sources
  MaxEdits   \* bound on the changes of all files

Empty == [size |-> 0, blank |-> {}, items |-> {}]

ASSUME EditsAssumption == /\ Edits \subseteq Sources
                          /\ Empty \in Sources
                          /\ MaxEdits \in Nat

VARIABLES
  disk,    \* the source in each file, or Missing
  edits,   \* how often files have changed: the version of the latest text
  ver,     \* the version of each file
  ipc,     \* where index_repository is
  todo,    \* the files that rglob has still to come to
  file,    \* the file it is at
  seen,    \* the version that it has read of it
  store,   \* the collection: chunk ids and the version of their text
  fresh    \* history: the files that the last run has stored as they are

indexVars == <<disk, edits, ver, ipc, todo, file, seen, store, fresh>>

Missing == [size |-> 0, blank |-> {}, items |-> {}, missing |-> TRUE]

IndexTypeOK ==
  /\ ChunkTypeOK
  /\ \A f \in Files : disk[f] = Missing \/ IsSource(disk[f])
  /\ edits \in 0..MaxEdits
  /\ ver \in [Files -> 0..MaxEdits]
  /\ ipc \in {"idle", "walk", "chunk", "delete", "upsert"}
  /\ todo \subseteq Files
  /\ file \in Files
  /\ seen \in 0..MaxEdits
  /\ \A x \in store : x.file \in Files /\ x.ver \in 0..MaxEdits
  /\ fresh \subseteq Files

\* One file to begin with; the others appear by edits.
IndexInit ==
  /\ ChunkInit
  /\ doc = Empty
  /\ file \in Files
  /\ \E d \in Sources : disk = [f \in Files |-> IF f = file THEN d ELSE Missing]
  /\ edits = 0
  /\ ver = [f \in Files |-> 0]
  /\ ipc = "idle"
  /\ todo = {}
  /\ seen = 0
  /\ store = {}
  /\ fresh = {}

Entries(f) == {x \in store : x.file = f}

\* A file is created, rewritten or removed, by the user or by the agent.
Edit(f) ==
  /\ edits < MaxEdits
  /\ \E d \in (Edits \cup {Missing}) \ {disk[f]} : disk' = [disk EXCEPT ![f] = d]
  /\ edits' = edits + 1
  /\ ver' = [ver EXCEPT ![f] = edits + 1]
  /\ fresh' = fresh \ {f}
  /\ UNCHANGED <<chunkVars, ipc, todo, file, seen, store>>

\* _iter_source_files is lazy: a file that appears later may still be yielded.
Start ==
  /\ ipc = "idle"
  /\ ipc' = "walk"
  /\ todo' = Files
  /\ fresh' = {}
  /\ UNCHANGED <<chunkVars, disk, edits, ver, file, seen, store>>

\* The locals of chunk_file and of the loop's body are gone.
Forget == Call(Empty) /\ seen' = 0

\* chunk_file reads the file.
ReadFile(f) ==
  /\ ipc = "walk"
  /\ f \in todo
  /\ disk[f] # Missing
  /\ Call(disk[f])
  /\ ipc' = "chunk"
  /\ todo' = todo \ {f}
  /\ file' = f
  /\ seen' = ver[f]
  /\ UNCHANGED <<disk, edits, ver, store, fresh>>

\* The file is not there, or it cannot be read (OSError): it is skipped.
SkipUnreadable(f) ==
  /\ ipc = "walk"
  /\ f \in todo
  /\ todo' = todo \ {f}
  /\ UNCHANGED <<chunkVars, disk, edits, ver, ipc, file, seen, store, fresh>>

ChunkStep == ipc = "chunk" /\ ChunkNext /\ UNCHANGED indexVars

\* chunk_file returns; a file without chunks is skipped.
Chunked ==
  /\ ipc = "chunk"
  /\ cpc = "done"
  /\ IF chunks = {} THEN ipc' = "walk" /\ Forget
                    ELSE ipc' = "delete" /\ UNCHANGED <<chunkVars, seen>>
  /\ UNCHANGED <<disk, edits, ver, todo, file, store, fresh>>

\* Mutation of OldEntries: the upsert is trusted to overwrite what was there.
OnlyOverwritten == {x \in Entries(file) : x.chunk \in chunks}

\* Mutation of OldEntries: the deletion without its where clause.
AllEntries == store

OldEntries == Entries(file)

DeleteByFile ==
  /\ ipc = "delete"
  /\ store' = store \ OldEntries
  /\ ipc' = "upsert"
  /\ UNCHANGED <<chunkVars, disk, edits, ver, todo, file, seen, fresh>>

\* The ids carry no version: an entry with the same id is overwritten.
Upserted ==
  {x \in store : x.file # file \/ x.chunk \notin chunks}
    \cup {[file |-> file, chunk |-> c, ver |-> seen] : c \in chunks}

UpsertChunks ==
  /\ ipc = "upsert"
  /\ store' = Upserted
  /\ ipc' = "walk"
  /\ fresh' = IF seen = ver[file] THEN fresh \cup {file} ELSE fresh
  /\ Forget
  /\ UNCHANGED <<disk, edits, ver, todo, file>>

End ==
  /\ ipc = "walk"
  /\ todo = {}
  /\ ipc' = "idle"
  /\ UNCHANGED <<chunkVars, disk, edits, ver, todo, file, seen, store, fresh>>

\* ChromaDB raises, or the process dies: the run ends where it is.
Abort ==
  /\ ipc # "idle"
  /\ ipc' = "idle"
  /\ todo' = {}
  /\ Forget
  /\ UNCHANGED <<disk, edits, ver, file, store, fresh>>

IndexNext ==
  \/ \E f \in Files : Edit(f) \/ ReadFile(f) \/ SkipUnreadable(f)
  \/ Start
  \/ ChunkStep
  \/ Chunked
  \/ DeleteByFile
  \/ UpsertChunks
  \/ End
  \/ Abort

IndexSpec == IndexInit /\ [][IndexNext]_<<chunkVars, indexVars>>

-----------------------------------------------------------------------------
\* A search never mixes texts of different versions of one file, whatever was
\* cut off or changed meanwhile: chunk ids are positions, so a chunk of an older
\* text could survive beside those of the newer one.
OneVersion == \A x, y \in store : x.file = y.file => x.ver = y.ver

\* A file that the last run has stored and that has not changed since is found
\* as it is: its entries cover its text once, but for what LeftOut says.
\* That holds after runs that were cut off between deletion and insertion, too.
FreshIsSearchable ==
  \A f \in fresh :
    /\ Entries(f) # {}
    /\ \A x \in Entries(f) : x.ver = ver[f]
    /\ \A x, y \in Entries(f) : x # y => Apart(x.chunk, y.chunk)
    /\ \A n \in 0..disk[f].size :
         /\ n < disk[f].size
         /\ n \notin disk[f].blank
         /\ ~LeftOut(disk[f], n)
         => \E x \in Entries(f) : In(n, x.chunk)
=============================================================================
