CONSTANTS
  Sources <- AllSources
  Edits <- SomeSources
  Files = {f1, f2}
  Size = 3
  MaxBytes = 2
  MaxEdits = 2
SPECIFICATION IndexSpec
INVARIANTS
  IndexTypeOK
  ChunksDisjoint
  ChunksBounded
  ChunksCover
  OneVersion
  FreshIsSearchable
CHECK_DEADLOCK FALSE
