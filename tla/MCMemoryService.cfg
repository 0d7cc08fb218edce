\* Overlapping requests, failing calls and a crash.
CONSTANTS
  r1 = r1  r2 = r2  r3 = r3
  short = short  long = long
  NoContent = NoContent
  Requests <- MCRequests
  Contents <- MCContents
  ChunkCount <- MCChunkCount
  Embedding = TRUE
  MaxFaults = 2
SPECIFICATION Spec
INVARIANTS
  TypeOK
  QuietMemoriesAreCoherent
  EntriesAreReachable
SYMMETRY Symmetry
CHECK_DEADLOCK FALSE
