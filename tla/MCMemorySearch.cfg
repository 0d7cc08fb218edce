\* Both indexes, three writers that may overlap, one failing call or crash.
CONSTANTS
  r1 = r1  r2 = r2  r3 = r3  s1 = s1
  short = short  long = long
  NoContent = NoContent
  Requests <- MCRequests
  Contents <- MCContents
  ChunkCount <- MCChunkCount
  Searches = {s1}
  Embedding = TRUE
  MaxFaults = 1
SPECIFICATION SSpec
INVARIANT STypeOK
PROPERTY SearchIsExact
SYMMETRY Symmetry
