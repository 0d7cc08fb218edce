\* Overlapping calls, failing reads and writes, crashes.
CONSTANTS
  r1 = r1  r2 = r2  r3 = r3  r4 = r4  c1 = c1  c2 = c2
  Requests <- MCRequests
  Chunks <- MCChunks
  NoIndex = NoIndex
  MaxFaults = 2
SPECIFICATION Spec
INVARIANTS
  TypeOK
  OneIndex
PROPERTIES
  ImplementsPromise
SYMMETRY Symmetry
CHECK_DEADLOCK FALSE
