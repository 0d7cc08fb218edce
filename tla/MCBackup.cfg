\* Endless backups, writers that overlap them, one failing call or crash.
CONSTANTS
  b1 = b1  b2 = b2  w1 = w1  d = d  g = g
  reg = reg  v1 = v1  v2 = v2  v3 = v3  v4 = v4  v5 = v5
  Runs <- MCRuns
  Writers <- MCWriters
  Docs <- MCDocs
  Gobs <- MCGobs
  Registry = reg
  Versions <- MCVersions
  Walk <- MCWalk
  Absent = Absent
  Torn = Torn
  MaxFaults = 1
SPECIFICATION FairSpec
INVARIANTS
  TypeOK
PROPERTIES
  SuccessMeansSaved
  ErrorsHaveACause
  EverythingIsSaved
