\* Overlapping requests and nothing fails.
CONSTANTS
  r1 = r1  r2 = r2  r3 = r3  a = a  b = b  s = s  k0 = k0
  Requests <- MCRequests
  OldKeys = {k0}
  Ids <- MCIds
  Shared <- MCShared
  NoKey = NoKey
  Missing = Missing
  NoOwner = NoOwner
  MaxFaults = 0
  TTL = 2
SPECIFICATION TSpec
PROPERTY RevokedKeysAreRefused
SYMMETRY Symmetry
