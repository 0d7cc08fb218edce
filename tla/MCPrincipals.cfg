\* Overlapping requests, a failing call or a crash.
CONSTANTS
  r1 = r1  r2 = r2  r3 = r3  a = a  b = b  s = s  k0 = k0
  Requests <- MCRequests
  OldKeys = {k0}
  Ids <- MCIds
  Shared <- MCShared
  NoKey = NoKey
  Missing = Missing
  NoOwner = NoOwner
  MaxFaults = 1
  TTL = 2
SPECIFICATION TSpec
INVARIANTS
  TTypeOK
  RegistryIsUpToDate
  PrincipalsHaveAStore
PROPERTIES
  StoresKeepTheirOwner
  TokensFollowTheirKeys
SYMMETRY Symmetry
