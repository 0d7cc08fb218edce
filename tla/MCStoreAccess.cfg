\* Every sequence of requests, two of them under way at once.
CONSTANTS
  s1 = s1  s2 = s2  p = p  a = a  console = console  anonymous = anonymous  shared = shared
  Slots <- MCSlots
  Callers <- MCCallers
  Admins <- MCAdmins
  Console = console
  Anonymous = anonymous
  Names <- MCNames
  NoOwner = NoOwner
  Astray = Astray
SPECIFICATION Spec
INVARIANTS
  TypeOK
  ContentsBelongToOwner
  PersonalContentsStay
PROPERTIES
  ReadersSeeTheirOwn
SYMMETRY Symmetry
CONSTRAINT Few
