\* Every history of additions, replacements, deletions, saves and restarts.
CONSTANTS
  c1 = c1  c2 = c2  c3 = c3  a = a  b = b
  ChunkIDs <- MCChunks
  Terms <- MCTerms
  Texts <- MCTexts
SPECIFICATION ISpec
INVARIANTS
  StatisticsAreExact
  SearchFindsEveryMatch
SYMMETRY Symmetry
