\* Answers of one or two, each looked for among three times as many, as in the code.
CONSTANTS
  c1 = c1  c2 = c2  c3 = c3  c4 = c4  m1 = m1  m2 = m2  m3 = m3  m4 = m4
  Chunks <- MCChunks
  Memories <- MCMemories
  Gone = Gone
  Owners <- MCOwners
  SemanticOrders <- MCSemanticOrders
  KeywordOrders <- MCKeywordOrders
  K = 60
  Breadth = 3
  DefaultTopK = 1
  MaxTopK = 2
SPECIFICATION Spec
INVARIANTS
  TypeOK
  AgreementIsKept
  OmissionsAreEarned
  ShortAnswersAreWasted
