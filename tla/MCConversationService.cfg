\* Two messages are enough for a summary; a failing call or a crash.
CONSTANTS
  r1 = r1  r2 = r2  r3 = r3
  Requests <- MCRequests
  LLM = TRUE
  Threshold = 2
  NoRecord = NoRecord
  NoSummary = NoSummary
  NoMessage = NoMessage
  MaxFaults = 1
SPECIFICATION Spec
INVARIANTS
  TypeOK
  CountsItsMessages
  SummaryIsAPrefix
  SummaryKeepsUp
  DeletionIsComplete
  AnswersMissNothing
PROPERTIES
  SummariesGrow
SYMMETRY Symmetry
CHECK_DEADLOCK FALSE
