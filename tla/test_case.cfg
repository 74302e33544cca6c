SPECIFICATION FairSpec
CONSTANTS
  Word = {a, b}
  NoWord = NoWord
  Missing = Missing
  Cases <- AllCases
  TimeMs = 1500
  Capacity = 2
  MaxWords = 2
  MaxSize = 3
  CheckerMayDie = TRUE
INVARIANTS
  VerdictIsRight
  TimesAreRight
  LeftBehindOnlyOnError
  FdsReturned
PROPERTIES
  TestEnds
CHECK_DEADLOCK FALSE
