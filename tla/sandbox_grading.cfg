SPECIFICATION FairSpec
CONSTANTS
  Arguments <- AllArguments
  Bad = Bad
  NoRun = NoRun
  Verdicts = {"OK", "FAILED", "TIMEOUT"}
INVARIANTS
  LastFileDecides
  OrderIsTopological
  RejectsOnlyInvalid
  GroupIsWorstOfOwnTests
  SkippedIffDependencyFailed
  NothingRunAfterFailure
  ReportIsComplete
PROPERTIES
  Terminates
CHECK_DEADLOCK FALSE
