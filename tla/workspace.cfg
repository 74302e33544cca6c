SPECIFICATION FairSpec
CONSTANTS
  s1 = s1
  s2 = s2
  a = a
  b = b
  NumGraders = 1
  Submission = {s1, s2}
  SubmissionID = {a, b}
  IdOf <- TwoIds
  Requests <- Mixed
  Tasks <- OneTask
  Nothing = Nothing
  Blank = Blank
  Torn = Torn
  MaxRestarts = 1
INVARIANTS
  TypeOK
  ForeignResultOnlyIfUnclean
  MountsAreFailures
  NoResultOnlyAfterFailure
  GradedIsWhole
PROPERTIES
  RunningIsSpared
  EveryGradingIsDone
CHECK_DEADLOCK FALSE
