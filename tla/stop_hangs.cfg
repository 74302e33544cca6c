SPECIFICATION FairSpec
CONSTANTS
  s1 = s1
  s2 = s2
  s3 = s3
  a = a
  b = b
  NoSubmission = NoSubmission
  NoID = NoID
  Submission = {s1}
  IdOf <- OneId
  SubmissionID = {a, b}
  NumGraders = 1
  SignalOnMain = FALSE
  KillAllowed = TRUE
  Queried = {}
PROPERTIES
  StopReturns
CHECK_DEADLOCK FALSE
