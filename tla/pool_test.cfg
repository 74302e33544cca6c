SPECIFICATION FairSpec
CONSTANTS
  s1 = s1
  s2 = s2
  s3 = s3
  a = a
  b = b
  NoSubmission = NoSubmission
  NoID = NoID
  Submission <- TwoSubmissions
  IdOf <- DistinctIds
  SubmissionID = {a, b}
  NumGraders = 2
  SignalOnMain = FALSE
  KillAllowed = TRUE
  Queried = {}
INVARIANTS
  TypeOK
  AtMostOneGrader
  GradedOnce
  NullNeverUsed
  StoppedMeansJoined
PROPERTIES
  SubmissionIsStable
  ImplementsJobPool
  KillEnds
CHECK_DEADLOCK FALSE
