SPECIFICATION Spec
CONSTANTS
  s1 = s1
  s2 = s2
  s3 = s3
  a = a
  b = b
  NoSubmission = NoSubmission
  NoID = NoID
  Submission <- ThreeSubmissions
  IdOf <- RetriedId
  SubmissionID = {a, b}
  NumGraders = 2
  SignalOnMain = TRUE
  KillAllowed = FALSE
  Queried = {a}
INVARIANTS
  NeverForgotten
  RunningIsNotGraded
PROPERTIES
  AnswerWasTrue
  GradedIsFinal
CHECK_DEADLOCK FALSE
