SPECIFICATION Spec
CONSTANTS
  s1 = s1
  s2 = s2
  a = a
  b = b
  NumGraders = 1
  Submission = {s1}
  SubmissionID = {a, b}
  IdOf <- OneId
  Requests <- AskSlow
  Tasks <- OneTask
  Nothing = Nothing
  Blank = Blank
  Torn = Torn
  MaxRestarts = 0
INVARIANTS
  DefaultServes
CHECK_DEADLOCK FALSE
