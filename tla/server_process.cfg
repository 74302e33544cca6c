SPECIFICATION FairSpec
CONSTANTS
  NumGraders = 2
  Main = Main
  Handler = Handler
  Rest = Rest
  None = None
  Builds <- TwoBuilds
INVARIANTS
  CrashOnlyInStartup
  InfoIsComplete
PROPERTIES
  SignalEndsProcess
  GradingEnds
CHECK_DEADLOCK FALSE
