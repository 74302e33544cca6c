SPECIFICATION Spec
CONSTANTS
  Packages <- ThreePackages
  Wanted <- TwoGradings
  Nothing = Nothing
  Torn = Torn
  MaxInstalls = 1
INVARIANTS
  FailingScriptIsReported
CHECK_DEADLOCK FALSE
