SPECIFICATION Spec
CONSTANTS
  Packages <- ThreePackages
  Wanted <- TwoGradings
  Nothing = Nothing
  Torn = Torn
  MaxInstalls = 3
INVARIANTS
  ZeroMeansInstalled
  QuietTaskServes
CHECK_DEADLOCK FALSE
