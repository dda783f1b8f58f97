SPECIFICATION Spec
CONSTANTS
  Key <- PlainKeys
  MaxFile = 3
  MaxVersion = 3
  MaxOutputs = 2
  MaxOpen = 2
  Reserved = 2
  ManifestMayFail = TRUE
  Reader = {r1}
INVARIANTS TypeOK EdgesClimb SaveToAsserts QueryAtomic AnswersInstalled
PROPERTIES HopStable QueryTerminates
CHECK_DEADLOCK FALSE
