SPECIFICATION Spec
CONSTANTS
  x = x
  y = y
  CF <- MCCF
  Configs <- MCRecovering
CHECK_DEADLOCK FALSE
INVARIANT AckedSurvive
