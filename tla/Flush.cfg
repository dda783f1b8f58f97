SPECIFICATION Spec
CONSTANTS
  x = x
  y = y
  CF <- MCCF
  Configs <- MCConfigs
INVARIANTS
  CountsMatch AckedSurvive BatchesWhole NothingForgotten CommittedInOrder
  ReplayedOnce
PROPERTY EverythingFlushed
CHECK_DEADLOCK FALSE
