SPECIFICATION Spec
CONSTANTS
  MaxFile = 5
  MaxOutputs = 2
  MaxGroup = 2
  ManifestMayFail = TRUE
INVARIANTS CountsMatch KeptItemOwnsSlot NoNumberLost
\* the file numbers run out
CHECK_DEADLOCK FALSE
