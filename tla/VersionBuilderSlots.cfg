SPECIFICATION Spec
CONSTANTS
  MaxFile = 4
  MaxOutputs = 2
  MaxGroup = 2
  ManifestMayFail = FALSE
INVARIANTS OutputsKept
\* the file numbers run out
CHECK_DEADLOCK FALSE
