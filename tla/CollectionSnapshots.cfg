SPECIFICATION Spec
CONSTANTS
  Key = {1, 2}
  MaxSeq = 3
  MaxFile = 4
  MaxSnapshot = 1
  MaxReopen = 0
  MayFail = FALSE
INVARIANT SnapshotsReadable
CHECK_DEADLOCK FALSE
