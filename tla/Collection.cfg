SPECIFICATION Spec
CONSTANTS
  Key = {1, 2}
  MaxSeq = 3
  MaxFile = 4
  MaxSnapshot = 1
  MaxReopen = 1
  MayFail = TRUE
INVARIANTS  PartitionKeepsVersions InstalledTables
CHECK_DEADLOCK FALSE
