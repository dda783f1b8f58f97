CONSTANTS
  j1 = j1
  j2 = j2
  Job <- MCJob
  Configs <- MCFailing
SPECIFICATION Spec
INVARIANT NamedFilesExist
CHECK_DEADLOCK FALSE
