CONSTANTS
  j1 = j1
  j2 = j2
  Job <- MCJob
  Configs <- MCConfigs
SPECIFICATION FairSpec
INVARIANT RecoveryIsPrefix
INVARIANT NumbersFresh
INVARIANT FilesInUseExist
INVARIANT CurrentExists
PROPERTY WritersAnswered
\* the file numbers run out
CHECK_DEADLOCK FALSE
