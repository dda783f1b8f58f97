CONSTANTS
  a = a
  b = b
  c = c
  d = d
  Writer <- MCWriter
  Configs <- MCStalled
  MaxCalls = 1
SPECIFICATION Spec
INVARIANT NewerLinksMatch
CHECK_DEADLOCK FALSE
