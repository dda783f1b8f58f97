CONSTANTS
  a = a
  b = b
  c = c
  d = d
  Writer <- MCWriter
  Configs <- MCConfigs
  MaxCalls = 1
SPECIFICATION Spec
INVARIANTS NewerLinksMatch UnbatchedAlone PublishedInserted
PROPERTIES ImplementsWriteQueue EveryWriteAnswered
CHECK_DEADLOCK FALSE
