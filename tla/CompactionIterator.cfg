SPECIFICATION Spec
CONSTANTS
  KeySeqs <- MCKeySeqs
  MaxSnapshots = 2
INVARIANTS ReadsUnchanged OutputOrdered SeparatedSequence ConflictsSeen DeletesPreserved OutputFiles ObsoleteCounted
CHECK_DEADLOCK FALSE
