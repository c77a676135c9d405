SPECIFICATION Spec
CONSTANTS
  MaxSegments = 4
  Unopened = 1
  AckPoints = {1}
  Untrusted <- MCUntrusted
  Cutoffs = {0, 3}
  Faults = {"mount", "write", "rename", "remove"}
  Fragile <- MCFragile
  None = None
  Torn = Torn
INVARIANTS SplitPairIsJournalled RecoveryNeverBlocks
PROPERTIES ImplementsHistory
