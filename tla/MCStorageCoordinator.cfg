SPECIFICATION Spec
CONSTANTS
  MaxInterval = 2
  QueueDepth = 1
  ControlDepth = 2
  SampleDepth = 1
  BoundarySize = 1
  MaxEvent = 0
  EventPool = 1
  MaxOperation = 2
  MaxRetention = 1
  Faults = {"io", "reserve", "journal", "timeout", "reject", "stage", "freeze", "unfreeze", "cleanup", "evidence"}
  None = None
INVARIANTS FenceHolds EveryIntervalOwned
PROPERTIES EvidenceFrozen
