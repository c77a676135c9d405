CONSTANTS
  MaxSeq = 3
  Untimed = {2}
  MaxGen = 1
  PageLimit = 2
  PageBytes = 2
  Bytes <- MCBytes
  UnavailableLimit = 1
  QueueDepth = 2
  MaxSegment = 1
  Faults = {"power", "swap", "timeout", "expiry"}
  MaxFault = 1
SPECIFICATION Spec
INVARIANTS
  CursorBehindServer
  DeliveredBeforeForgotten
  GenerationKept
  NoUploadBehindEvidence
CHECK_DEADLOCK FALSE
PROPERTY BacklogDelivered
