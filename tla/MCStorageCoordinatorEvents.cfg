SPECIFICATION Spec
CONSTANTS
  MaxInterval = 1
  QueueDepth = 2
  ControlDepth = 2
  SampleDepth = 1
  BoundarySize = 1
  MaxEvent = 2
  EventPool = 2
  MaxOperation = 1
  MaxRetention = 1
  Faults = {"io", "reserve", "event", "timeout", "cleanup"}
  None = None
INVARIANTS EveryEventOwned
PROPERTIES BarrierAnswered
