CONSTANTS
  Payloads = {p1, p2, p3}
  NoPayload = NoPayload
  MaxGeneration = 5
SPECIFICATION Spec
INVARIANT ActiveIsAllowed
INVARIANT PreviousOnceActive
PROPERTY ImplementsCell
CHECK_DEADLOCK FALSE
