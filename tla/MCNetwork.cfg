SPECIFICATION Spec
CONSTANT MaxChange = 1
PROPERTIES SetupReachable Reconnects
