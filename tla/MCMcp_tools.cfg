SPECIFICATION Spec
CONSTANTS
  Transports = {"stdio", "http"}
  MaxCalls = 2
  MaxOwn = 3
INVARIANTS
  ReturnsTheAnswer
CHECK_DEADLOCK FALSE
