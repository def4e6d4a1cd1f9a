CONSTANTS
  Caller = caller
  Callee = callee
  CallerRequests = 2
  CalleeRequests = 1
  MaxInFlight = 2
  ReInviters = {callee}
  ProxyRejects = FALSE
  caller = caller
  callee = callee
SPECIFICATION Spec
PROPERTY ByeCloses
CHECK_DEADLOCK FALSE
