CONSTANTS
  Caller = caller
  Callee = callee
  CallerRequests = 2
  CalleeRequests = 1
  MaxInFlight = 3
  ReInviters = {}
  ProxyRejects = FALSE
  caller = caller
  callee = callee
SPECIFICATION Spec
PROPERTIES AgreementKept AnswerEnds ByeCloses
CHECK_DEADLOCK FALSE
