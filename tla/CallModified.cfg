CONSTANTS
  Caller = caller
  Callee = callee
  CallerRequests = 2
  CalleeRequests = 1
  MaxInFlight = 2
  ReInviters = {caller, callee}
  ProxyRejects = TRUE
  caller = caller
  callee = callee
SPECIFICATION Spec
INVARIANTS TypeOK AnswerIsRepeated InviteIsPending ByeIsPending
PROPERTIES CloseIsFinal InviteOfferedOnce CallNeedsAnswer
CHECK_DEADLOCK FALSE
