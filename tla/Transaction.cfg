CONSTANT MayTerminate = TRUE
SPECIFICATION Spec
INVARIANTS OneOutcomeUnlessRace
PROPERTIES OutcomeIsReported TableIsCleared RetransmissionEnds
CHECK_DEADLOCK FALSE
