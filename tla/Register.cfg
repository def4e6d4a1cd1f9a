CONSTANTS
  MaxAttempts = 1
  MaxLive = 3
  MaxCalls = 3
  Pub = TRUE
  Expires = {"long"}
SPECIFICATION Spec
INVARIANTS ProgressIsCarried RestsUnlocked DimNeedsWake RegisteredIsRenewed
PROPERTY InProgressEnds
