SPECIFICATION Spec
CONSTANTS
  t1 = t1
  t2 = t2
  Files = {f1, f2}
  Threads = {t1, t2}
  Numbers = {3, 4}
  None = None
  Uses <- MCUses
  MaxQueue = 1
INVARIANTS
  OneOwner
  StrayOnlyWhenClosed
PROPERTIES
  ConnectedIsConnected
  ConnectRestores
  CloseEndsWait
  TimedWaitEnds
