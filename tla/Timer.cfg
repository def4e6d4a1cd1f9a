CONSTANTS
  Timers = {t1, t2, t3}
  t1 = t1
  t2 = t2
  t3 = t3
SPECIFICATION TimerSpec
INVARIANTS EarlyHaltSilences DeadOnlyByLateHalt
PROPERTY StartedFires
