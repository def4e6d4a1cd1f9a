CONSTANTS
  Agents = {a1}
  MaxThreads = 2
SPECIFICATION Spec
INVARIANT NoCallLeftBehind
