CONSTANTS
  Agents = {a1, a2}
  MaxThreads = 2
SYMMETRY Accounts
VIEW WithoutOrphans
CONSTRAINT FewOnceRaced
SPECIFICATION Spec
INVARIANTS TypeOK PhoneShowsAgent IdleListens ShownCallExists
PROPERTY CallUndisturbed
