CONSTANTS
  Exec <- TwoCalls
  Ids = {1}
  IdOf <- SharedTwo
  NoExec = NoExec
  MaxActive = 2
  SpareThreads = 1
SPECIFICATION Spec
INVARIANT OneLivePerId
PROPERTY ImplementsLifecycle
CHECK_DEADLOCK FALSE
