CONSTANTS
  Exec <- TwoCalls
  Ids = {1, 2}
  IdOf <- FreshTwo
  NoExec = NoExec
  MaxActive = 1
  SpareThreads = 0
SPECIFICATION FairSpec
INVARIANT SlotAccounting
INVARIANT CloseStopsEverything
INVARIANT NoStrayCancellation
PROPERTY SlotReclaimed
CHECK_DEADLOCK FALSE
