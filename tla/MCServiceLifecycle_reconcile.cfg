SPECIFICATION FairSpec
CONSTANTS
  Settings = {s1, s2}
  Port <- OnePort
  MaxDefs = 2
  MaxLaunches = 2
  Retries = 0
  MaxFaults = 0
PROPERTY LaterCommandReconciles
