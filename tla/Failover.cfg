CONSTANTS
  Nil = Nil
  Users = {u1}
  Troubles = {"crash"}
  Upgrades = FALSE
  StartupTimeout = 1
  IdleTimeout = 0
  MaxFailures = 1
  BackoffFor <- MCBackoffFor
  MaxGap = 1
  MaxConcurrentStarts = 1
  MaxStamp = 0
  MaxRequests = 1
  MaxLag = 1
  MaxFaults = 1
  MaxCrashes = 1
  MaxEdits = 0
  MaxDuplicates = 0
SPECIFICATION FairSpec
PROPERTIES
  StartingEnds
