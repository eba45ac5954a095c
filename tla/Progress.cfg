CONSTANTS
  Nil = Nil
  Users = {u1}
  Troubles = {"attach"}
  Upgrades = FALSE
  StartupTimeout = 1
  IdleTimeout = 0
  MaxFailures = 1
  BackoffFor <- MCBackoffFor
  MaxGap = 0
  MaxConcurrentStarts = 1
  MaxStamp = 0
  MaxRequests = 0
  MaxLag = 1
  MaxFaults = 1
  MaxCrashes = 0
  MaxEdits = 0
  MaxDuplicates = 0
SPECIFICATION FairSpec
PROPERTIES
  StartingEnds
  ScaleDownEnds
  WakeTakenUp
  BackoffEnds
