CONSTANTS
  Nil = Nil
  Users = {u1, u2}
  Troubles = {}
  Upgrades = FALSE
  StartupTimeout = 1
  IdleTimeout = 0
  MaxFailures = 1
  BackoffFor <- MCBackoffFor
  MaxGap = 0
  MaxConcurrentStarts = 1
  MaxStamp = 1
  MaxRequests = 2
  MaxLag = 1
  MaxFaults = 0
  MaxCrashes = 0
  MaxEdits = 0
  MaxDuplicates = 0
SPECIFICATION Spec
INVARIANTS
  StartsBounded
PROPERTIES
  NoOvertaking
SYMMETRY UserSymmetry
