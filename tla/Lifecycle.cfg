CONSTANTS
  Nil = Nil
  Users = {u1}
  Troubles = {}
  Upgrades = TRUE
  StartupTimeout = 1
  IdleTimeout = 0
  MaxFailures = 1
  BackoffFor <- MCBackoffFor
  MaxGap = 0
  MaxConcurrentStarts = 1
  MaxStamp = 0
  MaxRequests = 2
  MaxLag = 2
  MaxFaults = 1
  MaxCrashes = 0
  MaxEdits = 1
  MaxDuplicates = 1
SPECIFICATION Spec
CONSTRAINT OneKind
INVARIANTS
  TypeOK
  ClaimBeforeDeployment
PROPERTIES
  IdleMeansNothingRuns
  StartingHasDeployment
  ImplementsContract
  ReapOnlyReapable
  NoStartOnAmbiguousVolume
