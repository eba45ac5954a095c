CONSTANTS
  Nil = Nil
  Users = {u1, u2}
  Target = 1
  MinIdleAge = 1
  DeleteVolumeData = TRUE
  MaxAge = 1
  MaxVisits = 4
  MaxDeletes = 1
  MaxFaults = 1
SPECIFICATION FairSpec
INVARIANTS
  TypeOK
  StampFollowsRelease
PROPERTIES
  NeverBelowTarget
  SeededClaimSurvives
  OrphanSwept
  OverageReclaimed
