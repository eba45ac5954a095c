CONSTANTS
  Nil = Nil
  Replicas = {r1}
  Sessions = {s1, s2}
  Heartbeat = 2
  IdleTimeout = 1
  MaxTouchDelay = 0
  MaxFaults = 1
  MaxDeaths = 1
SPECIFICATION FairSpec
INVARIANTS
  TypeOK
  NeverUndercounts
PROPERTIES
  CountsDrain
