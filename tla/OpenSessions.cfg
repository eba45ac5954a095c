CONSTANTS
  Nil = Nil
  Replicas = {r1, r2}
  Sessions = {s1, s2}
  Heartbeat = 1
  IdleTimeout = 3
  MaxTouchDelay = 1
  MaxFaults = 0
  MaxDeaths = 1
SPECIFICATION Spec
SYMMETRY RouterSymmetry
INVARIANTS
  OpenSessionNotReapable
