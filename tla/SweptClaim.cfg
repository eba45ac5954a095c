CONSTANTS
  Nil = Nil
  Users = {u1, u2}
  Target = 1
  MinIdleAge = 1
  DeleteVolumeData = TRUE
  MaxAge = 1
  MaxVisits = 5
  MaxDeletes = 1
  MaxFaults = 1
SPECIFICATION Spec
SYMMETRY ReclaimerSymmetry
PROPERTIES
  SweepOnlyFinishes
