CONSTANTS
  None = None
  Names = {n1, n2}
  Addresses = {a1, a2}
  Calls = {c1}
  MinBackoff = 1
  MaxBackoff = 3
  MaxDeletes = 2
  MaxDrops = 2
SPECIFICATION FairSpec
INVARIANTS
  TypeOK
  StaleHasACause
PROPERTIES
  WatchComesBack
