\* One user's volume, three sizes and two classes.
SPECIFICATION FairSpec
CONSTANTS
  MaxSize = 3
  Classes = {"fast", "slow"}
  MaxChanges = 3
  MaxFaults = 1
  Nil = Nil
INVARIANTS
  TypeOK
PROPERTIES
  NothingLowered
  StorageSettles
