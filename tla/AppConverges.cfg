\* One app that is created twice, edited and given Workspaces.
SPECIFICATION FairSpec
CONSTANTS
  Specs <- AppSpecs
  Objects <- RouterObjects
  RouterImage = TRUE
  MaxFleet = 1
  MaxUids = 2
  MaxChanges = 2
  MaxFaults = 1
  Nil = Nil
INVARIANTS
  TypeOK
  RenderedIsUsable
PROPERTIES
  Converges
CHECK_DEADLOCK FALSE
