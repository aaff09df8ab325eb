\* Two devices that create different kinds of resources.
SPECIFICATION Spec
CONSTANTS
  d1 = d1
  d2 = d2
  Sessions <- TwoDevices
  Creates <- Apart
  Large <- Sources
  MaxId <- Ids
  MaxValue = 1
  MaxRecordings <- Recs
  MaxCommands = 1
INVARIANTS TypeOK HolderGoesOn WritesAreFlushed
PROPERTIES ImplementsAlone
CHECK_DEADLOCK FALSE
