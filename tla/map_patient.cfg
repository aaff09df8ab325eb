\* The use the drop-in supports: maps from offset 0, unmap after the callback.
SPECIFICATION Spec
CONSTANTS
  Size = 3
  MaxMaps = 2
  MaxWrites = 3
  MaxViews = 2
  Rooms = {2, 3}
  WholeMaps = TRUE
  PatientUnmap = TRUE
INVARIANTS TypeOK HeldFromMapUntilUnmap ViewShowsBuffer StoreCatchesUp NothingAfterDestroy
\* The user may have dropped the buffer, or may be done with it.
CHECK_DEADLOCK FALSE
