\* The user maps a range that does not start at offset 0, as wgpu allows.
SPECIFICATION Spec
CONSTANTS
  Size = 2
  MaxMaps = 2
  MaxWrites = 3
  MaxViews = 2
  Rooms = {2}
  WholeMaps = FALSE
  PatientUnmap = TRUE
INVARIANTS ViewShowsBuffer
CHECK_DEADLOCK FALSE
