\* Two server processes at a time, in any mode, started with care.
SPECIFICATION FairSpec
CONSTANTS
  s1 = s1
  s2 = s2
  localhost = localhost
  host = host
  Absent = Absent
  Torn = Torn
  ById = ById
  Procs <- TwoServers
  Modes <- AllModes
  Names <- TwoNames
  Localhost = localhost
  ExtraSans <- Extra
  MaxKeys = 2
  MaxDials = 2
  Careful = TRUE
INVARIANTS TypeOK AnnouncedStays OutIsListener
PROPERTIES OthersDoNotMatter ServedInTurn
\* Nobody has to start or to dial again.
CHECK_DEADLOCK FALSE
