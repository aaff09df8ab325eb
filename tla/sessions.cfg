SPECIFICATION FairSpec
CONSTANTS
    Kinds = {"buffer", "module", "group"}
    Names <- MCNames
    Flawed = {"module"}
    Destroyable = {"buffer"}
    MaxIds = 1
    MaxDevices = 3
    MaxWire = 3
    Careful = TRUE
CHECK_DEADLOCK FALSE
INVARIANTS TypeOK FindsOwn CaughtUp
PROPERTY DroppedIsFreed
