SPECIFICATION LinuxFairSpec
CONSTANTS
  Capacity = 1
  MaxSessions = 2
  MaxEvents = 3
  MaxPaints = 4
  Apis = {"virtual", "portal"}
  Sizes = {1, 2}
  StreamSize = 1
  Buffers = {1, 2}
  MaxFree = 2
CHECK_DEADLOCK FALSE
INVARIANTS
    PipewireSafe
    MutterSafe

    
    
