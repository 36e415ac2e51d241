SPECIFICATION MCSpec
CONSTANTS
  Inventories <- MCInventories
  Sizes = {2}
  MaxSessions = 2
  MaxEvents = 2
  InputDepth = 2
  CacheSize = 4
  IdrInterval = 4
  Rates = {1, 2}
  Framerates = {1, 2}
  MaxFrames = 4
  MaxCalls = 1
  Modes = {1, 2}
  MaxWakes = 2
  MaxStarts = 2
  MaxRequests = 1
  MaxChains = 2
  MaxFaults = 2
  Tokens = {1, 2}
  Epochs = {0, 1}
  MaxUpdates = 3
  MaxReplugs = 1
  MaxErrors = 1
  MaxCrashes = 1
INVARIANTS
    
    RunningHasItsMonitor
    PrivacySafe

    
CHECK_DEADLOCK FALSE
