SPECIFICATION IddFairSpec
CONSTANTS
  Modes = {1, 2}
  MaxWakes = 1
  MaxStarts = 1
  MaxRequests = 1
  MaxChains = 1
  MaxFaults = 1
PROPERTY TransitionEnds
CHECK_DEADLOCK FALSE
