CONSTANTS
  MaxSize = 3
  Requestable <- MCRequestable
  Hosts <- MCHosts
  MaxQueue = 2
  MaxEvents = 2
SPECIFICATION FairSpec
INVARIANTS
    EncoderMatchesFrames

    
CHECK_DEADLOCK FALSE
