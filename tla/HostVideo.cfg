SPECIFICATION HostVideoSpec
CONSTANTS
  Hosts <- MCHosts
  Candidates <- MCCandidates
  Interval = 3
  FrameNumBits = 1
  Rates = {1, 2}
  MaxFrames = 4
  MaxRequests = 2
  PoolSize = 2
  MaxEncodes = 4
  MaxFaults = 3
  Capacity = 2
  Threshold = 3
  MaxEncoded = 5
  MaxSide = 1
  MaxConnects = 2
INVARIANTS
    EncodersSafe
    
    
PROPERTIES
    StreamIsDecodable
    PicturesInOrder
    CallsReturn
    SenderCatchesUp
CHECK_DEADLOCK FALSE
