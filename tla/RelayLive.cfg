CONSTANTS
  s1 = s1
  s2 = s2
  u1 = u1
  u2 = u2
  r1 = r1
  r2 = r2
  alice = alice
  bob = bob
  None = None
  Sessions <- MCSessions2
  Upstreams <- MCUpstreams1
  Records <- MCRecords1
  Churn = {"deregister","expire"}
  SupportsLogin = TRUE
  HostLogin = TRUE
  Quic = FALSE
  SubOf <- MCSubOf
SPECIFICATION FairSpec
PROPERTIES
    SlotIsFreed
    
CHECK_DEADLOCK FALSE
