CONSTANTS
  s1 = s1
  s2 = s2
  u1 = u1
  u2 = u2
  r1 = r1
  r2 = r2
  alice = alice
  bob = bob
  None = None
  Sessions <- MCSessions2
  Upstreams <- MCUpstreams2
  Records <- MCRecords2
  Churn = {"deregister"}
  SupportsLogin = FALSE
  HostLogin = FALSE
  Quic = TRUE
  SubOf <- MCNoSub
SPECIFICATION Spec
INVARIANTS
    SlotExclusive
    BoundOwnsSlot
SYMMETRY AnonSymmetry
CHECK_DEADLOCK FALSE
