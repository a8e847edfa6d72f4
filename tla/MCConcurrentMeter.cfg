CONSTANTS
  Msgs = {m1, m2, m3, m4}
  Addrs = {a1, a2, a3}
  concurrent_addr = 2
  cache_queue_size = 2
  MaxFaults = 1
  None = None
SPECIFICATION FairSpec
INVARIANT TypeOK
INVARIANT OneOpenRequest
INVARIANT InOrder
INVARIANT AddressesAreLimited
PROPERTY AcceptedAreReported
CHECK_DEADLOCK FALSE
