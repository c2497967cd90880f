SPECIFICATION GatewaySpec
CONSTANTS
  Keys = {c1, c2, proxy}
  Clients = {c1, c2}
  Proxy = proxy
  Nobody = Nobody
  Free = Free
  Requests = {r1, r2}
  Cost = 2
  Cap = 3
  EvictAfter = 4
  MaxPause = 1
  Hops = 1
  TTL = 3
  Second = 2
  MaxTime = 6
  MaxRequests = 3
SYMMETRY Symmetry
INVARIANT RateBounded
PROPERTY KeepsQuota
PROPERTY TokenLifetime
CHECK_DEADLOCK FALSE
