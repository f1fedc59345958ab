SPECIFICATION FairSpec
CONSTANTS
  r1 = r1
  r2 = r2
  c1 = c1
  d1 = d1
  d2 = d2
  d3 = d3
  k1 = k1
  k2 = k2
  k3 = k3
  k4 = k4
  k5 = k5
  k6 = k6
  e1 = e1
  e2 = e2
  ReservationIds = {r1}
  RelaysFor <- OneRelay
  ControlRelays = {c1}
  Paths = {1}
  ClientKeys = {k1, k2}
  Keys = {k1, k2}
  Nonces = {1}
  Expiries = {3}
  ExtensionIds = {}
  MaxExtensions = 2
  HoldRequests <- Repeated
  UpLimit = 2
  DownLimit = 2
  MaxSessions = 2
  MaxTtl = 4
  SetupTimeout = 2
  MaxReplay = 3
  CacheCapacity = 4
  MsPerSecond = 2
  MaxBoot = 0
  MaxNow = 6
PROPERTIES ExpiryDropsLeases
