SPECIFICATION Spec
CONSTANTS
  b1 = b1
  b2 = b2
  c1 = c1
  c2 = c2
  ReservationIds = {b1, b2}
  Peers = {c1, c2}
  PermitRequests <- MCRequests
  MaxLifetime = 4
  UpLimit = 2
  DownLimit = 2
  MaxSessions = 2
  MaxTtl = 4
  SetupTimeout = 1
  MaxReplay = 3
  CacheCapacity = 2
  MsPerSecond = 2
  MaxBoot = 1
  MaxNow = 4
CONSTRAINT TwoAcrossRestart
INVARIANT ProbeCapacityOwned
PROPERTY OnlyReuseReopens
