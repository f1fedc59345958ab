SPECIFICATION Spec
CONSTANTS
  r1 = r1
  r2 = r2
  c1 = c1
  d1 = d1
  d2 = d2
  d3 = d3
  k1 = k1
  k2 = k2
  k3 = k3
  k4 = k4
  k5 = k5
  k6 = k6
  e1 = e1
  e2 = e2
  ReservationIds = {r1, r2}
  RelaysFor <- OneRelay
  ControlRelays = {c1}
  Paths = {1, 2, 3}
  ClientKeys = {k1, k2, k3}
  Keys = {k4, k5, k6}
  Nonces = {1}
  Expiries = {1}
  ExtensionIds = {e1, e2}
  MaxExtensions = 2
  HoldRequests <- Situations
  UpLimit = 2
  DownLimit = 2
  MaxSessions = 2
  MaxTtl = 4
  SetupTimeout = 2
  MaxReplay = 6
  CacheCapacity = 5
  MsPerSecond = 2
  MaxBoot = 1
  MaxNow = 4
SYMMETRY IdSymmetry
CONSTRAINT OneSituation
INVARIANTS TypeOK CachedAnswersCurrent KeysNeverShared OnlyAnsweredIsSeen AnsweredOnce
           OwnerTakenOnce OnePathAtATime NoGhostCapacity
PROPERTY ConfirmedPathsKept
