SPECIFICATION Spec
CONSTANTS
  r1 = r1
  r2 = r2
  k1 = k1
  k2 = k2
  k3 = k3
  k4 = k4
  h1 = h1
  h2 = h2
  h3 = h3
  h4 = h4
  ReservationIds = {r1, r2}
  Keys = {k1, k2, k3, k4}
  RelayKeys = {h1, h2, h3, h4}
  Authorizations <- MCAuthorizations
  Nonces = {1}
  Expiries = {3}
  UpLimit = 2
  DownLimit = 2
  MaxSessions = 2
  MaxTtl = 4
  SetupTimeout = 1
  MaxReplay = 7
  CacheCapacity = 2
  MsPerSecond = 2
  MaxLives = 1
  MaxNow = 5
SYMMETRY HelperSymmetry
INVARIANTS NothingOutlivesItsPath EndpointsNeverShared
PROPERTIES AuthorizationSpentOnce
