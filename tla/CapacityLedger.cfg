SPECIFICATION FairSpec
CONSTANTS
  r1 = r1
  r2 = r2
  r3 = r3
  ReservationIds = {r1, r2, r3}
  UpLimit = 3
  DownLimit = 3
  MaxSessions = 2
  MaxTtl = 5
  SetupTimeout = 2
  MaxTime = 7
  Submitted <- MCSubmitted
INVARIANTS TypeOK CountersMatchGrants SlotsBounded
PROPERTIES ActiveKeepsCapacity EveryGrantEnds
