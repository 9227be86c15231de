SPECIFICATION NorthSpec
CONSTANTS
  MaxAlerts = 3
  Rotations = 1
  Kills = 1
  MaxAttempts = 2
  Cti = {1, 3}
  Listed = {3}
  h1 = h1
  h2 = h2
  h3 = h3
  dnsHost = dnsHost
  HostOrder <- MCHostOrder
  Internet = {dnsHost}
  Frames <- MCFrames
  NoLevel = NoLevel
  MaxFrames = 3
  MaxSnapshots = 1
  Refused = {2}
  Torn = Torn
  MaxUpdates = 2
  MaxBundles = 2
  MaxUpdaterKills = 1
  MaxTroubles = 1
  MaxTallies = 2
INVARIANTS
  NothingSkipped
  Accounted
  DuplicatesExplained
  UpdateVouched
PROPERTIES
  EventuallySettled
  StatusFollows
  LevelIsMostConfident
CHECK_DEADLOCK FALSE
