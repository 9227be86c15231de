\* Upload: three events, a restart of the sensor after which IDs repeat, one
\* kill, a buffer of two rows, one event that may be whitelisted.
\* Pipeline: two packets and one window, and then the sensor may stop.
\* ModeControl: three deliveries of five artifacts, two kills, and then nothing
\* more need happen.
\* IocMatch: one host, in either direction, three look-ups in five units of time, and
\* one new list.
SPECIFICATION PathSpec
CONSTANTS
  MaxEvents = 3
  SensorRestarts = 1
  Kills = 1
  BufferMax = 2
  Listed = {2}
  peer = peer
  plc = plc
  Peers = {peer}
  Asset = plc
  Packets <- MCPackets
  Policies <- MCPolicies
  MaxPackets = 2
  MaxWindows = 1
  s1 = s1
  s2 = s2
  ModeArtifacts <- MCModeArtifacts
  DefaultMode <- MCDefaultMode
  NoSession = NoSession
  ModeDeliveries = 3
  ModeKills = 2
  Hosts = {peer}
  Lists <- MCLists
  ReloadCheck = 2
  Cooldown = 2
  MaxTime = 4
  MaxWrites = 1
  MaxContacts = 3
INVARIANTS
  SessionAgrees
  Accounted
  DuplicatesExplained
  TrimsOldest
  AlertedOnce
  CoverageComplete
  ContactsReported
PROPERTIES
  EventuallySettled
  SensorFollows
CHECK_DEADLOCK FALSE
