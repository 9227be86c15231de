SPECIFICATION EdgeSpec
CONSTANTS
  r1 = r1
  b1 = b1
  b2 = b2
  q1 = q1
  q2 = q2
  TickSessions = {s1, s2}
  MaxTicks = 3
  MaxAssets = 1
  MaxBoots = 2
  Rulesets = {r1}
  Baselines = {b1, b2}
  NotGiven = NotGiven
  PolicyContents <- MCPolicyContents
  Requests = {q1, q2}
  Observed <- MCObserved
  MaxPublished = 1
  PolicyDeliveries = 1
  MaxSeconds = 1
  HistoryLength = 1
  Fields = {f1, f2}
  Values = {v0, v1}
  DefaultValue = v0
  Tenants = {t1}
  NoTenant = NoTenant
  Edits = {e1, e2}
  Registrations = {g1}
  MaxConsoleKills = 1
  APs = {a1, a2}
  NoLink = NoLink
  Keep = 1
  MaxPinned = 2
  FailThreshold = 2
  MaxConnects = 2
  MaxPins = 2
  MaxNetChanges = 1
  SubscriberOrder <- MCSubscriberOrder
  Granted = Granted
  OtherTenant = OtherTenant
  Unbound = Unbound
  Unresolved = Unresolved
  Issued = Issued
  Outdated = Outdated
  NoCredentials = NoCredentials
  NoClient = NoClient
  MaxOutages = 1
  MaxAgentKills = 1
  Whitelisting = {1}
  MaxLists = 2
  MaxFeedKills = 1
  MaxReboots = 1
  ta = ta
  tb = tb
  TopoAssets = {ta, tb}
  Patched <- MCPatched
  Overrides <- MCOverrides
  NotSet = NotSet
  NotShown = NotShown
  MaxOverrides = 2
  MaxTopoChanges = 2
  MaxTopoKills = 1
  MaxUnconfirmed = 1
INVARIANTS
  DeltasAddUp
  NothingOverwritten
  ConfigKept
  FallbacksInOrder
PROPERTIES
  OverridesShown
  SubscribersFollow
  ListEnforced
  TickContinuity
  PolicyFollows
  ConnectivityRestored
CHECK_DEADLOCK FALSE
