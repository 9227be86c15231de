\* A sensor whose northbound client is there before the portal answers; no kill.
SPECIFICATION RegFairSpec
CONSTANTS
  SubscriberOrder <- MCSubscriberOrder
  Granted = Granted
  OtherTenant = OtherTenant
  Unbound = Unbound
  Unresolved = Unresolved
  Issued = Issued
  Outdated = Outdated
  NoCredentials = NoCredentials
  NoClient = NoClient
  MaxOutages = 1
  MaxAgentKills = 0
PROPERTIES
  NorthboundReconnects
CHECK_DEADLOCK FALSE
