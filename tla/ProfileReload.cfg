SPECIFICATION ProfileSpec
CONSTANTS
  MaxProfiles = 2
  MaxPolicies = 2
PROPERTY ProfileHotReloads
CHECK_DEADLOCK FALSE
