\* One request of the console at a time.
SPECIFICATION FairSpec
CONSTANTS
  Profiles = {home}
  None = None
  Requests = {r1}
  MaxRequests = 2
  MaxRestarts = 0
PROPERTIES
  ReconnectStarts
