\* A toggle of auto-reconnect while another request is carried out.
SPECIFICATION Spec
CONSTANTS
  Profiles = {home}
  None = None
  Requests = {r1, r2}
  MaxRequests = 3
  MaxRestarts = 0
PROPERTIES
  ToggleLeavesTunnel
