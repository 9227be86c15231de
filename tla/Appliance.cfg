\* VpnClient: two requests of the console at a time, one profile, one container restart.
\* Capture: one failing frame, kill, stop and loss of the interface.
\* SensorJobs: two requests in threads at a time and in all, two uploads, one restart.
\* Identity: two IDs to choose from, two boots, two changes of platform.json.
\* DeviceDrivers: two drivers, one device, two requests at a time.
\* HostNetwork: two Wi-Fi cards, one wired interface, two requests, one change by itself.
SPECIFICATION ApplianceSpec
CONSTANTS
  Profiles = {home}
  None = None
  Requests = {r1, r2}
  MaxRequests = 3
  MaxRestarts = 1
  MaxErrors = 1
  MaxSensorKills = 1
  MaxStops = 1
  MaxUnplugs = 1
  Ips = {p1}
  JobRequests = {b1, b2}
  MaxUploads = 2
  MaxJobs = 2
  MaxSensorEnds = 1
  Chosen = {i1, i2}
  Golden = Golden
  Placeholder = Placeholder
  NoLine = NoLine
  Missing = Missing
  MaxSaves = 2
  MaxBoots = 2
  MaxMade = 5
  Drivers = {d1, d2}
  Devices = {n1}
  Edited = d1
  HandMade = HandMade
  DrvRequests = {w1, w2}
  MaxDeviceSaves = 2
  MaxDeletes = 1
  MaxDriverExits = 1
  MaxDrvKills = 1
  Cards = {c1, c2}
  Wired = {e1}
  NetRequests = {q1, q2}
  MaxAsked = 2
  MaxHostChanges = 1
INVARIANTS
  RunsWhatWasAsked
  SessionAlive
  ProgramReleased
  SameIdentity
  DriversRunSaved
  JobsTellTruth
PROPERTIES
  TunnelObeys
  CaptureKept
  NotLockedOut
CHECK_DEADLOCK FALSE
