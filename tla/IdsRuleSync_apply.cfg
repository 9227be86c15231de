\* One thread, the process killed at any point; one engine, a bundle the
\* engine cannot run (2) between two it can.
SPECIFICATION Spec
CONSTANTS
  Engines = {suricata}
  MaxVersion = 3
  Good = {1, 3}
  MqttEnabled = FALSE
  CrashEnabled = TRUE
  MaxPublish = 5
INVARIANTS
  LastKnownGood
  EngineRunsReported
  AckedIsRecorded
PROPERTIES
  ImplementsRegister
