\* The process is killed while a bundle is on trial; the next apply backs it up.
SPECIFICATION Spec
CONSTANTS
  Engines = {suricata}
  MaxVersion = 3
  Good = {1, 3}
  MqttEnabled = FALSE
  CrashEnabled = TRUE
  MaxPublish = 5
INVARIANTS
  RollbackRestoresGood
