\* The main loop and the MQTT thread apply two bundles at once.
SPECIFICATION Spec
CONSTANTS
  Engines = {suricata}
  MaxVersion = 2
  Good = {1, 2}
  MqttEnabled = TRUE
  CrashEnabled = FALSE
  MaxPublish = 2
PROPERTIES
  NoDowngrade
