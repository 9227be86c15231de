\* The main loop and the MQTT thread, no kill but the exceptions they raise.
SPECIFICATION FairSpec
CONSTANTS
  Engines = {suricata}
  MaxVersion = 2
  Good = {1, 2}
  MqttEnabled = TRUE
  CrashEnabled = FALSE
  MaxPublish = 2
PROPERTIES
  CatchesUp
