SPECIFICATION MqttFairSpec
CONSTANTS
  None = None
  Stories <- OneDropout
  Period = 2
  STORE = 6
  BURST = 1
  EVENT_BACKLOG = 1
  MaxTick = 3
  MaxRefusals = 1
  MaxConnections = 0
  Refusals = {"replay"}
CHECK_DEADLOCK FALSE
PROPERTIES
  RetainedCatchesUp
