SPECIFICATION MqttFairSpec
CONSTANTS
  None = None
  Stories <- SameAgain
  Period = 2
  STORE = 6
  BURST = 1
  EVENT_BACKLOG = 1
  MaxTick = 2
  MaxRefusals = 0
  MaxConnections = 0
  Refusals = {}
CHECK_DEADLOCK FALSE
PROPERTIES
  EveryBurstReplays
