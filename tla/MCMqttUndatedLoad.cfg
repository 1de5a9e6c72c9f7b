SPECIFICATION MqttFairSpec
CONSTANTS
  None = None
  Stories <- Undated
  Period = 2
  STORE = 3
  BURST = 1
  EVENT_BACKLOG = 1
  MaxTick = 3
  MaxRefusals = 0
  MaxConnections = 0
  Refusals = {}
CHECK_DEADLOCK FALSE
PROPERTIES
  PointsKeepCadence
