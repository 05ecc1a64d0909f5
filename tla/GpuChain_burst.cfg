SPECIFICATION ChainSpec
CONSTANTS
  Setups <- BurstSetups
  Ring = 5
  FrcSpare = 0
  Hosts = 2
  Interval = 2
  StallTicks = 8
  MaxBack = 0
PROPERTIES Flows
CHECK_DEADLOCK FALSE
