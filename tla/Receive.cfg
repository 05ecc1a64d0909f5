SPECIFICATION ReceiveSpec
CONSTANTS
  Lines = 2
  RingInit = 3
  QDepth = 2
  Window = 3
  Drain = TRUE
  ZeroCopy = TRUE
  BurstMax = 2
  DownCap = 1
  SeqMod = 4
  InOrder = TRUE
  MaxPkt = 8
  MaxBad = 0
  MaxInflight = 1
  MaxCount = 2
  Setups <- MCSetups
  Ring = 5
  FrcSpare = 0
  Hosts = 2
  Interval = 2
  StallTicks = 8
  MaxBack = 1
INVARIANTS
  QueueSound
  BackendsSafe
  BuffersSafe
  GridRigid
PROPERTIES
  Leaves
  ComesDown
  WireIncreases
  ChainFlows
CHECK_DEADLOCK FALSE
