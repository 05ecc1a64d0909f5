SPECIFICATION MCSpec
CONSTANTS
  Lines = 2
  RingInit = 2
  QDepth = 2
  Window = 3
  Drain = FALSE
  ZeroCopy = TRUE
  BurstMax = 2
  DownCap = 1
  SeqMod = 16
  InOrder = FALSE
  MaxPkt = 6
  MaxBad = 1
  MaxInflight = 1
  Nets <- MCNets
  NoNet = NoNet
  Targets <- MCTargets
  Sizes <- MCSizes
  MinSize <- MCMinSize
  MaxFrames = 3
  MaxQueued = 2
  LineWidth = 24
  Margin = 4
  GridSizes = {1, 2}
  Objects <- ObjectsDef
  Shifts <- ShiftsDef
  Dark = 100
  Light = 900
  Wild <- WildDef
  Phases = {1, 2, 3}
  MaxPairs = 1
  MaxBuilt = 2
  Chains <- ChainsDef
  Pictures <- PicturesDef
  Fields <- FieldsDef
  PoolSize = 2
  MaxPictures = 3
INVARIANTS
  FramesIntact
  FramesAccounted
  PicturesRight
PROPERTIES
  ImplementsStore
CHECK_DEADLOCK FALSE
