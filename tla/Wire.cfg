SPECIFICATION Spec
CONSTANTS
  MaxSrd = 3
  LoMod = 2
  HiMod = 4
  Formats <- MCFormats
  Picture <- MCPicture
  Pools = {6, 7}
  Batch = 2
  Txd = 3
  AudioTxd = 1
  Spins = 1
  Tries = 2
  MaxFrames = 3
  MaxAudio = 2
  MaxLost = 2
INVARIANTS BuffersKept Delivered
PROPERTIES SendReturns
CHECK_DEADLOCK FALSE
