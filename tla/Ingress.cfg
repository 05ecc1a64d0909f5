SPECIFICATION FairSpec
CONSTANTS
  MulticastBase = 8
  MacSpace = 4
  OwnHost = 1
  KernelGroups = {12}
  Configs <- ConfigsDef
  Foreign <- ForeignDef
  Lens <- LensDef
  Interval = 1
  Gap = 1
  Aging = 8
  Lossy = 1
  Leaps <- LeapsDef
  MaxLeaps = 1
  MaxStarts = 2
INVARIANTS StreamsKept RightPlace
PROPERTY Reached
CHECK_DEADLOCK FALSE
