SPECIFICATION ConfigSpec
CONSTANTS
  s1 = s1
  m1 = m1
  m2 = m2
  g1 = g1
  g2 = g2
  Sizes = {s1}
  NoSize = NoSize
  Rates = {}
  NoRate = NoRate
  BaseRate = 5994
  FrcModes = {0, 3}
  SeedFormat <- Seed
  Masters = {m1, m2}
  NoMaster = NoMaster
  SeedMaster = m1
  Destinations = {g1, g2}
  AutoDest = AutoDest
  NoFile = NoFile
  NoRead = NoRead
  MaxChanges = 0
  MaxMishaps = 0
  Sources <- MCSources
  Settings <- MCSettings
  Machines <- MCMachines
  Profile <- HD
  TotalLines <- MCTotal
  TallLines = 48
  ShortRing = 182
  LongRing = 364
  BridgeTime = 2048
  None = None
  MaxPlans = 0
  Full <- MCFull
  Fallback <- MCFallback
  Foreign <- MCWritten
  MaxPolls = 1
  MaxActs = 3
  MaxUpsets = 1
  Others <- MCOthers
  Dests = {"monitor"}
  KindOf <- MCKindOf
  File <- MCFile
  FramedBy <- MCFramedBy
  ListedBy <- MCListedBy
  MaxOps = 0
  MaxPresses = 0
  MaxRefreshes = 0
  MaxTroubles = 0
PROPERTY UnsavedStay
CHECK_DEADLOCK FALSE
