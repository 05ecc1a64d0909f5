SPECIFICATION NmosFairSpec
CONSTANTS
  Pids = {p1, p2}
  NoPid = NoPid
  MaxPolls = 1
  MaxStat = 1
  Choices = {k1}
  Unset = Unset
  Bare = Bare
  Groups = {g1, g2}
  NoGroup = NoGroup
  NoFormat = NoFormat
  Legs = {}
  NoBody = NoBody
  MaxUpsets = 1
  FormatOf <- OneFormat
  Configs <- AllConfigs
  Default <- FirstConfig
INVARIANTS
  OneEngine
  FinalStats
  RouteApplied
PROPERTIES
  ImplementsHost
  Settles
CHECK_DEADLOCK FALSE
