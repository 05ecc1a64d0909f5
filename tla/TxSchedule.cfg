SPECIFICATION FairSpec
CONSTANTS
  Modes = {"fixed", "genlock", "servo", "grid"}
  Interval = 6
  Active = 5
  Horizon = 4
  Preload = 3
  SpinCap = 8
  Latency = 15
  SkipFloor = 1
  Lead = 4
  Trim = 1
  Window = 3
  Clip = 1
  Streak = 3
  Arm = 2
  ArmMax = 4
  BackMin = 2
  Ages = {2, 4, 15}
  MaxJump = 2
  Far = 12
  Unsteady <- Never
INVARIANTS
  SendBand
  WireOrdered
PROPERTIES
  WithinLimits
  MediaFollows
  ComesToRest
