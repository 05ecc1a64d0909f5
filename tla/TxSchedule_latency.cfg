SPECIFICATION FairSpec
CONSTANTS
  Modes = {"fixed"}
  Interval = 17
  Active = 16
  Horizon = 8
  Preload = 8
  SpinCap = 50
  Latency = 105
  SkipFloor = 2
  Lead = 16
  Trim = 0
  Window = 3
  Clip = 1
  Streak = 3
  Arm = 2
  ArmMax = 4
  BackMin = 4
  Ages = {25, 30, 110}
  MaxJump = 2
  Far = 40
  Unsteady <- Never
INVARIANT ThrottleStaysOn
