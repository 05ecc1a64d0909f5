SPECIFICATION AudioSpec
CONSTANTS
    M = 64
    Period <- MCPeriod
    MaxLag <- MCMaxLag
    Sane <- MCSane
    Epochs <- MCEpochs
    Latency = 4
    AvOffset = 1
    Horizon = 1
    LateDrop = 2
    Cap = 3
    MaxStall = 3
    Slots = 7
    MaxQ = 2
    Delay = 2
    BurstMax = 2
    PacketTime = 2
    PacingHorizon = 1
    MaxPackets = 8
    MaxTime = 4
INVARIANTS StampOnSchedule LipSync AudioKept
PROPERTY AudioStops
CHECK_DEADLOCK FALSE
