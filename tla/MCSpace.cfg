SPECIFICATION SpaceSpec
CONSTANTS
    j1 = j1 j2 = j2
    Jobs = {j1, j2}
    Size <- TwoBytes
    MaxConcurrency = 1
    Disk = 12
    Reserve = 3
    Margin = 1
    KeepBytes = 3
INVARIANT RemuxedIsFast
CHECK_DEADLOCK FALSE
