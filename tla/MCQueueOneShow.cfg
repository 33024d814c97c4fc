SPECIFICATION Spec
CONSTANTS
    s1 = s1
    s2 = s2
    w1 = w1
    w2 = w2
    w3 = w3
    t1 = t1
    t2 = t2
    t3 = t3
    d1 = d1
    d2 = d2
    NoSource = NoSource
    Jobs = {1, 2}
    Keyed = {}
    Priority <- SamePriority
    Workers = {w1, w2}
    Sources = {s1}
    Targets = {t1, t2}
    TargetOf <- OwnTarget
    Shows = {d1, d2}
    ShowOf <- OneShow
    ConcurrencyBattery = 1
    ConcurrencyCharging = 1
    MinBatteryPct = 12
    MaxAttempts = 1
    DeferRemuxToCharge = TRUE
    HaveFFmpeg = TRUE
    BatteryReadings <- OneReading
    MaxAdds = 2
    MaxStarts = 2
    MaxDBErrors = 0
SYMMETRY WorkerSymmetry
CHECK_DEADLOCK FALSE
INVARIANTS
    FinishedHasSidecar
