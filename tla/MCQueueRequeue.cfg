SPECIFICATION Spec
CONSTANTS
    s1 = s1
    s2 = s2
    w1 = w1
    w2 = w2
    w3 = w3
    t1 = t1
    t2 = t2
    t3 = t3
    d1 = d1
    d2 = d2
    NoSource = NoSource
    Jobs = {1, 2, 3}
    Keyed = {1}
    Priority <- MixedPriority
    Workers = {w1, w2}
    Sources = {s1}
    Targets = {t1, t2, t3}
    TargetOf <- ThreeTargets
    Shows = {d1, d2}
    ShowOf <- TwoShows
    ConcurrencyBattery = 2
    ConcurrencyCharging = 1
    MinBatteryPct = 12
    MaxAttempts = 0
    DeferRemuxToCharge = TRUE
    HaveFFmpeg = TRUE
    BatteryReadings <- TwoReadings
    MaxAdds = 3
    MaxStarts = 1
    MaxDBErrors = 0
SYMMETRY WorkerSymmetry
CHECK_DEADLOCK FALSE
INVARIANTS
    OneGoroutinePerJob
    FetchKeepsParts
    SidecarKept
    ConcurrencyBound
