SPECIFICATION FairSpec
CONSTANTS
    s1 = s1
    s2 = s2
    w1 = w1
    w2 = w2
    w3 = w3
    t1 = t1
    t2 = t2
    t3 = t3
    d1 = d1
    d2 = d2
    NoSource = NoSource
    Jobs = {1, 2}
    Keyed = {1}
    Priority <- SamePriority
    Workers = {w1}
    Sources = {s1}
    Targets = {t1, t2}
    TargetOf <- OwnTarget
    Shows = {d1, d2}
    ShowOf <- OwnShow
    ConcurrencyBattery = 1
    ConcurrencyCharging = 1
    MinBatteryPct = 12
    MaxAttempts = 1
    DeferRemuxToCharge = TRUE
    HaveFFmpeg = TRUE
    BatteryReadings <- GateReadings
    MaxAdds = 2
    MaxStarts = 2
    MaxDBErrors = 1
CHECK_DEADLOCK FALSE
PROPERTIES
    QueuedIsTaken
    QueuedIsSettled
