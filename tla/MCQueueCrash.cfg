SPECIFICATION Spec
CONSTANTS
    s1 = s1
    s2 = s2
    w1 = w1
    w2 = w2
    w3 = w3
    t1 = t1
    t2 = t2
    t3 = t3
    d1 = d1
    d2 = d2
    NoSource = NoSource
    Jobs = {1}
    Keyed = {1}
    Priority <- OnePriority
    Workers = {w1, w2}
    Sources = {s1, s2}
    Targets = {t1, t2}
    TargetOf <- OneTarget
    Shows = {d1, d2}
    ShowOf <- OwnShow
    ConcurrencyBattery = 2
    ConcurrencyCharging = 1
    MinBatteryPct = 12
    MaxAttempts = 1
    DeferRemuxToCharge = FALSE
    HaveFFmpeg = TRUE
    BatteryReadings <- OneReading
    MaxAdds = 2
    MaxStarts = 2
    MaxDBErrors = 1
SYMMETRY Symmetric
CHECK_DEADLOCK FALSE
INVARIANTS
    TypeOK
    DoneHasFile
    AttemptsBounded
    SingleSource
PROPERTIES
    LedgerSpec
    BackoffRespected
