SPECIFICATION Spec
CONSTANTS
    a = a
    b = b
    w1 = w1
    w2 = w2
    w3 = w3
    Sources = {a}
    Length <- FiveUnits
    Ranged = {a}
    PartSize = 2
    Workers = {w1, w2}
    Faults = {"refuse", "plain", "break", "short", "long", "disk", "cancel", "kill"}
    MaxCalls = 3
    MaxFaults = 2
SYMMETRY WorkerSymmetry
CHECK_DEADLOCK FALSE
INVARIANTS
    TypeOK
    CompleteFile
    FirstCause
    NoGoroutineLeft
