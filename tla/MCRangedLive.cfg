SPECIFICATION FairSpec
CONSTANTS
    a = a
    b = b
    w1 = w1
    w2 = w2
    w3 = w3
    Sources = {a, b}
    Length <- SevenAndTwo
    Ranged = {a}
    PartSize = 2
    Workers = {w1}
    Faults = {"refuse", "plain", "break", "short", "disk", "cancel", "kill"}
    MaxCalls = 3
    MaxFaults = 2
CHECK_DEADLOCK FALSE
INVARIANTS
    NoPartLost
    CompleteFile
PROPERTIES
    CallReturns
    ResumeCompletes
