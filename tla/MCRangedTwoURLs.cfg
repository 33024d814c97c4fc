SPECIFICATION Spec
CONSTANTS
    a = a
    b = b
    w1 = w1
    w2 = w2
    w3 = w3
    Sources = {a, b}
    Length <- TwoAndThree
    Ranged = {a, b}
    PartSize = 2
    Workers = {w1}
    Faults = {"break"}
    MaxCalls = 2
    MaxFaults = 1
CHECK_DEADLOCK FALSE
INVARIANTS
    CompleteFile
