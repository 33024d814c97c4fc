SPECIFICATION Spec
CONSTANTS
    d1 = d1 d2 = d2
    s1 = s1 s2 = s2
    c1 = c1 c2 = c2
    None = None
    Daemons = {d1, d2}
    Starters = {s1, s2}
    Stoppers = {c1, c2}
    MaxRuns = 1
    MaxKills = 1
    MaxFails = 1
INVARIANTS OneDaemon NoSocketLeft StartedIsMine
PROPERTY StopEnds
CHECK_DEADLOCK FALSE
