CONSTANTS
    x = x
    y = y
    z = z
    Node = {x, y, z}
    Session = {s1, s2}
    Definitions <- Joins
    LoopLimit = 1024
    RunLogLimit = 2
    RequestLimit = 3
SPECIFICATION EventsSpec
INVARIANT FinalStateReplays
CHECK_DEADLOCK FALSE
