CONSTANTS
    x = x
    y = y
    z = z
    Node = {x, y, z}
    Session = {s1, s2}
    Definitions <- Joins
    LoopLimit = 1024
    RunLogLimit = 2
SPECIFICATION FairSpec
INVARIANTS
    TypeOK
    EventsAreJustified
    AutomatedNeverWaits
PROPERTIES
    RequestsEnd
CHECK_DEADLOCK FALSE
