CONSTANTS
    Node = {a, b, c}
    Definitions <- AllDefinitions
    LoopLimit = 1024
    RunLogLimit = 4
SPECIFICATION Spec
INVARIANT FailedAndNotProgressingFails
CHECK_DEADLOCK FALSE
