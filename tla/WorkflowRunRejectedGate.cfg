CONSTANTS
    Node = {a, b, c}
    Definitions <- AllDefinitions
    LoopLimit = 1024
    RunLogLimit = 4
SPECIFICATION Spec
INVARIANT RejectedGateFailsRun
CHECK_DEADLOCK FALSE
