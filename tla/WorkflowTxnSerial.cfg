CONSTANTS
    x = x
    y = y
    z = z
    Node = {x, y, z}
    Session = {s1}
    Definitions <- Shapes
    LoopLimit = 1024
    RunLogLimit = 3
SPECIFICATION Spec
PROPERTY ImplementsWorkflowRun
CHECK_DEADLOCK FALSE
