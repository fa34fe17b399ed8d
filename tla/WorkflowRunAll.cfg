CONSTANTS
    Node = {a, b, c}
    Definitions <- AllDefinitions
    LoopLimit = 1024
    RunLogLimit = 4
SPECIFICATION FairSpec
INVARIANTS
    TypeOK
    BlockedOnHumans
    UpstreamCompleted
    RunStatusMatchesNodes
    NeverStranded
    AuditLogReplays
    PassesBounded
PROPERTIES
    VerdictsAreFinal
    ImplementsLifecycle
    RequestsEnd
CHECK_DEADLOCK FALSE
