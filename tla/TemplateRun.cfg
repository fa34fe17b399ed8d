SPECIFICATION Spec
CONSTANTS
    None = None
    Exporter = {x1, x2}
    Templates <- MCTemplates
    Geometries <- MCGeometries
    PostedLoads <- MCLoads
    AttemptLimit = 2
    NotedOptions = {"balanced"}
    ExportedGeometries <- MCExported
SYMMETRY MCSymmetry
CHECK_DEADLOCK FALSE
INVARIANTS
    TypeOK
    RunningRunsWait
    ArtifactsOfOneAttempt
    SealedPackageWhole
    OriginNeedsDirectEdges
    BayGridsOrdered
    OverloadsExplained
