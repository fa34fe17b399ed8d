SPECIFICATION Spec
CONSTANTS
    None = None
    Exporter = {x1}
    Templates <- MCTemplates
    Geometries <- MCGeometries
    PostedLoads <- MCLoads
    AttemptLimit = 2
    NotedOptions = {"balanced"}
    ExportedGeometries <- MCExported
CHECK_DEADLOCK FALSE
PROPERTY ApprovedOptionSealed
