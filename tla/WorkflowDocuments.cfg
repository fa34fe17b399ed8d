CONSTANTS
    hello = hello
    g1 = g1
    g2 = g2
    bad = bad
    Request = {p1, p2}
    Document = {d1, d2}
    Run = {r1}
    here = here
    there = there
    Patches <- PatchBodies
    Place = {here, there}
    Slug = {hello}
    Releases <- Builds
    Empty = empty
    Graph = {empty, g1, g2, bad}
    Valid = {empty, g1, g2}
    None = None
    Absent = Absent
    Deleted = Deleted
    CatalogLimit = 2
SPECIFICATION FairSpec
INVARIANTS
    TypeOK
    RunsExecuteTheirNodes
    RunsRooted
    UniquePlaces
PROPERTIES
    RequestsEnd
CHECK_DEADLOCK FALSE
