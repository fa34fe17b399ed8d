CONSTANTS
    hello = hello
    statik = statik
    g1 = g1
    g2 = g2
    Process = {p1, p2}
    Slugs <- SlugOrder
    Releases <- Builds
    BootLimit = 4
SPECIFICATION FairSpec
INVARIANTS
    TypeOK
    OneActiveVersion
PROPERTIES
    SyncsEnd
    ImplementsCatalog
CHECK_DEADLOCK FALSE
