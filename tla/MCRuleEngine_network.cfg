SPECIFICATION Spec
CONSTANTS
    e = e
    f = f
    s = s
    t = t
    p1 = p1
    p2 = p2
    p3 = p3
    Nodes = {e, f, s, t}
    Ports = {p1, p2, p3}
    LinkLists <- MCLinkLists
    Config <- MCConfig
    StrictUnicastFw = FALSE
    Topologies <- MCTopologies
    Edits <- MCEdits
    Filters <- SomeFilters
INVARIANTS
    TypeOK
    LinksFixNoError
    NoSilentLatencyGap
    
    CleanMeansWithinLimit
    CrossDomainProtected
    CleanMeansCollisionFree
