SPECIFICATION FairSpec
CONSTANTS
    n1 = n1
    n2 = n2
    n3 = n3
    n4 = n4
    p = p
    q = q
    Nodes = {n1, n2, n3, n4}
    Ports = {p, q}
    LinkLists <- MCLinkLists
INVARIANTS
    TypeOK
    StackDiscipline
    NoReentry
    Soundness
    NothingLost
    Completeness
    InLinkOrder
    CountsRoutes
PROPERTIES
    Termination
    RefinesPathSearch
