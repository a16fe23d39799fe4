SPECIFICATION McpSpec
CONSTANTS
    s1 = s1
    s2 = s2
    p1 = p1
    d1 = d1
    Sessions = {s1, s2}
    ProtocolIds = {p1}
    Requests = {1, 2}
    Domains = {d1}
    Kinds <- AllKinds
    MaxRevision = 3
SYMMETRY EitherSession
PROPERTY CatalogSound
INVARIANT CancelsOnlyNamed
