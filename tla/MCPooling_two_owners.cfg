SPECIFICATION Spec
CONSTANTS
    c1 = c1  c2 = c2  p1 = p1  p2 = p2
    Clients = {c1, c2}
    Backends = {b1, b2}
    Pools = {p1}
    PoolOf <- OnePool
    None = None
    MaxConnections = 4
    Requests = {"query", "named"}
    StatsReplies = {}
    Faults = {"die"}
    MaxNamed = 1
SYMMETRY Symmetry
INVARIANT Exclusive
