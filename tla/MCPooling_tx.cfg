SPECIFICATION Spec
CONSTANTS
    c1 = c1  c2 = c2  p1 = p1  p2 = p2
    Clients = {c1, c2}
    Backends = {b1, b2}
    Pools = {p1}
    PoolOf <- OnePool
    None = None
    MaxConnections = 3
    Requests = {"query", "notify", "shared", "unnamed", "flush"}
    StatsReplies = {"room"}
    Faults = {"die"}
    MaxNamed = 0
SYMMETRY Symmetry
INVARIANTS TypeOK Exclusive QueueClean OwnReply Accounting NothingLost NeverBlocked
PROPERTIES TxRouting ImplementsLease
