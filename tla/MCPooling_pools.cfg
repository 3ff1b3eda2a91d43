SPECIFICATION Spec
CONSTANTS
    c1 = c1  c2 = c2  p1 = p1  p2 = p2
    Clients = {c1, c2}
    Backends = {b1, b2, b3, b4, b5}
    Pools = {p1, p2}
    PoolOf <- OnePool
    None = None
    MaxConnections = 5
    Requests = {"dml"}
    StatsReplies = {"room"}
    Faults = {"refuse"}
    MaxNamed = 0
SYMMETRY Symmetry
INVARIANTS Accounting NothingLost
