SPECIFICATION FairSpec
CONSTANTS
    c1 = c1  c2 = c2  p1 = p1  p2 = p2
    Clients = {c1, c2}
    Backends = {b1}
    Pools = {p1}
    PoolOf <- OnePool
    None = None
    MaxConnections = 3
    Requests = {"dml", "flush", "notify"}
    StatsReplies = {}
    Faults = {"die", "refuse"}
    MaxNamed = 0
INVARIANT Accounting
PROPERTIES RequestEnds PoolRecovers ReleasedIsClosed
