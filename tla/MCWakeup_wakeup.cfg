SPECIFICATION FairSpec
CONSTANTS
    c1 = c1  c2 = c2  c3 = c3  p1 = p1  p2 = p2
    Clients = {c1, c2, c3}
    Pools = {p1, p2}
    PoolOf <- Shared
    MaxConnections = 5
    ServerRoom = {TRUE}
INVARIANTS TypeOK
PROPERTY WaiterServed
