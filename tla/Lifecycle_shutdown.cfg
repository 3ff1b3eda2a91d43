SPECIFICATION Spec
CONSTANTS
    Clients = {c1, c2}
    Backends = {b1, b2}
    None = None
    MaxConnections = 1
    RaisedMax = 3
    Reloads = {"remove", "raise"}
CHECK_DEADLOCK FALSE
INVARIANTS TypeOK InUseSpared RemainingOpen
PROPERTIES ShutdownEnds RemovedStops
