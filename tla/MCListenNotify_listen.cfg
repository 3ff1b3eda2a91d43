SPECIFICATION Spec
CONSTANTS
    Clients = {c1, c2}
    Monitors = {m1, m2}
    Conns = {k1, k2, k3}
    None = None
    MaxListen = 2
    Faults = {"connLost", "refuse", "clientLost"}
SYMMETRY Symmetry
INVARIANTS TypeOK RegisteredRuns Counted
CHECK_DEADLOCK FALSE
