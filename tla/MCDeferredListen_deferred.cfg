SPECIFICATION Spec
CONSTANTS
    Channels = {"a", "b"}
    Strings <- Orderly
    MaxPending = 3
    Faults = {"send", "read", "dial", "commit"}
    None = None
INVARIANTS
    TypeOK
    SubscribedAsCommitted
