SPECIFICATION FairSpec
CONSTANTS
    Clients = {c1, c2}
    Keys <- ThreeKeys
    Addresses = {"lan", "wan"}
    Rules <- LanRules
    Roles <- Dropped
    RegisteredCap = 2
    MaxUnread = 4
    Faults = {"die", "privRefused"}
    None = None
INVARIANTS TypeOK OwnVerifier PoolsAgree
PROPERTY StartupEnds
