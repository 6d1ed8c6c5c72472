SPECIFICATION TableSpec
CONSTANTS
    rttRingSize = 1
    spikeMultiplier = 3
    MaxUs = 5
    Addrs = {"a","b","x"}
    Services = {"A", "B"}
    ServiceOf <- MCServiceOf
    ExternalName <- MCExternalName
    KnownAtStart = {{"a","b"}}
    Restless = {"b"}
    Socks = {1}
    EventSet <- TwoDestEvents
    ResourceSet <- NoResources
    connTTL = 1
    ttlSweepInterval = 1
    maxHistory = 0
    MaxTime = 3
    RetransmitMod = 2
    None = None
INVARIANTS TypesMatchNames FlowHasConn
PROPERTY FreshConnFreshJitter
CHECK_DEADLOCK FALSE
