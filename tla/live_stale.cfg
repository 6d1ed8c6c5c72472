SPECIFICATION LiveSpec
CONSTANTS
    rttRingSize = 1
    spikeMultiplier = 3
    MaxUs = 1
    Addrs = {"a", "b"}
    Services = {"A", "B"}
    ServiceOf <- MCServiceOf
    ExternalName <- MCExternalName
    KnownAtStart = {{"a", "b"}}
    Restless = {}
    Socks = {1}
    EventSet <- MCEvents
    ResourceSet <- NoResources
    connTTL = 0
    ttlSweepInterval = 1
    maxHistory = 2
    MaxTime = 2
    RetransmitMod = 2
    None = None
    MaxConns = 2
    Cap = 1
    Window = 1
    MAX_HISTORY = 2
    MAX_EVENTS = 1
    MAX_RESOURCE = 1
INVARIANT ExpiredEdgesDisappear
CHECK_DEADLOCK FALSE
CONSTRAINT InScope
