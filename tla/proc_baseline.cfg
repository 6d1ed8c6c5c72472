SPECIFICATION Spec
CONSTANTS
    rttRingSize = 3
    spikeMultiplier = 3
    MaxUs = 5
    Addrs = {"a","b"}
    Services = {"A", "B"}
    ServiceOf <- MCServiceOf
    ExternalName <- MCExternalName
    KnownAtStart = {{"a","b"}}
    Restless = {}
    Socks = {1,2}
    EventSet <- SpikeEvents
    ResourceSet <- NoResources
    connTTL = 1
    ttlSweepInterval = 1
    maxHistory = 1
    MaxTime = 1
    RetransmitMod = 2
    None = None
PROPERTY SpikeKeepsBaseline
CHECK_DEADLOCK FALSE
