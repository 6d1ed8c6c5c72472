SPECIFICATION ScenarioSpec
CONSTANTS
    rttRingSize = 3
    spikeMultiplier = 3
    MaxUs = 5
    Addrs = {"a","b"}
    Services = {"A", "B"}
    ServiceOf <- MCServiceOf
    ExternalName <- MCExternalName
    KnownAtStart = {{"a"},{"a","b"}}
    Restless = {}
    Socks = {1,2}
    EventSet <- JumpEvents
    ResourceSet <- OneOfEach
    connTTL = 0
    ttlSweepInterval = 1
    maxHistory = 0
    MaxTime = 1
    RetransmitMod = 2
    None = None
INVARIANTS TypeOK CauseMatchesEvidence PublishedQuantiles NoFalseSpike
PROPERTY WindowIsLastSamples
CHECK_DEADLOCK FALSE
