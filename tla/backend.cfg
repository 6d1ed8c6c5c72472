SPECIFICATION BackendSpec
CONSTANTS
    Streams = {1, 2, 3}
    KindOf <- MCKindOf
    ChanCap = 1
    InFlight = 1
    MaxItems <- MCMaxItems
    MaxPublished = 1
    Containers = {"a", "b", "c"}
    IPs = {1, 2}
    NoIP = NoIP
    MaxPending = 3
    InitialCap = 1
    RetentionTime = 0
    MaxRows = 3
    MaxTime = 2
    Faults = {"db", "crash"}
    Sampled = {"a"}
    Unread = Unread
    Busiest = 60
    MaxKills = 2
    MaxIntervals = 4
INVARIANTS ArrivesInOrder AckMeansDelivered NoSendOnClosed OpenWhileUsed EarlyRowsFlushed
INVARIANTS KillsReportedOnce RatesOfOneInterval CacheCatchesUp CountConserved StoredOnceUnlessRaced
PROPERTIES StopsInTheEnd KeptForRetention BufferDrains
CHECK_DEADLOCK FALSE
