SPECIFICATION FairSpec
CONSTANTS
    Conns = {1, 2, 3}
    Cap = 1
    MaxMsgs = 3
    None = None
    Message <- MCMessage
    Histories <- MCHistories
PROPERTIES DeadClientsLeave ProducerNotBlocked
CHECK_DEADLOCK FALSE
INVARIANTS NoConcurrentWrite NoWriteAfterClose Agreement
