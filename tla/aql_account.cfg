\* Producers that reserve ahead, late header resets, failing reads.
SPECIFICATION FairSpec
CONSTANTS
    Slots = 2
    MaxPackets = 3
    EvictThreshold = 2
    Kinds <- DispatchOnly
    OverReserve = TRUE
    LateReset = TRUE
    ReadFaults = TRUE
INVARIANTS TypeOK Accounting CompletedIsConsumed NothingOverdue
PROPERTIES ImplementsLedger EventuallySettled
CHECK_DEADLOCK FALSE
