\* Packets published in parts, unknown opcodes, failing reads.
SPECIFICATION FairSpec
CONSTANTS
    RingDw = 3
    MaxDwords = 5
    Window = 3
    WaitBelow = 2
    EvictThreshold = 2
    Packets <- KnownAndUnknown
    GarbageLens = {0, 1, 5}
    PartialPublish = TRUE
    ReadFaults = TRUE
INVARIANTS ReportedInSequence InSync
PROPERTIES ImplementsLedger EventuallySettled
CHECK_DEADLOCK FALSE
