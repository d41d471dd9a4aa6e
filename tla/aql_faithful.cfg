CONSTANTS
    Slots = 2
    MaxPackets = 4
    EvictThreshold = 1
    Kinds <- DispatchBarrier
    OverReserve = FALSE
    LateReset = FALSE
    ReadFaults = FALSE
SPECIFICATION Spec
INVARIANTS FaithfulUnlessLapped OnlyLostDropped
CHECK_DEADLOCK FALSE
