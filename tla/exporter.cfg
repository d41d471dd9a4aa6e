\* Calls of any threads, the rate thread up to the end of the window, and a scrape
\* among the updates.
SPECIFICATION Spec
CONSTANTS
    Kernels = {k1, k2}
    PacketBits <- MCPacketBits
    MaxCalls = 3
    MaxTime = 2
    Window = 1
    MaxScrapes = 1
INVARIANT ScrapeConsistent
PROPERTIES CallReturns RateDecays
CHECK_DEADLOCK FALSE
