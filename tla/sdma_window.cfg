\* Headers of every kind; a cache of one page, so that every second lookup empties it.
CONSTANTS
    Topology <- MCTopology
    GpuIds <- MCGpuIds
    Headers <- MCHeaders
    Window = 16
    Pages = {p1, p2}
    PageCacheMax = 1
SPECIFICATION WindowSpec
INVARIANT CopyRecordRight
PROPERTY DecisionIsFinal
CHECK_DEADLOCK FALSE
