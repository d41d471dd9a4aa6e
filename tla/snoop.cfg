\* Launching and watching, in each of the three output modes.
SPECIFICATION Spec
CONSTANTS
    Aql = {a1}
    Sdma = {s1}
    Ignored = {i1}
    MaxRecords = 1
INVARIANTS NoOrphanRecord OutputComplete NoEarlyQueue ChildNotLeftStopped
PROPERTY ShutdownEnds
CHECK_DEADLOCK FALSE
