\* The three discovery modes, with and without a pid filter and a banner.
SPECIFICATION FairSpec
CONSTANTS
    Modes = {"kprobe", "bpftrace", "kfd"}
    Procs = {1, 2}
    Queues <- MCQueues
    Contains <- MCContains
    HostPidOf <- MCHostPidOf
    Reach = 21
    Filters = {0, 1}
    MaxEvents = 3
INVARIANTS AnnouncedRight EveryQueueAnnounced LeavesNothing
PROPERTIES StopReturns LinesHandled
CHECK_DEADLOCK FALSE
