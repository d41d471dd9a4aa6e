\* Three processes share tracefs.
SPECIFICATION Spec
CONSTANTS
    a = a
    b = b
    c = c
    Snoops = {a, b, c}
    Extends <- MCExtends
    MaxQueues = 1
INVARIANTS SystemRestored NeverSwitchedOff QueuesSeenOnce
CHECK_DEADLOCK FALSE
