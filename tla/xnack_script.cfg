\* The child writes, closes and unlinks its script, then executes bpftrace.
SPECIFICATION Spec
CONSTANT MaxStops = 1
INVARIANT ScriptReachable
CHECK_DEADLOCK FALSE
