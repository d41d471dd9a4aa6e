\* Up to four records at four times, written in either format.
SPECIFICATION WriterSpec
CONSTANTS
    Tracks = {q1, q2}
    Pids = {1000, 1016}
    Significant = 10
    Units = {1, 10, 100}
    Boot = 8
    MaxTime = 11
    MaxMade = 4
INVARIANTS PerfettoFaithful JsonKeepsOrder
CHECK_DEADLOCK FALSE
