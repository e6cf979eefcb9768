\* A crash loses events that are marked sent.
SPECIFICATION FairSpec
CONSTANTS
    p1 = p1
    p2 = p2
    Pods = {p1}
    Rows = {1, 2}
    MaxBatch = 2
    Allowed = {"crash"}
    MaxInterruptions = 1
PROPERTIES
    EveryEventAccepted
CHECK_DEADLOCK FALSE
