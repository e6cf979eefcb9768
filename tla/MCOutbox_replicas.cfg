\* Two pods sweep the same rows, crash, exit and fail to flush.
SPECIFICATION Spec
CONSTANTS
    p1 = p1
    p2 = p2
    Pods = {p1, p2}
    Rows = {1, 2}
    MaxBatch = 2
    Allowed <- Everything
    MaxInterruptions = 1
SYMMETRY Replicas
INVARIANTS
    TypeOK
    HandedOncePerInterruption
    LossHasACause
CHECK_DEADLOCK FALSE
