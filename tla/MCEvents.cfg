\* One publisher whose flushes fail, two subscribed services.
SPECIFICATION FairEventsSpec
CONSTANTS
    p1 = p1
    s1 = s1
    s2 = s2
    Pods = {p1}
    Rows = {1}
    MaxBatch = 2
    Allowed = {"flushFails", "crash", "refusal"}
    MaxInterruptions = 1
    Services = {s1, s2}
    Interest <- Subscriptions
    MaxEnds = 1
INVARIANTS
    EventsTypeOK
    EveryCopyAccounted
    LettersAreOwn
PROPERTIES
    EventuallySettled
CHECK_DEADLOCK FALSE
