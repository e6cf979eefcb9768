\* Two jobs beside a service that keeps writing.
SPECIFICATION FairSpec
CONSTANTS
    u1 = u1
    u2 = u2
    e1 = e1
    j1 = j1
    j2 = j2
    None = None
    Users = {u1, u2}
    Emails = {e1}
    Jobs = {j1, j2}
    External <- Everything
INVARIANTS
    TypeOK
    RecordedHolds
    RecordedInOrder
PROPERTIES
    EventuallyRecorded
CHECK_DEADLOCK FALSE
