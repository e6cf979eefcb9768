\* Refreshes and a logout race with the same token, across expiry.
SPECIFICATION Spec
CONSTANTS
    s1 = s1
    s2 = s2
    j1 = j1
    j2 = j2
    j3 = j3
    None = None
    Slots = {s1, s2}
    Jtis = {j1, j2}
    Can <- RefreshesAndLogout
    External = {"outage", "abort", "bump", "delete"}
    TicksPerSecond = 2
    Lifetime = 2
    MaxNow = 5
    MaxTv = 1
SYMMETRY TwoIds
INVARIANTS
    TypeOK
    UsedIsDead
    SpentNeverRotates
    LogoutRevokes
PROPERTIES
    RefusedIsUnusableWhileUp
CHECK_DEADLOCK FALSE
