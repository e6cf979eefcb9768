\* From sign-up to purge, with deletes that fail and handlers that die.
SPECIFICATION FairSpec
CONSTANTS
    s1 = s1
    s2 = s2
    Users = {u1, u2}
    Devices = {d1, d2}
    Fingerprints = {f1}
    Emails = {e1}
    Passwords = {p1}
    ResetTokens = {t1}
    Identities = {i1}
    None = None
    Slots = {s1, s2}
    Can <- Lifecycle
    External = {"abort", "age", "revive", "purge", "lapse", "block"}
    MaxTv = 1
    FingerprintUnique = FALSE
    KeyUnique = TRUE
CHECK_DEADLOCK FALSE
INVARIANTS
    TypeOK
    DeletionAnnounced
    NoOrphanDevice
PROPERTIES
    PurgeOnlyPastGrace
    EventuallyPurged
