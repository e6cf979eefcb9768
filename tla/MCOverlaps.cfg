\* Handlers that write accounts side by side; support revives deleted ones.
SPECIFICATION HSpec
CONSTANTS
    s1 = s1
    s2 = s2
    Users = {u1, u2}
    Devices = {d1, d2}
    Fingerprints = {f1}
    Emails = {e1}
    Passwords = {p1, p2}
    ResetTokens = {t1, t2}
    Identities = {i1}
    None = None
    Slots = {s1, s2}
    Can <- Writers
    External = {"revive"}
    MaxTv = 2
    FingerprintUnique = FALSE
    KeyUnique = TRUE
SYMMETRY Interchangeable
CHECK_DEADLOCK FALSE
INVARIANTS
    EmailUnique
    AnchorDies
    StaleLoginIsDead
    DeletedFreesAddress
    OneLiveOwner
PROPERTIES
    ReuseIsOvertaken
    LinkSurvives
