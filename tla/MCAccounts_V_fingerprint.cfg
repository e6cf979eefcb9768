\* Two autoregs of one device at once.
SPECIFICATION Spec
CONSTANTS
    s1 = s1
    s2 = s2
    Users = {u1, u2}
    Devices = {d1, d2}
    Fingerprints = {f1}
    Emails = {}
    Passwords = {}
    ResetTokens = {}
    Identities = {}
    None = None
    Slots = {s1, s2}
    Can <- TwoAutoregs
    External = {}
    MaxTv = 3
    FingerprintUnique = FALSE
    KeyUnique = TRUE
SYMMETRY Interchangeable
CHECK_DEADLOCK FALSE
INVARIANT
    OneAccountPerFingerprint
