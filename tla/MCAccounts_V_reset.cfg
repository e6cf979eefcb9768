\* Two resets with one emailed token.
SPECIFICATION Spec
CONSTANTS
    s1 = s1
    s2 = s2
    Users = {u1}
    Devices = {d1}
    Fingerprints = {f1}
    Emails = {e1}
    Passwords = {p1, p2}
    ResetTokens = {t1, t2}
    Identities = {}
    None = None
    Slots = {s1, s2}
    Can <- TwoResets
    External = {}
    MaxTv = 3
    FingerprintUnique = TRUE
    KeyUnique = TRUE
SYMMETRY Interchangeable
CHECK_DEADLOCK FALSE
INVARIANT
    ResetSpentOnce
