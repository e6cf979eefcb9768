\* A refresh while Redis is away.
SPECIFICATION Spec
CONSTANTS
    s1 = s1
    s2 = s2
    j1 = j1
    j2 = j2
    j3 = j3
    None = None
    Slots = {s1, s2}
    Jtis = {j1, j2, j3}
    Can <- OneRefresh
    External = {"outage"}
    TicksPerSecond = 2
    Lifetime = 2
    MaxNow = 1
    MaxTv = 1
SYMMETRY ThreeIds
PROPERTIES
    RefusedIsUnusable
CHECK_DEADLOCK FALSE
