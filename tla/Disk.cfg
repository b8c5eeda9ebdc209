SPECIFICATION Spec
CONSTANTS
    r1 = r1
    r2 = r2
    w1 = w1
    w3 = w3
    g1 = g1
    g2 = g2
    g3 = g3
    s1 = s1
    s2 = s2
    Cpus = {u1, u2, u3}
    Requests = {r1, r2, w1, w3}
    NoRequest = none
    CgroupOf <- MCCgroupOf
    SectorOf <- MCSectorOf
    Writes = {w1, w3}
    InflightEntries = {e1}
    DiskEntries = {f1, f2}
    ExtraOf <- MCExtraOf
SYMMETRY MCSymmetry
CHECK_DEADLOCK FALSE
INVARIANTS
    TypeOK
    IssuersCharged
    ExactWithoutRaces
    InflightDrained
