SPECIFICATION Spec
CONSTANTS
    a1 = a1
    d1 = d1
    d2 = d2
    Cpus = {u1, u2, u3}
    Cgroups = {g1, g2, g3, zero}
    NoCgroup = zero
    Dests = {d1, d2}
    Private = {d1}
    OtherZone = {d1, d2}
    Entries = {e1, e2}
    ExtraOf <- MCExtraOf
    MaxPackets = 4
SYMMETRY MCSymmetry
CHECK_DEADLOCK FALSE
INVARIANTS
    TypeOK
    ReplacementsBounded
    SettledPacketsCounted
    CategoriesWithinEgress
