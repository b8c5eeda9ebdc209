SPECIFICATION Spec
CONSTANTS
    Cpus = {u1, u2, u3}
    Cgroups = {g1, g2, g3}
    Period = 2
    Entries = {e1, e2}
    ExtraOf <- MCExtraOf
    MaxSamples = 3
SYMMETRY MCSymmetry
CHECK_DEADLOCK FALSE
INVARIANTS
    CountsTrackSamples
    CountersAgree
    EventsNotAhead
