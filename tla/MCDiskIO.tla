------------------------------ MODULE MCDiskIO ------------------------------
(* Four requests of three cgroups with two sectors; two requests of one    *)
(* sector that are out together are on two disks.                          *)
EXTENDS DiskIO, TLC

CONSTANTS r1, r2, w1, w3, g1, g2, g3, s1, s2

MCCgroupOf ==
    [r \in Requests |-> CASE r \in {r1, w3} -> g1 [] r = r2 -> g2 [] r = w1 -> g3]
MCSectorOf == [r \in Requests |-> IF r \in {r1, w1} THEN s1 ELSE s2]
MCExtraOf == [c \in Cpus |-> <<"extra", c>>]

MCSymmetry ==
    Permutations(Cpus) \cup Permutations(InflightEntries) \cup Permutations(DiskEntries)
=============================================================================
