---------------------------- MODULE MCCpuCycles ----------------------------
(* CpuCycles with an extra element named after each CPU; the CPUs, the     *)
(* free elements and the cgroups are interchangeable.                      *)
EXTENDS CpuCycles, TLC

MCExtraOf == [c \in Cpus |-> <<"extra", c>>]

MCSymmetry ==
    Permutations(Cpus) \cup Permutations(Entries) \cup Permutations(Cgroups)
=============================================================================
