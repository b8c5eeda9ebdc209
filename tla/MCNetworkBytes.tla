--------------------------- MODULE MCNetworkBytes ---------------------------
(* NetworkBytes with an extra element named after each CPU; the CPUs and   *)
(* the free elements are interchangeable.                                  *)
EXTENDS NetworkBytes, TLC

CONSTANTS a1, d1, d2     \* a destination in the cluster's zone, and two elsewhere

MCExtraOf == [c \in Cpus |-> <<"extra", c>>]

MCSymmetry == Permutations(Cpus) \cup Permutations(Entries)
=============================================================================
