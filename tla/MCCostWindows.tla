--------------------------- MODULE MCCostWindows ---------------------------
(* Model values for the instance of CostWindows.                           *)
EXTENDS CostWindows, TLC

CONSTANTS t1, t2

(* The teams are treated alike.                                            *)
MCSymmetry == Permutations(Teams)
=============================================================================
