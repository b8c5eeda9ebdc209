---------------------------- MODULE MCLocalStore ----------------------------
(* Three pods of the simulated cluster (order-worker, web-app, payment-api *)
(* with other spikes) as two teams, every price one unit.  In a window     *)
(* without a wave a spike of t1 is a warning, and one of t2 is critical;   *)
(* in a trough web-app wastes its request.                                 *)
EXTENDS LocalStore

CONSTANTS p1, p2, p3, t1, t2

MCTeamOf == [p \in Pods |-> IF p = p3 THEN t2 ELSE t1]
Profile(cpu, net, disk, mem, every, multiplier) ==
    [CPUIntensity |-> cpu, NetworkIntensity |-> net, DiskIntensity |-> disk,
     MemIntensity |-> mem, SpikeEvery |-> every, SpikeMultiplier |-> multiplier]
MCPodProfile == [p \in Pods |->
    CASE p = p1 -> Profile(60, 25, 55, 50, 1, 25)
      [] p = p2 -> Profile(25, 70, 5, 30, 0, 0)
      [] p = p3 -> Profile(75, 80, 30, 60, 1, 32)]
MCWaves == {-20, 0}
MCPrice == [cpu |-> 1, mem |-> 1, net |-> 1, disk |-> 1]
=============================================================================
