------------------------------- MODULE Costs -------------------------------
(***************************************************************************)
(* The bill of a window (internal/aggregator/aggregator.go): the record of *)
(* a pod, the totals of a snapshot, and the history of snapshots.          *)
(*                                                                         *)
(* Money and usage are natural numbers in arbitrary units; the constant    *)
(* window of 15 s is folded into the price units.  WastedDollars is in     *)
(* hundredths of the unit of CPUCost.                                      *)
(***************************************************************************)
EXTENDS Integers, Sequences, FiniteSets, Functions

CONSTANTS
    Teams,         \* the values of the team label
    TeamOf,        \* the team label of each pod
    HistoryCap     \* snapshots kept: 5760 in the code

ASSUME HistoryCapAssumption == HistoryCap \in Nat \ {0}

PodCost ==
    [Team : Teams, CPUCost : Nat, MemoryCost : Nat, NetworkCost : Nat,
     DiskCost : Nat, TotalCost : Nat, CPUUtilizationPct : Nat,
     WastedDollars : Int]

(* The utilisation is the cycles, taken as vCPU millis, over the request;  *)
(* a pod without a request has neither utilisation nor waste.              *)
CostOf(pod, m, table) ==
    LET cpu == m.CPUCycles * table.cpu
        mem == m.MemoryBytesAvg * table.mem
        net == m.NetworkBytes * table.net
        disk == m.DiskIOPS * table.disk
        requested == m.CPURequestedMillis > 0
        util == IF requested
                  THEN (m.CPUCycles * 1000 * 100) \div m.CPURequestedMillis
                  ELSE 0
    IN  [Team |-> TeamOf[pod],
         CPUCost |-> cpu, MemoryCost |-> mem, NetworkCost |-> net,
         DiskCost |-> disk, TotalCost |-> cpu + mem + net + disk,
         CPUUtilizationPct |-> util,
         WastedDollars |-> IF requested THEN cpu * (100 - util) ELSE 0]

SumOf(costs, field, pods) == SumFunctionOnSet([p \in pods |-> costs[p][field]], pods)

PodsOfTeam(costs, team) == {p \in DOMAIN costs : costs[p].Team = team}

TeamCost(costs, team) ==
    LET pods == PodsOfTeam(costs, team)
    IN  [TotalCost |-> SumOf(costs, "TotalCost", pods),
         WastedCost |-> SumOf(costs, "WastedDollars", pods),
         PodCount |-> Cardinality(pods),
         Pods |-> pods]

SnapshotOf(costs) ==
    [PodCosts |-> costs,
     TeamCosts |-> [t \in {costs[p].Team : p \in DOMAIN costs} |-> TeamCost(costs, t)],
     Total |-> SumOf(costs, "TotalCost", DOMAIN costs)]

(* Mutant: the bound is tested before the append, and one too many kept.   *)
SlideLate(h, snap) ==
    IF Len(h) > HistoryCap THEN Append(Tail(h), snap) ELSE Append(h, snap)

(* Mutant: the newest entry gives way instead of the oldest.               *)
SlideDropsNewest(h, snap) ==
    IF Len(h) = HistoryCap
      THEN Append(SubSeq(h, 1, Len(h) - 1), snap)
      ELSE Append(h, snap)

(* a.history = append(a.history, snap), then the oldest entry is dropped   *)
(* when there are more than HistoryCap.                                    *)
Slide(h, snap) ==
    IF Len(h) = HistoryCap THEN Append(Tail(h), snap) ELSE Append(h, snap)
=============================================================================
