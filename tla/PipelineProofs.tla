--------------------------- MODULE PipelineProofs ---------------------------
(***************************************************************************)
(* Proofs about Pipeline, for any containers, pods, price tables and       *)
(* history length, whether or not the sync loop runs.                      *)
(***************************************************************************)
EXTENDS Pipeline, PartialMapsProofs, FiniteSetTheorems, SequenceTheorems, TLAPS

-----------------------------------------------------------------------------
(* Lemmas on the counters and the costs *)

(* What the manager keeps of a cgroup is counters.                         *)
LEMMA EntryType ==
    ASSUME CollectorTypeOK, NEW g \in Cgroups
    PROVE  Entry(g) \in RawMetrics
BY DEF CollectorTypeOK, IsMap, Entry, Lookup, ZeroMetrics, RawMetrics

(* A product of natural numbers is one.                                    *)
LEMMA TimesNat == ASSUME NEW a \in Nat, NEW b \in Nat PROVE a * b \in Nat
OBVIOUS

(* A quotient of natural numbers is one.                                   *)
LEMMA DivNat == ASSUME NEW a \in Nat, NEW b \in Nat, b > 0 PROVE a \div b \in Nat
OBVIOUS

(* What a pod costs is a record of costs.                                  *)
LEMMA CostOfType ==
    ASSUME NEW pod \in Pods, NEW m \in RawMetrics, NEW table \in PriceTables
    PROVE  CostOf(pod, m, table) \in PodCost
<1> DEFINE cpu == m.CPUCycles * table.cpu
           mem == m.MemoryBytesAvg * table.mem
           net == m.NetworkBytes * table.net
           disk == m.DiskIOPS * table.disk
           util == IF m.CPURequestedMillis > 0
                     THEN (m.CPUCycles * 1000 * 100) \div m.CPURequestedMillis
                     ELSE 0
           waste == IF m.CPURequestedMillis > 0 THEN cpu * (100 - util) ELSE 0
<1>1. /\ m.CPUCycles \in Nat /\ m.MemoryBytesAvg \in Nat
      /\ m.NetworkBytes \in Nat /\ m.DiskIOPS \in Nat /\ m.CPURequestedMillis \in Nat
  BY DEF RawMetrics
<1>2. table.cpu \in Nat /\ table.mem \in Nat /\ table.net \in Nat /\ table.disk \in Nat
  BY PriceTablesAssumption
<1>3. cpu \in Nat /\ mem \in Nat /\ net \in Nat /\ disk \in Nat
  BY <1>1, <1>2, TimesNat
<1>4. util \in Nat
  <2>1. m.CPUCycles * 1000 * 100 \in Nat
    BY <1>1
  <2> QED BY <1>1, <2>1, DivNat
<1>5. waste \in Int
  BY <1>3, <1>4
<1>6. cpu + mem + net + disk \in Nat
  BY <1>3
<1>7. TeamOf[pod] \in Teams
  BY TeamOfAssumption
<1> HIDE DEF cpu, mem, net, disk, util, waste
<1>8. [Team |-> TeamOf[pod],
       CPUCost |-> cpu, MemoryCost |-> mem, NetworkCost |-> net,
       DiskCost |-> disk, TotalCost |-> cpu + mem + net + disk,
       CPUUtilizationPct |-> util, WastedDollars |-> waste] \in PodCost
  BY <1>3, <1>4, <1>5, <1>6, <1>7 DEF PodCost
<1> QED BY <1>8 DEF CostOf, cpu, mem, net, disk, util, waste

-----------------------------------------------------------------------------
(* Lemmas on the history *)

CostMaps == UNION {[S -> PodCost] : S \in SUBSET Pods}

Snapshots == {SnapshotOf(costs) : costs \in CostMaps}

(* history is a sequence of snapshots, never longer than the cap.          *)
HistorySeq == history \in Seq(Snapshots) /\ Len(history) <= HistoryCap

(* The records of a window are a map of the pods billed.                   *)
LEMMA CostMapsAreMaps == \A m : m \in CostMaps <=> IsMap(m, Pods, PodCost)
BY DEF CostMaps, IsMap

(* Snapshots are what the aggregator publishes.                            *)
LEMMA SnapshotsAreSnapshots == \A snap \in Snapshots : IsSnapshot(snap)
<1>1. ASSUME NEW costs \in CostMaps
      PROVE  IsSnapshot(SnapshotOf(costs))
  <2>1. SnapshotOf(costs).PodCosts = costs
    BY DEF SnapshotOf
  <2> QED BY <2>1, CostMapsAreMaps DEF IsSnapshot
<1> QED BY <1>1 DEF Snapshots

(* Sliding keeps the cap, and puts the new snapshot last.                  *)
LEMMA SlideFacts ==
    ASSUME NEW h \in Seq(Snapshots), Len(h) <= HistoryCap, NEW snap \in Snapshots
    PROVE  /\ Slide(h, snap) \in Seq(Snapshots)
           /\ Len(Slide(h, snap)) <= HistoryCap
           /\ Slide(h, snap) # <<>>
           /\ Slide(h, snap)[Len(Slide(h, snap))] = snap
<1>1. CASE Len(h) = HistoryCap
  <2>1. /\ Tail(h) \in Seq(Snapshots) /\ Len(Tail(h)) = HistoryCap - 1
    BY <1>1, HistoryCapAssumption
  <2>2. Slide(h, snap) = Append(Tail(h), snap)
    BY <1>1 DEF Slide
  <2> QED BY <2>1, <2>2, HistoryCapAssumption
<1>2. CASE Len(h) < HistoryCap
  <2>1. Slide(h, snap) = Append(h, snap)
    BY <1>2 DEF Slide
  <2> QED BY <2>1, <1>2, HistoryCapAssumption
<1> QED BY <1>1, <1>2, HistoryCapAssumption

(* Every entry of the history is a snapshot.                               *)
LEMMA HistorySeqType == HistorySeq => \A i \in DOMAIN history : IsSnapshot(history[i])
BY SnapshotsAreSnapshots DEF HistorySeq

-----------------------------------------------------------------------------
(* Type correctness *)

(* The types of the enricher's variables are kept by each of its steps.    *)
EnricherStep ==
    \/ \E c \in Containers : StartContainer(c) \/ StopContainer(c)
    \/ SyncTick
    \/ SyncList
    \/ SyncListFails
    \/ \E c \in Containers : SyncResolve(c)
    \/ SyncSwap

(* The steps of the sync preserve the enricher's types.                    *)
LEMMA EnricherTypes ==
    ASSUME EnricherTypeOK, EnricherStep
    PROVE  EnricherTypeOK'
<1> USE DEF EnricherTypeOK, clusterVars, syncVars
<1>1. ASSUME NEW c \in Containers, StartContainer(c) \/ StopContainer(c)
      PROVE  EnricherTypeOK'
  BY <1>1 DEF StartContainer, StopContainer
<1>2. CASE SyncTick
  BY <1>2 DEF SyncTick
<1>3. CASE SyncList
  BY <1>3 DEF SyncList
<1>4. CASE SyncListFails
  BY <1>4 DEF SyncListFails
<1>5. ASSUME NEW c \in Containers, SyncResolve(c)
      PROVE  EnricherTypeOK'
  <2>1. PodOf[c] \in Pods
    BY PodOfAssumption
  <2>2. /\ IsMap(Put(newContainerMap, c, PodOf[c]), Containers, Pods)
        /\ IsMap(Put(newCgroupMap, c, PodOf[c]), Containers, Pods)
    BY <2>1, PutIsMap
  <2> QED BY <1>5, <2>2 DEF SyncResolve
<1>6. CASE SyncSwap
  BY <1>6, NoKeysIsMap DEF SyncSwap
<1> QED BY <1>1, <1>2, <1>3, <1>4, <1>5, <1>6 DEF EnricherStep

(* The counters keep their types, and their cgroups are the known ones.    *)
LEMMA CollectorTypes ==
    ASSUME CollectorTypeOK, NEW g \in Cgroups, Report(g)
    PROVE  CollectorTypeOK'
<1> DEFINE e == Entry(g)
<1>1. e \in RawMetrics
  BY EntryType
<1>2. /\ [e EXCEPT !.CPUCycles = @ + 1] \in RawMetrics
      /\ [e EXCEPT !.NetworkBytes = @ + 1] \in RawMetrics
      /\ [e EXCEPT !.DiskIOPS = @ + 1] \in RawMetrics
  BY <1>1 DEF RawMetrics
<1>3. \E x \in RawMetrics : metrics' = Put(metrics, g, x)
  BY <1>2 DEF Report, UpdateCPU, UpdateNetwork, UpdateDisk
<1>4. PICK x \in RawMetrics : metrics' = Put(metrics, g, x)
  BY <1>3
<1>5. IsMap(Put(metrics, g, x), Cgroups, RawMetrics)
  BY PutIsMap DEF CollectorTypeOK
<1> QED BY <1>4, <1>5 DEF CollectorTypeOK

AggregatorTypeOK ==
    /\ prices \in PriceTables
    /\ collectPc \in {"idle", "priced", "resolve"}
    /\ collectPrices \in PriceTables
    /\ IsMap(raw, Cgroups, RawMetrics)
    /\ pending \subseteq DOMAIN raw
    /\ IsMap(newCosts, Pods, PodCost)
    /\ IsMap(podCosts, Pods, PodCost)
    /\ HistorySeq

(* The steps of collect() preserve the aggregator's types.                 *)
LEMMA AggregatorTypes ==
    ASSUME AggregatorTypeOK, CollectorTypeOK, EnricherTypeOK, 
           \/ PriceRefresh
           \/ CollectStart
           \/ CollectRead
           \/ \E g \in Cgroups : CollectPod(g)
           \/ CollectPublish
    PROVE  AggregatorTypeOK'
<1> USE DEF AggregatorTypeOK, HistorySeq, collectVars, publishedVars
<1>1. CASE PriceRefresh
  BY <1>1 DEF PriceRefresh
<1>2. CASE CollectStart
  BY <1>2 DEF CollectStart
<1>3. CASE CollectRead
  <2>1. IsMap(raw', Cgroups, RawMetrics) /\ DOMAIN raw' \subseteq Cgroups
    BY <1>3 DEF CollectRead, Snapshot, CollectorTypeOK, IsMap
  <2> QED BY <1>3, <2>1, NoKeysIsMap DEF CollectRead
<1>4. ASSUME NEW g \in Cgroups, CollectPod(g)
      PROVE  AggregatorTypeOK'
  <2>1. IsMap(newCosts', Pods, PodCost)
    <3>1. CASE newCosts' = newCosts
      BY <3>1
    <3>2. ASSUME NEW pod \in Resolve(g),
                 newCosts' = Put(newCosts, pod, CostOf(pod, raw[g], collectPrices))
          PROVE  IsMap(newCosts', Pods, PodCost)
      <4>1. pod \in Pods
        BY <3>2 DEF Resolve, EnricherTypeOK, IsMap
      <4>2. raw[g] \in RawMetrics
        BY <1>4 DEF CollectPod, IsMap
      <4> QED BY <3>2, <4>1, <4>2, CostOfType, PutIsMap
    <3> QED BY <1>4, <3>1, <3>2 DEF CollectPod
  <2> QED BY <1>4, <2>1 DEF CollectPod
<1>5. CASE CollectPublish
  <2>1. SnapshotOf(newCosts) \in Snapshots
    BY CostMapsAreMaps DEF Snapshots
  <2>2. history' \in Seq(Snapshots) /\ Len(history') <= HistoryCap
    BY <1>5, <2>1, SlideFacts DEF CollectPublish
  <2> QED BY <1>5, <2>2, NoKeysIsMap DEF CollectPublish
<1> QED BY <1>1, <1>2, <1>3, <1>4, <1>5

TypeInvariant ==
    /\ CollectorTypeOK
    /\ EnricherTypeOK
    /\ AggregatorTypeOK
    /\ steady \in SUBSET Containers

(* The invariant implies the types.                                        *)
LEMMA TypeInvariantImpliesTypeOK == TypeInvariant => TypeOK
BY HistorySeqType DEF TypeInvariant, AggregatorTypeOK, HistorySeq, TypeOK

(* The invariant holds at the start.                                       *)
LEMMA TypeInvariantInit == Init => TypeInvariant
<1> SUFFICES ASSUME Init PROVE TypeInvariant
  OBVIOUS
<1>1. CollectorTypeOK
  BY NoKeysIsMap DEF Init, CollectorInit, CollectorTypeOK
<1>2. EnricherTypeOK
  <2>1. IsMap(cgroupToPod, Containers, Pods)
    BY PodOfAssumption DEF Init, EnricherInit, Running, IsMap
  <2> QED BY <2>1, NoKeysIsMap DEF Init, EnricherInit, EnricherTypeOK
<1>3. AggregatorTypeOK
  BY NoKeysIsMap, HistoryCapAssumption DEF Init, AggregatorInit, AggregatorTypeOK, HistorySeq
<1> QED BY <1>1, <1>2, <1>3 DEF Init, TypeInvariant

(* Every step preserves the invariant.                                     *)
LEMMA TypeInvariantNext == TypeInvariant /\ [Next]_vars => TypeInvariant'
<1> SUFFICES ASSUME TypeInvariant, [Next]_vars PROVE TypeInvariant'
  OBVIOUS
<1> USE DEF TypeInvariant
<1>1. ASSUME NEW g \in Cgroups, Report(g)
      PROVE  TypeInvariant'
  <2>1. CollectorTypeOK'
    BY <1>1, CollectorTypes
  <2> QED BY <1>1, <2>1 DEF Report, enricherVars, aggregatorVars, EnricherTypeOK, AggregatorTypeOK, HistorySeq
<1>2. CASE Cluster \/ List \/ Sync \/ Swap
  <2>1. EnricherStep /\ UNCHANGED <<metrics, aggregatorVars>>
    BY <1>2 DEF Cluster, List, Sync, SyncAlone, Swap, EnricherStep
  <2>2. EnricherTypeOK'
    BY <2>1, EnricherTypes
  <2>3. steady' \subseteq steady
    BY <1>2 DEF Cluster, List, Sync, SyncAlone, Swap
  <2> QED BY <2>1, <2>2, <2>3 DEF aggregatorVars, CollectorTypeOK, AggregatorTypeOK, HistorySeq
<1>3. CASE Refresh \/ Read \/ Collect
  <2>1. AggregatorTypeOK'
    BY <1>3, AggregatorTypes DEF Refresh, Read, Collect
  <2>2. UNCHANGED <<metrics, enricherVars>>
    BY <1>3 DEF Refresh, Read, Collect
  <2>3. steady' = steady \/ steady' = DOMAIN cgroupToPod
    BY <1>3 DEF Refresh, Read, Collect
  <2>4. steady' \in SUBSET Containers
    BY <2>3 DEF EnricherTypeOK, IsMap
  <2> QED BY <2>1, <2>2, <2>4 DEF enricherVars, CollectorTypeOK, EnricherTypeOK
<1>4. CASE UNCHANGED vars
  BY <1>4 DEF vars, enricherVars, aggregatorVars, CollectorTypeOK, EnricherTypeOK, AggregatorTypeOK, HistorySeq
<1> QED BY <1>1, <1>2, <1>3, <1>4 DEF Next

(* Every variable keeps its type, and no more than HistoryCap snapshots    *)
(* are kept, each of them the totals of its own records.                   *)
THEOREM TypeCorrect == Spec => []TypeOK
<1>1. Init => TypeInvariant
  BY TypeInvariantInit
<1>2. TypeInvariant /\ [Next]_vars => TypeInvariant'
  BY TypeInvariantNext
<1>3. TypeInvariant => TypeOK
  BY TypeInvariantImpliesTypeOK
<1> QED BY <1>1, <1>2, <1>3, PTL DEF Spec

-----------------------------------------------------------------------------
(* What is billed                                                          *)
(*                                                                         *)
(* LatestBillsOneCut is not inductive: the record CollectPod computes is   *)
(* the right pod's only if the map it is resolved in ties every cgroup to  *)
(* its container's pod, and a new copy or a new price table does not       *)
(* disturb the records only because there are none between two loops.      *)

TiesToOwners(m) == \A c \in DOMAIN m : m[c] = PodOf[c]

CutInvariant ==
    /\ TiesToOwners(cgroupToPod)
    /\ TiesToOwners(newCgroupMap)
    /\ collectPc # "resolve" => newCosts = NoKeys
    /\ LatestBillsOneCut

(* The cut is empty at the start.                                          *)
LEMMA CutInit == Init => CutInvariant
BY NoKeysIsMap DEF Init, EnricherInit, AggregatorInit, Running, CutInvariant,
   TiesToOwners, LatestBillsOneCut, BillsOneCut

(* The sync never ties a cgroup to another container's pod.                *)
LEMMA TiesKept ==
    ASSUME TypeInvariant, EnricherStep, TiesToOwners(cgroupToPod), TiesToOwners(newCgroupMap)
    PROVE  TiesToOwners(cgroupToPod)' /\ TiesToOwners(newCgroupMap)'
<1> USE DEF TiesToOwners, syncVars
<1>1. ASSUME NEW c \in Containers, StartContainer(c) \/ StopContainer(c)
      PROVE  TiesToOwners(cgroupToPod)' /\ TiesToOwners(newCgroupMap)'
  BY <1>1 DEF StartContainer, StopContainer
<1>2. CASE SyncTick \/ SyncList \/ SyncListFails
  BY <1>2 DEF SyncTick, SyncList, SyncListFails
<1>3. ASSUME NEW c \in Containers, SyncResolve(c)
      PROVE  TiesToOwners(cgroupToPod)' /\ TiesToOwners(newCgroupMap)'
  <2>1. newCgroupMap' = newCgroupMap \/ newCgroupMap' = Put(newCgroupMap, c, PodOf[c])
    BY <1>3 DEF SyncResolve
  <2>2. UNCHANGED cgroupToPod
    BY <1>3 DEF SyncResolve
  <2>3. TiesToOwners(Put(newCgroupMap, c, PodOf[c]))
    BY DEF Put
  <2> QED BY <2>1, <2>2, <2>3
<1>4. CASE SyncSwap
  BY <1>4, NoKeysIsMap DEF SyncSwap
<1> QED BY <1>1, <1>2, <1>3, <1>4 DEF EnricherStep

(* Every step preserves the cut.                                           *)
LEMMA CutNext == TypeInvariant /\ CutInvariant /\ [Next]_vars => CutInvariant'
<1> SUFFICES ASSUME TypeInvariant, CutInvariant, [Next]_vars PROVE CutInvariant'
  OBVIOUS
<1>1. ASSUME UNCHANGED aggregatorVars,
             TiesToOwners(cgroupToPod)' /\ TiesToOwners(newCgroupMap)'
      PROVE  CutInvariant'
  BY <1>1 DEF CutInvariant, aggregatorVars, LatestBillsOneCut, BillsOneCut, ReadContainers
<1>2. ASSUME UNCHANGED enricherVars
      PROVE  TiesToOwners(cgroupToPod)' /\ TiesToOwners(newCgroupMap)'
  BY <1>2 DEF enricherVars, CutInvariant, TiesToOwners
<1>3. ASSUME NEW g \in Cgroups, Report(g)
      PROVE  CutInvariant'
  BY <1>1, <1>2, <1>3 DEF Report
<1>4. CASE Cluster \/ List \/ Sync \/ Swap
  <2>1. EnricherStep /\ UNCHANGED aggregatorVars
    BY <1>4 DEF Cluster, List, Sync, SyncAlone, Swap, EnricherStep
  <2> QED BY <2>1, <1>1, TiesKept DEF CutInvariant
<1>5. CASE Refresh
  <2>1. UNCHANGED enricherVars /\ UNCHANGED <<collectVars, publishedVars>>
    BY <1>5 DEF Refresh, PriceRefresh
  <2> QED BY <1>2, <2>1 DEF CutInvariant, collectVars, publishedVars,
          LatestBillsOneCut, BillsOneCut, ReadContainers
<1>6. CASE Read
  <2>1. newCosts' = NoKeys /\ collectPc' = "resolve" /\ UNCHANGED enricherVars
    BY <1>6 DEF Read, CollectRead
  <2> QED BY <2>1, <1>2, NoKeysIsMap DEF CutInvariant, LatestBillsOneCut, BillsOneCut
<1>7. CASE Collect
  <2>1. TiesToOwners(cgroupToPod)' /\ TiesToOwners(newCgroupMap)'
    BY <1>2, <1>7 DEF Collect
  <2>2. CASE CollectStart
    <3>1. newCosts' = NoKeys /\ collectPc' = "priced"
      BY <2>2 DEF CollectStart, CutInvariant
    <3> QED BY <2>1, <3>1, NoKeysIsMap DEF CutInvariant, LatestBillsOneCut, BillsOneCut
  <2>3. ASSUME NEW g \in Cgroups, CollectPod(g)
        PROVE  CutInvariant'
    <3>1. UNCHANGED <<raw, collectPc, collectPrices>> /\ collectPc = "resolve"
      BY <2>3 DEF CollectPod
    <3>2. ASSUME NEW pod \in Resolve(g),
                 newCosts' = Put(newCosts, pod, CostOf(pod, raw[g], collectPrices))
          PROVE  BillsOneCut(newCosts)'
      <4>1. g \in Containers /\ PodOf[g] = pod
        BY <3>2 DEF Resolve, CutInvariant, TiesToOwners, TypeInvariant, EnricherTypeOK, IsMap
      <4>2. g \in ReadContainers(pod)
        BY <4>1, <2>3 DEF CollectPod, ReadContainers, TypeInvariant, AggregatorTypeOK
      <4>3. \A p \in DOMAIN newCosts : \E c \in ReadContainers(p) :
                newCosts[p] = CostOf(p, raw[c], collectPrices)
        BY DEF CutInvariant, LatestBillsOneCut, BillsOneCut
      <4>4. \A p \in DOMAIN newCosts' : \E c \in ReadContainers(p) :
                newCosts'[p] = CostOf(p, raw[c], collectPrices)
        BY <3>2, <4>2, <4>3 DEF Put
      <4> QED BY <4>4, <3>1 DEF BillsOneCut, ReadContainers
    <3>3. ASSUME UNCHANGED newCosts
          PROVE  BillsOneCut(newCosts)'
      BY <3>1, <3>3 DEF CutInvariant, LatestBillsOneCut, BillsOneCut, ReadContainers
    <3>4. BillsOneCut(newCosts)'
      BY <2>3, <3>2, <3>3 DEF CollectPod, CutInvariant, LatestBillsOneCut
    <3> QED BY <2>1, <3>1, <3>4 DEF CutInvariant, LatestBillsOneCut
  <2>4. CASE CollectPublish
    <3>1. /\ newCosts' = NoKeys /\ podCosts' = newCosts
          /\ UNCHANGED <<raw, collectPrices>>
      BY <2>4 DEF CollectPublish
    <3>2. BillsOneCut(podCosts)' /\ BillsOneCut(newCosts)'
      BY <3>1, NoKeysIsMap DEF CutInvariant, LatestBillsOneCut, BillsOneCut, ReadContainers
    <3> QED BY <2>1, <3>1, <3>2 DEF CutInvariant, LatestBillsOneCut
  <2> QED BY <1>7, <2>2, <2>3, <2>4 DEF Collect
<1>8. CASE UNCHANGED vars
  BY <1>1, <1>2, <1>8 DEF vars
<1> QED BY <1>3, <1>4, <1>5, <1>6, <1>7, <1>8 DEF Next

(* Whatever runs between the steps of collect(), the records it publishes  *)
(* price what one container of the pod had used when Snapshot took its     *)
(* copy, under the table Get returned.                                     *)
THEOREM BillsOneCutCorrect == Spec => []LatestBillsOneCut
<1>1. Init => TypeInvariant /\ CutInvariant
  BY TypeInvariantInit, CutInit
<1>2. TypeInvariant /\ CutInvariant /\ [Next]_vars => (TypeInvariant /\ CutInvariant)'
  BY TypeInvariantNext, CutNext
<1>3. CutInvariant => LatestBillsOneCut
  BY DEF CutInvariant
<1> QED BY <1>1, <1>2, <1>3, PTL DEF Spec

-----------------------------------------------------------------------------
(* Nobody known is missed                                                  *)
(*                                                                         *)
(* The containers in steady are in the map the loop resolves in: this is   *)
(* what makes SteadyPodsBilled inductive.                                  *)

SteadyInvariant ==
    /\ steady \subseteq DOMAIN cgroupToPod
    /\ TiesToOwners(cgroupToPod)
    /\ SteadyPodsBilled

(* The invariant holds at the start.                                       *)
LEMMA SteadyInit == Init => steady = {} /\ SteadyPodsBilled
BY DEF Init, AggregatorInit, SteadyPodsBilled, NoKeys

(* Every step preserves the steady containers.                             *)
LEMMA SteadyNext ==
    TypeInvariant /\ CutInvariant /\ SteadyInvariant /\ [Next]_vars
        => steady' \subseteq DOMAIN cgroupToPod' /\ SteadyPodsBilled'
<1> SUFFICES ASSUME TypeInvariant, CutInvariant, SteadyInvariant, [Next]_vars
             PROVE  steady' \subseteq DOMAIN cgroupToPod' /\ SteadyPodsBilled'
  OBVIOUS
<1> USE DEF SteadyInvariant
<1>1. ASSUME UNCHANGED <<steady, cgroupToPod, collectPc, raw, pending, newCosts, podCosts>>
      PROVE  steady' \subseteq DOMAIN cgroupToPod' /\ SteadyPodsBilled'
  BY <1>1 DEF SteadyPodsBilled
<1>2. ASSUME NEW g \in Cgroups, Report(g)
      PROVE  steady' \subseteq DOMAIN cgroupToPod' /\ SteadyPodsBilled'
  BY <1>1, <1>2 DEF Report, enricherVars, aggregatorVars
<1>3. CASE Cluster \/ List \/ Sync
  BY <1>1, <1>3 DEF Cluster, StartContainer, StopContainer, List, Sync, SyncAlone, SyncTick,
     SyncList, SyncListFails, SyncResolve, aggregatorVars
<1>4. CASE Swap
  <2>1. /\ steady' = steady \cap DOMAIN cgroupToPod'
        /\ UNCHANGED <<collectPc, raw, pending, newCosts, podCosts>>
    BY <1>4 DEF Swap, aggregatorVars
  <2> QED BY <2>1 DEF SteadyPodsBilled
<1>5. CASE Refresh
  BY <1>1, <1>5 DEF Refresh, PriceRefresh, enricherVars, collectVars, publishedVars
<1>6. CASE Read
  BY <1>6 DEF Read, CollectRead, enricherVars, SteadyPodsBilled
<1>7. CASE Collect
  <2>1. UNCHANGED <<steady, cgroupToPod>>
    BY <1>7 DEF Collect, enricherVars
  <2>2. CASE CollectStart
    BY <2>1, <2>2 DEF CollectStart, SteadyPodsBilled
  <2>3. ASSUME NEW g \in Cgroups, CollectPod(g)
        PROVE  SteadyPodsBilled'
    <3>1. UNCHANGED <<raw, collectPc>> /\ collectPc = "resolve" /\ pending' = pending \ {g}
      BY <2>3 DEF CollectPod
    <3>2. \/ Resolve(g) = {} /\ newCosts' = newCosts
          \/ \E pod \in Resolve(g) : DOMAIN newCosts' = DOMAIN newCosts \cup {pod}
      BY <2>3 DEF CollectPod, Put
    <3>3. g \in steady => PodOf[g] \in DOMAIN newCosts'
      <4>1. g \in steady => Resolve(g) = {PodOf[g]}
        BY DEF Resolve, TiesToOwners
      <4> QED BY <4>1, <3>2
    <3> QED BY <2>1, <3>1, <3>2, <3>3 DEF SteadyPodsBilled
  <2>4. CASE CollectPublish
    BY <2>1, <2>4 DEF CollectPublish, SteadyPodsBilled
  <2> QED BY <1>7, <2>1, <2>2, <2>3, <2>4 DEF Collect
<1>8. CASE UNCHANGED vars
  BY <1>1, <1>8 DEF vars, enricherVars, aggregatorVars
<1> QED BY <1>2, <1>3, <1>4, <1>5, <1>6, <1>7, <1>8 DEF Next

(* The three invariants together are preserved.                            *)
LEMMA SteadyInvariantNext ==
    TypeInvariant /\ CutInvariant /\ SteadyInvariant /\ [Next]_vars
        => TypeInvariant' /\ CutInvariant' /\ SteadyInvariant'
<1> DEFINE Inv == TypeInvariant /\ CutInvariant /\ SteadyInvariant
<1>1. Inv /\ [Next]_vars => TypeInvariant' /\ CutInvariant'
  BY TypeInvariantNext, CutNext
<1>2. Inv /\ [Next]_vars => steady' \subseteq DOMAIN cgroupToPod' /\ SteadyPodsBilled'
  BY SteadyNext
<1>3. CutInvariant' => TiesToOwners(cgroupToPod)'
  BY DEF CutInvariant
<1> QED BY <1>1, <1>2, <1>3 DEF SteadyInvariant

(* A pod with usage in the copy, one of whose containers every map since   *)
(* the copy has known, is in the window's bill, however the sync swaps the *)
(* map under the loop.                                                     *)
THEOREM SteadyPodsCorrect == Spec => []SteadyPodsBilled
<1> DEFINE Inv == TypeInvariant /\ CutInvariant /\ SteadyInvariant
<1>1. Init => Inv
  BY TypeInvariantInit, CutInit, SteadyInit DEF SteadyInvariant, CutInvariant
<1>2. Inv /\ [Next]_vars => Inv'
  BY SteadyInvariantNext
<1>3. Inv => SteadyPodsBilled
  BY DEF SteadyInvariant
<1> QED BY <1>1, <1>2, <1>3, PTL DEF Spec

-----------------------------------------------------------------------------
(* What is published                                                       *)

(* The two places a reader can find the last window's records in, the last *)
(* snapshot (LatestSnapshot) and podCosts (WasteReport), agree.            *)
LatestMatchesPodCosts == LatestSnapshot.PodCosts = podCosts

(* Every step preserves the agreement.                                     *)
LEMMA LatestNext ==
    TypeInvariant /\ LatestMatchesPodCosts /\ [Next]_vars => LatestMatchesPodCosts'
<1> SUFFICES ASSUME TypeInvariant, LatestMatchesPodCosts, [Next]_vars
             PROVE  LatestMatchesPodCosts'
  OBVIOUS
<1>1. CASE CollectPublish
  <2>1. SnapshotOf(newCosts) \in Snapshots
    BY CostMapsAreMaps DEF Snapshots, TypeInvariant, AggregatorTypeOK
  <2>2. history' # <<>> /\ history'[Len(history')] = SnapshotOf(newCosts)
    BY <1>1, <2>1, SlideFacts DEF CollectPublish, TypeInvariant, AggregatorTypeOK, HistorySeq
  <2>3. SnapshotOf(newCosts).PodCosts = newCosts
    BY DEF SnapshotOf
  <2>4. LatestSnapshot' = SnapshotOf(newCosts)
    BY <2>2 DEF LatestSnapshot
  <2> QED BY <1>1, <2>3, <2>4 DEF CollectPublish, LatestMatchesPodCosts
<1>2. CASE ~CollectPublish
  <2>1. UNCHANGED publishedVars
    BY <1>2 DEF Next, Report, Cluster, List, Sync, SyncAlone, Swap, Refresh, PriceRefresh,
       Read, CollectRead, Collect, CollectStart, CollectPod, vars, aggregatorVars, publishedVars
  <2>2. UNCHANGED <<history, podCosts>>
    BY <2>1 DEF publishedVars
  <2>3. LatestSnapshot' = LatestSnapshot
    BY <2>2 DEF LatestSnapshot, SnapshotOf, TeamCost, SumOf, PodsOfTeam
  <2> QED BY <2>2, <2>3 DEF LatestMatchesPodCosts
<1> QED BY <1>1, <1>2

(* The last snapshot and podCosts always hold the same records.            *)
THEOREM LatestCorrect == Spec => []LatestMatchesPodCosts
<1>1. Init => TypeInvariant /\ LatestMatchesPodCosts
  <2>1. Init => LatestMatchesPodCosts
    BY DEF Init, AggregatorInit, LatestMatchesPodCosts, LatestSnapshot, SnapshotOf
  <2> QED BY <2>1, TypeInvariantInit
<1>2. TypeInvariant /\ LatestMatchesPodCosts /\ [Next]_vars
        => (TypeInvariant /\ LatestMatchesPodCosts)'
  BY TypeInvariantNext, LatestNext
<1> QED BY <1>1, <1>2, PTL DEF Spec

(* The prefix a sequence had before an append is the sequence.             *)
LEMMA PrefixOfAppend ==
    ASSUME NEW S, NEW h \in Seq(S), NEW x \in S
    PROVE  /\ Append(h, x) \in Seq(S)
           /\ Len(Append(h, x)) = Len(h) + 1
           /\ SubSeq(Append(h, x), 1, Len(h)) = h
<1> DEFINE a == Append(h, x)
           p == SubSeq(a, 1, Len(h))
<1>1. /\ a \in Seq(S) /\ Len(a) = Len(h) + 1
      /\ \A i \in 1 .. Len(h) : a[i] = h[i]
  OBVIOUS
<1>2. \A i \in 1 .. Len(h) : a[i] \in S
  BY <1>1
<1> HIDE DEF a
<1>3. /\ p \in Seq(S)
      /\ Len(p) = Len(h)
      /\ \A i \in 1 .. Len(h) : p[i] = a[i]
  <2>1. /\ p \in Seq(S)
        /\ Len(p) = IF 1 <= Len(h) THEN Len(h) - 1 + 1 ELSE 0
        /\ \A i \in 1 .. Len(h) - 1 + 1 : p[i] = a[1 + i - 1]
    BY <1>2, SubSeqProperties
  <2> QED BY <2>1
<1> HIDE DEF p
<1>4. p = h
  BY <1>1, <1>3, SeqEqual
<1> QED BY <1>1, <1>4 DEF p, a

(* The history changes by one published snapshot at a time.                *)
LEMMA SlideSlides == TypeInvariant /\ [Next]_vars => [SlidesOnce]_history
<1> SUFFICES ASSUME TypeInvariant, [Next]_vars, ~UNCHANGED history PROVE SlidesOnce
  OBVIOUS
<1>1. CollectPublish
  BY DEF Next, Report, Cluster, List, Sync, SyncAlone, Swap, Refresh, PriceRefresh,
     Read, CollectRead, Collect, CollectStart, CollectPod, vars, aggregatorVars, publishedVars
<1>2. PICK snap \in Snapshots : history' = Slide(history, snap)
  <2>1. SnapshotOf(newCosts) \in Snapshots
    BY CostMapsAreMaps DEF Snapshots, TypeInvariant, AggregatorTypeOK
  <2> QED BY <1>1, <2>1 DEF CollectPublish
<1>3. history \in Seq(Snapshots) /\ Len(history) <= HistoryCap
  BY DEF TypeInvariant, AggregatorTypeOK, HistorySeq
<1>4. CASE Len(history) = HistoryCap
  <2>1. Tail(history) \in Seq(Snapshots) /\ Len(Tail(history)) = HistoryCap - 1
    BY <1>3, <1>4, HistoryCapAssumption
  <2>2. history' = Append(Tail(history), snap)
    BY <1>2, <1>4 DEF Slide
  <2>3. /\ Len(history') = HistoryCap
        /\ SubSeq(history', 1, HistoryCap - 1) = Tail(history)
    BY <2>1, <2>2, PrefixOfAppend, HistoryCapAssumption
  <2> QED BY <2>3, <1>4 DEF SlidesOnce
<1>5. CASE Len(history) # HistoryCap
  <2>1. history' = Append(history, snap)
    BY <1>2, <1>5 DEF Slide
  <2> QED BY <2>1, <1>3, PrefixOfAppend DEF SlidesOnce
<1> QED BY <1>4, <1>5

(* Publishing adds one snapshot at the end and loses at most the oldest    *)
(* one, and that only when the history is full.                            *)
THEOREM HistoryCorrect == Spec => HistoryOnlySlides
<1>1. Init => TypeInvariant
  BY TypeInvariantInit
<1>2. TypeInvariant /\ [Next]_vars => TypeInvariant'
  BY TypeInvariantNext
<1>3. TypeInvariant /\ [Next]_vars => [SlidesOnce]_history
  BY SlideSlides
<1> QED BY <1>1, <1>2, <1>3, PTL DEF Spec, HistoryOnlySlides

-----------------------------------------------------------------------------
(* The refinement                                                          *)
(*                                                                         *)
(* Every step of the agent is a step of the ledger or leaves it alone.     *)
(* What CollectPublish publishes is a bill of the ledger by the two        *)
(* invariants above: each record pays for a container of its pod           *)
(* (LatestBillsOneCut), and the pods known throughout have one             *)
(* (SteadyPodsBilled).                                                     *)

(* The ledger computes costs, totals and the history as the agent does.    *)
LEMMA SameLedger ==
    ASSUME NEW p, NEW m, NEW t, NEW costs, NEW h, NEW snap
    PROVE  /\ Ledger!CostOf(p, m, t) = CostOf(p, m, t)
           /\ Ledger!SnapshotOf(costs) = SnapshotOf(costs)
           /\ Ledger!Slide(h, snap) = Slide(h, snap)
           /\ Ledger!NoKeys = NoKeys
<1>1. Ledger!CostOf(p, m, t) = CostOf(p, m, t)
  BY DEF Ledger!CostOf, CostOf
<1>2. Ledger!SnapshotOf(costs) = SnapshotOf(costs)
  BY DEF Ledger!SnapshotOf, SnapshotOf, Ledger!TeamCost, TeamCost, Ledger!SumOf, SumOf,
         Ledger!PodsOfTeam, PodsOfTeam, Ledger!SumFunctionOnSet, SumFunctionOnSet,
         Ledger!FoldFunctionOnSet, FoldFunctionOnSet, Ledger!MapThenFoldSet, MapThenFoldSet,
         Ledger!Cardinality, Cardinality
<1>3. Ledger!Slide(h, snap) = Slide(h, snap)
  BY DEF Ledger!Slide, Slide
<1>4. Ledger!NoKeys = NoKeys
  BY DEF Ledger!NoKeys, NoKeys
<1> QED BY <1>1, <1>2, <1>3, <1>4

(* The agent starts as the ledger does.                                    *)
LEMMA LedgerStart == Init => Ledger!LedgerInit
<1> SUFFICES ASSUME Init PROVE Ledger!LedgerInit
  OBVIOUS
<1>1. DOMAIN cgroupToPod \in SUBSET Containers
  BY TypeInvariantInit DEF TypeInvariant, EnricherTypeOK, IsMap
<1> QED BY <1>1, SameLedger DEF Init, CollectorInit, AggregatorInit, Ledger!LedgerInit

(* A report makes some counter grow, and no counter shrink.                *)
LEMMA ReportUses ==
    ASSUME TypeInvariant, NEW g \in Cgroups, Report(g)
    PROVE  Ledger!Use
<1> DEFINE e == Entry(g)
<1>1. /\ e \in RawMetrics
      /\ g \in DOMAIN metrics => e = metrics[g]
  BY EntryType DEF TypeInvariant, Entry, Lookup
<1> HIDE DEF e
<1>2. PICK x : /\ metrics' = Put(metrics, g, x)
               /\ \A resource \in DOMAIN e : e[resource] <= x[resource]
  <2>1. \A field \in {"CPUCycles", "NetworkBytes", "DiskIOPS"} :
          \A resource \in DOMAIN e : e[resource] <= [e EXCEPT ![field] = @ + 1][resource]
    BY <1>1 DEF RawMetrics
  <2>2. \/ metrics' = Put(metrics, g, [e EXCEPT !["CPUCycles"] = @ + 1])
        \/ metrics' = Put(metrics, g, [e EXCEPT !["NetworkBytes"] = @ + 1])
        \/ metrics' = Put(metrics, g, [e EXCEPT !["DiskIOPS"] = @ + 1])
    BY <1>1 DEF Report, UpdateCPU, UpdateNetwork, UpdateDisk, e
  <2> QED BY <2>1, <2>2
<1>3. ASSUME NEW h \in DOMAIN metrics
      PROVE  /\ h \in DOMAIN metrics'
             /\ \A resource \in DOMAIN metrics[h] : metrics[h][resource] <= metrics'[h][resource]
  <2>1. CASE h = g
    BY <1>1, <1>2, <2>1 DEF Put
  <2>2. CASE h # g
    <3>1. metrics'[h] = metrics[h] /\ h \in DOMAIN metrics'
      BY <1>2, <2>2 DEF Put
    <3>2. \A resource \in DOMAIN metrics[h] : metrics[h][resource] \in Nat
      BY DEF TypeInvariant, CollectorTypeOK, IsMap, RawMetrics
    <3> QED BY <3>1, <3>2
  <2> QED BY <2>1, <2>2
<1>4. UNCHANGED <<cgroupToPod, prices, collectPc, collectPrices, raw, steady, podCosts, history>>
  BY DEF Report, enricherVars, aggregatorVars
<1> QED BY <1>3, <1>4 DEF Ledger!Use

(* The end of the loop bills the cut.                                      *)
LEMMA PublishBills ==
    ASSUME TypeInvariant, CutInvariant, SteadyInvariant, CollectPublish,
           UNCHANGED <<metrics, enricherVars, steady>>
    PROVE  Ledger!Bill
<1>1. /\ collectPc = "resolve" /\ pending = {} /\ collectPc' = "idle"
      /\ podCosts' = newCosts /\ history' = Slide(history, SnapshotOf(newCosts))
      /\ UNCHANGED <<prices, collectPrices, raw>>
  BY DEF CollectPublish
<1> DEFINE pays == [pod \in DOMAIN newCosts |->
                      CHOOSE c \in ReadContainers(pod) :
                          newCosts[pod] = CostOf(pod, raw[c], collectPrices)]
<1>2. ASSUME NEW pod \in DOMAIN newCosts
      PROVE  /\ pays[pod] \in DOMAIN raw \cap Containers
             /\ PodOf[pays[pod]] = pod
             /\ newCosts[pod] = CostOf(pod, raw[pays[pod]], collectPrices)
  BY DEF CutInvariant, LatestBillsOneCut, BillsOneCut, ReadContainers
<1>3. /\ DOMAIN pays = DOMAIN newCosts
      /\ pays \in [DOMAIN newCosts -> DOMAIN raw \cap Containers]
  BY <1>2
<1> HIDE DEF pays
<1>4. DOMAIN newCosts \in SUBSET Pods
  BY DEF TypeInvariant, AggregatorTypeOK, IsMap
<1>5. \A c \in steady \cap DOMAIN raw : PodOf[c] \in DOMAIN pays
  BY <1>1, <1>3 DEF SteadyInvariant, SteadyPodsBilled
<1>6. pays \in Ledger!Payments
  BY <1>2, <1>3, <1>4, <1>5 DEF Ledger!Payments
<1>7. podCosts' = [pod \in DOMAIN pays |-> Ledger!CostOf(pod, raw[pays[pod]], collectPrices)]
  <2>1. newCosts = [pod \in DOMAIN newCosts |-> newCosts[pod]]
    BY DEF TypeInvariant, AggregatorTypeOK, IsMap
  <2>2. \A pod \in DOMAIN newCosts :
           newCosts[pod] = Ledger!CostOf(pod, raw[pays[pod]], collectPrices)
    BY <1>2, SameLedger
  <2> QED BY <1>1, <1>3, <2>1, <2>2
<1>8. history' = Ledger!Slide(history, Ledger!SnapshotOf(podCosts'))
  BY <1>1, SameLedger
<1>9. UNCHANGED <<metrics, cgroupToPod, steady>>
  BY DEF enricherVars
<1> QED BY <1>1, <1>6, <1>7, <1>8, <1>9 DEF Ledger!Bill

(* A step of the agent is a step of the ledger or none.                    *)
LEMMA LedgerStep ==
    ASSUME TypeInvariant, CutInvariant, SteadyInvariant, [Next]_vars
    PROVE  [Ledger!LedgerNext]_(Ledger!ledgerVars)
<1> USE DEF Ledger!LedgerNext
<1>1. ASSUME UNCHANGED <<metrics, cgroupToPod, prices, collectPc, collectPrices, raw, steady,
                         podCosts, history>>
      PROVE  UNCHANGED Ledger!ledgerVars
  BY <1>1 DEF Ledger!ledgerVars
<1>2. ASSUME NEW g \in Cgroups, Report(g)
      PROVE  Ledger!LedgerNext
  BY <1>2, ReportUses
<1>3. CASE Cluster \/ List \/ Sync
  BY <1>1, <1>3 DEF Cluster, StartContainer, StopContainer, List, Sync, SyncAlone, SyncTick,
     SyncList, SyncListFails, SyncResolve, aggregatorVars
<1>4. CASE Swap
  <2>1. DOMAIN cgroupToPod' \in SUBSET Containers
    BY <1>4, TypeInvariantNext DEF Next, TypeInvariant, EnricherTypeOK, IsMap
  <2>2. Ledger!Learn
    BY <1>4, <2>1 DEF Swap, aggregatorVars, Ledger!Learn
  <2> QED BY <2>2
<1>5. CASE Refresh
  <2>1. Ledger!Reprice
    BY <1>5 DEF Refresh, PriceRefresh, enricherVars, collectVars, publishedVars, Ledger!Reprice
  <2> QED BY <2>1
<1>6. CASE Read
  <2>1. Ledger!Cut
    BY <1>6 DEF Read, CollectRead, Snapshot, enricherVars, publishedVars, Ledger!Cut
  <2> QED BY <2>1
<1>7. CASE Collect
  <2>0. UNCHANGED <<metrics, enricherVars, steady>> /\ UNCHANGED <<metrics, cgroupToPod, steady>>
    BY <1>7 DEF Collect, enricherVars
  <2>1. CASE CollectStart
    <3>1. Ledger!Price
      BY <2>0, <2>1 DEF CollectStart, publishedVars, Ledger!Price
    <3> QED BY <3>1
  <2>2. ASSUME NEW g \in Cgroups, CollectPod(g)
        PROVE  UNCHANGED Ledger!ledgerVars
    BY <1>1, <2>0, <2>2 DEF CollectPod, publishedVars
  <2>3. CASE CollectPublish
    BY <2>0, <2>3, PublishBills
  <2> QED BY <1>7, <2>1, <2>2, <2>3 DEF Collect
<1>8. CASE UNCHANGED vars
  BY <1>1, <1>8 DEF vars, enricherVars, aggregatorVars
<1> QED BY <1>2, <1>3, <1>4, <1>5, <1>6, <1>7, <1>8 DEF Next

(* The agent, with its reports, syncs and refreshes between the steps of   *)
(* the loop, implements the ledger that bills a window in one step.        *)
THEOREM KeepsLedgerCorrect == Spec => KeepsLedger
<1> DEFINE Inv == TypeInvariant /\ CutInvariant /\ SteadyInvariant
<1>1. Init => Inv
  BY TypeInvariantInit, CutInit, SteadyInit DEF SteadyInvariant, CutInvariant
<1>2. Inv /\ [Next]_vars => Inv'
  BY SteadyInvariantNext
<1>3. Init => Ledger!LedgerInit
  BY LedgerStart
<1>4. Inv /\ [Next]_vars => [Ledger!LedgerNext]_(Ledger!ledgerVars)
  BY LedgerStep
<1> QED BY <1>1, <1>2, <1>3, <1>4, PTL DEF Spec, KeepsLedger, Ledger!LedgerSpec

-----------------------------------------------------------------------------
(***************************************************************************)
(* The endpoints.  A bill can be added up: it is a finite map, and the     *)
(* total of each of its records is the sum of the record's parts.          *)
(***************************************************************************)
AddsUp(costs) ==
    /\ IsFiniteSet(DOMAIN costs)
    /\ \A p \in DOMAIN costs :
          costs[p].TotalCost = costs[p].CPUCost + costs[p].MemoryCost
                             + costs[p].NetworkCost + costs[p].DiskCost

BillsAddUp ==
    /\ AddsUp(newCosts)
    /\ \A i \in DOMAIN history : AddsUp(history[i].PodCosts)

(* A column of a bill, and the sums over it.                               *)
Column(costs, field) == [p \in DOMAIN costs |-> costs[p][field]]

(* Every endpoint sums a column of the bill.                               *)
LEMMA ColumnSums ==
    ASSUME NEW costs, IsMap(costs, Pods, PodCost), IsFiniteSet(DOMAIN costs)
    PROVE  /\ \A p \in DOMAIN costs :
                 /\ Column(costs, "CPUCost")[p] \in Int
                 /\ Column(costs, "MemoryCost")[p] \in Int
                 /\ Column(costs, "NetworkCost")[p] \in Int
                 /\ Column(costs, "DiskCost")[p] \in Int
                 /\ Column(costs, "TotalCost")[p] \in Int
           /\ \A field, pods : pods \subseteq DOMAIN costs =>
                 SumOf(costs, field, pods) = SumFunctionOnSet(Column(costs, field), pods)
<1>1. \A p \in DOMAIN costs : costs[p] \in PodCost
  BY DEF IsMap
<1>2. ASSUME NEW field, NEW pods, pods \subseteq DOMAIN costs
      PROVE  SumOf(costs, field, pods) = SumFunctionOnSet(Column(costs, field), pods)
  <2> DEFINE f == [p \in pods |-> costs[p][field]]
             g == Column(costs, field)
  <2>1. IsFiniteSet(pods)
    BY <1>2, FS_Subset
  <2>2. \A p \in pods : f[p] = g[p]
    BY <1>2 DEF Column
  <2>3. SumFunctionOnSet(f, pods) = SumFunctionOnSet(g, pods)
    <3> HIDE DEF f, g
    <3> QED BY <2>1, <2>2, SumEqual
  <2> QED BY <2>3 DEF SumOf
<1> QED BY <1>1, <1>2 DEF Column, PodCost

(* The four parts of the cost of any pods add up to the cost.              *)
LEMMA PartsAddUp ==
    ASSUME NEW costs, IsMap(costs, Pods, PodCost), AddsUp(costs),
           NEW pods \in SUBSET DOMAIN costs
    PROVE  SumOf(costs, "TotalCost", pods)
             = SumOf(costs, "CPUCost", pods) + SumOf(costs, "MemoryCost", pods)
             + SumOf(costs, "NetworkCost", pods) + SumOf(costs, "DiskCost", pods)
<1> DEFINE cpu == Column(costs, "CPUCost")
           mem == Column(costs, "MemoryCost")
           net == Column(costs, "NetworkCost")
           disk == Column(costs, "DiskCost")
           total == Column(costs, "TotalCost")
           two == [p \in pods |-> cpu[p] + mem[p]]
           three == [p \in pods |-> two[p] + net[p]]
<1>1. IsFiniteSet(pods)
  BY FS_Subset DEF AddsUp
<1>2. \A p \in pods : /\ cpu[p] \in Int /\ mem[p] \in Int /\ net[p] \in Int /\ disk[p] \in Int
                      /\ total[p] = cpu[p] + mem[p] + net[p] + disk[p]
  <2>1. \A p \in pods : total[p] = cpu[p] + mem[p] + net[p] + disk[p]
    BY DEF AddsUp, Column
  <2> QED BY <2>1, ColumnSums DEF AddsUp
<1>3. /\ \A p \in pods : two[p] \in Int /\ two[p] = cpu[p] + mem[p]
      /\ \A p \in pods : three[p] \in Int /\ three[p] = two[p] + net[p]
      /\ \A p \in pods : total[p] = three[p] + disk[p]
  BY <1>2
<1>4. /\ SumOf(costs, "CPUCost", pods) = SumFunctionOnSet(cpu, pods)
      /\ SumOf(costs, "MemoryCost", pods) = SumFunctionOnSet(mem, pods)
      /\ SumOf(costs, "NetworkCost", pods) = SumFunctionOnSet(net, pods)
      /\ SumOf(costs, "DiskCost", pods) = SumFunctionOnSet(disk, pods)
      /\ SumOf(costs, "TotalCost", pods) = SumFunctionOnSet(total, pods)
  BY ColumnSums DEF AddsUp
<1> HIDE DEF cpu, mem, net, disk, total, two, three
<1>5. SumFunctionOnSet(two, pods) = SumFunctionOnSet(cpu, pods) + SumFunctionOnSet(mem, pods)
  BY <1>1, <1>2, <1>3, SumPlus
<1>6. SumFunctionOnSet(three, pods) = SumFunctionOnSet(two, pods) + SumFunctionOnSet(net, pods)
  BY <1>1, <1>2, <1>3, SumPlus
<1>7. SumFunctionOnSet(total, pods) = SumFunctionOnSet(three, pods) + SumFunctionOnSet(disk, pods)
  BY <1>1, <1>2, <1>3, SumPlus
<1> QED BY <1>4, <1>5, <1>6, <1>7

(* The endpoints agree about any snapshot whose bill adds up.              *)
LEMMA SnapshotAgrees ==
    ASSUME NEW snap, IsSnapshot(snap), AddsUp(snap.PodCosts)
    PROVE  LET total == handleSummary(snap).total_cost
               teams == handleByTeam(snap)
               rows == handleByNamespace(snap)
               page == handleMetrics(snap)
           IN  /\ total = page.cluster_cost_total
               /\ total = SumFunction([t \in DOMAIN teams |-> teams[t].total_cost])
               /\ total = SumFunction(rows)
               /\ total = SumFunction(page.pod_cost_total)
               /\ \A t \in DOMAIN teams :
                    /\ teams[t].pod_count = Cardinality(handleByPod(snap, {}, {t}))
                    /\ teams[t].total_cost = teams[t].cpu_cost + teams[t].memory_cost
                                           + teams[t].network_cost + teams[t].disk_cost
<1> DEFINE costs == snap.PodCosts
           pods == DOMAIN costs
           f == Column(costs, "TotalCost")
           teams == handleByTeam(snap)
           rows == handleByNamespace(snap)
           teamRows == [t \in DOMAIN teams |-> teams[t].total_cost]
           page == handleMetrics(snap)
<1>1. /\ IsMap(costs, Pods, PodCost)
      /\ snap.TeamCosts = [t \in {costs[p].Team : p \in pods} |-> TeamCost(costs, t)]
      /\ snap.Total = SumOf(costs, "TotalCost", pods)
  BY DEF IsSnapshot, SnapshotOf
<1>2. IsFiniteSet(pods) /\ \A p \in pods : f[p] \in Int
  BY <1>1, ColumnSums DEF AddsUp
<1>3. \A qs : qs \subseteq pods => SumOf(costs, "TotalCost", qs) = SumFunctionOnSet(f, qs)
  BY <1>1, <1>2, ColumnSums
<1>4. handleSummary(snap).total_cost = SumFunctionOnSet(f, pods)
  BY <1>1, <1>3 DEF handleSummary
<1>5. page.cluster_cost_total = SumFunctionOnSet(f, pods)
  BY <1>1, <1>3 DEF handleMetrics
<1>6. page.pod_cost_total = f /\ DOMAIN f = pods
  BY DEF handleMetrics, Column
<1>7. DOMAIN teams = {costs[p].Team : p \in pods}
  BY <1>1 DEF handleByTeam
<1>8. ASSUME NEW t \in DOMAIN teams
      PROVE  /\ teams[t].total_cost = SumOf(costs, "TotalCost", PodsOfTeam(costs, t))
             /\ teams[t].pod_count = Cardinality(PodsOfTeam(costs, t))
             /\ teams[t].cpu_cost = SumOf(costs, "CPUCost", PodsOfTeam(costs, t))
             /\ teams[t].memory_cost = SumOf(costs, "MemoryCost", PodsOfTeam(costs, t))
             /\ teams[t].network_cost = SumOf(costs, "NetworkCost", PodsOfTeam(costs, t))
             /\ teams[t].disk_cost = SumOf(costs, "DiskCost", PodsOfTeam(costs, t))
  <2>1. snap.TeamCosts[t] = TeamCost(costs, t) /\ t \in DOMAIN snap.TeamCosts
    BY <1>1, <1>7
  <2> QED BY <2>1 DEF handleByTeam, TeamCost
<1>9. \A t : PodsOfTeam(costs, t) = {p \in pods : Column(costs, "Team")[p] = t}
  BY DEF PodsOfTeam, Column
<1>10. SumFunction(teamRows) = SumFunctionOnSet(f, pods)
  <2>1. \A t \in DOMAIN teamRows :
          teamRows[t] = SumFunctionOnSet(f, {p \in pods : Column(costs, "Team")[p] = t})
    BY <1>3, <1>8, <1>9
  <2>2. DOMAIN teamRows = {Column(costs, "Team")[p] : p \in pods}
    BY <1>7 DEF Column
  <2> HIDE DEF teamRows, f, pods
  <2> QED BY <1>2, <2>1, <2>2, SumByKey
<1>11. SumFunction(rows) = SumFunctionOnSet(f, pods)
  <2>1. DOMAIN rows = {NamespaceOf[p] : p \in pods}
    BY DEF handleByNamespace
  <2>2. \A ns \in DOMAIN rows :
          rows[ns] = SumFunctionOnSet(f, {p \in pods : NamespaceOf[p] = ns})
    BY <1>3 DEF handleByNamespace
  <2> HIDE DEF rows, f, pods
  <2> QED BY <1>2, <2>1, <2>2, SumByKey
<1>12. SumFunction(page.pod_cost_total) = SumFunctionOnSet(f, pods)
  BY <1>6 DEF SumFunction
<1>13. \A t : handleByPod(snap, {}, {t}) = PodsOfTeam(costs, t)
  BY DEF handleByPod, PodsOfTeam
<1>14. ASSUME NEW t \in DOMAIN teams
       PROVE  /\ teams[t].pod_count = Cardinality(handleByPod(snap, {}, {t}))
              /\ teams[t].total_cost = teams[t].cpu_cost + teams[t].memory_cost
                                     + teams[t].network_cost + teams[t].disk_cost
  <2>1. PodsOfTeam(costs, t) \in SUBSET DOMAIN costs
    BY DEF PodsOfTeam
  <2>2. SumOf(costs, "TotalCost", PodsOfTeam(costs, t))
          = SumOf(costs, "CPUCost", PodsOfTeam(costs, t))
          + SumOf(costs, "MemoryCost", PodsOfTeam(costs, t))
          + SumOf(costs, "NetworkCost", PodsOfTeam(costs, t))
          + SumOf(costs, "DiskCost", PodsOfTeam(costs, t))
    <3> HIDE DEF costs
    <3> QED BY <1>1, <2>1, PartsAddUp DEF costs
  <2> HIDE DEF costs, teams
  <2> QED BY <1>8, <1>13, <2>2
<1> HIDE DEF costs, pods, f, teams, rows, page
<1> QED BY <1>4, <1>5, <1>10, <1>11, <1>12, <1>14 DEF teams, rows, page

(* What a slide leaves in the history.                                     *)
LEMMA SlideKeeps ==
    ASSUME NEW h \in Seq(Snapshots), Len(h) <= HistoryCap, NEW snap \in Snapshots,
           NEW i \in DOMAIN Slide(h, snap)
    PROVE  Slide(h, snap)[i] = snap \/ \E j \in DOMAIN h : Slide(h, snap)[i] = h[j]
<1>1. CASE Len(h) = HistoryCap
  <2>1. Slide(h, snap) = Append(Tail(h), snap) /\ h # <<>>
    BY <1>1, HistoryCapAssumption DEF Slide
  <2>2. /\ Tail(h) \in Seq(Snapshots) /\ Len(Tail(h)) = Len(h) - 1
        /\ \A j \in 1 .. Len(h) - 1 : Tail(h)[j] = h[j + 1]
    BY <2>1
  <2>3. CASE i = Len(h)
    BY <2>1, <2>2, <2>3
  <2>4. CASE i # Len(h)
    <3>1. i \in 1 .. Len(h) - 1
      BY <2>1, <2>2, <2>4
    <3>2. Slide(h, snap)[i] = h[i + 1] /\ i + 1 \in DOMAIN h
      BY <2>1, <2>2, <3>1
    <3> QED BY <3>2
  <2> QED BY <2>3, <2>4
<1>2. CASE Len(h) # HistoryCap
  <2>1. Slide(h, snap) = Append(h, snap)
    BY <1>2 DEF Slide
  <2> QED BY <2>1
<1> QED BY <1>1, <1>2

(* CostOf computes such records.                                           *)
LEMMA CostAddsUp ==
    ASSUME NEW pod \in Pods, NEW m, NEW table
    PROVE  LET cost == CostOf(pod, m, table)
           IN  cost.TotalCost = cost.CPUCost + cost.MemoryCost + cost.NetworkCost + cost.DiskCost
BY DEF CostOf

(* Every bill, under way or in the history, adds up.                       *)
LEMMA BillsNext ==
    TypeInvariant /\ BillsAddUp /\ [Next]_vars => BillsAddUp'
<1> SUFFICES ASSUME TypeInvariant, BillsAddUp, [Next]_vars
             PROVE  BillsAddUp'
  OBVIOUS
<1>1. CASE Read
  BY <1>1, FS_EmptySet DEF Read, CollectRead, publishedVars, NoKeys, BillsAddUp, AddsUp
<1>2. ASSUME NEW g \in Cgroups, CollectPod(g)
      PROVE  BillsAddUp'
  <2>1. UNCHANGED history
    BY <1>2 DEF CollectPod, publishedVars
  <2>2. CASE UNCHANGED newCosts
    BY <2>1, <2>2 DEF BillsAddUp
  <2>3. ASSUME NEW pod \in Resolve(g),
               newCosts' = Put(newCosts, pod, CostOf(pod, raw[g], collectPrices))
        PROVE  BillsAddUp'
    <3> DEFINE cost == CostOf(pod, raw[g], collectPrices)
    <3>1. cost.TotalCost = cost.CPUCost + cost.MemoryCost + cost.NetworkCost + cost.DiskCost
      BY CostAddsUp DEF CostOf
    <3>2. newCosts' = Put(newCosts, pod, cost)
      BY <2>3
    <3> HIDE DEF cost
    <3>3. /\ DOMAIN newCosts' = DOMAIN newCosts \cup {pod}
          /\ newCosts'[pod] = cost
          /\ \A x \in DOMAIN newCosts \ {pod} : newCosts'[x] = newCosts[x]
      BY <3>2 DEF Put
    <3>4. IsFiniteSet(DOMAIN newCosts')
      BY <3>3, FS_AddElement DEF BillsAddUp, AddsUp
    <3> QED BY <2>1, <3>1, <3>3, <3>4 DEF BillsAddUp, AddsUp
  <2> QED BY <1>2, <2>2, <2>3 DEF CollectPod
<1>3. CASE CollectPublish
  <2> DEFINE snap == SnapshotOf(newCosts)
  <2>1. snap \in Snapshots /\ snap.PodCosts = newCosts
    <3>1. snap \in Snapshots
      BY CostMapsAreMaps DEF Snapshots, TypeInvariant, AggregatorTypeOK
    <3> QED BY <3>1 DEF SnapshotOf
  <2>2. /\ history \in Seq(Snapshots) /\ Len(history) <= HistoryCap
        /\ history' = Slide(history, snap) /\ newCosts' = NoKeys
    BY <1>3 DEF CollectPublish, TypeInvariant, AggregatorTypeOK, HistorySeq
  <2> HIDE DEF snap
  <2>3. \A i \in DOMAIN history' : history'[i] = snap \/ \E j \in DOMAIN history : history'[i] = history[j]
    BY <2>1, <2>2, SlideKeeps
  <2>4. \A i \in DOMAIN history' : AddsUp(history'[i].PodCosts)
    BY <2>1, <2>3 DEF BillsAddUp
  <2>5. AddsUp(newCosts')
    BY <2>2, FS_EmptySet DEF NoKeys, AddsUp
  <2> QED BY <2>4, <2>5 DEF BillsAddUp, AddsUp
<1>4. CASE ~(Read \/ CollectPublish \/ \E g \in Cgroups : CollectPod(g))
  <2>1. UNCHANGED <<newCosts, history>>
    BY <1>4 DEF Next, Report, Cluster, List, Sync, SyncAlone, Swap, Refresh, PriceRefresh,
       Collect, CollectStart, vars, aggregatorVars, publishedVars, collectVars
  <2> QED BY <2>1 DEF BillsAddUp, AddsUp
<1> QED BY <1>1, <1>2, <1>3, <1>4

(* Every endpoint gives the same total for any snapshot that was ever      *)
(* served, its team, namespace and pod rows add up to it, and the team     *)
(* rows partition the pods.                                                *)
THEOREM EndpointsCorrect == Spec => []EndpointsAgree
<1>1. Init => TypeInvariant /\ BillsAddUp
  <2>1. Init => BillsAddUp
    BY FS_EmptySet DEF Init, AggregatorInit, BillsAddUp, AddsUp, NoKeys
  <2> QED BY <2>1, TypeInvariantInit
<1>2. TypeInvariant /\ BillsAddUp /\ [Next]_vars => (TypeInvariant /\ BillsAddUp)'
  BY TypeInvariantNext, BillsNext
<1>3. TypeInvariant /\ BillsAddUp => EndpointsAgree
  <2>1. TypeInvariant => \A i \in DOMAIN history : IsSnapshot(history[i])
    BY HistorySeqType DEF TypeInvariant, AggregatorTypeOK
  <2> QED BY <2>1, SnapshotAgrees DEF BillsAddUp, EndpointsAgree
<1> QED BY <1>1, <1>2, <1>3, PTL DEF Spec
=============================================================================
