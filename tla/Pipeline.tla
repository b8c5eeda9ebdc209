------------------------------ MODULE Pipeline ------------------------------
(***************************************************************************)
(* The agent at run time: the collectors' updates, the pod sync, the       *)
(* pricer's refresh and the aggregator's loop as concurrent processes, as  *)
(* cmd/koprobe/main.go wires them.                                         *)
(***************************************************************************)
EXTENDS Exporter

CONSTANTS
    Sources,    \* bound: the collectors that report each cgroup, among cpu, net and disk
    MaxCount    \* bound: a counter at MaxCount is not added to any more

ASSUME SourcesAssumption == Sources \in [Cgroups -> SUBSET {"cpu", "net", "disk"}]
ASSUME MaxCountAssumption == MaxCount \in Nat

VARIABLE steady   \* history variable: the containers cgroupToPod has held
                  \* without a break since the current collect took its copy

vars == <<metrics, enricherVars, aggregatorVars, steady>>

TypeOK ==
    /\ CollectorTypeOK
    /\ EnricherTypeOK
    /\ prices \in PriceTables
    /\ collectPc \in {"idle", "priced", "resolve"}
    /\ collectPrices \in PriceTables
    /\ IsMap(raw, Cgroups, RawMetrics)
    /\ pending \subseteq DOMAIN raw
    /\ IsMap(newCosts, Pods, PodCost)
    /\ IsMap(podCosts, Pods, PodCost)
    /\ Len(history) <= HistoryCap
    /\ \A i \in DOMAIN history : IsSnapshot(history[i])
    /\ steady \in SUBSET Containers

Init ==
    /\ CollectorInit
    /\ EnricherInit
    /\ AggregatorInit
    /\ steady = {}

-----------------------------------------------------------------------------
(* The eBPF collectors report usage (external: the read loops that call    *)
(* Update* are not in the repository).  A cgroup can be reported once it   *)
(* exists, and still after it is gone.                                     *)
Reported(g) == g \in Containers => phase[g] # "waiting"

Report(g) ==
    /\ Reported(g)
    /\ \/ "cpu" \in Sources[g] /\ Entry(g).CPUCycles < MaxCount /\ UpdateCPU(g, 1)
       \/ "net" \in Sources[g] /\ Entry(g).NetworkBytes < MaxCount /\ UpdateNetwork(g, 1)
       \/ "disk" \in Sources[g] /\ Entry(g).DiskIOPS < MaxCount /\ UpdateDisk(g, 1)
    /\ UNCHANGED <<enricherVars, aggregatorVars, steady>>

Cluster ==
    /\ \E c \in Containers : StartContainer(c) \/ StopContainer(c)
    /\ UNCHANGED <<metrics, aggregatorVars, steady>>

(* The goroutine of StartSync.                                             *)
SyncAlone(step) == step /\ UNCHANGED <<metrics, aggregatorVars, steady>>

List == SyncAlone(SyncList)
Sync == SyncAlone(SyncTick \/ SyncListFails \/ \E c \in Containers : SyncResolve(c))

Swap ==
    /\ SyncSwap
    /\ steady' = steady \cap DOMAIN cgroupToPod'
    /\ UNCHANGED <<metrics, aggregatorVars>>

Refresh ==
    /\ PriceRefresh
    /\ UNCHANGED <<metrics, enricherVars, steady>>

(* The goroutine of Aggregator.Run.                                        *)
Read ==
    /\ CollectRead
    /\ steady' = DOMAIN cgroupToPod
    /\ UNCHANGED <<metrics, enricherVars>>

Collect ==
    /\ \/ CollectStart
       \/ \E g \in Cgroups : CollectPod(g)
       \/ CollectPublish
    /\ UNCHANGED <<metrics, enricherVars, steady>>

Next ==
    \/ \E g \in Cgroups : Report(g)
    \/ Cluster
    \/ List
    \/ Sync
    \/ Swap
    \/ Refresh
    \/ Read
    \/ Collect

Spec == Init /\ [][Next]_vars

(***************************************************************************)
(* Both loops take their next step when they can: they wait for nothing    *)
(* but short critical sections and, in syncPods, the Kubernetes API, whose *)
(* calls fail from time to time but not for ever (strong fairness).  The   *)
(* cluster, the reports and the price refreshes owe nothing.               *)
(***************************************************************************)
Fairness ==
    /\ WF_vars(Read)
    /\ WF_vars(Collect)
    /\ WF_vars(Sync /\ ~SyncListFails)
    /\ SF_vars(List)
    /\ WF_vars(Swap)

FairSpec == Spec /\ Fairness

-----------------------------------------------------------------------------
(* Safety *)

(* Containers of a pod that the copy of the metrics has seen.              *)
ReadContainers(pod) == {c \in DOMAIN raw \cap Containers : PodOf[c] = pod}

BillsOneCut(costs) ==
    \A pod \in DOMAIN costs : \E c \in ReadContainers(pod) :
        costs[pod] = CostOf(pod, raw[c], collectPrices)

(* Every record that collect() has computed, or has published, is the      *)
(* price of what one container of that very pod had used when Snapshot     *)
(* took its copy, under the one price table Get returned, whatever the     *)
(* collectors, the sync and the pricer did while the loop ran.             *)
LatestBillsOneCut ==
    /\ BillsOneCut(newCosts)
    /\ collectPc = "idle" => BillsOneCut(podCosts)

(* collect() resolves one cgroup at a time while syncPods may replace the  *)
(* map under it.  A container in every map used since the copy was taken   *)
(* is not missed: once the loop has passed it, its pod has a record, and   *)
(* has it still in what is published.                                      *)
SteadyPodsBilled ==
    LET Seen == steady \cap DOMAIN raw
    IN  /\ collectPc = "resolve" =>
              \A c \in Seen \ pending : PodOf[c] \in DOMAIN newCosts
        /\ collectPc = "idle" => \A c \in Seen : PodOf[c] \in DOMAIN podCosts

(* For any snapshot ever served, the summary, team, namespace and pod      *)
(* endpoints and the Prometheus page give one and the same cluster total,  *)
(* and the team rows partition the pods.                                   *)
EndpointsAgree ==
    \A i \in DOMAIN history :
        LET snap == history[i]
            total == handleSummary(snap).total_cost
            teams == handleByTeam(snap)
            rows == handleByNamespace(snap)
            page == handleMetrics(snap)
        IN  /\ total = page.cluster_cost_total
            /\ total = SumFunction([t \in DOMAIN teams |-> teams[t].total_cost])
            /\ total = SumFunction(rows)
            /\ total = SumFunction(page.pod_cost_total)
            /\ \A t \in DOMAIN teams :
                 /\ teams[t].pod_count = Cardinality(handleByPod(snap, {}, {t}))
                 /\ teams[t].total_cost = teams[t].cpu_cost + teams[t].memory_cost
                                        + teams[t].network_cost + teams[t].disk_cost

SlidesOnce ==
    \/ /\ Len(history') = Len(history) + 1
       /\ SubSeq(history', 1, Len(history)) = history
    \/ /\ Len(history) = HistoryCap /\ Len(history') = HistoryCap
       /\ SubSeq(history', 1, HistoryCap - 1) = Tail(history)

(* A step adds at most one snapshot, at the end, and drops one only from   *)
(* the front and only to stay within the cap: nothing that was published   *)
(* is rewritten or lost early.                                             *)
HistoryOnlySlides == [][SlidesOnce]_history

-----------------------------------------------------------------------------
(* Refinement *)

(* The whole agent keeps the ledger's promise: its loop of many steps,     *)
(* with reports, syncs and refreshes between any two of them, bills like   *)
(* one that does all its work at once.  What the ledger knows is what the  *)
(* enricher's map holds; the loop's and the sync's own progress is hidden. *)
Ledger == INSTANCE CostLedger WITH
    usage <- metrics, known <- DOMAIN cgroupToPod, table <- prices,
    stage <- collectPc, priced <- collectPrices, cut <- raw, bill <- podCosts
KeepsLedger == Ledger!LedgerSpec

-----------------------------------------------------------------------------
(* Liveness *)

(* While it runs, the sync finds the cgroup id of the container.           *)
Found(c) == phase[c] = "running" /\ c \in DOMAIN newContainerMap => c \in DOMAIN newCgroupMap

(* Usage reported for a container that goes on running is at some point    *)
(* billed to its pod, if from some time on every sync finds its cgroup id. *)
(* (One that is found now and then may be gone from the map again before   *)
(* the next collect(), and one that is never found is never billed.)       *)
NewPodsAttributed ==
    \A c \in Containers :
        <>[]Found(c) =>
            (phase[c] = "running" /\ c \in DOMAIN metrics
                ~> phase[c] # "running" \/ PodOf[c] \in DOMAIN podCosts)

(* Metrics entries are never deleted, yet a pod whose containers have all  *)
(* stopped is at some point billed no more, for good.  This too is owed to *)
(* the loop of StartSync alone: the agent as main starts it, without that  *)
(* loop, goes on billing a stopped pod for what it used.                   *)
StoppedPodsForgotten ==
    \A pod \in Pods :
        (\A c \in Containers : PodOf[c] = pod => phase[c] = "dead")
            ~> [](pod \notin DOMAIN podCosts)
=============================================================================
