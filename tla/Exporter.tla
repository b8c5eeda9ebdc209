------------------------------ MODULE Exporter ------------------------------
(***************************************************************************)
(* The REST endpoints and the Prometheus page (internal/exporter/api.go,   *)
(* internal/exporter/prometheus.go): what each handler computes from one   *)
(* call of LatestSnapshot or WasteReport.  Rows are functions keyed by     *)
(* team, namespace or pod; the order of the rows, the JSON and the text    *)
(* format are left out.                                                    *)
(***************************************************************************)
EXTENDS Aggregator

CONSTANTS
    Namespaces,
    NamespaceOf   \* the namespace of each pod

ASSUME NamespaceOfAssumption == NamespaceOf \in [Pods -> Namespaces]

handleSummary(snap) ==
    [total_cost |-> snap.Total,
     pod_count |-> Cardinality(DOMAIN snap.PodCosts),
     team_count |-> Cardinality(DOMAIN snap.TeamCosts)]

handleByTeam(snap) ==
    [t \in DOMAIN snap.TeamCosts |->
        LET tc == snap.TeamCosts[t]
            SumTeam(field) == SumOf(snap.PodCosts, field, tc.Pods)
        IN  [total_cost |-> tc.TotalCost, wasted_cost |-> tc.WastedCost,
             pod_count |-> tc.PodCount,
             cpu_cost |-> SumTeam("CPUCost"), memory_cost |-> SumTeam("MemoryCost"),
             network_cost |-> SumTeam("NetworkCost"), disk_cost |-> SumTeam("DiskCost")]]

(* Mutant: a namespace's row is assigned, not added to.                    *)
handleByNamespaceAssigns(snap) ==
    LET pods == DOMAIN snap.PodCosts
    IN  [ns \in {NamespaceOf[p] : p \in pods} |->
            snap.PodCosts[CHOOSE p \in pods : NamespaceOf[p] = ns].TotalCost]

handleByNamespace(snap) ==
    LET pods == DOMAIN snap.PodCosts
    IN  [ns \in {NamespaceOf[p] : p \in pods} |->
            SumOf(snap.PodCosts, "TotalCost", {p \in pods : NamespaceOf[p] = ns})]

(* The query parameters are sets: {} when absent, {v} when the value is v. *)
handleByPod(snap, ns, team) ==
    {p \in DOMAIN snap.PodCosts : /\ ns = {} \/ NamespaceOf[p] \in ns
                                  /\ team = {} \/ snap.PodCosts[p].Team \in team}

handleWaste ==
    [wasted_pods |-> WasteReport,
     total_wasted_dollars |-> SumOf(podCosts, "WastedDollars", WasteReport)]

(* One sample per pod, one group per team, and the cluster total.          *)
handleMetrics(snap) ==
    [pod_cost_total |-> [p \in DOMAIN snap.PodCosts |-> snap.PodCosts[p].TotalCost],
     team_cost_total |-> [t \in DOMAIN snap.TeamCosts |-> snap.TeamCosts[t].TotalCost],
     team_pod_count |-> [t \in DOMAIN snap.TeamCosts |-> snap.TeamCosts[t].PodCount],
     cluster_cost_total |-> snap.Total]
=============================================================================
