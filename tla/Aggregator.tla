----------------------------- MODULE Aggregator -----------------------------
(***************************************************************************)
(* The aggregator (internal/aggregator/aggregator.go).  One goroutine runs *)
(* collect() on a ticker; HTTP handlers and the Slack goroutines read the  *)
(* latest snapshot, the history and the last podCosts concurrently.        *)
(*                                                                         *)
(* collect() calls three other components, each under that component's own *)
(* lock: Pricer.Get once, Manager.Snapshot once, and Enricher.Resolve once *)
(* per cgroup.  Only the last two assignments are under a.mu.  The steps   *)
(* between which others may run are therefore CollectStart, CollectRead,   *)
(* one CollectPod per cgroup and CollectPublish.                           *)
(***************************************************************************)
EXTENDS Costs, Collector, Enricher

CONSTANT PriceTables   \* the price tables the pricer may hold

ASSUME ContainersAssumption == Containers \subseteq Cgroups
ASSUME TeamOfAssumption == TeamOf \in [Pods -> Teams]
ASSUME PriceTablesAssumption ==
    PriceTables \subseteq [cpu : Nat, mem : Nat, net : Nat, disk : Nat]

VARIABLES
    prices,          \* external: the table Pricer.Get returns
    collectPc,       \* where the goroutine in collect() is
    collectPrices,   \* its local prices
    raw,             \* its local rawMetrics; kept after it returns
    pending,         \* the cgroups its loop has not reached yet
    newCosts,        \* its local newCosts, keyed by pod
    podCosts,        \* a.podCosts
    history          \* a.history

collectVars == <<collectPc, collectPrices, raw, pending, newCosts>>
publishedVars == <<podCosts, history>>
aggregatorVars == <<prices, collectPc, collectPrices, raw, pending,
                    newCosts, podCosts, history>>

AggregatorInit ==
    /\ prices \in PriceTables
    /\ collectPc = "idle"
    /\ collectPrices = prices
    /\ raw = NoKeys
    /\ pending = {}
    /\ newCosts = NoKeys
    /\ podCosts = NoKeys
    /\ history = <<>>

-----------------------------------------------------------------------------
(* A background refresh of the pricer stores another table (external).     *)
PriceRefresh ==
    /\ prices' \in PriceTables
    /\ UNCHANGED <<collectVars, publishedVars>>

(* The ticker fires: prices := a.pricer.Get().                             *)
CollectStart ==
    /\ collectPc = "idle"
    /\ collectPc' = "priced"
    /\ collectPrices' = prices
    /\ UNCHANGED <<prices, raw, pending, newCosts, publishedVars>>

(* rawMetrics := a.collectors.Snapshot()                                   *)
CollectRead ==
    /\ collectPc = "priced"
    /\ collectPc' = "resolve"
    /\ raw' = Snapshot
    /\ pending' = DOMAIN raw'
    /\ newCosts' = NoKeys
    /\ UNCHANGED <<prices, collectPrices, publishedVars>>

(* Mutant: the copy is shallow, so that the loop sees the live counters.   *)
CollectPodLive(g) ==
    /\ collectPc = "resolve"
    /\ g \in pending
    /\ pending' = pending \ {g}
    /\ \/ Resolve(g) = {} /\ UNCHANGED newCosts
       \/ \E pod \in Resolve(g) :
             newCosts' = Put(newCosts, pod, CostOf(pod, metrics[g], collectPrices))
    /\ UNCHANGED <<prices, collectPc, collectPrices, raw, publishedVars>>

(* Mutant: break instead of continue at a cgroup without a pod.            *)
CollectPodBreaks(g) ==
    /\ collectPc = "resolve"
    /\ g \in pending
    /\ \/ Resolve(g) = {} /\ pending' = {} /\ UNCHANGED newCosts
       \/ \E pod \in Resolve(g) :
             /\ newCosts' = Put(newCosts, pod, CostOf(pod, raw[g], collectPrices))
             /\ pending' = pending \ {g}
    /\ UNCHANGED <<prices, collectPc, collectPrices, raw, publishedVars>>

(* One turn of the loop over rawMetrics, in Go's arbitrary map order.  The *)
(* last container of a pod the loop reaches replaces the others' record.   *)
CollectPod(g) ==
    /\ collectPc = "resolve"
    /\ g \in pending
    /\ pending' = pending \ {g}
    /\ \/ /\ Resolve(g) = {}
          /\ UNCHANGED newCosts
       \/ \E pod \in Resolve(g) :
             newCosts' = Put(newCosts, pod, CostOf(pod, raw[g], collectPrices))
    /\ UNCHANGED <<prices, collectPc, collectPrices, raw, publishedVars>>

IsSnapshot(snap) ==
    /\ IsMap(snap.PodCosts, Pods, PodCost)
    /\ snap = SnapshotOf(snap.PodCosts)

(* Mutant: an empty window leaves the last costs in podCosts.              *)
CollectPublishKeepsOld ==
    /\ collectPc = "resolve"
    /\ pending = {}
    /\ collectPc' = "idle"
    /\ podCosts' = IF newCosts = NoKeys THEN podCosts ELSE newCosts
    /\ history' = Slide(history, SnapshotOf(newCosts))
    /\ newCosts' = NoKeys
    /\ UNCHANGED <<prices, collectPrices, raw, pending>>

(* The loop is done: the snapshot is built and published under a.mu.       *)
CollectPublish ==
    /\ collectPc = "resolve"
    /\ pending = {}
    /\ collectPc' = "idle"
    /\ podCosts' = newCosts
    /\ history' = Slide(history, SnapshotOf(newCosts))
    /\ newCosts' = NoKeys
    /\ UNCHANGED <<prices, collectPrices, raw, pending>>

-----------------------------------------------------------------------------
(* The readers, each one critical section of a.mu.                         *)
LatestSnapshot ==
    IF history = <<>> THEN SnapshotOf(NoKeys) ELSE history[Len(history)]

WasteReport ==
    {p \in DOMAIN podCosts : /\ podCosts[p].CPUUtilizationPct > 0
                             /\ podCosts[p].CPUUtilizationPct < 20}
=============================================================================
