----------------------------- MODULE CostLedger -----------------------------
(***************************************************************************)
(* What the agent promises of its bills, whatever runs beside the loop     *)
(* that makes them: a window is billed in one step, from usage as it was   *)
(* at one instant and under one price table.  Each pod that is billed is   *)
(* billed for one of its own containers, and a pod with usage, one of      *)
(* whose containers the agent has known ever since that instant, is        *)
(* billed.  The bill enters the history in the same step.                  *)
(***************************************************************************)
EXTENDS Costs, PartialMaps

CONSTANTS Containers, Pods, PodOf, PriceTables

VARIABLES
    usage,     \* what each cgroup has used, of each resource
    known,     \* the containers whose pod the agent knows
    table,     \* the current price table
    stage,     \* of the window under way: "idle", "priced" or "resolve"
    priced,    \* the price table it is billed under
    cut,       \* the usage it bills
    steady,    \* the containers known without a break since the cut
    bill,      \* the records of the last window billed
    history    \* the snapshots kept

ledgerVars == <<usage, known, table, stage, priced, cut, steady, bill, history>>

LedgerInit ==
    /\ usage = NoKeys
    /\ known \in SUBSET Containers
    /\ table \in PriceTables
    /\ stage = "idle"
    /\ priced = table
    /\ cut = NoKeys
    /\ steady = {}
    /\ bill = NoKeys
    /\ history = <<>>

(* Usage is never forgotten, and never shrinks.                            *)
Use ==
    /\ \A g \in DOMAIN usage :
          /\ g \in DOMAIN usage'
          /\ \A resource \in DOMAIN usage[g] : usage[g][resource] <= usage'[g][resource]
    /\ UNCHANGED <<known, table, stage, priced, cut, steady, bill, history>>

Learn ==
    /\ known' \in SUBSET Containers
    /\ steady' = steady \cap known'
    /\ UNCHANGED <<usage, table, stage, priced, cut, bill, history>>

Reprice ==
    /\ table' \in PriceTables
    /\ UNCHANGED <<usage, known, stage, priced, cut, steady, bill, history>>

Price ==
    /\ stage = "idle"
    /\ stage' = "priced"
    /\ priced' = table
    /\ UNCHANGED <<usage, known, table, cut, steady, bill, history>>

Cut ==
    /\ stage = "priced"
    /\ stage' = "resolve"
    /\ cut' = usage
    /\ steady' = known
    /\ UNCHANGED <<usage, known, table, priced, bill, history>>

(* The pods that are billed, each with the container it pays for.          *)
Payments ==
    {pays \in UNION {[pods -> DOMAIN cut \cap Containers] : pods \in SUBSET Pods} :
        /\ \A pod \in DOMAIN pays : PodOf[pays[pod]] = pod
        /\ \A c \in steady \cap DOMAIN cut : PodOf[c] \in DOMAIN pays}

Bill ==
    /\ stage = "resolve"
    /\ stage' = "idle"
    /\ \E pays \in Payments :
          bill' = [pod \in DOMAIN pays |-> CostOf(pod, cut[pays[pod]], priced)]
    /\ history' = Slide(history, SnapshotOf(bill'))
    /\ UNCHANGED <<usage, known, table, priced, cut, steady>>

LedgerNext == Use \/ Learn \/ Reprice \/ Price \/ Cut \/ Bill

LedgerSpec == LedgerInit /\ [][LedgerNext]_ledgerVars
=============================================================================
