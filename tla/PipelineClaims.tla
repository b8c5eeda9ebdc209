--------------------------- MODULE PipelineClaims ---------------------------
(***************************************************************************)
(* What the repository's documents and comments say of a pod's bill, each  *)
(* stated as a property of the pipeline.  None of them holds of the code   *)
(* (README.md of this directory, "Divergences").                           *)
(***************************************************************************)
EXTENDS Pipeline

VARIABLE previous   \* history variable: the copy the collect() before took

claimVars == <<vars, previous>>

ClaimsInit == Init /\ previous = NoKeys

ClaimsNext ==
    /\ Next
    /\ previous' = IF collectPc = "priced" /\ collectPc' = "resolve" THEN raw ELSE previous

ClaimsSpec == ClaimsInit /\ [][ClaimsNext]_claimVars

-----------------------------------------------------------------------------
(* "PodCost holds the complete cost attribution for a single pod"          *)
(* (aggregator.go:17): the record covers every container of the pod that   *)
(* the enricher knew throughout.  The loop assigns newCosts[key] once per  *)
(* container, so one container's record replaces the others'.              *)
PodCostComplete ==
    collectPc = "idle" =>
        \A pod \in DOMAIN podCosts :
            LET known == ReadContainers(pod) \cap steady
            IN  podCosts[pod].TotalCost >=
                    SumFunctionOnSet([c \in known |-> CostOf(pod, raw[c], collectPrices).TotalCost], known)

(* "Per-pod costs (15s window)" (README.md:119): a pod is billed no more   *)
(* than what its containers used since the collect() before.  The counters *)
(* of the Manager are never reset, so every window bills them from zero.   *)
WindowCostOnly ==
    collectPc = "idle" =>
        \A pod \in DOMAIN podCosts :
            LET since == [c \in ReadContainers(pod) |->
                    raw[c].CPUCycles - Lookup(previous, c, ZeroMetrics).CPUCycles]
            IN  podCosts[pod].CPUCost <= collectPrices.cpu * SumFunction(since)
=============================================================================
