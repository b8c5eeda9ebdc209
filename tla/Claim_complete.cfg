SPECIFICATION ClaimsSpec
CONSTANTS
    c1 = c1
    c2 = c2
    c3 = c3
    sys = sys
    p1 = p1
    p2 = p2
    t1 = t1
    t2 = t2
    n1 = n1
    Containers = {c1, c2}
    Cgroups = {c1, c2}
    Pods = {p1, p2}
    Teams = {t1, t2}
    Namespaces = {n1}
    PodOf <- MCPodOf
    TeamOf <- MCTeamOf
    NamespaceOf <- MCNamespaceOf
    PriceTables <- OneTable
    Sources <- OnlyCpu
    HistoryCap = 1
    MaxCount = 1
    MayMiss = {}
    SyncLoop = FALSE
INVARIANT
    PodCostComplete
