SPECIFICATION FairSpec
CONSTANTS
    c1 = c1
    c2 = c2
    c3 = c3
    sys = sys
    p1 = p1
    p2 = p2
    t1 = t1
    t2 = t2
    n1 = n1
    Containers = {c1, c3}
    Cgroups = {c1, c3, sys}
    Pods = {p1, p2}
    Teams = {t1, t2}
    Namespaces = {n1}
    PodOf <- MCPodOf
    TeamOf <- MCTeamOf
    NamespaceOf <- MCNamespaceOf
    PriceTables <- OneTable
    Sources <- EachItsOwn
    HistoryCap = 1
    MaxCount = 1
    MayMiss = {c1, c3}
    SyncLoop = TRUE
INVARIANT
    EndpointsAgree
PROPERTIES
    NewPodsAttributed
    StoppedPodsForgotten
