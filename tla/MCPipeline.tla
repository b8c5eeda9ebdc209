----------------------------- MODULE MCPipeline -----------------------------
(***************************************************************************)
(* Instances of Pipeline for TLC: two pods of two teams in one namespace,  *)
(* the first with two containers, and a system cgroup that is no pod's.    *)
(***************************************************************************)
EXTENDS Pipeline, TLC

CONSTANTS c1, c2, c3, sys, p1, p2, t1, t2, n1

\* Two containers in one pod, and a second pod.
MCPodOf == [c \in Containers |-> IF c = c3 THEN p2 ELSE p1]
MCTeamOf == [p \in Pods |-> IF p = p2 THEN t2 ELSE t1]
MCNamespaceOf == [p \in Pods |-> n1]

\* The containers of the first pod are alike, where all report the same.
Alike == Permutations({c1, c2})

\* Who reports what.
OnlyCpu == [g \in Cgroups |-> {"cpu"}]
EachItsOwn ==
    [g \in Cgroups |-> CASE g = c1 -> {"cpu"} [] g = c3 -> {"net"} [] OTHER -> {"disk"}]

\* The fallback table, and one a refresh fetched.
Fallback == [cpu |-> 1, mem |-> 1, net |-> 2, disk |-> 3]
Fetched == [cpu |-> 2, mem |-> 1, net |-> 2, disk |-> 3]
OneTable == {Fallback}
TwoTables == {Fallback, Fetched}
=============================================================================
