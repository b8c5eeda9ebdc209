------------------------------ MODULE Enricher ------------------------------
(***************************************************************************)
(* The enricher (internal/enricher/k8s.go): the map from cgroup ids to     *)
(* pods, rebuilt from the Kubernetes API and the cgroup file system.       *)
(*                                                                         *)
(* A container is named by its cgroup id (bpf/cpu_cycles.c: the two map    *)
(* one to one).  A PodInfo is represented by the pod it describes, whose   *)
(* key, namespace and labels are constants of the run.                     *)
(*                                                                         *)
(* syncPods runs in one goroutine: it lists the pods, looks up the cgroup  *)
(* of every listed container one after the other, and then swaps both maps *)
(* under the lock.  The cluster goes on changing between these steps.      *)
(***************************************************************************)
EXTENDS Naturals, PartialMaps

CONSTANTS
    Containers,   \* the containers of this node, named by cgroup id
    Pods,         \* the pods of the cluster
    PodOf,        \* the pod each container belongs to
    MayMiss,      \* containers whose cgroup id may not be found though they run
    SyncLoop      \* is StartSync running?  cmd/koprobe/main.go never starts it

ASSUME PodOfAssumption == PodOf \in [Containers -> Pods]
ASSUME MayMissAssumption == MayMiss \subseteq Containers
ASSUME SyncLoopAssumption == SyncLoop \in BOOLEAN

VARIABLES
    phase,            \* external: the state of each container in the cluster
    cgroupToPod,      \* e.cgroupToPod
    syncPc,           \* where the goroutine in syncPods is
    syncTodo,         \* listed containers the loop has not reached yet
    newCgroupMap,     \* the maps syncPods is building; nothing reads what becomes
    newContainerMap   \* of the second, e.containerToPod, which is left out

clusterVars == <<phase>>
syncVars == <<syncPc, syncTodo, newCgroupMap, newContainerMap>>
enricherVars == <<phase, cgroupToPod, syncPc, syncTodo, newCgroupMap, newContainerMap>>

EnricherTypeOK ==
    /\ phase \in [Containers -> {"waiting", "running", "dead"}]
    /\ IsMap(cgroupToPod, Containers, Pods)
    /\ syncPc \in {"idle", "list", "resolve"}
    /\ syncTodo \in SUBSET Containers
    /\ IsMap(newCgroupMap, Containers, Pods)
    /\ IsMap(newContainerMap, Containers, Pods)

Running == {c \in Containers : phase[c] = "running"}

(* resolveCgroupID: whether it finds an id.  It walks the cgroup tree for  *)
(* the container's directory and reads cgroup.id in it.  A container that  *)
(* is gone has no directory; of one that runs, the root of the tree or the *)
(* file may be missing, unreadable, or hold no number above 0.             *)
resolveCgroupID(c) ==
    IF c \notin Running THEN {FALSE} ELSE IF c \in MayMiss THEN {TRUE, FALSE} ELSE {TRUE}

(* New: the first syncPods has completed before anything else starts (its  *)
(* failure ends the process), so the map starts with the running           *)
(* containers whose ids were found.                                        *)
EnricherInit ==
    /\ phase \in [Containers -> {"waiting", "running"}]
    /\ \E found \in SUBSET Running :
         /\ \A c \in Running : (c \in found) \in resolveCgroupID(c)
         /\ cgroupToPod = [c \in found |-> PodOf[c]]
    /\ syncPc = "idle"
    /\ syncTodo = {}
    /\ newCgroupMap = NoKeys
    /\ newContainerMap = NoKeys

-----------------------------------------------------------------------------
(* The cluster (external): a container starts once and stops once; its     *)
(* cgroup directory exists only while it runs.                             *)

StartContainer(c) ==
    /\ phase[c] = "waiting"
    /\ phase' = [phase EXCEPT ![c] = "running"]
    /\ UNCHANGED <<cgroupToPod, syncVars>>

StopContainer(c) ==
    /\ phase[c] = "running"
    /\ phase' = [phase EXCEPT ![c] = "dead"]
    /\ UNCHANGED <<cgroupToPod, syncVars>>

-----------------------------------------------------------------------------
(* The loop of StartSync: the ticker starts a syncPods.                    *)
SyncTick ==
    /\ SyncLoop
    /\ syncPc = "idle"
    /\ syncPc' = "list"
    /\ UNCHANGED <<clusterVars, cgroupToPod, syncTodo, newCgroupMap, newContainerMap>>

(* The pod list arrives.  A container that has not started has an empty    *)
(* id, which sanitizeContainerID returns unchanged and the loop skips.     *)
SyncList ==
    /\ syncPc = "list"
    /\ syncPc' = "resolve"
    /\ syncTodo' = {c \in Containers : phase[c] # "waiting"}
    /\ UNCHANGED <<clusterVars, cgroupToPod, newCgroupMap, newContainerMap>>

(* The list call fails: syncPods returns its error, StartSync ignores it,  *)
(* and the maps stay as they are.                                          *)
SyncListFails ==
    /\ syncPc = "list"
    /\ syncPc' = "idle"
    /\ UNCHANGED <<clusterVars, cgroupToPod, syncTodo, newCgroupMap, newContainerMap>>

(* Mutant: the loop stops at the first container without a cgroup.         *)
SyncResolveReturns(c) ==
    /\ syncPc = "resolve"
    /\ c \in syncTodo
    /\ newContainerMap' = Put(newContainerMap, c, PodOf[c])
    /\ \E found \in resolveCgroupID(c) :
         IF found
           THEN syncTodo' = syncTodo \ {c} /\ newCgroupMap' = Put(newCgroupMap, c, PodOf[c])
           ELSE syncTodo' = {} /\ newCgroupMap' = newCgroupMap
    /\ UNCHANGED <<clusterVars, cgroupToPod, syncPc>>

(* One turn of the loop over the listed containers: one whose cgroup id is *)
(* not found is left out of the map of cgroups, and nothing is said of it. *)
SyncResolve(c) ==
    /\ syncPc = "resolve"
    /\ c \in syncTodo
    /\ syncTodo' = syncTodo \ {c}
    /\ newContainerMap' = Put(newContainerMap, c, PodOf[c])
    /\ \E found \in resolveCgroupID(c) :
         newCgroupMap' = IF found THEN Put(newCgroupMap, c, PodOf[c]) ELSE newCgroupMap
    /\ UNCHANGED <<clusterVars, cgroupToPod, syncPc>>

(* Mutant: the new entries are added to the old map.                      *)
SyncSwapMerge ==
    /\ syncPc = "resolve"
    /\ syncTodo = {}
    /\ cgroupToPod' = [c \in DOMAIN cgroupToPod \cup DOMAIN newCgroupMap |-> PodOf[c]]
    /\ syncPc' = "idle"
    /\ newCgroupMap' = NoKeys
    /\ newContainerMap' = NoKeys
    /\ UNCHANGED <<clusterVars, syncTodo>>

(* The loop is done: the maps are replaced under the write lock.  The      *)
(* locals end with the call, so the next one starts from empty maps.       *)
SyncSwap ==
    /\ syncPc = "resolve"
    /\ syncTodo = {}
    /\ cgroupToPod' = newCgroupMap
    /\ syncPc' = "idle"
    /\ newCgroupMap' = NoKeys
    /\ newContainerMap' = NoKeys
    /\ UNCHANGED <<clusterVars, syncTodo>>

(* Resolve: no pod is the empty set, a pod p is {p}.                       *)
Resolve(g) == IF g \in DOMAIN cgroupToPod THEN {cgroupToPod[g]} ELSE {}
=============================================================================
