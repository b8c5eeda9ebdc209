------------------------------ MODULE Collector ------------------------------
(***************************************************************************)
(* The collector's Manager (internal/collector/manager.go): a map from     *)
(* cgroup id to the raw metrics measured for it, guarded by one RWMutex.   *)
(*                                                                         *)
(* Every method that touches the map holds the lock from its first access  *)
(* to its return, so each is one step.  The counters of RawMetrics that    *)
(* one Update* call adds to are abstracted to one field per call:          *)
(* CPUCycles (UpdateCPU), NetworkBytes (UpdateNetwork), DiskIOPS           *)
(* (UpdateDisk).  MemoryBytesAvg and CPURequestedMillis are kept because   *)
(* the aggregator reads them; no method of the Manager writes them.        *)
(***************************************************************************)
EXTENDS Naturals, PartialMaps

CONSTANT Cgroups   \* the cgroup ids the kernel may report

VARIABLE metrics   \* m.metrics, a function whose domain is the ids seen

ZeroMetrics ==
    [CPUCycles |-> 0, NetworkBytes |-> 0, DiskIOPS |-> 0,
     MemoryBytesAvg |-> 0, CPURequestedMillis |-> 0]

RawMetrics ==
    [CPUCycles : Nat, NetworkBytes : Nat, DiskIOPS : Nat,
     MemoryBytesAvg : Nat, CPURequestedMillis : Nat]

CollectorTypeOK == IsMap(metrics, Cgroups, RawMetrics)

CollectorInit == metrics = NoKeys

(***************************************************************************)
(* The Update* methods: the entry is created at zero when the id is new,   *)
(* then the counters are added to.                                         *)
(***************************************************************************)
Entry(g) == Lookup(metrics, g, ZeroMetrics)

UpdateCPU(g, cycles) ==
    metrics' = Put(metrics, g, [Entry(g) EXCEPT !.CPUCycles = @ + cycles])

UpdateNetwork(g, bytes) ==
    metrics' = Put(metrics, g, [Entry(g) EXCEPT !.NetworkBytes = @ + bytes])

UpdateDisk(g, iops) ==
    metrics' = Put(metrics, g, [Entry(g) EXCEPT !.DiskIOPS = @ + iops])

(***************************************************************************)
(* Manager.Snapshot: a deep copy of the map, taken under the read lock.    *)
(* Later updates do not reach the copy.                                    *)
(***************************************************************************)
Snapshot == metrics
=============================================================================
