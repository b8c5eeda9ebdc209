------------------------------- MODULE DiskIO -------------------------------
(***************************************************************************)
(* The disk probe (bpf/disk_io.c): trace_rq_issue records a request under  *)
(* its sector, trace_rq_complete looks it up by the sector and charges the *)
(* cgroup that issued it.  Each runs to completion on one CPU, beside the  *)
(* ones on other CPUs.  Every request has the size 1, so that bytes and    *)
(* operations are one count; latencies are left out.                       *)
(***************************************************************************)
EXTENDS Naturals, FiniteSets, BpfHash

CONSTANTS
    Cpus,
    Requests,
    NoRequest,
    CgroupOf,        \* the cgroup current when the request is issued
    SectorOf,
    Writes,          \* the requests that write
    InflightEntries, DiskEntries,   \* the elements of the two maps
    ExtraOf          \* the extra element of each CPU, in either map

ASSUME FiniteAssumption == IsFiniteSet(Requests)
ASSUME RequestsAssumption ==
    /\ NoRequest \notin Requests
    /\ Writes \subseteq Requests
ASSUME ExtraOfAssumption ==
    /\ \A c \in Cpus : ExtraOf[c] \notin InflightEntries \cup DiskEntries
    /\ \A c, d \in Cpus : c # d => ExtraOf[c] # ExtraOf[d]

VARIABLES
    inflight_map,
    disk_map,
    cpu,        \* what each CPU is doing, and for which completion
    state,      \* the requests at the device: new, out or back
    shared,     \* history variable: were two requests of one sector out together?
    lost,       \* history variable: requests a full map had no room for
    replaced    \* history variable: cgroups whose entry was replaced

vars == <<inflight_map, disk_map, cpu, state, shared, lost, replaced>>

Cgroups == {CgroupOf[r] : r \in Requests}
Sectors == {SectorOf[r] : r \in Requests}

Extras == {ExtraOf[c] : c \in Cpus}
disk_stats == [read : Nat, write : Nat]
NoStats == [read |-> 0, write |-> 0]

(* A completion in the hands of trace_rq_complete: the request that came   *)
(* back, the pointer req, the request read through it, the pointer stats.  *)
Busy ==
    [pc : {"read", "delete", "stats", "update", "lookup", "add"}, back : Requests,
     req : InflightEntries \cup Extras, found : Requests \cup {NoRequest},
     stats : DiskEntries \cup Extras]
Idle == [pc |-> "idle"]

TypeOK ==
    /\ IsBpfMap(inflight_map, Sectors, Requests \cup {NoRequest}, InflightEntries \cup Extras, Cpus)
    /\ IsBpfMap(disk_map, Cgroups, disk_stats, DiskEntries \cup Extras, Cpus)
    /\ cpu \in [Cpus -> Busy \cup {Idle}]
    /\ state \in [Requests -> {"new", "out", "back"}]
    /\ shared \in BOOLEAN
    /\ lost \subseteq Requests
    /\ replaced \subseteq Cgroups

Init ==
    /\ inflight_map = Empty(InflightEntries, [c \in Cpus |-> ExtraOf[c]], NoRequest)
    /\ disk_map = Empty(DiskEntries, [c \in Cpus |-> ExtraOf[c]], NoStats)
    /\ cpu = [c \in Cpus |-> Idle]
    /\ state = [r \in Requests |-> "new"]
    /\ shared = FALSE
    /\ lost = {}
    /\ replaced = {}

-----------------------------------------------------------------------------
At(c, pc) == cpu[c].pc = pc

(* The requests whose record the probe still needs.                        *)
Pending ==
    {r \in Requests : \/ state[r] = "out"
                      \/ \E c \in Cpus : cpu[c].pc \in {"read", "delete"} /\ cpu[c].back = r}

(* Mutant: the request is recorded under its own pointer.                  *)
IssueByPointer(c, r) ==
    /\ At(c, "idle")
    /\ state[r] = "new"
    /\ state' = [state EXCEPT ![r] = "out"]
    /\ shared' = (shared \/ \E q \in Pending : SectorOf[q] = SectorOf[r])
    /\ inflight_map' \in Updated(inflight_map, c, r, r)
    /\ UNCHANGED <<disk_map, cpu, lost, replaced>>

(* trace_rq_issue: the request is recorded, over one of the same sector.   *)
(* One that is out may well have the sector: two disks have the same ones. *)
Issue(c, r) ==
    /\ At(c, "idle")
    /\ state[r] = "new"
    /\ state' = [state EXCEPT ![r] = "out"]
    /\ shared' = (shared \/ \E q \in Pending : SectorOf[q] = SectorOf[r])
    /\ inflight_map' \in Updated(inflight_map, c, SectorOf[r], r)
    /\ lost' = IF inflight_map' = inflight_map THEN lost \cup {r} ELSE lost
    /\ UNCHANGED <<disk_map, cpu, replaced>>

(* Mutant: the entry is deleted before it is read.                         *)
CompleteDeletes(c, r) ==
    LET sector == SectorOf[r]
    IN  /\ At(c, "idle")
        /\ state[r] = "out"
        /\ state' = [state EXCEPT ![r] = "back"]
        /\ cpu' = IF Present(inflight_map, sector)
                    THEN [cpu EXCEPT ![c] =
                            [pc |-> "read", back |-> r, req |-> inflight_map.slot[sector],
                             found |-> NoRequest, stats |-> ExtraOf[c]]]
                    ELSE cpu
        /\ inflight_map' = Deleted(inflight_map, sector)
        /\ UNCHANGED <<disk_map, shared, lost, replaced>>

(* Mutant: a request that was not recorded is charged as well.             *)
CompleteUnrecorded(c, r) ==
    /\ At(c, "idle")
    /\ state[r] = "out"
    /\ state' = [state EXCEPT ![r] = "back"]
    /\ cpu' = [cpu EXCEPT ![c] = [pc |-> "stats", back |-> r, req |-> ExtraOf[c],
                                 found |-> r, stats |-> ExtraOf[c]]]
    /\ UNCHANGED <<inflight_map, disk_map, shared, lost, replaced>>

(* trace_rq_complete: a request comes back, and its entry is looked up.    *)
Complete(c, r) ==
    LET sector == SectorOf[r]
    IN  /\ At(c, "idle")
        /\ state[r] = "out"
        /\ state' = [state EXCEPT ![r] = "back"]
        /\ cpu' = IF Present(inflight_map, sector)
                    THEN [cpu EXCEPT ![c] =
                            [pc |-> "read", back |-> r, req |-> inflight_map.slot[sector],
                             found |-> NoRequest, stats |-> ExtraOf[c]]]
                    ELSE cpu
        /\ UNCHANGED <<inflight_map, disk_map, shared, lost, replaced>>

(* Its fields are copied, through the pointer.                             *)
ReadRequest(c) ==
    /\ At(c, "read")
    /\ cpu' = [cpu EXCEPT ![c].found = inflight_map.value[cpu[c].req], ![c].pc = "delete"]
    /\ UNCHANGED <<inflight_map, disk_map, state, shared, lost, replaced>>

(* Whatever the sector's entry is by now, it goes.                         *)
DeleteRequest(c) ==
    /\ At(c, "delete")
    /\ inflight_map' = Deleted(inflight_map, SectorOf[cpu[c].back])
    /\ cpu' = [cpu EXCEPT ![c].pc = "stats"]
    /\ UNCHANGED <<disk_map, state, shared, lost, replaced>>

Cgroup(c) == CgroupOf[cpu[c].found]

(* The entry of the cgroup is looked up.                                   *)
LookupStats(c) ==
    /\ At(c, "stats")
    /\ cpu' = [cpu EXCEPT ![c] =
            IF Present(disk_map, Cgroup(c))
              THEN [@ EXCEPT !.pc = "add", !.stats = disk_map.slot[Cgroup(c)]]
              ELSE [@ EXCEPT !.pc = "update"]]
    /\ UNCHANGED <<inflight_map, disk_map, state, shared, lost, replaced>>

(* Mutant: the first operation of a cgroup only makes its entry.           *)
UpdateOnly(c) ==
    /\ At(c, "update")
    /\ disk_map' \in Updated(disk_map, c, Cgroup(c), NoStats)
    /\ replaced' = IF Present(disk_map, Cgroup(c)) THEN replaced \cup {Cgroup(c)} ELSE replaced
    /\ cpu' = [cpu EXCEPT ![c] = Idle]
    /\ UNCHANGED <<inflight_map, state, shared, lost>>

(* There is none: a zero entry is put in, whatever others did meanwhile.   *)
Update(c) ==
    /\ At(c, "update")
    /\ disk_map' \in Updated(disk_map, c, Cgroup(c), NoStats)
    /\ replaced' = IF Present(disk_map, Cgroup(c)) THEN replaced \cup {Cgroup(c)} ELSE replaced
    /\ cpu' = [cpu EXCEPT ![c].pc = "lookup"]
    /\ UNCHANGED <<inflight_map, state, shared, lost>>

(* The entry is looked up again; in a full map there is still none.        *)
Lookup2(c) ==
    /\ At(c, "lookup")
    /\ IF Present(disk_map, Cgroup(c))
         THEN /\ cpu' = [cpu EXCEPT ![c].pc = "add", ![c].stats = disk_map.slot[Cgroup(c)]]
              /\ UNCHANGED lost
         ELSE /\ cpu' = [cpu EXCEPT ![c] = Idle]
              /\ lost' = lost \cup {cpu[c].back}
    /\ UNCHANGED <<inflight_map, disk_map, state, shared, replaced>>

(* The atomic additions for the direction of the request.                  *)
Add(c) ==
    /\ At(c, "add")
    /\ disk_map' = IF cpu[c].found \in Writes
                     THEN [disk_map EXCEPT !.value[cpu[c].stats].write = @ + 1]
                     ELSE [disk_map EXCEPT !.value[cpu[c].stats].read = @ + 1]
    /\ cpu' = [cpu EXCEPT ![c] = Idle]
    /\ UNCHANGED <<inflight_map, state, shared, lost, replaced>>

Next ==
    \E c \in Cpus :
        \/ \E r \in Requests : Issue(c, r)
        \/ \E r \in Requests : Complete(c, r)
        \/ ReadRequest(c)
        \/ DeleteRequest(c)
        \/ LookupStats(c)
        \/ Update(c)
        \/ Lookup2(c)
        \/ Add(c)

Spec == Init /\ [][Next]_vars

-----------------------------------------------------------------------------
Stats(g) == IF Present(disk_map, g) THEN disk_map.value[disk_map.slot[g]] ELSE NoStats

Back(g) == {r \in Requests : state[r] = "back" /\ CgroupOf[r] = g}

Quiet == (\A c \in Cpus : At(c, "idle")) /\ \A r \in Requests : state[r] # "out"

(* No cgroup is charged for operations it did not issue, nor for its reads *)
(* as writes, while a pointer into inflight_map is used after other CPUs   *)
(* may have deleted and reused the element (trace_rq_complete).  Needs     *)
(* sectors that are unique, and at most one cgroup's entry replaced.       *)
IssuersCharged ==
    ~shared /\ Cardinality(replaced) <= 1 =>
        \A g \in Cgroups :
            /\ Stats(g).read <= Cardinality(Back(g) \ Writes)
            /\ Stats(g).write <= Cardinality(Back(g) \cap Writes)

(* Every operation is counted exactly once when all is quiet, if no entry  *)
(* of disk_map was replaced, except those a full map had no room for.      *)
ExactWithoutRaces ==
    ~shared /\ Quiet /\ replaced = {} =>
        \A g \in Cgroups :
            /\ Stats(g).read = Cardinality(Back(g) \ (Writes \cup lost))
            /\ Stats(g).write = Cardinality((Back(g) \cap Writes) \ lost)

(* inflight_map does not fill up: no entry outlives the last request of    *)
(* its sector, and none is left when all is quiet, sectors shared or not.  *)
InflightDrained ==
    \A s \in DOMAIN inflight_map.slot : \E r \in Pending : SectorOf[r] = s
=============================================================================
