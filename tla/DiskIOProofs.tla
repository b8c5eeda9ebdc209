---------------------------- MODULE DiskIOProofs ----------------------------
(***************************************************************************)
(* What the disk probe charges, for every number of CPUs, requests,        *)
(* sectors, cgroups and elements of the two maps.                          *)
(***************************************************************************)
EXTENDS DiskIO, PartialMapsProofs, TLAPS

(* The elements of the two maps, with the CPUs' extra ones.                *)
InflightElems == InflightEntries \cup Extras
DiskElems == DiskEntries \cup Extras

(* The types of the variables, and that no element of a map is in two      *)
(* uses.                                                                   *)
Types ==
    /\ IsBpfMap(inflight_map, Sectors, Requests \cup {NoRequest}, InflightElems, Cpus)
    /\ IsBpfMap(disk_map, Cgroups, disk_stats, DiskElems, Cpus)
    /\ Disjoint(inflight_map) /\ Disjoint(disk_map)
    /\ cpu \in [Cpus -> Busy \cup {Idle}]
    /\ state \in [Requests -> {"new", "out", "back"}]
    /\ shared \in BOOLEAN
    /\ lost \subseteq Requests
    /\ replaced \subseteq Cgroups

(* The CPU has read the request: found is one.                             *)
Charging(c) == cpu[c].pc \in {"delete", "stats", "update", "lookup", "add"}

(* Every record of inflight_map that can be reached by its sector or by a  *)
(* pointer about to be read is a request.                                  *)
Records ==
    /\ \A s \in DOMAIN inflight_map.slot : inflight_map.value[inflight_map.slot[s]] \in Requests
    /\ \A c \in Cpus : At(c, "read") => inflight_map.value[cpu[c].req] \in Requests
    /\ \A c \in Cpus : Charging(c) => cpu[c].found \in Requests

(* The two together are inductive.                                         *)
Shape == Types /\ Records

(* What the parts of the two maps are.                                     *)
LEMMA MapFacts ==
    ASSUME Shape
    PROVE  /\ DOMAIN inflight_map.slot \subseteq Sectors
           /\ \A s \in DOMAIN inflight_map.slot : inflight_map.slot[s] \in InflightElems
           /\ inflight_map.value \in [InflightElems -> Requests \cup {NoRequest}]
           /\ inflight_map.free \subseteq InflightElems
           /\ inflight_map.extra \in [Cpus -> InflightElems]
           /\ DOMAIN disk_map.slot \subseteq Cgroups
           /\ \A g \in DOMAIN disk_map.slot : disk_map.slot[g] \in DiskElems
           /\ disk_map.value \in [DiskElems -> disk_stats]
           /\ disk_map.free \subseteq DiskElems
           /\ disk_map.extra \in [Cpus -> DiskElems]
BY DEF Shape, Types, IsBpfMap, IsMap

(* What the parts of a busy CPU's state are.                               *)
LEMMA BusyFacts ==
    ASSUME Shape, NEW c \in Cpus, ~At(c, "idle")
    PROVE  /\ cpu[c] \in Busy
           /\ cpu[c].back \in Requests /\ SectorOf[cpu[c].back] \in Sectors
           /\ cpu[c].req \in InflightElems /\ cpu[c].stats \in DiskElems
           /\ ~At(c, "read") => Charging(c)
           /\ Charging(c) => cpu[c].found \in Requests /\ Cgroup(c) \in Cgroups
<1>1. cpu[c] \in Busy
  BY DEF Shape, Types, At, Idle
<1>2. /\ cpu[c].back \in Requests /\ cpu[c].req \in InflightElems /\ cpu[c].stats \in DiskElems
      /\ cpu[c].pc \in {"read", "delete", "stats", "update", "lookup", "add"}
  BY <1>1 DEF Busy, InflightElems, DiskElems
<1>3. Charging(c) => cpu[c].found \in Requests /\ Cgroup(c) \in Cgroups
  BY DEF Shape, Records, Cgroup, Cgroups
<1> QED BY <1>1, <1>2, <1>3 DEF Sectors, At, Charging

(* Only the state of the CPU c changes; and what of it stays.              *)
Others(c) == \A d \in Cpus \ {c} : cpu'[d] = cpu[d]
SameRequest(c) == cpu'[c].back = cpu[c].back /\ cpu'[c].found = cpu[c].found

(* What an update does to a map: over a key that is present, for a new key *)
(* when there is room, and in either case or none.                         *)
Replaces(map, next, c, key, v) ==
    /\ next.slot = [map.slot EXCEPT ![key] = map.extra[c]]
    /\ next.value = [map.value EXCEPT ![map.extra[c]] = v]
    /\ next.extra = [map.extra EXCEPT ![c] = map.slot[key]]
    /\ next.free = map.free
Inserts(map, next, key, v) ==
    /\ next.slot[key] \in map.free
    /\ DOMAIN next.slot = DOMAIN map.slot \cup {key}
    /\ \A k \in DOMAIN map.slot : next.slot[k] = map.slot[k]
    /\ next.value = [map.value EXCEPT ![next.slot[key]] = v]
    /\ next.free = map.free \ {next.slot[key]}
    /\ next.extra = map.extra
Puts(map, next, c, key, v) ==
    /\ Present(map, key) => Replaces(map, next, c, key, v)
    /\ ~Present(map, key) /\ map.free # {} => Inserts(map, next, key, v)
    /\ ~Present(map, key) /\ map.free = {} => next = map

(* An update of inflight_map.                                              *)
LEMMA InflightPuts ==
    ASSUME Shape, NEW c \in Cpus, NEW s \in Sectors, NEW r \in Requests,
           inflight_map' \in Updated(inflight_map, c, s, r)
    PROVE  /\ IsBpfMap(inflight_map', Sectors, Requests \cup {NoRequest}, InflightElems, Cpus)
           /\ Disjoint(inflight_map')
           /\ Puts(inflight_map, inflight_map', c, s, r)
<1>1. /\ IsBpfMap(inflight_map, Sectors, Requests \cup {NoRequest}, InflightElems, Cpus)
      /\ Disjoint(inflight_map)
  BY DEF Shape, Types
<1>2. r \in Requests \cup {NoRequest}
  OBVIOUS
<1>3. CASE Present(inflight_map, s)
  <2>1. /\ IsBpfMap(inflight_map', Sectors, Requests \cup {NoRequest}, InflightElems, Cpus)
        /\ Disjoint(inflight_map')
        /\ Replaces(inflight_map, inflight_map', c, s, r)
    BY <1>1, <1>2, <1>3, ReplaceFacts DEF Replaces
  <2> QED BY <1>3, <2>1 DEF Puts
<1>4. CASE ~Present(inflight_map, s) /\ inflight_map.free # {}
  <2>1. /\ IsBpfMap(inflight_map', Sectors, Requests \cup {NoRequest}, InflightElems, Cpus)
        /\ Disjoint(inflight_map')
        /\ Inserts(inflight_map, inflight_map', s, r)
    BY <1>1, <1>2, <1>4, InsertFacts DEF Inserts
  <2> QED BY <1>4, <2>1 DEF Puts
<1>5. CASE ~Present(inflight_map, s) /\ inflight_map.free = {}
  <2>1. inflight_map' = inflight_map
    BY <1>5, FullFacts
  <2> QED BY <1>1, <1>5, <2>1 DEF Puts
<1> QED BY <1>3, <1>4, <1>5

(* An update of disk_map.                                                  *)
LEMMA DiskPuts ==
    ASSUME Shape, NEW c \in Cpus, NEW g \in Cgroups,
           disk_map' \in Updated(disk_map, c, g, NoStats)
    PROVE  /\ IsBpfMap(disk_map', Cgroups, disk_stats, DiskElems, Cpus)
           /\ Disjoint(disk_map')
           /\ Puts(disk_map, disk_map', c, g, NoStats)
<1>1. /\ IsBpfMap(disk_map, Cgroups, disk_stats, DiskElems, Cpus)
      /\ Disjoint(disk_map)
  BY DEF Shape, Types
<1>2. NoStats \in disk_stats
  BY DEF NoStats, disk_stats
<1>3. CASE Present(disk_map, g)
  <2>1. /\ IsBpfMap(disk_map', Cgroups, disk_stats, DiskElems, Cpus)
        /\ Disjoint(disk_map')
        /\ Replaces(disk_map, disk_map', c, g, NoStats)
    BY <1>1, <1>2, <1>3, ReplaceFacts DEF Replaces
  <2> QED BY <1>3, <2>1 DEF Puts
<1>4. CASE ~Present(disk_map, g) /\ disk_map.free # {}
  <2>1. /\ IsBpfMap(disk_map', Cgroups, disk_stats, DiskElems, Cpus)
        /\ Disjoint(disk_map')
        /\ Inserts(disk_map, disk_map', g, NoStats)
    BY <1>1, <1>2, <1>4, InsertFacts DEF Inserts
  <2> QED BY <1>4, <2>1 DEF Puts
<1>5. CASE ~Present(disk_map, g) /\ disk_map.free = {}
  <2>1. disk_map' = disk_map
    BY <1>5, FullFacts
  <2> QED BY <1>1, <1>5, <2>1 DEF Puts
<1> QED BY <1>3, <1>4, <1>5

(* The maps as they are loaded.                                            *)
LEMMA InitTypes ==
    ASSUME Init
    PROVE  /\ Shape
           /\ DOMAIN inflight_map.slot = {} /\ DOMAIN disk_map.slot = {}
           /\ \A c \in Cpus : disk_map.extra[c] = ExtraOf[c]
<1> DEFINE extras == [c \in Cpus |-> ExtraOf[c]]
<1>0. /\ {extras[c] : c \in DOMAIN extras} = Extras
      /\ \A c \in Cpus : extras[c] = ExtraOf[c] /\ ExtraOf[c] \in Extras
      /\ \A c \in Cpus : extras[c] \notin InflightEntries /\ extras[c] \notin DiskEntries
      /\ \A c, d \in Cpus : extras[c] = extras[d] => c = d
      /\ extras \in [Cpus -> Extras]
  BY ExtraOfAssumption DEF Extras
<1>1. inflight_map = Empty(InflightEntries, extras, NoRequest) /\ disk_map = Empty(DiskEntries, extras, NoStats)
  BY DEF Init
<1> HIDE DEF extras
<1>2. /\ DOMAIN inflight_map = {"slot", "value", "free", "extra"}
      /\ inflight_map.slot = NoKeys
      /\ inflight_map.value = [e \in InflightElems |-> NoRequest]
      /\ inflight_map.free = InflightEntries
      /\ inflight_map.extra = extras
  BY <1>0, <1>1 DEF Empty, InflightElems
<1>3. /\ DOMAIN disk_map = {"slot", "value", "free", "extra"}
      /\ disk_map.slot = NoKeys
      /\ disk_map.value = [e \in DiskElems |-> NoStats]
      /\ disk_map.free = DiskEntries
      /\ disk_map.extra = extras
  BY <1>0, <1>1 DEF Empty, DiskElems
<1>4. NoStats \in disk_stats
  BY DEF NoStats, disk_stats
<1>5. /\ IsMap(inflight_map.slot, Sectors, InflightElems) /\ DOMAIN inflight_map.slot = {}
      /\ IsMap(disk_map.slot, Cgroups, DiskElems) /\ DOMAIN disk_map.slot = {}
  BY <1>2, <1>3, NoKeysIsMap
<1>6. IsBpfMap(inflight_map, Sectors, Requests \cup {NoRequest}, InflightElems, Cpus)
  BY <1>0, <1>2, <1>5 DEF IsBpfMap, InflightElems
<1>7. IsBpfMap(disk_map, Cgroups, disk_stats, DiskElems, Cpus)
  BY <1>0, <1>3, <1>4, <1>5 DEF IsBpfMap, DiskElems
<1>8. Disjoint(inflight_map) /\ Disjoint(disk_map)
  BY <1>0, <1>2, <1>3, <1>5 DEF Disjoint
<1>9. Types
  BY <1>6, <1>7, <1>8 DEF Init, Types
<1>10. Records
  BY <1>5 DEF Init, Records, At, Charging, Idle
<1> QED BY <1>0, <1>3, <1>5, <1>9, <1>10 DEF Shape

-----------------------------------------------------------------------------
(* What trace_rq_issue changes.                                            *)
LEMMA IssueStep ==
    ASSUME Shape, NEW c \in Cpus, NEW r \in Requests, Issue(c, r)
    PROVE  /\ Shape'
           /\ state[r] = "new" /\ state' = [state EXCEPT ![r] = "out"] /\ SectorOf[r] \in Sectors
           /\ shared' <=> shared \/ \E q \in Pending : SectorOf[q] = SectorOf[r]
           /\ Puts(inflight_map, inflight_map', c, SectorOf[r], r)
           /\ lost' = IF inflight_map' = inflight_map THEN lost \cup {r} ELSE lost
           /\ UNCHANGED <<disk_map, cpu, replaced>>
<1>1. /\ state[r] = "new" /\ state' = [state EXCEPT ![r] = "out"]
      /\ shared' = (shared \/ \E q \in Pending : SectorOf[q] = SectorOf[r])
      /\ inflight_map' \in Updated(inflight_map, c, SectorOf[r], r)
      /\ lost' = IF inflight_map' = inflight_map THEN lost \cup {r} ELSE lost
      /\ UNCHANGED <<disk_map, cpu, replaced>>
  BY DEF Issue
<1>2. SectorOf[r] \in Sectors
  BY DEF Sectors
<1>3. PICK s \in Sectors : s = SectorOf[r]
  BY <1>2
<1>4. /\ IsBpfMap(inflight_map', Sectors, Requests \cup {NoRequest}, InflightElems, Cpus)
      /\ Disjoint(inflight_map')
      /\ Puts(inflight_map, inflight_map', c, s, r)
  BY <1>1, <1>3, InflightPuts
<1>5. /\ state' \in [Requests -> {"new", "out", "back"}] /\ lost' \subseteq Requests
      /\ shared' \in BOOLEAN
  <2>1. state' \in [Requests -> {"new", "out", "back"}] /\ lost' \subseteq Requests
    BY <1>1 DEF Shape, Types
  <2>2. shared' \in BOOLEAN
    BY <1>1
  <2> QED BY <2>1, <2>2
<1>6. Types'
  BY <1>1, <1>4, <1>5 DEF Shape, Types
<1>7. \A e \in InflightElems : inflight_map.value[e] \in Requests => inflight_map'.value[e] \in Requests
  BY <1>4, MapFacts DEF Puts, Replaces, Inserts
<1>8. \A t \in DOMAIN inflight_map'.slot : inflight_map'.value[inflight_map'.slot[t]] \in Requests
  <2>1. CASE Present(inflight_map, s)
    <3>1. ASSUME NEW t \in DOMAIN inflight_map'.slot
          PROVE  inflight_map'.value[inflight_map'.slot[t]] \in Requests
      <4>1. CASE t = s
        BY <1>4, <2>1, <4>1, MapFacts DEF Puts, Replaces, Present
      <4>2. CASE t # s
        BY <1>4, <1>7, <2>1, <4>2, MapFacts DEF Puts, Replaces, Present, Shape, Records
      <4> QED BY <4>1, <4>2
    <3> QED BY <3>1
  <2>2. CASE ~Present(inflight_map, s) /\ inflight_map.free # {}
    <3>1. ASSUME NEW t \in DOMAIN inflight_map'.slot
          PROVE  inflight_map'.value[inflight_map'.slot[t]] \in Requests
      <4>1. CASE t = s
        BY <1>4, <2>2, <4>1, MapFacts DEF Puts, Inserts
      <4>2. CASE t # s
        BY <1>4, <1>7, <2>2, <4>2, MapFacts DEF Puts, Inserts, Shape, Records
      <4> QED BY <4>1, <4>2
    <3> QED BY <3>1
  <2>3. CASE ~Present(inflight_map, s) /\ inflight_map.free = {}
    BY <1>4, <2>3 DEF Puts, Shape, Records
  <2> QED BY <2>1, <2>2, <2>3
<1>9. Records'
  <2>1. \A d \in Cpus : At(d, "read") => cpu[d].req \in InflightElems
    BY BusyFacts DEF At
  <2>2. \A d \in Cpus : At(d, "read") => inflight_map'.value[cpu[d].req] \in Requests
    BY <1>7, <2>1 DEF Shape, Records
  <2>3. \A d \in Cpus : Charging(d) => cpu[d].found \in Requests
    BY DEF Shape, Records
  <2> QED BY <1>1, <1>8, <2>2, <2>3 DEF Records, At, Charging
<1> QED BY <1>1, <1>2, <1>3, <1>4, <1>6, <1>9 DEF Shape

(* What the lookup of trace_rq_complete changes.                           *)
LEMMA CompleteStep ==
    ASSUME Shape, NEW c \in Cpus, NEW r \in Requests, Complete(c, r)
    PROVE  /\ Shape'
           /\ At(c, "idle") /\ state[r] = "out" /\ state' = [state EXCEPT ![r] = "back"]
           /\ SectorOf[r] \in Sectors
           /\ Others(c)
           /\ Present(inflight_map, SectorOf[r]) =>
                 cpu'[c].pc = "read" /\ cpu'[c].back = r
                 /\ cpu'[c].req = inflight_map.slot[SectorOf[r]]
           /\ ~Present(inflight_map, SectorOf[r]) => cpu' = cpu
           /\ UNCHANGED <<inflight_map, disk_map, shared, lost, replaced>>
<1> DEFINE p == [pc |-> "read", back |-> r, req |-> inflight_map.slot[SectorOf[r]],
                 found |-> NoRequest, stats |-> ExtraOf[c]]
<1>1. /\ At(c, "idle") /\ state[r] = "out" /\ state' = [state EXCEPT ![r] = "back"]
      /\ cpu' = IF Present(inflight_map, SectorOf[r]) THEN [cpu EXCEPT ![c] = p] ELSE cpu
      /\ UNCHANGED <<inflight_map, disk_map, shared, lost, replaced>>
  BY DEF Complete
<1>2. state' \in [Requests -> {"new", "out", "back"}]
  BY <1>1 DEF Shape, Types
<1>3. SectorOf[r] \in Sectors
  BY DEF Sectors
<1>4. CASE ~Present(inflight_map, SectorOf[r])
  <2>1. cpu' = cpu
    BY <1>1, <1>4
  <2>2. Shape'
    BY <1>1, <1>2, <2>1 DEF Shape, Types, Records, At, Charging
  <2> QED BY <1>1, <1>3, <1>4, <2>1, <2>2 DEF Others
<1>5. CASE Present(inflight_map, SectorOf[r])
  <2>1. /\ inflight_map.slot[SectorOf[r]] \in InflightElems
        /\ inflight_map.value[inflight_map.slot[SectorOf[r]]] \in Requests
    BY <1>5, MapFacts DEF Present, Shape, Records
  <2>2. p \in Busy
    <3>1. ExtraOf[c] \in Extras
      BY DEF Extras
    <3> QED BY <2>1, <3>1 DEF Busy, InflightElems
  <2>3. p.pc = "read" /\ p.back = r /\ p.req = inflight_map.slot[SectorOf[r]]
    OBVIOUS
  <2> HIDE DEF p
  <2>4. cpu' \in [Cpus -> Busy \cup {Idle}] /\ cpu'[c] = p /\ Others(c)
    BY <1>1, <1>5, <2>2 DEF Shape, Types, Others
  <2>5. Types'
    BY <1>1, <1>2, <2>4 DEF Shape, Types
  <2>6. \A d \in Cpus : At(d, "read")' => inflight_map.value[cpu'[d].req] \in Requests
    BY <2>1, <2>3, <2>4 DEF Shape, Records, At, Others
  <2>7. \A d \in Cpus : Charging(d)' => cpu'[d].found \in Requests
    BY <2>3, <2>4 DEF Shape, Records, Charging, Others
  <2>8. Records'
    BY <1>1, <2>6, <2>7 DEF Shape, Records
  <2> QED BY <1>1, <1>3, <1>5, <2>3, <2>4, <2>5, <2>8 DEF Shape
<1> QED BY <1>4, <1>5

(* What reading through the pointer changes.                               *)
LEMMA ReadStep ==
    ASSUME Shape, NEW c \in Cpus, ReadRequest(c)
    PROVE  /\ Shape'
           /\ At(c, "read") /\ Others(c)
           /\ cpu'[c].pc = "delete" /\ cpu'[c].back = cpu[c].back
           /\ cpu'[c].found = inflight_map.value[cpu[c].req]
           /\ UNCHANGED <<inflight_map, disk_map, state, shared, lost, replaced>>
<1>1. /\ At(c, "read")
      /\ cpu' = [cpu EXCEPT ![c].found = inflight_map.value[cpu[c].req], ![c].pc = "delete"]
      /\ UNCHANGED <<inflight_map, disk_map, state, shared, lost, replaced>>
  BY DEF ReadRequest
<1>2. cpu[c] \in Busy /\ inflight_map.value[cpu[c].req] \in Requests
  BY <1>1, BusyFacts DEF At, Shape, Records
<1>3. /\ cpu'[c] = [cpu[c] EXCEPT !.found = inflight_map.value[cpu[c].req], !.pc = "delete"]
      /\ cpu' = [cpu EXCEPT ![c] = cpu'[c]]
  BY <1>1 DEF Shape, Types
<1>4. cpu'[c] \in Busy /\ cpu'[c].pc = "delete" /\ cpu'[c].back = cpu[c].back
      /\ cpu'[c].found = inflight_map.value[cpu[c].req]
  <2> HIDE <1>1
  <2> QED BY <1>2, <1>3 DEF Busy
<1>5. cpu' \in [Cpus -> Busy \cup {Idle}] /\ Others(c)
  BY <1>3, <1>4 DEF Shape, Types, Others
<1>6. Types'
  BY <1>1, <1>5 DEF Shape, Types
<1>7. Records'
  BY <1>1, <1>2, <1>4, <1>5 DEF Shape, Records, At, Charging, Others
<1> QED BY <1>1, <1>4, <1>5, <1>6, <1>7 DEF Shape

(* What deleting the sector changes.                                       *)
LEMMA DeleteStep ==
    ASSUME Shape, NEW c \in Cpus, DeleteRequest(c)
    PROVE  LET s == SectorOf[cpu[c].back]
           IN  /\ Shape'
               /\ At(c, "delete") /\ Others(c) /\ cpu'[c].pc = "stats" /\ SameRequest(c)
               /\ DOMAIN inflight_map'.slot = DOMAIN inflight_map.slot \ {s}
               /\ \A t \in DOMAIN inflight_map'.slot : inflight_map'.slot[t] = inflight_map.slot[t]
               /\ inflight_map'.value = inflight_map.value
               /\ UNCHANGED <<disk_map, state, shared, lost, replaced>>
<1>0. PICK s : s = SectorOf[cpu[c].back]
  OBVIOUS
<1>1. /\ At(c, "delete")
      /\ inflight_map' = Deleted(inflight_map, s)
      /\ cpu' = [cpu EXCEPT ![c].pc = "stats"]
      /\ UNCHANGED <<disk_map, state, shared, lost, replaced>>
  BY <1>0 DEF DeleteRequest
<1>2. /\ IsBpfMap(inflight_map, Sectors, Requests \cup {NoRequest}, InflightElems, Cpus)
      /\ Disjoint(inflight_map)
  BY DEF Shape, Types
<1>3. /\ IsBpfMap(inflight_map', Sectors, Requests \cup {NoRequest}, InflightElems, Cpus)
      /\ Disjoint(inflight_map')
      /\ DOMAIN inflight_map'.slot = DOMAIN inflight_map.slot \ {s}
      /\ \A t \in DOMAIN inflight_map'.slot : inflight_map'.slot[t] = inflight_map.slot[t]
      /\ inflight_map'.value = inflight_map.value
  BY <1>1, <1>2, DeletedFacts
<1>4. cpu[c] \in Busy
  BY <1>1, BusyFacts DEF At
<1>5. /\ cpu'[c] = [cpu[c] EXCEPT !.pc = "stats"]
      /\ cpu' = [cpu EXCEPT ![c] = cpu'[c]]
  BY <1>1 DEF Shape, Types
<1>6. cpu'[c] \in Busy /\ cpu'[c].pc = "stats" /\ SameRequest(c)
  BY <1>4, <1>5 DEF Busy, SameRequest
<1>7. cpu' \in [Cpus -> Busy \cup {Idle}] /\ Others(c)
  BY <1>5, <1>6 DEF Shape, Types, Others
<1>8. Types'
  BY <1>1, <1>3, <1>7 DEF Shape, Types
<1>9. Charging(c)
  BY <1>1 DEF At, Charging
<1>10. Records'
  BY <1>1, <1>3, <1>6, <1>7, <1>9 DEF Shape, Records, At, Charging, Others, SameRequest
<1> QED BY <1>0, <1>1, <1>3, <1>6, <1>7, <1>8, <1>10 DEF Shape

(* The steps of a CPU that has read its request leave the records alone.   *)
LEMMA Keeps ==
    ASSUME Shape, NEW c \in Cpus, Others(c), Charging(c), Types', UNCHANGED inflight_map,
           ~At(c, "read")', Charging(c)' => SameRequest(c)
    PROVE  Shape'
<1>1. \A d \in Cpus : At(d, "read")' => At(d, "read") /\ cpu'[d].req = cpu[d].req
  BY DEF Others, At
<1>2. \A d \in Cpus : Charging(d)' => Charging(d) /\ cpu'[d].found = cpu[d].found
  BY DEF Others, Charging, SameRequest
<1>3. Records'
  BY <1>1, <1>2 DEF Shape, Records
<1> QED BY <1>3 DEF Shape

(* What the first lookup of the cgroup changes.                            *)
LEMMA LookupStatsStep ==
    ASSUME Shape, NEW c \in Cpus, LookupStats(c)
    PROVE  /\ Shape'
           /\ At(c, "stats") /\ Others(c) /\ SameRequest(c)
           /\ Present(disk_map, Cgroup(c)) =>
                 cpu'[c].pc = "add" /\ cpu'[c].stats = disk_map.slot[Cgroup(c)]
           /\ ~Present(disk_map, Cgroup(c)) => cpu'[c].pc = "update"
           /\ UNCHANGED <<inflight_map, disk_map, state, shared, lost, replaced>>
<1>0. PICK g : g = Cgroup(c)
  OBVIOUS
<1>1. /\ At(c, "stats")
      /\ Present(disk_map, g) =>
            cpu' = [cpu EXCEPT ![c] = [cpu[c] EXCEPT !.pc = "add", !.stats = disk_map.slot[g]]]
      /\ ~Present(disk_map, g) => cpu' = [cpu EXCEPT ![c] = [cpu[c] EXCEPT !.pc = "update"]]
      /\ UNCHANGED <<inflight_map, disk_map, state, shared, lost, replaced>>
  BY <1>0 DEF LookupStats, Shape, Types
<1>2. cpu[c] \in Busy
  BY <1>1, BusyFacts DEF At
<1>3. CASE Present(disk_map, g)
  <2>1. disk_map.slot[g] \in DiskElems
    BY <1>3, MapFacts DEF Present
  <2>2. /\ cpu'[c] = [cpu[c] EXCEPT !.pc = "add", !.stats = disk_map.slot[g]]
        /\ cpu' = [cpu EXCEPT ![c] = cpu'[c]]
    BY <1>1, <1>3 DEF Shape, Types
  <2>3. /\ cpu'[c] \in Busy /\ cpu'[c].pc = "add" /\ cpu'[c].stats = disk_map.slot[g]
        /\ SameRequest(c)
    <3> HIDE <1>1
    <3> QED BY <1>2, <2>1, <2>2 DEF Busy, SameRequest, DiskElems
  <2>4. cpu' \in [Cpus -> Busy \cup {Idle}] /\ Others(c)
    BY <2>2, <2>3 DEF Shape, Types, Others
  <2>5. Types'
    BY <1>1, <2>4 DEF Shape, Types
  <2>6. Charging(c) /\ ~At(c, "read")'
    BY <1>1, <2>3 DEF At, Charging
  <2> QED BY <1>0, <1>1, <1>3, <2>3, <2>4, <2>5, <2>6, Keeps
<1>4. CASE ~Present(disk_map, g)
  <2>2. /\ cpu'[c] = [cpu[c] EXCEPT !.pc = "update"]
        /\ cpu' = [cpu EXCEPT ![c] = cpu'[c]]
    BY <1>1, <1>4 DEF Shape, Types
  <2>3. cpu'[c] \in Busy /\ cpu'[c].pc = "update" /\ SameRequest(c)
    <3> HIDE <1>1
    <3> QED BY <1>2, <2>2 DEF Busy, SameRequest
  <2>4. cpu' \in [Cpus -> Busy \cup {Idle}] /\ Others(c)
    BY <2>2, <2>3 DEF Shape, Types, Others
  <2>5. Types'
    BY <1>1, <2>4 DEF Shape, Types
  <2>6. Charging(c) /\ ~At(c, "read")'
    BY <1>1, <2>3 DEF At, Charging
  <2> QED BY <1>0, <1>1, <1>4, <2>3, <2>4, <2>5, <2>6, Keeps
<1> QED BY <1>3, <1>4

(* What the insertion of a zero entry changes.                             *)
LEMMA UpdateStep ==
    ASSUME Shape, NEW c \in Cpus, Update(c)
    PROVE  /\ Shape'
           /\ At(c, "update") /\ Others(c) /\ cpu'[c].pc = "lookup" /\ SameRequest(c)
           /\ Cgroup(c) \in Cgroups
           /\ Puts(disk_map, disk_map', c, Cgroup(c), NoStats)
           /\ replaced' = IF Present(disk_map, Cgroup(c)) THEN replaced \cup {Cgroup(c)}
                                                          ELSE replaced
           /\ UNCHANGED <<inflight_map, state, shared, lost>>
<1>0. PICK g : g = Cgroup(c)
  OBVIOUS
<1>1. /\ At(c, "update")
      /\ disk_map' \in Updated(disk_map, c, g, NoStats)
      /\ replaced' = IF Present(disk_map, g) THEN replaced \cup {g} ELSE replaced
      /\ cpu' = [cpu EXCEPT ![c].pc = "lookup"]
      /\ UNCHANGED <<inflight_map, state, shared, lost>>
  BY <1>0 DEF Update
<1>2. cpu[c] \in Busy /\ Charging(c) /\ g \in Cgroups
  BY <1>0, <1>1, BusyFacts DEF At, Charging
<1>3. /\ IsBpfMap(disk_map', Cgroups, disk_stats, DiskElems, Cpus)
      /\ Disjoint(disk_map')
      /\ Puts(disk_map, disk_map', c, g, NoStats)
  BY <1>1, <1>2, DiskPuts
<1>4. /\ cpu'[c] = [cpu[c] EXCEPT !.pc = "lookup"]
      /\ cpu' = [cpu EXCEPT ![c] = cpu'[c]]
  BY <1>1 DEF Shape, Types
<1>5. cpu'[c] \in Busy /\ cpu'[c].pc = "lookup" /\ SameRequest(c)
  <2> HIDE <1>1
  <2> QED BY <1>2, <1>4 DEF Busy, SameRequest
<1>6. cpu' \in [Cpus -> Busy \cup {Idle}] /\ Others(c)
  BY <1>4, <1>5 DEF Shape, Types, Others
<1>7. replaced' \subseteq Cgroups
  BY <1>1, <1>2 DEF Shape, Types
<1>8. Types'
  BY <1>1, <1>3, <1>6, <1>7 DEF Shape, Types
<1>9. ~At(c, "read")'
  BY <1>5 DEF At
<1> QED BY <1>0, <1>1, <1>2, <1>3, <1>5, <1>6, <1>8, <1>9, Keeps

(* What the second lookup changes.                                         *)
LEMMA Lookup2Step ==
    ASSUME Shape, NEW c \in Cpus, Lookup2(c)
    PROVE  /\ Shape'
           /\ At(c, "lookup") /\ Others(c)
           /\ Present(disk_map, Cgroup(c)) =>
                 /\ cpu'[c].pc = "add" /\ cpu'[c].stats = disk_map.slot[Cgroup(c)]
                 /\ SameRequest(c) /\ lost' = lost
           /\ ~Present(disk_map, Cgroup(c)) =>
                 cpu'[c] = Idle /\ lost' = lost \cup {cpu[c].back}
           /\ UNCHANGED <<inflight_map, disk_map, state, shared, replaced>>
<1>0. PICK g : g = Cgroup(c)
  OBVIOUS
<1>1. /\ At(c, "lookup")
      /\ Present(disk_map, g) =>
            cpu' = [cpu EXCEPT ![c].pc = "add", ![c].stats = disk_map.slot[g]] /\ lost' = lost
      /\ ~Present(disk_map, g) => cpu' = [cpu EXCEPT ![c] = Idle] /\ lost' = lost \cup {cpu[c].back}
      /\ UNCHANGED <<inflight_map, disk_map, state, shared, replaced>>
  BY <1>0 DEF Lookup2
<1>2. cpu[c] \in Busy /\ cpu[c].back \in Requests /\ Charging(c)
  BY <1>1, BusyFacts DEF At, Charging
<1>3. CASE Present(disk_map, g)
  <2>1. disk_map.slot[g] \in DiskElems
    BY <1>3, MapFacts DEF Present
  <2>2. /\ cpu'[c] = [cpu[c] EXCEPT !.pc = "add", !.stats = disk_map.slot[g]]
        /\ cpu' = [cpu EXCEPT ![c] = cpu'[c]]
    BY <1>1, <1>3 DEF Shape, Types
  <2>3. /\ cpu'[c] \in Busy /\ cpu'[c].pc = "add" /\ cpu'[c].stats = disk_map.slot[g]
        /\ SameRequest(c)
    <3> HIDE <1>1
    <3> QED BY <1>2, <2>1, <2>2 DEF Busy, SameRequest, DiskElems
  <2>4. cpu' \in [Cpus -> Busy \cup {Idle}] /\ Others(c)
    BY <2>2, <2>3 DEF Shape, Types, Others
  <2>5. Types'
    BY <1>1, <1>3, <2>4 DEF Shape, Types
  <2>6. ~At(c, "read")'
    BY <2>3 DEF At
  <2> QED BY <1>0, <1>1, <1>2, <1>3, <2>3, <2>4, <2>5, <2>6, Keeps
<1>4. CASE ~Present(disk_map, g)
  <2>1. cpu' \in [Cpus -> Busy \cup {Idle}] /\ Others(c) /\ cpu'[c] = Idle
    BY <1>1, <1>4 DEF Shape, Types, Others
  <2>2. Types'
    BY <1>1, <1>2, <1>4, <2>1 DEF Shape, Types
  <2>3. ~At(c, "read")' /\ ~Charging(c)'
    BY <2>1 DEF At, Charging, Idle
  <2>4. Shape'
    BY <1>1, <1>2, <2>1, <2>2, <2>3, Keeps
  <2> QED BY <1>0, <1>1, <1>4, <2>1, <2>4
<1> QED BY <1>3, <1>4

(* What the additions change: one counter of one element.                  *)
LEMMA AddStep ==
    ASSUME Shape, NEW c \in Cpus, Add(c)
    PROVE  LET e == cpu[c].stats
           IN  /\ Shape'
               /\ At(c, "add") /\ e \in DiskElems /\ Others(c) /\ cpu'[c] = Idle
               /\ disk_map'.slot = disk_map.slot
               /\ disk_map'.free = disk_map.free
               /\ disk_map'.extra = disk_map.extra
               /\ \A f \in DiskElems \ {e} : disk_map'.value[f] = disk_map.value[f]
               /\ cpu[c].found \in Writes =>
                     /\ disk_map'.value[e].read = disk_map.value[e].read
                     /\ disk_map'.value[e].write = disk_map.value[e].write + 1
               /\ cpu[c].found \notin Writes =>
                     /\ disk_map'.value[e].read = disk_map.value[e].read + 1
                     /\ disk_map'.value[e].write = disk_map.value[e].write
               /\ UNCHANGED <<inflight_map, state, shared, lost, replaced>>
<1>0. PICK e : e = cpu[c].stats
  OBVIOUS
<1> DEFINE v == disk_map.value[e]
           w == IF cpu[c].found \in Writes THEN [v EXCEPT !.write = @ + 1] ELSE [v EXCEPT !.read = @ + 1]
           value == [disk_map.value EXCEPT ![e] = w]
<1>1. /\ At(c, "add") /\ e \in DiskElems /\ Charging(c)
      /\ cpu' = [cpu EXCEPT ![c] = Idle]
      /\ UNCHANGED <<inflight_map, state, shared, lost, replaced>>
  BY <1>0, BusyFacts DEF Add, At, Charging
<1>2. v \in disk_stats
  BY <1>1, MapFacts
<1>3. /\ w \in disk_stats
      /\ cpu[c].found \in Writes => w.read = v.read /\ w.write = v.write + 1
      /\ cpu[c].found \notin Writes => w.read = v.read + 1 /\ w.write = v.write
  <2> HIDE DEF v
  <2>1. CASE cpu[c].found \in Writes
    BY <1>2, <2>1 DEF disk_stats
  <2>2. CASE cpu[c].found \notin Writes
    BY <1>2, <2>2 DEF disk_stats
  <2> QED BY <2>1, <2>2
<1>4. disk_map' = [disk_map EXCEPT !.value = value]
  <2>1. DOMAIN disk_map = {"slot", "value", "free", "extra"} /\ disk_map.value \in [DiskElems -> disk_stats]
    BY DEF Shape, Types, IsBpfMap
  <2>2. CASE cpu[c].found \in Writes
    BY <1>0, <1>1, <2>1, <2>2 DEF Add
  <2>3. CASE cpu[c].found \notin Writes
    BY <1>0, <1>1, <2>1, <2>3 DEF Add
  <2> QED BY <2>2, <2>3
<1>5. value \in [DiskElems -> disk_stats] /\ value[e] = w
      /\ \A f \in DiskElems \ {e} : value[f] = disk_map.value[f]
  <2> HIDE DEF w
  <2> QED BY <1>1, <1>3, MapFacts
<1> HIDE DEF value, w
<1>6. /\ IsBpfMap(disk_map', Cgroups, disk_stats, DiskElems, Cpus)
      /\ Disjoint(disk_map')
      /\ disk_map'.slot = disk_map.slot
      /\ disk_map'.free = disk_map.free
      /\ disk_map'.extra = disk_map.extra
      /\ disk_map'.value = value
  BY <1>4, <1>5, WriteFacts DEF Shape, Types
<1>7. cpu' \in [Cpus -> Busy \cup {Idle}] /\ Others(c) /\ cpu'[c] = Idle
  BY <1>1 DEF Shape, Types, Others
<1>8. Types'
  BY <1>1, <1>6, <1>7 DEF Shape, Types
<1>9. Shape'
  <2>1. ~At(c, "read")' /\ ~Charging(c)'
    BY <1>7 DEF At, Charging, Idle
  <2> QED BY <1>1, <1>7, <1>8, <2>1, Keeps
<1> QED BY <1>0, <1>1, <1>3, <1>5, <1>6, <1>7, <1>9

(* Every step preserves the types.                                         *)
LEMMA ShapeStep ==
    ASSUME Shape, [Next]_vars
    PROVE  Shape'
<1>1. CASE UNCHANGED vars
  BY <1>1 DEF vars, Shape, Types, Records, At, Charging
<1>2. CASE Next
  BY <1>2, IssueStep, CompleteStep, ReadStep, DeleteStep, LookupStatsStep, UpdateStep,
     Lookup2Step, AddStep DEF Next
<1> QED BY <1>1, <1>2

(* The variables have their types; in particular only a request that was   *)
(* recorded is ever charged (trace_rq_complete).                           *)
THEOREM TypeCorrect == Spec => []TypeOK
<1>1. Init => Shape
  BY InitTypes
<1>2. Shape /\ [Next]_vars => Shape'
  BY ShapeStep
<1>3. Shape => TypeOK
  BY DEF Shape, Types, TypeOK, InflightElems, DiskElems
<1> QED BY <1>1, <1>2, <1>3, PTL DEF Spec

-----------------------------------------------------------------------------
(* The CPU has not deleted its request's sector yet.                       *)
Handled(c) == cpu[c].pc \in {"read", "delete"}

(* A request leaves Pending only by a lookup that finds no entry or by the *)
(* delete of its sector.                                                   *)
LEMMA DrainedStep ==
    ASSUME Shape, InflightDrained, [Next]_vars
    PROVE  InflightDrained'
<1>1. CASE UNCHANGED vars
  BY <1>1 DEF vars, InflightDrained, Pending
<1>2. CASE Next
  <2>1. ASSUME \A s \in DOMAIN inflight_map'.slot : s \in DOMAIN inflight_map.slot,
               \A r \in Requests : r \in Pending /\ SectorOf[r] \in DOMAIN inflight_map'.slot
                                      => r \in Pending'
        PROVE  InflightDrained'
    BY <2>1, MapFacts DEF InflightDrained, Pending
  <2>2. ASSUME NEW c \in Cpus, Others(c), UNCHANGED <<inflight_map, state>>,
               Handled(c) => Handled(c)' /\ cpu'[c].back = cpu[c].back
        PROVE  InflightDrained'
    <3>1. \A r \in Requests : r \in Pending => r \in Pending'
      BY <2>2 DEF Pending, Others, Handled
    <3> QED BY <2>1, <2>2, <3>1
  <2>3. ASSUME NEW c \in Cpus, NEW r \in Requests, Issue(c, r)
        PROVE  InflightDrained'
    <3>0. PICK t : t = SectorOf[r]
      OBVIOUS
    <3>1. /\ t \in Sectors /\ state[r] = "new" /\ state' = [state EXCEPT ![r] = "out"]
          /\ Puts(inflight_map, inflight_map', c, t, r) /\ cpu' = cpu
      BY <2>3, <3>0, IssueStep
    <3>2. state \in [Requests -> {"new", "out", "back"}]
      BY DEF Shape, Types
    <3>3. r \in Pending' /\ \A q \in Pending : q \in Pending'
      BY <3>1, <3>2 DEF Pending
    <3>4. \A s \in DOMAIN inflight_map'.slot : s \in DOMAIN inflight_map.slot \/ s = t
      BY <3>1 DEF Puts, Replaces, Inserts, Present
    <3> QED BY <3>0, <3>3, <3>4 DEF InflightDrained
  <2>4. ASSUME NEW c \in Cpus, NEW r \in Requests, Complete(c, r)
        PROVE  InflightDrained'
    <3>0. PICK t : t = SectorOf[r]
      OBVIOUS
    <3>1. /\ At(c, "idle") /\ state[r] = "out" /\ state' = [state EXCEPT ![r] = "back"]
          /\ inflight_map' = inflight_map /\ Others(c)
          /\ Present(inflight_map, t) => cpu'[c].pc = "read" /\ cpu'[c].back = r
          /\ ~Present(inflight_map, t) => cpu' = cpu
      BY <2>4, <3>0, CompleteStep
    <3>2. state \in [Requests -> {"new", "out", "back"}]
      BY DEF Shape, Types
    <3>3. ASSUME NEW q \in Requests, q \in Pending, q # r
          PROVE  q \in Pending'
      <4>1. CASE state[q] = "out"
        BY <3>1, <3>2, <3>3, <4>1 DEF Pending
      <4>2. CASE \E d \in Cpus : cpu[d].pc \in {"read", "delete"} /\ cpu[d].back = q
        BY <3>1, <4>2 DEF Pending, Others, At
      <4> QED BY <3>3, <4>1, <4>2 DEF Pending
    <3>4. Present(inflight_map, t) => r \in Pending'
      BY <3>1 DEF Pending
    <3> QED BY <2>1, <3>0, <3>1, <3>3, <3>4 DEF Present
  <2>5. ASSUME NEW c \in Cpus, ReadRequest(c)
        PROVE  InflightDrained'
    BY <2>2, <2>5, ReadStep DEF Handled
  <2>6. ASSUME NEW c \in Cpus, DeleteRequest(c)
        PROVE  InflightDrained'
    <3>0. PICK t : t = SectorOf[cpu[c].back]
      OBVIOUS
    <3>1. /\ Others(c) /\ state' = state
          /\ DOMAIN inflight_map'.slot = DOMAIN inflight_map.slot \ {t}
      BY <2>6, <3>0, DeleteStep
    <3>2. ASSUME NEW q \in Requests, q \in Pending, SectorOf[q] # t
          PROVE  q \in Pending'
      BY <3>0, <3>1, <3>2 DEF Pending, Others
    <3> QED BY <2>1, <3>1, <3>2
  <2>7. ASSUME NEW c \in Cpus, LookupStats(c) \/ Update(c) \/ Lookup2(c) \/ Add(c)
        PROVE  InflightDrained'
    <3>1. Others(c) /\ UNCHANGED <<inflight_map, state>> /\ ~Handled(c)
      BY <2>7, LookupStatsStep, UpdateStep, Lookup2Step, AddStep DEF Handled, At
    <3> QED BY <2>2, <3>1
  <2> QED BY <1>2, <2>3, <2>4, <2>5, <2>6, <2>7 DEF Next
<1> QED BY <1>1, <1>2

(* No entry of inflight_map outlives the last request of its sector,       *)
(* however many requests share it (trace_rq_issue, trace_rq_complete).     *)
THEOREM InflightDrainedCorrect == Spec => []InflightDrained
<1>1. Init => Shape /\ InflightDrained
  BY InitTypes DEF InflightDrained
<1>2. Shape /\ InflightDrained /\ [Next]_vars => (Shape /\ InflightDrained)'
  BY ShapeStep, DrainedStep
<1> QED BY <1>1, <1>2, PTL DEF Spec

-----------------------------------------------------------------------------
(* A completion is in the hands of one CPU at most, and a request is lost  *)
(* after it was issued.                                                    *)
Returned ==
    /\ \A c \in Cpus : ~At(c, "idle") => state[cpu[c].back] = "back"
    /\ \A c, d \in Cpus : ~At(c, "idle") /\ ~At(d, "idle") /\ cpu[c].back = cpu[d].back => c = d
    /\ \A r \in lost : state[r] # "new"

(* Every step preserves this.                                              *)
LEMMA ReturnedStep ==
    ASSUME Shape, Returned, Next
    PROVE  Returned'
<1>0. state \in [Requests -> {"new", "out", "back"}] /\ lost \subseteq Requests
  BY DEF Shape, Types
<1>1. ASSUME NEW c \in Cpus, Others(c), state' = state, ~At(c, "idle"),
             ~At(c, "idle")' => cpu'[c].back = cpu[c].back,
             lost' = lost \/ lost' = lost \cup {cpu[c].back}
      PROVE  Returned'
  BY <1>1 DEF Returned, Others, At
<1>2. ASSUME NEW c \in Cpus, NEW r \in Requests, Issue(c, r)
      PROVE  Returned'
  <2>1. /\ state[r] = "new" /\ state' = [state EXCEPT ![r] = "out"] /\ cpu' = cpu
        /\ lost' = lost \/ lost' = lost \cup {r}
    BY <1>2, IssueStep
  <2>2. \A d \in Cpus : ~At(d, "idle") => cpu[d].back \in Requests
    BY BusyFacts
  <2> QED BY <1>0, <2>1, <2>2 DEF Returned, At
<1>3. ASSUME NEW c \in Cpus, NEW r \in Requests, Complete(c, r)
      PROVE  Returned'
  <2>1. /\ At(c, "idle") /\ state[r] = "out" /\ state' = [state EXCEPT ![r] = "back"]
        /\ Others(c) /\ lost' = lost
        /\ cpu' = cpu \/ cpu'[c].back = r
    BY <1>3, CompleteStep
  <2>2. \A d \in Cpus : ~At(d, "idle") => cpu[d].back \in Requests /\ cpu[d].back # r
    BY <2>1, BusyFacts DEF Returned
  <2> QED BY <1>0, <2>1, <2>2 DEF Returned, At, Others
<1>4. ASSUME NEW c \in Cpus, ReadRequest(c) \/ DeleteRequest(c) \/ LookupStats(c) \/ Update(c)
      PROVE  Returned'
  <2>1. Others(c) /\ state' = state /\ ~At(c, "idle") /\ cpu'[c].back = cpu[c].back /\ lost' = lost
    BY <1>4, ReadStep, DeleteStep, LookupStatsStep, UpdateStep DEF At, SameRequest
  <2> QED BY <1>1, <2>1
<1>5. ASSUME NEW c \in Cpus, Lookup2(c)
      PROVE  Returned'
  <2>1. /\ Others(c) /\ state' = state /\ ~At(c, "idle")
        /\ Present(disk_map, Cgroup(c)) => cpu'[c].back = cpu[c].back /\ lost' = lost
        /\ ~Present(disk_map, Cgroup(c)) => At(c, "idle")' /\ lost' = lost \cup {cpu[c].back}
    BY <1>5, Lookup2Step DEF At, SameRequest, Idle
  <2> QED BY <1>1, <2>1
<1>6. ASSUME NEW c \in Cpus, Add(c)
      PROVE  Returned'
  <2>1. Others(c) /\ state' = state /\ ~At(c, "idle") /\ At(c, "idle")' /\ lost' = lost
    BY <1>6, AddStep DEF At, Idle
  <2> QED BY <1>1, <2>1
<1> QED BY <1>2, <1>3, <1>4, <1>5, <1>6 DEF Next

(* The record of r is there.                                               *)
InMap(r) ==
    /\ Present(inflight_map, SectorOf[r])
    /\ inflight_map.value[inflight_map.slot[SectorOf[r]]] = r

(* While no two requests of one sector were out together: the requests the *)
(* probe needs have sectors of their own;                                  *)
SectorsUnique == \A q, r \in Pending : SectorOf[q] = SectorOf[r] => q = r

(* a request that is out has its record, or the full map had no room for   *)
(* it and there is none;                                                   *)
OutRecorded ==
    \A r \in Requests : state[r] = "out" =>
       /\ r \notin lost => InMap(r)
       /\ r \in lost => ~Present(inflight_map, SectorOf[r])

(* a pointer about to be read points to the record of the request;         *)
ReadRecorded ==
    \A c \in Cpus, r \in Requests : At(c, "read") /\ cpu[c].back = r =>
       InMap(r) /\ cpu[c].req = inflight_map.slot[SectorOf[r]]

(* the request that was read is the one that came back;                    *)
FoundIsBack == \A c \in Cpus : Charging(c) => cpu[c].found = cpu[c].back

(* and it is not a lost one.                                               *)
BackNotLost == \A c \in Cpus : ~At(c, "idle") => cpu[c].back \notin lost

(* The five together.                                                      *)
Recorded ==
    ~shared => SectorsUnique /\ OutRecorded /\ ReadRecorded /\ FoundIsBack /\ BackNotLost

(* A step that leaves the map alone leaves the record there.               *)
LEMMA SameInflight ==
    ASSUME NEW r, UNCHANGED inflight_map
    PROVE  InMap(r)' <=> InMap(r)
BY DEF InMap, Present

(* The CPU is done with inflight_map.                                      *)
Counting(c) == cpu[c].pc \in {"stats", "update", "lookup", "add"}

(* The steps of a CPU that is done with inflight_map.                      *)
LEMMA RecordedCounting ==
    ASSUME Shape, Returned, Recorded, NEW c \in Cpus, Others(c),
           UNCHANGED <<inflight_map, state, shared>>, Counting(c),
           Counting(c)' \/ At(c, "idle")', Counting(c)' => SameRequest(c) /\ lost' = lost,
           At(c, "idle")' => lost' = lost \/ lost' = lost \cup {cpu[c].back}
    PROVE  Recorded'
<1> SUFFICES ASSUME ~shared
             PROVE  (SectorsUnique /\ OutRecorded /\ ReadRecorded /\ FoundIsBack /\ BackNotLost)'
  BY DEF Recorded
<1>1. SectorsUnique /\ OutRecorded /\ ReadRecorded /\ FoundIsBack /\ BackNotLost
  BY DEF Recorded
<1>2. cpu[c].back \in Requests /\ state[cpu[c].back] = "back" /\ Charging(c)
  BY BusyFacts DEF Returned, Counting, Charging, At
<1>3. \A q \in Requests : q \in Pending' => q \in Pending
  BY DEF Pending, Others, Counting, At
<1>4. \A r \in Requests : state[r] = "out" => (r \in lost' <=> r \in lost)
  BY <1>2 DEF Counting, At
<1>5. SectorsUnique'
  BY <1>1, <1>3 DEF SectorsUnique, Pending
<1>6. OutRecorded'
  BY <1>1, <1>4, SameInflight DEF OutRecorded, Present
<1>7. ReadRecorded'
  BY <1>1, SameInflight DEF ReadRecorded, Others, At, Counting
<1>8. FoundIsBack'
  BY <1>1, <1>2 DEF FoundIsBack, Others, At, Counting, Charging, SameRequest
<1>9. BackNotLost'
  <2>1. ASSUME NEW d \in Cpus, d # c, ~At(d, "idle")
        PROVE  cpu[d].back \notin lost'
    BY <1>1, <1>2, <2>1 DEF BackNotLost, Returned, Counting, At
  <2>2. Counting(c)' => cpu'[c].back \notin lost'
    BY <1>1 DEF BackNotLost, SameRequest, Counting, At
  <2> QED BY <2>1, <2>2 DEF BackNotLost, Others, At
<1> QED BY <1>5, <1>6, <1>7, <1>8, <1>9

(* A new record goes into an element nobody's record is in.                *)
LEMMA RecordedIssue ==
    ASSUME Shape, InflightDrained, Returned, Recorded,
           NEW c \in Cpus, NEW r \in Requests, Issue(c, r)
    PROVE  Recorded'
<1> SUFFICES ASSUME ~shared'
             PROVE  (SectorsUnique /\ OutRecorded /\ ReadRecorded /\ FoundIsBack /\ BackNotLost)'
  BY DEF Recorded
<1>0. PICK t : t = SectorOf[r]
  OBVIOUS
<1>1. /\ state[r] = "new" /\ state' = [state EXCEPT ![r] = "out"] /\ t \in Sectors
      /\ ~shared /\ \A q \in Pending : SectorOf[q] # t
      /\ Puts(inflight_map, inflight_map', c, t, r)
      /\ lost' = IF inflight_map' = inflight_map THEN lost \cup {r} ELSE lost
      /\ cpu' = cpu
  BY <1>0, IssueStep
<1>2. SectorsUnique /\ OutRecorded /\ ReadRecorded /\ FoundIsBack /\ BackNotLost
  BY <1>1 DEF Recorded
<1>3. state \in [Requests -> {"new", "out", "back"}]
  BY DEF Shape, Types
<1>4. \A q \in Requests : q \in Pending' <=> q \in Pending \/ q = r
  BY <1>1, <1>3 DEF Pending
<1>5. ~Present(inflight_map, t)
  BY <1>1 DEF InflightDrained, Present, Pending
<1>6. r \notin lost
  BY <1>1 DEF Returned
<1>7. ASSUME NEW q \in Requests, SectorOf[q] # t, InMap(q)
      PROVE  /\ InMap(q)' /\ inflight_map'.slot[SectorOf[q]] = inflight_map.slot[SectorOf[q]]
  <2>1. CASE inflight_map.free = {}
    BY <1>1, <1>5, <1>7, <2>1 DEF Puts, InMap, Present
  <2>2. CASE inflight_map.free # {}
    <3>1. Inserts(inflight_map, inflight_map', t, r) /\ Disjoint(inflight_map)
      BY <1>1, <1>5, <2>2 DEF Puts, Shape, Types
    <3>2. SectorOf[q] \in DOMAIN inflight_map.slot
      BY <1>7 DEF InMap, Present
    <3>3. inflight_map'.slot[t] # inflight_map.slot[SectorOf[q]]
      BY <3>1, <3>2 DEF Inserts, Disjoint
    <3>4. inflight_map'.value[inflight_map.slot[SectorOf[q]]] = inflight_map.value[inflight_map.slot[SectorOf[q]]]
      BY <3>1, <3>2, <3>3, MapFacts DEF Inserts
    <3> QED BY <1>7, <3>1, <3>2, <3>4 DEF Inserts, InMap, Present
  <2> QED BY <2>1, <2>2
<1>8. \A q \in Requests : SectorOf[q] # t => (Present(inflight_map', SectorOf[q]) <=> Present(inflight_map, SectorOf[q]))
  BY <1>1, <1>5 DEF Puts, Inserts, Present
<1>9. /\ inflight_map.free # {} => InMap(r)' /\ lost' = lost
      /\ inflight_map.free = {} => ~Present(inflight_map', t) /\ lost' = lost \cup {r}
  <2>1. CASE inflight_map.free = {}
    BY <1>1, <1>5, <2>1 DEF Puts
  <2>2. CASE inflight_map.free # {}
    <3>1. Inserts(inflight_map, inflight_map', t, r)
      BY <1>1, <1>5, <2>2 DEF Puts
    <3>2. InMap(r)'
      BY <1>0, <3>1, MapFacts DEF Inserts, InMap, Present
    <3>3. inflight_map' # inflight_map
      BY <1>5, <3>1 DEF Inserts, Present
    <3> QED BY <1>1, <2>2, <3>2, <3>3
  <2> QED BY <2>1, <2>2
<1>10. SectorsUnique'
  BY <1>0, <1>1, <1>2, <1>4 DEF SectorsUnique, Pending
<1>11. OutRecorded'
  <2>1. ASSUME NEW q \in Requests, state'[q] = "out"
        PROVE  /\ q \notin lost' => InMap(q)'
               /\ q \in lost' => ~Present(inflight_map', SectorOf[q])
    <3>1. CASE q = r
      BY <1>0, <1>6, <1>9, <3>1
    <3>2. CASE q # r
      <4>1. state[q] = "out" /\ SectorOf[q] # t
        BY <1>1, <1>3, <2>1, <3>2 DEF Pending
      <4>2. q \in lost' <=> q \in lost
        BY <1>1, <3>2
      <4> QED BY <1>2, <1>7, <1>8, <4>1, <4>2 DEF OutRecorded
    <3> QED BY <3>1, <3>2
  <2> QED BY <2>1 DEF OutRecorded
<1>12. ReadRecorded'
  <2>1. ASSUME NEW d \in Cpus, NEW q \in Requests, At(d, "read"), cpu[d].back = q
        PROVE  InMap(q)' /\ cpu[d].req = inflight_map'.slot[SectorOf[q]]
    <3>1. SectorOf[q] # t
      BY <1>1, <2>1 DEF Pending, At
    <3> QED BY <1>2, <1>7, <2>1, <3>1 DEF ReadRecorded
  <2> QED BY <1>1, <2>1 DEF ReadRecorded, At
<1>13. FoundIsBack'
  BY <1>1, <1>2 DEF FoundIsBack, Charging
<1>14. BackNotLost'
  <2>1. ASSUME NEW d \in Cpus, ~At(d, "idle")
        PROVE  cpu[d].back \notin lost'
    <3>1. cpu[d].back # r
      BY <1>1, <2>1 DEF Returned
    <3> QED BY <1>1, <1>2, <2>1, <3>1 DEF BackNotLost
  <2> QED BY <1>1, <2>1 DEF BackNotLost, At
<1> QED BY <1>10, <1>11, <1>12, <1>13, <1>14

(* A completion finds the record of its own request, or none.              *)
LEMMA RecordedComplete ==
    ASSUME Shape, Returned, Recorded, NEW c \in Cpus, NEW r \in Requests, Complete(c, r)
    PROVE  Recorded'
<1> SUFFICES ASSUME ~shared'
             PROVE  (SectorsUnique /\ OutRecorded /\ ReadRecorded /\ FoundIsBack /\ BackNotLost)'
  BY DEF Recorded
<1>0. PICK t : t = SectorOf[r]
  OBVIOUS
<1>1. /\ At(c, "idle") /\ state[r] = "out" /\ state' = [state EXCEPT ![r] = "back"]
      /\ ~shared /\ Others(c)
      /\ Present(inflight_map, t) =>
            cpu'[c].pc = "read" /\ cpu'[c].back = r /\ cpu'[c].req = inflight_map.slot[t]
      /\ ~Present(inflight_map, t) => cpu' = cpu
      /\ inflight_map' = inflight_map /\ lost' = lost
  BY <1>0, CompleteStep
<1>2. SectorsUnique /\ OutRecorded /\ ReadRecorded /\ FoundIsBack /\ BackNotLost
  BY <1>1 DEF Recorded
<1>3. state \in [Requests -> {"new", "out", "back"}]
  BY DEF Shape, Types
<1>4. Present(inflight_map, t) => InMap(r) /\ r \notin lost
  BY <1>0, <1>1, <1>2 DEF OutRecorded
<1>5. At(c, "idle")' \/ (cpu'[c].pc = "read" /\ cpu'[c].back = r /\ Present(inflight_map, t))
  BY <1>1 DEF At
<1>6. \A q \in Requests : q \in Pending' => q \in Pending
  <2>1. \A q \in Requests : state'[q] = "out" => state[q] = "out"
    BY <1>1, <1>3
  <2>2. \A q \in Requests, d \in Cpus :
           cpu'[d].pc \in {"read", "delete"} /\ cpu'[d].back = q => d # c \/ q = r
    BY <1>5 DEF At
  <2> QED BY <1>1, <2>1, <2>2 DEF Pending, Others
<1>7. SectorsUnique'
  BY <1>2, <1>6 DEF SectorsUnique, Pending
<1>8. OutRecorded'
  BY <1>1, <1>2, <1>3, SameInflight DEF OutRecorded, Present
<1>9. ReadRecorded'
  BY <1>0, <1>1, <1>2, <1>4, <1>5, SameInflight DEF ReadRecorded, At, Others
<1>10. FoundIsBack'
  BY <1>1, <1>2, <1>5 DEF FoundIsBack, At, Others, Charging
<1>11. BackNotLost'
  BY <1>1, <1>2, <1>4, <1>5 DEF BackNotLost, At, Others
<1> QED BY <1>7, <1>8, <1>9, <1>10, <1>11

(* It reads the record of its own request.                                 *)
LEMMA RecordedRead ==
    ASSUME Shape, Recorded, NEW c \in Cpus, ReadRequest(c)
    PROVE  Recorded'
<1> SUFFICES ASSUME ~shared'
             PROVE  (SectorsUnique /\ OutRecorded /\ ReadRecorded /\ FoundIsBack /\ BackNotLost)'
  BY DEF Recorded
<1>1. /\ At(c, "read") /\ Others(c) /\ ~shared
      /\ cpu'[c].pc = "delete" /\ cpu'[c].back = cpu[c].back
      /\ cpu'[c].found = inflight_map.value[cpu[c].req]
      /\ UNCHANGED <<inflight_map, state, lost>>
  BY ReadStep
<1>2. SectorsUnique /\ OutRecorded /\ ReadRecorded /\ FoundIsBack /\ BackNotLost
  BY <1>1 DEF Recorded
<1>3. cpu[c].back \in Requests
  BY <1>1, BusyFacts DEF At
<1>4. cpu'[c].found = cpu'[c].back
  BY <1>1, <1>2, <1>3 DEF ReadRecorded, InMap
<1>5. \A q \in Requests : q \in Pending' => q \in Pending
  BY <1>1 DEF Pending, Others, At
<1>6. SectorsUnique'
  BY <1>2, <1>5 DEF SectorsUnique, Pending
<1>7. OutRecorded'
  BY <1>1, <1>2, SameInflight DEF OutRecorded, Present
<1>8. ReadRecorded'
  BY <1>1, <1>2, SameInflight DEF ReadRecorded, At, Others
<1>9. FoundIsBack'
  BY <1>1, <1>2, <1>4 DEF FoundIsBack, Others, Charging
<1>10. BackNotLost'
  BY <1>1, <1>2 DEF BackNotLost, At, Others
<1> QED BY <1>6, <1>7, <1>8, <1>9, <1>10

(* It deletes the record of its own request.                               *)
LEMMA RecordedDelete ==
    ASSUME Shape, Returned, Recorded, NEW c \in Cpus, DeleteRequest(c)
    PROVE  Recorded'
<1> SUFFICES ASSUME ~shared'
             PROVE  (SectorsUnique /\ OutRecorded /\ ReadRecorded /\ FoundIsBack /\ BackNotLost)'
  BY DEF Recorded
<1>0. PICK b : b = cpu[c].back
  OBVIOUS
<1>1. /\ At(c, "delete") /\ Others(c) /\ ~shared
      /\ cpu'[c].pc = "stats" /\ SameRequest(c)
      /\ DOMAIN inflight_map'.slot = DOMAIN inflight_map.slot \ {SectorOf[b]}
      /\ \A t \in DOMAIN inflight_map'.slot : inflight_map'.slot[t] = inflight_map.slot[t]
      /\ inflight_map'.value = inflight_map.value
      /\ UNCHANGED <<state, lost>>
  BY <1>0, DeleteStep
<1>2. SectorsUnique /\ OutRecorded /\ ReadRecorded /\ FoundIsBack /\ BackNotLost
  BY <1>1 DEF Recorded
<1>3. b \in Requests /\ state[b] = "back"
  BY <1>0, <1>1, BusyFacts DEF At, Returned
<1>4. b \in Pending
  BY <1>0, <1>1, <1>3 DEF Pending, At
<1>5. ASSUME NEW q \in Requests, q \in Pending, q # b
      PROVE  /\ InMap(q) => InMap(q)' /\ inflight_map'.slot[SectorOf[q]] = inflight_map.slot[SectorOf[q]]
             /\ ~Present(inflight_map, SectorOf[q]) => ~Present(inflight_map', SectorOf[q])
  <2>1. SectorOf[q] # SectorOf[b]
    BY <1>2, <1>4, <1>5 DEF SectorsUnique
  <2> QED BY <1>1, <2>1 DEF InMap, Present
<1>6. \A q \in Requests : q \in Pending' => q \in Pending
  BY <1>1 DEF Pending, Others, At
<1>7. SectorsUnique'
  BY <1>2, <1>6 DEF SectorsUnique, Pending
<1>8. OutRecorded'
  <2>1. \A q \in Requests : state[q] = "out" => q \in Pending /\ q # b
    BY <1>3 DEF Pending
  <2> QED BY <1>1, <1>2, <1>5, <2>1 DEF OutRecorded
<1>9. ReadRecorded'
  <2>1. ASSUME NEW d \in Cpus, NEW q \in Requests, At(d, "read"), cpu[d].back = q
        PROVE  InMap(q)' /\ cpu[d].req = inflight_map'.slot[SectorOf[q]]
    <3>1. q \in Pending
      BY <2>1 DEF Pending, At
    <3>2. q # b
      BY <1>0, <1>1, <2>1 DEF Returned, At
    <3> QED BY <1>2, <1>5, <2>1, <3>1, <3>2 DEF ReadRecorded
  <2> QED BY <1>1, <2>1 DEF ReadRecorded, At, Others
<1>10. FoundIsBack'
  BY <1>1, <1>2 DEF FoundIsBack, Others, Charging, SameRequest, At
<1>11. BackNotLost'
  BY <1>1, <1>2 DEF BackNotLost, At, Others, SameRequest
<1> QED BY <1>7, <1>8, <1>9, <1>10, <1>11

(* Every step preserves the records.                                       *)
LEMMA RecordedStep ==
    ASSUME Shape, InflightDrained, Returned, Recorded, Next
    PROVE  Recorded'
<1>1. ASSUME NEW c \in Cpus, LookupStats(c) \/ Update(c)
      PROVE  Recorded'
  <2>1. /\ Others(c) /\ UNCHANGED <<inflight_map, state, shared>>
        /\ Counting(c) /\ Counting(c)' /\ SameRequest(c) /\ lost' = lost
    BY <1>1, LookupStatsStep, UpdateStep DEF At, Counting
  <2> QED BY <2>1, RecordedCounting DEF At, Counting
<1>2. ASSUME NEW c \in Cpus, Lookup2(c) \/ Add(c)
      PROVE  Recorded'
  <2>1. /\ Others(c) /\ UNCHANGED <<inflight_map, state, shared>> /\ Counting(c)
        /\ Counting(c)' \/ At(c, "idle")'
        /\ Counting(c)' => SameRequest(c) /\ lost' = lost
        /\ At(c, "idle")' => lost' = lost \/ lost' = lost \cup {cpu[c].back}
    <3>1. CASE Lookup2(c)
      BY <3>1, Lookup2Step DEF At, Counting, Idle
    <3>2. CASE Add(c)
      BY <3>2, AddStep DEF At, Counting, Idle
    <3> QED BY <1>2, <3>1, <3>2
  <2> QED BY <2>1, RecordedCounting
<1> QED BY <1>1, <1>2, RecordedIssue, RecordedComplete, RecordedRead, RecordedDelete DEF Next

-----------------------------------------------------------------------------
(* The cases IssuersCharged speaks of: one cgroup's entry at most was      *)
(* replaced.                                                               *)
Once == \A g, h \in replaced : g = h

(* The CPUs about to insert an entry for g.                                *)
Inserting(g) == {c \in Cpus : At(c, "update") /\ Cgroup(c) = g}

(* A CPU whose extra element is another than at the start has replaced the *)
(* entry of a cgroup, and will not insert for that cgroup again.           *)
UsedInvariant ==
    /\ \A g \in replaced : Present(disk_map, g)
    /\ \A c \in Cpus : disk_map.extra[c] # ExtraOf[c] => \E g \in replaced : c \notin Inserting(g)

(* Nobody adds to an element that no cgroup has had yet, or that is        *)
(* another cgroup's now.                                                   *)
HeldInvariant ==
    Once => \A c \in Cpus : At(c, "add") =>
       /\ cpu[c].stats \notin disk_map.free
       /\ \A d \in Cpus : disk_map.extra[d] = ExtraOf[d] => cpu[c].stats # ExtraOf[d]
       /\ \A g \in DOMAIN disk_map.slot : cpu[c].stats = disk_map.slot[g] => Cgroup(c) = g

(* What holds of the replacements after a step held before it.             *)
LEMMA OnceEarlier ==
    ASSUME Shape, Next
    PROVE  /\ replaced \subseteq replaced'
           /\ Once' => Once
           /\ \A g : Present(disk_map, g) => Present(disk_map', g)
<1>1. ASSUME NEW c \in Cpus, Update(c)
      PROVE  replaced \subseteq replaced' /\ \A g : Present(disk_map, g) => Present(disk_map', g)
  <2>0. PICK g : g = Cgroup(c)
    OBVIOUS
  <2>1. /\ replaced' = IF Present(disk_map, g) THEN replaced \cup {g} ELSE replaced
        /\ Puts(disk_map, disk_map', c, g, NoStats)
    BY <1>1, <2>0, UpdateStep
  <2> QED BY <2>1 DEF Puts, Replaces, Inserts, Present
<1>2. ASSUME ~ \E c \in Cpus : Update(c)
      PROVE  replaced' = replaced /\ disk_map'.slot = disk_map.slot
  BY <1>2, IssueStep, CompleteStep, ReadStep, DeleteStep, LookupStatsStep, Lookup2Step, AddStep DEF Next
<1>3. replaced \subseteq replaced' /\ \A g : Present(disk_map, g) => Present(disk_map', g)
  BY <1>1, <1>2 DEF Present
<1> QED BY <1>3 DEF Once

(* With one cgroup replaced at most, a CPU's extra element is used once.   *)
LEMMA FirstUse ==
    ASSUME Shape, UsedInvariant, NEW c \in Cpus, Update(c), Present(disk_map, Cgroup(c)), Once'
    PROVE  disk_map.extra[c] = ExtraOf[c]
<1>0. PICK g : g = Cgroup(c)
  OBVIOUS
<1>1. At(c, "update") /\ replaced' = replaced \cup {g}
  BY <1>0, UpdateStep
<1>2. c \in Inserting(g)
  BY <1>0, <1>1 DEF Inserting
<1>3. \A h \in replaced : h = g
  BY <1>1 DEF Once
<1> QED BY <1>2, <1>3 DEF UsedInvariant

(* Every step preserves the first part.                                    *)
LEMMA UsedStep ==
    ASSUME Shape, UsedInvariant, Next
    PROVE  UsedInvariant'
<1>0. \A g \in replaced : Present(disk_map', g)
  BY OnceEarlier DEF UsedInvariant
<1>1. ASSUME NEW c \in Cpus, disk_map'.extra = disk_map.extra, Others(c), replaced' = replaced,
             At(c, "update")' => ~Present(disk_map, Cgroup(c)')
      PROVE  UsedInvariant'
  <2>1. ASSUME NEW d \in Cpus, disk_map'.extra[d] # ExtraOf[d]
        PROVE  \E g \in replaced' : d \notin Inserting(g)'
    <3>1. PICK g \in replaced : d \notin Inserting(g)
      BY <1>1, <2>1 DEF UsedInvariant
    <3>2. d \notin Inserting(g)'
      <4>1. CASE d = c
        <5>1. Present(disk_map, g)
          BY <3>1 DEF UsedInvariant
        <5> QED BY <1>1, <4>1, <5>1 DEF Inserting
      <4>2. CASE d # c
        BY <1>1, <3>1, <4>2 DEF Inserting, Others, At, Cgroup
      <4> QED BY <4>1, <4>2
    <3> QED BY <1>1, <3>1, <3>2
  <2> QED BY <1>0, <1>1, <2>1 DEF UsedInvariant
<1>2. ASSUME NEW c \in Cpus, NEW r \in Requests, Issue(c, r) \/ Complete(c, r)
      PROVE  UsedInvariant'
  <2>1. /\ (cpu' = cpu \/ (Others(c) /\ ~At(c, "update")'))
        /\ disk_map' = disk_map /\ replaced' = replaced
    BY <1>2, IssueStep, CompleteStep DEF At, Others
  <2>2. CASE cpu' = cpu
    BY <2>1, <2>2 DEF UsedInvariant, Inserting, At, Cgroup
  <2>3. CASE Others(c) /\ ~At(c, "update")'
    BY <1>1, <2>1, <2>3
  <2> QED BY <2>1, <2>2, <2>3
<1>3. ASSUME NEW c \in Cpus, ReadRequest(c) \/ DeleteRequest(c) \/ LookupStats(c)
      PROVE  UsedInvariant'
  <2>1. /\ Others(c) /\ disk_map' = disk_map /\ replaced' = replaced
        /\ At(c, "update")' => ~Present(disk_map, Cgroup(c)')
    BY <1>3, ReadStep, DeleteStep, LookupStatsStep DEF At, SameRequest, Cgroup
  <2> QED BY <1>1, <2>1
<1>4. ASSUME NEW c \in Cpus, Update(c)
      PROVE  UsedInvariant'
  <2>0. PICK g : g = Cgroup(c)
    OBVIOUS
  <2>1. /\ At(c, "update") /\ Others(c) /\ cpu'[c].pc = "lookup"
        /\ replaced' = IF Present(disk_map, g) THEN replaced \cup {g} ELSE replaced
        /\ Puts(disk_map, disk_map', c, g, NoStats)
    BY <1>4, <2>0, UpdateStep
  <2>2. CASE Present(disk_map, g)
    <3>0. Replaces(disk_map, disk_map', c, g, NoStats)
      BY <2>1, <2>2 DEF Puts
    <3>1. ASSUME NEW d \in Cpus, disk_map'.extra[d] # ExtraOf[d]
          PROVE  \E h \in replaced' : d \notin Inserting(h)'
      <4>1. CASE d = c
        <5>1. g \in replaced' /\ c \notin Inserting(g)'
          BY <2>1, <2>2 DEF Inserting, At
        <5> QED BY <4>1, <5>1
      <4>2. CASE d # c
        <5>1. disk_map'.extra[d] = disk_map.extra[d]
          BY <3>0, <4>2, MapFacts DEF Replaces
        <5>2. PICK h \in replaced : d \notin Inserting(h)
          BY <3>1, <5>1 DEF UsedInvariant
        <5>3. h \in replaced' /\ d \notin Inserting(h)'
          BY <2>1, <4>2, <5>2 DEF Inserting, Others, At, Cgroup
        <5> QED BY <5>3
      <4> QED BY <4>1, <4>2
    <3>2. \A h \in replaced' : Present(disk_map', h)
      BY <1>0, <2>1, <2>2, OnceEarlier
    <3> QED BY <3>1, <3>2 DEF UsedInvariant
  <2>3. CASE ~Present(disk_map, g)
    <3>1. disk_map'.extra = disk_map.extra /\ replaced' = replaced /\ ~At(c, "update")'
      BY <2>1, <2>3 DEF Puts, Inserts, At
    <3> QED BY <1>1, <2>1, <3>1
  <2> QED BY <2>2, <2>3
<1>5. ASSUME NEW c \in Cpus, Lookup2(c) \/ Add(c)
      PROVE  UsedInvariant'
  <2>1. Others(c) /\ disk_map'.extra = disk_map.extra /\ replaced' = replaced /\ ~At(c, "update")'
    BY <1>5, Lookup2Step, AddStep DEF At, Idle
  <2> QED BY <1>1, <2>1
<1> QED BY <1>2, <1>3, <1>4, <1>5 DEF Next

(* Every step preserves the second part.                                   *)
LEMMA HeldStep ==
    ASSUME Shape, UsedInvariant, HeldInvariant, Next
    PROVE  HeldInvariant'
<1> DEFINE Held(c) == /\ cpu[c].stats \notin disk_map.free
                      /\ \A d \in Cpus : disk_map.extra[d] = ExtraOf[d] => cpu[c].stats # ExtraOf[d]
                      /\ \A g \in DOMAIN disk_map.slot : cpu[c].stats = disk_map.slot[g] => Cgroup(c) = g
<1>0. SUFFICES ASSUME Once' PROVE \A c \in Cpus : At(c, "add")' => Held(c)'
  BY DEF HeldInvariant
<1>1. \A c \in Cpus : At(c, "add") => Held(c)
  BY <1>0, OnceEarlier DEF HeldInvariant
<1>2. \A g \in DOMAIN disk_map.slot :
         /\ disk_map.slot[g] \notin disk_map.free
         /\ \A d \in Cpus : disk_map.extra[d] = ExtraOf[d] => disk_map.slot[g] # ExtraOf[d]
         /\ \A h \in DOMAIN disk_map.slot : disk_map.slot[g] = disk_map.slot[h] => g = h
  BY MapFacts DEF Shape, Types, Disjoint
<1>3. ASSUME NEW c \in Cpus, Others(c),
             disk_map'.slot = disk_map.slot, disk_map'.free = disk_map.free,
             disk_map'.extra = disk_map.extra,
             At(c, "add")' => \E g \in DOMAIN disk_map.slot :
                                  cpu'[c].stats = disk_map.slot[g] /\ Cgroup(c)' = g
      PROVE  \A b \in Cpus : At(b, "add")' => Held(b)'
  <2>1. At(c, "add")' => Held(c)'
    BY <1>2, <1>3
  <2>2. ASSUME NEW b \in Cpus, b # c, At(b, "add")'
        PROVE  Held(b)'
    <3>1. cpu'[b] = cpu[b] /\ At(b, "add") /\ Cgroup(b)' = Cgroup(b)
      BY <1>3, <2>2 DEF Others, At, Cgroup
    <3> QED BY <1>1, <1>3, <3>1
  <2> QED BY <2>1, <2>2
<1>4. ASSUME NEW c \in Cpus, NEW r \in Requests, Issue(c, r) \/ Complete(c, r)
      PROVE  \A b \in Cpus : At(b, "add")' => Held(b)'
  <2>1. (cpu' = cpu \/ (Others(c) /\ ~At(c, "add")')) /\ disk_map' = disk_map
    BY <1>4, IssueStep, CompleteStep DEF At
  <2>2. CASE cpu' = cpu
    BY <1>1, <2>1, <2>2 DEF At, Cgroup
  <2>3. CASE Others(c) /\ ~At(c, "add")'
    BY <1>3, <2>1, <2>3
  <2> QED BY <2>1, <2>2, <2>3
<1>5. ASSUME NEW c \in Cpus, ReadRequest(c) \/ DeleteRequest(c) \/ LookupStats(c) \/ Lookup2(c)
      PROVE  \A b \in Cpus : At(b, "add")' => Held(b)'
  <2>1. /\ Others(c) /\ disk_map' = disk_map
        /\ At(c, "add")' => /\ Cgroup(c) \in DOMAIN disk_map.slot /\ Cgroup(c)' = Cgroup(c)
                            /\ cpu'[c].stats = disk_map.slot[Cgroup(c)]
    BY <1>5, ReadStep, DeleteStep, LookupStatsStep, Lookup2Step
    DEF At, SameRequest, Cgroup, Present, Idle
  <2> QED BY <1>3, <2>1
<1>6. ASSUME NEW c \in Cpus, Update(c)
      PROVE  \A b \in Cpus : At(b, "add")' => Held(b)'
  <2>0. PICK g : g = Cgroup(c)
    OBVIOUS
  <2>1. /\ Others(c) /\ cpu'[c].pc = "lookup"
        /\ Puts(disk_map, disk_map', c, g, NoStats)
    BY <1>6, <2>0, UpdateStep
  <2>2. ASSUME NEW b \in Cpus, At(b, "add")'
        PROVE  b # c /\ cpu'[b] = cpu[b] /\ Held(b) /\ Cgroup(b)' = Cgroup(b)
    <3>1. b # c /\ cpu'[b] = cpu[b] /\ At(b, "add") /\ Cgroup(b)' = Cgroup(b)
      BY <2>1, <2>2 DEF At, Others, Cgroup
    <3> QED BY <1>1, <3>1
  <2>3. CASE Present(disk_map, g)
    <3>1. disk_map.extra[c] = ExtraOf[c]
      BY <1>0, <1>6, <2>0, <2>3, FirstUse
    <3>2. /\ disk_map'.free = disk_map.free
          /\ disk_map'.slot = [disk_map.slot EXCEPT ![g] = ExtraOf[c]]
          /\ DOMAIN disk_map'.slot = DOMAIN disk_map.slot
      BY <2>1, <2>3, <3>1 DEF Puts, Replaces
    <3>3. \A d \in Cpus : disk_map'.extra[d] = ExtraOf[d] => disk_map.extra[d] = ExtraOf[d]
      BY <2>1, <2>3, <3>1, MapFacts DEF Puts, Replaces
    <3>4. ASSUME NEW b \in Cpus, At(b, "add")'
          PROVE  Held(b)'
      <4>1. cpu'[b] = cpu[b] /\ Held(b) /\ Cgroup(b)' = Cgroup(b)
        BY <2>2, <3>4
      <4>2. cpu[b].stats # ExtraOf[c]
        BY <3>1, <4>1
      <4>3. ASSUME NEW h \in DOMAIN disk_map'.slot, cpu[b].stats = disk_map'.slot[h]
            PROVE  Cgroup(b) = h
        BY <3>2, <4>1, <4>2, <4>3
      <4> QED BY <3>2, <3>3, <4>1, <4>3
    <3> QED BY <3>4
  <2>4. CASE ~Present(disk_map, g) /\ disk_map.free # {}
    <3>1. Inserts(disk_map, disk_map', g, NoStats)
      BY <2>1, <2>4 DEF Puts
    <3>4. ASSUME NEW b \in Cpus, At(b, "add")'
          PROVE  Held(b)'
      <4>1. cpu'[b] = cpu[b] /\ Held(b) /\ Cgroup(b)' = Cgroup(b)
        BY <2>2, <3>4
      <4>2. cpu[b].stats # disk_map'.slot[g]
        BY <3>1, <4>1 DEF Inserts
      <4>3. ASSUME NEW h \in DOMAIN disk_map'.slot, cpu[b].stats = disk_map'.slot[h]
            PROVE  Cgroup(b) = h
        BY <3>1, <4>1, <4>2, <4>3 DEF Inserts
      <4> QED BY <3>1, <4>1, <4>3 DEF Inserts
    <3> QED BY <3>4
  <2>5. CASE ~Present(disk_map, g) /\ disk_map.free = {}
    <3>1. disk_map' = disk_map
      BY <2>1, <2>5 DEF Puts
    <3> QED BY <2>2, <3>1
  <2> QED BY <2>3, <2>4, <2>5
<1>7. ASSUME NEW c \in Cpus, Add(c)
      PROVE  \A b \in Cpus : At(b, "add")' => Held(b)'
  <2>1. /\ Others(c) /\ disk_map'.slot = disk_map.slot /\ disk_map'.free = disk_map.free
        /\ disk_map'.extra = disk_map.extra /\ ~At(c, "add")'
    BY <1>7, AddStep DEF At, Idle
  <2> QED BY <1>3, <2>1
<1> QED BY <1>4, <1>5, <1>6, <1>7 DEF Next

-----------------------------------------------------------------------------
(* The requests of g that came back and were added, or should have been:   *)
(* neither lost nor in the hands of a CPU; how many read, how many write.  *)
Charged(g) == {r \in Back(g) : r \notin lost /\ \A c \in Cpus : At(c, "idle") \/ cpu[c].back # r}
Reads(g) == Cardinality(Charged(g) \ Writes)
Written(g) == Cardinality(Charged(g) \cap Writes)

(* No entry counts more than these;                                        *)
ChargedInvariant ==
    ~shared /\ Once => \A g \in Cgroups : Stats(g).read <= Reads(g) /\ Stats(g).write <= Written(g)

(* and exactly these, as long as no entry was replaced: then every pointer *)
(* still points to the cgroup's entry.                                     *)
ExactInvariant ==
    replaced = {} =>
       /\ \A c \in Cpus : At(c, "add") =>
             Present(disk_map, Cgroup(c)) /\ cpu[c].stats = disk_map.slot[Cgroup(c)]
       /\ ~shared => \A g \in Cgroups : Stats(g).read = Reads(g) /\ Stats(g).write = Written(g)

(* What holds of the requests, whatever the cgroups' entries.              *)
RequestInvariant == Shape /\ InflightDrained /\ Returned /\ Recorded

(* How many requests a set of them has.                                    *)
LEMMA RequestSets ==
    ASSUME NEW S \in SUBSET Requests
    PROVE  /\ IsFiniteSet(S) /\ Cardinality(S) \in Nat
           /\ \A T \in SUBSET S : Cardinality(T) <= Cardinality(S)
           /\ \A r \in Requests \ S : Cardinality(S \cup {r}) = Cardinality(S) + 1
<1>1. IsFiniteSet(S) /\ Cardinality(S) \in Nat
  BY FiniteAssumption, FS_Subset, FS_CardinalityType
<1>2. \A T \in SUBSET S : Cardinality(T) <= Cardinality(S)
  BY <1>1, FS_Subset
<1>3. \A r \in Requests \ S : Cardinality(S \cup {r}) = Cardinality(S) + 1
  BY <1>1, FS_AddElement
<1> QED BY <1>1, <1>2, <1>3

(* These counts are natural numbers.                                       *)
LEMMA ChargedTypes ==
    ASSUME Shape, NEW g \in Cgroups
    PROVE  /\ Charged(g) \in SUBSET Requests
           /\ Stats(g) \in disk_stats /\ Stats(g).read \in Nat /\ Stats(g).write \in Nat
           /\ Reads(g) \in Nat /\ Written(g) \in Nat
<1>1. Charged(g) \in SUBSET Requests
  BY DEF Charged, Back
<1>2. Reads(g) \in Nat /\ Written(g) \in Nat
  <2>1. Charged(g) \ Writes \in SUBSET Requests /\ Charged(g) \cap Writes \in SUBSET Requests
    BY <1>1
  <2> QED BY <2>1, RequestSets DEF Reads, Written
<1>3. Stats(g) \in disk_stats
  BY MapFacts DEF Stats, Present, NoStats, disk_stats
<1> QED BY <1>1, <1>2, <1>3 DEF disk_stats

(* No step but an addition changes which requests are charged: a           *)
(* completion that finds no entry is one that was lost.                    *)
LEMMA ChargedSame ==
    ASSUME RequestInvariant, ~shared', Next, ~ \E c \in Cpus : Add(c), NEW g
    PROVE  Charged(g)' = Charged(g)
<1> USE DEF RequestInvariant
<1>0. state \in [Requests -> {"new", "out", "back"}]
  BY DEF Shape, Types
<1>1. ASSUME NEW c \in Cpus, NEW r \in Requests, Issue(c, r)
      PROVE  Charged(g)' = Charged(g)
  <2>1. /\ state[r] = "new" /\ state' = [state EXCEPT ![r] = "out"] /\ cpu' = cpu
        /\ lost' = lost \/ lost' = lost \cup {r}
    BY <1>1, IssueStep
  <2>2. \A q \in Requests : state'[q] = "back" <=> state[q] = "back"
    BY <1>0, <2>1
  <2>3. \A q \in Requests : state[q] = "back" => (q \in lost' <=> q \in lost)
    BY <2>1
  <2> QED BY <2>1, <2>2, <2>3 DEF Charged, Back, At
<1>2. ASSUME NEW c \in Cpus, NEW r \in Requests, Complete(c, r)
      PROVE  Charged(g)' = Charged(g)
  <2>0. PICK t : t = SectorOf[r]
    OBVIOUS
  <2>1. /\ At(c, "idle") /\ state[r] = "out" /\ state' = [state EXCEPT ![r] = "back"]
        /\ Others(c) /\ ~shared /\ lost' = lost
        /\ Present(inflight_map, t) => cpu'[c].pc = "read" /\ cpu'[c].back = r
        /\ ~Present(inflight_map, t) => cpu' = cpu
    BY <1>2, <2>0, CompleteStep
  <2>2. ~Present(inflight_map, t) => r \in lost
    BY <2>0, <2>1 DEF Recorded, OutRecorded, InMap
  <2>3. r \notin Charged(g) /\ r \notin Charged(g)'
    <3>1. r \notin Charged(g)
      BY <2>1 DEF Charged, Back
    <3>2. r \notin Charged(g)'
      BY <2>1, <2>2 DEF Charged, At
    <3> QED BY <3>1, <3>2
  <2>4. ASSUME NEW q \in Requests, q # r
        PROVE  q \in Charged(g)' <=> q \in Charged(g)
    <3>1. state'[q] = state[q]
      BY <1>0, <2>1, <2>4
    <3>2. \A d \in Cpus : (At(d, "idle")' \/ cpu'[d].back # q) <=> (At(d, "idle") \/ cpu[d].back # q)
      BY <2>1, <2>4 DEF At, Others
    <3> QED BY <2>1, <3>1, <3>2 DEF Charged, Back
  <2>5. \A q \in Charged(g) \cup Charged(g)' : q \in Requests
    BY DEF Charged, Back
  <2> QED BY <2>3, <2>4, <2>5
<1>3. ASSUME NEW c \in Cpus, ReadRequest(c) \/ DeleteRequest(c) \/ LookupStats(c) \/ Update(c)
      PROVE  Charged(g)' = Charged(g)
  <2>1. /\ ~At(c, "idle") /\ ~At(c, "idle")' /\ cpu'[c].back = cpu[c].back
        /\ Others(c) /\ UNCHANGED <<state, lost>>
    BY <1>3, ReadStep, DeleteStep, LookupStatsStep, UpdateStep DEF At, SameRequest
  <2>2. \A d \in Cpus, q \in Requests :
           (At(d, "idle")' \/ cpu'[d].back # q) <=> (At(d, "idle") \/ cpu[d].back # q)
    BY <2>1 DEF At, Others
  <2> QED BY <2>1, <2>2 DEF Charged, Back
<1>4. ASSUME NEW c \in Cpus, Lookup2(c)
      PROVE  Charged(g)' = Charged(g)
  <2>0. PICK b : b = cpu[c].back
    OBVIOUS
  <2>1. /\ ~At(c, "idle") /\ Others(c) /\ state' = state
        /\ \/ ~At(c, "idle")' /\ cpu'[c].back = b /\ lost' = lost
           \/ At(c, "idle")' /\ lost' = lost \cup {b}
    BY <1>4, <2>0, Lookup2Step DEF At, SameRequest, Idle
  <2>2. ASSUME NEW q \in Requests
        PROVE  (q \notin lost' /\ \A d \in Cpus : At(d, "idle")' \/ cpu'[d].back # q)
               <=> (q \notin lost /\ \A d \in Cpus : At(d, "idle") \/ cpu[d].back # q)
    BY <2>0, <2>1 DEF At, Others
  <2> QED BY <2>1, <2>2 DEF Charged, Back
<1> QED BY <1>1, <1>2, <1>3, <1>4 DEF Next

(* An addition makes one more request charged, to its own cgroup.          *)
LEMMA ChargedAdd ==
    ASSUME RequestInvariant, ~shared, NEW c \in Cpus, Add(c), NEW g
    PROVE  LET b == cpu[c].found
           IN  /\ b \in Requests /\ b \notin Charged(g)
               /\ Charged(g)' = IF Cgroup(c) = g THEN Charged(g) \cup {b} ELSE Charged(g)
<1> USE DEF RequestInvariant
<1>0. PICK b : b = cpu[c].found
  OBVIOUS
<1>1. At(c, "add") /\ ~At(c, "idle") /\ At(c, "idle")' /\ Others(c) /\ UNCHANGED <<state, lost>>
  BY <1>0, AddStep DEF At, Idle
<1>2. b = cpu[c].back /\ b \notin lost
  BY <1>0, <1>1 DEF Recorded, FoundIsBack, BackNotLost, Charging, At
<1>3. b \in Requests /\ state[b] = "back"
  BY <1>1, <1>2, BusyFacts DEF Returned
<1>4. b \notin Charged(g)
  BY <1>1, <1>2 DEF Charged
<1>5. b \in Charged(g)' <=> Cgroup(c) = g
  <2>1. \A d \in Cpus : At(d, "idle")' \/ cpu'[d].back # b
    BY <1>1, <1>2 DEF Returned, At, Others
  <2> QED BY <1>0, <1>1, <1>2, <1>3, <2>1 DEF Charged, Back, Cgroup
<1>6. ASSUME NEW q \in Requests, q # b
      PROVE  q \in Charged(g)' <=> q \in Charged(g)
  <2>1. \A d \in Cpus : (At(d, "idle")' \/ cpu'[d].back # q) <=> (At(d, "idle") \/ cpu[d].back # q)
    BY <1>1, <1>2, <1>6 DEF At, Others
  <2> QED BY <1>1, <2>1 DEF Charged, Back
<1>7. \A q \in Charged(g) \cup Charged(g)' : q \in Requests
  BY DEF Charged, Back
<1> QED BY <1>0, <1>3, <1>4, <1>5, <1>6, <1>7

(* So it makes one more read or write of that cgroup.                      *)
LEMMA CountsAdd ==
    ASSUME RequestInvariant, ~shared, NEW c \in Cpus, Add(c), NEW g \in Cgroups
    PROVE  /\ Cgroup(c) # g => Reads(g)' = Reads(g) /\ Written(g)' = Written(g)
           /\ Cgroup(c) = g /\ cpu[c].found \in Writes =>
                 Reads(g)' = Reads(g) /\ Written(g)' = Written(g) + 1
           /\ Cgroup(c) = g /\ cpu[c].found \notin Writes =>
                 Reads(g)' = Reads(g) + 1 /\ Written(g)' = Written(g)
<1>0. PICK b : b = cpu[c].found
  OBVIOUS
<1>1. /\ b \in Requests /\ b \notin Charged(g)
      /\ Charged(g)' = IF Cgroup(c) = g THEN Charged(g) \cup {b} ELSE Charged(g)
  BY <1>0, ChargedAdd
<1>2. Charged(g) \in SUBSET Requests /\ Charged(g) \ Writes \in SUBSET Requests
      /\ Charged(g) \cap Writes \in SUBSET Requests
  BY DEF Charged, Back
<1>3. CASE Cgroup(c) # g
  BY <1>1, <1>3 DEF Reads, Written
<1>4. CASE Cgroup(c) = g /\ b \in Writes
  <2>1. Charged(g)' \ Writes = Charged(g) \ Writes
    BY <1>1, <1>4
  <2>2. Charged(g)' \cap Writes = (Charged(g) \cap Writes) \cup {b}
    BY <1>1, <1>4
  <2>3. Cardinality((Charged(g) \cap Writes) \cup {b}) = Cardinality(Charged(g) \cap Writes) + 1
    BY <1>1, <1>2, RequestSets
  <2>4. Reads(g)' = Reads(g) /\ Written(g)' = Written(g) + 1
    BY <2>1, <2>2, <2>3 DEF Reads, Written
  <2> QED BY <1>0, <1>4, <2>4
<1>5. CASE Cgroup(c) = g /\ b \notin Writes
  <2>1. Charged(g)' \cap Writes = Charged(g) \cap Writes
    BY <1>1, <1>5
  <2>2. Charged(g)' \ Writes = (Charged(g) \ Writes) \cup {b}
    BY <1>1, <1>5
  <2>3. Cardinality((Charged(g) \ Writes) \cup {b}) = Cardinality(Charged(g) \ Writes) + 1
    BY <1>1, <1>2, RequestSets
  <2>4. Reads(g)' = Reads(g) + 1 /\ Written(g)' = Written(g)
    BY <2>1, <2>2, <2>3 DEF Reads, Written
  <2> QED BY <1>0, <1>5, <2>4
<1> QED BY <1>0, <1>3, <1>4, <1>5

(* The insertion makes the cgroup's counts zero and leaves the others'.    *)
LEMMA StatsUpdate ==
    ASSUME Shape, NEW c \in Cpus, Update(c), NEW g \in Cgroups
    PROVE  Stats(g)' = IF Cgroup(c) = g THEN NoStats ELSE Stats(g)
<1>0. PICK t : t = Cgroup(c)
  OBVIOUS
<1>1. /\ t \in Cgroups /\ Puts(disk_map, disk_map', c, t, NoStats) /\ Disjoint(disk_map)
  BY <1>0, UpdateStep DEF Shape, Types
<1>2. Present(disk_map, g) =>
         /\ disk_map.slot[g] \in DiskElems /\ disk_map.slot[g] # disk_map.extra[c]
         /\ disk_map.slot[g] \notin disk_map.free
  BY <1>1, MapFacts DEF Disjoint, Present
<1>3. CASE Present(disk_map, t)
  <2>1. Replaces(disk_map, disk_map', c, t, NoStats)
    BY <1>1, <1>3 DEF Puts
  <2>2. CASE g = t
    <3>1. Present(disk_map', g) /\ disk_map'.slot[g] = disk_map.extra[c]
      BY <1>3, <2>1, <2>2 DEF Replaces, Present
    <3>2. disk_map'.value[disk_map.extra[c]] = NoStats
      BY <2>1, MapFacts DEF Replaces
    <3> QED BY <1>0, <2>2, <3>1, <3>2 DEF Stats
  <2>3. CASE g # t
    <3>1. Present(disk_map', g) <=> Present(disk_map, g)
      BY <2>1 DEF Replaces, Present
    <3>2. Present(disk_map, g) => disk_map'.slot[g] = disk_map.slot[g]
      BY <2>1, <2>3 DEF Replaces, Present
    <3>3. Present(disk_map, g) => disk_map'.value[disk_map.slot[g]] = disk_map.value[disk_map.slot[g]]
      BY <1>2, <2>1, MapFacts DEF Replaces
    <3> QED BY <1>0, <2>3, <3>1, <3>2, <3>3 DEF Stats
  <2> QED BY <2>2, <2>3
<1>4. CASE ~Present(disk_map, t) /\ disk_map.free # {}
  <2>1. Inserts(disk_map, disk_map', t, NoStats)
    BY <1>1, <1>4 DEF Puts
  <2>2. CASE g = t
    <3>1. Present(disk_map', g) /\ disk_map'.value[disk_map'.slot[g]] = NoStats
      BY <2>1, <2>2, MapFacts DEF Inserts, Present
    <3> QED BY <1>0, <2>2, <3>1 DEF Stats
  <2>3. CASE g # t
    <3>1. Present(disk_map', g) <=> Present(disk_map, g)
      BY <2>1, <2>3 DEF Inserts, Present
    <3>2. Present(disk_map, g) => disk_map'.slot[g] = disk_map.slot[g]
      BY <2>1 DEF Inserts, Present
    <3>3. Present(disk_map, g) => disk_map'.value[disk_map.slot[g]] = disk_map.value[disk_map.slot[g]]
      BY <1>2, <2>1, MapFacts DEF Inserts
    <3> QED BY <1>0, <2>3, <3>1, <3>2, <3>3 DEF Stats
  <2> QED BY <2>2, <2>3
<1>5. CASE ~Present(disk_map, t) /\ disk_map.free = {}
  <2>1. disk_map' = disk_map
    BY <1>1, <1>5 DEF Puts
  <2> QED BY <1>0, <1>5, <2>1 DEF Stats, Present
<1> QED BY <1>3, <1>4, <1>5

(* The addition counts for the cgroup whose entry the element is.          *)
LEMMA StatsAdd ==
    ASSUME Shape, NEW c \in Cpus, Add(c), NEW g \in Cgroups
    PROVE  LET here == Present(disk_map, g) /\ disk_map.slot[g] = cpu[c].stats
               v == Stats(g)
               w == Stats(g)'
           IN  /\ ~here => w = v
               /\ here /\ cpu[c].found \in Writes => w.read = v.read /\ w.write = v.write + 1
               /\ here /\ cpu[c].found \notin Writes => w.read = v.read + 1 /\ w.write = v.write
<1>0. PICK e : e = cpu[c].stats
  OBVIOUS
<1>1. /\ e \in DiskElems /\ disk_map'.slot = disk_map.slot
      /\ \A f \in DiskElems \ {e} : disk_map'.value[f] = disk_map.value[f]
      /\ cpu[c].found \in Writes =>
            /\ disk_map'.value[e].read = disk_map.value[e].read
            /\ disk_map'.value[e].write = disk_map.value[e].write + 1
      /\ cpu[c].found \notin Writes =>
            /\ disk_map'.value[e].read = disk_map.value[e].read + 1
            /\ disk_map'.value[e].write = disk_map.value[e].write
  BY <1>0, AddStep
<1>2. Present(disk_map', g) <=> Present(disk_map, g)
  BY <1>1 DEF Present
<1>3. CASE ~Present(disk_map, g)
  BY <1>2, <1>3 DEF Stats
<1>4. CASE Present(disk_map, g)
  <2>1. disk_map.slot[g] \in DiskElems
    BY <1>4, MapFacts DEF Present
  <2>2. Stats(g) = disk_map.value[disk_map.slot[g]] /\ Stats(g)' = disk_map'.value[disk_map.slot[g]]
    BY <1>1, <1>2, <1>4 DEF Stats
  <2>3. disk_map.slot[g] # e => Stats(g)' = Stats(g)
    BY <1>1, <2>1, <2>2
  <2>4. disk_map.slot[g] = e /\ cpu[c].found \in Writes =>
           Stats(g)'.read = Stats(g).read /\ Stats(g)'.write = Stats(g).write + 1
    BY <1>1, <2>2
  <2>5. disk_map.slot[g] = e /\ cpu[c].found \notin Writes =>
           Stats(g)'.read = Stats(g).read + 1 /\ Stats(g)'.write = Stats(g).write
    BY <1>1, <2>2
  <2> QED BY <1>0, <1>4, <2>3, <2>4, <2>5
<1> QED BY <1>3, <1>4

(* No other step changes disk_map.                                         *)
LEMMA StatsSame ==
    ASSUME Shape, Next, ~ \E c \in Cpus : Add(c), ~ \E c \in Cpus : Update(c)
    PROVE  disk_map' = disk_map /\ replaced' = replaced
BY IssueStep, CompleteStep, ReadStep, DeleteStep, LookupStatsStep, Lookup2Step DEF Next

(* Once shared, always shared.                                             *)
LEMMA SharedStays ==
    ASSUME Shape, Next, ~shared'
    PROVE  ~shared
BY IssueStep, CompleteStep, ReadStep, DeleteStep, LookupStatsStep, UpdateStep, Lookup2Step, AddStep DEF Next

(* Every step preserves the bound.                                         *)
LEMMA ChargedStep ==
    ASSUME RequestInvariant, HeldInvariant, ChargedInvariant, Next
    PROVE  ChargedInvariant'
<1> USE DEF RequestInvariant
<1> SUFFICES ASSUME ~shared', Once', NEW g \in Cgroups
             PROVE  Stats(g)'.read <= Reads(g)' /\ Stats(g)'.write <= Written(g)'
  BY DEF ChargedInvariant
<1>1. ~shared /\ Once
  BY SharedStays, OnceEarlier
<1>2. Stats(g).read <= Reads(g) /\ Stats(g).write <= Written(g)
  BY <1>1 DEF ChargedInvariant
<1>3. /\ Stats(g).read \in Nat /\ Stats(g).write \in Nat /\ Reads(g) \in Nat /\ Written(g) \in Nat
  BY ChargedTypes
<1>4. ASSUME NEW c \in Cpus, Add(c)
      PROVE  Stats(g)'.read <= Reads(g)' /\ Stats(g)'.write <= Written(g)'
  <2>1. Present(disk_map, g) /\ disk_map.slot[g] = cpu[c].stats => Cgroup(c) = g
    BY <1>1, <1>4, AddStep DEF HeldInvariant, Present
  <2>2. CASE Present(disk_map, g) /\ disk_map.slot[g] = cpu[c].stats
    <3>1. CASE cpu[c].found \in Writes
      <4>1. Stats(g)'.read = Stats(g).read /\ Stats(g)'.write = Stats(g).write + 1
        BY <1>4, <2>2, <3>1, StatsAdd
      <4>2. Reads(g)' = Reads(g) /\ Written(g)' = Written(g) + 1
        BY <1>1, <1>4, <2>1, <2>2, <3>1, CountsAdd
      <4> QED BY <1>2, <1>3, <4>1, <4>2
    <3>2. CASE cpu[c].found \notin Writes
      <4>1. Stats(g)'.read = Stats(g).read + 1 /\ Stats(g)'.write = Stats(g).write
        BY <1>4, <2>2, <3>2, StatsAdd
      <4>2. Reads(g)' = Reads(g) + 1 /\ Written(g)' = Written(g)
        BY <1>1, <1>4, <2>1, <2>2, <3>2, CountsAdd
      <4> QED BY <1>2, <1>3, <4>1, <4>2
    <3> QED BY <3>1, <3>2
  <2>3. CASE ~(Present(disk_map, g) /\ disk_map.slot[g] = cpu[c].stats)
    <3>1. Stats(g)' = Stats(g)
      BY <1>4, <2>3, StatsAdd
    <3>2. /\ Reads(g)' = Reads(g) \/ Reads(g)' = Reads(g) + 1
          /\ Written(g)' = Written(g) \/ Written(g)' = Written(g) + 1
      BY <1>1, <1>4, CountsAdd
    <3> QED BY <1>2, <1>3, <3>1, <3>2
  <2> QED BY <2>2, <2>3
<1>5. ASSUME ~ \E c \in Cpus : Add(c)
      PROVE  Stats(g)'.read <= Reads(g)' /\ Stats(g)'.write <= Written(g)'
  <2>1. Charged(g)' = Charged(g)
    BY <1>5, ChargedSame
  <2>2. Reads(g)' = Reads(g) /\ Written(g)' = Written(g)
    BY <2>1 DEF Reads, Written
  <2>3. Stats(g)' = Stats(g) \/ Stats(g)' = NoStats
    <3>1. CASE \E c \in Cpus : Update(c)
      BY <3>1, StatsUpdate
    <3>2. CASE ~ \E c \in Cpus : Update(c)
      <4>1. disk_map' = disk_map
        BY <1>5, <3>2, StatsSame
      <4> QED BY <4>1 DEF Stats, Present
    <3> QED BY <3>1, <3>2
  <2> QED BY <1>2, <1>3, <2>2, <2>3 DEF NoStats
<1> QED BY <1>4, <1>5

(* Every step preserves the pointers, as long as no entry is replaced.     *)
LEMMA PointersStep ==
    ASSUME Shape, ExactInvariant, Next, replaced' = {}, NEW c \in Cpus, At(c, "add")'
    PROVE  Present(disk_map', Cgroup(c)') /\ cpu'[c].stats = disk_map'.slot[Cgroup(c)']
<1>0. replaced = {}
  BY OnceEarlier
<1>1. At(c, "add") => Present(disk_map, Cgroup(c)) /\ cpu[c].stats = disk_map.slot[Cgroup(c)]
  BY <1>0 DEF ExactInvariant
<1>2. ASSUME NEW b \in Cpus, Update(b)
      PROVE  Present(disk_map', Cgroup(c)') /\ cpu'[c].stats = disk_map'.slot[Cgroup(c)']
  <2>0. PICK t : t = Cgroup(b)
    OBVIOUS
  <2>1. /\ Others(b) /\ cpu'[b].pc = "lookup"
        /\ replaced' = IF Present(disk_map, t) THEN replaced \cup {t} ELSE replaced
        /\ Puts(disk_map, disk_map', b, t, NoStats)
    BY <1>2, <2>0, UpdateStep
  <2>2. ~Present(disk_map, t)
    BY <2>1
  <2>3. \A k \in DOMAIN disk_map.slot : k \in DOMAIN disk_map'.slot /\ disk_map'.slot[k] = disk_map.slot[k]
    BY <2>1, <2>2 DEF Puts, Inserts
  <2>4. cpu'[c] = cpu[c] /\ At(c, "add") /\ Cgroup(c)' = Cgroup(c)
    BY <2>1 DEF Others, At, Cgroup
  <2> QED BY <1>1, <2>3, <2>4 DEF Present
<1>3. ASSUME NEW b \in Cpus, Others(b), disk_map'.slot = disk_map.slot,
             At(b, "add")' => Present(disk_map, Cgroup(b)') /\ cpu'[b].stats = disk_map.slot[Cgroup(b)']
      PROVE  Present(disk_map', Cgroup(c)') /\ cpu'[c].stats = disk_map'.slot[Cgroup(c)']
  <2>1. CASE b = c
    BY <1>3, <2>1 DEF Present
  <2>2. CASE b # c
    <3>1. cpu'[c] = cpu[c] /\ At(c, "add") /\ Cgroup(c)' = Cgroup(c)
      BY <1>3, <2>2 DEF Others, At, Cgroup
    <3> QED BY <1>1, <1>3, <3>1 DEF Present
  <2> QED BY <2>1, <2>2
<1>4. ASSUME NEW b \in Cpus, NEW r \in Requests, Issue(b, r)
      PROVE  Present(disk_map', Cgroup(c)') /\ cpu'[c].stats = disk_map'.slot[Cgroup(c)']
  <2>1. cpu' = cpu /\ disk_map' = disk_map
    BY <1>4, IssueStep
  <2> QED BY <1>1, <2>1 DEF At, Cgroup
<1>5. ASSUME NEW b \in Cpus, NEW r \in Requests, Complete(b, r)
      PROVE  Present(disk_map', Cgroup(c)') /\ cpu'[c].stats = disk_map'.slot[Cgroup(c)']
  <2>1. Others(b) /\ disk_map' = disk_map /\ ~At(b, "add")'
    BY <1>5, CompleteStep DEF At
  <2> QED BY <1>3, <2>1
<1>6. ASSUME NEW b \in Cpus,
             ReadRequest(b) \/ DeleteRequest(b) \/ LookupStats(b) \/ Lookup2(b) \/ Add(b)
      PROVE  Present(disk_map', Cgroup(c)') /\ cpu'[c].stats = disk_map'.slot[Cgroup(c)']
  <2>1. /\ Others(b) /\ disk_map'.slot = disk_map.slot
        /\ At(b, "add")' => /\ Present(disk_map, Cgroup(b)) /\ Cgroup(b)' = Cgroup(b)
                            /\ cpu'[b].stats = disk_map.slot[Cgroup(b)]
    BY <1>6, ReadStep, DeleteStep, LookupStatsStep, Lookup2Step, AddStep
    DEF At, SameRequest, Cgroup, Idle
  <2> QED BY <1>3, <2>1
<1> QED BY <1>2, <1>4, <1>5, <1>6 DEF Next

(* Every step preserves the equalities, as long as no entry is replaced.   *)
LEMMA CountsStep ==
    ASSUME RequestInvariant, ExactInvariant, Next, replaced' = {}, ~shared', NEW g \in Cgroups
    PROVE  Stats(g)'.read = Reads(g)' /\ Stats(g)'.write = Written(g)'
<1> USE DEF RequestInvariant
<1>1. ~shared /\ replaced = {}
  BY SharedStays, OnceEarlier
<1>2. Stats(g).read = Reads(g) /\ Stats(g).write = Written(g)
  BY <1>1 DEF ExactInvariant
<1>3. ASSUME NEW c \in Cpus, Add(c)
      PROVE  Stats(g)'.read = Reads(g)' /\ Stats(g)'.write = Written(g)'
  <2>0. PICK t : t = Cgroup(c)
    OBVIOUS
  <2>1. Present(disk_map, t) /\ cpu[c].stats = disk_map.slot[t]
    BY <1>1, <1>3, <2>0, AddStep DEF ExactInvariant
  <2>2. Present(disk_map, g) /\ disk_map.slot[g] = cpu[c].stats <=> t = g
    BY <2>1 DEF Shape, Types, Disjoint, Present
  <2>3. CASE t # g
    <3>1. Stats(g)' = Stats(g)
      BY <1>3, <2>2, <2>3, StatsAdd
    <3>2. Reads(g)' = Reads(g) /\ Written(g)' = Written(g)
      BY <1>1, <1>3, <2>0, <2>3, CountsAdd
    <3> QED BY <1>2, <3>1, <3>2
  <2>4. CASE t = g /\ cpu[c].found \in Writes
    <3>1. Stats(g)'.read = Stats(g).read /\ Stats(g)'.write = Stats(g).write + 1
      BY <1>3, <2>2, <2>4, StatsAdd
    <3>2. Reads(g)' = Reads(g) /\ Written(g)' = Written(g) + 1
      BY <1>1, <1>3, <2>0, <2>4, CountsAdd
    <3> QED BY <1>2, <3>1, <3>2
  <2>5. CASE t = g /\ cpu[c].found \notin Writes
    <3>1. Stats(g)'.read = Stats(g).read + 1 /\ Stats(g)'.write = Stats(g).write
      BY <1>3, <2>2, <2>5, StatsAdd
    <3>2. Reads(g)' = Reads(g) + 1 /\ Written(g)' = Written(g)
      BY <1>1, <1>3, <2>0, <2>5, CountsAdd
    <3> QED BY <1>2, <3>1, <3>2
  <2> QED BY <2>3, <2>4, <2>5
<1>4. ASSUME ~ \E c \in Cpus : Add(c)
      PROVE  Stats(g)'.read = Reads(g)' /\ Stats(g)'.write = Written(g)'
  <2>1. Charged(g)' = Charged(g)
    BY <1>4, ChargedSame
  <2>2. Reads(g)' = Reads(g) /\ Written(g)' = Written(g)
    BY <2>1 DEF Reads, Written
  <2>3. Stats(g)' = Stats(g)
    <3>1. ASSUME NEW c \in Cpus, Update(c)
          PROVE  Stats(g)' = Stats(g)
      <4>1. ~Present(disk_map, Cgroup(c))
        BY <3>1, UpdateStep
      <4>2. Cgroup(c) = g => Stats(g) = NoStats
        BY <4>1 DEF Stats
      <4> QED BY <3>1, <4>2, StatsUpdate
    <3>2. CASE ~ \E c \in Cpus : Update(c)
      <4>1. disk_map' = disk_map
        BY <1>4, <3>2, StatsSame
      <4> QED BY <4>1 DEF Stats, Present
    <3> QED BY <3>1, <3>2
  <2> QED BY <1>2, <2>2, <2>3
<1> QED BY <1>3, <1>4

(* The inductive invariant.                                                *)
DiskInvariant ==
    RequestInvariant /\ UsedInvariant /\ HeldInvariant /\ ChargedInvariant /\ ExactInvariant

(* It holds of the empty maps.                                             *)
LEMMA InitDisk ==
    ASSUME Init
    PROVE  DiskInvariant
<1>1. /\ Shape /\ DOMAIN inflight_map.slot = {} /\ DOMAIN disk_map.slot = {}
      /\ \A c \in Cpus : disk_map.extra[c] = ExtraOf[c]
  BY InitTypes
<1>2. /\ \A c \in Cpus : At(c, "idle") /\ ~At(c, "add") /\ ~At(c, "read") /\ ~Charging(c)
      /\ \A c \in Cpus : ~(cpu[c].pc \in {"read", "delete"})
      /\ \A r \in Requests : state[r] = "new"
      /\ lost = {} /\ replaced = {}
  BY DEF Init, At, Idle, Charging
<1>3. Pending = {}
  BY <1>2 DEF Pending
<1>4. RequestInvariant
  BY <1>1, <1>2, <1>3 DEF RequestInvariant, InflightDrained, Returned, Recorded, SectorsUnique,
     OutRecorded, ReadRecorded, FoundIsBack, BackNotLost
<1>5. UsedInvariant /\ HeldInvariant
  BY <1>1, <1>2 DEF UsedInvariant, HeldInvariant
<1>6. ASSUME NEW g \in Cgroups
      PROVE  Stats(g).read = 0 /\ Stats(g).write = 0 /\ Reads(g) = 0 /\ Written(g) = 0
  <2>1. Charged(g) = {}
    BY <1>2 DEF Charged, Back
  <2>2. Charged(g) \ Writes = {} /\ Charged(g) \cap Writes = {}
    BY <2>1
  <2>3. Reads(g) = 0 /\ Written(g) = 0
    BY <2>2, FS_EmptySet DEF Reads, Written
  <2>4. Stats(g) = NoStats
    BY <1>1 DEF Stats, Present
  <2> QED BY <2>3, <2>4 DEF NoStats
<1>7. ChargedInvariant /\ ExactInvariant
  BY <1>2, <1>6 DEF ChargedInvariant, ExactInvariant
<1> QED BY <1>4, <1>5, <1>7 DEF DiskInvariant

(* Every step preserves it.                                                *)
LEMMA DiskStep ==
    ASSUME DiskInvariant, [Next]_vars
    PROVE  DiskInvariant'
<1>1. CASE UNCHANGED vars
  <2>1. UNCHANGED <<inflight_map, disk_map, cpu, state, shared, lost, replaced>>
    BY <1>1 DEF vars
  <2>2. RequestInvariant'
    <3>1. Shape' /\ InflightDrained'
      BY <1>1, ShapeStep, DrainedStep DEF DiskInvariant, RequestInvariant
    <3>2. Returned' /\ Recorded'
      BY <2>1 DEF DiskInvariant, RequestInvariant, Returned, Recorded, SectorsUnique, OutRecorded,
         ReadRecorded, FoundIsBack, BackNotLost, InMap, Present, Pending, At, Charging
    <3> QED BY <3>1, <3>2 DEF RequestInvariant
  <2>3. UsedInvariant' /\ HeldInvariant'
    BY <2>1 DEF DiskInvariant, UsedInvariant, HeldInvariant, Once, Inserting, At, Cgroup, Present
  <2>4. \A g : Stats(g)' = Stats(g) /\ Reads(g)' = Reads(g) /\ Written(g)' = Written(g)
    BY <2>1 DEF Stats, Reads, Written, Charged, Back, At, Present
  <2>5. ChargedInvariant' /\ ExactInvariant'
    BY <2>1, <2>4 DEF DiskInvariant, ChargedInvariant, ExactInvariant, Once, Present, Cgroup, At
  <2> QED BY <2>2, <2>3, <2>5 DEF DiskInvariant
<1>2. CASE Next
  <2>1. RequestInvariant'
    BY <1>2, ShapeStep, DrainedStep, ReturnedStep, RecordedStep DEF DiskInvariant, RequestInvariant
  <2>2. UsedInvariant' /\ HeldInvariant'
    BY <1>2, UsedStep, HeldStep DEF DiskInvariant, RequestInvariant
  <2>3. ChargedInvariant'
    BY <1>2, ChargedStep DEF DiskInvariant
  <2>4. ExactInvariant'
    BY <1>2, PointersStep, CountsStep DEF DiskInvariant, RequestInvariant, ExactInvariant
  <2> QED BY <2>1, <2>2, <2>3, <2>4 DEF DiskInvariant
<1> QED BY <1>1, <1>2

(* The hypothesis of IssuersCharged, without a cardinality.                *)
LEMMA OneReplaced ==
    ASSUME Shape, Cardinality(replaced) <= 1
    PROVE  Once
<1>1. IsFiniteSet(Cgroups)
  <2> DEFINE f == [r \in Requests |-> CgroupOf[r]]
  <2>1. f \in Surjection(Requests, Cgroups)
    BY DEF Surjection, Cgroups
  <2> QED BY <2>1, FiniteAssumption, FS_Surjection
<1>2. IsFiniteSet(replaced)
  BY <1>1, FS_Subset DEF Shape, Types
<1>3. ASSUME NEW h \in replaced, NEW k \in replaced, h # k
      PROVE  FALSE
  <2>1. IsFiniteSet(replaced \ {h}) /\ Cardinality(replaced \ {h}) = Cardinality(replaced) - 1
    BY <1>2, FS_RemoveElement
  <2>2. Cardinality(replaced \ {h}) \in Nat /\ Cardinality(replaced) \in Nat
    BY <1>2, <2>1, FS_CardinalityType
  <2>3. replaced \ {h} = {}
    BY <2>1, <2>2, FS_EmptySet
  <2> QED BY <1>3, <2>3
<1> QED BY <1>3 DEF Once

(* No cgroup is charged for more reads or writes than it issued, although  *)
(* the pointers into both maps are used after other CPUs may have deleted  *)
(* or replaced the elements (trace_rq_complete).                           *)
THEOREM IssuersChargedCorrect == Spec => []IssuersCharged
<1>1. DiskInvariant => IssuersCharged
  <2> SUFFICES ASSUME DiskInvariant, ~shared, Cardinality(replaced) <= 1, NEW g \in Cgroups
               PROVE  /\ Stats(g).read <= Cardinality(Back(g) \ Writes)
                      /\ Stats(g).write <= Cardinality(Back(g) \cap Writes)
    BY DEF IssuersCharged
  <2>1. Stats(g).read <= Reads(g) /\ Stats(g).write <= Written(g)
    BY OneReplaced DEF DiskInvariant, RequestInvariant, ChargedInvariant
  <2>2. Reads(g) <= Cardinality(Back(g) \ Writes) /\ Written(g) <= Cardinality(Back(g) \cap Writes)
    <3>1. Back(g) \ Writes \in SUBSET Requests /\ Back(g) \cap Writes \in SUBSET Requests
      BY DEF Back
    <3>2. /\ Charged(g) \ Writes \in SUBSET (Back(g) \ Writes)
          /\ Charged(g) \cap Writes \in SUBSET (Back(g) \cap Writes)
      BY DEF Charged
    <3> QED BY <3>1, <3>2, RequestSets DEF Reads, Written
  <2>3. /\ Stats(g).read \in Nat /\ Stats(g).write \in Nat /\ Reads(g) \in Nat /\ Written(g) \in Nat
    BY ChargedTypes DEF DiskInvariant, RequestInvariant
  <2>4. Cardinality(Back(g) \ Writes) \in Nat /\ Cardinality(Back(g) \cap Writes) \in Nat
    <3>1. Back(g) \ Writes \in SUBSET Requests /\ Back(g) \cap Writes \in SUBSET Requests
      BY DEF Back
    <3> QED BY <3>1, RequestSets
  <2> QED BY <2>1, <2>2, <2>3, <2>4
<1> QED BY <1>1, InitDisk, DiskStep, PTL DEF Spec

(* When all is quiet every operation is counted exactly once, but those a  *)
(* full map had no room for (trace_rq_issue, trace_rq_complete).           *)
THEOREM ExactWithoutRacesCorrect == Spec => []ExactWithoutRaces
<1>1. DiskInvariant => ExactWithoutRaces
  <2> SUFFICES ASSUME DiskInvariant, ~shared, Quiet, replaced = {}, NEW g \in Cgroups
               PROVE  /\ Stats(g).read = Cardinality(Back(g) \ (Writes \cup lost))
                      /\ Stats(g).write = Cardinality((Back(g) \cap Writes) \ lost)
    BY DEF ExactWithoutRaces
  <2>1. Stats(g).read = Reads(g) /\ Stats(g).write = Written(g)
    BY DEF DiskInvariant, ExactInvariant
  <2>2. Charged(g) = Back(g) \ lost
    BY DEF Charged, Quiet
  <2>3. /\ Charged(g) \ Writes = Back(g) \ (Writes \cup lost)
        /\ Charged(g) \cap Writes = (Back(g) \cap Writes) \ lost
    BY <2>2
  <2> QED BY <2>1, <2>3 DEF Reads, Written
<1> QED BY <1>1, InitDisk, DiskStep, PTL DEF Spec
=============================================================================
