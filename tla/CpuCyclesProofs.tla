--------------------------- MODULE CpuCyclesProofs ---------------------------
(***************************************************************************)
(* What the CPU probe counts and reports, for any number of CPUs, cgroups, *)
(* samples and elements.                                                   *)
(***************************************************************************)
EXTENDS CpuCycles, PartialMapsProofs, TLAPS

(* The types of the variables, without the bounds on the history           *)
(* variables, that no element of the map is in two uses, and which samples *)
(* have a pointer.                                                         *)
Shape ==
    /\ IsBpfMap(cpu_cycles_map, Cgroups, cpu_stats, Elems, Cpus)
    /\ Disjoint(cpu_cycles_map)
    /\ cpu \in [Cpus -> Busy \cup {Idle}]
    /\ \A c \in Cpus : /\ At(c, "update") => cpu[c].stats = {}
                       /\ At(c, "cycles") \/ At(c, "clock") => cpu[c].stats # {}
    /\ cpu_events \subseteq [cgroup : Cgroups, cycles : Nat]
    /\ samples \in [Cgroups -> Nat]
    /\ lost \in [Cgroups -> Nat]
    /\ replaced \subseteq Cgroups /\ IsFiniteSet(replaced)

(* What the fields of the map are.                                         *)
LEMMA MapFacts ==
    ASSUME Shape
    PROVE  /\ DOMAIN cpu_cycles_map = {"slot", "value", "free", "extra"}
           /\ DOMAIN cpu_cycles_map.slot \subseteq Cgroups
           /\ \A g \in DOMAIN cpu_cycles_map.slot : cpu_cycles_map.slot[g] \in Elems
           /\ cpu_cycles_map.value \in [Elems -> cpu_stats]
           /\ cpu_cycles_map.free \subseteq Elems
           /\ cpu_cycles_map.extra \in [Cpus -> Elems]
BY DEF Shape, IsBpfMap, IsMap

(* The counters of every element are naturals.                             *)
LEMMA CounterTypes ==
    ASSUME Shape, NEW e \in Elems
    PROVE  /\ cpu_cycles_map.value[e].cycles \in Nat
           /\ cpu_cycles_map.value[e].task_clock_ns \in Nat
<1>1. cpu_cycles_map.value[e] \in cpu_stats
  BY MapFacts
<1> QED BY <1>1 DEF cpu_stats

(* A CPU that is not idle has a sample in hand.                            *)
LEMMA BusyFacts ==
    ASSUME Shape, NEW c \in Cpus, ~At(c, "idle")
    PROVE  /\ cpu[c] \in Busy /\ cpu[c].cgroup \in Cgroups
           /\ cpu[c].stats = {} \/ \E e \in Elems : cpu[c].stats = {e}
BY DEF Shape, At, Idle, Busy

(* The pointer of a sample about to be added to.                           *)
LEMMA Pointer ==
    ASSUME Shape, NEW c \in Cpus, At(c, "cycles") \/ At(c, "clock")
    PROVE  \E e \in Elems : cpu[c].stats = {e}
<1>1. ~At(c, "idle") /\ cpu[c].stats # {}
  BY DEF Shape, At
<1> QED BY <1>1, BusyFacts

(* Only the state of the CPU c changes.                                    *)
Others(c) == \A d \in Cpus \ {c} : cpu'[d] = cpu[d]

(* The map as it is loaded.                                                *)
LEMMA InitShape ==
    ASSUME Init
    PROVE  /\ Shape
           /\ DOMAIN cpu_cycles_map.slot = {}
           /\ \A c \in Cpus : cpu_cycles_map.extra[c] = ExtraOf[c] /\ At(c, "idle")
           /\ \A e \in Elems : cpu_cycles_map.value[e] = [cycles |-> 0, task_clock_ns |-> 0]
<1> DEFINE zero == [cycles |-> 0, task_clock_ns |-> 0]
<1>1. zero \in cpu_stats
  BY DEF cpu_stats
<1> HIDE DEF zero
<1>2. /\ DOMAIN cpu_cycles_map = {"slot", "value", "free", "extra"}
      /\ cpu_cycles_map.slot = NoKeys
      /\ cpu_cycles_map.value = [e \in Elems |-> zero]
      /\ cpu_cycles_map.free = Entries
      /\ cpu_cycles_map.extra = [c \in Cpus |-> ExtraOf[c]]
  <2>1. {[c \in Cpus |-> ExtraOf[c]][d] : d \in Cpus} = {ExtraOf[c] : c \in Cpus}
    OBVIOUS
  <2> QED BY <2>1 DEF Init, Empty, Elems, zero
<1>3. /\ IsBpfMap(cpu_cycles_map, Cgroups, cpu_stats, Elems, Cpus)
      /\ Disjoint(cpu_cycles_map)
      /\ DOMAIN cpu_cycles_map.slot = {}
  <2>1. Entries \subseteq Elems /\ \A c \in Cpus : ExtraOf[c] \in Elems
    BY DEF Elems
  <2>2. /\ cpu_cycles_map.value \in [Elems -> cpu_stats]
        /\ cpu_cycles_map.free \subseteq Elems /\ cpu_cycles_map.extra \in [Cpus -> Elems]
        /\ \A c \in Cpus : cpu_cycles_map.extra[c] \notin cpu_cycles_map.free
        /\ \A c, d \in Cpus : cpu_cycles_map.extra[c] = cpu_cycles_map.extra[d] => c = d
    BY <1>1, <1>2, <2>1, ExtraOfAssumption
  <2>3. IsMap(cpu_cycles_map.slot, Cgroups, Elems) /\ DOMAIN cpu_cycles_map.slot = {}
    BY <1>2, NoKeysIsMap
  <2>4. IsBpfMap(cpu_cycles_map, Cgroups, cpu_stats, Elems, Cpus)
    BY <1>2, <2>2, <2>3 DEF IsBpfMap
  <2>5. Disjoint(cpu_cycles_map)
    BY <1>2, <2>2, <2>3 DEF Disjoint
  <2> QED BY <2>3, <2>4, <2>5
<1>4. IsFiniteSet(replaced)
  BY FS_EmptySet DEF Init
<1>5. \A c \in Cpus : cpu[c] = Idle /\ At(c, "idle")
  BY DEF Init, At, Idle
<1>6. Shape
  BY <1>3, <1>4, <1>5 DEF Init, Shape, At
<1> QED BY <1>2, <1>3, <1>5, <1>6 DEF zero

(* What a sample changes.                                                  *)
LEMMA SampleStep ==
    ASSUME Shape, NEW c \in Cpus, NEW g \in Cgroups, Sample(c, g)
    PROVE  /\ Shape'
           /\ At(c, "idle") /\ samples[g] < MaxSamples /\ Others(c)
           /\ cpu'[c].pc = IF Present(cpu_cycles_map, g) THEN "cycles" ELSE "update"
           /\ cpu'[c].cgroup = g /\ cpu'[c].stats = Slot(g)
           /\ samples' = [samples EXCEPT ![g] = @ + 1]
           /\ UNCHANGED <<cpu_cycles_map, cpu_events, lost, replaced>>
<1> DEFINE p == [pc |-> IF Slot(g) = {} THEN "update" ELSE "cycles", cgroup |-> g, stats |-> Slot(g)]
<1>1. /\ cpu' = [cpu EXCEPT ![c] = p]
      /\ samples' = [samples EXCEPT ![g] = @ + 1]
      /\ UNCHANGED <<cpu_cycles_map, cpu_events, lost, replaced>>
      /\ At(c, "idle") /\ samples[g] < MaxSamples
  BY DEF Sample
<1>2. /\ Present(cpu_cycles_map, g) => \E e \in Elems : Slot(g) = {e}
      /\ ~Present(cpu_cycles_map, g) => Slot(g) = {}
  BY MapFacts DEF Slot, Present
<1>3. /\ p \in Busy /\ p.cgroup = g /\ p.stats = Slot(g)
      /\ p.pc = IF Present(cpu_cycles_map, g) THEN "cycles" ELSE "update"
      /\ p.pc = "update" => p.stats = {}
      /\ p.pc = "cycles" => p.stats # {}
  BY <1>2 DEF Busy
<1> HIDE DEF p
<1>4. cpu' \in [Cpus -> Busy \cup {Idle}] /\ cpu'[c] = p /\ Others(c)
  BY <1>1, <1>3 DEF Shape, Others
<1>5. \A d \in Cpus : /\ At(d, "update")' => cpu'[d].stats = {}
                      /\ At(d, "cycles")' \/ At(d, "clock")' => cpu'[d].stats # {}
  BY <1>3, <1>4 DEF Shape, Others, At
<1>6. samples' \in [Cgroups -> Nat]
  BY <1>1 DEF Shape
<1>7. Shape'
  BY <1>1, <1>4, <1>5, <1>6 DEF Shape
<1> QED BY <1>1, <1>3, <1>4, <1>7

(* Only the counters in the element e change.                              *)
Writes(e) ==
    /\ cpu_cycles_map'.slot = cpu_cycles_map.slot
    /\ cpu_cycles_map'.free = cpu_cycles_map.free
    /\ cpu_cycles_map'.extra = cpu_cycles_map.extra
    /\ \A f \in Elems \ {e} : cpu_cycles_map'.value[f] = cpu_cycles_map.value[f]

(* A sample that has the pointer e goes on to pc.                          *)
Moves(c, e, pc) ==
    /\ cpu[c].stats = {e} /\ cpu'[c].stats = {e}
    /\ cpu'[c].cgroup = cpu[c].cgroup
    /\ cpu'[c].pc = pc
    /\ Others(c)

(* A write through the pointer preserves the types.                        *)
LEMMA WriteStep ==
    ASSUME Shape, NEW c \in Cpus, NEW pc \in {"clock", "event"}, At(c, "cycles") \/ At(c, "clock"),
           NEW e \in Elems, cpu[c].stats = {e}, NEW w \in cpu_stats,
           cpu_cycles_map' = [cpu_cycles_map EXCEPT !.value = [cpu_cycles_map.value EXCEPT ![e] = w]],
           cpu' = [cpu EXCEPT ![c].pc = pc],
           UNCHANGED <<cpu_events, samples, lost, replaced>>
    PROVE  Shape' /\ Writes(e) /\ cpu_cycles_map'.value[e] = w /\ Moves(c, e, pc)
<1> DEFINE value == [cpu_cycles_map.value EXCEPT ![e] = w]
<1>1. value \in [Elems -> cpu_stats] /\ value[e] = w
      /\ \A f \in Elems \ {e} : value[f] = cpu_cycles_map.value[f]
  BY MapFacts
<1>2. cpu_cycles_map' = [cpu_cycles_map EXCEPT !.value = value]
  OBVIOUS
<1> HIDE DEF value
<1>3. /\ IsBpfMap(cpu_cycles_map', Cgroups, cpu_stats, Elems, Cpus)
      /\ Disjoint(cpu_cycles_map')
      /\ cpu_cycles_map'.slot = cpu_cycles_map.slot
      /\ cpu_cycles_map'.free = cpu_cycles_map.free
      /\ cpu_cycles_map'.extra = cpu_cycles_map.extra
      /\ cpu_cycles_map'.value = value
  <2>1. IsBpfMap(cpu_cycles_map, Cgroups, cpu_stats, Elems, Cpus) /\ Disjoint(cpu_cycles_map)
    BY DEF Shape
  <2> QED BY ONLY <1>1, <1>2, <2>1, WriteFacts
<1>4. cpu[c] \in Busy
  <2>1. ~At(c, "idle")
    BY DEF At
  <2> QED BY <2>1, BusyFacts
<1>5. /\ cpu'[c] \in Busy /\ cpu'[c].pc = pc /\ cpu'[c].cgroup = cpu[c].cgroup
      /\ cpu'[c].stats = {e}
      /\ cpu' \in [Cpus -> Busy \cup {Idle}] /\ Others(c)
  BY <1>4 DEF Shape, Others, Busy
<1>6. \A d \in Cpus : /\ At(d, "update")' => cpu'[d].stats = {}
                      /\ At(d, "cycles")' \/ At(d, "clock")' => cpu'[d].stats # {}
  BY <1>5 DEF Shape, Others, At
<1>7. Shape'
  BY <1>3, <1>5, <1>6 DEF Shape
<1> QED BY <1>1, <1>3, <1>5, <1>7 DEF Writes, Moves

(* What the addition to cycles changes.                                    *)
LEMMA AddCyclesStep ==
    ASSUME Shape, NEW c \in Cpus, AddCycles(c)
    PROVE  /\ Shape' /\ At(c, "cycles")
           /\ \E e \in Elems :
                 /\ Writes(e) /\ Moves(c, e, "clock")
                 /\ cpu_cycles_map'.value[e].cycles = cpu_cycles_map.value[e].cycles + 1
                 /\ cpu_cycles_map'.value[e].task_clock_ns = cpu_cycles_map.value[e].task_clock_ns
           /\ UNCHANGED <<cpu_events, samples, lost, replaced>>
<1>1. At(c, "cycles") /\ cpu' = [cpu EXCEPT ![c].pc = "clock"]
      /\ UNCHANGED <<cpu_events, samples, lost, replaced>>
  BY DEF AddCycles
<1>2. PICK e \in Elems : cpu[c].stats = {e}
  BY <1>1, Pointer
<1> DEFINE v == cpu_cycles_map.value[e]
           w == [v EXCEPT !.cycles = @ + 1]
<1>3. cpu_cycles_map' = [cpu_cycles_map EXCEPT !.value = [cpu_cycles_map.value EXCEPT ![e] = w]]
  BY <1>2, MapFacts DEF AddCycles
<1>4. w \in cpu_stats /\ w.cycles = v.cycles + 1 /\ w.task_clock_ns = v.task_clock_ns
  <2>1. v \in cpu_stats
    BY MapFacts
  <2> HIDE DEF v
  <2> QED BY <2>1 DEF cpu_stats
<1> HIDE DEF w
<1>5. Shape' /\ Writes(e) /\ cpu_cycles_map'.value[e] = w /\ Moves(c, e, "clock")
  BY <1>1, <1>2, <1>3, <1>4, WriteStep
<1> QED BY <1>1, <1>4, <1>5

(* What the addition to task_clock_ns changes.                             *)
LEMMA AddClockStep ==
    ASSUME Shape, NEW c \in Cpus, AddClock(c)
    PROVE  /\ Shape' /\ At(c, "clock")
           /\ \E e \in Elems :
                 /\ Writes(e) /\ Moves(c, e, "event")
                 /\ cpu_cycles_map'.value[e].cycles = cpu_cycles_map.value[e].cycles
                 /\ cpu_cycles_map'.value[e].task_clock_ns
                       = cpu_cycles_map.value[e].task_clock_ns + Period
           /\ UNCHANGED <<cpu_events, samples, lost, replaced>>
<1>1. At(c, "clock") /\ cpu' = [cpu EXCEPT ![c].pc = "event"]
      /\ UNCHANGED <<cpu_events, samples, lost, replaced>>
  BY DEF AddClock
<1>2. PICK e \in Elems : cpu[c].stats = {e}
  BY <1>1, Pointer
<1> DEFINE v == cpu_cycles_map.value[e]
           w == [v EXCEPT !.task_clock_ns = @ + Period]
<1>3. cpu_cycles_map' = [cpu_cycles_map EXCEPT !.value = [cpu_cycles_map.value EXCEPT ![e] = w]]
  BY <1>2, MapFacts DEF AddClock
<1>4. w \in cpu_stats /\ w.cycles = v.cycles /\ w.task_clock_ns = v.task_clock_ns + Period
  <2>1. v \in cpu_stats
    BY MapFacts
  <2> HIDE DEF v
  <2> QED BY <2>1, PeriodAssumption DEF cpu_stats
<1> HIDE DEF w
<1>5. Shape' /\ Writes(e) /\ cpu_cycles_map'.value[e] = w /\ Moves(c, e, "event")
  BY <1>1, <1>2, <1>3, <1>4, WriteStep
<1> QED BY <1>1, <1>4, <1>5

(* The insertion puts the entry of the cgroup g in the element e: the      *)
(* extra one of the CPU c when there was an entry, or else a free one.     *)
Takes(c, g, e) ==
    /\ e \in Elems
    /\ IF Present(cpu_cycles_map, g) THEN e = cpu_cycles_map.extra[c]
                                     ELSE e \in cpu_cycles_map.free
    /\ DOMAIN cpu_cycles_map'.slot = DOMAIN cpu_cycles_map.slot \cup {g}
    /\ cpu_cycles_map'.slot[g] = e
    /\ \A h \in DOMAIN cpu_cycles_map.slot \ {g} :
          cpu_cycles_map'.slot[h] = cpu_cycles_map.slot[h]
    /\ cpu_cycles_map'.value = [cpu_cycles_map.value EXCEPT ![e] = init_stats]
    /\ cpu_cycles_map'.free \subseteq cpu_cycles_map.free \ {e}
    /\ cpu_cycles_map'.extra =
          IF Present(cpu_cycles_map, g)
            THEN [cpu_cycles_map.extra EXCEPT ![c] = cpu_cycles_map.slot[g]]
            ELSE cpu_cycles_map.extra

(* There is neither an entry nor room for one.                             *)
Full(g) == ~Present(cpu_cycles_map, g) /\ cpu_cycles_map.free = {}

(* What the insertion does to the map.                                     *)
LEMMA InsertedMap ==
    ASSUME Shape, NEW c \in Cpus, NEW g \in Cgroups,
           cpu_cycles_map' \in Updated(cpu_cycles_map, c, g, init_stats)
    PROVE  /\ IsBpfMap(cpu_cycles_map', Cgroups, cpu_stats, Elems, Cpus)
           /\ Disjoint(cpu_cycles_map')
           /\ Full(g) => cpu_cycles_map' = cpu_cycles_map
           /\ ~Full(g) => \E e : Takes(c, g, e)
<1>0. IsBpfMap(cpu_cycles_map, Cgroups, cpu_stats, Elems, Cpus) /\ Disjoint(cpu_cycles_map)
  BY DEF Shape
<1>1. init_stats \in cpu_stats
  BY PeriodAssumption DEF init_stats, cpu_stats
<1>2. CASE Present(cpu_cycles_map, g)
  <2>1. /\ IsBpfMap(cpu_cycles_map', Cgroups, cpu_stats, Elems, Cpus)
        /\ Disjoint(cpu_cycles_map')
        /\ cpu_cycles_map'.slot = [cpu_cycles_map.slot EXCEPT ![g] = cpu_cycles_map.extra[c]]
        /\ cpu_cycles_map'.value =
              [cpu_cycles_map.value EXCEPT ![cpu_cycles_map.extra[c]] = init_stats]
        /\ cpu_cycles_map'.extra = [cpu_cycles_map.extra EXCEPT ![c] = cpu_cycles_map.slot[g]]
        /\ cpu_cycles_map'.free = cpu_cycles_map.free
    BY <1>0, <1>1, <1>2, ReplaceFacts
  <2>2. cpu_cycles_map.extra[c] \in Elems /\ cpu_cycles_map.extra[c] \notin cpu_cycles_map.free
    BY <1>0, MapFacts DEF Disjoint
  <2>3. /\ DOMAIN cpu_cycles_map'.slot = DOMAIN cpu_cycles_map.slot \cup {g}
        /\ cpu_cycles_map'.slot[g] = cpu_cycles_map.extra[c]
        /\ \A h \in DOMAIN cpu_cycles_map.slot \ {g} :
              cpu_cycles_map'.slot[h] = cpu_cycles_map.slot[h]
    BY <1>2, <2>1 DEF Present
  <2>4. Takes(c, g, cpu_cycles_map.extra[c])
    BY <1>2, <2>1, <2>2, <2>3 DEF Takes
  <2> QED BY <1>2, <2>1, <2>4 DEF Full
<1>3. CASE ~Present(cpu_cycles_map, g) /\ cpu_cycles_map.free # {}
  <2> DEFINE e == cpu_cycles_map'.slot[g]
  <2>1. /\ IsBpfMap(cpu_cycles_map', Cgroups, cpu_stats, Elems, Cpus)
        /\ Disjoint(cpu_cycles_map')
        /\ e \in cpu_cycles_map.free
        /\ DOMAIN cpu_cycles_map'.slot = DOMAIN cpu_cycles_map.slot \cup {g}
        /\ \A h \in DOMAIN cpu_cycles_map.slot : cpu_cycles_map'.slot[h] = cpu_cycles_map.slot[h]
        /\ cpu_cycles_map'.value = [cpu_cycles_map.value EXCEPT ![e] = init_stats]
        /\ cpu_cycles_map'.free = cpu_cycles_map.free \ {e}
        /\ cpu_cycles_map'.extra = cpu_cycles_map.extra
    BY <1>0, <1>1, <1>3, InsertFacts
  <2>2. Takes(c, g, e)
    BY <1>3, <2>1, MapFacts DEF Takes
  <2> QED BY <1>3, <2>1, <2>2 DEF Full
<1>4. CASE Full(g)
  <2>1. cpu_cycles_map' = cpu_cycles_map
    BY <1>4, FullFacts DEF Full
  <2> QED BY <1>0, <1>4, <2>1
<1> QED BY <1>2, <1>3, <1>4 DEF Full

(* What an insertion changes.                                              *)
LEMMA InsertStep ==
    ASSUME Shape, NEW c \in Cpus, Insert(c)
    PROVE  LET g == cpu[c].cgroup
           IN  /\ Shape'
               /\ At(c, "update") /\ g \in Cgroups /\ Others(c)
               /\ cpu'[c].pc = "event" /\ cpu'[c].cgroup = g
               /\ cpu[c].stats = {} /\ cpu'[c].stats = {}
               /\ Full(g) => cpu_cycles_map' = cpu_cycles_map
               /\ ~Full(g) => \E e : Takes(c, g, e)
               /\ replaced' = IF Present(cpu_cycles_map, g) THEN replaced \cup {g} ELSE replaced
               /\ lost' = [lost EXCEPT ![g] = IF Full(g) THEN @ + 1 ELSE @]
               /\ UNCHANGED <<cpu_events, samples>>
<1> DEFINE g == cpu[c].cgroup
<1>1. /\ At(c, "update")
      /\ cpu_cycles_map' \in Updated(cpu_cycles_map, c, g, init_stats)
      /\ replaced' = IF Present(cpu_cycles_map, g) THEN replaced \cup {g} ELSE replaced
      /\ lost' = [lost EXCEPT ![g] = IF Full(g) THEN @ + 1 ELSE @]
      /\ cpu' = [cpu EXCEPT ![c].pc = "event"]
      /\ UNCHANGED <<cpu_events, samples>>
  BY DEF Insert, Inserted, Slot, Full
<1>2. cpu[c] \in Busy /\ g \in Cgroups /\ cpu[c].stats = {}
  <2>1. ~At(c, "idle")
    BY <1>1 DEF At
  <2> QED BY <1>1, <2>1, BusyFacts DEF Shape
<1>3. /\ cpu'[c].pc = "event" /\ cpu'[c].cgroup = g /\ cpu'[c].stats = {}
      /\ cpu' \in [Cpus -> Busy \cup {Idle}] /\ Others(c)
  BY <1>1, <1>2 DEF Shape, Others, Busy
<1> HIDE DEF g
<1>4. /\ IsBpfMap(cpu_cycles_map', Cgroups, cpu_stats, Elems, Cpus)
      /\ Disjoint(cpu_cycles_map')
      /\ Full(g) => cpu_cycles_map' = cpu_cycles_map
      /\ ~Full(g) => \E e : Takes(c, g, e)
  BY <1>1, <1>2, InsertedMap
<1>5. \A d \in Cpus : /\ At(d, "update")' => cpu'[d].stats = {}
                      /\ At(d, "cycles")' \/ At(d, "clock")' => cpu'[d].stats # {}
  BY <1>3 DEF Shape, Others, At
<1>6. replaced' \subseteq Cgroups /\ IsFiniteSet(replaced')
  BY <1>1, <1>2, FS_AddElement DEF Shape
<1>7. lost' \in [Cgroups -> Nat]
  BY <1>1, <1>2 DEF Shape
<1>8. Shape'
  BY <1>1, <1>3, <1>4, <1>5, <1>6, <1>7 DEF Shape
<1> QED BY <1>1, <1>2, <1>3, <1>4, <1>8 DEF g

(* What an event says.                                                     *)
LEMMA EventIs ==
    ASSUME Shape, NEW c \in Cpus, At(c, "event")
    PROVE  /\ EventOf(c).cgroup = cpu[c].cgroup
           /\ cpu[c].stats = {} => EventOf(c).cycles = 1
           /\ \A e : cpu[c].stats = {e} => EventOf(c).cycles = cpu_cycles_map.value[e].cycles
<1>1. ASSUME NEW e, cpu[c].stats = {e}
      PROVE  EventOf(c).cycles = cpu_cycles_map.value[e].cycles
  <2> DEFINE n == cpu_cycles_map.value[e].cycles
  <2>1. {cpu_cycles_map.value[f].cycles : f \in cpu[c].stats} = {n}
    BY <1>1
  <2>2. (CHOOSE x \in {n} : TRUE) = n
    OBVIOUS
  <2> HIDE DEF n
  <2>3. cpu[c].stats # {}
    BY <1>1
  <2> QED BY <2>1, <2>2, <2>3 DEF EventOf, n
<1> QED BY <1>1 DEF EventOf

(* What the end of a sample changes.                                       *)
LEMMA EventStep ==
    ASSUME Shape, NEW c \in Cpus, Event(c)
    PROVE  /\ Shape' /\ At(c, "event") /\ Others(c) /\ cpu'[c] = Idle
           /\ cpu_events' = cpu_events \cup {EventOf(c)} \/ cpu_events' = cpu_events
           /\ UNCHANGED <<cpu_cycles_map, samples, lost, replaced>>
<1>1. /\ At(c, "event") /\ cpu' = [cpu EXCEPT ![c] = Idle]
      /\ cpu_events' = cpu_events \cup {EventOf(c)} \/ cpu_events' = cpu_events
      /\ UNCHANGED <<cpu_cycles_map, samples, lost, replaced>>
  BY DEF Event
<1>2. cpu' \in [Cpus -> Busy \cup {Idle}] /\ Others(c) /\ cpu'[c] = Idle
  BY <1>1 DEF Shape, Others
<1>3. \A d \in Cpus : /\ At(d, "update")' => cpu'[d].stats = {}
                      /\ At(d, "cycles")' \/ At(d, "clock")' => cpu'[d].stats # {}
  BY <1>2 DEF Shape, Others, At, Idle
<1>4. EventOf(c) \in [cgroup : Cgroups, cycles : Nat]
  <2>1. ~At(c, "idle")
    BY <1>1 DEF At
  <2>2. EventOf(c).cgroup \in Cgroups
    BY <1>1, <2>1, BusyFacts, EventIs
  <2>3. EventOf(c).cycles \in Nat
    <3>1. CASE cpu[c].stats = {}
      BY <1>1, <3>1, EventIs
    <3>2. CASE cpu[c].stats # {}
      <4>1. PICK e \in Elems : cpu[c].stats = {e}
        BY <2>1, <3>2, BusyFacts
      <4> QED BY <1>1, <4>1, EventIs, CounterTypes
    <3> QED BY <3>1, <3>2
  <2>4. EventOf(c) = [cgroup |-> EventOf(c).cgroup, cycles |-> EventOf(c).cycles]
    BY DEF EventOf
  <2> QED BY <2>2, <2>3, <2>4
<1>5. cpu_events' \subseteq [cgroup : Cgroups, cycles : Nat]
  BY <1>1, <1>4 DEF Shape
<1>6. Shape'
  BY <1>1, <1>2, <1>3, <1>5 DEF Shape
<1> QED BY <1>1, <1>2, <1>6

(* Every step preserves the types.                                         *)
LEMMA ShapeStep ==
    ASSUME Shape, [Next]_vars
    PROVE  Shape'
<1>1. CASE UNCHANGED vars
  BY <1>1 DEF vars, Shape, At
<1>2. CASE Next
  BY <1>2, SampleStep, AddCyclesStep, AddClockStep, InsertStep, EventStep DEF Next
<1> QED BY <1>1, <1>2

-----------------------------------------------------------------------------
(* How many CPUs two sets have that differ in c at most.                   *)
LEMMA CpuSets ==
    ASSUME NEW S \in SUBSET Cpus, NEW T \in SUBSET Cpus, NEW c \in Cpus,
           \A d \in Cpus \ {c} : d \in S <=> d \in T
    PROVE  /\ Cardinality(S) \in Nat /\ Cardinality(T) \in Nat
           /\ c \in S /\ c \notin T => Cardinality(S) = Cardinality(T) + 1
           /\ c \notin S /\ c \in T => Cardinality(T) = Cardinality(S) + 1
           /\ (c \in S <=> c \in T) => Cardinality(S) = Cardinality(T)
<1>1. IsFiniteSet(S) /\ IsFiniteSet(T)
  BY FiniteAssumption, FS_Subset
<1>2. Cardinality(S) \in Nat /\ Cardinality(T) \in Nat
  BY <1>1, FS_CardinalityType
<1>3. ASSUME c \in S, c \notin T
      PROVE  Cardinality(S) = Cardinality(T) + 1
  <2>1. S = T \cup {c}
    BY <1>3
  <2> QED BY <1>1, <1>3, <2>1, FS_AddElement
<1>4. ASSUME c \notin S, c \in T
      PROVE  Cardinality(T) = Cardinality(S) + 1
  <2>1. T = S \cup {c}
    BY <1>4
  <2> QED BY <1>1, <1>4, <2>1, FS_AddElement
<1>5. ASSUME c \in S <=> c \in T
      PROVE  S = T
  BY <1>5
<1> QED BY <1>2, <1>3, <1>4, <1>5

(* A CPU with a sample of g that is not counted yet.                       *)
Waits(c, g) == (At(c, "update") \/ At(c, "cycles")) /\ cpu[c].cgroup = g
Waiting(g) == {c \in Cpus : Waits(c, g)}

(* The CPUs between the two additions to the element e.                    *)
Holds(c, e) == ~At(c, "idle") /\ e \in cpu[c].stats
Clocking(e) == {c \in Cpus : At(c, "clock") /\ e \in cpu[c].stats}

(* How many samples of g are not counted yet, when one CPU moves.          *)
LEMMA WaitingStep ==
    ASSUME NEW c \in Cpus, Others(c), NEW g
    PROVE  /\ Cardinality(Waiting(g)) \in Nat /\ Cardinality(Waiting(g)') \in Nat
           /\ Waits(c, g) /\ ~Waits(c, g)' =>
                 Cardinality(Waiting(g)) = Cardinality(Waiting(g)') + 1
           /\ ~Waits(c, g) /\ Waits(c, g)' =>
                 Cardinality(Waiting(g)') = Cardinality(Waiting(g)) + 1
           /\ (Waits(c, g) <=> Waits(c, g)') =>
                 Cardinality(Waiting(g)') = Cardinality(Waiting(g))
<1>1. Waiting(g) \in SUBSET Cpus /\ Waiting(g)' \in SUBSET Cpus
  BY DEF Waiting
<1>2. \A d \in Cpus \ {c} : Waits(d, g) <=> Waits(d, g)'
  BY DEF Waits, At, Others
<1>3. \A d \in Cpus : /\ d \in Waiting(g) <=> Waits(d, g)
                      /\ d \in Waiting(g)' <=> Waits(d, g)'
  BY DEF Waiting
<1> QED BY <1>1, <1>2, <1>3, CpuSets

(* The same for the CPUs between the two additions.                        *)
LEMMA ClockingStep ==
    ASSUME NEW c \in Cpus, Others(c), NEW e
    PROVE  /\ Cardinality(Clocking(e)) \in Nat /\ Cardinality(Clocking(e)') \in Nat
           /\ c \in Clocking(e) /\ c \notin Clocking(e)' =>
                 Cardinality(Clocking(e)) = Cardinality(Clocking(e)') + 1
           /\ c \notin Clocking(e) /\ c \in Clocking(e)' =>
                 Cardinality(Clocking(e)') = Cardinality(Clocking(e)) + 1
           /\ (c \in Clocking(e) <=> c \in Clocking(e)') =>
                 Cardinality(Clocking(e)') = Cardinality(Clocking(e))
<1>1. Clocking(e) \in SUBSET Cpus /\ Clocking(e)' \in SUBSET Cpus
  BY DEF Clocking
<1>2. \A d \in Cpus \ {c} : d \in Clocking(e) <=> d \in Clocking(e)'
  BY DEF Clocking, At, Others
<1> QED BY <1>1, <1>2, CpuSets

(* What the actions do to the samples that are not counted yet.            *)
LEMMA WaitingMoves ==
    ASSUME Shape, NEW c \in Cpus
    PROVE  /\ \A g \in Cgroups : Sample(c, g) =>
                 \A h : ~Waits(c, h) /\ (Waits(c, h)' <=> h = g)
           /\ AddCycles(c) \/ Insert(c) =>
                 \A h : (Waits(c, h) <=> h = cpu[c].cgroup) /\ ~Waits(c, h)'
           /\ AddClock(c) \/ Event(c) => \A h : ~Waits(c, h) /\ ~Waits(c, h)'
<1>1. ASSUME NEW g \in Cgroups, Sample(c, g)
      PROVE  \A h : ~Waits(c, h) /\ (Waits(c, h)' <=> h = g)
  BY <1>1, SampleStep DEF Waits, At
<1>2. ASSUME AddCycles(c)
      PROVE  \A h : (Waits(c, h) <=> h = cpu[c].cgroup) /\ ~Waits(c, h)'
  BY <1>2, AddCyclesStep DEF Waits, At, Moves
<1>3. ASSUME Insert(c)
      PROVE  \A h : (Waits(c, h) <=> h = cpu[c].cgroup) /\ ~Waits(c, h)'
  BY <1>3, InsertStep DEF Waits, At
<1>4. ASSUME AddClock(c)
      PROVE  \A h : ~Waits(c, h) /\ ~Waits(c, h)'
  BY <1>4, AddClockStep DEF Waits, At, Moves
<1>5. ASSUME Event(c)
      PROVE  \A h : ~Waits(c, h) /\ ~Waits(c, h)'
  BY <1>5, EventStep DEF Waits, At, Idle
<1> QED BY <1>1, <1>2, <1>3, <1>4, <1>5

-----------------------------------------------------------------------------
(* The element e is the entry of g, or the pointer of one of its samples.  *)
Owns(g, e) ==
    \/ g \in DOMAIN cpu_cycles_map.slot /\ cpu_cycles_map.slot[g] = e
    \/ \E c \in Cpus : Holds(c, e) /\ cpu[c].cgroup = g

(* A cgroup comes by an element only through the insertion of its entry.   *)
LEMMA OwnsStep ==
    ASSUME Shape, Next, NEW g, NEW e, Owns(g, e)'
    PROVE  Owns(g, e) \/ \E c \in Cpus : Insert(c) /\ g = cpu[c].cgroup /\ Takes(c, g, e)
<1> DEFINE Entry == g \in DOMAIN cpu_cycles_map.slot /\ cpu_cycles_map.slot[g] = e
<1>1. ASSUME NEW c \in Cpus, Others(c), cpu_cycles_map'.slot = cpu_cycles_map.slot,
             Holds(c, e)' /\ cpu'[c].cgroup = g => Owns(g, e)
      PROVE  Owns(g, e)
  BY <1>1 DEF Owns, Others, Holds, At
<1>2. ASSUME NEW c \in Cpus, NEW h \in Cgroups, Sample(c, h)
      PROVE  Owns(g, e)
  <2>1. /\ Others(c) /\ cpu_cycles_map' = cpu_cycles_map
        /\ cpu'[c].cgroup = h /\ cpu'[c].stats = Slot(h)
    BY <1>2, SampleStep
  <2>2. Holds(c, e)' /\ cpu'[c].cgroup = g => Owns(g, e)
    BY <2>1 DEF Holds, Slot, Present, Owns
  <2> QED BY <1>1, <2>1, <2>2
<1>3. ASSUME NEW c \in Cpus, NEW f, NEW pc, ~At(c, "idle"), Writes(f), Moves(c, f, pc)
      PROVE  Owns(g, e)
  <2>1. Holds(c, e)' /\ cpu'[c].cgroup = g => Owns(g, e)
    BY <1>3 DEF Holds, Moves, Owns
  <2> QED BY <1>1, <1>3, <2>1 DEF Writes, Moves
<1>4. ASSUME NEW c \in Cpus, AddCycles(c)
      PROVE  Owns(g, e)
  <2>1. ~At(c, "idle") /\ \E f \in Elems : Writes(f) /\ Moves(c, f, "clock")
    BY <1>4, AddCyclesStep DEF At
  <2> QED BY <1>3, <2>1
<1>5. ASSUME NEW c \in Cpus, AddClock(c)
      PROVE  Owns(g, e)
  <2>1. ~At(c, "idle") /\ \E f \in Elems : Writes(f) /\ Moves(c, f, "event")
    BY <1>5, AddClockStep DEF At
  <2> QED BY <1>3, <2>1
<1>6. ASSUME NEW c \in Cpus, Insert(c), ~(g = cpu[c].cgroup /\ Takes(c, g, e))
      PROVE  Owns(g, e)
  <2>0. PICK h : h = cpu[c].cgroup
    OBVIOUS
  <2>1. /\ Others(c) /\ cpu'[c].stats = {}
        /\ Full(h) => cpu_cycles_map' = cpu_cycles_map
        /\ ~Full(h) => \E f : Takes(c, h, f)
    BY <1>6, <2>0, InsertStep
  <2>2. ~Holds(c, e)'
    BY <2>1 DEF Holds
  <2>3. CASE Full(h)
    BY <1>1, <2>1, <2>2, <2>3
  <2>4. CASE ~Full(h)
    <3>1. PICK f : Takes(c, h, f)
      BY <2>1, <2>4
    <3>2. CASE \E d \in Cpus : Holds(d, e)' /\ cpu'[d].cgroup = g
      BY <2>1, <2>2, <3>2 DEF Owns, Others, Holds, At
    <3>3. CASE g \in DOMAIN cpu_cycles_map'.slot /\ cpu_cycles_map'.slot[g] = e
      <4>1. g # h
        <5>1. ASSUME g = h
              PROVE  f = e
          BY <3>1, <3>3, <5>1 DEF Takes
        <5> QED BY <1>6, <2>0, <3>1, <5>1
      <4>2. g \in DOMAIN cpu_cycles_map.slot /\ cpu_cycles_map.slot[g] = e
        BY <3>1, <3>3, <4>1 DEF Takes
      <4> QED BY <4>2 DEF Owns
    <3> QED BY <3>2, <3>3 DEF Owns
  <2> QED BY <2>3, <2>4
<1>7. ASSUME NEW c \in Cpus, Event(c)
      PROVE  Owns(g, e)
  <2>1. Others(c) /\ cpu_cycles_map' = cpu_cycles_map /\ ~Holds(c, e)'
    BY <1>7, EventStep DEF Holds, At, Idle
  <2> QED BY <1>1, <2>1
<1> QED BY <1>2, <1>4, <1>5, <1>6, <1>7 DEF Next

-----------------------------------------------------------------------------
(***************************************************************************)
(* The types, with what bounds the history variables: every sample of a    *)
(* cgroup is lost, waits or is counted, and an element that has an owner   *)
(* has had an entry put in it, which counts one sample already.            *)
(***************************************************************************)
TypeInvariant ==
    /\ \A g \in Cgroups : /\ lost[g] + Cardinality(Waiting(g)) <= samples[g]
                          /\ samples[g] <= MaxSamples
    /\ \A c \in Cpus : ~At(c, "idle") => samples[cpu[c].cgroup] > 0
    /\ \A g \in Cgroups, e \in Elems : Owns(g, e) => cpu_cycles_map.value[e].cycles > 0
    /\ \A event \in cpu_events : event.cycles > 0

(* What every step does to the counters of an element.                     *)
LEMMA CyclesGrow ==
    ASSUME Shape, Next, NEW e \in Elems
    PROVE  /\ cpu_cycles_map.value[e].cycles > 0 => cpu_cycles_map'.value[e].cycles > 0
           /\ \A c \in Cpus : \A g : Takes(c, g, e) => cpu_cycles_map'.value[e] = init_stats
<1>0. /\ cpu_cycles_map.value[e].cycles \in Nat
      /\ cpu_cycles_map.value \in [Elems -> cpu_stats]
  BY CounterTypes, MapFacts
<1>1. \A c \in Cpus : \A g : Takes(c, g, e) => cpu_cycles_map'.value[e] = init_stats
  BY <1>0 DEF Takes
<1>2. ASSUME NEW c \in Cpus, NEW g \in Cgroups, Sample(c, g)
      PROVE  cpu_cycles_map'.value[e] = cpu_cycles_map.value[e]
  BY <1>2, SampleStep
<1>3. ASSUME NEW c \in Cpus, AddCycles(c)
      PROVE  cpu_cycles_map.value[e].cycles > 0 => cpu_cycles_map'.value[e].cycles > 0
  <2>1. \E f \in Elems : Writes(f) /\ cpu_cycles_map'.value[f].cycles = cpu_cycles_map.value[f].cycles + 1
    BY <1>3, AddCyclesStep
  <2> QED BY <1>0, <2>1 DEF Writes
<1>4. ASSUME NEW c \in Cpus, AddClock(c)
      PROVE  cpu_cycles_map.value[e].cycles > 0 => cpu_cycles_map'.value[e].cycles > 0
  <2>1. \E f \in Elems : Writes(f) /\ cpu_cycles_map'.value[f].cycles = cpu_cycles_map.value[f].cycles
    BY <1>4, AddClockStep
  <2> QED BY <1>0, <2>1 DEF Writes
<1>5. ASSUME NEW c \in Cpus, Insert(c)
      PROVE  cpu_cycles_map.value[e].cycles > 0 => cpu_cycles_map'.value[e].cycles > 0
  <2>0. PICK g : g = cpu[c].cgroup
    OBVIOUS
  <2>1. cpu_cycles_map' = cpu_cycles_map \/ \E f : Takes(c, g, f)
    BY <1>5, <2>0, InsertStep
  <2>2. ASSUME NEW f, Takes(c, g, f)
        PROVE  \/ cpu_cycles_map'.value[e] = init_stats
               \/ cpu_cycles_map'.value[e] = cpu_cycles_map.value[e]
    BY <1>0, <2>2 DEF Takes
  <2>3. init_stats.cycles > 0
    BY DEF init_stats
  <2> QED BY <2>1, <2>2, <2>3
<1>6. ASSUME NEW c \in Cpus, Event(c)
      PROVE  cpu_cycles_map'.value[e] = cpu_cycles_map.value[e]
  BY <1>6, EventStep
<1> QED BY <1>1, <1>2, <1>3, <1>4, <1>5, <1>6 DEF Next

(* The samples of a cgroup never get fewer.                                *)
LEMMA SamplesGrow ==
    ASSUME Shape, Next
    PROVE  /\ \A g \in Cgroups : samples[g] \in Nat /\ samples'[g] \in Nat /\ samples'[g] >= samples[g]
           /\ \A c \in Cpus, g \in Cgroups : Sample(c, g) => samples'[g] = samples[g] + 1
           /\ \A c \in Cpus : ~At(c, "idle")' => /\ cpu'[c].cgroup \in Cgroups
                                                 /\ \/ ~At(c, "idle") /\ cpu'[c].cgroup = cpu[c].cgroup
                                                    \/ Sample(c, cpu'[c].cgroup)
<1>0. samples \in [Cgroups -> Nat] /\ Shape'
  BY ShapeStep DEF Shape
<1>1. \A c \in Cpus, g \in Cgroups : Sample(c, g) =>
          samples'[g] = samples[g] + 1 /\ \A h \in Cgroups : samples'[h] >= samples[h] /\ samples'[h] \in Nat
  BY <1>0, SampleStep
<1>2. ASSUME NEW c \in Cpus, AddCycles(c) \/ AddClock(c) \/ Insert(c) \/ Event(c)
      PROVE  samples' = samples
  BY <1>2, AddCyclesStep, AddClockStep, InsertStep, EventStep
<1>3. \A g \in Cgroups : samples[g] \in Nat /\ samples'[g] \in Nat /\ samples'[g] >= samples[g]
  BY <1>0, <1>1, <1>2 DEF Next
<1>4. ASSUME NEW d \in Cpus, ~At(d, "idle")'
      PROVE  /\ cpu'[d].cgroup \in Cgroups
             /\ \/ ~At(d, "idle") /\ cpu'[d].cgroup = cpu[d].cgroup
                \/ Sample(d, cpu'[d].cgroup)
  <2>1. cpu'[d].cgroup \in Cgroups
    <3>1. cpu' \in [Cpus -> Busy \cup {Idle}]
      BY <1>0 DEF Shape
    <3> QED BY <1>4, <3>1 DEF At, Idle, Busy
  <2>2. ASSUME NEW c \in Cpus, Others(c), c # d
        PROVE  ~At(d, "idle") /\ cpu'[d].cgroup = cpu[d].cgroup
    BY <1>4, <2>2 DEF Others, At
  <2>3. ASSUME NEW c \in Cpus, NEW g \in Cgroups, Sample(c, g)
        PROVE  \/ ~At(d, "idle") /\ cpu'[d].cgroup = cpu[d].cgroup
               \/ Sample(d, cpu'[d].cgroup)
    <3>1. Others(c) /\ cpu'[c].cgroup = g
      BY <2>3, SampleStep
    <3> QED BY <2>2, <2>3, <3>1
  <2>4. ASSUME NEW c \in Cpus, AddCycles(c)
        PROVE  ~At(d, "idle") /\ cpu'[d].cgroup = cpu[d].cgroup
    <3>1. Others(c) /\ ~At(c, "idle") /\ cpu'[c].cgroup = cpu[c].cgroup
      BY <2>4, AddCyclesStep DEF Moves, At
    <3> QED BY <2>2, <3>1
  <2>5. ASSUME NEW c \in Cpus, AddClock(c)
        PROVE  ~At(d, "idle") /\ cpu'[d].cgroup = cpu[d].cgroup
    <3>1. Others(c) /\ ~At(c, "idle") /\ cpu'[c].cgroup = cpu[c].cgroup
      BY <2>5, AddClockStep DEF Moves, At
    <3> QED BY <2>2, <3>1
  <2>6. ASSUME NEW c \in Cpus, Insert(c)
        PROVE  ~At(d, "idle") /\ cpu'[d].cgroup = cpu[d].cgroup
    <3>1. Others(c) /\ ~At(c, "idle") /\ cpu'[c].cgroup = cpu[c].cgroup
      BY <2>6, InsertStep DEF At
    <3> QED BY <2>2, <3>1
  <2>7. ASSUME NEW c \in Cpus, Event(c)
        PROVE  ~At(d, "idle") /\ cpu'[d].cgroup = cpu[d].cgroup
    <3>1. Others(c) /\ cpu'[c] = Idle
      BY <2>7, EventStep
    <3> QED BY <1>4, <2>2, <3>1 DEF At, Idle
  <2> QED BY <2>1, <2>3, <2>4, <2>5, <2>6, <2>7 DEF Next
<1> QED BY <1>1, <1>3, <1>4

(* A lost sample waited before.                                            *)
LEMMA LostStep ==
    ASSUME Shape, Next, NEW g \in Cgroups
    PROVE  lost[g] + Cardinality(Waiting(g)) <= samples[g] =>
              lost'[g] + Cardinality(Waiting(g)') <= samples'[g]
<1>0. lost \in [Cgroups -> Nat] /\ samples \in [Cgroups -> Nat]
  BY DEF Shape
<1> DEFINE n == Cardinality(Waiting(g))
           m == Cardinality(Waiting(g)')
<1>1. ASSUME NEW c \in Cpus, NEW h \in Cgroups, Sample(c, h)
      PROVE  lost[g] + n <= samples[g] => lost'[g] + m <= samples'[g]
  <2>1. Others(c) /\ samples' = [samples EXCEPT ![h] = @ + 1] /\ lost' = lost
    BY <1>1, SampleStep
  <2>2. ~Waits(c, g) /\ (Waits(c, g)' <=> g = h)
    BY <1>1, WaitingMoves
  <2>3. n \in Nat /\ m \in Nat /\ m = IF g = h THEN n + 1 ELSE n
    BY <2>1, <2>2, WaitingStep
  <2> HIDE DEF n, m
  <2> QED BY <1>0, <2>1, <2>3
<1>2. ASSUME NEW c \in Cpus, AddCycles(c)
      PROVE  lost[g] + n <= samples[g] => lost'[g] + m <= samples'[g]
  <2>1. Others(c) /\ samples' = samples /\ lost' = lost
    BY <1>2, AddCyclesStep DEF Moves
  <2>2. ~Waits(c, g)'
    BY <1>2, WaitingMoves
  <2>3. n \in Nat /\ m \in Nat /\ m <= n
    BY <2>1, <2>2, WaitingStep
  <2> HIDE DEF n, m
  <2> QED BY <1>0, <2>1, <2>3
<1>3. ASSUME NEW c \in Cpus, Insert(c)
      PROVE  lost[g] + n <= samples[g] => lost'[g] + m <= samples'[g]
  <2>0. PICK h : h = cpu[c].cgroup
    OBVIOUS
  <2>1. /\ Others(c) /\ h \in Cgroups /\ samples' = samples
        /\ lost' = [lost EXCEPT ![h] = IF Full(h) THEN @ + 1 ELSE @]
    BY <1>3, <2>0, InsertStep
  <2>2. (Waits(c, g) <=> g = h) /\ ~Waits(c, g)'
    BY <1>3, <2>0, WaitingMoves
  <2>3. n \in Nat /\ m \in Nat /\ n = IF g = h THEN m + 1 ELSE m
    BY <2>1, <2>2, WaitingStep
  <2> HIDE DEF n, m
  <2> QED BY <1>0, <2>1, <2>3
<1>4. ASSUME NEW c \in Cpus, AddClock(c) \/ Event(c)
      PROVE  lost[g] + n <= samples[g] => lost'[g] + m <= samples'[g]
  <2>1. Others(c) /\ samples' = samples /\ lost' = lost
    BY <1>4, AddClockStep, EventStep DEF Moves
  <2>2. m = n
    BY <1>4, <2>1, WaitingMoves, WaitingStep
  <2> QED BY <2>1, <2>2
<1> QED BY <1>1, <1>2, <1>3, <1>4 DEF Next

(* A pointer that an event is read through has an owner.                   *)
LEMMA HolderOwns ==
    ASSUME NEW c \in Cpus, ~At(c, "idle"), NEW e \in cpu[c].stats
    PROVE  Owns(cpu[c].cgroup, e)
BY DEF Owns, Holds

(* Every step preserves the invariant.                                     *)
LEMMA TypeStep ==
    ASSUME Shape, TypeInvariant, Next
    PROVE  TypeInvariant'
<1>1. ASSUME NEW g \in Cgroups
      PROVE  lost'[g] + Cardinality(Waiting(g)') <= samples'[g]
  BY LostStep DEF TypeInvariant
<1>2. ASSUME NEW g \in Cgroups
      PROVE  samples'[g] <= MaxSamples
  <2>1. samples \in [Cgroups -> Nat] /\ MaxSamples \in Nat /\ samples[g] <= MaxSamples
    BY PeriodAssumption DEF Shape, TypeInvariant
  <2>2. ASSUME NEW c \in Cpus, NEW h \in Cgroups, Sample(c, h)
        PROVE  samples'[g] <= MaxSamples
    <3>1. samples[h] < MaxSamples /\ samples' = [samples EXCEPT ![h] = @ + 1]
      BY <2>2, SampleStep
    <3> QED BY <2>1, <3>1
  <2>3. ASSUME NEW c \in Cpus, AddCycles(c) \/ AddClock(c) \/ Insert(c) \/ Event(c)
        PROVE  samples' = samples
    BY <2>3, AddCyclesStep, AddClockStep, InsertStep, EventStep
  <2> QED BY <2>1, <2>2, <2>3 DEF Next
<1>3. ASSUME NEW c \in Cpus, ~At(c, "idle")'
      PROVE  samples'[cpu'[c].cgroup] > 0
  <2>0. PICK g : g = cpu'[c].cgroup
    OBVIOUS
  <2>1. /\ g \in Cgroups
        /\ \/ ~At(c, "idle") /\ g = cpu[c].cgroup
           \/ Sample(c, g)
    BY <1>3, <2>0, SamplesGrow
  <2>2. samples[g] \in Nat /\ samples'[g] \in Nat /\ samples'[g] >= samples[g]
        /\ (Sample(c, g) => samples'[g] = samples[g] + 1)
    BY <2>1, SamplesGrow
  <2>3. ~At(c, "idle") /\ g = cpu[c].cgroup => samples[g] > 0
    BY DEF TypeInvariant
  <2> QED BY <2>0, <2>1, <2>2, <2>3
<1>4. ASSUME NEW g \in Cgroups, NEW e \in Elems, Owns(g, e)'
      PROVE  cpu_cycles_map'.value[e].cycles > 0
  <2>1. CASE Owns(g, e)
    BY <2>1, CyclesGrow DEF TypeInvariant
  <2>2. CASE \E c \in Cpus : Takes(c, g, e)
    BY <2>2, CyclesGrow DEF init_stats
  <2> QED BY <1>4, <2>1, <2>2, OwnsStep
<1>5. ASSUME NEW event \in cpu_events', event \notin cpu_events
      PROVE  event.cycles > 0
  <2>1. PICK c \in Cpus : Event(c)
    BY <1>5, SampleStep, AddCyclesStep, AddClockStep, InsertStep DEF Next
  <2>2. At(c, "event") /\ ~At(c, "idle") /\ event = EventOf(c)
    BY <1>5, <2>1, EventStep DEF At
  <2>3. CASE cpu[c].stats = {}
    BY <2>2, <2>3, EventIs
  <2>4. CASE cpu[c].stats # {}
    <3>1. PICK e \in Elems : cpu[c].stats = {e}
      BY <2>2, <2>4, BusyFacts
    <3>2. cpu[c].cgroup \in Cgroups /\ Owns(cpu[c].cgroup, e)
      BY <2>2, <3>1, BusyFacts, HolderOwns
    <3> QED BY <2>2, <3>1, <3>2, EventIs DEF TypeInvariant
  <2> QED BY <2>3, <2>4
<1> QED BY <1>1, <1>2, <1>3, <1>4, <1>5 DEF TypeInvariant

(* The invariant holds of the empty map.                                   *)
LEMMA InitTypes ==
    ASSUME Init
    PROVE  TypeInvariant
<1>1. \A c \in Cpus : At(c, "idle")
  BY InitShape
<1>2. ASSUME NEW g
      PROVE  Cardinality(Waiting(g)) = 0
  <2>1. Waiting(g) = {}
    BY <1>1 DEF Waiting, Waits, At
  <2> QED BY <2>1, FS_EmptySet
<1>3. \A g, e : ~Owns(g, e)
  BY <1>1, InitShape DEF Owns, Holds
<1> QED BY <1>1, <1>2, <1>3, PeriodAssumption DEF Init, TypeInvariant

(* The variables keep their types (measure_cpu_cycles), and no more        *)
(* samples are lost than were taken.                                       *)
THEOREM TypeCorrect == Spec => []TypeOK
<1>1. Init => Shape /\ TypeInvariant
  BY InitShape, InitTypes
<1>2. Shape /\ TypeInvariant /\ [Next]_vars => (Shape /\ TypeInvariant)'
  <2> SUFFICES ASSUME Shape, TypeInvariant, [Next]_vars PROVE (Shape /\ TypeInvariant)'
    OBVIOUS
  <2>1. CASE UNCHANGED vars
    BY <2>1, ShapeStep DEF vars, TypeInvariant, Owns, Holds, Waiting, Waits, At
  <2>2. CASE Next
    BY <2>2, ShapeStep, TypeStep
  <2> QED BY <2>1, <2>2
<1>3. Shape /\ TypeInvariant => TypeOK
  <2> SUFFICES ASSUME Shape, TypeInvariant PROVE TypeOK
    OBVIOUS
  <2>1. samples \in [Cgroups -> Nat] /\ lost \in [Cgroups -> Nat] /\ MaxSamples \in Nat
    BY PeriodAssumption DEF Shape
  <2>2. ASSUME NEW g \in Cgroups
        PROVE  samples[g] \in 0 .. MaxSamples /\ lost[g] \in 0 .. MaxSamples
    <3>1. Waiting(g) \in SUBSET Cpus
      BY DEF Waiting
    <3>2. Cardinality(Waiting(g)) \in Nat
      BY <3>1, FiniteAssumption, FS_Subset, FS_CardinalityType
    <3>3. lost[g] + Cardinality(Waiting(g)) <= samples[g] /\ samples[g] <= MaxSamples
      BY DEF TypeInvariant
    <3> QED BY <2>1, <3>2, <3>3
  <2>3. samples \in [Cgroups -> 0 .. MaxSamples] /\ lost \in [Cgroups -> 0 .. MaxSamples]
    BY <2>1, <2>2
  <2>4. ASSUME NEW event \in cpu_events
        PROVE  event \in cpu_event
    <3>1. event \in [cgroup : Cgroups, cycles : Nat] /\ event.cycles > 0
      BY DEF Shape, TypeInvariant
    <3> QED BY <3>1 DEF cpu_event
  <2> QED BY <2>3, <2>4 DEF Shape, TypeOK
<1> QED BY <1>1, <1>2, <1>3, PTL DEF Spec

-----------------------------------------------------------------------------
(* The cases CountersAgree and EventsNotAhead speak of: the entry of one   *)
(* cgroup at most was replaced.                                            *)
Once == \A g, h \in replaced : g = h

(* The CPUs that found no entry for g and have not inserted one yet.       *)
Inserting(g) == {c \in Cpus : At(c, "update") /\ cpu[c].cgroup = g}

(* A CPU whose extra element is another than at the start has replaced the *)
(* entry of a cgroup, and will not insert for that cgroup again.           *)
UsedInvariant ==
    \A c \in Cpus : cpu_cycles_map.extra[c] # ExtraOf[c] =>
       \E g \in replaced : Present(cpu_cycles_map, g) /\ c \notin Inserting(g)

(* Then an element is put to use once only: one that has an owner is       *)
(* neither free nor an extra element of the start, and has no other owner. *)
OwnersInvariant ==
    Once => \A g \in Cgroups, e \in Elems : Owns(g, e) =>
       /\ e \notin cpu_cycles_map.free
       /\ \A d \in Cpus : cpu_cycles_map.extra[d] = ExtraOf[d] => e # ExtraOf[d]
       /\ \A h \in Cgroups : Owns(h, e) => g = h

(* One replacement at most means that.                                     *)
LEMMA OnceIs ==
    ASSUME Shape, Cardinality(replaced) <= 1
    PROVE  Once
<1>1. ASSUME NEW g \in replaced, NEW h \in replaced, g # h
      PROVE  FALSE
  <2>1. IsFiniteSet(replaced \ {g}) /\ Cardinality(replaced \ {g}) = Cardinality(replaced) - 1
    BY FS_RemoveElement DEF Shape
  <2>2. Cardinality(replaced \ {g}) \in Nat /\ Cardinality(replaced) \in Nat
    BY <2>1, FS_CardinalityType DEF Shape
  <2>3. Cardinality(replaced \ {g}) = 0
    BY <2>1, <2>2
  <2>4. replaced \ {g} = {}
    BY <2>1, <2>3, FS_EmptySet
  <2> QED BY <1>1, <2>4
<1> QED BY <1>1 DEF Once

(* What holds of the replacements after a step held before it.             *)
LEMMA OnceEarlier ==
    ASSUME Shape, Next
    PROVE  replaced \subseteq replaced' /\ (Once' => Once)
<1>1. replaced \subseteq replaced'
  BY SampleStep, AddCyclesStep, AddClockStep, InsertStep, EventStep DEF Next
<1> QED BY <1>1 DEF Once

(* With one cgroup replaced at most, a CPU's extra element is used once.   *)
LEMMA FirstUse ==
    ASSUME Shape, UsedInvariant, NEW c \in Cpus, Insert(c),
           Present(cpu_cycles_map, cpu[c].cgroup), Once'
    PROVE  cpu_cycles_map.extra[c] = ExtraOf[c]
<1>0. PICK g : g = cpu[c].cgroup
  OBVIOUS
<1>1. At(c, "update") /\ replaced' = replaced \cup {g}
  BY <1>0, InsertStep
<1>2. ASSUME NEW h \in replaced, c \notin Inserting(h)
      PROVE  FALSE
  <2>1. c \in Inserting(g)
    BY <1>0, <1>1 DEF Inserting
  <2>2. h # g
    BY <1>2, <2>1
  <2> QED BY <1>1, <2>2 DEF Once
<1> QED BY <1>2 DEF UsedInvariant

(* What the steps do to the free elements, the extra elements and the      *)
(* entries.                                                                *)
LEMMA EntriesStep ==
    ASSUME Shape, Next
    PROVE  /\ cpu_cycles_map'.free \subseteq cpu_cycles_map.free
           /\ DOMAIN cpu_cycles_map.slot \subseteq DOMAIN cpu_cycles_map'.slot
           /\ \A d \in Cpus : cpu_cycles_map'.extra[d] # cpu_cycles_map.extra[d] =>
                 Insert(d) /\ Present(cpu_cycles_map, cpu[d].cgroup)
<1>1. ASSUME NEW c \in Cpus, NEW g \in Cgroups, Sample(c, g)
      PROVE  cpu_cycles_map' = cpu_cycles_map
  BY <1>1, SampleStep
<1>2. ASSUME NEW c \in Cpus, AddCycles(c) \/ AddClock(c)
      PROVE  \E e : Writes(e)
  BY <1>2, AddCyclesStep, AddClockStep
<1>3. ASSUME NEW c \in Cpus, Insert(c)
      PROVE  /\ cpu_cycles_map'.free \subseteq cpu_cycles_map.free
             /\ DOMAIN cpu_cycles_map.slot \subseteq DOMAIN cpu_cycles_map'.slot
             /\ \A d \in Cpus : cpu_cycles_map'.extra[d] # cpu_cycles_map.extra[d] =>
                   Insert(d) /\ Present(cpu_cycles_map, cpu[d].cgroup)
  <2>0. PICK g : g = cpu[c].cgroup
    OBVIOUS
  <2>1. cpu_cycles_map' = cpu_cycles_map \/ \E e : Takes(c, g, e)
    BY <1>3, <2>0, InsertStep
  <2>2. ASSUME NEW e, Takes(c, g, e)
        PROVE  /\ cpu_cycles_map'.free \subseteq cpu_cycles_map.free
               /\ DOMAIN cpu_cycles_map.slot \subseteq DOMAIN cpu_cycles_map'.slot
               /\ \A d \in Cpus : cpu_cycles_map'.extra[d] # cpu_cycles_map.extra[d] =>
                     d = c /\ Present(cpu_cycles_map, g)
    BY <2>2, MapFacts DEF Takes
  <2> QED BY <1>3, <2>0, <2>1, <2>2
<1>4. ASSUME NEW c \in Cpus, Event(c)
      PROVE  cpu_cycles_map' = cpu_cycles_map
  BY <1>4, EventStep
<1> QED BY <1>1, <1>2, <1>3, <1>4 DEF Next, Writes

(* A CPU comes to insert an entry for a cgroup only while it has none.     *)
LEMMA InsertingStep ==
    ASSUME Shape, Next, NEW c \in Cpus, NEW g, c \in Inserting(g)'
    PROVE  c \in Inserting(g) \/ ~Present(cpu_cycles_map, g)
<1>0. At(c, "update")' /\ cpu'[c].cgroup = g
  BY DEF Inserting
<1>1. ASSUME NEW d \in Cpus, Others(d), d # c
      PROVE  c \in Inserting(g)
  BY <1>0, <1>1 DEF Others, Inserting, At
<1>2. ASSUME NEW d \in Cpus, NEW h \in Cgroups, Sample(d, h)
      PROVE  c \in Inserting(g) \/ ~Present(cpu_cycles_map, g)
  <2>1. /\ Others(d) /\ cpu'[d].cgroup = h
        /\ cpu'[d].pc = IF Present(cpu_cycles_map, h) THEN "cycles" ELSE "update"
    BY <1>2, SampleStep
  <2> QED BY <1>0, <1>1, <2>1 DEF At
<1>3. ASSUME NEW d \in Cpus, AddCycles(d) \/ AddClock(d) \/ Insert(d) \/ Event(d)
      PROVE  c \in Inserting(g)
  <2>1. Others(d) /\ ~At(d, "update")'
    BY <1>3, AddCyclesStep, AddClockStep, InsertStep, EventStep DEF Moves, At, Idle
  <2> QED BY <1>0, <1>1, <2>1
<1> QED BY <1>2, <1>3 DEF Next

(* Every step preserves what is said of the extra elements in use.         *)
LEMMA UsedStep ==
    ASSUME Shape, UsedInvariant, Next
    PROVE  UsedInvariant'
<1>1. ASSUME NEW c \in Cpus, cpu_cycles_map'.extra[c] # ExtraOf[c]
      PROVE  \E g \in replaced' : Present(cpu_cycles_map, g)' /\ c \notin Inserting(g)'
  <2>1. CASE cpu_cycles_map'.extra[c] = cpu_cycles_map.extra[c]
    <3>1. PICK g \in replaced : Present(cpu_cycles_map, g) /\ c \notin Inserting(g)
      BY <1>1, <2>1 DEF UsedInvariant
    <3>2. c \notin Inserting(g)'
      BY <3>1, InsertingStep
    <3> QED BY <3>1, <3>2, OnceEarlier, EntriesStep DEF Present
  <2>2. CASE cpu_cycles_map'.extra[c] # cpu_cycles_map.extra[c]
    <3>0. PICK g : g = cpu[c].cgroup
      OBVIOUS
    <3>1. Insert(c) /\ Present(cpu_cycles_map, g)
      BY <2>2, <3>0, EntriesStep
    <3>2. g \in replaced' /\ cpu'[c].pc = "event"
      BY <3>0, <3>1, InsertStep
    <3>3. Present(cpu_cycles_map, g)'
      BY <3>1, EntriesStep DEF Present
    <3> QED BY <3>2, <3>3 DEF Inserting, At
  <2> QED BY <2>1, <2>2
<1> QED BY <1>1 DEF UsedInvariant

(* An element an insertion takes had no owner.                             *)
LEMMA TakesUnowned ==
    ASSUME Shape, UsedInvariant, OwnersInvariant, Next, Once',
           NEW c \in Cpus, Insert(c), NEW e, Takes(c, cpu[c].cgroup, e)
    PROVE  \A g \in Cgroups : ~Owns(g, e)
<1>0. PICK h : h = cpu[c].cgroup
  OBVIOUS
<1>1. e \in Elems /\ IF Present(cpu_cycles_map, h) THEN e = cpu_cycles_map.extra[c]
                                                   ELSE e \in cpu_cycles_map.free
  BY <1>0 DEF Takes
<1>2. Once
  BY OnceEarlier
<1>3. CASE Present(cpu_cycles_map, h)
  <2>1. cpu_cycles_map.extra[c] = ExtraOf[c]
    BY <1>0, <1>3, FirstUse
  <2> QED BY <1>1, <1>2, <1>3, <2>1 DEF OwnersInvariant
<1>4. CASE ~Present(cpu_cycles_map, h)
  BY <1>1, <1>2, <1>4 DEF OwnersInvariant
<1> QED BY <1>3, <1>4

(* Every step preserves what is said of the owners.                        *)
LEMMA OwnersStep ==
    ASSUME Shape, UsedInvariant, OwnersInvariant, Next
    PROVE  OwnersInvariant'
<1> DEFINE Fresh(e) == /\ e \notin cpu_cycles_map.free
                       /\ \A d \in Cpus : cpu_cycles_map.extra[d] = ExtraOf[d] => e # ExtraOf[d]
<1>0. SUFFICES ASSUME Once', NEW g \in Cgroups, NEW e \in Elems, Owns(g, e)'
               PROVE  Fresh(e)' /\ \A h \in Cgroups : Owns(h, e)' => g = h
  BY DEF OwnersInvariant
<1>1. Once
  BY <1>0, OnceEarlier
<1>2. /\ cpu_cycles_map'.free \subseteq cpu_cycles_map.free
      /\ \A d \in Cpus : cpu_cycles_map'.extra[d] = ExtraOf[d] => cpu_cycles_map.extra[d] = ExtraOf[d]
  <2>1. \A d \in Cpus : cpu_cycles_map'.extra[d] # cpu_cycles_map.extra[d] =>
            cpu_cycles_map.extra[d] = ExtraOf[d]
    BY <1>0, EntriesStep, FirstUse
  <2> QED BY <2>1, EntriesStep
<1>3. CASE Owns(g, e)
  <2>1. Fresh(e)'
    BY <1>1, <1>2, <1>3 DEF OwnersInvariant
  <2>2. ASSUME NEW h \in Cgroups, Owns(h, e)'
        PROVE  g = h
    <3>1. Owns(h, e)
      BY <1>0, <1>3, <2>2, OwnsStep, TakesUnowned
    <3> QED BY <1>1, <1>3, <3>1 DEF OwnersInvariant
  <2> QED BY <2>1, <2>2
<1>4. CASE ~Owns(g, e)
  <2>1. PICK c \in Cpus : Insert(c) /\ g = cpu[c].cgroup /\ Takes(c, g, e)
    BY <1>0, <1>4, OwnsStep
  <2>2. e \notin cpu_cycles_map'.free /\ \A h \in Cgroups : ~Owns(h, e)
    BY <1>0, <2>1, TakesUnowned DEF Takes
  <2>3. g \in DOMAIN cpu_cycles_map'.slot /\ cpu_cycles_map'.slot[g] = e
    BY <2>1 DEF Takes
  <2>4. \A d \in Cpus : e # cpu_cycles_map'.extra[d]
    <3>1. cpu_cycles_map'.extra \in [Cpus -> Elems] /\ Disjoint(cpu_cycles_map')
      BY ShapeStep DEF Shape, IsBpfMap
    <3> QED BY <2>3, <3>1 DEF Disjoint
  <2>5. ASSUME NEW h \in Cgroups, Owns(h, e)'
        PROVE  g = h
    <3>1. \E d \in Cpus : Takes(d, h, e)
      BY <2>2, <2>5, OwnsStep
    <3>2. h \in DOMAIN cpu_cycles_map'.slot /\ cpu_cycles_map'.slot[h] = e
      BY <3>1 DEF Takes
    <3>3. Disjoint(cpu_cycles_map')
      BY ShapeStep DEF Shape
    <3> QED BY <2>3, <3>2, <3>3 DEF Disjoint
  <2> QED BY <2>2, <2>4, <2>5
<1> QED BY <1>3, <1>4

-----------------------------------------------------------------------------
(* In every element, in use or not, the two counters agree, but for the    *)
(* samples between the two additions to it.                                *)
SumsInvariant ==
    Once => \A e \in Elems :
       Period * cpu_cycles_map.value[e].cycles
          = cpu_cycles_map.value[e].task_clock_ns + Period * Cardinality(Clocking(e))

(* One more of each is a period more.                                      *)
LEMMA Distributes ==
    ASSUME NEW n \in Nat
    PROVE  Period * (n + 1) = Period * n + Period /\ Period * n \in Nat
BY PeriodAssumption

(* Every step preserves it: an entry is put in an element only when nobody *)
(* is between the two additions.                                           *)
LEMMA SumsStep ==
    ASSUME Shape, UsedInvariant, OwnersInvariant, SumsInvariant, Next
    PROVE  SumsInvariant'
<1> DEFINE Good(v, n) == Period * v.cycles = v.task_clock_ns + Period * n
<1>0. SUFFICES ASSUME Once', NEW e \in Elems
               PROVE  Good(cpu_cycles_map'.value[e], Cardinality(Clocking(e)'))
  BY DEF SumsInvariant
<1>1. Once /\ Good(cpu_cycles_map.value[e], Cardinality(Clocking(e)))
  BY <1>0, OnceEarlier DEF SumsInvariant
<1>2. /\ cpu_cycles_map.value[e].cycles \in Nat
      /\ cpu_cycles_map.value[e].task_clock_ns \in Nat
      /\ Period \in Nat
  BY CounterTypes, PeriodAssumption
<1>3. ASSUME NEW c \in Cpus, NEW g \in Cgroups, Sample(c, g)
      PROVE  Good(cpu_cycles_map'.value[e], Cardinality(Clocking(e)'))
  <2>1. Others(c) /\ c \notin Clocking(e) /\ c \notin Clocking(e)' /\ cpu_cycles_map' = cpu_cycles_map
    BY <1>3, SampleStep DEF Clocking, At
  <2>2. Cardinality(Clocking(e)') = Cardinality(Clocking(e))
    BY <2>1, ClockingStep
  <2> QED BY <1>1, <2>1, <2>2
<1>4. ASSUME NEW c \in Cpus, AddCycles(c)
      PROVE  Good(cpu_cycles_map'.value[e], Cardinality(Clocking(e)'))
  <2>1. PICK f \in Elems :
            /\ Writes(f) /\ Moves(c, f, "clock")
            /\ cpu_cycles_map'.value[f].cycles = cpu_cycles_map.value[f].cycles + 1
            /\ cpu_cycles_map'.value[f].task_clock_ns = cpu_cycles_map.value[f].task_clock_ns
    BY <1>4, AddCyclesStep
  <2>2. c \notin Clocking(e) /\ (c \in Clocking(e)' <=> e = f)
    BY <1>4, <2>1, AddCyclesStep DEF Clocking, Moves, At
  <2>3. /\ Cardinality(Clocking(e)) \in Nat
        /\ Cardinality(Clocking(e)') = IF e = f THEN Cardinality(Clocking(e)) + 1
                                                ELSE Cardinality(Clocking(e))
    BY <2>1, <2>2, ClockingStep DEF Moves
  <2>4. CASE e = f
    <3>1. /\ Cardinality(Clocking(e)') = Cardinality(Clocking(e)) + 1
          /\ Cardinality(Clocking(e)) \in Nat
          /\ cpu_cycles_map'.value[e].cycles = cpu_cycles_map.value[e].cycles + 1
          /\ cpu_cycles_map'.value[e].task_clock_ns = cpu_cycles_map.value[e].task_clock_ns
      BY <2>1, <2>3, <2>4
    <3>2. PICK x \in Nat, y \in Nat, n \in Nat :
              /\ x = cpu_cycles_map.value[e].cycles /\ y = cpu_cycles_map.value[e].task_clock_ns
              /\ n = Cardinality(Clocking(e))
      BY <1>2, <3>1
    <3>3. Period * x = y + Period * n
      BY <1>1, <3>2
    <3>4. Period * (x + 1) = y + Period * (n + 1)
      BY <1>2, <3>3, Distributes
    <3> QED BY <3>1, <3>2, <3>4
  <2>5. CASE e # f
    BY <1>1, <2>1, <2>3, <2>5 DEF Writes
  <2> QED BY <2>4, <2>5
<1>5. ASSUME NEW c \in Cpus, AddClock(c)
      PROVE  Good(cpu_cycles_map'.value[e], Cardinality(Clocking(e)'))
  <2>1. PICK f \in Elems :
            /\ Writes(f) /\ Moves(c, f, "event")
            /\ cpu_cycles_map'.value[f].cycles = cpu_cycles_map.value[f].cycles
            /\ cpu_cycles_map'.value[f].task_clock_ns = cpu_cycles_map.value[f].task_clock_ns + Period
    BY <1>5, AddClockStep
  <2>2. (c \in Clocking(e) <=> e = f) /\ c \notin Clocking(e)'
    BY <1>5, <2>1, AddClockStep DEF Clocking, Moves, At
  <2>3. /\ Cardinality(Clocking(e)') \in Nat
        /\ Cardinality(Clocking(e)) = IF e = f THEN Cardinality(Clocking(e)') + 1
                                               ELSE Cardinality(Clocking(e)')
    BY <2>1, <2>2, ClockingStep DEF Moves
  <2>4. CASE e = f
    <3>1. /\ Cardinality(Clocking(e)) = Cardinality(Clocking(e)') + 1
          /\ Cardinality(Clocking(e)') \in Nat
          /\ cpu_cycles_map'.value[e].cycles = cpu_cycles_map.value[e].cycles
          /\ cpu_cycles_map'.value[e].task_clock_ns = cpu_cycles_map.value[e].task_clock_ns + Period
      BY <2>1, <2>3, <2>4
    <3>2. PICK x \in Nat, y \in Nat, n \in Nat :
              /\ x = cpu_cycles_map.value[e].cycles /\ y = cpu_cycles_map.value[e].task_clock_ns
              /\ n = Cardinality(Clocking(e)')
      BY <1>2, <3>1
    <3>3. Period * x = y + Period * (n + 1)
      BY <1>1, <3>1, <3>2
    <3>4. Period * x = (y + Period) + Period * n
      BY <1>2, <3>3, Distributes
    <3> QED BY <3>1, <3>2, <3>4
  <2>5. CASE e # f
    BY <1>1, <2>1, <2>3, <2>5 DEF Writes
  <2> QED BY <2>4, <2>5
<1>6. ASSUME NEW c \in Cpus, Insert(c)
      PROVE  Good(cpu_cycles_map'.value[e], Cardinality(Clocking(e)'))
  <2>0. PICK g : g = cpu[c].cgroup
    OBVIOUS
  <2>1. /\ Others(c) /\ g \in Cgroups /\ cpu[c].stats = {} /\ cpu'[c].stats = {}
        /\ cpu_cycles_map' = cpu_cycles_map \/ \E f : Takes(c, g, f)
    BY <1>6, <2>0, InsertStep
  <2>2. Cardinality(Clocking(e)') = Cardinality(Clocking(e))
    <3>1. c \notin Clocking(e) /\ c \notin Clocking(e)'
      BY <2>1 DEF Clocking
    <3> QED BY <2>1, <3>1, ClockingStep
  <2>3. CASE cpu_cycles_map'.value[e] = cpu_cycles_map.value[e]
    BY <1>1, <2>2, <2>3
  <2>4. CASE cpu_cycles_map'.value[e] # cpu_cycles_map.value[e]
    <3>1. Takes(c, g, e)
      <4>1. PICK f : Takes(c, g, f)
        BY <2>1, <2>4
      <4>2. f = e
        BY <2>4, <4>1, MapFacts DEF Takes
      <4> QED BY <4>1, <4>2
    <3>2. Clocking(e) = {}
      <4>1. ASSUME NEW d \in Clocking(e)
            PROVE  FALSE
        <5>1. d \in Cpus /\ ~At(d, "idle") /\ e \in cpu[d].stats
          BY <4>1 DEF Clocking, At
        <5>2. cpu[d].cgroup \in Cgroups /\ Owns(cpu[d].cgroup, e)
          BY <5>1, BusyFacts, HolderOwns
        <5> QED BY <1>0, <1>6, <2>0, <3>1, <5>2, TakesUnowned
      <4> QED BY <4>1
    <3>3. Cardinality(Clocking(e)') = 0
      BY <2>2, <3>2, FS_EmptySet
    <3>4. /\ cpu_cycles_map'.value[e].cycles = 1
          /\ cpu_cycles_map'.value[e].task_clock_ns = Period
      BY <3>1, CyclesGrow DEF init_stats
    <3> QED BY <1>2, <3>3, <3>4
  <2> QED BY <2>3, <2>4
<1>7. ASSUME NEW c \in Cpus, Event(c)
      PROVE  Good(cpu_cycles_map'.value[e], Cardinality(Clocking(e)'))
  <2>1. Others(c) /\ c \notin Clocking(e) /\ c \notin Clocking(e)' /\ cpu_cycles_map' = cpu_cycles_map
    BY <1>7, EventStep DEF Clocking, At, Idle
  <2>2. Cardinality(Clocking(e)') = Cardinality(Clocking(e))
    BY <2>1, ClockingStep
  <2> QED BY <1>1, <2>1, <2>2
<1> HIDE DEF Good
<1> QED BY <1>3, <1>4, <1>5, <1>6, <1>7 DEF Next

(* The three parts together.                                               *)
ClockInvariant == UsedInvariant /\ OwnersInvariant /\ SumsInvariant

(* They hold of the empty map.                                             *)
LEMMA InitClock ==
    ASSUME Init
    PROVE  ClockInvariant
<1>0. /\ \A c \in Cpus : cpu_cycles_map.extra[c] = ExtraOf[c] /\ At(c, "idle")
      /\ \A e \in Elems : cpu_cycles_map.value[e] = [cycles |-> 0, task_clock_ns |-> 0]
      /\ DOMAIN cpu_cycles_map.slot = {}
  BY InitShape
<1>1. UsedInvariant
  BY <1>0 DEF UsedInvariant
<1>2. \A g, e : ~Owns(g, e)
  BY <1>0 DEF Owns, Holds
<1>3. OwnersInvariant
  BY <1>2 DEF OwnersInvariant
<1>4. \A e : Clocking(e) = {}
  BY <1>0 DEF Clocking, At
<1>5. SumsInvariant
  <2>1. Cardinality({}) = 0
    BY FS_EmptySet
  <2>2. Period * 0 = 0 + Period * 0
    BY PeriodAssumption
  <2> QED BY <1>0, <1>4, <2>1, <2>2 DEF SumsInvariant
<1> QED BY <1>1, <1>3, <1>5 DEF ClockInvariant

(* Every step preserves them.                                              *)
LEMMA ClockStep ==
    ASSUME Shape, ClockInvariant, [Next]_vars
    PROVE  ClockInvariant'
<1>1. CASE UNCHANGED vars
  BY <1>1 DEF vars, ClockInvariant, UsedInvariant, OwnersInvariant, SumsInvariant, Once,
              Present, Inserting, Owns, Holds, Clocking, At
<1>2. CASE Next
  BY <1>2, UsedStep, OwnersStep, SumsStep DEF ClockInvariant
<1> QED BY <1>1, <1>2

(* The counters of an entry that nobody is about to change agree.          *)
LEMMA StillAgrees ==
    ASSUME Shape, ClockInvariant, Once, NEW g \in Still
    PROVE  /\ g \in DOMAIN cpu_cycles_map.slot /\ g \in Cgroups /\ cpu_cycles_map.slot[g] \in Elems
           /\ \A c \in Cpus : ~Waits(c, g)
           /\ Stats(g).task_clock_ns = Period * Stats(g).cycles
<1> DEFINE e == cpu_cycles_map.slot[g]
<1>1. g \in DOMAIN cpu_cycles_map.slot /\ g \in Cgroups /\ e \in Elems
  BY MapFacts DEF Still
<1>2. \A c \in Cpus : At(c, "idle") \/ At(c, "event") \/ cpu[c].cgroup # g
  BY DEF Still
<1>3. Owns(g, e)
  BY <1>1 DEF Owns
<1> HIDE DEF e
<1>4. Clocking(e) = {}
  <2>1. ASSUME NEW c \in Clocking(e)
        PROVE  FALSE
    <3>1. c \in Cpus /\ At(c, "clock") /\ ~At(c, "idle") /\ ~At(c, "event") /\ e \in cpu[c].stats
      BY <2>1 DEF Clocking, At
    <3>2. cpu[c].cgroup \in Cgroups /\ Owns(cpu[c].cgroup, e)
      BY <3>1, BusyFacts, HolderOwns
    <3>3. cpu[c].cgroup = g
      BY <1>1, <1>3, <3>2 DEF ClockInvariant, OwnersInvariant
    <3> QED BY <1>2, <3>1, <3>3
  <2> QED BY <2>1
<1>5. Period * cpu_cycles_map.value[e].cycles
         = cpu_cycles_map.value[e].task_clock_ns + Period * Cardinality(Clocking(e))
  BY <1>1 DEF ClockInvariant, SumsInvariant
<1>6. cpu_cycles_map.value[e].task_clock_ns = Period * cpu_cycles_map.value[e].cycles
  BY <1>1, <1>4, <1>5, FS_EmptySet, CounterTypes, PeriodAssumption
<1> QED BY <1>1, <1>2, <1>6 DEF Waits, At, Stats, e

(* Until the entries of two cgroups have been replaced, a cgroup's two     *)
(* counters agree whenever none of its samples is under way.               *)
THEOREM CountersCorrect == Spec => []CountersAgree
<1>1. Init => Shape /\ ClockInvariant
  BY InitShape, InitClock
<1>2. Shape /\ ClockInvariant /\ [Next]_vars => (Shape /\ ClockInvariant)'
  BY ShapeStep, ClockStep
<1>3. Shape /\ ClockInvariant => CountersAgree
  BY OnceIs, StillAgrees DEF CountersAgree
<1> QED BY <1>1, <1>2, <1>3, PTL DEF Spec

-----------------------------------------------------------------------------
(* What an element that belongs to a cgroup counts, and the samples that   *)
(* are not counted yet, are within the samples; and so are the events.     *)
EventsInvariant ==
    Once => /\ \A g \in Cgroups, e \in Elems : Owns(g, e) =>
                  cpu_cycles_map.value[e].cycles + Cardinality(Waiting(g)) <= samples[g]
            /\ \A event \in cpu_events : event.cycles <= samples[event.cgroup]

(* Every step preserves the first part.                                    *)
LEMMA OwnedStep ==
    ASSUME Shape, TypeInvariant, ClockInvariant, EventsInvariant, Next, Once',
           NEW g \in Cgroups, NEW e \in Elems, Owns(g, e)'
    PROVE  cpu_cycles_map'.value[e].cycles + Cardinality(Waiting(g)') <= samples'[g]
<1> DEFINE n == Cardinality(Waiting(g))
           m == Cardinality(Waiting(g)')
           x == cpu_cycles_map.value[e].cycles
           y == cpu_cycles_map'.value[e].cycles
<1>0. /\ Once /\ samples[g] \in Nat /\ samples'[g] \in Nat /\ samples'[g] >= samples[g]
      /\ x \in Nat /\ n \in Nat /\ lost[g] \in Nat
  <2>1. Waiting(g) \in SUBSET Cpus
    BY DEF Waiting
  <2>2. n \in Nat
    BY <2>1, FiniteAssumption, FS_Subset, FS_CardinalityType
  <2> QED BY <2>2, OnceEarlier, SamplesGrow, CounterTypes DEF Shape
<1>1. UsedInvariant /\ OwnersInvariant
  BY DEF ClockInvariant
<1>2. CASE \E c \in Cpus : Insert(c) /\ g = cpu[c].cgroup /\ Takes(c, g, e)
  <2>1. PICK c \in Cpus : Insert(c) /\ g = cpu[c].cgroup /\ Takes(c, g, e)
    BY <1>2
  <2>2. y = 1
    BY <2>1, CyclesGrow DEF init_stats
  <2>3. n = m + 1 /\ m \in Nat
    BY <2>1, InsertStep, WaitingMoves, WaitingStep
  <2>4. lost[g] + n <= samples[g]
    BY DEF TypeInvariant
  <2>5. y + m <= samples'[g]
    <3> HIDE DEF n, m, y
    <3> QED BY <1>0, <2>2, <2>3, <2>4
  <2> QED BY <2>5
<1>3. CASE Owns(g, e)
  <2>0. x + n <= samples[g]
    BY <1>0, <1>3 DEF EventsInvariant
  <2>1. ASSUME NEW c \in Cpus, NEW h \in Cgroups, Sample(c, h)
        PROVE  y + m <= samples'[g]
    <3>1. Others(c) /\ samples' = [samples EXCEPT ![h] = @ + 1] /\ y = x
      BY <2>1, SampleStep
    <3>2. ~Waits(c, g) /\ (Waits(c, g)' <=> g = h)
      BY <2>1, WaitingMoves
    <3>3. m = IF g = h THEN n + 1 ELSE n
      BY <3>1, <3>2, WaitingStep
    <3>4. samples'[g] = IF g = h THEN samples[g] + 1 ELSE samples[g]
      BY <3>1 DEF Shape
    <3> HIDE DEF n, m, x, y
    <3> QED BY <1>0, <2>0, <3>1, <3>3, <3>4
  <2>2. ASSUME NEW c \in Cpus, AddCycles(c)
        PROVE  y + m <= samples'[g]
    <3>1. PICK f \in Elems :
              /\ Writes(f) /\ Moves(c, f, "clock")
              /\ cpu_cycles_map'.value[f].cycles = cpu_cycles_map.value[f].cycles + 1
      BY <2>2, AddCyclesStep
    <3>2. Others(c) /\ samples' = samples /\ ~At(c, "idle") /\ f \in cpu[c].stats
      BY <2>2, <3>1, AddCyclesStep DEF Moves, At
    <3>3. (Waits(c, g) <=> g = cpu[c].cgroup) /\ ~Waits(c, g)'
      BY <2>2, WaitingMoves
    <3>4. m \in Nat /\ n = IF g = cpu[c].cgroup THEN m + 1 ELSE m
      BY <3>2, <3>3, WaitingStep
    <3>5. CASE e = f
      <4>1. cpu[c].cgroup \in Cgroups /\ Owns(cpu[c].cgroup, e)
        BY <3>2, <3>5, BusyFacts, HolderOwns
      <4>2. g = cpu[c].cgroup
        BY <1>0, <1>1, <1>3, <4>1 DEF OwnersInvariant
      <4>3. y = x + 1
        BY <3>1, <3>5
      <4> HIDE DEF n, m, x, y
      <4> QED BY <1>0, <2>0, <3>2, <3>4, <4>2, <4>3
    <3>6. CASE e # f
      <4>1. y = x
        BY <3>1, <3>6 DEF Writes
      <4> HIDE DEF n, m, x, y
      <4> QED BY <1>0, <2>0, <3>2, <3>4, <4>1
    <3> QED BY <3>5, <3>6
  <2>3. ASSUME NEW c \in Cpus, AddClock(c)
        PROVE  y + m <= samples'[g]
    <3>1. Others(c) /\ samples' = samples /\ y = x
      <4>1. PICK f \in Elems :
                /\ Writes(f) /\ Moves(c, f, "event")
                /\ cpu_cycles_map'.value[f].cycles = cpu_cycles_map.value[f].cycles
        BY <2>3, AddClockStep
      <4> QED BY <2>3, <4>1, AddClockStep DEF Writes, Moves
    <3>2. m = n
      BY <2>3, <3>1, WaitingMoves, WaitingStep
    <3> QED BY <2>0, <3>1, <3>2
  <2>4. ASSUME NEW c \in Cpus, Insert(c)
        PROVE  y + m <= samples'[g]
    <3>0. PICK h : h = cpu[c].cgroup
      OBVIOUS
    <3>1. /\ Others(c) /\ samples' = samples
          /\ cpu_cycles_map' = cpu_cycles_map \/ \E f : Takes(c, h, f)
      BY <2>4, <3>0, InsertStep
    <3>2. m \in Nat /\ m <= n
      BY <2>4, <3>1, WaitingMoves, WaitingStep
    <3>3. cpu_cycles_map'.value[e] = cpu_cycles_map.value[e]
      <4>1. ~Takes(c, h, e)
        BY <1>0, <1>1, <1>3, <2>4, <3>0, TakesUnowned
      <4>2. ASSUME NEW f, Takes(c, h, f)
            PROVE  cpu_cycles_map'.value[e] = cpu_cycles_map.value[e]
        <5>1. f # e
          BY <4>1, <4>2
        <5> QED BY <4>2, <5>1, MapFacts DEF Takes
      <4> QED BY <3>1, <4>2
    <3>4. y = x
      BY <3>3
    <3> HIDE DEF n, m, x, y
    <3> QED BY <1>0, <2>0, <3>1, <3>2, <3>4
  <2>5. ASSUME NEW c \in Cpus, Event(c)
        PROVE  y + m <= samples'[g]
    <3>1. Others(c) /\ samples' = samples /\ y = x
      BY <2>5, EventStep
    <3>2. m = n
      BY <2>5, <3>1, WaitingMoves, WaitingStep
    <3> QED BY <2>0, <3>1, <3>2
  <2> QED BY <2>1, <2>2, <2>3, <2>4, <2>5 DEF Next
<1> QED BY <1>2, <1>3, OwnsStep

(* Every step preserves the invariant.                                     *)
LEMMA EventsStep ==
    ASSUME Shape, TypeInvariant, ClockInvariant, EventsInvariant, Next
    PROVE  EventsInvariant'
<1>0. SUFFICES ASSUME Once'
               PROVE  \A event \in cpu_events' : event.cycles <= samples'[event.cgroup]
  BY OwnedStep DEF EventsInvariant
<1>1. Once
  BY <1>0, OnceEarlier
<1>2. ASSUME NEW event \in cpu_events
      PROVE  event.cycles <= samples'[event.cgroup]
  <2>1. event.cgroup \in Cgroups /\ event.cycles \in Nat
    BY DEF Shape
  <2>2. event.cycles <= samples[event.cgroup]
    BY <1>1 DEF EventsInvariant
  <2>3. /\ samples[event.cgroup] \in Nat /\ samples'[event.cgroup] \in Nat
        /\ samples'[event.cgroup] >= samples[event.cgroup]
    BY <2>1, SamplesGrow
  <2> QED BY <2>1, <2>2, <2>3
<1>3. ASSUME NEW event \in cpu_events', event \notin cpu_events
      PROVE  event.cycles <= samples'[event.cgroup]
  <2>1. PICK c \in Cpus : Event(c)
    BY <1>3, SampleStep, AddCyclesStep, AddClockStep, InsertStep DEF Next
  <2>2. /\ At(c, "event") /\ ~At(c, "idle") /\ event = EventOf(c) /\ samples' = samples
    BY <1>3, <2>1, EventStep DEF At
  <2>3. cpu[c].cgroup \in Cgroups /\ event.cgroup = cpu[c].cgroup
    BY <2>2, BusyFacts, EventIs
  <2>4. samples[cpu[c].cgroup] > 0 /\ samples[cpu[c].cgroup] \in Nat
    BY <2>2, <2>3 DEF TypeInvariant, Shape
  <2>5. CASE cpu[c].stats = {}
    BY <2>2, <2>3, <2>4, <2>5, EventIs
  <2>6. CASE cpu[c].stats # {}
    <3>1. PICK e \in Elems : cpu[c].stats = {e}
      BY <2>2, <2>6, BusyFacts
    <3>2. Owns(cpu[c].cgroup, e)
      BY <2>2, <3>1, HolderOwns
    <3>3. cpu_cycles_map.value[e].cycles + Cardinality(Waiting(cpu[c].cgroup))
             <= samples[cpu[c].cgroup]
      BY <1>1, <2>3, <3>2 DEF EventsInvariant
    <3>4. Cardinality(Waiting(cpu[c].cgroup)) \in Nat
      <4>1. Waiting(cpu[c].cgroup) \in SUBSET Cpus
        BY DEF Waiting
      <4> QED BY <4>1, FiniteAssumption, FS_Subset, FS_CardinalityType
    <3>5. event.cycles = cpu_cycles_map.value[e].cycles /\ event.cycles \in Nat
      BY <2>2, <3>1, EventIs, CounterTypes
    <3> QED BY <2>2, <2>3, <2>4, <3>3, <3>4, <3>5
  <2> QED BY <2>5, <2>6
<1> QED BY <1>2, <1>3

(* Until the entries of two cgroups have been replaced, no event reports   *)
(* more samples than its cgroup has had, although the counter is read      *)
(* again through a pointer that may be stale.                              *)
THEOREM EventsCorrect == Spec => []EventsNotAhead
<1> DEFINE Inv == Shape /\ TypeInvariant /\ ClockInvariant /\ EventsInvariant
<1>1. ASSUME Init PROVE Inv
  <2>1. \A g, e : ~Owns(g, e)
    BY <1>1, InitShape DEF Owns, Holds
  <2>2. EventsInvariant
    BY <1>1, <2>1 DEF Init, EventsInvariant
  <2> QED BY <1>1, <2>2, InitShape, InitTypes, InitClock
<1>2. ASSUME Inv, [Next]_vars PROVE Inv'
  <2>1. CASE UNCHANGED vars
    <3>1. TypeInvariant' /\ EventsInvariant'
      BY <1>2, <2>1 DEF vars, TypeInvariant, EventsInvariant, Once, Owns, Holds, Waiting, Waits, At
    <3> QED BY <1>2, <3>1, ShapeStep, ClockStep
  <2>2. CASE Next
    BY <1>2, <2>2, ShapeStep, TypeStep, ClockStep, EventsStep
  <2> QED BY <1>2, <2>1, <2>2
<1>3. ASSUME Inv PROVE EventsNotAhead
  BY <1>3, OnceIs DEF EventsNotAhead, EventsInvariant
<1> QED BY <1>1, <1>2, <1>3, PTL DEF Spec

-----------------------------------------------------------------------------
(* What the entry of g counts.                                             *)
Counted(g) == IF g \in DOMAIN cpu_cycles_map.slot THEN Stats(g).cycles ELSE 0

(* Without replacements a pointer is the entry's, and every sample is      *)
(* counted, lost, or waits.                                                *)
CountsInvariant ==
    replaced = {} =>
       /\ \A g \in Cgroups, e \in Elems : Owns(g, e) =>
             g \in DOMAIN cpu_cycles_map.slot /\ cpu_cycles_map.slot[g] = e
       /\ \A g \in Cgroups : Counted(g) + lost[g] + Cardinality(Waiting(g)) = samples[g]

(* Every step preserves the first part.                                    *)
LEMMA PointersStep ==
    ASSUME Shape, CountsInvariant, Next, replaced' = {}, NEW g \in Cgroups, NEW e \in Elems, Owns(g, e)'
    PROVE  g \in DOMAIN cpu_cycles_map'.slot /\ cpu_cycles_map'.slot[g] = e
<1>0. replaced = {}
  BY OnceEarlier
<1>1. CASE \E c \in Cpus : Takes(c, g, e)
  BY <1>1 DEF Takes
<1>2. CASE Owns(g, e)
  <2>1. g \in DOMAIN cpu_cycles_map.slot /\ cpu_cycles_map.slot[g] = e
    BY <1>0, <1>2 DEF CountsInvariant
  <2>2. ASSUME NEW c \in Cpus, Insert(c)
        PROVE  g \in DOMAIN cpu_cycles_map'.slot /\ cpu_cycles_map'.slot[g] = e
    <3>0. PICK h : h = cpu[c].cgroup
      OBVIOUS
    <3>1. /\ cpu_cycles_map' = cpu_cycles_map \/ \E f : Takes(c, h, f)
          /\ ~Present(cpu_cycles_map, h)
      BY <2>2, <3>0, InsertStep
    <3>2. h # g
      BY <2>1, <3>1 DEF Present
    <3> QED BY <2>1, <3>1, <3>2 DEF Takes
  <2>3. ASSUME NEW c \in Cpus, AddCycles(c) \/ AddClock(c)
        PROVE  cpu_cycles_map'.slot = cpu_cycles_map.slot
    BY <2>3, AddCyclesStep, AddClockStep DEF Writes
  <2>4. ASSUME NEW c \in Cpus, Event(c)
        PROVE  cpu_cycles_map' = cpu_cycles_map
    BY <2>4, EventStep
  <2>5. ASSUME NEW c \in Cpus, NEW h \in Cgroups, Sample(c, h)
        PROVE  cpu_cycles_map' = cpu_cycles_map
    BY <2>5, SampleStep
  <2> QED BY <2>1, <2>2, <2>3, <2>4, <2>5 DEF Next
<1> QED BY <1>1, <1>2, OwnsStep

(* Every step preserves the second part.                                   *)
LEMMA CountedStep ==
    ASSUME Shape, CountsInvariant, Next, replaced' = {}, NEW g \in Cgroups
    PROVE  Counted(g)' + lost'[g] + Cardinality(Waiting(g)') = samples'[g]
<1> DEFINE n == Cardinality(Waiting(g))
           m == Cardinality(Waiting(g)')
           x == Counted(g)
           y == Counted(g)'
<1>0. /\ x + lost[g] + n = samples[g]
      /\ replaced = {} /\ samples \in [Cgroups -> Nat] /\ lost \in [Cgroups -> Nat]
      /\ x \in Nat
  <2>1. replaced = {}
    BY OnceEarlier
  <2>2. x \in Nat
    BY MapFacts, CounterTypes DEF Counted, Stats
  <2> QED BY <2>1, <2>2 DEF Shape, CountsInvariant
<1>1. ASSUME NEW c \in Cpus, NEW h \in Cgroups, Sample(c, h)
      PROVE  y + lost'[g] + m = samples'[g]
  <2>1. /\ Others(c) /\ samples' = [samples EXCEPT ![h] = @ + 1] /\ lost' = lost
        /\ cpu_cycles_map' = cpu_cycles_map
    BY <1>1, SampleStep
  <2>2. ~Waits(c, g) /\ (Waits(c, g)' <=> g = h)
    BY <1>1, WaitingMoves
  <2>3. n \in Nat /\ m = IF g = h THEN n + 1 ELSE n
    BY <2>1, <2>2, WaitingStep
  <2>4. y = x
    BY <2>1 DEF Counted, Stats
  <2>5. samples'[g] = IF g = h THEN samples[g] + 1 ELSE samples[g]
    BY <1>0, <2>1
  <2> HIDE DEF n, m, x, y
  <2> QED BY <1>0, <2>1, <2>3, <2>4, <2>5
<1>2. ASSUME NEW c \in Cpus, AddCycles(c)
      PROVE  y + lost'[g] + m = samples'[g]
  <2>0. PICK h : h = cpu[c].cgroup
    OBVIOUS
  <2>1. PICK f \in Elems :
            /\ Writes(f) /\ Moves(c, f, "clock")
            /\ cpu_cycles_map'.value[f].cycles = cpu_cycles_map.value[f].cycles + 1
    BY <1>2, AddCyclesStep
  <2>2. Others(c) /\ samples' = samples /\ lost' = lost /\ ~At(c, "idle") /\ f \in cpu[c].stats
    BY <1>2, <2>1, AddCyclesStep DEF Moves, At
  <2>3. (Waits(c, g) <=> g = h) /\ ~Waits(c, g)'
    BY <1>2, <2>0, WaitingMoves
  <2>4. m \in Nat /\ n = IF g = h THEN m + 1 ELSE m
    BY <2>2, <2>3, WaitingStep
  <2>5. h \in DOMAIN cpu_cycles_map.slot /\ cpu_cycles_map.slot[h] = f
    <3>1. h \in Cgroups /\ Owns(h, f)
      BY <2>0, <2>2, BusyFacts, HolderOwns
    <3> QED BY <1>0, <3>1 DEF CountsInvariant
  <2>6. y = IF g = h THEN x + 1 ELSE x
    <3>1. cpu_cycles_map'.slot = cpu_cycles_map.slot
      BY <2>1 DEF Writes
    <3>2. CASE g = h
      BY <2>1, <2>5, <3>1, <3>2 DEF Counted, Stats
    <3>3. CASE g # h /\ g \in DOMAIN cpu_cycles_map.slot
      <4>1. cpu_cycles_map.slot[g] \in Elems \ {f}
        BY <2>5, <3>3, MapFacts DEF Shape, Disjoint
      <4> QED BY <2>1, <3>1, <3>3, <4>1 DEF Counted, Stats, Writes
    <3>4. CASE g \notin DOMAIN cpu_cycles_map.slot
      BY <2>5, <3>1, <3>4 DEF Counted
    <3> QED BY <3>2, <3>3, <3>4
  <2> HIDE DEF n, m, x, y
  <2> QED BY <1>0, <2>2, <2>4, <2>6
<1>3. ASSUME NEW c \in Cpus, AddClock(c)
      PROVE  y + lost'[g] + m = samples'[g]
  <2>1. PICK f \in Elems :
            /\ Writes(f) /\ Moves(c, f, "event")
            /\ cpu_cycles_map'.value[f].cycles = cpu_cycles_map.value[f].cycles
    BY <1>3, AddClockStep
  <2>2. Others(c) /\ samples' = samples /\ lost' = lost
    BY <1>3, <2>1, AddClockStep DEF Moves
  <2>3. m = n
    BY <1>3, <2>2, WaitingMoves, WaitingStep
  <2>4. y = x
    BY <2>1, MapFacts DEF Counted, Stats, Writes
  <2> QED BY <1>0, <2>2, <2>3, <2>4
<1>4. ASSUME NEW c \in Cpus, Insert(c)
      PROVE  y + lost'[g] + m = samples'[g]
  <2>0. PICK h : h = cpu[c].cgroup
    OBVIOUS
  <2>1. /\ Others(c) /\ h \in Cgroups /\ samples' = samples
        /\ lost' = [lost EXCEPT ![h] = IF Full(h) THEN @ + 1 ELSE @]
        /\ Full(h) => cpu_cycles_map' = cpu_cycles_map
        /\ ~Full(h) => \E f : Takes(c, h, f)
        /\ replaced' = IF Present(cpu_cycles_map, h) THEN replaced \cup {h} ELSE replaced
    BY <1>4, <2>0, InsertStep
  <2>2. h \notin DOMAIN cpu_cycles_map.slot
    BY <2>1 DEF Present
  <2>3. (Waits(c, g) <=> g = h) /\ ~Waits(c, g)'
    BY <1>4, <2>0, WaitingMoves
  <2>4. m \in Nat /\ n = IF g = h THEN m + 1 ELSE m
    BY <2>1, <2>3, WaitingStep
  <2>5. lost'[g] = IF g = h /\ Full(h) THEN lost[g] + 1 ELSE lost[g]
    BY <1>0, <2>1
  <2>6. y = IF g = h /\ ~Full(h) THEN x + 1 ELSE x
    <3>1. CASE Full(h)
      BY <2>1, <3>1 DEF Counted, Stats
    <3>2. CASE ~Full(h)
      <4>1. PICK f : Takes(c, h, f)
        BY <2>1, <3>2
      <4>2. f \in Elems
        BY <4>1 DEF Takes
      <4>3. CASE g = h
        <5>1. x = 0
          BY <2>2, <4>3 DEF Counted
        <5>2. cpu_cycles_map'.value[f].cycles = 1
          BY <4>1, <4>2, CyclesGrow DEF init_stats
        <5>3. g \in DOMAIN cpu_cycles_map'.slot /\ cpu_cycles_map'.slot[g] = f
          BY <4>1, <4>3 DEF Takes
        <5>4. y = 1
          BY <5>2, <5>3 DEF Counted, Stats
        <5> QED BY <3>2, <4>3, <5>1, <5>4
      <4>4. CASE g # h /\ g \in DOMAIN cpu_cycles_map.slot
        <5>1. f \in cpu_cycles_map.free
          BY <2>2, <4>1 DEF Takes, Present
        <5>2. cpu_cycles_map.slot[g] \in Elems /\ cpu_cycles_map.slot[g] # f
          BY <4>4, <5>1, MapFacts DEF Shape, Disjoint
        <5>3. /\ g \in DOMAIN cpu_cycles_map'.slot
              /\ cpu_cycles_map'.slot[g] = cpu_cycles_map.slot[g]
              /\ cpu_cycles_map'.value[cpu_cycles_map.slot[g]]
                    = cpu_cycles_map.value[cpu_cycles_map.slot[g]]
          BY <4>1, <4>4, <5>2, MapFacts DEF Takes
        <5> QED BY <4>4, <5>3 DEF Counted, Stats
      <4>5. CASE g # h /\ g \notin DOMAIN cpu_cycles_map.slot
        BY <4>1, <4>5 DEF Counted, Takes
      <4> QED BY <4>3, <4>4, <4>5
    <3> QED BY <3>1, <3>2
  <2>7. lost[g] \in Nat /\ samples[g] \in Nat /\ samples'[g] = samples[g]
    BY <1>0, <2>1
  <2> HIDE DEF n, m, x, y
  <2> QED BY <1>0, <2>4, <2>5, <2>6, <2>7
<1>5. ASSUME NEW c \in Cpus, Event(c)
      PROVE  y + lost'[g] + m = samples'[g]
  <2>1. Others(c) /\ samples' = samples /\ lost' = lost /\ cpu_cycles_map' = cpu_cycles_map
    BY <1>5, EventStep
  <2>2. m = n
    BY <1>5, <2>1, WaitingMoves, WaitingStep
  <2>3. y = x
    BY <2>1 DEF Counted, Stats
  <2> QED BY <1>0, <2>1, <2>2, <2>3
<1> QED BY <1>1, <1>2, <1>3, <1>4, <1>5 DEF Next

(* Until an entry is replaced, every sample of a cgroup is counted exactly *)
(* once in both counters, but for those a full map had no room for.        *)
THEOREM CountsCorrect == Spec => []CountsTrackSamples
<1> DEFINE Inv == Shape /\ ClockInvariant /\ CountsInvariant
<1>1. ASSUME Init PROVE Inv
  <2>1. /\ \A c \in Cpus : At(c, "idle")
        /\ DOMAIN cpu_cycles_map.slot = {}
    BY <1>1, InitShape
  <2>2. \A g, e : ~Owns(g, e)
    BY <2>1 DEF Owns, Holds
  <2>3. ASSUME NEW g \in Cgroups
        PROVE  Counted(g) + lost[g] + Cardinality(Waiting(g)) = samples[g]
    <3>1. Waiting(g) = {}
      BY <2>1 DEF Waiting, Waits, At
    <3>2. Counted(g) = 0 /\ lost[g] = 0 /\ samples[g] = 0
      BY <1>1, <2>1 DEF Counted, Init
    <3> QED BY <3>1, <3>2, FS_EmptySet
  <2> QED BY <1>1, <2>2, <2>3, InitShape, InitClock DEF CountsInvariant
<1>2. ASSUME Inv, [Next]_vars PROVE Inv'
  <2>1. CASE UNCHANGED vars
    <3>1. CountsInvariant'
      BY <1>2, <2>1 DEF vars, CountsInvariant, Counted, Stats, Owns, Holds, Waiting, Waits, At
    <3> QED BY <1>2, <3>1, ShapeStep, ClockStep
  <2>2. CASE Next
    <3>1. CountsInvariant'
      BY <1>2, <2>2, PointersStep, CountedStep DEF CountsInvariant
    <3> QED BY <1>2, <3>1, ShapeStep, ClockStep
  <2> QED BY <1>2, <2>1, <2>2
<1>3. ASSUME Inv PROVE CountsTrackSamples
  <2> SUFFICES ASSUME replaced = {}, NEW g \in Still
               PROVE  /\ Stats(g).cycles = samples[g] - lost[g]
                      /\ Stats(g).task_clock_ns = Period * Stats(g).cycles
    BY DEF CountsTrackSamples
  <2>1. Once
    BY DEF Once
  <2>2. /\ g \in DOMAIN cpu_cycles_map.slot /\ g \in Cgroups /\ cpu_cycles_map.slot[g] \in Elems
        /\ \A c \in Cpus : ~Waits(c, g)
        /\ Stats(g).task_clock_ns = Period * Stats(g).cycles
    BY <1>3, <2>1, StillAgrees
  <2>3. Cardinality(Waiting(g)) = 0
    BY <2>2, FS_EmptySet DEF Waiting
  <2>4. Stats(g).cycles + lost[g] + Cardinality(Waiting(g)) = samples[g]
    BY <1>3, <2>2 DEF CountsInvariant, Counted
  <2>5. Stats(g).cycles \in Nat /\ lost[g] \in Nat /\ samples[g] \in Nat
    BY <1>3, <2>2, CounterTypes DEF Stats, Shape
  <2> QED BY <2>2, <2>3, <2>4, <2>5
<1> QED BY <1>1, <1>2, <1>3, PTL DEF Spec
=============================================================================
