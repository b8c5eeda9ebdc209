----------------------------- MODULE CpuCycles -----------------------------
(***************************************************************************)
(* The CPU probe (bpf/cpu_cycles.c): measure_cpu_cycles runs once for each *)
(* perf sample, to completion on one CPU, beside the ones on other CPUs.   *)
(***************************************************************************)
EXTENDS Naturals, FiniteSets, BpfHash

CONSTANTS
    Cpus,
    Cgroups,
    Period,        \* ctx->sample_period
    Entries,       \* the elements for max_entries keys
    ExtraOf,       \* the extra element of each CPU
    MaxSamples     \* bound: samples of one cgroup

ASSUME FiniteAssumption == IsFiniteSet(Cpus)
ASSUME PeriodAssumption == Period \in Nat \ {0} /\ MaxSamples \in Nat
ASSUME ExtraOfAssumption ==
    /\ \A c \in Cpus : ExtraOf[c] \notin Entries
    /\ \A c, d \in Cpus : c # d => ExtraOf[c] # ExtraOf[d]

VARIABLES
    cpu_cycles_map,
    cpu,         \* what each CPU is doing, and for which cgroup
    cpu_events,  \* the events submitted so far, without their order
    samples,     \* history variable: the samples of each cgroup so far
    lost,        \* history variable: those a full map had no room for
    replaced     \* history variable: cgroups whose entry was replaced

vars == <<cpu_cycles_map, cpu, cpu_events, samples, lost, replaced>>

Elems == Entries \cup {ExtraOf[c] : c \in Cpus}
cpu_stats == [cycles : Nat, task_clock_ns : Nat]
init_stats == [cycles |-> 1, task_clock_ns |-> Period]

(* A sample in the hands of the program: its cgroup and the pointer stats, *)
(* as a set that is empty when the pointer is null.                        *)
Busy ==
    [pc : {"update", "cycles", "clock", "event"}, cgroup : Cgroups,
     stats : {{}} \cup {{e} : e \in Elems}]
Idle == [pc |-> "idle"]

cpu_event == [cgroup : Cgroups, cycles : Nat \ {0}]

TypeOK ==
    /\ IsBpfMap(cpu_cycles_map, Cgroups, cpu_stats, Elems, Cpus)
    /\ cpu \in [Cpus -> Busy \cup {Idle}]
    /\ \A event \in cpu_events : event \in cpu_event
    /\ samples \in [Cgroups -> 0 .. MaxSamples]
    /\ lost \in [Cgroups -> 0 .. MaxSamples]
    /\ replaced \subseteq Cgroups

Init ==
    /\ cpu_cycles_map = Empty(Entries, [c \in Cpus |-> ExtraOf[c]],
                              [cycles |-> 0, task_clock_ns |-> 0])
    /\ cpu = [c \in Cpus |-> Idle]
    /\ cpu_events = {}
    /\ samples = [g \in Cgroups |-> 0]
    /\ lost = [g \in Cgroups |-> 0]
    /\ replaced = {}

-----------------------------------------------------------------------------
At(c, pc) == cpu[c].pc = pc

Slot(g) ==
    IF Present(cpu_cycles_map, g) THEN {cpu_cycles_map.slot[g]} ELSE {}

(* A sample is taken, and the entry of its cgroup is looked up.            *)
Sample(c, g) ==
    /\ At(c, "idle")
    /\ samples[g] < MaxSamples
    /\ samples' = [samples EXCEPT ![g] = @ + 1]
    /\ cpu' = [cpu EXCEPT ![c] = [pc |-> IF Slot(g) = {} THEN "update" ELSE "cycles",
                                 cgroup |-> g, stats |-> Slot(g)]]
    /\ UNCHANGED <<cpu_cycles_map, cpu_events, lost, replaced>>

(* The atomic addition to cycles.                                          *)
AddCycles(c) ==
    /\ At(c, "cycles")
    /\ \E e \in cpu[c].stats :
          cpu_cycles_map' = [cpu_cycles_map EXCEPT !.value[e].cycles = @ + 1]
    /\ cpu' = [cpu EXCEPT ![c].pc = "clock"]
    /\ UNCHANGED <<cpu_events, samples, lost, replaced>>

(* The atomic addition to task_clock_ns.                                   *)
AddClock(c) ==
    /\ At(c, "clock")
    /\ \E e \in cpu[c].stats :
          cpu_cycles_map' = [cpu_cycles_map EXCEPT !.value[e].task_clock_ns = @ + Period]
    /\ cpu' = [cpu EXCEPT ![c].pc = "event"]
    /\ UNCHANGED <<cpu_events, samples, lost, replaced>>

(* The insertion of stats for cgroup g: the map, and what it cost.         *)
Inserted(c, g, stats) ==
    /\ cpu_cycles_map' \in Updated(cpu_cycles_map, c, g, stats)
    /\ replaced' = IF Slot(g) # {} THEN replaced \cup {g} ELSE replaced
    /\ lost' = [lost EXCEPT ![g] =
            IF Slot(g) = {} /\ cpu_cycles_map.free = {} THEN @ + 1 ELSE @]

(* Mutant: the new entry is a zero one, as in the other two probes.        *)
InsertZero(c) ==
    /\ At(c, "update")
    /\ Inserted(c, cpu[c].cgroup, [cycles |-> 0, task_clock_ns |-> 0])
    /\ cpu' = [cpu EXCEPT ![c].pc = "event"]
    /\ UNCHANGED <<cpu_events, samples>>

(* Mutant: the new entry has no clock.                                     *)
InsertWithoutClock(c) ==
    /\ At(c, "update")
    /\ Inserted(c, cpu[c].cgroup, [init_stats EXCEPT !.task_clock_ns = 0])
    /\ cpu' = [cpu EXCEPT ![c].pc = "event"]
    /\ UNCHANGED <<cpu_events, samples>>

(* Mutant: the new entry is counted in again.                              *)
InsertThenAdd(c) ==
    /\ At(c, "update")
    /\ Inserted(c, cpu[c].cgroup, init_stats)
    /\ \E e \in Elems :
          /\ Present(cpu_cycles_map', cpu[c].cgroup) => e = cpu_cycles_map'.slot[cpu[c].cgroup]
          /\ cpu' = [cpu EXCEPT ![c].pc = "cycles", ![c].stats = {e}]
    /\ UNCHANGED <<cpu_events, samples>>

(* There is no entry: one that holds this sample is put in, whatever       *)
(* others did meanwhile.                                                   *)
Insert(c) ==
    /\ At(c, "update")
    /\ Inserted(c, cpu[c].cgroup, init_stats)
    /\ cpu' = [cpu EXCEPT ![c].pc = "event"]
    /\ UNCHANGED <<cpu_events, samples>>

(* What an event says: the counter behind the pointer, or 1.               *)
EventOf(c) ==
    [cgroup |-> cpu[c].cgroup,
     cycles |-> IF cpu[c].stats = {} THEN 1
                ELSE CHOOSE n \in {cpu_cycles_map.value[e].cycles : e \in cpu[c].stats} : TRUE]

(* At some times, and with room in the ring buffer, an event is submitted. *)
Event(c) ==
    /\ At(c, "event")
    /\ cpu' = [cpu EXCEPT ![c] = Idle]
    /\ \/ cpu_events' = cpu_events \cup {EventOf(c)}
       \/ UNCHANGED cpu_events
    /\ UNCHANGED <<cpu_cycles_map, samples, lost, replaced>>

Next ==
    \E c \in Cpus :
        \/ \E g \in Cgroups : Sample(c, g)
        \/ AddCycles(c)
        \/ AddClock(c)
        \/ Insert(c)
        \/ Event(c)

Spec == Init /\ [][Next]_vars

-----------------------------------------------------------------------------
Stats(g) == cpu_cycles_map.value[cpu_cycles_map.slot[g]]

(* The cgroups whose counters nobody is about to change.                   *)
Still == {g \in DOMAIN cpu_cycles_map.slot :
            \A c \in Cpus : At(c, "idle") \/ At(c, "event") \/ cpu[c].cgroup # g}

(* Every sample is counted exactly once, in both counters, unless the      *)
(* entry was replaced or the map was full: the sample that makes an entry  *)
(* is in it, and the one after it finds it.                                *)
CountsTrackSamples ==
    replaced = {} => \A g \in Still :
        /\ Stats(g).cycles = samples[g] - lost[g]
        /\ Stats(g).task_clock_ns = Period * Stats(g).cycles

(* Replaced or not, the two counters of an entry agree: an insertion and   *)
(* additions to the replaced element cannot tear them apart, until the     *)
(* entries of two cgroups have been replaced.                              *)
CountersAgree ==
    Cardinality(replaced) <= 1 =>
        \A g \in Still : Stats(g).task_clock_ns = Period * Stats(g).cycles

(* No event is ahead of the samples of its cgroup, although it reads the   *)
(* counter again, through a pointer to an element that may be in another   *)
(* use by then.  Again it takes two cgroups' replacements to break it.     *)
EventsNotAhead ==
    Cardinality(replaced) <= 1 =>
        \A event \in cpu_events : event.cycles <= samples[event.cgroup]
=============================================================================
