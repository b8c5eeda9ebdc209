---------------------------- MODULE NetworkBytes ----------------------------
(***************************************************************************)
(* The network probe (bpf/network_bytes.c): count_egress and count_ingress *)
(* run to completion on the CPU that handles a packet, beside the ones on  *)
(* other CPUs.  Every packet has length 1, so that the byte counters and   *)
(* the packet counters are one.                                            *)
(***************************************************************************)
EXTENDS Naturals, FiniteSets, Functions, BpfHash

CONSTANTS
    Cpus,
    Cgroups,       \* the cgroups packets come from
    NoCgroup,      \* cgroup 0, of a packet that belongs to none
    Dests,         \* destinations of egress packets
    Private,       \* those in the RFC 1918 ranges
    OtherZone,     \* those the table az_subnets places in another zone
    Entries,       \* the elements for max_entries keys
    ExtraOf,       \* the extra element of each CPU
    MaxPackets     \* bound: packets

ASSUME FiniteAssumption == IsFiniteSet(Cpus) /\ IsFiniteSet(Cgroups)
ASSUME PrivateAssumption == OtherZone \subseteq Dests /\ Private \subseteq Dests
ASSUME ExtraOfAssumption ==
    /\ \A c \in Cpus : ExtraOf[c] \notin Entries
    /\ \A c, d \in Cpus : c # d => ExtraOf[c] # ExtraOf[d]
ASSUME MaxPacketsAssumption == MaxPackets \in Nat

CountedCgroups == Cgroups \ {NoCgroup}

VARIABLES
    network_map,
    cpu,        \* what each CPU is doing, and with which packet
    seen,       \* history variable: the packets of each cgroup so far
    sure,       \* history variable: those counted through a settled entry
    replaced    \* history variable: how often a cgroup's entry was replaced

vars == <<network_map, cpu, seen, sure, replaced>>

Elems == Entries \cup {ExtraOf[c] : c \in Cpus}

Traffic == [ingress : Nat, egress : Nat, cross_az : Nat, internet : Nat]
NoTraffic == [ingress |-> 0, egress |-> 0, cross_az |-> 0, internet |-> 0]

(* A packet in the hands of a program: its cgroup and its destination      *)
(* (none for ingress), the pointer t, and whether the entry t points to    *)
(* was settled, that is, nobody was about to insert over it.               *)
Ingress == {}
Busy ==
    [pc : {"update", "lookup", "count", "categorize"}, cgroup : CountedCgroups,
     dest : {Ingress} \cup {{d} : d \in Dests}, t : Elems, settled : BOOLEAN]
Idle == [pc |-> "idle"]

TypeOK ==
    /\ IsBpfMap(network_map, CountedCgroups, Traffic, Elems, Cpus)
    /\ cpu \in [Cpus -> Busy \cup {Idle}]
    /\ seen \in [Cgroups -> 0 .. MaxPackets]
    /\ sure \in [Cgroups -> 0 .. MaxPackets]
    /\ replaced \in [Cgroups -> Nat]

Init ==
    /\ network_map = Empty(Entries, [c \in Cpus |-> ExtraOf[c]], NoTraffic)
    /\ cpu = [c \in Cpus |-> Idle]
    /\ seen = [g \in Cgroups |-> 0]
    /\ sure = [g \in Cgroups |-> 0]
    /\ replaced = [g \in Cgroups |-> 0]

-----------------------------------------------------------------------------
is_internet(d) == d \notin Private
is_cross_az(d) == d \in OtherZone

(* The CPUs that found no entry for g and have not inserted one yet.       *)
Inserting(g) == {c \in Cpus : cpu[c].pc = "update" /\ cpu[c].cgroup = g}

Settled(g) == Present(network_map, g) /\ Inserting(g) = {}

At(c, pc) == cpu[c].pc = pc

Packets == SumFunctionOnSet(seen, Cgroups)

(* Mutant: the entry is set up again for every packet.                     *)
PacketAlwaysInserts(c, g, dest) ==
    /\ At(c, "idle") /\ g # NoCgroup
    /\ Packets < MaxPackets
    /\ seen' = [seen EXCEPT ![g] = @ + 1]
    /\ cpu' = [cpu EXCEPT ![c] = [pc |-> "update", cgroup |-> g, dest |-> dest,
                                 t |-> ExtraOf[c], settled |-> FALSE]]
    /\ UNCHANGED <<network_map, sure, replaced>>

(* Mutant: a packet of no cgroup is counted, under the key 0.              *)
PacketOfNoCgroup(c, g, dest) ==
    /\ At(c, "idle") /\ ~Present(network_map, g)
    /\ Packets < MaxPackets
    /\ seen' = [seen EXCEPT ![g] = @ + 1]
    /\ cpu' = [cpu EXCEPT ![c] = [pc |-> "update", cgroup |-> g, dest |-> dest,
                                 t |-> ExtraOf[c], settled |-> FALSE]]
    /\ UNCHANGED <<network_map, sure, replaced>>

(* A packet arrives, and the entry of its cgroup is looked up.  Without an *)
(* entry, t stands for a null pointer.                                     *)
Packet(c, g, dest) ==
    /\ At(c, "idle")
    /\ g # NoCgroup
    /\ Packets < MaxPackets
    /\ seen' = [seen EXCEPT ![g] = @ + 1]
    /\ cpu' = [cpu EXCEPT ![c] =
            [pc |-> IF Present(network_map, g) THEN "count" ELSE "update",
             cgroup |-> g, dest |-> dest,
             t |-> IF Present(network_map, g) THEN network_map.slot[g] ELSE ExtraOf[c],
             settled |-> Settled(g)]]
    /\ UNCHANGED <<network_map, sure, replaced>>

(* There is none: a zero entry is put in, whatever others did meanwhile.   *)
Update(c) ==
    LET g == cpu[c].cgroup
    IN  /\ At(c, "update")
        /\ network_map' \in Updated(network_map, c, g, NoTraffic)
        /\ replaced' = [replaced EXCEPT ![g] = IF Present(network_map, g) THEN @ + 1 ELSE @]
        /\ cpu' = [cpu EXCEPT ![c].pc = "lookup"]
        /\ UNCHANGED <<seen, sure>>

(* The entry is looked up again; in a full map there is still none.        *)
Lookup2(c) ==
    LET g == cpu[c].cgroup
    IN  /\ At(c, "lookup")
        /\ cpu' = [cpu EXCEPT ![c] =
                IF Present(network_map, g)
                  THEN [@ EXCEPT !.pc = "count", !.t = network_map.slot[g], !.settled = Settled(g)]
                  ELSE Idle]
        /\ UNCHANGED <<network_map, seen, sure, replaced>>

(* The atomic additions to bytes and packets of the packet's direction.    *)
Count(c) ==
    LET p == cpu[c]
    IN  /\ At(c, "count")
        /\ network_map' =
                IF p.dest = Ingress
                  THEN [network_map EXCEPT !.value[p.t].ingress = @ + 1]
                  ELSE [network_map EXCEPT !.value[p.t].egress = @ + 1]
        /\ cpu' = [cpu EXCEPT ![c] = IF p.dest = Ingress THEN Idle
                                                         ELSE [p EXCEPT !.pc = "categorize"]]
        /\ sure' = [sure EXCEPT ![p.cgroup] = IF p.settled THEN @ + 1 ELSE @]
        /\ UNCHANGED <<seen, replaced>>

(* Mutant: the two categories do not exclude each other.                   *)
CategorizeTwice(c) ==
    /\ At(c, "categorize")
    /\ \E d \in cpu[c].dest :
          network_map' = [network_map EXCEPT
            !.value[cpu[c].t].internet = IF is_internet(d) THEN @ + 1 ELSE @,
            !.value[cpu[c].t].cross_az = IF is_cross_az(d) THEN @ + 1 ELSE @]
    /\ cpu' = [cpu EXCEPT ![c] = Idle]
    /\ UNCHANGED <<seen, sure, replaced>>

(* The addition to bytes_internet or bytes_cross_az, if any.               *)
Categorize(c) ==
    /\ At(c, "categorize")
    /\ \E d \in cpu[c].dest :
          network_map' = [network_map EXCEPT
            !.value[cpu[c].t].internet = IF is_internet(d) THEN @ + 1 ELSE @,
            !.value[cpu[c].t].cross_az =
                IF ~is_internet(d) /\ is_cross_az(d) THEN @ + 1 ELSE @]
    /\ cpu' = [cpu EXCEPT ![c] = Idle]
    /\ UNCHANGED <<seen, sure, replaced>>

Next ==
    \E c \in Cpus :
        \/ \E g \in Cgroups, dest \in {Ingress} \cup {{d} : d \in Dests} : Packet(c, g, dest)
        \/ Update(c)
        \/ Lookup2(c)
        \/ Count(c)
        \/ Categorize(c)

Spec == Init /\ [][Next]_vars

-----------------------------------------------------------------------------
EntryOf(g) == network_map.value[network_map.slot[g]]

Counted(g) == IF Present(network_map, g) THEN EntryOf(g).ingress + EntryOf(g).egress ELSE 0

(* A packet that finds an entry nobody is about to insert over is counted  *)
(* for good in its cgroup's entry, whatever the other CPUs insert for      *)
(* other cgroups, and also in a full map (count_egress, count_ingress).    *)
SettledPacketsCounted == \A g \in CountedCgroups : Counted(g) >= sure[g]

(* Only CPUs that looked a cgroup up before its entry existed can replace  *)
(* it, once each: with them gone the counters of the entry stay.           *)
ReplacementsBounded ==
    \A g \in DOMAIN network_map.slot :
        replaced[g] + Cardinality(Inserting(g)) < Cardinality(Cpus)

(* The bytes charged at the internet's or at another zone's price are also *)
(* in bytes_egress, although the additions are made one after the other    *)
(* and the entry may be replaced in between.  It takes replacements of two *)
(* cgroups' entries on one CPU to add them to an element in another use.   *)
CategoriesWithinEgress ==
    Cardinality({g \in CountedCgroups : replaced[g] > 0}) <= 1 =>
        \A g \in DOMAIN network_map.slot :
            EntryOf(g).internet + EntryOf(g).cross_az <= EntryOf(g).egress

=============================================================================
