------------------------- MODULE NetworkBytesProofs -------------------------
(***************************************************************************)
(* What the network probe counts, for every number of CPUs, cgroups,       *)
(* packets and elements.                                                   *)
(***************************************************************************)
EXTENDS NetworkBytes, PartialMapsProofs, TLAPS

(* The types of the variables, without the bounds on the history           *)
(* variables, and that no element of the map is in two uses.               *)
Shape ==
    /\ IsBpfMap(network_map, CountedCgroups, Traffic, Elems, Cpus)
    /\ Disjoint(network_map)
    /\ cpu \in [Cpus -> Busy \cup {Idle}]
    /\ seen \in [Cgroups -> Nat]
    /\ sure \in [Cgroups -> Nat]
    /\ replaced \in [Cgroups -> Nat]

(* What the fields of the map are.                                         *)
LEMMA MapFacts ==
    ASSUME Shape
    PROVE  /\ DOMAIN network_map.slot \subseteq CountedCgroups
           /\ \A g \in DOMAIN network_map.slot : network_map.slot[g] \in Elems
           /\ network_map.value \in [Elems -> Traffic]
           /\ network_map.free \subseteq Elems
           /\ network_map.extra \in [Cpus -> Elems]
BY DEF Shape, IsBpfMap, IsMap

(* A CPU that is not idle has a packet in hand.                            *)
LEMMA BusyFacts ==
    ASSUME Shape, NEW c \in Cpus, ~At(c, "idle")
    PROVE  /\ cpu[c] \in Busy
           /\ cpu[c].cgroup \in CountedCgroups /\ cpu[c].cgroup \in Cgroups
           /\ cpu[c].t \in Elems
BY DEF Shape, At, Idle, Busy, CountedCgroups

(* Only the state of the CPU c changes.                                    *)
Others(c) == \A d \in Cpus \ {c} : cpu'[d] = cpu[d]

(* The map as it is loaded.                                                *)
LEMMA InitShape ==
    ASSUME Init
    PROVE  /\ Shape
           /\ DOMAIN network_map.slot = {}
           /\ \A c \in Cpus : network_map.extra[c] = ExtraOf[c]
           /\ \A e \in Elems : network_map.value[e] = NoTraffic
<1>1. NoTraffic \in Traffic
  BY DEF NoTraffic, Traffic
<1>2. /\ DOMAIN network_map = {"slot", "value", "free", "extra"}
      /\ network_map.slot = NoKeys
      /\ network_map.value = [e \in Elems |-> NoTraffic]
      /\ network_map.free = Entries
      /\ network_map.extra = [c \in Cpus |-> ExtraOf[c]]
  <2>1. {[c \in Cpus |-> ExtraOf[c]][d] : d \in Cpus} = {ExtraOf[c] : c \in Cpus}
    OBVIOUS
  <2> QED BY <2>1 DEF Init, Empty, Elems
<1>3. /\ IsBpfMap(network_map, CountedCgroups, Traffic, Elems, Cpus)
      /\ Disjoint(network_map)
      /\ DOMAIN network_map.slot = {}
  <2>1. Entries \subseteq Elems /\ \A c \in Cpus : ExtraOf[c] \in Elems
    BY DEF Elems
  <2>2. /\ network_map.value \in [Elems -> Traffic]
        /\ network_map.free \subseteq Elems /\ network_map.extra \in [Cpus -> Elems]
        /\ \A c \in Cpus : network_map.extra[c] \notin network_map.free
        /\ \A c, d \in Cpus : network_map.extra[c] = network_map.extra[d] => c = d
    BY <1>1, <1>2, <2>1, ExtraOfAssumption
  <2>3. IsMap(network_map.slot, CountedCgroups, Elems) /\ DOMAIN network_map.slot = {}
    BY <1>2, NoKeysIsMap
  <2>4. IsBpfMap(network_map, CountedCgroups, Traffic, Elems, Cpus)
    BY <1>2, <2>2, <2>3 DEF IsBpfMap
  <2>5. Disjoint(network_map)
    BY <1>2, <2>2, <2>3 DEF Disjoint
  <2> QED BY <2>3, <2>4, <2>5
<1> QED BY <1>2, <1>3 DEF Init, Shape

(* What an arriving packet changes.                                        *)
LEMMA PacketStep ==
    ASSUME Shape, NEW c \in Cpus, NEW g \in Cgroups,
           NEW dest \in {Ingress} \cup {{d} : d \in Dests}, Packet(c, g, dest)
    PROVE  /\ Shape'
           /\ At(c, "idle") /\ g \in CountedCgroups /\ Packets < MaxPackets
           /\ Others(c)
           /\ cpu'[c].pc = IF Present(network_map, g) THEN "count" ELSE "update"
           /\ cpu'[c].cgroup = g
           /\ cpu'[c].settled = Settled(g)
           /\ Present(network_map, g) => cpu'[c].t = network_map.slot[g]
           /\ seen' = [seen EXCEPT ![g] = @ + 1]
           /\ UNCHANGED <<network_map, sure, replaced>>
<1> DEFINE p == [pc |-> IF Present(network_map, g) THEN "count" ELSE "update",
                 cgroup |-> g, dest |-> dest,
                 t |-> IF Present(network_map, g) THEN network_map.slot[g] ELSE ExtraOf[c],
                 settled |-> Settled(g)]
<1>1. /\ cpu' = [cpu EXCEPT ![c] = p]
      /\ seen' = [seen EXCEPT ![g] = @ + 1]
      /\ UNCHANGED <<network_map, sure, replaced>>
      /\ At(c, "idle") /\ g # NoCgroup /\ Packets < MaxPackets
  BY DEF Packet
<1>2. p \in Busy
  <2>1. g \in CountedCgroups
    BY <1>1 DEF CountedCgroups
  <2>2. p.t \in Elems
    BY MapFacts DEF Elems, Present
  <2>3. Settled(g) \in BOOLEAN
    BY DEF Settled, Present
  <2>4. p.pc \in {"update", "lookup", "count", "categorize"}
    OBVIOUS
  <2> QED BY <2>1, <2>2, <2>3, <2>4 DEF Busy
<1>3. p.pc = (IF Present(network_map, g) THEN "count" ELSE "update")
      /\ p.cgroup = g /\ p.settled = Settled(g)
      /\ (Present(network_map, g) => p.t = network_map.slot[g])
  OBVIOUS
<1> HIDE DEF p
<1>4. cpu' \in [Cpus -> Busy \cup {Idle}] /\ cpu'[c] = p /\ Others(c)
  BY <1>1, <1>2 DEF Shape, Others
<1>5. seen' \in [Cgroups -> Nat]
  BY <1>1 DEF Shape
<1>6. Shape'
  BY <1>1, <1>4, <1>5 DEF Shape
<1> QED BY <1>1, <1>3, <1>4, <1>6 DEF CountedCgroups

(* What an update does to the map when the key is present, and when it is  *)
(* not and there is room.                                                  *)
Replaces(c, g) ==
    /\ network_map'.slot = [network_map.slot EXCEPT ![g] = network_map.extra[c]]
    /\ network_map'.value = [network_map.value EXCEPT ![network_map.extra[c]] = NoTraffic]
    /\ network_map'.extra = [network_map.extra EXCEPT ![c] = network_map.slot[g]]
    /\ network_map'.free = network_map.free
Inserts(g) ==
    /\ network_map'.slot[g] \in network_map.free
    /\ DOMAIN network_map'.slot = DOMAIN network_map.slot \cup {g}
    /\ \A h \in DOMAIN network_map.slot : network_map'.slot[h] = network_map.slot[h]
    /\ network_map'.value = [network_map.value EXCEPT ![network_map'.slot[g]] = NoTraffic]
    /\ network_map'.free = network_map.free \ {network_map'.slot[g]}
    /\ network_map'.extra = network_map.extra

(* What the insertion of an entry changes.                                 *)
LEMMA UpdateStep ==
    ASSUME Shape, NEW c \in Cpus, Update(c)
    PROVE  /\ Shape'
           /\ At(c, "update") /\ cpu[c].cgroup \in CountedCgroups
           /\ Others(c)
           /\ cpu'[c].pc = "lookup" /\ cpu'[c].cgroup = cpu[c].cgroup
           /\ Present(network_map, cpu[c].cgroup) => Replaces(c, cpu[c].cgroup)
           /\ ~Present(network_map, cpu[c].cgroup) /\ network_map.free # {} => Inserts(cpu[c].cgroup)
           /\ ~Present(network_map, cpu[c].cgroup) /\ network_map.free = {} =>
                 network_map' = network_map
           /\ replaced' = [replaced EXCEPT ![cpu[c].cgroup] =
                              IF Present(network_map, cpu[c].cgroup) THEN @ + 1 ELSE @]
           /\ UNCHANGED <<seen, sure>>
<1> DEFINE g == cpu[c].cgroup
<1>1. /\ At(c, "update")
      /\ network_map' \in Updated(network_map, c, g, NoTraffic)
      /\ replaced' = [replaced EXCEPT ![g] = IF Present(network_map, g) THEN @ + 1 ELSE @]
      /\ cpu' = [cpu EXCEPT ![c].pc = "lookup"]
      /\ UNCHANGED <<seen, sure>>
  BY DEF Update
<1>2. cpu[c] \in Busy /\ g \in CountedCgroups
  BY <1>1, BusyFacts DEF At
<1>3. /\ cpu'[c] \in Busy /\ cpu'[c].pc = "lookup" /\ cpu'[c].cgroup = g
      /\ cpu' \in [Cpus -> Busy \cup {Idle}] /\ Others(c)
  BY <1>1, <1>2 DEF Shape, Others, Busy
<1>4. NoTraffic \in Traffic
  BY DEF NoTraffic, Traffic
<1> HIDE DEF g
<1>5. /\ IsBpfMap(network_map', CountedCgroups, Traffic, Elems, Cpus)
      /\ Disjoint(network_map')
      /\ Present(network_map, g) => Replaces(c, g)
      /\ ~Present(network_map, g) /\ network_map.free # {} => Inserts(g)
      /\ ~Present(network_map, g) /\ network_map.free = {} => network_map' = network_map
  <2>0. IsBpfMap(network_map, CountedCgroups, Traffic, Elems, Cpus) /\ Disjoint(network_map)
    BY DEF Shape
  <2>1. CASE Present(network_map, g)
    <3>1. /\ IsBpfMap(network_map', CountedCgroups, Traffic, Elems, Cpus)
          /\ Disjoint(network_map')
          /\ Replaces(c, g)
      <4>0. network_map' \in Updated(network_map, c, g, NoTraffic)
        BY <1>1
      <4>1. /\ IsBpfMap(network_map', CountedCgroups, Traffic, Elems, Cpus)
            /\ Disjoint(network_map')
            /\ network_map'.slot = [network_map.slot EXCEPT ![g] = network_map.extra[c]]
            /\ network_map'.value = [network_map.value EXCEPT ![network_map.extra[c]] = NoTraffic]
            /\ network_map'.extra = [network_map.extra EXCEPT ![c] = network_map.slot[g]]
            /\ network_map'.free = network_map.free
        BY <1>2, <1>4, <2>0, <2>1, <4>0, ReplaceFacts
      <4> QED BY <4>1 DEF Replaces
    <3> QED BY <2>1, <3>1
  <2>2. CASE ~Present(network_map, g) /\ network_map.free # {}
    <3>1. /\ IsBpfMap(network_map', CountedCgroups, Traffic, Elems, Cpus)
          /\ Disjoint(network_map')
          /\ Inserts(g)
      BY <1>1, <1>2, <1>4, <2>0, <2>2, InsertFacts DEF Inserts
    <3> QED BY <2>2, <3>1
  <2>3. CASE ~Present(network_map, g) /\ network_map.free = {}
    <3>1. network_map' = network_map
      BY <1>1, <2>3, FullFacts
    <3> QED BY <2>0, <2>3, <3>1
  <2> QED BY <2>1, <2>2, <2>3
<1>6. replaced' \in [Cgroups -> Nat]
  BY <1>1, <1>2 DEF Shape, CountedCgroups
<1>7. Shape'
  BY <1>1, <1>3, <1>5, <1>6 DEF Shape
<1> QED BY <1>1, <1>2, <1>3, <1>5, <1>7 DEF g

(* What the second lookup changes.                                         *)
LEMMA Lookup2Step ==
    ASSUME Shape, NEW c \in Cpus, Lookup2(c)
    PROVE  /\ Shape'
           /\ At(c, "lookup") /\ cpu[c].cgroup \in CountedCgroups
           /\ Others(c)
           /\ Present(network_map, cpu[c].cgroup) =>
                 /\ cpu'[c].pc = "count" /\ cpu'[c].cgroup = cpu[c].cgroup
                 /\ cpu'[c].settled = Settled(cpu[c].cgroup)
                 /\ cpu'[c].t = network_map.slot[cpu[c].cgroup]
           /\ ~Present(network_map, cpu[c].cgroup) => cpu'[c] = Idle
           /\ UNCHANGED <<network_map, seen, sure, replaced>>
<1> DEFINE g == cpu[c].cgroup
           q == [cpu[c] EXCEPT !.pc = "count", !.t = network_map.slot[g], !.settled = Settled(g)]
<1>1. /\ At(c, "lookup")
      /\ cpu' = [cpu EXCEPT ![c] = IF Present(network_map, g) THEN q ELSE Idle]
      /\ UNCHANGED <<network_map, seen, sure, replaced>>
  BY DEF Lookup2, Shape
<1>2. cpu[c] \in Busy /\ g \in CountedCgroups
  BY <1>1, BusyFacts DEF At
<1>3. ASSUME Present(network_map, g)
      PROVE  q \in Busy /\ q.pc = "count" /\ q.cgroup = g /\ q.settled = Settled(g)
             /\ q.t = network_map.slot[g]
  <2>1. Settled(g) \in BOOLEAN
    BY DEF Settled, Present
  <2>2. network_map.slot[g] \in Elems
    BY <1>3, MapFacts DEF Present
  <2> QED BY <1>2, <2>1, <2>2 DEF Busy
<1> HIDE DEF g, q
<1>4. /\ cpu' \in [Cpus -> Busy \cup {Idle}] /\ Others(c)
      /\ cpu'[c] = IF Present(network_map, g) THEN q ELSE Idle
  BY <1>1, <1>3 DEF Shape, Others
<1>5. Shape'
  BY <1>1, <1>4 DEF Shape
<1> QED BY <1>1, <1>2, <1>3, <1>4, <1>5 DEF g

(* What the first addition changes: one element's counters of one          *)
(* direction.                                                              *)
LEMMA CountStep ==
    ASSUME Shape, NEW c \in Cpus, Count(c)
    PROVE  LET p == cpu[c]
               v == network_map.value[p.t]
           IN  /\ Shape'
               /\ At(c, "count") /\ p.cgroup \in CountedCgroups /\ p.t \in Elems
               /\ Others(c)
               /\ network_map'.slot = network_map.slot
               /\ network_map'.free = network_map.free
               /\ network_map'.extra = network_map.extra
               /\ \A e \in Elems \ {p.t} : network_map'.value[e] = network_map.value[e]
               /\ LET w == network_map'.value[p.t]
                  IN  /\ w.ingress >= v.ingress /\ w.egress >= v.egress
                      /\ w.ingress + w.egress = v.ingress + v.egress + 1
                      /\ w.cross_az = v.cross_az /\ w.internet = v.internet
                      /\ cpu'[c] # Idle => w.egress = v.egress + 1
               /\ \/ cpu'[c] = Idle
                  \/ /\ cpu'[c].pc = "categorize" /\ cpu'[c].cgroup = p.cgroup /\ cpu'[c].t = p.t
               /\ sure' = [sure EXCEPT ![p.cgroup] = IF p.settled THEN @ + 1 ELSE @]
               /\ UNCHANGED <<seen, replaced>>
<1> DEFINE p == cpu[c]
           v == network_map.value[p.t]
           w == IF p.dest = Ingress THEN [v EXCEPT !.ingress = @ + 1] ELSE [v EXCEPT !.egress = @ + 1]
           q == [p EXCEPT !.pc = "categorize"]
           value == [network_map.value EXCEPT ![p.t] = w]
<1>0. At(c, "count") /\ p \in Busy /\ p.cgroup \in CountedCgroups /\ p.t \in Elems
  BY BusyFacts DEF Count, At
<1>1. v \in Traffic
  BY <1>0, MapFacts
<1>2. /\ w \in Traffic
      /\ w.ingress >= v.ingress /\ w.egress >= v.egress
      /\ w.ingress + w.egress = v.ingress + v.egress + 1
      /\ w.cross_az = v.cross_az /\ w.internet = v.internet
      /\ p.dest # Ingress => w.egress = v.egress + 1
  <2> HIDE DEF v, p
  <2>1. CASE p.dest = Ingress
    BY <1>1, <2>1 DEF Traffic
  <2>2. CASE p.dest # Ingress
    BY <1>1, <2>2 DEF Traffic
  <2> QED BY <2>1, <2>2
<1>3. network_map' = [network_map EXCEPT !.value = value]
  <2>1. DOMAIN network_map = {"slot", "value", "free", "extra"} /\ network_map.value \in [Elems -> Traffic]
    BY DEF Shape, IsBpfMap
  <2>2. CASE p.dest = Ingress
    BY <1>0, <2>1, <2>2 DEF Count
  <2>3. CASE p.dest # Ingress
    BY <1>0, <2>1, <2>3 DEF Count
  <2> QED BY <2>2, <2>3
<1>4. /\ cpu' = [cpu EXCEPT ![c] = IF p.dest = Ingress THEN Idle ELSE q]
      /\ sure' = [sure EXCEPT ![p.cgroup] = IF p.settled THEN @ + 1 ELSE @]
      /\ UNCHANGED <<seen, replaced>>
  BY DEF Count
<1>5. q \in Busy /\ q.pc = "categorize" /\ q.cgroup = p.cgroup /\ q.t = p.t
  BY <1>0 DEF Busy
<1>6. value \in [Elems -> Traffic] /\ value[p.t] = w
      /\ \A e \in Elems \ {p.t} : value[e] = network_map.value[e]
  <2> HIDE DEF w, p
  <2> QED BY <1>0, <1>2, MapFacts
<1> HIDE DEF value, w, q
<1>7. /\ IsBpfMap(network_map', CountedCgroups, Traffic, Elems, Cpus)
      /\ Disjoint(network_map')
      /\ network_map'.slot = network_map.slot
      /\ network_map'.free = network_map.free
      /\ network_map'.extra = network_map.extra
      /\ network_map'.value = value
  BY <1>3, <1>6, WriteFacts DEF Shape
<1>8. /\ cpu' \in [Cpus -> Busy \cup {Idle}] /\ Others(c)
      /\ cpu'[c] = IF p.dest = Ingress THEN Idle ELSE q
  BY <1>4, <1>5 DEF Shape, Others
<1>9. sure' \in [Cgroups -> Nat]
  BY <1>0, <1>4 DEF Shape, CountedCgroups
<1>10. Shape'
  BY <1>4, <1>7, <1>8, <1>9 DEF Shape
<1>11. cpu'[c] # Idle => p.dest # Ingress
  BY <1>8
<1> QED BY <1>0, <1>2, <1>4, <1>5, <1>6, <1>7, <1>8, <1>10, <1>11

(* What the second addition changes: one category, by one at most.         *)
LEMMA CategorizeStep ==
    ASSUME Shape, NEW c \in Cpus, Categorize(c)
    PROVE  LET e == cpu[c].t
               v == network_map.value[e]
           IN  /\ Shape'
               /\ At(c, "categorize") /\ e \in Elems
               /\ Others(c)
               /\ network_map'.slot = network_map.slot
               /\ network_map'.free = network_map.free
               /\ network_map'.extra = network_map.extra
               /\ \A f \in Elems \ {e} : network_map'.value[f] = network_map.value[f]
               /\ LET w == network_map'.value[e]
                  IN  /\ w.ingress = v.ingress /\ w.egress = v.egress
                      /\ w.internet + w.cross_az <= v.internet + v.cross_az + 1
               /\ cpu'[c] = Idle
               /\ UNCHANGED <<seen, sure, replaced>>
<1> DEFINE e == cpu[c].t
           v == network_map.value[e]
<1>0. At(c, "categorize") /\ e \in Elems
  BY BusyFacts DEF Categorize, At
<1>1. v \in Traffic
  BY <1>0, MapFacts
<1>2. PICK d \in cpu[c].dest :
          network_map' = [network_map EXCEPT
            !.value[e].internet = IF is_internet(d) THEN @ + 1 ELSE @,
            !.value[e].cross_az = IF ~is_internet(d) /\ is_cross_az(d) THEN @ + 1 ELSE @]
  BY DEF Categorize
<1> DEFINE w == [v EXCEPT !.internet = IF is_internet(d) THEN @ + 1 ELSE @,
                          !.cross_az = IF ~is_internet(d) /\ is_cross_az(d) THEN @ + 1 ELSE @]
           value == [network_map.value EXCEPT ![e] = w]
<1>3. /\ w \in Traffic
      /\ w.ingress = v.ingress /\ w.egress = v.egress
      /\ w.internet + w.cross_az <= v.internet + v.cross_az + 1
  <2> HIDE DEF v
  <2>1. /\ v.ingress \in Nat /\ v.egress \in Nat /\ v.cross_az \in Nat /\ v.internet \in Nat
        /\ v = [ingress |-> v.ingress, egress |-> v.egress,
                cross_az |-> v.cross_az, internet |-> v.internet]
    BY <1>1 DEF Traffic
  <2> DEFINE i == IF is_internet(d) THEN v.internet + 1 ELSE v.internet
             x == IF ~is_internet(d) /\ is_cross_az(d) THEN v.cross_az + 1 ELSE v.cross_az
  <2>2. w = [ingress |-> v.ingress, egress |-> v.egress, cross_az |-> x, internet |-> i]
    <3>1. w = [v EXCEPT !.internet = i, !.cross_az = x]
      OBVIOUS
    <3> HIDE DEF w, i, x
    <3> QED BY <2>1, <3>1
  <2>3. i \in Nat /\ x \in Nat /\ i + x <= v.internet + v.cross_az + 1
    BY <2>1
  <2> HIDE DEF w, i, x
  <2> QED BY <2>1, <2>2, <2>3 DEF Traffic
<1>4. network_map' = [network_map EXCEPT !.value = value]
  <2>1. DOMAIN network_map = {"slot", "value", "free", "extra"} /\ network_map.value \in [Elems -> Traffic]
    BY DEF Shape, IsBpfMap
  <2>2. v \in [{"ingress", "egress", "cross_az", "internet"} -> Nat]
    BY <1>1 DEF Traffic
  <2>3. /\ DOMAIN v = {"ingress", "egress", "cross_az", "internet"}
    BY <1>1 DEF Traffic
  <2> HIDE DEF e
  <2> QED BY <1>0, <1>2, <2>1, <2>3
<1>5. /\ cpu' = [cpu EXCEPT ![c] = Idle]
      /\ UNCHANGED <<seen, sure, replaced>>
  BY DEF Categorize
<1>6. value \in [Elems -> Traffic] /\ value[e] = w
      /\ \A f \in Elems \ {e} : value[f] = network_map.value[f]
  <2> HIDE DEF w, e
  <2> QED BY <1>0, <1>3, MapFacts
<1> HIDE DEF value, w
<1>7. /\ IsBpfMap(network_map', CountedCgroups, Traffic, Elems, Cpus)
      /\ Disjoint(network_map')
      /\ network_map'.slot = network_map.slot
      /\ network_map'.free = network_map.free
      /\ network_map'.extra = network_map.extra
      /\ network_map'.value = value
  BY <1>4, <1>6, WriteFacts DEF Shape
<1>8. cpu' \in [Cpus -> Busy \cup {Idle}] /\ Others(c) /\ cpu'[c] = Idle
  BY <1>5 DEF Shape, Others
<1>9. Shape'
  BY <1>5, <1>7, <1>8 DEF Shape
<1> QED BY <1>0, <1>3, <1>5, <1>6, <1>7, <1>8, <1>9

(* Every step preserves the types.                                         *)
LEMMA ShapeStep ==
    ASSUME Shape, [Next]_vars
    PROVE  Shape'
<1>1. CASE UNCHANGED vars
  BY <1>1 DEF vars, Shape
<1>2. CASE Next
  BY <1>2, PacketStep, UpdateStep, Lookup2Step, CountStep, CategorizeStep DEF Next
<1> QED BY <1>1, <1>2

-----------------------------------------------------------------------------
(* The argument for SettledPacketsCounted: a packet that saw a settled     *)
(* entry points to the entry of its cgroup, and a cgroup with such a       *)
(* packet has a settled entry ever after.                                  *)
SettledInvariant ==
    /\ \A c \in Cpus, g \in CountedCgroups :
          At(c, "count") /\ cpu[c].settled /\ cpu[c].cgroup = g =>
             Settled(g) /\ cpu[c].t = network_map.slot[g]
    /\ \A g \in CountedCgroups : sure[g] > 0 => Settled(g)
    /\ SettledPacketsCounted

(* What the counters of an entry are.                                      *)
LEMMA EntryTypes ==
    ASSUME Shape, NEW g \in DOMAIN network_map.slot
    PROVE  /\ EntryOf(g) \in Traffic /\ EntryOf(g) = network_map.value[network_map.slot[g]]
           /\ Counted(g) = EntryOf(g).ingress + EntryOf(g).egress
BY MapFacts DEF EntryOf, Counted, Present

(* A count is a natural number.                                            *)
LEMMA CountedNat ==
    ASSUME Shape, NEW g
    PROVE  Counted(g) \in Nat
<1>1. CASE g \in DOMAIN network_map.slot
  BY <1>1, EntryTypes DEF Traffic
<1>2. CASE g \notin DOMAIN network_map.slot
  BY <1>2 DEF Counted, Present
<1> QED BY <1>1, <1>2

(* A settled entry stays settled and in place, and its counts do not fall: *)
(* new packets of the cgroup find it, and insertions for other cgroups     *)
(* take other elements.                                                    *)
LEMMA SettledStays ==
    ASSUME Shape, Next, NEW g \in CountedCgroups, Settled(g)
    PROVE  /\ Settled(g)' /\ network_map'.slot[g] = network_map.slot[g]
           /\ Counted(g)' >= Counted(g)
<1>0. /\ Shape'
      /\ g \in DOMAIN network_map.slot /\ \A c \in Cpus : At(c, "update") => cpu[c].cgroup # g
      /\ network_map.slot[g] \in Elems
  BY ShapeStep, MapFacts DEF Settled, Present, Inserting, At
<1>1. ASSUME UNCHANGED network_map
      PROVE  /\ g \in DOMAIN network_map'.slot /\ network_map'.slot[g] = network_map.slot[g]
             /\ Counted(g)' = Counted(g)
  BY <1>0, <1>1 DEF Counted, EntryOf, Present
<1>2. ASSUME g \in DOMAIN network_map'.slot, NEW c \in Cpus, Others(c),
             At(c, "update")' => cpu'[c].cgroup # g
      PROVE  Settled(g)'
  BY <1>0, <1>2 DEF Settled, Present, Inserting, Others, At
<1>3. ASSUME NEW c \in Cpus, NEW h \in Cgroups,
             NEW dest \in {Ingress} \cup {{d} : d \in Dests}, Packet(c, h, dest)
      PROVE  /\ Settled(g)' /\ network_map'.slot[g] = network_map.slot[g]
             /\ Counted(g)' = Counted(g)
  <2>1. At(c, "update")' => cpu'[c].cgroup # g
    BY <1>0, <1>3, PacketStep DEF At, Present
  <2> QED BY <1>1, <1>2, <1>3, <2>1, PacketStep
<1>4. ASSUME NEW c \in Cpus, Update(c)
      PROVE  /\ Settled(g)' /\ network_map'.slot[g] = network_map.slot[g]
             /\ Counted(g)' = Counted(g)
  <2> DEFINE h == cpu[c].cgroup
  <2>1. /\ h \in CountedCgroups /\ Others(c) /\ cpu'[c].pc = "lookup" /\ h # g
        /\ Present(network_map, h) => Replaces(c, h)
        /\ ~Present(network_map, h) /\ network_map.free # {} => Inserts(h)
        /\ ~Present(network_map, h) /\ network_map.free = {} => network_map' = network_map
    BY <1>0, <1>4, UpdateStep
  <2>3. /\ g \in DOMAIN network_map'.slot /\ network_map'.slot[g] = network_map.slot[g]
        /\ network_map'.value[network_map.slot[g]] = network_map.value[network_map.slot[g]]
    <3> HIDE DEF h
    <3>1. CASE Present(network_map, h)
      <4>1. network_map.slot[g] # network_map.extra[c]
        BY <1>0, MapFacts DEF Shape, Disjoint
      <4> QED BY <1>0, <2>1, <3>1, <4>1, MapFacts DEF Replaces
    <3>2. CASE ~Present(network_map, h) /\ network_map.free # {}
      <4>1. network_map.slot[g] # network_map'.slot[h]
        BY <1>0, <2>1, <3>2 DEF Shape, Disjoint, Inserts
      <4> QED BY <1>0, <2>1, <3>2, <4>1, MapFacts DEF Inserts
    <3>3. CASE ~Present(network_map, h) /\ network_map.free = {}
      BY <1>0, <2>1, <3>3
    <3> QED BY <3>1, <3>2, <3>3
  <2>4. Counted(g)' = Counted(g)
    BY <1>0, <2>3 DEF Counted, EntryOf, Present
  <2> QED BY <1>2, <2>1, <2>3, <2>4 DEF At
<1>5. ASSUME NEW c \in Cpus, Lookup2(c)
      PROVE  /\ Settled(g)' /\ network_map'.slot[g] = network_map.slot[g]
             /\ Counted(g)' = Counted(g)
  <2>1. ~At(c, "update")'
    BY <1>5, Lookup2Step DEF At, Idle
  <2> QED BY <1>1, <1>2, <1>5, <2>1, Lookup2Step
<1>6. ASSUME NEW c \in Cpus, Count(c) \/ Categorize(c)
      PROVE  /\ Settled(g)' /\ network_map'.slot[g] = network_map.slot[g]
             /\ Counted(g)' >= Counted(g)
  <2>1. /\ Others(c) /\ network_map'.slot = network_map.slot /\ ~At(c, "update")'
    <3>1. CASE Count(c)
      BY <3>1, CountStep DEF At, Idle
    <3>2. CASE Categorize(c)
      BY <3>2, CategorizeStep DEF At, Idle
    <3> QED BY <1>6, <3>1, <3>2
  <2>2. EntryOf(g) \in Traffic /\ EntryOf(g)' \in Traffic
    BY <1>0, <2>1, MapFacts, EntryTypes DEF Shape, IsBpfMap, EntryOf
  <2>3. EntryOf(g)'.ingress >= EntryOf(g).ingress /\ EntryOf(g)'.egress >= EntryOf(g).egress
    <3> DEFINE s == network_map.slot[g]
    <3>1. EntryOf(g) = network_map.value[s] /\ EntryOf(g)' = network_map'.value[s]
      BY <2>1 DEF EntryOf
    <3>2. CASE Count(c)
      <4>1. CASE s = cpu[c].t
        BY <3>1, <3>2, <4>1, CountStep
      <4>2. CASE s # cpu[c].t
        <5>1. EntryOf(g)' = EntryOf(g)
          BY <1>0, <3>1, <3>2, <4>2, CountStep
        <5> QED BY <2>2, <5>1 DEF Traffic
      <4> QED BY <4>1, <4>2
    <3>3. CASE Categorize(c)
      <4>1. EntryOf(g)'.ingress = EntryOf(g).ingress /\ EntryOf(g)'.egress = EntryOf(g).egress
        BY <1>0, <3>1, <3>3, CategorizeStep
      <4> QED BY <2>2, <4>1 DEF Traffic
    <3> QED BY <1>6, <3>2, <3>3
  <2>4. Counted(g)' >= Counted(g)
    <3>1. /\ Counted(g) = EntryOf(g).ingress + EntryOf(g).egress
          /\ Counted(g)' = EntryOf(g)'.ingress + EntryOf(g)'.egress
      BY <1>0, <2>1 DEF Counted, Present
    <3> QED BY <2>2, <2>3, <3>1 DEF Traffic
  <2> QED BY <1>0, <1>2, <2>1, <2>4
<1>7. \A h : Counted(h) \in Nat
  BY CountedNat
<1> QED BY <1>3, <1>4, <1>5, <1>6, <1>7 DEF Next

(* Every step preserves the invariant.                                     *)
LEMMA SettledStep ==
    ASSUME Shape, SettledInvariant, [Next]_vars
    PROVE  SettledInvariant'
<1>1. CASE UNCHANGED vars
  BY <1>1 DEF vars, SettledInvariant, Settled, Present, Inserting, At, SettledPacketsCounted,
              Counted, EntryOf
<1>2. CASE Next
  <2>0. /\ Shape' /\ \A g \in CountedCgroups : g \in Cgroups
        /\ \A g : Counted(g) \in Nat /\ Counted(g)' \in Nat
        /\ sure \in [Cgroups -> Nat] /\ sure' \in [Cgroups -> Nat]
    <3>1. Shape'
      BY ShapeStep
    <3>2. ASSUME NEW g PROVE Counted(g)' \in Nat
      <4>1. CASE g \in DOMAIN network_map'.slot
        <5>1. EntryOf(g)' \in Traffic
          BY <3>1, <4>1 DEF Shape, IsBpfMap, IsMap, EntryOf
        <5> QED BY <4>1, <5>1 DEF Counted, Present, Traffic
      <4>2. CASE g \notin DOMAIN network_map'.slot
        BY <4>2 DEF Counted, Present
      <4> QED BY <4>1, <4>2
    <3> QED BY <3>1, <3>2, CountedNat DEF Shape, CountedCgroups
  <2>1. \A g \in CountedCgroups : Settled(g) =>
            /\ Settled(g)' /\ network_map'.slot[g] = network_map.slot[g]
            /\ Counted(g)' >= Counted(g)
    BY <1>2, SettledStays
  <2>2. ASSUME NEW c \in Cpus, Others(c),
               At(c, "count")' /\ cpu'[c].settled =>
                  /\ cpu'[c].cgroup \in CountedCgroups
                  /\ Settled(cpu'[c].cgroup)
                  /\ cpu'[c].t = network_map.slot[cpu'[c].cgroup],
               sure' = sure
        PROVE  SettledInvariant'
    <3>1. ASSUME NEW d \in Cpus, NEW g \in CountedCgroups, At(d, "count")', cpu'[d].settled,
                 cpu'[d].cgroup = g
          PROVE  Settled(g) /\ cpu'[d].t = network_map.slot[g]
      <4>1. CASE d = c
        BY <2>2, <3>1, <4>1
      <4>2. CASE d # c
        <5>1. cpu'[d] = cpu[d]
          BY <2>2, <4>2 DEF Others
        <5>2. At(d, "count") /\ cpu[d].settled /\ cpu[d].cgroup = g
          BY <3>1, <5>1 DEF At
        <5> QED BY <5>1, <5>2 DEF SettledInvariant
      <4> QED BY <4>1, <4>2
    <3>2. \A d \in Cpus, g \in CountedCgroups :
             At(d, "count")' /\ cpu'[d].settled /\ cpu'[d].cgroup = g =>
                Settled(g)' /\ cpu'[d].t = network_map'.slot[g]
      BY <2>1, <3>1
    <3>3. \A g \in CountedCgroups : sure'[g] > 0 => Settled(g)'
      BY <2>1, <2>2 DEF SettledInvariant
    <3>4. ASSUME NEW g \in CountedCgroups
          PROVE  Counted(g)' >= sure'[g]
      <4>1. CASE sure[g] > 0
        <5>1. Counted(g)' >= Counted(g) /\ Counted(g) >= sure[g]
          BY <2>1, <4>1 DEF SettledInvariant, SettledPacketsCounted
        <5> QED BY <2>0, <2>2, <5>1
      <4>2. CASE sure[g] = 0
        BY <2>0, <2>2, <4>2
      <4> QED BY <2>0, <4>1, <4>2
    <3> QED BY <3>2, <3>3, <3>4 DEF SettledInvariant, SettledPacketsCounted
  <2>3. ASSUME NEW c \in Cpus, NEW g \in Cgroups,
               NEW dest \in {Ingress} \cup {{d} : d \in Dests}, Packet(c, g, dest)
        PROVE  SettledInvariant'
    <3>1. Settled(g) => Present(network_map, g)
      BY DEF Settled
    <3>2. /\ Others(c) /\ sure' = sure
          /\ cpu'[c].cgroup = g /\ g \in CountedCgroups
          /\ cpu'[c].settled = Settled(g)
          /\ Present(network_map, g) => cpu'[c].t = network_map.slot[g]
      BY <2>3, PacketStep
    <3> QED BY <2>2, <3>1, <3>2
  <2>4. ASSUME NEW c \in Cpus, Update(c)
        PROVE  SettledInvariant'
    <3>1. Others(c) /\ sure' = sure /\ ~At(c, "count")'
      BY <2>4, UpdateStep DEF At
    <3> QED BY <2>2, <3>1
  <2>5. ASSUME NEW c \in Cpus, Lookup2(c)
        PROVE  SettledInvariant'
    <3>1. /\ Others(c) /\ sure' = sure /\ cpu[c].cgroup \in CountedCgroups
          /\ Present(network_map, cpu[c].cgroup) =>
                 /\ cpu'[c].cgroup = cpu[c].cgroup
                 /\ cpu'[c].settled = Settled(cpu[c].cgroup)
                 /\ cpu'[c].t = network_map.slot[cpu[c].cgroup]
          /\ ~Present(network_map, cpu[c].cgroup) => ~At(c, "count")'
      BY <2>5, Lookup2Step DEF At, Idle
    <3> QED BY <2>2, <3>1
  <2>6. ASSUME NEW c \in Cpus, Count(c)
        PROVE  SettledInvariant'
    <3>0. PICK g : g = cpu[c].cgroup
      OBVIOUS
    <3>1. /\ At(c, "count") /\ g \in CountedCgroups /\ Others(c) /\ ~At(c, "count")'
          /\ sure' = [sure EXCEPT ![g] = IF cpu[c].settled THEN @ + 1 ELSE @]
      BY <2>6, <3>0, CountStep DEF At, Idle
    <3>2. CASE ~cpu[c].settled
      <4>1. sure' = sure
        BY <2>0, <3>1, <3>2
      <4> QED BY <2>2, <3>1, <4>1
    <3>3. CASE cpu[c].settled
      <4>1. Settled(g) /\ cpu[c].t = network_map.slot[g]
        BY <3>0, <3>1, <3>3 DEF SettledInvariant
      <4>2. Counted(g)' = Counted(g) + 1
        <5>1. g \in DOMAIN network_map.slot /\ network_map'.slot = network_map.slot
          BY <2>6, <4>1, CountStep DEF Settled, Present
        <5>2. /\ EntryOf(g) = network_map.value[cpu[c].t]
              /\ EntryOf(g)' = network_map'.value[cpu[c].t]
          BY <4>1, <5>1 DEF EntryOf
        <5>3. EntryOf(g)'.ingress + EntryOf(g)'.egress = EntryOf(g).ingress + EntryOf(g).egress + 1
          BY <2>6, <5>2, CountStep
        <5> QED BY <5>1, <5>3 DEF Counted, Present
      <4>3. ASSUME NEW d \in Cpus, NEW h \in CountedCgroups, At(d, "count")', cpu'[d].settled,
                   cpu'[d].cgroup = h
            PROVE  Settled(h)' /\ cpu'[d].t = network_map'.slot[h]
        <5>1. d # c
          BY <3>1, <4>3
        <5>2. cpu'[d] = cpu[d]
          BY <3>1, <5>1 DEF Others
        <5>3. At(d, "count") /\ cpu[d].settled /\ cpu[d].cgroup = h
          BY <4>3, <5>2 DEF At
        <5> QED BY <2>1, <5>2, <5>3 DEF SettledInvariant
      <4>4. \A h \in CountedCgroups : sure'[h] > 0 => Settled(h)'
        <5>1. \A h \in CountedCgroups : sure'[h] > 0 => Settled(h)
          BY <2>0, <3>1, <4>1 DEF SettledInvariant
        <5> QED BY <2>1, <5>1
      <4>5. ASSUME NEW h \in CountedCgroups
            PROVE  Counted(h)' >= sure'[h]
        <5>1. CASE h = g
          BY <2>0, <3>1, <3>3, <4>2, <5>1 DEF SettledInvariant, SettledPacketsCounted
        <5>2. CASE h # g
          <6>1. sure'[h] = sure[h] /\ sure[h] \in Nat
            BY <2>0, <3>1, <5>2
          <6>2. CASE sure[h] > 0
            <7>1. Counted(h)' >= Counted(h) /\ Counted(h) >= sure[h]
              BY <2>1, <6>2 DEF SettledInvariant, SettledPacketsCounted
            <7> QED BY <2>0, <6>1, <7>1
          <6>3. CASE sure[h] = 0
            BY <2>0, <6>1, <6>3
          <6> QED BY <6>1, <6>2, <6>3
        <5> QED BY <5>1, <5>2
      <4> QED BY <4>3, <4>4, <4>5 DEF SettledInvariant, SettledPacketsCounted
    <3> QED BY <3>2, <3>3
  <2>7. ASSUME NEW c \in Cpus, Categorize(c)
        PROVE  SettledInvariant'
    <3>1. Others(c) /\ sure' = sure /\ ~At(c, "count")'
      BY <2>7, CategorizeStep DEF At, Idle
    <3> QED BY <2>2, <3>1
  <2> QED BY <1>2, <2>3, <2>4, <2>5, <2>6, <2>7 DEF Next
<1> QED BY <1>1, <1>2

(* A packet that finds an entry nobody is about to insert over is counted  *)
(* for good (count_egress, count_ingress).                                 *)
THEOREM SettledPacketsCorrect == Spec => []SettledPacketsCounted
<1>1. Init => Shape /\ SettledInvariant
  <2> SUFFICES ASSUME Init PROVE Shape /\ SettledInvariant
    OBVIOUS
  <2>1. Shape
    BY InitShape
  <2>2. /\ \A c \in Cpus : ~At(c, "count")
        /\ \A g \in CountedCgroups : sure[g] = 0
    BY DEF Init, At, Idle, CountedCgroups
  <2>3. \A g : Counted(g) \in Nat
    BY <2>1, CountedNat
  <2> QED BY <2>1, <2>2, <2>3 DEF SettledInvariant, SettledPacketsCounted
<1>2. Shape /\ SettledInvariant /\ [Next]_vars => (Shape /\ SettledInvariant)'
  BY ShapeStep, SettledStep
<1>3. SettledInvariant => SettledPacketsCounted
  BY DEF SettledInvariant
<1> QED BY <1>1, <1>2, <1>3, PTL DEF Spec

-----------------------------------------------------------------------------
(* How many CPUs a set of them has.                                        *)
LEMMA CpuSets ==
    ASSUME NEW S \in SUBSET Cpus
    PROVE  /\ IsFiniteSet(S) /\ Cardinality(S) \in Nat
           /\ Cardinality(S) <= Cardinality(Cpus) /\ Cardinality(Cpus) \in Nat
           /\ \A c \in S : Cardinality(S \ {c}) = Cardinality(S) - 1 /\ Cardinality(S) > 0
           /\ \A c \in Cpus \ S : /\ Cardinality(S \cup {c}) = Cardinality(S) + 1
                                  /\ Cardinality(S) < Cardinality(Cpus)
<1>1. IsFiniteSet(Cpus)
  BY FiniteAssumption
<1>2. IsFiniteSet(S) /\ Cardinality(S) \in Nat /\ Cardinality(S) <= Cardinality(Cpus)
  BY <1>1, FS_Subset, FS_CardinalityType
<1>3. Cardinality(Cpus) \in Nat
  BY <1>1, FS_CardinalityType
<1>4. ASSUME NEW c \in S
      PROVE  Cardinality(S \ {c}) = Cardinality(S) - 1 /\ Cardinality(S) > 0
  <2>1. IsFiniteSet(S \ {c}) /\ Cardinality(S \ {c}) = Cardinality(S) - 1
    BY <1>2, FS_RemoveElement
  <2>2. Cardinality(S \ {c}) \in Nat
    BY <2>1, FS_CardinalityType
  <2> QED BY <1>2, <2>1, <2>2
<1>5. ASSUME NEW c \in Cpus \ S
      PROVE  Cardinality(S \cup {c}) = Cardinality(S) + 1 /\ Cardinality(S) < Cardinality(Cpus)
  <2>1. Cardinality(S \cup {c}) = Cardinality(S) + 1
    BY <1>2, FS_AddElement
  <2>2. S \cup {c} \in SUBSET Cpus
    OBVIOUS
  <2>3. Cardinality(S \cup {c}) <= Cardinality(Cpus)
    BY <1>1, <2>2, FS_Subset
  <2> QED BY <1>2, <1>3, <2>1, <2>3
<1> QED BY <1>2, <1>3, <1>4, <1>5

-----------------------------------------------------------------------------
(* A replacement uses up a CPU that found no entry, and with the entry     *)
(* there no CPU joins them; the one that inserted the entry has left them. *)
ReplacedInvariant ==
    \A g \in CountedCgroups :
       /\ Present(network_map, g) => replaced[g] + Cardinality(Inserting(g)) < Cardinality(Cpus)
       /\ ~Present(network_map, g) => replaced[g] = 0

(* Every step preserves the invariant.                                     *)
LEMMA ReplacedStep ==
    ASSUME Shape, ReplacedInvariant, [Next]_vars
    PROVE  ReplacedInvariant'
<1>1. CASE UNCHANGED vars
  BY <1>1 DEF vars, ReplacedInvariant, Present, Inserting
<1>2. CASE Next
  <2>0. /\ \A g : Inserting(g) \in SUBSET Cpus /\ Inserting(g)' \in SUBSET Cpus
        /\ CountedCgroups \subseteq Cgroups
        /\ replaced \in [Cgroups -> Nat]
    BY DEF Inserting, CountedCgroups, Shape
  <2>1. ASSUME NEW c \in Cpus, Others(c), ~At(c, "update"), ~At(c, "update")',
               network_map'.slot = network_map.slot, replaced' = replaced
        PROVE  ReplacedInvariant'
    <3>1. \A g : Inserting(g)' = Inserting(g)
      BY <2>1 DEF Inserting, Others, At
    <3>2. \A g : Present(network_map, g)' <=> Present(network_map, g)
      BY <2>1 DEF Present
    <3> QED BY <2>1, <3>1, <3>2 DEF ReplacedInvariant
  <2>2. ASSUME NEW c \in Cpus, NEW g \in Cgroups,
               NEW dest \in {Ingress} \cup {{d} : d \in Dests}, Packet(c, g, dest)
        PROVE  ReplacedInvariant'
    <3>1. /\ At(c, "idle") /\ Others(c) /\ cpu'[c].cgroup = g
          /\ cpu'[c].pc = IF Present(network_map, g) THEN "count" ELSE "update"
          /\ network_map' = network_map /\ replaced' = replaced
      BY <2>2, PacketStep
    <3>2. ASSUME NEW h \in CountedCgroups, Present(network_map, h)
          PROVE  Inserting(h)' = Inserting(h)
      BY <3>1, <3>2 DEF Inserting, Others, At
    <3>3. \A h : Present(network_map, h)' <=> Present(network_map, h)
      BY <3>1
    <3> QED BY <3>1, <3>2, <3>3 DEF ReplacedInvariant
  <2>3. ASSUME NEW c \in Cpus, Update(c)
        PROVE  ReplacedInvariant'
    <3>0. PICK g : g = cpu[c].cgroup
      OBVIOUS
    <3>1. /\ At(c, "update") /\ Others(c) /\ cpu'[c].pc = "lookup" /\ g \in CountedCgroups
          /\ replaced' = [replaced EXCEPT ![g] = IF Present(network_map, g) THEN @ + 1 ELSE @]
          /\ Present(network_map, g) => Replaces(c, g)
          /\ ~Present(network_map, g) /\ network_map.free # {} => Inserts(g)
          /\ ~Present(network_map, g) /\ network_map.free = {} => network_map' = network_map
      BY <2>3, <3>0, UpdateStep
    <3>2. Inserting(g)' = Inserting(g) \ {c} /\ c \in Inserting(g)
      BY <3>0, <3>1 DEF Inserting, Others, At
    <3>3. \A h : h # g => Inserting(h)' = Inserting(h)
      BY <3>0, <3>1 DEF Inserting, Others, At
    <3>4. /\ Cardinality(Inserting(g)') = Cardinality(Inserting(g)) - 1
          /\ Cardinality(Inserting(g)) \in Nat /\ Cardinality(Inserting(g)) > 0
          /\ Cardinality(Inserting(g)) <= Cardinality(Cpus)
      BY <2>0, <3>2, CpuSets
    <3>5. \A h : h # g => (Present(network_map, h)' <=> Present(network_map, h))
      <4>1. CASE Present(network_map, g)
        BY <3>1, <4>1 DEF Replaces, Present
      <4>2. CASE ~Present(network_map, g) /\ network_map.free # {}
        BY <3>1, <4>2 DEF Inserts, Present
      <4>3. CASE ~Present(network_map, g) /\ network_map.free = {}
        BY <3>1, <4>3 DEF Present
      <4> QED BY <4>1, <4>2, <4>3
    <3>6. \A h \in CountedCgroups : h # g => replaced'[h] = replaced[h]
      BY <2>0, <3>1
    <3>7. /\ Present(network_map, g)' =>
               replaced'[g] + Cardinality(Inserting(g)') < Cardinality(Cpus)
          /\ ~Present(network_map, g)' => replaced'[g] = 0
      <4>1. CASE Present(network_map, g)
        <5>1. /\ replaced'[g] = replaced[g] + 1 /\ replaced[g] \in Nat
              /\ replaced[g] + Cardinality(Inserting(g)) < Cardinality(Cpus)
          BY <2>0, <3>1, <4>1 DEF ReplacedInvariant
        <5>2. Present(network_map, g)'
          BY <3>1, <4>1 DEF Replaces, Present
        <5>3. Cardinality(Cpus) \in Nat
          BY <2>0, CpuSets
        <5> QED BY <3>4, <5>1, <5>2, <5>3
      <4>2. CASE ~Present(network_map, g)
        <5>1. replaced'[g] = 0
          BY <2>0, <3>1, <4>2 DEF ReplacedInvariant
        <5>2. Cardinality(Cpus) \in Nat
          BY <2>0, CpuSets
        <5> QED BY <3>4, <5>1, <5>2
      <4> QED BY <4>1, <4>2
    <3> QED BY <3>3, <3>5, <3>6, <3>7 DEF ReplacedInvariant
  <2>4. ASSUME NEW c \in Cpus, Lookup2(c)
        PROVE  ReplacedInvariant'
    <3>1. /\ Others(c) /\ ~At(c, "update") /\ ~At(c, "update")'
          /\ network_map' = network_map /\ replaced' = replaced
      BY <2>4, Lookup2Step DEF At, Idle
    <3> QED BY <2>1, <3>1
  <2>5. ASSUME NEW c \in Cpus, Count(c)
        PROVE  ReplacedInvariant'
    <3>1. /\ Others(c) /\ ~At(c, "update") /\ ~At(c, "update")'
          /\ network_map'.slot = network_map.slot /\ replaced' = replaced
      BY <2>5, CountStep DEF At, Idle
    <3> QED BY <2>1, <3>1
  <2>6. ASSUME NEW c \in Cpus, Categorize(c)
        PROVE  ReplacedInvariant'
    <3>1. /\ Others(c) /\ ~At(c, "update") /\ ~At(c, "update")'
          /\ network_map'.slot = network_map.slot /\ replaced' = replaced
      BY <2>6, CategorizeStep DEF At, Idle
    <3> QED BY <2>1, <3>1
  <2> QED BY <1>2, <2>2, <2>3, <2>4, <2>5, <2>6 DEF Next
<1> QED BY <1>1, <1>2

(* The invariant holds of the empty map.                                   *)
LEMMA InitReplaced ==
    ASSUME Init
    PROVE  ReplacedInvariant
<1>1. DOMAIN network_map.slot = {} /\ \A g \in CountedCgroups : replaced[g] = 0
  BY InitShape DEF Init, CountedCgroups
<1> QED BY <1>1 DEF ReplacedInvariant, Present

(* An entry is replaced fewer times than there are CPUs, whatever the      *)
(* interleaving of lookup and insertion (count_egress, count_ingress).     *)
THEOREM ReplacementsCorrect == Spec => []ReplacementsBounded
<1>1. Init => Shape /\ ReplacedInvariant
  BY InitShape, InitReplaced
<1>2. Shape /\ ReplacedInvariant /\ [Next]_vars => (Shape /\ ReplacedInvariant)'
  BY ShapeStep, ReplacedStep
<1>3. Shape /\ ReplacedInvariant => ReplacementsBounded
  BY MapFacts DEF ReplacedInvariant, ReplacementsBounded, Present
<1> QED BY <1>1, <1>2, <1>3, PTL DEF Spec

-----------------------------------------------------------------------------
(* The CPUs with a packet of g that is not counted yet.                    *)
Uncounted(g) == {c \in Cpus : cpu[c].pc \in {"update", "lookup", "count"} /\ cpu[c].cgroup = g}

(* The history variables add up: a packet counts at most once as sure.     *)
PacketsInvariant ==
    /\ Packets <= MaxPackets
    /\ \A g \in Cgroups : sure[g] + Cardinality(Uncounted(g)) <= seen[g]

(* One more packet of a cgroup is one more in all.                         *)
LEMMA PacketsGrow ==
    ASSUME NEW g \in Cgroups, NEW f \in [Cgroups -> Nat], NEW h, h = [f EXCEPT ![g] = @ + 1]
    PROVE  /\ SumFunctionOnSet(f, Cgroups) \in Nat
           /\ SumFunctionOnSet(h, Cgroups) = SumFunctionOnSet(f, Cgroups) + 1
           /\ f[g] <= SumFunctionOnSet(f, Cgroups)
<1>1. IsFiniteSet(Cgroups) /\ IsFiniteSet(Cgroups \ {g})
  BY FiniteAssumption, FS_Subset
<1>2. h \in [Cgroups -> Nat] /\ h[g] = f[g] + 1 /\ \A x \in Cgroups \ {g} : h[x] = f[x]
  OBVIOUS
<1>3. SumFunctionOnSet(f, Cgroups) = f[g] + SumFunctionOnSet(f, Cgroups \ {g})
  BY <1>1, SumRemoves
<1>4. SumFunctionOnSet(h, Cgroups) = h[g] + SumFunctionOnSet(h, Cgroups \ {g})
  <2>1. \A x \in Cgroups : h[x] \in Int
    BY <1>2
  <2> QED BY <1>1, <2>1, SumRemoves
<1>5. SumFunctionOnSet(h, Cgroups \ {g}) = SumFunctionOnSet(f, Cgroups \ {g})
  BY <1>1, <1>2, SumEqual
<1>6. SumFunctionOnSet(f, Cgroups \ {g}) \in Nat
  BY <1>1, SumType
<1> QED BY <1>2, <1>3, <1>4, <1>5, <1>6

(* Every step preserves the invariant.                                     *)
LEMMA PacketsStep ==
    ASSUME Shape, PacketsInvariant, [Next]_vars
    PROVE  PacketsInvariant'
<1>1. CASE UNCHANGED vars
  BY <1>1 DEF vars, PacketsInvariant, Packets, Uncounted
<1>2. CASE Next
  <2>0. /\ \A g : Uncounted(g) \in SUBSET Cpus /\ Uncounted(g)' \in SUBSET Cpus
        /\ \A g : Cardinality(Uncounted(g)) \in Nat /\ Cardinality(Uncounted(g)') \in Nat
        /\ CountedCgroups \subseteq Cgroups
        /\ seen \in [Cgroups -> Nat] /\ sure \in [Cgroups -> Nat]
    <3>1. \A g : Uncounted(g) \in SUBSET Cpus /\ Uncounted(g)' \in SUBSET Cpus
      BY DEF Uncounted
    <3> QED BY <3>1, CpuSets DEF CountedCgroups, Shape
  <2>1. ASSUME NEW c \in Cpus, Others(c), seen' = seen, sure' = sure,
               At(c, "update")' \/ At(c, "lookup")' \/ At(c, "count")' =>
                  /\ cpu[c].pc \in {"update", "lookup", "count"}
                  /\ cpu'[c].cgroup = cpu[c].cgroup
        PROVE  PacketsInvariant'
    <3>1. \A g : Uncounted(g)' \subseteq Uncounted(g)
      BY <2>1 DEF Uncounted, Others, At
    <3>2. \A g : Cardinality(Uncounted(g)') <= Cardinality(Uncounted(g))
      BY <2>0, <3>1, CpuSets, FS_Subset
    <3>3. Packets' = Packets
      BY <2>1 DEF Packets
    <3>4. ASSUME NEW g \in Cgroups
          PROVE  sure'[g] + Cardinality(Uncounted(g)') <= seen'[g]
      <4>1. /\ sure[g] + Cardinality(Uncounted(g)) <= seen[g]
            /\ sure[g] \in Nat /\ seen[g] \in Nat
        BY <2>0 DEF PacketsInvariant
      <4> QED BY <2>0, <2>1, <3>2, <4>1
    <3> QED BY <3>3, <3>4 DEF PacketsInvariant
  <2>2. ASSUME NEW c \in Cpus, NEW g \in Cgroups,
               NEW dest \in {Ingress} \cup {{d} : d \in Dests}, Packet(c, g, dest)
        PROVE  PacketsInvariant'
    <3>1. /\ At(c, "idle") /\ Others(c) /\ cpu'[c].cgroup = g
          /\ cpu'[c].pc = IF Present(network_map, g) THEN "count" ELSE "update"
          /\ seen' = [seen EXCEPT ![g] = @ + 1] /\ sure' = sure
          /\ Packets < MaxPackets
      BY <2>2, PacketStep
    <3>2. Packets' = Packets + 1 /\ Packets \in Nat
      BY <2>0, <3>1, PacketsGrow DEF Packets
    <3>3. Uncounted(g)' = Uncounted(g) \cup {c} /\ c \in Cpus \ Uncounted(g)
      BY <3>1 DEF Uncounted, Others, At
    <3>4. \A h : h # g => Uncounted(h)' = Uncounted(h)
      BY <3>1 DEF Uncounted, Others, At
    <3>5. Cardinality(Uncounted(g)') = Cardinality(Uncounted(g)) + 1
      BY <2>0, <3>3, CpuSets
    <3>6. ASSUME NEW h \in Cgroups
          PROVE  sure'[h] + Cardinality(Uncounted(h)') <= seen'[h]
      <4>1. /\ sure[h] + Cardinality(Uncounted(h)) <= seen[h]
            /\ sure[h] \in Nat /\ seen[h] \in Nat
        BY <2>0 DEF PacketsInvariant
      <4>2. CASE h = g
        BY <2>0, <3>1, <3>5, <4>1, <4>2
      <4>3. CASE h # g
        BY <2>0, <3>1, <3>4, <4>1, <4>3
      <4> QED BY <4>2, <4>3
    <3>7. Packets' <= MaxPackets
      BY <3>1, <3>2, MaxPacketsAssumption
    <3> QED BY <3>6, <3>7 DEF PacketsInvariant
  <2>3. ASSUME NEW c \in Cpus, Update(c)
        PROVE  PacketsInvariant'
    BY <2>1, <2>3, UpdateStep DEF At
  <2>4. ASSUME NEW c \in Cpus, Lookup2(c)
        PROVE  PacketsInvariant'
    BY <2>1, <2>4, Lookup2Step DEF At, Idle
  <2>5. ASSUME NEW c \in Cpus, Count(c)
        PROVE  PacketsInvariant'
    <3>0. PICK g : g = cpu[c].cgroup
      OBVIOUS
    <3>1. /\ At(c, "count") /\ Others(c) /\ g \in CountedCgroups
          /\ ~ cpu'[c].pc \in {"update", "lookup", "count"}
          /\ sure' = [sure EXCEPT ![g] = IF cpu[c].settled THEN @ + 1 ELSE @]
          /\ seen' = seen
      BY <2>5, <3>0, CountStep DEF At, Idle
    <3>2. Uncounted(g)' = Uncounted(g) \ {c} /\ c \in Uncounted(g)
      BY <3>0, <3>1 DEF Uncounted, Others, At
    <3>3. \A h : h # g => Uncounted(h)' = Uncounted(h)
      BY <3>0, <3>1 DEF Uncounted, Others, At
    <3>4. Cardinality(Uncounted(g)') = Cardinality(Uncounted(g)) - 1
      BY <2>0, <3>2, CpuSets
    <3>5. Packets' = Packets
      BY <3>1 DEF Packets
    <3>6. ASSUME NEW h \in Cgroups
          PROVE  sure'[h] + Cardinality(Uncounted(h)') <= seen'[h]
      <4>1. /\ sure[h] + Cardinality(Uncounted(h)) <= seen[h]
            /\ sure[h] \in Nat /\ seen[h] \in Nat
        BY <2>0 DEF PacketsInvariant
      <4>2. CASE h = g
        <5>1. sure'[h] <= sure[h] + 1 /\ sure'[h] \in Nat
          BY <2>0, <3>1, <4>1, <4>2
        <5> QED BY <2>0, <3>1, <3>4, <4>1, <4>2, <5>1
      <4>3. CASE h # g
        BY <2>0, <3>1, <3>3, <4>1, <4>3
      <4> QED BY <4>2, <4>3
    <3> QED BY <3>5, <3>6 DEF PacketsInvariant
  <2>6. ASSUME NEW c \in Cpus, Categorize(c)
        PROVE  PacketsInvariant'
    BY <2>1, <2>6, CategorizeStep DEF At, Idle
  <2> QED BY <1>2, <2>2, <2>3, <2>4, <2>5, <2>6 DEF Next
<1> QED BY <1>1, <1>2

(* There are no packets at the start.                                      *)
LEMMA InitPackets ==
    ASSUME Init
    PROVE  PacketsInvariant
<1>1. IsFiniteSet(Cgroups) /\ seen \in [Cgroups -> Nat]
  BY FiniteAssumption DEF Init
<1>2. \A g : Uncounted(g) = {}
  BY DEF Init, Uncounted, Idle
<1>3. \A g \in Cgroups : sure[g] = 0 /\ seen[g] = 0
  BY DEF Init
<1>4. Cardinality({}) = 0
  BY FS_EmptySet
<1>5. Packets = 0
  BY <1>1, <1>3, SumZero DEF Packets
<1> QED BY <1>2, <1>3, <1>4, <1>5, MaxPacketsAssumption DEF PacketsInvariant

(* The variables have their types, and the history variables their bounds. *)
THEOREM TypeCorrect == Spec => []TypeOK
<1>1. Init => Shape /\ PacketsInvariant
  BY InitShape, InitPackets
<1>2. Shape /\ PacketsInvariant /\ [Next]_vars => (Shape /\ PacketsInvariant)'
  BY ShapeStep, PacketsStep
<1>3. Shape /\ PacketsInvariant => TypeOK
  <2> SUFFICES ASSUME Shape, PacketsInvariant PROVE TypeOK
    OBVIOUS
  <2>1. seen \in [Cgroups -> Nat] /\ sure \in [Cgroups -> Nat]
    BY DEF Shape
  <2>2. ASSUME NEW g \in Cgroups
        PROVE  seen[g] \in 0 .. MaxPackets /\ sure[g] \in 0 .. MaxPackets
    <3>1. seen[g] <= Packets /\ Packets \in Nat /\ Packets <= MaxPackets
      BY <2>1, PacketsGrow DEF Packets, PacketsInvariant
    <3>2. Cardinality(Uncounted(g)) \in Nat
      <4>1. Uncounted(g) \in SUBSET Cpus
        BY DEF Uncounted
      <4> QED BY <4>1, CpuSets
    <3>3. sure[g] + Cardinality(Uncounted(g)) <= seen[g] /\ sure[g] \in Nat /\ seen[g] \in Nat
      BY <2>1 DEF PacketsInvariant
    <3> QED BY <3>1, <3>2, <3>3, MaxPacketsAssumption
  <2>3. seen \in [Cgroups -> 0 .. MaxPackets] /\ sure \in [Cgroups -> 0 .. MaxPackets]
    BY <2>1, <2>2
  <2> QED BY <2>3 DEF Shape, TypeOK
<1> QED BY <1>1, <1>2, <1>3, PTL DEF Spec

-----------------------------------------------------------------------------
(* The cases CategoriesWithinEgress speaks of: one cgroup's entry at most  *)
(* was replaced.                                                           *)
Once == \A g, h \in CountedCgroups : replaced[g] > 0 /\ replaced[h] > 0 => g = h

(* A CPU whose extra element is another than at the start has replaced the *)
(* entry of a cgroup, and will not insert for that cgroup again.           *)
UsedInvariant ==
    \A c \in Cpus : network_map.extra[c] # ExtraOf[c] =>
       \E g \in CountedCgroups : replaced[g] > 0 /\ Present(network_map, g) /\ c \notin Inserting(g)

(* The CPUs that use the pointer t.                                        *)
Holding(c) == At(c, "count") \/ At(c, "categorize")

(* Nobody counts in an element that no cgroup has had yet.                 *)
HeldInvariant ==
    Once => \A c \in Cpus : At(c, "count") \/ At(c, "categorize") =>
       /\ cpu[c].t \notin network_map.free
       /\ \A d \in Cpus : network_map.extra[d] = ExtraOf[d] => cpu[c].t # ExtraOf[d]

(* The CPUs between the two additions to the element e.                    *)
Categorizing(e) == {c \in Cpus : At(c, "categorize") /\ cpu[c].t = e}

(* In every element, in use or not, the categories with the packets still  *)
(* to be categorized are within the egress bytes.                          *)
SumsInvariant ==
    Once => \A e \in Elems :
       network_map.value[e].internet + network_map.value[e].cross_az + Cardinality(Categorizing(e))
          <= network_map.value[e].egress

(* The three together.                                                     *)
CategoriesInvariant == UsedInvariant /\ HeldInvariant /\ SumsInvariant

(* What holds of the replacements after a step held before it.             *)
LEMMA OnceEarlier ==
    ASSUME Shape, Next
    PROVE  /\ \A g \in CountedCgroups : replaced[g] > 0 => replaced'[g] > 0
           /\ Once' => Once
<1>0. replaced \in [Cgroups -> Nat] /\ CountedCgroups \subseteq Cgroups
  BY DEF Shape, CountedCgroups
<1>1. ASSUME NEW c \in Cpus, Update(c)
      PROVE  \A g \in CountedCgroups : replaced[g] > 0 => replaced'[g] > 0
  BY <1>0, <1>1, UpdateStep
<1>2. ASSUME ~ \E c \in Cpus : Update(c)
      PROVE  replaced' = replaced
  BY <1>2, PacketStep, Lookup2Step, CountStep, CategorizeStep DEF Next
<1>3. \A g \in CountedCgroups : replaced[g] > 0 => replaced'[g] > 0
  BY <1>1, <1>2
<1> QED BY <1>3 DEF Once

(* With one cgroup replaced at most, a CPU's extra element is used once.   *)
LEMMA FirstUse ==
    ASSUME Shape, UsedInvariant, NEW c \in Cpus, Update(c), Present(network_map, cpu[c].cgroup),
           Once'
    PROVE  network_map.extra[c] = ExtraOf[c]
<1>0. PICK g : g = cpu[c].cgroup
  OBVIOUS
<1>1. /\ At(c, "update") /\ g \in CountedCgroups /\ g \in Cgroups
      /\ replaced' = [replaced EXCEPT ![g] = @ + 1] /\ replaced \in [Cgroups -> Nat]
  BY <1>0, UpdateStep DEF Shape, CountedCgroups
<1>2. ASSUME NEW h \in CountedCgroups, replaced[h] > 0, c \notin Inserting(h)
      PROVE  FALSE
  <2>1. c \in Inserting(g)
    BY <1>0, <1>1 DEF Inserting, At
  <2>2. h # g
    BY <1>2, <2>1
  <2>3. replaced'[g] > 0 /\ replaced'[h] > 0
    BY <1>1, <1>2, <2>2
  <2> QED BY <1>1, <2>2, <2>3 DEF Once
<1> QED BY <1>2 DEF UsedInvariant

(* Every step preserves the first part.                                    *)
LEMMA UsedStep ==
    ASSUME Shape, UsedInvariant, Next
    PROVE  UsedInvariant'
<1>1. ASSUME NEW c \in Cpus, network_map'.extra = network_map.extra, Others(c),
             \A g : Present(network_map, g) => Present(network_map', g),
             At(c, "update")' => \/ At(c, "update") /\ cpu'[c].cgroup = cpu[c].cgroup
                                 \/ ~Present(network_map, cpu'[c].cgroup)
      PROVE  UsedInvariant'
  <2>1. ASSUME NEW d \in Cpus, network_map'.extra[d] # ExtraOf[d]
        PROVE  \E g \in CountedCgroups :
                  replaced'[g] > 0 /\ Present(network_map, g)' /\ d \notin Inserting(g)'
    <3>1. PICK g \in CountedCgroups :
              replaced[g] > 0 /\ Present(network_map, g) /\ d \notin Inserting(g)
      BY <1>1, <2>1 DEF UsedInvariant
    <3>2. d \notin Inserting(g)'
      <4>1. CASE d = c
        BY <1>1, <3>1, <4>1 DEF Inserting, At
      <4>2. CASE d # c
        BY <1>1, <3>1, <4>2 DEF Inserting, Others
      <4> QED BY <4>1, <4>2
    <3> QED BY <1>1, <3>1, <3>2, OnceEarlier
  <2> QED BY <2>1 DEF UsedInvariant
<1>2. ASSUME NEW c \in Cpus, NEW g \in Cgroups,
             NEW dest \in {Ingress} \cup {{d} : d \in Dests}, Packet(c, g, dest)
      PROVE  UsedInvariant'
  <2>1. /\ Others(c) /\ network_map' = network_map
        /\ At(c, "update")' => ~Present(network_map, cpu'[c].cgroup)
    BY <1>2, PacketStep DEF At
  <2> QED BY <1>1, <2>1
<1>3. ASSUME NEW c \in Cpus, Update(c)
      PROVE  UsedInvariant'
  <2>0. PICK g : g = cpu[c].cgroup
    OBVIOUS
  <2>1. /\ At(c, "update") /\ g \in CountedCgroups /\ Others(c) /\ cpu'[c].pc = "lookup"
        /\ replaced' = [replaced EXCEPT ![g] = IF Present(network_map, g) THEN @ + 1 ELSE @]
        /\ Present(network_map, g) => Replaces(c, g)
        /\ ~Present(network_map, g) /\ network_map.free # {} => Inserts(g)
        /\ ~Present(network_map, g) /\ network_map.free = {} => network_map' = network_map
    BY <1>3, <2>0, UpdateStep
  <2>2. CASE Present(network_map, g)
    <3>1. ASSUME NEW d \in Cpus, network_map'.extra[d] # ExtraOf[d]
          PROVE  \E h \in CountedCgroups :
                    replaced'[h] > 0 /\ Present(network_map, h)' /\ d \notin Inserting(h)'
      <4>1. CASE d = c
        <5>1. replaced'[g] > 0
          BY <2>1, <2>2 DEF Shape, CountedCgroups
        <5>2. Present(network_map, g)' /\ c \notin Inserting(g)'
          BY <2>1, <2>2 DEF Replaces, Present, Inserting
        <5> QED BY <2>1, <4>1, <5>1, <5>2
      <4>2. CASE d # c
        <5>1. network_map'.extra[d] = network_map.extra[d]
          BY <2>1, <2>2, <4>2, MapFacts DEF Replaces
        <5>2. PICK h \in CountedCgroups :
                  replaced[h] > 0 /\ Present(network_map, h) /\ d \notin Inserting(h)
          BY <3>1, <5>1 DEF UsedInvariant
        <5>3. Present(network_map, h)' /\ d \notin Inserting(h)'
          BY <2>1, <2>2, <4>2, <5>2 DEF Replaces, Present, Inserting, Others
        <5> QED BY <5>2, <5>3, OnceEarlier
      <4> QED BY <4>1, <4>2
    <3> QED BY <3>1 DEF UsedInvariant
  <2>3. CASE ~Present(network_map, g)
    <3>1. /\ network_map'.extra = network_map.extra
          /\ \A h : Present(network_map, h) => Present(network_map', h)
          /\ ~At(c, "update")'
      BY <2>1, <2>3 DEF Inserts, Present, At
    <3> QED BY <1>1, <2>1, <3>1
  <2> QED BY <2>2, <2>3
<1>4. ASSUME NEW c \in Cpus, Lookup2(c)
      PROVE  UsedInvariant'
  <2>1. Others(c) /\ network_map' = network_map /\ ~At(c, "update")'
    BY <1>4, Lookup2Step DEF At, Idle
  <2> QED BY <1>1, <2>1
<1>5. ASSUME NEW c \in Cpus, Count(c)
      PROVE  UsedInvariant'
  <2>1. /\ Others(c) /\ network_map'.extra = network_map.extra
        /\ network_map'.slot = network_map.slot /\ ~At(c, "update")'
    BY <1>5, CountStep DEF At, Idle
  <2> QED BY <1>1, <2>1 DEF Present
<1>6. ASSUME NEW c \in Cpus, Categorize(c)
      PROVE  UsedInvariant'
  <2>1. /\ Others(c) /\ network_map'.extra = network_map.extra
        /\ network_map'.slot = network_map.slot /\ ~At(c, "update")'
    BY <1>6, CategorizeStep DEF At, Idle
  <2> QED BY <1>1, <2>1 DEF Present
<1> QED BY <1>2, <1>3, <1>4, <1>5, <1>6 DEF Next

(* Every step preserves the second part.                                   *)
LEMMA HeldStep ==
    ASSUME Shape, UsedInvariant, HeldInvariant, Next
    PROVE  HeldInvariant'
<1>0. SUFFICES ASSUME Once' PROVE \A c \in Cpus : Holding(c)' =>
         /\ cpu'[c].t \notin network_map'.free
         /\ \A d \in Cpus : network_map'.extra[d] = ExtraOf[d] => cpu'[c].t # ExtraOf[d]
  BY DEF HeldInvariant, Holding
<1>1. \A c \in Cpus : Holding(c) =>
         /\ cpu[c].t \notin network_map.free
         /\ \A d \in Cpus : network_map.extra[d] = ExtraOf[d] => cpu[c].t # ExtraOf[d]
  BY <1>0, OnceEarlier DEF HeldInvariant, Holding
<1>2. \A g \in DOMAIN network_map.slot :
         /\ network_map.slot[g] \notin network_map.free
         /\ \A d \in Cpus : network_map.extra[d] = ExtraOf[d] => network_map.slot[g] # ExtraOf[d]
  BY MapFacts DEF Shape, Disjoint
<1>3. ASSUME NEW c \in Cpus, Others(c), network_map'.free \subseteq network_map.free,
             \A d \in Cpus : network_map'.extra[d] = ExtraOf[d] => network_map.extra[d] = ExtraOf[d],
             Holding(c)' => \/ Holding(c) /\ cpu'[c].t = cpu[c].t
                            \/ \E g \in DOMAIN network_map.slot : cpu'[c].t = network_map.slot[g],
             NEW b \in Cpus, Holding(b)'
      PROVE  /\ cpu'[b].t \notin network_map'.free
             /\ \A d \in Cpus : network_map'.extra[d] = ExtraOf[d] => cpu'[b].t # ExtraOf[d]
  <2>1. CASE b = c
    BY <1>1, <1>2, <1>3, <2>1
  <2>2. CASE b # c
    <3>1. cpu'[b] = cpu[b] /\ Holding(b)
      BY <1>3, <2>2 DEF Others, Holding, At
    <3> QED BY <1>1, <1>3, <3>1
  <2> QED BY <2>1, <2>2
<1> DEFINE Safe == \A c \in Cpus : Holding(c)' =>
              /\ cpu'[c].t \notin network_map'.free
              /\ \A d \in Cpus : network_map'.extra[d] = ExtraOf[d] => cpu'[c].t # ExtraOf[d]
<1>4. ASSUME NEW c \in Cpus, NEW g \in Cgroups,
             NEW dest \in {Ingress} \cup {{d} : d \in Dests}, Packet(c, g, dest)
      PROVE  Safe
  <2>1. /\ Others(c) /\ network_map' = network_map
        /\ Holding(c)' => g \in DOMAIN network_map.slot /\ cpu'[c].t = network_map.slot[g]
    BY <1>4, PacketStep DEF Holding, At, Present
  <2> QED BY <1>3, <2>1
<1>5. ASSUME NEW c \in Cpus, Update(c)
      PROVE  Safe
  <2>0. PICK g : g = cpu[c].cgroup
    OBVIOUS
  <2>1. /\ g \in CountedCgroups /\ Others(c) /\ cpu'[c].pc = "lookup"
        /\ Present(network_map, g) => Replaces(c, g)
        /\ ~Present(network_map, g) /\ network_map.free # {} => Inserts(g)
        /\ ~Present(network_map, g) /\ network_map.free = {} => network_map' = network_map
    BY <1>5, <2>0, UpdateStep
  <2>2. ~Holding(c)'
    BY <2>1 DEF Holding, At
  <2>3. CASE Present(network_map, g)
    <3>1. network_map.extra[c] = ExtraOf[c]
      BY <1>0, <1>5, <2>0, <2>3, FirstUse
    <3>2. network_map'.free = network_map.free
      BY <2>1, <2>3 DEF Replaces
    <3>3. \A d \in Cpus : network_map'.extra[d] = ExtraOf[d] => network_map.extra[d] = ExtraOf[d]
      BY <2>1, <2>3, <3>1, MapFacts DEF Replaces
    <3> QED BY <1>3, <2>1, <2>2, <3>2, <3>3
  <2>4. CASE ~Present(network_map, g)
    <3>1. network_map'.extra = network_map.extra /\ network_map'.free \subseteq network_map.free
      BY <2>1, <2>4 DEF Inserts
    <3> QED BY <1>3, <2>1, <2>2, <3>1
  <2> QED BY <2>3, <2>4
<1>6. ASSUME NEW c \in Cpus, Lookup2(c)
      PROVE  Safe
  <2>0. PICK g : g = cpu[c].cgroup
    OBVIOUS
  <2>1. /\ Others(c) /\ network_map' = network_map
        /\ Holding(c)' => g \in DOMAIN network_map.slot /\ cpu'[c].t = network_map.slot[g]
    BY <1>6, <2>0, Lookup2Step DEF Holding, At, Present, Idle
  <2> QED BY <1>3, <2>1
<1>7. ASSUME NEW c \in Cpus, Count(c)
      PROVE  Safe
  <2>1. /\ Others(c) /\ network_map'.extra = network_map.extra /\ network_map'.free = network_map.free
        /\ Holding(c)' => Holding(c) /\ cpu'[c].t = cpu[c].t
    BY <1>7, CountStep DEF Holding, At, Idle
  <2> QED BY <1>3, <2>1
<1>8. ASSUME NEW c \in Cpus, Categorize(c)
      PROVE  Safe
  <2>1. /\ Others(c) /\ network_map'.extra = network_map.extra /\ network_map'.free = network_map.free
        /\ Holding(c)' => Holding(c) /\ cpu'[c].t = cpu[c].t
    BY <1>8, CategorizeStep DEF Holding, At, Idle
  <2> QED BY <1>3, <2>1
<1> QED BY <1>4, <1>5, <1>6, <1>7, <1>8 DEF Next

(* Every step preserves the third part: an element is zeroed only when     *)
(* nobody is between the two additions to it.                              *)
LEMMA SumsStep ==
    ASSUME Shape, UsedInvariant, HeldInvariant, SumsInvariant, Next
    PROVE  SumsInvariant'
<1> DEFINE Good(v, n) == v.internet + v.cross_az + n <= v.egress
<1>0. SUFFICES ASSUME Once', NEW e \in Elems
               PROVE  Good(network_map'.value[e], Cardinality(Categorizing(e)'))
  BY DEF SumsInvariant
<1>1. /\ Once /\ Good(network_map.value[e], Cardinality(Categorizing(e)))
      /\ Categorizing(e) \in SUBSET Cpus
      /\ Cardinality(Categorizing(e)) \in Nat
  <2>1. Once
    BY <1>0, OnceEarlier
  <2>2. Categorizing(e) \in SUBSET Cpus
    BY DEF Categorizing
  <2> QED BY <2>1, <2>2, CpuSets DEF SumsInvariant
<1>2. /\ network_map.value[e].internet \in Nat /\ network_map.value[e].cross_az \in Nat
      /\ network_map.value[e].egress \in Nat /\ network_map.value[e].ingress \in Nat
  <2>1. network_map.value[e] \in Traffic
    BY MapFacts
  <2> QED BY <2>1 DEF Traffic
<1>3. /\ network_map'.value[e].internet \in Nat /\ network_map'.value[e].cross_az \in Nat
      /\ network_map'.value[e].egress \in Nat /\ network_map'.value[e].ingress \in Nat
  <2>1. network_map'.value[e] \in Traffic
    BY ShapeStep DEF Shape, IsBpfMap
  <2> QED BY <2>1 DEF Traffic
<1>4. ASSUME NEW c \in Cpus, Others(c), ~At(c, "categorize"), ~At(c, "categorize")'
      PROVE  Categorizing(e)' = Categorizing(e)
  BY <1>4 DEF Categorizing, Others, At
<1>5. ASSUME NEW c \in Cpus, NEW g \in Cgroups,
             NEW dest \in {Ingress} \cup {{d} : d \in Dests}, Packet(c, g, dest)
      PROVE  Good(network_map'.value[e], Cardinality(Categorizing(e)'))
  <2>1. Others(c) /\ ~At(c, "categorize") /\ ~At(c, "categorize")' /\ network_map' = network_map
    BY <1>5, PacketStep DEF At
  <2> QED BY <1>1, <1>4, <2>1
<1>6. ASSUME NEW c \in Cpus, Update(c)
      PROVE  Good(network_map'.value[e], Cardinality(Categorizing(e)'))
  <2>0. PICK g : g = cpu[c].cgroup
    OBVIOUS
  <2>1. /\ At(c, "update") /\ g \in CountedCgroups /\ Others(c) /\ cpu'[c].pc = "lookup"
        /\ Present(network_map, g) => Replaces(c, g)
        /\ ~Present(network_map, g) /\ network_map.free # {} => Inserts(g)
        /\ ~Present(network_map, g) /\ network_map.free = {} => network_map' = network_map
    BY <1>6, <2>0, UpdateStep
  <2>2. Categorizing(e)' = Categorizing(e)
    BY <1>4, <2>1 DEF At
  <2>3. ASSUME network_map'.value[e] # network_map.value[e]
        PROVE  network_map'.value[e] = NoTraffic /\ Categorizing(e) = {}
    <3>1. CASE Present(network_map, g)
      <4>1. network_map.extra[c] = ExtraOf[c]
        BY <1>0, <1>6, <2>0, <3>1, FirstUse
      <4>2. e = network_map.extra[c] /\ network_map'.value[e] = NoTraffic
        BY <2>1, <2>3, <3>1, MapFacts DEF Replaces
      <4>3. \A d \in Cpus : At(d, "categorize") => cpu[d].t # e
        BY <1>1, <4>1, <4>2 DEF HeldInvariant
      <4> QED BY <4>2, <4>3 DEF Categorizing
    <3>2. CASE ~Present(network_map, g)
      <4>1. e \in network_map.free /\ network_map'.value[e] = NoTraffic
        BY <2>1, <2>3, <3>2, MapFacts DEF Inserts
      <4>2. \A d \in Cpus : At(d, "categorize") => cpu[d].t # e
        BY <1>1, <4>1 DEF HeldInvariant
      <4> QED BY <4>1, <4>2 DEF Categorizing
    <3> QED BY <3>1, <3>2
  <2>4. Cardinality({}) = 0
    BY FS_EmptySet
  <2>5. CASE network_map'.value[e] = network_map.value[e]
    BY <1>1, <2>2, <2>5
  <2>6. CASE network_map'.value[e] # network_map.value[e]
    BY <2>2, <2>3, <2>4, <2>6 DEF NoTraffic
  <2> QED BY <2>5, <2>6
<1>7. ASSUME NEW c \in Cpus, Lookup2(c)
      PROVE  Good(network_map'.value[e], Cardinality(Categorizing(e)'))
  <2>1. Others(c) /\ ~At(c, "categorize") /\ ~At(c, "categorize")' /\ network_map' = network_map
    BY <1>7, Lookup2Step DEF At, Idle
  <2> QED BY <1>1, <1>4, <2>1
<1>8. ASSUME NEW c \in Cpus, Count(c)
      PROVE  Good(network_map'.value[e], Cardinality(Categorizing(e)'))
  <2>1. /\ At(c, "count") /\ Others(c) /\ cpu[c].t \in Elems
        /\ e # cpu[c].t => network_map'.value[e] = network_map.value[e]
        /\ cpu'[c] # Idle => cpu'[c].pc = "categorize" /\ cpu'[c].t = cpu[c].t
    <3>1. /\ At(c, "count") /\ Others(c) /\ cpu[c].t \in Elems
          /\ \A f \in Elems \ {cpu[c].t} : network_map'.value[f] = network_map.value[f]
      BY <1>8, CountStep
    <3>2. cpu'[c] # Idle => cpu'[c].pc = "categorize" /\ cpu'[c].t = cpu[c].t
      BY <1>8, CountStep DEF Idle
    <3> QED BY <3>1, <3>2
  <2>2. CASE e # cpu[c].t
    <3>1. Categorizing(e)' = Categorizing(e)
      BY <2>1, <2>2 DEF Categorizing, Others, At, Idle
    <3> QED BY <1>1, <2>1, <2>2, <3>1
  <2>3. CASE e = cpu[c].t
    <3>1. /\ network_map'.value[e].egress >= network_map.value[e].egress
          /\ network_map'.value[e].cross_az = network_map.value[e].cross_az
          /\ network_map'.value[e].internet = network_map.value[e].internet
          /\ cpu'[c] # Idle =>
                network_map'.value[e].egress = network_map.value[e].egress + 1
      BY <1>8, <2>3, CountStep
    <3>2. CASE cpu'[c] = Idle
      <4>1. Categorizing(e)' = Categorizing(e)
        BY <1>4, <2>1, <3>2 DEF At, Idle
      <4> QED BY <1>1, <1>2, <1>3, <3>1, <4>1
    <3>3. CASE cpu'[c] # Idle
      <4>1. Categorizing(e)' = Categorizing(e) \cup {c} /\ c \in Cpus \ Categorizing(e)
        BY <2>1, <2>3, <3>3 DEF Categorizing, Others, At
      <4>2. Cardinality(Categorizing(e)') = Cardinality(Categorizing(e)) + 1
        BY <1>1, <4>1, CpuSets
      <4> QED BY <1>1, <1>2, <1>3, <3>1, <3>3, <4>2
    <3> QED BY <3>2, <3>3
  <2> QED BY <2>2, <2>3
<1>9. ASSUME NEW c \in Cpus, Categorize(c)
      PROVE  Good(network_map'.value[e], Cardinality(Categorizing(e)'))
  <2>1. /\ At(c, "categorize") /\ Others(c) /\ cpu[c].t \in Elems /\ cpu'[c] = Idle
        /\ e # cpu[c].t => network_map'.value[e] = network_map.value[e]
    BY <1>9, CategorizeStep
  <2>2. CASE e # cpu[c].t
    <3>1. Categorizing(e)' = Categorizing(e)
      BY <2>1, <2>2 DEF Categorizing, Others, At, Idle
    <3> QED BY <1>1, <2>1, <2>2, <3>1
  <2>3. CASE e = cpu[c].t
    <3>1. /\ network_map'.value[e].egress = network_map.value[e].egress
          /\ network_map'.value[e].internet + network_map'.value[e].cross_az
                <= network_map.value[e].internet + network_map.value[e].cross_az + 1
      BY <1>9, <2>3, CategorizeStep
    <3>2. Categorizing(e)' = Categorizing(e) \ {c} /\ c \in Categorizing(e)
      BY <2>1, <2>3 DEF Categorizing, Others, At, Idle
    <3>3. Cardinality(Categorizing(e)') = Cardinality(Categorizing(e)) - 1
      BY <1>1, <3>2, CpuSets
    <3> QED BY <1>1, <1>2, <1>3, <3>1, <3>3
  <2> QED BY <2>2, <2>3
<1> HIDE DEF Good
<1> QED BY <1>5, <1>6, <1>7, <1>8, <1>9 DEF Next

(* The invariant holds of the empty map.                                   *)
LEMMA InitCategories ==
    ASSUME Init
    PROVE  CategoriesInvariant
<1>1. /\ \A c \in Cpus : network_map.extra[c] = ExtraOf[c]
      /\ \A e \in Elems : network_map.value[e] = NoTraffic
  BY InitShape
<1>2. \A c \in Cpus : ~At(c, "count") /\ ~At(c, "categorize")
  BY DEF Init, At, Idle
<1>3. \A e : Categorizing(e) = {}
  BY <1>2 DEF Categorizing
<1>4. Cardinality({}) = 0
  BY FS_EmptySet
<1>5. UsedInvariant /\ HeldInvariant
  BY <1>1, <1>2 DEF UsedInvariant, HeldInvariant
<1>6. SumsInvariant
  BY <1>1, <1>3, <1>4 DEF SumsInvariant, NoTraffic
<1> QED BY <1>5, <1>6 DEF CategoriesInvariant

(* Every step preserves the invariant.                                     *)
LEMMA CategoriesStep ==
    ASSUME Shape, CategoriesInvariant, [Next]_vars
    PROVE  CategoriesInvariant'
<1>1. CASE UNCHANGED vars
  BY <1>1 DEF vars, CategoriesInvariant, UsedInvariant, HeldInvariant, SumsInvariant,
              Once, Present, Inserting, At, Categorizing
<1>2. CASE Next
  BY <1>2, UsedStep, HeldStep, SumsStep DEF CategoriesInvariant
<1> QED BY <1>1, <1>2

(* The bytes charged at a category's price are also in bytes_egress, until *)
(* the entries of two cgroups were replaced (count_egress).                *)
THEOREM CategoriesCorrect == Spec => []CategoriesWithinEgress
<1>1. Init => Shape /\ CategoriesInvariant
  BY InitShape, InitCategories
<1>2. Shape /\ CategoriesInvariant /\ [Next]_vars => (Shape /\ CategoriesInvariant)'
  BY ShapeStep, CategoriesStep
<1>3. Shape /\ CategoriesInvariant => CategoriesWithinEgress
  <2> SUFFICES ASSUME Shape, CategoriesInvariant,
                      Cardinality({g \in CountedCgroups : replaced[g] > 0}) <= 1,
                      NEW g \in DOMAIN network_map.slot
               PROVE  EntryOf(g).internet + EntryOf(g).cross_az <= EntryOf(g).egress
    BY DEF CategoriesWithinEgress
  <2> DEFINE R == {h \in CountedCgroups : replaced[h] > 0}
             e == network_map.slot[g]
  <2>1. Once
    <3>1. ASSUME NEW h \in R, NEW k \in R, h # k
          PROVE  FALSE
      <4>1. IsFiniteSet(R)
        BY FiniteAssumption, FS_Subset DEF CountedCgroups
      <4>2. IsFiniteSet(R \ {h}) /\ Cardinality(R \ {h}) = Cardinality(R) - 1
        BY <4>1, FS_RemoveElement
      <4>3. Cardinality(R \ {h}) \in Nat /\ Cardinality(R) \in Nat
        BY <4>1, <4>2, FS_CardinalityType
      <4>4. Cardinality(R \ {h}) = 0
        <5> HIDE DEF R
        <5>1. Cardinality(R) <= 1
          BY DEF R
        <5> QED BY <4>2, <4>3, <5>1
      <4>5. R \ {h} = {}
        BY <4>2, <4>4, FS_EmptySet
      <4> QED BY <3>1, <4>5
    <3> QED BY <3>1 DEF Once
  <2>2. e \in Elems /\ EntryOf(g) = network_map.value[e]
    BY MapFacts DEF EntryOf
  <2>3. Categorizing(e) \in SUBSET Cpus
    BY DEF Categorizing
  <2>4. Cardinality(Categorizing(e)) \in Nat
    BY <2>3, CpuSets
  <2>5. EntryOf(g).internet + EntryOf(g).cross_az + Cardinality(Categorizing(e)) <= EntryOf(g).egress
    BY <2>1, <2>2 DEF CategoriesInvariant, SumsInvariant
  <2>6. EntryOf(g).internet \in Nat /\ EntryOf(g).cross_az \in Nat /\ EntryOf(g).egress \in Nat
    BY EntryTypes DEF Traffic
  <2> QED BY <2>4, <2>5, <2>6
<1> QED BY <1>1, <1>2, <1>3, PTL DEF Spec
=============================================================================
