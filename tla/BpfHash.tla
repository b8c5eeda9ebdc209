------------------------------- MODULE BpfHash -------------------------------
(***************************************************************************)
(* BPF_MAP_TYPE_HASH (external: the kernel's preallocated hash map), as    *)
(* the probes of bpf/ use it.  bpf_map_lookup_elem hands out a pointer     *)
(* into the map: an element, which the caller goes on using whatever       *)
(* becomes of the key.  Updates and deletes of a key are atomic.           *)
(*                                                                         *)
(* A map is a record:                                                      *)
(*   slot   the element of each key present                                *)
(*   value  the value in every element, in use or not                      *)
(*   free   the elements an insertion can take                             *)
(*   extra  one element per CPU, for a replacement made on that CPU        *)
(* Inserting a new key takes a free element.  Replacing the value of a key *)
(* that is present takes the CPU's extra element, and the element that was *)
(* replaced becomes the CPU's next extra one: it may be in use again while *)
(* somebody still holds a pointer to it.                                   *)
(***************************************************************************)
EXTENDS PartialMaps

Present(map, key) == key \in DOMAIN map.slot

(* The maps bpf_map_update_elem(map, key, v, BPF_ANY) may leave: with no   *)
(* free element for a new key it fails and changes nothing.                *)
Updated(map, cpu, key, v) ==
    IF Present(map, key)
      THEN LET e == map.extra[cpu]
           IN  {[map EXCEPT !.slot[key] = e,
                            !.value[e] = v,
                            !.extra[cpu] = map.slot[key]]}
      ELSE IF map.free = {}
             THEN {map}
             ELSE {[map EXCEPT !.slot = Put(map.slot, key, e),
                               !.value[e] = v,
                               !.free = map.free \ {e}] : e \in map.free}

(* bpf_map_delete_elem.                                                    *)
Deleted(map, key) ==
    IF Present(map, key)
      THEN [map EXCEPT !.slot = [k \in DOMAIN map.slot \ {key} |-> map.slot[k]],
                       !.free = map.free \cup {map.slot[key]}]
      ELSE map

(* A map loaded with entries free and one extra element per CPU.           *)
Empty(entries, extras, v) ==
    [slot |-> NoKeys,
     value |-> [e \in entries \cup {extras[c] : c \in DOMAIN extras} |-> v],
     free |-> entries,
     extra |-> extras]

IsBpfMap(map, Keys, Values, Elems, Cpus) ==
    /\ DOMAIN map = {"slot", "value", "free", "extra"}
    /\ IsMap(map.slot, Keys, Elems)
    /\ map.value \in [Elems -> Values]
    /\ map.free \subseteq Elems
    /\ map.extra \in [Cpus -> Elems]
=============================================================================
