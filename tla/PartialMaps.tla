---------------------------- MODULE PartialMaps ----------------------------
(***************************************************************************)
(* Go maps as functions whose domain is the set of keys present.           *)
(***************************************************************************)

(* m is a map from some of the keys K to values in V.                      *)
IsMap(m, K, V) == DOMAIN m \subseteq K /\ m \in [DOMAIN m -> V]

(* make(map[K]V)                                                          *)
NoKeys == [k \in {} |-> k]

(* m[k] = v                                                                *)
Put(m, k, v) == [x \in DOMAIN m \cup {k} |-> IF x = k THEN v ELSE m[x]]

(* The value m[k] of a key that is present, and a default otherwise.       *)
Lookup(m, k, default) == IF k \in DOMAIN m THEN m[k] ELSE default
=============================================================================
