---------------------------- MODULE KeyValueMap -----------------------------
(* What the callers of hash_table.c rely on: a map from keys to values. *)
CONSTANTS Keys, Values, Missing

VARIABLE map

Init == map = [k \in Keys |-> Missing]

\* ht_set: the key has the new value, every other key keeps its own.
Set(k, v) == map' = [map EXCEPT ![k] = v]

Next == \E k \in Keys, v \in Values : Set(k, v)

Spec == Init /\ [][Next]_map
=============================================================================
