----------------------------- MODULE SortedKeys -----------------------------
(***************************************************************************)
(* What the red-black tree of util_rbtree.c promises its callers: an       *)
(* ascending sequence of keys, equal keys allowed, in which a node can be  *)
(* inserted and deleted and which is searched by key (util_rbtree.h,       *)
(* 60-115).                                                                *)
(***************************************************************************)
EXTENDS Integers, Sequences, SequencesExt

CONSTANTS Keys,    \* the hash values that occur
          MaxSize  \* bound on the number of nodes

VARIABLE keys      \* the keys in ascending order

Ascending(s) == \A i \in 1..(Len(s) - 1) : s[i] <= s[i + 1]

Init == keys = <<>>

\* util_rbtree_insert of a node: t is s with one more key, at its place.
Inserts(s, t) ==
  /\ Len(s) < MaxSize
  /\ Len(t) = Len(s) + 1
  /\ Ascending(t)
  /\ \E i \in 1..Len(t) : t[i] \in Keys /\ s = RemoveAt(t, i)

\* util_rbtree_delete of one node.
Deletes(s, t) == \E i \in DOMAIN s : t = RemoveAt(s, i)

Next == Inserts(keys, keys') \/ Deletes(keys, keys')

Spec == Init /\ [][Next]_keys

\* First key not below k, the smallest key if there is none (util_rbtree.h 74-79).
Successor(s, k) ==
  IF \E i \in DOMAIN s : s[i] >= k
  THEN s[CHOOSE i \in DOMAIN s : s[i] >= k /\ \A j \in 1..(i - 1) : s[j] < k]
  ELSE s[1]
=============================================================================
