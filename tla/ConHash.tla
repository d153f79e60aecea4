------------------------------ MODULE ConHash -------------------------------
(***************************************************************************)
(* The consistent hash ring of src/nginx/c/conhash.c and conhash_inter.c:  *)
(* servers are put on the ring at the hashes of their replicas, an object  *)
(* belongs to the server of the first point not below its own hash.        *)
(* The red-black tree that holds the points is RBTree; here it is the      *)
(* partial function it implements.  The MD5 based hash is any function     *)
(* from replicas to points, chosen once, collisions included.              *)
(***************************************************************************)
EXTENDS Integers, FiniteSets, FiniteSetsExt

CONSTANTS Servers,      \* struct node_s records of the caller
          Points,       \* hash values
          MaxReplicas,  \* bound on node->replicas
          None          \* a null pointer

ASSUME PointsAssumption == Points \subseteq Nat /\ IsFiniteSet(Points)
ASSUME ReplicasAssumption == MaxReplicas \in Nat /\ None \notin Servers

VARIABLES hashes,   \* hash of replica i of a server; the hash function
          replicas, \* node->replicas
          flag,     \* node->flag: subset of {"INIT", "IN"}
          ring,     \* vnode_tree: point -> server, None where there is no node
          ivnodes   \* conhash->ivnodes

ringVars == <<hashes, replicas, flag, ring, ivnodes>>

Indices == 0..(MaxReplicas - 1)
Occupied(r) == {p \in Points : r[p] # None}

\* conhash_init on zeroed memory; the nodes are static, so their flags are 0.
RingInit ==
  /\ hashes \in [Servers \X Indices -> Points]
  /\ replicas = [s \in Servers |-> 0]
  /\ flag = [s \in Servers |-> {}]
  /\ ring = [p \in Points |-> None]
  /\ ivnodes = 0

\* util_rbtree_lookup: the first point not below h, else the smallest.
RingLookup(r, h) ==
  LET above == {p \in Occupied(r) : p >= h}
  IN  r[IF above # {} THEN Min(above) ELSE Min(Occupied(r))]

\* conhash_set_node.  The callers set up a node before it is on a ring.
conhash_set_node(s, n) ==
  /\ \A p \in Points : ring[p] # s
  /\ replicas' = [replicas EXCEPT ![s] = n]
  /\ flag' = [flag EXCEPT ![s] = {"INIT"}]
  /\ UNCHANGED <<hashes, ring, ivnodes>>

\* The points of a server.
PointsOf(s) == {hashes[<<s, i>>] : i \in 0..(replicas[s] - 1)}

SlipAddReplicas(s, failed) ==
  LET new == PointsOf(s) \ failed
  IN  /\ ring' = [p \in Points |-> IF p \in new THEN s ELSE ring[p]]
      /\ ivnodes' = ivnodes + Cardinality(new)

\* __conhash_add_replicas: a point that is taken is left alone, one whose
\* memory cannot be allocated (failed) is skipped.
add_replicas(s, failed) ==
  LET new == (PointsOf(s) \ failed) \ Occupied(ring)
  IN  /\ ring' = [p \in Points |-> IF p \in new THEN s ELSE ring[p]]
      /\ ivnodes' = ivnodes + Cardinality(new)

\* The second case returns -1.
conhash_add_node(s) ==
  \/ /\ "INIT" \in flag[s]
     /\ "IN" \notin flag[s]
     /\ flag' = [flag EXCEPT ![s] = @ \union {"IN"}]
     /\ \E failed \in SUBSET PointsOf(s) : add_replicas(s, failed)
     /\ UNCHANGED <<hashes, replicas>>
  \/ /\ "INIT" \notin flag[s] \/ "IN" \in flag[s]
     /\ UNCHANGED ringVars

SlipDelReplicas(s) ==
  LET old == PointsOf(s) \intersect Occupied(ring)
  IN  /\ ring' = [p \in Points |-> IF p \in old THEN None ELSE ring[p]]
      /\ ivnodes' = ivnodes - Cardinality(old)

\* __conhash_del_replicas: only a point that belongs to the server is removed.
del_replicas(s) ==
  LET old == {p \in PointsOf(s) : ring[p] = s}
  IN  /\ ring' = [p \in Points |-> IF p \in old THEN None ELSE ring[p]]
      /\ ivnodes' = ivnodes - Cardinality(old)

\* The second case returns -1.
conhash_del_node(s) ==
  \/ /\ {"INIT", "IN"} \subseteq flag[s]
     /\ flag' = [flag EXCEPT ![s] = @ \ {"IN"}]
     /\ del_replicas(s)
     /\ UNCHANGED <<hashes, replicas>>
  \/ /\ ~ {"INIT", "IN"} \subseteq flag[s]
     /\ UNCHANGED ringVars

\* conhash_lookup of an object whose hash is h; it changes nothing.
conhash_lookup(h) == IF ivnodes = 0 THEN None ELSE RingLookup(ring, h)

\* conhash_fini deletes root after root, then frees the ring; the nodes keep
\* their flags.  The caller starts over with conhash_init (hash.c).
conhash_fini ==
  /\ ring' = [p \in Points |-> None]
  /\ ivnodes' = 0
  /\ UNCHANGED <<hashes, replicas, flag>>

RingNext ==
  \/ \E s \in Servers : \/ \E n \in 1..MaxReplicas : conhash_set_node(s, n)
                        \/ conhash_add_node(s)
                        \/ conhash_del_node(s)
  \/ conhash_fini

RingSpec == RingInit /\ [][RingNext]_ringVars

-----------------------------------------------------------------------------
(* Properties *)

RingTypeOK ==
  /\ hashes \in [Servers \X Indices -> Points]
  /\ replicas \in [Servers -> 0..MaxReplicas]
  /\ flag \in [Servers -> SUBSET {"INIT", "IN"}]
  /\ ring \in [Points -> Servers \union {None}]
  /\ ivnodes \in 0..Cardinality(Points)

\* Every point of the ring is one of the hashes of a server that is in, and
\* ivnodes, by which conhash_lookup decides that the ring is empty, counts them,
\* whatever hashes collide and whatever allocations failed.
RingBelongsToMembers ==
  /\ ivnodes = Cardinality(Occupied(ring))
  /\ \A p \in Occupied(ring) : "IN" \in flag[ring[p]] /\ p \in PointsOf(ring[p])

\* Adding a server moves objects only to it, removing one only objects that
\* were on it (__conhash_add_replicas leaves taken points alone,
\* __conhash_del_replicas checks the owner).
NecessaryMove ==
  \A s \in Servers, h \in Points :
    LET was == conhash_lookup(h)
        is == conhash_lookup(h)'
    IN  /\ "IN" \notin flag[s] /\ "IN" \in flag'[s] => is \in {was, s}
        /\ "IN" \in flag[s] /\ "IN" \notin flag'[s] => was \in {is, s}

OnlyNecessaryMoves == [][NecessaryMove]_ringVars
=============================================================================
