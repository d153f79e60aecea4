------------------------------ MODULE RingProofs ------------------------------
(***************************************************************************)
(* Proofs about the two consistent hashes, which share no state: the ring  *)
(* of conhash.c and the sorted continuum of chash.lua.                     *)
(***************************************************************************)
EXTENDS ConHash, CHashLua, NatSets, FiniteSetTheorems, FunctionTheorems,
        SequenceTheorems

-----------------------------------------------------------------------------
(* The ring of conhash.c, for every set of servers, every hash function    *)
(* with every collision, and any number of replicas.                       *)

RingInv == RingTypeOK /\ RingBelongsToMembers

\* The points a server hashes to are points, whatever its replicas.
LEMMA PointsOfType ==
  ASSUME RingTypeOK, NEW s \in Servers
  PROVE  PointsOf(s) \subseteq Points
  <1>1. \A i \in 0..(replicas[s] - 1) : <<s, i>> \in Servers \X Indices
    BY ReplicasAssumption DEF RingTypeOK, Indices
  <1>2. QED
    BY <1>1 DEF RingTypeOK, PointsOf

\* Sets of points are finite.
LEMMA PointsFinite ==
  ASSUME NEW S, S \subseteq Points
  PROVE  IsFiniteSet(S) /\ Cardinality(S) \in 0..Cardinality(Points)
  <1>1. IsFiniteSet(S) /\ Cardinality(S) <= Cardinality(Points)
    BY PointsAssumption, FS_Subset
  <1>2. Cardinality(S) \in Nat /\ Cardinality(Points) \in Nat
    BY <1>1, PointsAssumption, FS_CardinalityType
  <1>3. QED
    BY <1>1, <1>2

\* Adding points that are free to a ring (__conhash_add_replicas).
LEMMA OccupiedAdd ==
  ASSUME NEW r \in [Points -> Servers \union {None}], NEW s \in Servers,
         NEW new, new \subseteq Points, new \intersect Occupied(r) = {},
         NEW q, q = [p \in Points |-> IF p \in new THEN s ELSE r[p]]
  PROVE  /\ q \in [Points -> Servers \union {None}]
         /\ Occupied(q) = Occupied(r) \union new
         /\ Cardinality(Occupied(q)) = Cardinality(Occupied(r)) + Cardinality(new)
  <1>1. q \in [Points -> Servers \union {None}] /\ Occupied(q) = Occupied(r) \union new
    BY ReplicasAssumption DEF Occupied
  <1>2. Occupied(r) \subseteq Points
    BY DEF Occupied
  <1>3. IsFiniteSet(Occupied(r)) /\ IsFiniteSet(new)
    BY <1>2, PointsFinite
  <1>4. Cardinality(Occupied(r) \intersect new) = 0
    <2>1. Occupied(r) \intersect new = {}
      OBVIOUS
    <2>2. QED
      BY <2>1, FS_EmptySet
  <1>5. Cardinality(Occupied(r)) \in Nat /\ Cardinality(new) \in Nat
    BY <1>3, FS_CardinalityType
  <1>6. Cardinality(Occupied(r) \union new)
          = Cardinality(Occupied(r)) + Cardinality(new) - Cardinality(Occupied(r) \intersect new)
    BY <1>3, FS_Union
  <1>7. Cardinality(Occupied(r) \union new) = Cardinality(Occupied(r)) + Cardinality(new)
    BY <1>4, <1>5, <1>6
  <1>8. QED
    BY <1>1, <1>7, Zenon

\* Taking points that are taken off a ring (__conhash_del_replicas).
LEMMA OccupiedDel ==
  ASSUME NEW r \in [Points -> Servers \union {None}], NEW old, old \subseteq Occupied(r),
         NEW q, q = [p \in Points |-> IF p \in old THEN None ELSE r[p]]
  PROVE  /\ q \in [Points -> Servers \union {None}]
         /\ Occupied(q) = Occupied(r) \ old
         /\ Cardinality(Occupied(q)) = Cardinality(Occupied(r)) - Cardinality(old)
  <1>1. q \in [Points -> Servers \union {None}] /\ Occupied(q) = Occupied(r) \ old
    BY DEF Occupied
  <1>2. Occupied(r) \subseteq Points
    BY DEF Occupied
  <1>3. IsFiniteSet(Occupied(r)) /\ IsFiniteSet(old)
    BY <1>2, PointsFinite
  <1>4. Occupied(r) \intersect old = old
    OBVIOUS
  <1>5. QED
    BY <1>1, <1>3, <1>4, FS_Difference

-----------------------------------------------------------------------------
(* The invariant *)

\* conhash_init.
LEMMA RingInitInv == RingInit => RingInv
  <1> SUFFICES ASSUME RingInit PROVE RingInv
    OBVIOUS
  <1>1. Occupied(ring) = {}
    BY DEF RingInit, Occupied
  <1>2. Cardinality(Occupied(ring)) = 0
    BY <1>1, FS_EmptySet
  <1>3. Cardinality(Points) \in Nat
    BY PointsAssumption, FS_CardinalityType
  <1>4. RingTypeOK
    BY <1>3, ReplicasAssumption DEF RingInit, RingTypeOK
  <1>5. QED
    BY <1>1, <1>2, <1>4 DEF RingInit, RingInv, RingBelongsToMembers

\* conhash_set_node.
LEMMA RingSetNode ==
  ASSUME RingInv, NEW s \in Servers, NEW n \in 1..MaxReplicas, conhash_set_node(s, n)
  PROVE  RingInv'
  <1> USE DEF RingInv, conhash_set_node
  <1>1. RingTypeOK'
    BY ReplicasAssumption DEF RingTypeOK
  <1>2. ivnodes' = Cardinality(Occupied(ring'))
    BY DEF RingBelongsToMembers
  <1>3. ASSUME NEW p \in Occupied(ring')
        PROVE  ("IN" \in flag[ring[p]] /\ p \in PointsOf(ring[p]))'
    <2>1. ring' = ring /\ p \in Occupied(ring) /\ ring[p] # s /\ ring[p] \in Servers
      BY <1>3 DEF Occupied, RingTypeOK
    <2>2. flag'[ring[p]] = flag[ring[p]] /\ replicas'[ring[p]] = replicas[ring[p]] /\ hashes' = hashes
      BY <2>1 DEF RingTypeOK
    <2>3. "IN" \in flag[ring[p]] /\ p \in PointsOf(ring[p])
      BY <2>1 DEF RingBelongsToMembers
    <2>4. QED
      BY <2>1, <2>2, <2>3 DEF PointsOf
  <1>4. QED
    BY <1>1, <1>2, <1>3 DEF RingBelongsToMembers

\* The number of points of a ring is in the range of ivnodes.
LEMMA OccupiedRange ==
  ASSUME NEW r
  PROVE  Cardinality(Occupied(r)) \in 0..Cardinality(Points)
  <1>1. Occupied(r) \subseteq Points
    BY DEF Occupied
  <1>2. QED
    BY <1>1, PointsFinite

\* conhash_add_node.
LEMMA RingAddReplicas ==
  ASSUME RingInv, NEW s \in Servers, NEW failed, add_replicas(s, failed),
         flag' = [flag EXCEPT ![s] = @ \union {"IN"}], UNCHANGED <<hashes, replicas>>
  PROVE  RingInv'
  <1> DEFINE new == (PointsOf(s) \ failed) \ Occupied(ring)
  <1>1. ring' = [p \in Points |-> IF p \in new THEN s ELSE ring[p]]
        /\ ivnodes' = ivnodes + Cardinality(new)
    BY DEF add_replicas
  <1>2. new \subseteq Points /\ new \intersect Occupied(ring) = {} /\ new \subseteq PointsOf(s)
    BY PointsOfType DEF RingInv
  <1>3. ring \in [Points -> Servers \union {None}]
    BY DEF RingInv, RingTypeOK
  <1>4. /\ ring' \in [Points -> Servers \union {None}]
        /\ Occupied(ring') = Occupied(ring) \union new
        /\ Cardinality(Occupied(ring')) = Cardinality(Occupied(ring)) + Cardinality(new)
    <2> HIDE DEF new
    <2> QED
      BY <1>1, <1>2, <1>3, OccupiedAdd
  <1>5. ivnodes' = Cardinality(Occupied(ring'))
    BY <1>1, <1>4 DEF RingInv, RingBelongsToMembers
  <1>6. RingTypeOK'
    BY <1>4, <1>5, OccupiedRange DEF RingInv, RingTypeOK
  <1>7. ASSUME NEW p \in Occupied(ring')
        PROVE  ("IN" \in flag[ring[p]] /\ p \in PointsOf(ring[p]))'
    <2>1. \A i : PointsOf(ring[i])' = {hashes[<<ring'[i], j>>] : j \in 0..(replicas[ring'[i]] - 1)}
      BY DEF PointsOf
    <2>2. CASE p \in new
      <3>1. ring'[p] = s /\ p \in PointsOf(s) /\ "IN" \in flag'[s]
        BY <1>1, <1>2, <2>2 DEF RingInv, RingTypeOK
      <3>2. QED
        BY <2>1, <3>1 DEF PointsOf
    <2>3. CASE p \notin new
      <3>1. p \in Occupied(ring) /\ ring'[p] = ring[p] /\ ring[p] \in Servers
        BY <1>1, <1>3, <1>4, <1>7, <2>3 DEF Occupied
      <3>2. "IN" \in flag[ring[p]] /\ p \in PointsOf(ring[p])
        BY <3>1 DEF RingInv, RingBelongsToMembers
      <3>3. QED
        BY <2>1, <3>1, <3>2 DEF RingInv, RingTypeOK, PointsOf
    <2>4. QED
      BY <2>2, <2>3
  <1>8. QED
    BY <1>5, <1>6, <1>7 DEF RingInv, RingBelongsToMembers

\* conhash_del_node.
LEMMA RingDelReplicas ==
  ASSUME RingInv, NEW s \in Servers, del_replicas(s),
         flag' = [flag EXCEPT ![s] = @ \ {"IN"}], UNCHANGED <<hashes, replicas>>
  PROVE  RingInv'
  <1> DEFINE old == {p \in PointsOf(s) : ring[p] = s}
  <1>1. ring' = [p \in Points |-> IF p \in old THEN None ELSE ring[p]]
        /\ ivnodes' = ivnodes - Cardinality(old)
    BY DEF del_replicas
  <1>2. old \subseteq Occupied(ring)
    BY PointsOfType, ReplicasAssumption DEF RingInv, Occupied
  <1>3. ring \in [Points -> Servers \union {None}]
    BY DEF RingInv, RingTypeOK
  <1>4. /\ ring' \in [Points -> Servers \union {None}]
        /\ Occupied(ring') = Occupied(ring) \ old
        /\ Cardinality(Occupied(ring')) = Cardinality(Occupied(ring)) - Cardinality(old)
    <2> HIDE DEF old
    <2> QED
      BY <1>1, <1>2, <1>3, OccupiedDel
  <1>5. ivnodes' = Cardinality(Occupied(ring'))
    BY <1>1, <1>4 DEF RingInv, RingBelongsToMembers
  <1>6. RingTypeOK'
    BY <1>4, <1>5, OccupiedRange DEF RingInv, RingTypeOK
  <1>7. ASSUME NEW p \in Occupied(ring')
        PROVE  ("IN" \in flag[ring[p]] /\ p \in PointsOf(ring[p]))'
    <2>1. \A i : PointsOf(ring[i])' = {hashes[<<ring'[i], j>>] : j \in 0..(replicas[ring'[i]] - 1)}
      BY DEF PointsOf
    <2>2. p \in Occupied(ring) /\ p \notin old /\ ring'[p] = ring[p] /\ ring[p] \in Servers
      BY <1>1, <1>3, <1>4, <1>7 DEF Occupied
    <2>3. "IN" \in flag[ring[p]] /\ p \in PointsOf(ring[p])
      BY <2>2 DEF RingInv, RingBelongsToMembers
    <2>4. ring[p] # s
      BY <2>2, <2>3
    <2>5. QED
      BY <2>1, <2>2, <2>3, <2>4 DEF RingInv, RingTypeOK, PointsOf
  <1>8. QED
    BY <1>5, <1>6, <1>7 DEF RingInv, RingBelongsToMembers

\* conhash_fini.
LEMMA RingFini ==
  ASSUME RingInv, conhash_fini
  PROVE  RingInv'
  <1>1. Occupied(ring') = {}
    BY DEF conhash_fini, Occupied
  <1>2. Cardinality(Occupied(ring')) = 0
    BY <1>1, FS_EmptySet
  <1>3. RingTypeOK'
    BY <1>2, OccupiedRange DEF RingInv, RingTypeOK, conhash_fini
  <1>4. QED
    BY <1>1, <1>2, <1>3 DEF RingInv, RingBelongsToMembers, conhash_fini

\* One case per function of conhash.c.
LEMMA RingNextInv == RingInv /\ [RingNext]_ringVars => RingInv'
  <1> SUFFICES ASSUME RingInv, [RingNext]_ringVars
               PROVE  RingInv'
    OBVIOUS
  <1>1. CASE UNCHANGED ringVars
    BY <1>1 DEF ringVars, RingInv, RingTypeOK, RingBelongsToMembers, Occupied, PointsOf
  <1>2. ASSUME NEW s \in Servers, NEW n \in 1..MaxReplicas, conhash_set_node(s, n)
        PROVE  RingInv'
    BY <1>2, RingSetNode
  <1>3. ASSUME NEW s \in Servers, conhash_add_node(s)
        PROVE  RingInv'
    BY <1>1, <1>3, RingAddReplicas DEF conhash_add_node
  <1>4. ASSUME NEW s \in Servers, conhash_del_node(s)
        PROVE  RingInv'
    BY <1>1, <1>4, RingDelReplicas DEF conhash_del_node
  <1>5. CASE conhash_fini
    BY <1>5, RingFini
  <1>6. QED
    BY <1>1, <1>2, <1>3, <1>4, <1>5 DEF RingNext

\* The types of the ring and of the nodes.
THEOREM RingInvariant == RingSpec => []RingInv
  BY RingInitInv, RingNextInv, PTL DEF RingSpec

\* ivnodes counts the points of the ring, and every point is the hash of a
\* replica of a server that is in, whatever collided or failed.
THEOREM RingAlwaysBelongsToMembers == RingSpec => []RingBelongsToMembers
  <1>1. RingInv => RingBelongsToMembers
    BY DEF RingInv
  <1>2. QED
    BY <1>1, RingInvariant, PTL

-----------------------------------------------------------------------------
(* Which objects move *)

\* The first of a set of points stays the first of a larger set, or the first of
\* the larger set is new.
LEMMA MinOfLarger ==
  ASSUME NEW S, NEW T, S \subseteq T, T \subseteq Nat, T # {}, Min(T) \in S
  PROVE  Min(S) = Min(T)
  <1>1. S \subseteq Nat /\ S # {}
    OBVIOUS
  <1>2. Min(S) \in S /\ \A y \in S : Min(S) <= y
    BY <1>1, MinOfNats
  <1>3. \A y \in T : Min(T) <= y
    BY MinOfNats
  <1>4. Min(S) <= Min(T) /\ Min(T) <= Min(S) /\ Min(S) \in Nat /\ Min(T) \in Nat
    BY <1>2, <1>3
  <1>5. QED
    BY <1>4

\* The ring q has the points of r and others that belong to s.
Extends(q, r, s) ==
  \A p \in Points : q[p] = r[p] \/ (r[p] = None /\ q[p] = s)

\* util_rbtree_lookup on the two rings: the larger one gives s or the same
\* server.
LEMMA LookupExtends ==
  ASSUME NEW q \in [Points -> Servers \union {None}], NEW r \in [Points -> Servers \union {None}],
         NEW s \in Servers, NEW h \in Points, Extends(q, r, s), Occupied(q) # {},
         RingLookup(q, h) # s
  PROVE  Occupied(r) # {} /\ RingLookup(q, h) = RingLookup(r, h)
  <1> DEFINE aq == {p \in Occupied(q) : p >= h}
             ar == {p \in Occupied(r) : p >= h}
             first == IF aq # {} THEN Min(aq) ELSE Min(Occupied(q))
  <1>1. Occupied(r) \subseteq Occupied(q) /\ Occupied(q) \subseteq Nat /\ h \in Nat
    BY PointsAssumption DEF Extends, Occupied
  <1>2. ar \subseteq aq /\ aq \subseteq Nat
    BY <1>1
  <1>3. RingLookup(q, h) = q[first]
    BY DEF RingLookup
  <1>4. first \in Occupied(q) /\ (aq # {} => first \in aq)
    BY <1>1, <1>2, MinOfNats
  <1>5. first \in Occupied(r) /\ q[first] = r[first]
    <2>1. first \in Points /\ q[first] # None /\ q[first] # s
      BY <1>3, <1>4 DEF Occupied
    <2>2. QED
      BY <2>1 DEF Extends, Occupied
  <1>6. CASE aq # {}
    <2>1. first = Min(aq) /\ first \in ar
      BY <1>4, <1>5, <1>6
    <2>2. Min(ar) = first
      <3> HIDE DEF aq, ar, first
      <3> QED
        BY <1>2, <1>6, <2>1, MinOfLarger
    <2>3. RingLookup(r, h) = r[first]
      BY <2>1, <2>2 DEF RingLookup
    <2>4. QED
      BY <1>3, <1>5, <2>3
  <1>7. CASE aq = {}
    <2>1. ar = {} /\ first = Min(Occupied(q))
      BY <1>2, <1>7
    <2>2. Min(Occupied(r)) = first
      <3> HIDE DEF aq, ar, first
      <3> QED
        BY <1>1, <1>5, <2>1, MinOfLarger
    <2>3. RingLookup(r, h) = r[first]
      BY <2>1, <2>2 DEF RingLookup
    <2>4. QED
      BY <1>3, <1>5, <2>3
  <1>8. QED
    BY <1>6, <1>7

\* conhash_lookup looks at ivnodes, not at the tree.
LEMMA EmptyByCount == RingInv => (ivnodes = 0 <=> Occupied(ring) = {})
  <1> SUFFICES ASSUME RingInv PROVE ivnodes = 0 <=> Occupied(ring) = {}
    OBVIOUS
  <1>1. Occupied(ring) \subseteq Points
    BY DEF Occupied
  <1>2. IsFiniteSet(Occupied(ring))
    BY <1>1, PointsFinite
  <1>3. QED
    BY <1>2, FS_EmptySet DEF RingInv, RingBelongsToMembers

\* conhash_add_node moves objects to the new server.
LEMMA AddMovesToServer ==
  ASSUME RingInv, RingInv', NEW s \in Servers, NEW failed, add_replicas(s, failed),
         NEW h \in Points
  PROVE  conhash_lookup(h)' \in {conhash_lookup(h), s}
  <1>1. /\ ring \in [Points -> Servers \union {None}]
        /\ ring' \in [Points -> Servers \union {None}]
    BY DEF RingInv, RingTypeOK
  <1>2. Extends(ring', ring, s)
    BY <1>1 DEF add_replicas, Extends, Occupied
  <1>3. ivnodes = 0 <=> Occupied(ring) = {}
    BY EmptyByCount
  <1>4. (ivnodes = 0 <=> Occupied(ring) = {})'
    BY EmptyByCount, PTL
  <1>5. CASE Occupied(ring') = {}
    <2>1. Occupied(ring) = {}
      BY <1>2, <1>5 DEF Extends, Occupied
    <2>2. QED
      BY <1>3, <1>4, <1>5, <2>1 DEF conhash_lookup
  <1>6. CASE Occupied(ring') # {}
    <2>1. conhash_lookup(h)' = RingLookup(ring', h)
      BY <1>4, <1>6 DEF conhash_lookup, RingLookup, Occupied
    <2>2. CASE RingLookup(ring', h) # s
      <3>1. Occupied(ring) # {} /\ RingLookup(ring', h) = RingLookup(ring, h)
        BY <1>1, <1>2, <1>6, <2>2, LookupExtends
      <3>2. QED
        BY <1>3, <2>1, <3>1 DEF conhash_lookup
    <2>3. QED
      BY <2>1, <2>2
  <1>7. QED
    BY <1>5, <1>6

\* conhash_del_node moves objects off the server.
LEMMA DelMovesFromServer ==
  ASSUME RingInv, RingInv', NEW s \in Servers, del_replicas(s), NEW h \in Points
  PROVE  conhash_lookup(h) \in {conhash_lookup(h)', s}
  <1>1. /\ ring \in [Points -> Servers \union {None}]
        /\ ring' \in [Points -> Servers \union {None}]
    BY DEF RingInv, RingTypeOK
  <1>2. Extends(ring, ring', s)
    BY <1>1 DEF del_replicas, Extends
  <1>3. ivnodes = 0 <=> Occupied(ring) = {}
    BY EmptyByCount
  <1>4. (ivnodes = 0 <=> Occupied(ring) = {})'
    BY EmptyByCount, PTL
  <1>5. CASE Occupied(ring) = {}
    <2>1. Occupied(ring') = {}
      BY <1>2, <1>5 DEF Extends, Occupied
    <2>2. QED
      BY <1>3, <1>4, <1>5, <2>1 DEF conhash_lookup
  <1>6. CASE Occupied(ring) # {}
    <2>1. conhash_lookup(h) = RingLookup(ring, h)
      BY <1>3, <1>6 DEF conhash_lookup
    <2>2. CASE RingLookup(ring, h) # s
      <3>1. Occupied(ring') # {} /\ RingLookup(ring, h) = RingLookup(ring', h)
        BY <1>1, <1>2, <1>6, <2>2, LookupExtends
      <3>2. conhash_lookup(h)' = RingLookup(ring', h)
        BY <1>4, <3>1 DEF conhash_lookup, RingLookup, Occupied
      <3>3. QED
        BY <2>1, <3>1, <3>2
    <2>3. QED
      BY <2>1, <2>2
  <1>7. QED
    BY <1>5, <1>6

\* Every step moves as many objects as it must.
LEMMA RingNextMoves == RingInv /\ RingInv' /\ [RingNext]_ringVars => NecessaryMove
  <1> SUFFICES ASSUME RingInv, RingInv', [RingNext]_ringVars, NEW s \in Servers, NEW h \in Points
               PROVE  /\ "IN" \notin flag[s] /\ "IN" \in flag'[s]
                            => conhash_lookup(h)' \in {conhash_lookup(h), s}
                      /\ "IN" \in flag[s] /\ "IN" \notin flag'[s]
                            => conhash_lookup(h) \in {conhash_lookup(h)', s}
    BY DEF NecessaryMove
  <1> USE DEF RingInv, RingTypeOK
  <1>1. CASE UNCHANGED <<ring, ivnodes>>
    BY <1>1 DEF conhash_lookup, RingLookup, Occupied
  <1>2. CASE UNCHANGED flag
    BY <1>2
  <1>3. ASSUME NEW t \in Servers, conhash_add_node(t), ~ UNCHANGED ringVars
        PROVE  /\ flag' = [flag EXCEPT ![t] = @ \union {"IN"}]
               /\ \E failed : add_replicas(t, failed)
    BY <1>3 DEF conhash_add_node
  <1>4. ASSUME NEW t \in Servers, conhash_del_node(t), ~ UNCHANGED ringVars
        PROVE  flag' = [flag EXCEPT ![t] = @ \ {"IN"}] /\ del_replicas(t)
    BY <1>4 DEF conhash_del_node
  <1>5. CASE UNCHANGED ringVars
    BY <1>1, <1>5 DEF ringVars
  <1>6. ASSUME NEW t \in Servers, conhash_add_node(t), ~ UNCHANGED ringVars
        PROVE  /\ "IN" \in flag[s] => "IN" \in flag'[s]
               /\ "IN" \notin flag[s] /\ "IN" \in flag'[s]
                     => conhash_lookup(h)' \in {conhash_lookup(h), s}
    <2>1. flag' = [flag EXCEPT ![t] = @ \union {"IN"}] /\ \E failed : add_replicas(t, failed)
      BY <1>3, <1>6
    <2>2. s # t => flag'[s] = flag[s]
      BY <2>1
    <2>3. conhash_lookup(h)' \in {conhash_lookup(h), t}
      BY <2>1, AddMovesToServer
    <2>4. "IN" \in flag[s] => "IN" \in flag'[s]
      BY <2>1
    <2>5. QED
      BY <2>2, <2>3, <2>4, Zenon
  <1>7. ASSUME NEW t \in Servers, conhash_del_node(t), ~ UNCHANGED ringVars
        PROVE  /\ "IN" \in flag'[s] => "IN" \in flag[s]
               /\ "IN" \in flag[s] /\ "IN" \notin flag'[s]
                     => conhash_lookup(h) \in {conhash_lookup(h)', s}
    <2>1. flag' = [flag EXCEPT ![t] = @ \ {"IN"}] /\ del_replicas(t)
      BY <1>4, <1>7
    <2>2. s # t => flag'[s] = flag[s]
      BY <2>1
    <2>3. conhash_lookup(h) \in {conhash_lookup(h)', t}
      BY <2>1, DelMovesFromServer
    <2>4. "IN" \in flag'[s] => "IN" \in flag[s]
      BY <2>1
    <2>5. QED
      BY <2>2, <2>3, <2>4, Zenon
  <1>8. ASSUME NEW t \in Servers, NEW n \in 1..MaxReplicas, conhash_set_node(t, n)
        PROVE  UNCHANGED <<ring, ivnodes>>
    BY <1>8 DEF conhash_set_node
  <1>9. CASE conhash_fini
    BY <1>2, <1>9 DEF conhash_fini
  <1>10. CASE \E t \in Servers, n \in 1..MaxReplicas : conhash_set_node(t, n)
    BY <1>1, <1>8, <1>10
  <1>11. CASE ~ UNCHANGED ringVars /\ \E t \in Servers : conhash_add_node(t)
    BY <1>6, <1>11, Zenon
  <1>12. CASE ~ UNCHANGED ringVars /\ \E t \in Servers : conhash_del_node(t)
    BY <1>7, <1>12, Zenon
  <1>13. QED
    BY <1>5, <1>9, <1>10, <1>11, <1>12, Zenon DEF RingNext

\* A server that joins takes objects only for itself, one that leaves gives up
\* only its own: every other object stays where it is stored.
THEOREM MovesOnlyNecessary == RingSpec => OnlyNecessaryMoves
  <1>1. RingInv /\ RingInv' /\ [RingNext]_ringVars => [NecessaryMove]_ringVars
    BY RingNextMoves
  <1>2. QED
    BY <1>1, RingInvariant, PTL DEF RingSpec, OnlyNecessaryMoves

-----------------------------------------------------------------------------
(* The continuum of chash.lua, for every number of peers and buckets and   *)
(* every hash function: quicksort moves entries and keeps them, what it    *)
(* leaves out of order are neighbours, and the bisection finds the bucket. *)

-----------------------------------------------------------------------------
(* One iteration of the loop of quicksort. *)

\* CONTINUUM holds peers with a point.
Entries == [peer : Peers, point : 0 .. MaxPoint]

\* Positions of the entries of a peer.
At(t, n, p) == {i \in 1 .. n : t[i].peer = p}

\* The entries of t stand in u where f takes them from; e undoes f.
Moves(t, u, f, e, n) ==
  /\ f \in [1 .. n -> 1 .. n] /\ e \in [1 .. n -> 1 .. n]
  /\ \A j \in 1 .. n : u[j] = t[f[j]] /\ e[f[j]] = j /\ f[e[j]] = j

\* Moving entries around changes no peer's number of entries.
LEMMA SameCount ==
  ASSUME NEW n \in Nat, NEW t, NEW u, NEW p, NEW f, NEW e, Moves(t, u, f, e, n)
  PROVE  Cardinality(At(u, n, p)) = Cardinality(At(t, n, p))
  <1> DEFINE S == At(u, n, p)
             T == At(t, n, p)
  <1>0. /\ f \in [1 .. n -> 1 .. n] /\ e \in [1 .. n -> 1 .. n]
        /\ \A j \in 1 .. n : e[f[j]] = j /\ f[e[j]] = j
        /\ \A j \in 1 .. n : u[j] = t[f[j]]
    BY DEF Moves
  <1>1. PICK g : g = [j \in S |-> f[j]]
    OBVIOUS
  <1>2. \A j \in S : j \in 1 .. n /\ u[j].peer = p
    BY DEF At
  <1>3. g \in [S -> T]
    BY <1>0, <1>1, <1>2 DEF At
  <1>4. \A a, b \in S : g[a] = g[b] => a = b
    BY <1>0, <1>1, <1>2
  <1>5. \A l \in T : \E j \in S : g[j] = l
    <2>1. TAKE l \in T
    <2>2. l \in 1 .. n /\ t[l].peer = p
      BY DEF At
    <2>3. e[l] \in 1 .. n /\ f[e[l]] = l /\ u[e[l]] = t[l]
      BY <1>0, <2>2
    <2>4. e[l] \in S
      BY <2>2, <2>3 DEF At
    <2>5. g[e[l]] = l
      BY <1>1, <2>3, <2>4
    <2>6. QED
      BY <2>4, <2>5
  <1>6. IsFiniteSet(S)
    <2>1. IsFiniteSet(1 .. n)
      BY FS_Interval
    <2>2. S \subseteq 1 .. n
      BY DEF At
    <2>3. QED
      BY <2>1, <2>2, FS_Subset
  <1> HIDE DEF S, T
  <1>7. g \in Bijection(S, T)
    BY <1>3, <1>4, <1>5, Fun_IsBij
  <1>8. ExistsBijection(S, T)
    BY <1>7 DEF ExistsBijection
  <1>9. Cardinality(T) = Cardinality(S)
    BY <1>6, <1>8, FS_Bijection
  <1>10. QED
    BY <1>9 DEF S, T

\* One element in front of the pivot: only three elements move.
Taken(u, t, n, pivot, i) ==
  /\ u \in [1 .. n -> Entries]
  /\ u[pivot] = t[i] /\ u[pivot + 1] = t[pivot]
  /\ i # pivot + 1 => u[i] = t[pivot + 1]
  /\ \A j \in 1 .. n : j # pivot /\ j # pivot + 1 /\ j # i => u[j] = t[j]

\* What Shift does, whether or not i is next to the pivot.
LEMMA ShiftIs ==
  ASSUME NEW n \in Nat, NEW t \in [1 .. n -> Entries], NEW pivot \in 1 .. n, NEW i \in 1 .. n,
         pivot < i
  PROVE  Taken(Shift(t, pivot, i), t, n, pivot, i)
  <1>0. PICK u : u = Shift(t, pivot, i)
    OBVIOUS
  <1>1. pivot + 1 \in 1 .. n /\ pivot # i /\ pivot # pivot + 1
    OBVIOUS
  <1>2. CASE i = pivot + 1
    <2>1. u = [t EXCEPT ![pivot] = t[i], ![i] = t[pivot]]
      BY <1>0, <1>2 DEF Shift
    <2>2. Taken(u, t, n, pivot, i)
      BY <1>1, <1>2, <2>1 DEF Taken
    <2>3. QED
      BY <1>0, <2>2
  <1>3. CASE i # pivot + 1
    <2>1. u = [t EXCEPT ![pivot] = t[i], ![pivot + 1] = t[pivot], ![i] = t[pivot + 1]]
      BY <1>0, <1>3 DEF Shift
    <2>2. Taken(u, t, n, pivot, i)
      BY <1>1, <1>3, <2>1 DEF Taken
    <2>3. QED
      BY <1>0, <2>2
  <1>4. QED
    BY <1>2, <1>3

\* Nor does an element put in front of the pivot.
LEMMA ShiftCounts ==
  ASSUME NEW n \in Nat, NEW t \in [1 .. n -> Entries], NEW pivot \in 1 .. n, NEW i \in 1 .. n,
         pivot < i, NEW u, u = Shift(t, pivot, i), NEW p
  PROVE  Cardinality(At(u, n, p)) = Cardinality(At(t, n, p))
  <1>1. PICK h \in 1 .. n : h = pivot + 1 /\ pivot # i /\ pivot # h
    OBVIOUS
  <1>2. PICK f : f = [j \in 1 .. n |-> IF j = pivot THEN i ELSE IF j = h THEN pivot ELSE IF j = i THEN h ELSE j]
    OBVIOUS
  <1>3. PICK e : e = [j \in 1 .. n |-> IF j = i THEN pivot ELSE IF j = pivot THEN h ELSE IF j = h THEN i ELSE j]
    OBVIOUS
  <1>4. f \in [1 .. n -> 1 .. n] /\ e \in [1 .. n -> 1 .. n]
    BY <1>1, <1>2, <1>3
  <1>5. \A j \in 1 .. n : e[f[j]] = j /\ f[e[j]] = j
    BY <1>1, <1>2, <1>3, <1>4
  <1>6. \A j \in 1 .. n : u[j] = t[f[j]]
    <2>1. Taken(u, t, n, pivot, i)
      BY ShiftIs
    <2>2. QED
      BY <1>1, <1>2, <2>1 DEF Taken
  <1>7. QED
    <2>1. Moves(t, u, f, e, n)
      BY <1>4, <1>5, <1>6 DEF Moves
    <2>2. QED
      BY <2>1, SameCount

\* One iteration of the loop of quicksort.
Moved(s, i) ==
  IF s.t[i].point < s.t[s.pivot].point
  THEN [t |-> Shift(s.t, s.pivot, i), pivot |-> s.pivot + 1]
  ELSE s

\* The first m iterations.
Iterations(h, t, start, m) ==
  h = [i \in start .. (start + m) |->
         IF i = start THEN [t |-> t, pivot |-> start] ELSE Moved(h[i - 1], i)]

\* The loop has a result after every number of iterations.
LEMMA IterationsExist ==
  ASSUME NEW t, NEW start \in Int, NEW n \in Nat
  PROVE  \E h : Iterations(h, t, start, n)
  <1> DEFINE S == {m \in 0 .. n : \E h : Iterations(h, t, start, m)}
  <1>1. 0 \in S
    <2>1. PICK h : h = [i \in start .. start |-> [t |-> t, pivot |-> start]]
      OBVIOUS
    <2>2. h = [i \in start .. start |->
                 IF i = start THEN [t |-> t, pivot |-> start] ELSE Moved(h[i - 1], i)]
      BY <2>1
    <2>3. start + 0 = start /\ 0 \in 0 .. n
      OBVIOUS
    <2>4. Iterations(h, t, start, 0)
      BY <2>2, <2>3 DEF Iterations
    <2>5. QED
      BY <2>3, <2>4
  <1>2. ASSUME NEW m \in 0 .. n, m # n, m \in S
        PROVE  m + 1 \in S
    <2>1. PICK u : Iterations(u, t, start, m)
      BY <1>2
    <2>2. PICK e \in Int : e = start + m /\ start <= e /\ start + (m + 1) = e + 1
      OBVIOUS
    <2>3. u = [i \in start .. e |->
                 IF i = start THEN [t |-> t, pivot |-> start] ELSE Moved(u[i - 1], i)]
      BY <2>1, <2>2 DEF Iterations
    <2>4. PICK w : w = [i \in start .. (e + 1) |-> IF i = e + 1 THEN Moved(u[e], e + 1) ELSE u[i]]
      OBVIOUS
    <2>5. ASSUME NEW i \in start .. (e + 1)
          PROVE  w[i] = IF i = start THEN [t |-> t, pivot |-> start] ELSE Moved(w[i - 1], i)
      <3>1. CASE i = e + 1
        <4>1. w[i] = Moved(u[e], i) /\ i # start /\ i - 1 = e
          BY <2>2, <2>4, <3>1
        <4>2. w[e] = u[e]
          BY <2>2, <2>4
        <4>3. QED
          BY <4>1, <4>2
      <3>2. CASE i # e + 1 /\ i # start
        <4>1. i \in start .. e /\ i - 1 \in start .. e /\ i - 1 \in start .. (e + 1) /\ i - 1 # e + 1
          BY <2>2, <3>2
        <4>2. w[i] = u[i] /\ w[i - 1] = u[i - 1]
          BY <2>4, <3>2, <4>1
        <4>3. u[i] = Moved(u[i - 1], i)
          BY <2>3, <3>2, <4>1
        <4>4. QED
          BY <3>2, <4>2, <4>3
      <3>3. CASE i = start
        <4>1. start \in start .. e /\ start # e + 1
          BY <2>2
        <4>2. u[start] = [t |-> t, pivot |-> start]
          BY <2>3, <4>1
        <4>3. w[start] = u[start]
          BY <2>2, <2>4, <4>1
        <4>4. QED
          BY <3>3, <4>2, <4>3
      <3>4. QED
        BY <3>1, <3>2, <3>3
    <2>6. w = [i \in start .. (e + 1) |-> w[i]]
      BY <2>4
    <2>7. Iterations(w, t, start, m + 1)
      BY <2>2, <2>5, <2>6 DEF Iterations
    <2>8. m + 1 \in 0 .. n
      BY <1>2
    <2>9. QED
      BY <2>7, <2>8
  <1> HIDE DEF S
  <1>3. n \in S
    BY <1>1, <1>2, StepByStep
  <1>4. QED
    BY <1>3 DEF S

\* Partition is the loop run to the end of the range.
LEMMA PartitionRuns ==
  ASSUME NEW t, NEW start \in Int, NEW endi \in Int, start <= endi
  PROVE  \E h : Iterations(h, t, start, endi - start) /\ Partition(t, start, endi) = h[endi]
  <1> DEFINE Body(h) == [i \in start .. endi |->
        IF i = start THEN [t |-> t, pivot |-> start]
        ELSE LET s == h[i - 1]
             IN  IF s.t[i].point < s.t[s.pivot].point
                 THEN [t |-> Shift(s.t, s.pivot, i), pivot |-> s.pivot + 1]
                 ELSE s]
  <1>1. Partition(t, start, endi) = (CHOOSE h : h = Body(h))[endi]
    BY Zenon DEF Partition
  <1>2. endi - start \in Nat /\ start + (endi - start) = endi
    OBVIOUS
  <1>3. ASSUME NEW h
        PROVE  Iterations(h, t, start, endi - start) <=> h = Body(h)
    BY <1>2 DEF Iterations, Moved
  <1>4. \E h : h = Body(h)
    BY <1>2, <1>3, IterationsExist
  <1>5. PICK u : u = (CHOOSE h : h = Body(h))
    OBVIOUS
  <1>6. u = Body(u)
    BY <1>4, <1>5
  <1>7. Iterations(u, t, start, endi - start)
    BY <1>3, <1>6
  <1>8. QED
    BY <1>1, <1>5, <1>7

\* What holds after iteration i: smaller points before the pivot, the others
\* behind it, the same entries in the range, and nothing else moved.
Parted(s, t, n, start, i) ==
  /\ s.t \in [1 .. n -> Entries] /\ s.pivot \in start .. i
  /\ \A j \in start .. (s.pivot - 1) : s.t[j].point <= s.t[s.pivot].point
  /\ \A j \in (s.pivot + 1) .. i : s.t[s.pivot].point <= s.t[j].point
  /\ \A j \in start .. i : \E l \in start .. i : s.t[j] = t[l]
  /\ \A j \in 1 .. n : j \notin start .. i => s.t[j] = t[j]
  /\ \A p : Cardinality(At(s.t, n, p)) = Cardinality(At(t, n, p))

\* Before the loop.
LEMMA PartedFirst ==
  ASSUME NEW n \in Nat, NEW t \in [1 .. n -> Entries], NEW start \in 1 .. n
  PROVE  Parted([t |-> t, pivot |-> start], t, n, start, start)
  <1>1. PICK s : s = [t |-> t, pivot |-> start]
    OBVIOUS
  <1>2. s.t = t /\ s.pivot = start
    BY <1>1
  <1>3. Parted(s, t, n, start, start)
    BY <1>2 DEF Parted
  <1>4. QED
    BY <1>1, <1>3

\* The entries of the continuum.
LEMMA PointOf ==
  ASSUME BoundsAssumption, NEW n \in Nat, NEW t \in [1 .. n -> Entries], NEW i \in 1 .. n
  PROVE  t[i] \in Entries /\ t[i].point \in Int /\ t[i].point \in 0 .. MaxPoint /\ t[i].peer \in Peers
  BY DEF BoundsAssumption, Entries

\* An iteration keeps what holds.
LEMMA PartedNext ==
  ASSUME BoundsAssumption, NEW n \in Nat, NEW t \in [1 .. n -> Entries], NEW start \in 1 .. n,
         NEW i \in start .. n, i + 1 <= n, NEW s, Parted(s, t, n, start, i)
  PROVE  Parted(Moved(s, i + 1), t, n, start, i + 1)
  <1>1. PICK k \in Int, v \in Int : k = i + 1 /\ v = s.pivot
    BY DEF Parted
  <1>2. PICK x : x = s.t
    OBVIOUS
  <1>3. /\ x \in [1 .. n -> Entries] /\ v \in start .. i
        /\ \A j \in start .. (v - 1) : x[j].point <= x[v].point
        /\ \A j \in (v + 1) .. i : x[v].point <= x[j].point
        /\ \A j \in start .. i : \E l \in start .. i : x[j] = t[l]
        /\ \A j \in 1 .. n : j \notin start .. i => x[j] = t[j]
        /\ \A p : Cardinality(At(x, n, p)) = Cardinality(At(t, n, p))
    BY <1>1, <1>2 DEF Parted
  <1>4. k \in 1 .. n /\ v \in 1 .. n /\ v < k /\ k \notin start .. i /\ k \in start .. k
        /\ start .. i \subseteq start .. k /\ start .. k \subseteq 1 .. n
    BY <1>1, <1>3
  <1>5. x[k] = t[k]
    BY <1>3, <1>4
  <1>6. \A j \in 1 .. n : x[j].point \in Int
    BY <1>3, PointOf
  <1>7. CASE x[k].point < x[v].point
    <2>1. PICK y : y = Shift(x, v, k)
      OBVIOUS
    <2>2. PICK r : r = Moved(s, k)
      OBVIOUS
    <2>3. r.t = y /\ r.pivot = v + 1
      BY <1>1, <1>2, <1>7, <2>1, <2>2 DEF Moved
    <2>4. /\ y \in [1 .. n -> Entries]
          /\ y[v] = x[k] /\ y[v + 1] = x[v]
          /\ k # v + 1 => y[k] = x[v + 1]
          /\ \A j \in 1 .. n : j # v /\ j # v + 1 /\ j # k => y[j] = x[j]
      <3>1. Taken(Shift(x, v, k), x, n, v, k)
        BY <1>3, <1>4, ShiftIs
      <3>2. Taken(y, x, n, v, k)
        BY <2>1, <3>1
      <3>3. QED
        BY <3>2 DEF Taken
    <2>5. \A j \in start .. v : y[j].point <= y[v + 1].point
      <3>1. TAKE j \in start .. v
      <3>2. CASE j = v
        BY <1>4, <1>6, <1>7, <2>4, <3>2
      <3>3. CASE j # v
        <4>1. j \in start .. (v - 1) /\ j \in 1 .. n /\ j # v + 1 /\ j # k
          BY <1>4, <3>3
        <4>2. y[j] = x[j] /\ x[j].point <= x[v].point
          BY <1>3, <2>4, <4>1
        <4>3. QED
          BY <2>4, <4>2
      <3>4. QED
        BY <3>2, <3>3
    <2>6. \A j \in (v + 2) .. k : y[v + 1].point <= y[j].point
      <3>1. TAKE j \in (v + 2) .. k
      <3>2. CASE j = k
        <4>1. k # v + 1 /\ v + 1 \in (v + 1) .. i
          BY <1>1, <1>4, <3>2
        <4>2. y[j] = x[v + 1] /\ x[v].point <= x[v + 1].point
          BY <1>3, <2>4, <3>2, <4>1
        <4>3. QED
          BY <2>4, <4>2
      <3>3. CASE j # k
        <4>1. j \in (v + 1) .. i /\ j \in 1 .. n /\ j # v /\ j # v + 1
          BY <1>1, <1>4, <3>3
        <4>2. y[j] = x[j] /\ x[v].point <= x[j].point
          BY <1>3, <2>4, <3>3, <4>1
        <4>3. QED
          BY <2>4, <4>2
      <3>4. QED
        BY <3>2, <3>3
    <2>7. \A j \in start .. k : \E l \in start .. k : y[j] = t[l]
      <3>1. \A j \in start .. k : \E l \in start .. k : x[j] = t[l]
        <4>1. TAKE j \in start .. k
        <4>2. CASE j = k
          BY <1>4, <1>5, <4>2
        <4>3. CASE j # k
          <5>1. j \in start .. i
            BY <1>1, <4>3
          <5>2. QED
            BY <1>3, <1>4, <5>1
        <4>4. QED
          BY <4>2, <4>3
      <3>2. v \in start .. k /\ v + 1 \in start .. k
        BY <1>1, <1>3, <1>4
      <3>3. ASSUME NEW j \in start .. k
            PROVE  \E l \in start .. k : y[j] = x[l]
        BY <1>4, <2>4, <3>2
      <3>4. ASSUME NEW j \in start .. k
            PROVE  \E l \in start .. k : y[j] = t[l]
        <4>1. PICK l \in start .. k : y[j] = x[l]
          BY <3>3
        <4>2. PICK q \in start .. k : x[l] = t[q]
          BY <3>1
        <4>3. QED
          BY <4>1, <4>2
      <3>5. QED
        BY <3>4
    <2>8. \A j \in 1 .. n : j \notin start .. k => y[j] = t[j]
      <3>1. TAKE j \in 1 .. n
      <3>2. HAVE j \notin start .. k
      <3>3. j \notin start .. i /\ j # v /\ j # v + 1 /\ j # k
        BY <1>1, <1>3, <1>4, <3>2
      <3>4. QED
        BY <1>3, <2>4, <3>3
    <2>9. \A p : Cardinality(At(y, n, p)) = Cardinality(At(t, n, p))
      BY <1>3, <1>4, <2>1, ShiftCounts
    <2>10. r.pivot \in start .. k /\ r.pivot - 1 = v /\ r.pivot + 1 = v + 2
      BY <1>1, <1>3, <2>3
    <2>11. Parted(r, t, n, start, k)
      BY <2>3, <2>4, <2>5, <2>6, <2>7, <2>8, <2>9, <2>10 DEF Parted
    <2>12. QED
      BY <1>1, <2>2, <2>11
  <1>8. CASE ~(x[k].point < x[v].point)
    <2>1. Moved(s, k) = s
      BY <1>1, <1>2, <1>8 DEF Moved
    <2>2. \A j \in (v + 1) .. k : x[v].point <= x[j].point
      <3>1. TAKE j \in (v + 1) .. k
      <3>2. CASE j = k
        BY <1>4, <1>6, <1>8, <3>2
      <3>3. CASE j # k
        <4>1. j \in (v + 1) .. i
          BY <1>1, <3>3
        <4>2. QED
          BY <1>3, <4>1
      <3>4. QED
        BY <3>2, <3>3
    <2>3. \A j \in start .. k : \E l \in start .. k : x[j] = t[l]
      <3>1. TAKE j \in start .. k
      <3>2. CASE j = k
        BY <1>4, <1>5, <3>2
      <3>3. CASE j # k
        <4>1. j \in start .. i
          BY <1>1, <3>3
        <4>2. QED
          BY <1>3, <1>4, <4>1
      <3>4. QED
        BY <3>2, <3>3
    <2>4. \A j \in 1 .. n : j \notin start .. k => x[j] = t[j]
      BY <1>3, <1>4
    <2>5. v \in start .. k
      BY <1>1, <1>3
    <2>6. Parted(s, t, n, start, k)
      BY <1>1, <1>2, <1>3, <2>2, <2>3, <2>4, <2>5 DEF Parted
    <2>7. QED
      BY <1>1, <2>1, <2>6
  <1>9. QED
    BY <1>7, <1>8

\* The whole loop of quicksort.
LEMMA PartitionIs ==
  ASSUME BoundsAssumption, NEW n \in Nat, NEW t \in [1 .. n -> Entries], NEW start \in 1 .. n,
         NEW endi \in start .. n
  PROVE  Parted(Partition(t, start, endi), t, n, start, endi)
  <1>0. PICK m \in Nat : m = endi - start /\ endi = start + m
    <2>1. endi - start \in Nat /\ endi = start + (endi - start)
      OBVIOUS
    <2>2. QED
      BY <2>1
  <1>1. PICK h : Iterations(h, t, start, m) /\ Partition(t, start, endi) = h[endi]
    BY <1>0, PartitionRuns
  <1>2. h = [i \in start .. endi |->
               IF i = start THEN [t |-> t, pivot |-> start] ELSE Moved(h[i - 1], i)]
    BY <1>0, <1>1 DEF Iterations
  <1> DEFINE S == {j \in 0 .. m : Parted(h[start + j], t, n, start, start + j)}
  <1>3. 0 \in S
    <2>1. start + 0 = start /\ start \in start .. endi
      OBVIOUS
    <2>2. h[start] = [t |-> t, pivot |-> start]
      BY <1>2, <2>1
    <2>3. Parted(h[start], t, n, start, start)
      BY <2>2, PartedFirst
    <2>4. QED
      BY <2>1, <2>3
  <1>4. ASSUME NEW j \in 0 .. m, j # m, j \in S
        PROVE  j + 1 \in S
    <2>1. PICK i \in Int : i = start + j /\ start + (j + 1) = i + 1
      OBVIOUS
    <2>2. i \in start .. n /\ i + 1 <= n /\ i + 1 \in start .. endi /\ i + 1 # start /\ (i + 1) - 1 = i
      BY <1>0, <1>4, <2>1
    <2>3. Parted(h[i], t, n, start, i)
      BY <1>4, <2>1
    <2>4. h[i + 1] = Moved(h[i], i + 1)
      BY <1>2, <2>2
    <2>5. Parted(Moved(h[i], i + 1), t, n, start, i + 1)
      BY <2>2, <2>3, PartedNext
    <2>6. j + 1 \in 0 .. m
      BY <1>4
    <2>7. QED
      BY <2>1, <2>4, <2>5, <2>6
  <1> HIDE DEF S
  <1>5. m \in S
    <2>1. 0 .. m \subseteq S
      BY <1>3, <1>4, StepByStep
    <2>2. QED
      BY <2>1
  <1>6. Parted(h[endi], t, n, start, endi)
    BY <1>0, <1>5 DEF S
  <1>7. QED
    BY <1>1, <1>6

-----------------------------------------------------------------------------
(* The ranges that quicksort leaves open. *)

\* The calls of quicksort still to be made: ranges of 1 .. n, ascending and apart.
RangeOf(r, n) == r \in Int \X Int /\ 1 <= r[1] /\ r[1] <= r[2] + 1 /\ r[2] <= n

Apart(rs, n) ==
  /\ rs \in Seq(Int \X Int)
  /\ \A k \in 1 .. Len(rs) : RangeOf(rs[k], n)
  /\ \A k \in 1 .. Len(rs) : \A m \in 1 .. (k - 1) : rs[m][2] < rs[k][1]

\* The ranges of the stack, and the positions of one.
Open(rs) == {rs[k] : k \in 1 .. Len(rs)}
Within(i, r) == r[1] <= i /\ i <= r[2]

\* Positions are in order but for those in one open range, and for neighbours
\* in no open range.
Ordered(t, n, open) ==
  \A i, j \in 1 .. n :
    i < j =>
      \/ t[i].point <= t[j].point
      \/ \E r \in open : Within(i, r) /\ Within(j, r)
      \/ j = i + 1 /\ \A r \in open : ~Within(i, r) /\ ~Within(j, r)

\* A range off the stack.
LEMMA RestApart ==
  ASSUME NEW n, NEW rs, Apart(rs, n), rs # <<>>
  PROVE  /\ Apart(Tail(rs), n) /\ RangeOf(Head(rs), n)
         /\ \A r \in Open(Tail(rs)) : RangeOf(r, n) /\ Head(rs)[2] < r[1]
         /\ Open(rs) = {Head(rs)} \union Open(Tail(rs))
  <1>1. rs \in Seq(Int \X Int) /\ Len(rs) \in Nat /\ Len(rs) # 0
    BY LenProperties, EmptySeq DEF Apart
  <1>2. PICK m \in Nat : Len(rs) = m + 1
    <2>1. Len(rs) - 1 \in Nat /\ Len(rs) = (Len(rs) - 1) + 1
      BY <1>1
    <2>2. QED
      BY <2>1
  <1>3. PICK t : t = Tail(rs)
    OBVIOUS
  <1>4. t \in Seq(Int \X Int) /\ Len(t) = m /\ \A k \in 1 .. m : t[k] = rs[k + 1]
    <2>1. /\ Tail(rs) \in Seq(Int \X Int) /\ Len(Tail(rs)) = Len(rs) - 1
          /\ \A k \in 1 .. Len(Tail(rs)) : Tail(rs)[k] = rs[k + 1]
      BY <1>1, HeadTailProperties
    <2>2. Len(rs) - 1 = m
      BY <1>2
    <2>3. QED
      BY <1>3, <2>1, <2>2
  <1>5. Head(rs) = rs[1] /\ 1 \in 1 .. Len(rs)
    BY <1>1
  <1>6. \A k \in 1 .. m : k + 1 \in 1 .. Len(rs) /\ 1 \in 1 .. ((k + 1) - 1)
    BY <1>2
  <1>7. Apart(t, n)
    <2>1. \A k \in 1 .. m : RangeOf(t[k], n)
      BY <1>4, <1>6 DEF Apart
    <2>2. ASSUME NEW k \in 1 .. m, NEW l \in 1 .. (k - 1)
          PROVE  t[l][2] < t[k][1]
      <3>1. l \in 1 .. m /\ k + 1 \in 1 .. Len(rs) /\ l + 1 \in 1 .. ((k + 1) - 1)
        BY <1>2, <2>2
      <3>2. rs[l + 1][2] < rs[k + 1][1]
        BY <3>1 DEF Apart
      <3>3. QED
        BY <1>4, <3>1, <3>2
    <2>3. QED
      BY <1>4, <2>1, <2>2 DEF Apart
  <1>8. RangeOf(Head(rs), n)
    BY <1>5 DEF Apart
  <1>9. ASSUME NEW r \in Open(t)
        PROVE  RangeOf(r, n) /\ Head(rs)[2] < r[1]
    <2>1. PICK k \in 1 .. m : r = t[k]
      BY <1>4, <1>9 DEF Open
    <2>2. r = rs[k + 1] /\ k + 1 \in 1 .. Len(rs) /\ 1 \in 1 .. ((k + 1) - 1)
      BY <1>4, <1>6, <2>1
    <2>3. RangeOf(r, n) /\ rs[1][2] < r[1]
      BY <2>2 DEF Apart
    <2>4. QED
      BY <1>5, <2>3
  <1>10. Open(rs) = {Head(rs)} \union Open(t)
    <2>1. ASSUME NEW k \in 1 .. Len(rs)
          PROVE  rs[k] = Head(rs) \/ rs[k] \in Open(t)
      <3>1. CASE k = 1
        BY <1>5, <3>1
      <3>2. CASE k # 1
        <4>1. k - 1 \in 1 .. m /\ (k - 1) + 1 = k
          BY <1>2, <3>2
        <4>2. rs[k] = t[k - 1]
          BY <1>4, <4>1
        <4>3. QED
          BY <1>4, <4>1, <4>2 DEF Open
      <3>3. QED
        BY <3>1, <3>2
    <2>2. ASSUME NEW k \in 1 .. m
          PROVE  t[k] \in Open(rs)
      <3>1. t[k] = rs[k + 1] /\ k + 1 \in 1 .. Len(rs)
        BY <1>4, <1>6
      <3>2. QED
        BY <3>1 DEF Open
    <2>3. Head(rs) \in Open(rs)
      BY <1>5 DEF Open
    <2>4. Open(t) \subseteq Open(rs)
      BY <1>4, <2>2 DEF Open
    <2>5. Open(rs) \subseteq {Head(rs)} \union Open(t)
      BY <2>1 DEF Open
    <2>6. QED
      BY <2>3, <2>4, <2>5
  <1>11. QED
    BY <1>3, <1>7, <1>8, <1>9, <1>10

\* Two ranges onto the stack, for the two recursive calls.
LEMMA TwoMore ==
  ASSUME NEW n, NEW rs, Apart(rs, n), NEW x, NEW y, RangeOf(x, n), RangeOf(y, n),
         x[2] < y[1], \A r \in Open(rs) : x[2] < r[1] /\ y[2] < r[1]
  PROVE  Apart(<<x, y>> \o rs, n) /\ Open(<<x, y>> \o rs) = {x, y} \union Open(rs)
  <1>1. rs \in Seq(Int \X Int) /\ x \in Int \X Int /\ y \in Int \X Int
    BY DEF Apart, RangeOf
  <1>2. PICK m \in Nat : m = Len(rs)
    BY <1>1, LenProperties
  <1>3. PICK a : a = <<x, y>>
    OBVIOUS
  <1>4. a \in Seq(Int \X Int) /\ Len(a) = 2 /\ a[1] = x /\ a[2] = y
    BY <1>1, <1>3
  <1>5. PICK q : q = a \o rs
    OBVIOUS
  <1>6. /\ q \in Seq(Int \X Int) /\ Len(q) = m + 2
        /\ \A k \in 1 .. (m + 2) : q[k] = IF k <= 2 THEN a[k] ELSE rs[k - 2]
    <2>1. /\ q \in Seq(Int \X Int) /\ Len(q) = Len(a) + Len(rs)
          /\ \A k \in 1 .. Len(a) + Len(rs) : q[k] = IF k <= Len(a) THEN a[k] ELSE rs[k - Len(a)]
      BY <1>1, <1>4, <1>5, ConcatProperties
    <2>2. Len(a) + Len(rs) = m + 2
      BY <1>2, <1>4
    <2>3. QED
      BY <1>4, <2>1, <2>2
  <1>7. q[1] = x /\ q[2] = y
    BY <1>4, <1>6
  <1>8. ASSUME NEW k \in 1 .. (m + 2), k # 1, k # 2
        PROVE  k - 2 \in 1 .. Len(rs) /\ q[k] = rs[k - 2] /\ q[k] \in Open(rs) /\ ~(k <= 2)
    <2>1. k - 2 \in 1 .. Len(rs) /\ ~(k <= 2)
      BY <1>2, <1>8
    <2>2. q[k] = rs[k - 2]
      BY <1>6, <2>1
    <2>3. QED
      BY <2>1, <2>2 DEF Open
  <1>9. ASSUME NEW k \in 1 .. (m + 2)
        PROVE  RangeOf(q[k], n)
    <2>1. CASE k = 1 \/ k = 2
      BY <1>7, <2>1
    <2>2. CASE k # 1 /\ k # 2
      BY <1>8, <2>2 DEF Apart
    <2>3. QED
      BY <2>1, <2>2
  <1>10. ASSUME NEW k \in 1 .. (m + 2), NEW l \in 1 .. (k - 1)
         PROVE  q[l][2] < q[k][1]
    <2>1. l \in 1 .. (m + 2) /\ k # 1
      BY <1>10
    <2>2. CASE k = 2
      <3>1. l = 1
        BY <1>10, <2>2
      <3>2. QED
        BY <1>7, <2>2, <3>1
    <2>3. CASE k # 2 /\ (l = 1 \/ l = 2)
      <3>1. q[k] \in Open(rs)
        BY <1>8, <2>1, <2>3
      <3>2. QED
        BY <1>7, <2>3, <3>1
    <2>4. CASE k # 2 /\ l # 1 /\ l # 2
      <3>1. q[k] = rs[k - 2] /\ q[l] = rs[l - 2] /\ k - 2 \in 1 .. Len(rs) /\ l - 2 \in 1 .. Len(rs)
        BY <1>8, <2>1, <2>4
      <3>2. l - 2 \in 1 .. ((k - 2) - 1)
        BY <2>1, <2>4, <3>1
      <3>3. QED
        BY <3>1, <3>2 DEF Apart
    <2>5. QED
      BY <2>2, <2>3, <2>4
  <1>11. Apart(q, n)
    BY <1>6, <1>9, <1>10 DEF Apart
  <1>12. Open(q) = {x, y} \union Open(rs)
    <2>1. Open(q) \subseteq {x, y} \union Open(rs)
      <3>1. ASSUME NEW k \in 1 .. (m + 2)
            PROVE  q[k] \in {x, y} \union Open(rs)
        BY <1>7, <1>8
      <3>2. QED
        BY <1>6, <3>1 DEF Open
    <2>2. x \in Open(q) /\ y \in Open(q)
      <3>1. 1 \in 1 .. Len(q) /\ 2 \in 1 .. Len(q)
        BY <1>6
      <3>2. QED
        BY <1>7, <3>1 DEF Open
    <2>3. ASSUME NEW k \in 1 .. m
          PROVE  rs[k] \in Open(q)
      <3>1. k + 2 \in 1 .. (m + 2) /\ ~(k + 2 <= 2) /\ (k + 2) - 2 = k
        BY <1>2
      <3>2. q[k + 2] = rs[k]
        BY <1>6, <3>1
      <3>3. QED
        BY <1>6, <3>1, <3>2 DEF Open
    <2>4. Open(rs) \subseteq Open(q)
      BY <1>2, <2>3 DEF Open
    <2>5. QED
      BY <2>1, <2>2, <2>4
  <1>13. QED
    BY <1>3, <1>5, <1>11, <1>12

\* A range of two at most is left as it is.
LEMMA LeaveShort ==
  ASSUME NEW n \in Nat, NEW t, NEW h, RangeOf(h, n), h[2] - h[1] < 2, NEW open,
         \A r \in open : RangeOf(r, n) /\ h[2] < r[1],
         Ordered(t, n, {h} \union open)
  PROVE  Ordered(t, n, open)
  <1>0. h[1] \in Int /\ h[2] \in Int
    BY DEF RangeOf
  <1>1. ASSUME NEW i \in 1 .. n, NEW j \in 1 .. n, i < j,
               ~(t[i].point <= t[j].point),
               ~(\E r \in open : Within(i, r) /\ Within(j, r))
        PROVE  j = i + 1 /\ \A r \in open : ~Within(i, r) /\ ~Within(j, r)
    <2>1. CASE Within(i, h) /\ Within(j, h)
      <3>1. j = i + 1
        BY <1>0, <1>1, <2>1 DEF Within
      <3>2. ASSUME NEW r \in open
            PROVE  ~Within(i, r) /\ ~Within(j, r)
        <4>1. r[1] \in Int /\ h[2] < r[1]
          BY DEF RangeOf
        <4>2. QED
          BY <1>0, <2>1, <4>1 DEF Within
      <3>3. QED
        BY <3>1, <3>2
    <2>2. CASE ~(Within(i, h) /\ Within(j, h))
      <3>1. ~(\E r \in {h} \union open : Within(i, r) /\ Within(j, r))
        BY <1>1, <2>2
      <3>2. j = i + 1 /\ \A r \in {h} \union open : ~Within(i, r) /\ ~Within(j, r)
        BY <1>1, <3>1 DEF Ordered
      <3>3. QED
        BY <3>2
    <2>3. QED
      BY <2>1, <2>2
  <1>2. QED
    BY <1>1 DEF Ordered

\* A longer one is split at the pivot.
LEMMA SplitLong ==
  ASSUME BoundsAssumption, NEW n \in Nat, NEW t \in [1 .. n -> Entries],
         NEW a \in 1 .. n, NEW b \in a .. n, NEW s, Parted(s, t, n, a, b), NEW open,
         \A r \in open : RangeOf(r, n) /\ b < r[1],
         Ordered(t, n, {<<a, b>>} \union open)
  PROVE  Ordered(s.t, n, {<<a, s.pivot - 1>>, <<s.pivot + 1, b>>} \union open)
  <1>1. PICK u : u = s.t
    OBVIOUS
  <1>2. PICK v : v = s.pivot
    OBVIOUS
  <1>3. /\ u \in [1 .. n -> Entries] /\ v \in a .. b
        /\ \A j \in a .. (v - 1) : u[j].point <= u[v].point
        /\ \A j \in (v + 1) .. b : u[v].point <= u[j].point
        /\ \A j \in a .. b : \E l \in a .. b : u[j] = t[l]
        /\ \A j \in 1 .. n : j \notin a .. b => u[j] = t[j]
    BY <1>1, <1>2 DEF Parted
  <1>4. PICK x, y, h : x = <<a, v - 1>> /\ y = <<v + 1, b>> /\ h = <<a, b>>
    OBVIOUS
  <1>5. /\ \A i \in Int : Within(i, x) <=> i \in a .. (v - 1)
        /\ \A i \in Int : Within(i, y) <=> i \in (v + 1) .. b
        /\ \A i \in Int : Within(i, h) <=> i \in a .. b
    BY <1>3, <1>4 DEF Within
  <1>6. a .. b \subseteq 1 .. n /\ 1 .. n \subseteq Int
    OBVIOUS
  <1>7. \A j \in 1 .. n : u[j].point \in Int /\ t[j].point \in Int
    BY <1>3, PointOf
  <1>8. \A i \in a .. b : \A r \in open : ~Within(i, r)
    <2>1. ASSUME NEW i \in a .. b, NEW r \in open
          PROVE  ~Within(i, r)
      <3>1. r[1] \in Int /\ b < r[1]
        BY DEF RangeOf
      <3>2. QED
        BY <3>1 DEF Within
    <2>2. QED
      BY <2>1
  <1>9. ASSUME NEW i \in a .. b, NEW j \in 1 .. n, j \notin a .. b
        PROVE  /\ i < j => t[i].point <= t[j].point
               /\ j < i => t[j].point <= t[i].point
    <2>1. \A r \in open : ~Within(i, r)
      BY <1>8
    <2>2. Within(i, h) /\ ~Within(j, h)
      BY <1>5, <1>6, <1>9
    <2>3. ~(\E r \in {h} \union open : Within(i, r) /\ Within(j, r))
      BY <2>1, <2>2
    <2>4. h \in {h} \union open
      OBVIOUS
    <2>5. Ordered(t, n, {h} \union open)
      BY <1>4
    <2>6. i \in 1 .. n
      BY <1>6
    <2>7. i < j => t[i].point <= t[j].point
      BY <2>2, <2>3, <2>4, <2>5, <2>6 DEF Ordered
    <2>8. j < i => t[j].point <= t[i].point
      BY <2>2, <2>3, <2>4, <2>5, <2>6 DEF Ordered
    <2>9. QED
      BY <2>7, <2>8
  <1>10. ASSUME NEW i \in 1 .. n, NEW j \in 1 .. n, i < j,
                ~(u[i].point <= u[j].point),
                ~(\E r \in {x, y} \union open : Within(i, r) /\ Within(j, r))
         PROVE  j = i + 1 /\ \A r \in {x, y} \union open : ~Within(i, r) /\ ~Within(j, r)
    <2>1. CASE i \in a .. b /\ j \in a .. b
      <3>1. ~(Within(i, x) /\ Within(j, x)) /\ ~(Within(i, y) /\ Within(j, y))
        BY <1>10
      <3>2. ~(j <= v - 1) /\ ~(i >= v + 1)
        BY <1>3, <1>5, <1>6, <1>10, <2>1, <3>1
      <3>3. i = v \/ i \in a .. (v - 1)
        BY <1>3, <2>1, <3>2
      <3>4. j = v \/ j \in (v + 1) .. b
        BY <1>3, <2>1, <3>2
      <3>5. v \in 1 .. n /\ u[v].point \in Int /\ u[i].point \in Int /\ u[j].point \in Int
        BY <1>3, <1>6, <1>7
      <3>6. u[i].point <= u[v].point
        BY <1>3, <3>3, <3>5
      <3>7. u[v].point <= u[j].point
        BY <1>3, <3>4, <3>5
      <3>8. u[i].point <= u[j].point
        BY <3>5, <3>6, <3>7
      <3>9. QED
        BY <1>10, <3>8
    <2>2. CASE i \in a .. b /\ j \notin a .. b
      <3>1. u[j] = t[j]
        BY <1>3, <2>2
      <3>2. PICK l \in a .. b : u[i] = t[l]
        BY <1>3, <2>2
      <3>3. l < j
        BY <1>10, <2>2
      <3>4. t[l].point <= t[j].point
        BY <1>9, <2>2, <3>3
      <3>5. QED
        BY <1>10, <3>1, <3>2, <3>4
    <2>3. CASE i \notin a .. b /\ j \in a .. b
      <3>1. u[i] = t[i]
        BY <1>3, <2>3
      <3>2. PICK l \in a .. b : u[j] = t[l]
        BY <1>3, <2>3
      <3>3. i < l
        BY <1>10, <2>3
      <3>4. t[i].point <= t[l].point
        BY <1>9, <2>3, <3>3
      <3>5. QED
        BY <1>10, <3>1, <3>2, <3>4
    <2>4. CASE i \notin a .. b /\ j \notin a .. b
      <3>1. u[i] = t[i] /\ u[j] = t[j]
        BY <1>3, <2>4
      <3>2. ~Within(i, h) /\ ~Within(j, h) /\ ~Within(i, x) /\ ~Within(j, x)
            /\ ~Within(i, y) /\ ~Within(j, y)
        <4>1. ~Within(i, h) /\ ~Within(j, h)
          BY <1>5, <1>6, <2>4
        <4>2. i \notin a .. (v - 1) /\ i \notin (v + 1) .. b
              /\ j \notin a .. (v - 1) /\ j \notin (v + 1) .. b
          BY <1>3, <2>4
        <4>3. QED
          BY <1>5, <1>6, <4>1, <4>2
      <3>3. ~(\E r \in {h} \union open : Within(i, r) /\ Within(j, r))
        BY <1>10, <3>2
      <3>4. Ordered(t, n, {h} \union open)
        BY <1>4
      <3>5. j = i + 1 /\ \A r \in {h} \union open : ~Within(i, r) /\ ~Within(j, r)
        BY <1>10, <3>1, <3>3, <3>4 DEF Ordered
      <3>6. QED
        BY <3>2, <3>5
    <2>5. QED
      BY <2>1, <2>2, <2>3, <2>4
  <1>11. Ordered(u, n, {x, y} \union open)
    BY <1>10 DEF Ordered
  <1>12. QED
    BY <1>1, <1>2, <1>4, <1>11

-----------------------------------------------------------------------------
(* The points of a peer. *)

\* Products and quotients.
LEMMA Times ==
  ASSUME NEW q \in Nat, NEW a \in Int, NEW b \in Int, a <= b
  PROVE  q * a <= q * b
  OBVIOUS

\* Division has one result.
LEMMA Divides ==
  ASSUME NEW q \in Nat \ {0}, NEW n \in Int, NEW d \in Int, NEW e \in 0 .. q - 1, n = q * d + e
  PROVE  n \div q = d /\ n % q = e
  OBVIOUS

\* The peer of point i, and its place among the points of that peer.
PeerAt(q, i) == ((i - 1) \div q) + 1
PlaceAt(q, i) == ((i - 1) % q) + 1

\* The points of a peer stand together before the sort: the peer of point i.
LEMMA PeerOfPoint ==
  ASSUME NEW q \in Nat \ {0}, NEW m \in Nat, NEW i \in 1 .. m * q
  PROVE  \E j \in 1 .. m, r \in 1 .. q :
           i = (q * j - q) + r /\ PeerAt(q, i) = j /\ PlaceAt(q, i) = r
  <1>1. PICK d \in Int, e \in Int :
          d = (i - 1) \div q /\ e = (i - 1) % q /\ i - 1 = q * d + e /\ e \in 0 .. q - 1
    <2>1. m * q \in Int
      OBVIOUS
    <2>2. i \in Int
      BY <2>1
    <2>3. (i - 1) \div q \in Int /\ (i - 1) % q \in 0 .. q - 1
          /\ i - 1 = q * ((i - 1) \div q) + ((i - 1) % q)
      BY <2>2
    <2>4. QED
      BY <2>3
  <1>2. i \in Int /\ 1 <= i /\ i <= m * q /\ m * q = q * m
    <2>1. m * q \in Int /\ m * q = q * m
      OBVIOUS
    <2>2. QED
      BY <2>1
  <1>3. 0 <= d
    <2>1. SUFFICES ASSUME d <= -1 PROVE FALSE
      BY <1>1
    <2>2. q * d <= q * (-1)
      BY <1>1, <2>1, Times
    <2>3. PICK x \in Int : x = q * d
      BY <1>1
    <2>4. q * (-1) = -q
      OBVIOUS
    <2>5. QED
      BY <1>1, <1>2, <2>2, <2>3, <2>4
  <1>4. d <= m - 1
    <2>1. SUFFICES ASSUME m <= d PROVE FALSE
      BY <1>1
    <2>2. q * m <= q * d
      BY <1>1, <2>1, Times
    <2>3. PICK x \in Int, y \in Int : x = q * d /\ y = q * m
      BY <1>1
    <2>4. QED
      BY <1>1, <1>2, <2>2, <2>3
  <1>5. PICK j \in 1 .. m, r \in 1 .. q : j = d + 1 /\ r = e + 1
    <2>1. d + 1 \in 1 .. m
      BY <1>3, <1>4
    <2>2. e + 1 \in 1 .. q
      BY <1>1
    <2>3. QED
      BY <2>1, <2>2
  <1>6. q * j - q = q * d
    <2>1. q * (d + 1) = q * d + q
      BY <1>1
    <2>2. PICK x \in Int : x = q * d
      BY <1>1
    <2>3. QED
      BY <1>5, <2>1, <2>2
  <1>7. PICK x \in Int : x = q * d
    BY <1>1
  <1>8. i = (q * j - q) + r
    BY <1>1, <1>2, <1>5, <1>6, <1>7
  <1>9. PeerAt(q, i) = j /\ PlaceAt(q, i) = r
    BY <1>1, <1>5 DEF PeerAt, PlaceAt
  <1>10. QED
    BY <1>8, <1>9

\* Point r of peer j.
PointAt(q, j, r) == (q * j - q) + r

\* Every place among the points of a peer is taken.
LEMMA PointOfPeer ==
  ASSUME NEW q \in Nat \ {0}, NEW m \in Nat, NEW j \in 1 .. m, NEW r \in 1 .. q
  PROVE  /\ PointAt(q, j, r) \in 1 .. m * q
         /\ PeerAt(q, PointAt(q, j, r)) = j
         /\ PlaceAt(q, PointAt(q, j, r)) = r
  <1>0. PICK i : i = PointAt(q, j, r)
    OBVIOUS
  <1>1. PICK x \in Int, y \in Int : x = q * j /\ y = q * m /\ x <= y /\ q <= x /\ m * q = y
    <2>1. q * j \in Int /\ q * m \in Int /\ m * q = q * m
      OBVIOUS
    <2>2. q * j <= q * m /\ q * 1 <= q * j
      BY Times
    <2>3. q * 1 = q
      OBVIOUS
    <2>4. QED
      BY <2>1, <2>2, <2>3
  <1>2. i \in Int /\ i = (x - q) + r
    BY <1>0, <1>1 DEF PointAt
  <1>3. i \in 1 .. m * q
    BY <1>1, <1>2
  <1>4. PICK d \in Int, e \in 0 .. q - 1 : d = j - 1 /\ e = r - 1
    OBVIOUS
  <1>5. i - 1 = q * d + e
    <2>1. q * (j - 1) = q * j - q
      OBVIOUS
    <2>2. q * d = x - q
      BY <1>1, <1>4, <2>1
    <2>3. PICK z \in Int : z = q * d
      BY <1>4
    <2>4. QED
      BY <1>2, <1>4, <2>2, <2>3
  <1>6. (i - 1) \div q = d /\ (i - 1) % q = e
    <2>1. i - 1 \in Int /\ d \in Int /\ e \in 0 .. q - 1
      BY <1>2, <1>4
    <2>2. QED
      BY <1>5, <2>1, Divides
  <1>7. PeerAt(q, i) = j /\ PlaceAt(q, i) = r
    BY <1>4, <1>6 DEF PeerAt, PlaceAt
  <1>8. QED
    BY <1>0, <1>3, <1>7

\* The continuum before the sort.
PeerByPeer(t, ps, q, m) == \A i \in 1 .. m * q : t[i].peer = ps[PeerAt(q, i)]

\* chash_init gives every peer as many points as its place in HASH_PEERS.
LEMMA FirstShares ==
  ASSUME NEW q \in Nat \ {0}, NEW m \in Nat, NEW ps, NEW t, PeerByPeer(t, ps, q, m), NEW p
  PROVE  Cardinality(At(t, m * q, p)) = q * Cardinality({j \in 1 .. m : ps[j] = p})
  <1> DEFINE A == At(t, m * q, p)
             J == {j \in 1 .. m : ps[j] = p}
  <1>1. PICK g : g = [i \in A |-> <<PeerAt(q, i), PlaceAt(q, i)>>]
    OBVIOUS
  <1>2. ASSUME NEW i \in A
        PROVE  g[i] \in J \X (1 .. q) /\ i = (q * g[i][1] - q) + g[i][2]
    <2>1. i \in 1 .. m * q /\ t[i].peer = p
      BY DEF At
    <2>2. PICK j \in 1 .. m, r \in 1 .. q :
            i = (q * j - q) + r /\ PeerAt(q, i) = j /\ PlaceAt(q, i) = r
      BY <2>1, PeerOfPoint
    <2>3. g[i] = <<j, r>>
      BY <1>1, <2>2
    <2>4. ps[j] = p
      BY <2>1, <2>2 DEF PeerByPeer
    <2>5. QED
      BY <2>2, <2>3, <2>4
  <1>3. g \in [A -> J \X (1 .. q)]
    BY <1>1, <1>2
  <1>4. \A a, b \in A : g[a] = g[b] => a = b
    BY <1>2
  <1>5. ASSUME NEW z \in J \X (1 .. q)
        PROVE  \E i \in A : g[i] = z
    <2>1. PICK j \in 1 .. m, r \in 1 .. q : z = <<j, r>> /\ ps[j] = p
      OBVIOUS
    <2>2. j \in 1 .. m /\ r \in 1 .. q
      BY <2>1
    <2>3. PICK i \in 1 .. m * q : PeerAt(q, i) = j /\ PlaceAt(q, i) = r
      <3>1. /\ PointAt(q, j, r) \in 1 .. m * q
            /\ PeerAt(q, PointAt(q, j, r)) = j
            /\ PlaceAt(q, PointAt(q, j, r)) = r
        BY <2>2, PointOfPeer
      <3>2. QED
        BY <3>1
    <2>4. i \in A
      BY <2>1, <2>3 DEF At, PeerByPeer
    <2>5. g[i] = z
      BY <1>1, <2>1, <2>3, <2>4
    <2>6. QED
      BY <2>4, <2>5
  <1>6. IsFiniteSet(A)
    <2>1. m * q \in Int /\ 1 \in Int
      OBVIOUS
    <2>2. IsFiniteSet(1 .. m * q)
      BY <2>1, FS_Interval
    <2>3. A \subseteq 1 .. m * q
      BY DEF At
    <2>4. QED
      BY <2>2, <2>3, FS_Subset
  <1>7. IsFiniteSet(J)
    <2>1. IsFiniteSet(1 .. m)
      BY FS_Interval
    <2>2. J \subseteq 1 .. m
      OBVIOUS
    <2>3. QED
      BY <2>1, <2>2, FS_Subset
  <1>8. IsFiniteSet(1 .. q) /\ Cardinality(1 .. q) = q
    BY FS_Interval
  <1> HIDE DEF A, J
  <1>9. g \in Bijection(A, J \X (1 .. q))
    BY <1>3, <1>4, <1>5, Fun_IsBij
  <1>10. Cardinality(J \X (1 .. q)) = Cardinality(A)
    BY <1>6, <1>9, FS_Bijection DEF ExistsBijection
  <1>11. Cardinality(J \X (1 .. q)) = Cardinality(J) * q
    <2>1. Cardinality(J \X (1 .. q)) = Cardinality(J) * Cardinality(1 .. q)
      BY <1>7, <1>8, FS_Product
    <2>2. QED
      BY <1>8, <2>1
  <1>12. Cardinality(J) \in Nat
    BY <1>7, FS_CardinalityType
  <1>13. Cardinality(J) * q = q * Cardinality(J)
    BY <1>12
  <1>14. QED
    BY <1>10, <1>11, <1>13 DEF A, J

-----------------------------------------------------------------------------
(* The invariant, and the bisection. *)

\* All points of all peers.
Total == Len(peers) * ppn

\* The continuum is there, and every peer has its share of it.
Built ==
  /\ peers # <<>>
  /\ continuum \in [1 .. Total -> Entries]
  /\ \A p \in Peers : Cardinality(At(continuum, Total, p))
                        = ppn * Cardinality({j \in 1 .. Len(peers) : peers[j] = p})

\* Position k is the first of a point not below x, going round at the end.
First(t, n, x, k) ==
  LET above == {i \in 1 .. n : t[i].point >= x}
  IN  IF above = {} THEN k = 1 ELSE k \in above /\ \A j \in above : k <= j

\* No entry is greater than the next.
Ascends(t, n) == \A i \in 1 .. (n - 1) : t[i].point <= t[i + 1].point

\* What chash_find knows of the half it is in.
Between(t, n, x, l, h) ==
  /\ l \in 1 .. n /\ h \in l .. n
  /\ l = 1 \/ t[l - 1].point < x
  /\ (l = 1 /\ h = n) \/ x <= t[h].point

\* The inductive invariant.
LuaInv ==
  /\ peers \in Seq(Peers) /\ Len(peers) <= MaxPeers
  /\ initialized \in BOOLEAN /\ lpc \in {"idle", "sort", "find"} /\ buckets \in Seq(Int)
  /\ lpc # "idle" => ~initialized
  /\ lpc # "idle" \/ initialized => Built
  /\ lpc = "sort" => /\ Apart(ranges, Total) /\ Ordered(continuum, Total, Open(ranges))
                    /\ buckets = <<>>
  /\ lpc = "find" \/ initialized =>
       /\ Ordered(continuum, Total, {})
       /\ Ascends(continuum, Total) =>
            \A i \in 1 .. Len(buckets) : First(continuum, Total, BucketPoint(i), buckets[i])
  /\ lpc = "find" =>
       /\ Len(buckets) < Buckets
       /\ Between(continuum, Total, BucketPoint(Len(buckets) + 1), lo, hi)
  /\ initialized => Len(buckets) = Buckets
  /\ \A i \in 1 .. Len(buckets) : buckets[i] \in DOMAIN continuum

\* A product of positive numbers is no smaller than they.
LEMMA MulAtLeast ==
  ASSUME NEW m \in Nat \ {0}, NEW q \in Nat \ {0}
  PROVE  m * q >= m
  <1>1. m * 1 <= m * q
    BY Times
  <1>2. m * 1 = m
    OBVIOUS
  <1>3. QED
    BY <1>1, <1>2

\* There is a point for every peer.
LEMMA SharePerPeer ==
  ASSUME BoundsAssumption, peers \in Seq(Peers), peers # <<>>
  PROVE  Len(peers) \in Nat \ {0} /\ ppn \in Nat \ {0} /\ Total \in Nat \ {0}
  <1>1. Len(peers) \in Nat \ {0}
    BY LenProperties, EmptySeq
  <1>2. PICK m \in Nat \ {0} : m = Len(peers)
    BY <1>1
  <1>3. Buckets \div m \in Nat
    BY DEF BoundsAssumption
  <1>4. ppn = IF Buckets \div m = 0 THEN 1 ELSE Buckets \div m
    BY <1>2 DEF ppn
  <1>5. ppn \in Nat \ {0}
    BY <1>3, <1>4
  <1>6. PICK q \in Nat \ {0} : q = ppn
    BY <1>5
  <1>7. m * q \in Nat \ {0}
    <2>1. m * q >= m
      BY MulAtLeast
    <2>2. m * q \in Int
      OBVIOUS
    <2>3. QED
      BY <2>1, <2>2
  <1>8. QED
    BY <1>1, <1>2, <1>5, <1>6, <1>7 DEF Total

\* The point of a bucket is a number.
LEMMA PointsOfBuckets ==
  ASSUME BoundsAssumption, NEW i \in Nat
  PROVE  BucketPoint(i) \in Int
  <1>1. PICK d \in Int : d = MaxPoint \div Buckets
    BY DEF BoundsAssumption
  <1>2. d * (i - 1) \in Int
    OBVIOUS
  <1>3. QED
    BY <1>1, <1>2 DEF BucketPoint

\* Points that are nearly in order and never descend to a neighbour are in order.
LEMMA AllAscend ==
  ASSUME NEW n \in Nat, NEW t, Ordered(t, n, {}), Ascends(t, n),
         NEW i \in 1 .. n, NEW j \in 1 .. n, i < j
  PROVE  t[i].point <= t[j].point
  <1>1. CASE j = i + 1
    <2>1. i \in 1 .. (n - 1)
      BY <1>1
    <2>2. QED
      BY <1>1, <2>1 DEF Ascends
  <1>2. CASE j # i + 1
    BY <1>2 DEF Ordered
  <1>3. QED
    BY <1>1, <1>2

\* A position with a smaller point in front of it is the first.
LEMMA FirstAt ==
  ASSUME BoundsAssumption, NEW n \in Nat, NEW t \in [1 .. n -> Entries], Ordered(t, n, {}),
         Ascends(t, n), NEW x \in Int, NEW k \in 1 .. n, x <= t[k].point,
         k = 1 \/ t[k - 1].point < x
  PROVE  First(t, n, x, k)
  <1> DEFINE above == {i \in 1 .. n : t[i].point >= x}
  <1>1. k \in above
    BY PointOf
  <1>2. ASSUME NEW j \in above, j < k
        PROVE  FALSE
    <2>1. j \in 1 .. n /\ k - 1 \in 1 .. n /\ t[k - 1].point < x /\ t[j].point >= x
      BY <1>2
    <2>2. t[j].point \in Int /\ t[k - 1].point \in Int
      BY <2>1, PointOf
    <2>3. CASE j = k - 1
      BY <2>1, <2>2, <2>3
    <2>4. CASE j < k - 1
      <3>1. t[j].point <= t[k - 1].point
        BY <2>1, <2>4, AllAscend
      <3>2. QED
        BY <2>1, <2>2, <3>1
    <2>5. QED
      BY <1>2, <2>3, <2>4
  <1>3. \A j \in above : k <= j
    BY <1>2
  <1>4. QED
    BY <1>1, <1>3 DEF First

\* Nothing is above the last point.
LEMMA FirstAround ==
  ASSUME BoundsAssumption, NEW n \in Nat \ {0}, NEW t \in [1 .. n -> Entries], Ordered(t, n, {}),
         Ascends(t, n), NEW x \in Int, t[n].point < x
  PROVE  First(t, n, x, 1)
  <1>1. ASSUME NEW j \in 1 .. n, t[j].point >= x
        PROVE  FALSE
    <2>1. t[j].point \in Int /\ t[n].point \in Int /\ n \in 1 .. n
      BY PointOf
    <2>2. CASE j = n
      BY <1>1, <2>1, <2>2
    <2>3. CASE j < n
      <3>1. t[j].point <= t[n].point
        BY <2>1, <2>3, AllAscend
      <3>2. QED
        BY <1>1, <2>1, <3>1
    <2>4. QED
      BY <2>2, <2>3
  <1>2. {i \in 1 .. n : t[i].point >= x} = {}
    BY <1>1
  <1>3. QED
    BY <1>2 DEF First

\* The middle of a half with more than one position is not its end.
Halves(l, h, mid) == l < h => l <= mid /\ mid < h

\* The middle as chash_find takes it.
LEMMA Middle ==
  ASSUME NEW l \in Nat, NEW h \in Nat
  PROVE  (l + h) \div 2 \in Int /\ Halves(l, h, (l + h) \div 2)
  BY DEF Halves

\* One iteration of chash_find: it returns the right position or goes on in a
\* half that has it.
LEMMA Bisects ==
  ASSUME BoundsAssumption, NEW n \in Nat, NEW t \in [1 .. n -> Entries], Ordered(t, n, {}),
         NEW x \in Int, NEW l, NEW h, Between(t, n, x, l, h), NEW mid \in Int, Halves(l, h, mid)
  PROVE  /\ x <= t[l].point \/ x > t[h].point => (Ascends(t, n) => First(t, n, x, l))
         /\ ~(x <= t[l].point \/ x > t[h].point) =>
              /\ mid \in 1 .. n
              /\ x <= t[mid].point /\ x > t[mid - 1].point
                   => (Ascends(t, n) => First(t, n, x, mid))
              /\ ~(x <= t[mid].point /\ x > t[mid - 1].point) =>
                   IF t[mid].point < x THEN Between(t, n, x, mid + 1, h)
                   ELSE Between(t, n, x, l, mid - 1)
  <1>1. l \in 1 .. n /\ h \in l .. n /\ l \in Nat /\ h \in Nat /\ h \in 1 .. n /\ n \in Nat \ {0}
    BY DEF Between
  <1>2. l = 1 \/ t[l - 1].point < x
    BY DEF Between
  <1>3. (l = 1 /\ h = n) \/ x <= t[h].point
    BY DEF Between
  <1>4. \A i \in 1 .. n : t[i].point \in Int
    BY PointOf
  <1>5. ASSUME x <= t[l].point \/ x > t[h].point, Ascends(t, n)
        PROVE  First(t, n, x, l)
    <2>1. CASE x <= t[l].point
      BY <1>1, <1>2, <1>5, <2>1, FirstAt
    <2>2. CASE x > t[h].point
      <3>1. l = 1 /\ h = n
        BY <1>1, <1>3, <1>4, <2>2
      <3>2. t[n].point < x
        BY <1>1, <1>4, <2>2, <3>1
      <3>3. First(t, n, x, 1)
        BY <1>1, <1>5, <3>2, FirstAround
      <3>4. QED
        BY <3>1, <3>3
    <2>3. QED
      BY <1>5, <2>1, <2>2
  <1>6. ASSUME ~(x <= t[l].point \/ x > t[h].point)
        PROVE  /\ mid \in 1 .. n
               /\ x <= t[mid].point /\ x > t[mid - 1].point
                    => (Ascends(t, n) => First(t, n, x, mid))
               /\ ~(x <= t[mid].point /\ x > t[mid - 1].point) =>
                    IF t[mid].point < x THEN Between(t, n, x, mid + 1, h)
                    ELSE Between(t, n, x, l, mid - 1)
    <2>1. t[l].point < x /\ x <= t[h].point /\ l < h
      BY <1>1, <1>4, <1>6
    <2>2. mid \in Nat /\ l <= mid /\ mid < h
      BY <1>1, <2>1 DEF Halves
    <2>3. mid \in 1 .. n /\ mid + 1 \in 1 .. n /\ h \in (mid + 1) .. n
      BY <1>1, <2>2
    <2>4. ASSUME x <= t[mid].point, x > t[mid - 1].point, Ascends(t, n)
          PROVE  First(t, n, x, mid)
      <3>1. mid # l
        <4>1. t[mid].point \in Int /\ t[l].point \in Int
          BY <1>1, <1>4, <2>3
        <4>2. t[mid].point # t[l].point
          BY <2>1, <2>4, <4>1
        <4>3. QED
          BY <4>2
      <3>2. mid - 1 \in 1 .. n
        BY <1>1, <2>2, <2>3, <3>1
      <3>3. t[mid - 1].point < x
        BY <1>4, <2>4, <3>2
      <3>4. QED
        BY <2>3, <2>4, <3>3, FirstAt
    <2>5. ASSUME t[mid].point < x
          PROVE  Between(t, n, x, mid + 1, h)
      <3>1. (mid + 1) - 1 = mid
        BY <2>2
      <3>2. QED
        BY <2>1, <2>3, <2>5, <3>1 DEF Between
    <2>6. ASSUME ~(t[mid].point < x), ~(x <= t[mid].point /\ x > t[mid - 1].point)
          PROVE  Between(t, n, x, l, mid - 1)
      <3>1. x <= t[mid].point
        BY <1>4, <2>3, <2>6
      <3>2. mid # l
        <4>1. t[mid].point \in Int /\ t[l].point \in Int
          BY <1>1, <1>4, <2>3
        <4>2. t[mid].point # t[l].point
          BY <2>1, <3>1, <4>1
        <4>3. QED
          BY <4>2
      <3>3. mid - 1 \in l .. n /\ mid - 1 \in 1 .. n
        BY <1>1, <2>2, <2>3, <3>2
      <3>4. x <= t[mid - 1].point
        BY <1>4, <2>6, <3>1, <3>3
      <3>5. QED
        BY <1>1, <1>2, <3>3, <3>4 DEF Between
    <2>7. QED
      BY <2>3, <2>4, <2>5, <2>6
  <1>7. QED
    BY <1>5, <1>6

-----------------------------------------------------------------------------
(* The steps. *)

\* Every point has a peer.
LEMMA PeerInRange ==
  ASSUME NEW q \in Nat \ {0}, NEW m \in Nat, NEW i \in 1 .. m * q
  PROVE  PeerAt(q, i) \in 1 .. m
  <1>1. PICK j \in 1 .. m, r \in 1 .. q :
          i = (q * j - q) + r /\ PeerAt(q, i) = j /\ PlaceAt(q, i) = r
    BY PeerOfPoint
  <1>2. QED
    BY <1>1

\* The module as it is loaded.
LEMMA InitLuaInv ==
  ASSUME BoundsAssumption
  PROVE  LuaInit => LuaInv
  <1>1. SUFFICES ASSUME LuaInit PROVE LuaInv
    OBVIOUS
  <1>2. peers = <<>> /\ initialized = FALSE /\ lpc = "idle" /\ continuum = <<>> /\ ranges = <<>>
        /\ buckets = <<>>
    BY <1>1 DEF LuaInit
  <1>3. <<>> \in Seq(Peers) /\ <<>> \in Seq(Int) /\ Len(<<>>) = 0 /\ 1 .. 0 = {}
    OBVIOUS
  <1>4. Len(peers) <= MaxPeers
    BY <1>2, <1>3 DEF BoundsAssumption
  <1>5. QED
    BY <1>2, <1>3, <1>4 DEF LuaInv

\* A new peer outdates the table.
LEMMA AddLuaInv ==
  ASSUME BoundsAssumption, LuaInv, NEW p \in Peers, chash_add_upstream(p)
  PROVE  LuaInv'
  <1>1. lpc = "idle" /\ Len(peers) < MaxPeers /\ peers' = Append(peers, p) /\ initialized' = FALSE
        /\ lpc' = lpc /\ continuum' = continuum /\ buckets' = buckets
    BY DEF chash_add_upstream
  <1>2. peers \in Seq(Peers) /\ buckets \in Seq(Int)
        /\ \A i \in 1 .. Len(buckets) : buckets[i] \in DOMAIN continuum
    BY DEF LuaInv
  <1>3. peers' \in Seq(Peers) /\ Len(peers') = Len(peers) + 1 /\ Len(peers) \in Nat
    BY <1>1, <1>2, AppendProperties, LenProperties
  <1>4. Len(peers') <= MaxPeers
    BY <1>1, <1>3 DEF BoundsAssumption
  <1>5. QED
    BY <1>1, <1>2, <1>3, <1>4 DEF LuaInv

\* chash_init.
LEMMA InitStepLuaInv ==
  ASSUME BoundsAssumption, LuaInv, chash_init
  PROVE  LuaInv'
  <1>1. /\ lpc = "idle" /\ peers # <<>> /\ initialized = FALSE
        /\ ranges' = << <<1, Total>> >> /\ buckets' = <<>> /\ lpc' = "sort"
        /\ peers' = peers /\ initialized' = initialized
    BY DEF chash_init, LuaInv, Total
  <1>2. PICK f \in [1 .. Total -> 0 .. MaxPoint] :
          continuum' = [i \in DOMAIN f |-> Entry(peers[((i - 1) \div ppn) + 1], f[i])]
    BY DEF chash_init, Total
  <1>3. peers \in Seq(Peers) /\ Len(peers) <= MaxPeers
    BY DEF LuaInv
  <1>4. PICK m \in Nat \ {0}, q \in Nat \ {0}, n \in Nat \ {0} :
          m = Len(peers) /\ q = ppn /\ n = Total /\ n = m * q
    <2>1. Len(peers) \in Nat \ {0} /\ ppn \in Nat \ {0} /\ Total \in Nat \ {0}
      BY <1>1, <1>3, SharePerPeer
    <2>2. QED
      BY <2>1 DEF Total
  <1>5. PICK t : t = continuum'
    OBVIOUS
  <1>6. DOMAIN f = 1 .. n /\ t = [i \in 1 .. n |-> Entry(peers[PeerAt(q, i)], f[i])]
    BY <1>2, <1>4, <1>5 DEF PeerAt
  <1>7. ASSUME NEW i \in 1 .. n
        PROVE  t[i] \in Entries /\ t[i].peer = peers[PeerAt(q, i)]
    <2>1. PeerAt(q, i) \in 1 .. m
      <3>1. i \in 1 .. m * q
        BY <1>4
      <3>2. QED
        BY <3>1, PeerInRange
    <2>2. peers[PeerAt(q, i)] \in Peers
      BY <1>3, <1>4, <2>1, ElementOfSeq
    <2>3. f[i] \in 0 .. MaxPoint
      BY <1>2, <1>4
    <2>4. t[i] = Entry(peers[PeerAt(q, i)], f[i])
      BY <1>6
    <2>5. QED
      BY <2>2, <2>3, <2>4 DEF Entry, Entries
  <1>8. t \in [1 .. n -> Entries]
    BY <1>6, <1>7
  <1>9. PeerByPeer(t, peers, q, m)
    BY <1>4, <1>7 DEF PeerByPeer
  <1>10. \A p : Cardinality(At(t, n, p)) = q * Cardinality({j \in 1 .. m : peers[j] = p})
    <2>1. \A p : Cardinality(At(t, m * q, p)) = q * Cardinality({j \in 1 .. m : peers[j] = p})
      BY <1>9, FirstShares
    <2>2. QED
      BY <1>4, <2>1
  <1>11. Total' = n /\ ppn' = q
    BY <1>1, <1>4 DEF Total, ppn
  <1>12. Built'
    BY <1>1, <1>4, <1>5, <1>8, <1>10, <1>11 DEF Built
  <1>13. Apart(ranges', n) /\ Open(ranges') = {<<1, n>>}
    <2>1. PICK rs : rs = << <<1, n>> >>
      OBVIOUS
    <2>2. Len(rs) = 1 /\ rs[1] = <<1, n>> /\ 1 .. 1 = {1} /\ rs \in Seq(Int \X Int)
      BY <2>1
    <2>3. RangeOf(<<1, n>>, n)
      BY DEF RangeOf
    <2>4. \A k \in 1 .. Len(rs) : k = 1 /\ 1 .. (k - 1) = {}
      BY <2>2
    <2>5. Apart(rs, n)
      BY <2>2, <2>3, <2>4 DEF Apart
    <2>6. Open(rs) = {<<1, n>>}
      <3>1. 1 .. Len(rs) = {1}
        BY <2>2
      <3>2. Open(rs) = {rs[k] : k \in {1}}
        BY <3>1 DEF Open
      <3>3. {rs[k] : k \in {1}} = {rs[1]}
        OBVIOUS
      <3>4. rs[1] = <<1, n>>
        BY <2>2
      <3>5. QED
        BY <3>2, <3>3, <3>4, Zenon
    <2>7. QED
      BY <1>1, <1>4, <2>1, <2>5, <2>6
  <1>14. Ordered(t, n, {<<1, n>>})
    BY DEF Ordered, Within
  <1>15. buckets' \in Seq(Int) /\ Len(buckets') = 0 /\ 1 .. 0 = {}
    BY <1>1
  <1>16. QED
    BY <1>1, <1>3, <1>5, <1>11, <1>12, <1>13, <1>14, <1>15 DEF LuaInv

\* A call of quicksort.
LEMMA SortLuaInv ==
  ASSUME BoundsAssumption, LuaInv, quicksort
  PROVE  LuaInv'
  <1>1. /\ lpc = "sort" /\ ranges # <<>> /\ peers' = peers /\ initialized' = initialized
        /\ lpc' = lpc /\ buckets' = buckets
    BY DEF quicksort
  <1>2. /\ peers \in Seq(Peers) /\ Len(peers) <= MaxPeers /\ initialized = FALSE /\ buckets = <<>>
        /\ Built /\ Apart(ranges, Total) /\ Ordered(continuum, Total, Open(ranges))
    BY <1>1 DEF LuaInv
  <1>3. PICK n \in Nat \ {0} : n = Total
    BY <1>2, SharePerPeer DEF Built
  <1>4. PICK t \in [1 .. n -> Entries] : t = continuum
    BY <1>2, <1>3 DEF Built
  <1>5. PICK a, b, rest : a = Head(ranges)[1] /\ b = Head(ranges)[2] /\ rest = Tail(ranges)
    OBVIOUS
  <1>6. /\ Apart(rest, n) /\ RangeOf(Head(ranges), n)
        /\ \A r \in Open(rest) : RangeOf(r, n) /\ Head(ranges)[2] < r[1]
        /\ Open(ranges) = {Head(ranges)} \union Open(rest)
    BY <1>1, <1>2, <1>3, <1>5, RestApart
  <1>7. Head(ranges) = <<a, b>> /\ a \in Int /\ b \in Int /\ 1 <= a /\ a <= b + 1 /\ b <= n
    BY <1>5, <1>6 DEF RangeOf
  <1>8. Ordered(t, n, {<<a, b>>} \union Open(rest))
    BY <1>2, <1>3, <1>4, <1>6, <1>7
  <1>9. \A r \in Open(rest) : RangeOf(r, n) /\ b < r[1]
    BY <1>5, <1>6
  <1>10. Total' = n /\ ppn' = ppn
    BY <1>1, <1>3 DEF Total, ppn
  <1>11. buckets' = <<>> /\ <<>> \in Seq(Int) /\ 1 .. Len(<<>>) = {}
    BY <1>1, <1>2
  <1>12. SUFFICES /\ continuum' \in [1 .. n -> Entries]
                  /\ \A p : Cardinality(At(continuum', n, p)) = Cardinality(At(t, n, p))
                  /\ Apart(ranges', n)
                  /\ Ordered(continuum', n, Open(ranges'))
    <2>1. ASSUME /\ continuum' \in [1 .. n -> Entries]
                 /\ \A p : Cardinality(At(continuum', n, p)) = Cardinality(At(t, n, p))
          PROVE  Built'
      BY <1>1, <1>2, <1>3, <1>4, <1>10, <2>1 DEF Built
    <2>2. QED
      BY <1>1, <1>2, <1>10, <1>11, <2>1 DEF LuaInv
  <1>13. CASE b - a < 2
    <2>1. ranges' = rest /\ continuum' = t
      BY <1>4, <1>5, <1>13 DEF quicksort
    <2>2. PICK h : h = <<a, b>>
      OBVIOUS
    <2>3. RangeOf(h, n) /\ h[2] - h[1] < 2 /\ \A r \in Open(rest) : RangeOf(r, n) /\ h[2] < r[1]
      BY <1>6, <1>7, <1>9, <1>13, <2>2
    <2>4. Ordered(t, n, {h} \union Open(rest))
      BY <1>8, <2>2
    <2>5. Ordered(t, n, Open(rest))
      BY <2>3, <2>4, LeaveShort
    <2>6. QED
      BY <1>6, <2>1, <2>5
  <1>14. CASE ~(b - a < 2)
    <2>1. PICK s : s = Partition(t, a, b)
      OBVIOUS
    <2>2. continuum' = s.t /\ ranges' = << <<a, s.pivot - 1>>, <<s.pivot + 1, b>> >> \o rest
      BY <1>4, <1>5, <1>14, <2>1 DEF quicksort
    <2>3. a \in 1 .. n /\ b \in a .. n
      BY <1>7, <1>14
    <2>4. Parted(s, t, n, a, b)
      BY <2>1, <2>3, PartitionIs
    <2>5. s.pivot \in a .. b /\ s.t \in [1 .. n -> Entries]
          /\ \A p : Cardinality(At(s.t, n, p)) = Cardinality(At(t, n, p))
      BY <2>4 DEF Parted
    <2>6. PICK x, y : x = <<a, s.pivot - 1>> /\ y = <<s.pivot + 1, b>>
      OBVIOUS
    <2>7. RangeOf(x, n) /\ RangeOf(y, n) /\ x[2] < y[1]
      BY <1>7, <2>3, <2>5, <2>6 DEF RangeOf
    <2>8. \A r \in Open(rest) : x[2] < r[1] /\ y[2] < r[1]
      <3>1. TAKE r \in Open(rest)
      <3>2. r[1] \in Int /\ b < r[1]
        BY <1>9 DEF RangeOf
      <3>3. QED
        BY <1>7, <2>3, <2>5, <2>6, <3>2
    <2>9. Apart(<<x, y>> \o rest, n) /\ Open(<<x, y>> \o rest) = {x, y} \union Open(rest)
      BY <1>6, <2>7, <2>8, TwoMore
    <2>10. Ordered(s.t, n, {<<a, s.pivot - 1>>, <<s.pivot + 1, b>>} \union Open(rest))
      BY <1>8, <1>9, <2>3, <2>4, SplitLong
    <2>11. QED
      BY <2>2, <2>5, <2>6, <2>9, <2>10
  <1>15. QED
    BY <1>13, <1>14

\* The sort is done, the bisection of the first bucket begins.
LEMMA DoneLuaInv ==
  ASSUME BoundsAssumption, LuaInv, SortDone
  PROVE  LuaInv'
  <1>1. /\ lpc = "sort" /\ ranges = <<>> /\ lpc' = "find" /\ lo' = 1 /\ hi' = Len(continuum)
        /\ peers' = peers /\ initialized' = initialized /\ continuum' = continuum
        /\ ranges' = ranges /\ buckets' = buckets
    BY DEF SortDone
  <1>2. /\ peers \in Seq(Peers) /\ Len(peers) <= MaxPeers /\ initialized = FALSE /\ buckets = <<>>
        /\ Built /\ Ordered(continuum, Total, Open(ranges))
    BY <1>1 DEF LuaInv
  <1>3. PICK n \in Nat \ {0} : n = Total
    BY <1>2, SharePerPeer DEF Built
  <1>4. Total' = n /\ ppn' = ppn
    BY <1>1, <1>3 DEF Total, ppn
  <1>5. Built'
    BY <1>1, <1>2, <1>3, <1>4 DEF Built
  <1>6. Open(<<>>) = {}
    BY DEF Open
  <1>7. Ordered(continuum', n, {})
    BY <1>1, <1>2, <1>3, <1>6
  <1>8. Len(continuum) = n
    BY <1>2, <1>3 DEF Built
  <1>9. Len(buckets') = 0 /\ 1 .. 0 = {} /\ buckets' \in Seq(Int)
    BY <1>1, <1>2
  <1>10. Len(buckets') < Buckets
    BY <1>9 DEF BoundsAssumption
  <1>11. \A x : Between(continuum', n, x, lo', hi')
    BY <1>1, <1>3, <1>8 DEF Between
  <1>12. QED
    BY <1>1, <1>2, <1>4, <1>5, <1>7, <1>9, <1>10, <1>11 DEF LuaInv

\* chash_find returns a position.
LEMMA ReturnLuaInv ==
  ASSUME BoundsAssumption, LuaInv, lpc = "find", NEW c \in 1 .. Total, FindReturns(c),
         Ascends(continuum, Total) => First(continuum, Total, BucketPoint(Len(buckets) + 1), c)
  PROVE  LuaInv'
  <1>1. /\ buckets' = Append(buckets, c)
        /\ lpc' = (IF Len(buckets) + 1 = Buckets THEN "idle" ELSE "find")
        /\ initialized' = (Len(buckets) + 1 = Buckets)
        /\ lo' = 1 /\ hi' = Len(continuum)
        /\ peers' = peers /\ continuum' = continuum /\ ranges' = ranges
    BY DEF FindReturns
  <1>2. /\ peers \in Seq(Peers) /\ Len(peers) <= MaxPeers /\ buckets \in Seq(Int) /\ Built
        /\ Ordered(continuum, Total, {}) /\ Len(buckets) < Buckets
        /\ \A i \in 1 .. Len(buckets) : buckets[i] \in DOMAIN continuum
    BY DEF LuaInv
  <1>3. Ascends(continuum, Total) =>
          \A i \in 1 .. Len(buckets) : First(continuum, Total, BucketPoint(i), buckets[i])
    BY DEF LuaInv
  <1>4. PICK n \in Nat \ {0} : n = Total
    BY <1>2, SharePerPeer DEF Built
  <1>5. Total' = n /\ ppn' = ppn
    BY <1>1, <1>4 DEF Total, ppn
  <1>6. Built'
    BY <1>1, <1>2, <1>4, <1>5 DEF Built
  <1>7. DOMAIN continuum = 1 .. n /\ Len(continuum) = n
    BY <1>2, <1>4 DEF Built
  <1>8. PICK m \in Nat : m = Len(buckets)
    BY <1>2, LenProperties
  <1>9. /\ buckets' \in Seq(Int) /\ Len(buckets') = m + 1 /\ buckets'[m + 1] = c
        /\ \A i \in 1 .. m : buckets'[i] = buckets[i]
    <2>1. c \in Int
      BY <1>4
    <2>2. QED
      BY <1>1, <1>2, <1>8, <2>1, AppendProperties
  <1>10. \A i \in 1 .. Len(buckets') : i = m + 1 \/ i \in 1 .. m
    BY <1>9
  <1>11. \A i \in 1 .. Len(buckets') : buckets'[i] \in DOMAIN continuum
    BY <1>2, <1>4, <1>7, <1>8, <1>9, <1>10
  <1>12. Ascends(continuum, n) =>
           \A i \in 1 .. Len(buckets') : First(continuum, n, BucketPoint(i), buckets'[i])
    BY <1>3, <1>4, <1>8, <1>9, <1>10
  <1>13. \A x : Between(continuum, n, x, 1, n)
    BY DEF Between
  <1>14. CASE m + 1 = Buckets
    <2>1. lpc' = "idle" /\ initialized' = TRUE
      BY <1>1, <1>8, <1>14
    <2>2. QED
      BY <1>1, <1>2, <1>4, <1>5, <1>6, <1>9, <1>11, <1>12, <1>14, <2>1 DEF LuaInv, BucketPoint
  <1>15. CASE m + 1 # Buckets
    <2>1. lpc' = "find" /\ initialized' = FALSE
      BY <1>1, <1>8, <1>15
    <2>2. Len(buckets') < Buckets
      BY <1>2, <1>8, <1>9, <1>15 DEF BoundsAssumption
    <2>3. Between(continuum', n, BucketPoint(Len(buckets') + 1), lo', hi')
      BY <1>1, <1>7, <1>13
    <2>4. QED
      BY <1>1, <1>2, <1>4, <1>5, <1>6, <1>9, <1>11, <1>12, <2>1, <2>2, <2>3 DEF LuaInv, BucketPoint
  <1>16. QED
    BY <1>14, <1>15

\* An iteration of chash_find.
LEMMA FindLuaInv ==
  ASSUME BoundsAssumption, LuaInv, chash_find
  PROVE  LuaInv'
  <1>1. lpc = "find"
    BY DEF chash_find
  <1>2. /\ peers \in Seq(Peers) /\ Len(peers) <= MaxPeers /\ initialized = FALSE
        /\ buckets \in Seq(Int) /\ Built
        /\ Ordered(continuum, Total, {}) /\ Len(buckets) < Buckets
        /\ \A i \in 1 .. Len(buckets) : buckets[i] \in DOMAIN continuum
        /\ Between(continuum, Total, BucketPoint(Len(buckets) + 1), lo, hi)
    BY <1>1 DEF LuaInv
  <1>3. Ascends(continuum, Total) =>
          \A i \in 1 .. Len(buckets) : First(continuum, Total, BucketPoint(i), buckets[i])
    BY <1>1 DEF LuaInv
  <1>4. PICK n \in Nat : n = Total
    BY <1>2, SharePerPeer DEF Built
  <1>5. PICK t \in [1 .. n -> Entries] : t = continuum
    BY <1>2, <1>4 DEF Built
  <1>6. PICK x \in Int : x = BucketPoint(Len(buckets) + 1)
    <2>1. Len(buckets) + 1 \in Nat
      BY <1>2, LenProperties
    <2>2. QED
      BY <2>1, PointsOfBuckets
  <1>7. Ordered(t, n, {}) /\ Between(t, n, x, lo, hi)
    BY <1>2, <1>4, <1>5, <1>6
  <1>8. PICK mid \in Int : mid = (lo + hi) \div 2 /\ Halves(lo, hi, mid)
    <2>1. lo \in Nat /\ hi \in Nat
      BY <1>7 DEF Between
    <2>2. QED
      BY <2>1, Middle
  <1>9. /\ x <= t[lo].point \/ x > t[hi].point => (Ascends(t, n) => First(t, n, x, lo))
        /\ ~(x <= t[lo].point \/ x > t[hi].point) =>
             /\ mid \in 1 .. n
             /\ x <= t[mid].point /\ x > t[mid - 1].point
                  => (Ascends(t, n) => First(t, n, x, mid))
             /\ ~(x <= t[mid].point /\ x > t[mid - 1].point) =>
                  IF t[mid].point < x THEN Between(t, n, x, mid + 1, hi)
                  ELSE Between(t, n, x, lo, mid - 1)
    BY <1>7, <1>8, Bisects
  <1>10. CASE x <= t[lo].point \/ x > t[hi].point
    <2>1. FindReturns(lo)
      BY <1>5, <1>6, <1>10 DEF chash_find
    <2>2. lo \in 1 .. Total
      BY <1>4, <1>7 DEF Between
    <2>3. Ascends(continuum, Total) => First(continuum, Total, BucketPoint(Len(buckets) + 1), lo)
      BY <1>4, <1>5, <1>6, <1>9, <1>10
    <2>4. QED
      BY <1>1, <2>1, <2>2, <2>3, ReturnLuaInv
  <1>11. CASE ~(x <= t[lo].point \/ x > t[hi].point) /\ x <= t[mid].point /\ x > t[mid - 1].point
    <2>1. FindReturns(mid)
      BY <1>5, <1>6, <1>8, <1>11 DEF chash_find
    <2>2. mid \in 1 .. Total
      BY <1>4, <1>9, <1>11
    <2>3. Ascends(continuum, Total) => First(continuum, Total, BucketPoint(Len(buckets) + 1), mid)
      BY <1>4, <1>5, <1>6, <1>9, <1>11
    <2>4. QED
      BY <1>1, <2>1, <2>2, <2>3, ReturnLuaInv
  <1>12. CASE ~(x <= t[lo].point \/ x > t[hi].point) /\ ~(x <= t[mid].point /\ x > t[mid - 1].point)
    <2>1. /\ lo' = Narrow(x, mid)[1] /\ hi' = Narrow(x, mid)[2]
          /\ UNCHANGED <<peers, initialized, lpc, continuum, ranges, buckets>>
      BY <1>5, <1>6, <1>8, <1>12 DEF chash_find
    <2>2. Between(t, n, x, lo', hi')
      <3>1. CASE t[mid].point < x
        <4>1. lo' = mid + 1 /\ hi' = hi
          BY <1>5, <2>1, <3>1 DEF Narrow
        <4>2. QED
          BY <1>9, <1>12, <3>1, <4>1
      <3>2. CASE ~(t[mid].point < x)
        <4>1. lo' = lo /\ hi' = mid - 1
          BY <1>5, <2>1, <3>2 DEF Narrow
        <4>2. QED
          BY <1>9, <1>12, <3>2, <4>1
      <3>3. QED
        BY <3>1, <3>2
    <2>3. Total' = n /\ ppn' = ppn
      BY <1>4, <2>1 DEF Total, ppn
    <2>4. Built'
      BY <1>2, <1>4, <2>1, <2>3 DEF Built
    <2>5. Between(continuum', Total', BucketPoint(Len(buckets') + 1), lo', hi')
      BY <1>4, <1>5, <1>6, <2>1, <2>2, <2>3
    <2>6. QED
      BY <1>1, <1>2, <1>3, <1>4, <2>1, <2>3, <2>4, <2>5 DEF LuaInv, BucketPoint
  <1>13. QED
    BY <1>10, <1>11, <1>12

\* Every step.
LEMMA NextLuaInv ==
  ASSUME BoundsAssumption, LuaInv, [LuaNext]_luaVars
  PROVE  LuaInv'
  <1>1. CASE \E p \in Peers : chash_add_upstream(p)
    BY <1>1, AddLuaInv
  <1>2. CASE chash_init
    BY <1>2, InitStepLuaInv
  <1>3. CASE quicksort
    BY <1>3, SortLuaInv
  <1>4. CASE SortDone
    BY <1>4, DoneLuaInv
  <1>5. CASE chash_find
    BY <1>5, FindLuaInv
  <1>6. CASE UNCHANGED luaVars
    <2>1. Total' = Total /\ ppn' = ppn
      BY <1>6 DEF luaVars, Total, ppn
    <2>2. Built' <=> Built
      BY <1>6, <2>1 DEF luaVars, Built
    <2>3. QED
      BY <1>6, <2>1, <2>2 DEF luaVars, LuaInv, BucketPoint
  <1>7. QED
    BY <1>1, <1>2, <1>3, <1>4, <1>5, <1>6 DEF LuaNext

\* Types and what quicksort and chash_find of chash.lua know at every step:
\* which positions may still be out of order, what the half has, what the
\* buckets filled so far point at.
THEOREM AlwaysLua ==
  ASSUME BoundsAssumption
  PROVE  LuaSpec => []LuaInv
  <1>1. LuaInit => LuaInv
    BY InitLuaInv
  <1>2. LuaInv /\ [LuaNext]_luaVars => LuaInv'
    BY NextLuaInv
  <1>3. QED
    BY <1>1, <1>2, PTL DEF LuaSpec

\* What LuaInv says once the sort is done.
LEMMA WhenSorted ==
  ASSUME BoundsAssumption, LuaInv, lpc = "find" \/ initialized
  PROVE  /\ Total \in Nat \ {0} /\ Built /\ Ordered(continuum, Total, {})
         /\ DOMAIN continuum = 1 .. Total /\ Len(continuum) = Total
         /\ continuum \in [1 .. Total -> Entries]
  <1>1. lpc # "idle" \/ initialized
    OBVIOUS
  <1>2. Built /\ peers \in Seq(Peers) /\ Ordered(continuum, Total, {})
    BY <1>1 DEF LuaInv
  <1>3. Total \in Nat \ {0}
    BY <1>2, SharePerPeer DEF Built
  <1>4. continuum \in [1 .. Total -> Entries]
    BY <1>2 DEF Built
  <1>5. QED
    BY <1>2, <1>3, <1>4

\* NearlySorted always holds: quicksort of chash.lua returns ranges of two as
\* they are, and leaves nothing else than neighbours out of order.
THEOREM QuicksortNearlySorts ==
  ASSUME BoundsAssumption
  PROVE  LuaSpec => []NearlySorted
  <1>1. ASSUME LuaInv PROVE NearlySorted
    <2>1. SUFFICES ASSUME lpc = "find" \/ initialized,
                          NEW i \in DOMAIN continuum, NEW j \in DOMAIN continuum, i + 1 < j
                   PROVE  continuum[i].point <= continuum[j].point
      BY DEF NearlySorted
    <2>2. Total \in Nat \ {0} /\ DOMAIN continuum = 1 .. Total /\ Ordered(continuum, Total, {})
      BY <1>1, <2>1, WhenSorted
    <2>3. i \in 1 .. Total /\ j \in 1 .. Total /\ i < j /\ j # i + 1
      BY <2>1, <2>2
    <2>4. QED
      BY <2>2, <2>3 DEF Ordered
  <1>2. QED
    BY <1>1, AlwaysLua, PTL

\* PeersKeepTheirShare always holds: after the sort of chash.lua every peer
\* has the points chash_init gave it, none lost and none twice.
THEOREM QuicksortKeepsPoints ==
  ASSUME BoundsAssumption
  PROVE  LuaSpec => []PeersKeepTheirShare
  <1>1. ASSUME LuaInv PROVE PeersKeepTheirShare
    <2>1. SUFFICES ASSUME lpc = "find" \/ initialized, NEW p \in Peers
                   PROVE  Cardinality({i \in DOMAIN continuum : continuum[i].peer = p})
                            = ppn * Cardinality({i \in DOMAIN peers : peers[i] = p})
      BY DEF PeersKeepTheirShare
    <2>2. Built /\ DOMAIN continuum = 1 .. Total
      BY <1>1, <2>1, WhenSorted
    <2>3. DOMAIN peers = 1 .. Len(peers)
      BY <1>1 DEF LuaInv
    <2>4. Cardinality(At(continuum, Total, p))
            = ppn * Cardinality({j \in 1 .. Len(peers) : peers[j] = p})
      BY <2>2 DEF Built
    <2>5. At(continuum, Total, p) = {i \in DOMAIN continuum : continuum[i].peer = p}
      BY <2>2 DEF At
    <2>6. QED
      BY <2>3, <2>4, <2>5
  <1>2. QED
    BY <1>1, AlwaysLua, PTL

\* Every CRC has a bucket.
LEMMA BucketOfKey ==
  ASSUME BoundsAssumption, peers \in Seq(Peers), NEW c \in 0 .. MaxPoint
  PROVE  chash_get_upstream(c) \in 1 .. Buckets
  <1>1. Len(peers) \in Nat /\ Buckets \in Nat \ {0} /\ c \in Nat
    BY LenProperties DEF BoundsAssumption
  <1>2. PICK b \in 0 .. Buckets - 1 : b = (c + 89 * Len(peers)) % Buckets
    BY <1>1
  <1>3. chash_get_upstream(c) = IF b = 0 THEN 1 ELSE b
    BY <1>2 DEF chash_get_upstream
  <1>4. QED
    BY <1>1, <1>2, <1>3

\* FindsSuccessor always holds: a CRC has a bucket, and on points in ascending
\* order chash_find of chash.lua gave it the first point not below its own,
\* going round at the end.
THEOREM BisectionFindsSuccessor ==
  ASSUME BoundsAssumption
  PROVE  LuaSpec => []FindsSuccessor
  <1>1. ASSUME LuaInv PROVE FindsSuccessor
    <2>1. SUFFICES ASSUME initialized, NEW c \in 0 .. MaxPoint, NEW b, b = chash_get_upstream(c),
                          NEW above,
                          above = {i \in DOMAIN continuum : continuum[i].point >= BucketPoint(b)}
                   PROVE  /\ b \in DOMAIN buckets
                          /\ Sorted => buckets[b] = IF above = {} THEN 1
                                 ELSE CHOOSE i \in above : \A j \in above : i <= j
      BY DEF FindsSuccessor
    <2>2. /\ Total \in Nat \ {0} /\ DOMAIN continuum = 1 .. Total /\ Len(continuum) = Total
      BY <1>1, <2>1, WhenSorted
    <2>3. /\ peers \in Seq(Peers) /\ buckets \in Seq(Int) /\ Len(buckets) = Buckets
          /\ Ascends(continuum, Total) =>
               \A i \in 1 .. Len(buckets) : First(continuum, Total, BucketPoint(i), buckets[i])
      BY <1>1, <2>1 DEF LuaInv
    <2>4. b \in 1 .. Len(buckets) /\ DOMAIN buckets = 1 .. Len(buckets)
      BY <2>1, <2>3, BucketOfKey
    <2>5. ASSUME Sorted
          PROVE  buckets[b] = IF above = {} THEN 1
                              ELSE CHOOSE i \in above : \A j \in above : i <= j
      <3>1. Ascends(continuum, Total)
        BY <2>1, <2>2, <2>5 DEF Sorted, Ascends
      <3>2. First(continuum, Total, BucketPoint(b), buckets[b])
        BY <2>3, <2>4, <3>1
      <3>3. above = {i \in 1 .. Total : continuum[i].point >= BucketPoint(b)}
        BY <2>1, <2>2
      <3>4. IF above = {} THEN buckets[b] = 1
            ELSE buckets[b] \in above /\ \A j \in above : buckets[b] <= j
        BY <3>2, <3>3 DEF First
      <3>5. ASSUME above # {}
            PROVE  buckets[b] = CHOOSE i \in above : \A j \in above : i <= j
        <4>1. buckets[b] \in above /\ \A j \in above : buckets[b] <= j
          BY <3>4, <3>5
        <4>2. PICK k : k = CHOOSE i \in above : \A j \in above : i <= j
          OBVIOUS
        <4>3. k \in above /\ \A j \in above : k <= j
          BY <4>1, <4>2
        <4>4. buckets[b] <= k /\ k <= buckets[b]
          BY <4>1, <4>3
        <4>5. buckets[b] \in Int /\ k \in Int
          BY <3>3, <4>1, <4>3
        <4>6. QED
          BY <4>2, <4>4, <4>5
      <3>6. QED
        BY <3>4, <3>5
    <2>6. QED
      BY <2>4, <2>5
  <1>2. QED
    BY <1>1, AlwaysLua, PTL
=============================================================================
