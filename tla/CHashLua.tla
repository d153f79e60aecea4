------------------------------ MODULE CHashLua ------------------------------
(***************************************************************************)
(* The consistent hash of src/nginx/lua/chash.lua: points of all peers are *)
(* sorted by an in-place quicksort into CONTINUUM, and a table of buckets  *)
(* is filled by bisection.  One step is one call of quicksort, one         *)
(* iteration of chash_find, or the end of a loop.  hash_fn is any          *)
(* function: the points of a peer are arbitrary.                           *)
(***************************************************************************)
EXTENDS Integers, Sequences, FiniteSets

CONSTANTS Peers,     \* upstream names
          Buckets,   \* MMC_CONSISTENT_BUCKETS
          MaxPoint,  \* 0xFFFFFFFF
          MaxPeers   \* bound on #HASH_PEERS

BoundsAssumption == Buckets \in Nat \ {0} /\ MaxPoint \in Nat /\ MaxPeers \in Nat

VARIABLES peers,        \* HASH_PEERS, all of weight 1
          initialized,  \* M.initialized
          lpc,          \* "idle", "sort", "find"
          continuum,    \* CONTINUUM: records of a peer and its point
          ranges,       \* calls of quicksort still to be made, the next one first
          buckets,      \* BUCKETS: positions in continuum
          lo, hi        \* local variables of chash_find

luaVars == <<peers, initialized, lpc, continuum, ranges, buckets, lo, hi>>

Entry(p, x) == [peer |-> p, point |-> x]

LuaInit ==
  /\ peers = <<>>
  /\ initialized = FALSE
  /\ lpc = "idle"
  /\ continuum = <<>>
  /\ ranges = <<>>
  /\ buckets = <<>>
  /\ lo = 1 /\ hi = 1

\* chash_add_upstream.  The weight never arrives: the parameter is spelled
\* weigth, so every peer has weight 1.
chash_add_upstream(p) ==
  /\ lpc = "idle"
  /\ Len(peers) < MaxPeers
  /\ initialized' = FALSE
  /\ peers' = Append(peers, p)
  /\ UNCHANGED <<lpc, continuum, ranges, buckets, lo, hi>>

\* Points per peer.
ppn == LET q == Buckets \div Len(peers) IN IF q = 0 THEN 1 ELSE q

\* chash_init, called from chash_get_upstream when the table is out of date, up
\* to the call of quicksort.
chash_init ==
  /\ lpc = "idle"
  /\ peers # <<>>
  /\ ~initialized
  /\ \E hash \in [1..(Len(peers) * ppn) -> 0..MaxPoint] :
       continuum' = [i \in DOMAIN hash |-> Entry(peers[((i - 1) \div ppn) + 1], hash[i])]
  /\ ranges' = << <<1, Len(peers) * ppn>> >>
  /\ buckets' = <<>>
  /\ lpc' = "sort"
  /\ UNCHANGED <<peers, initialized, lo, hi>>

-----------------------------------------------------------------------------
(* quicksort *)

SlipShift(t, pivot, i) ==
  [t EXCEPT ![pivot] = t[i], ![pivot + 1] = t[pivot]]

\* One iteration of the partition loop: t[i] goes in front of the pivot.
Shift(t, pivot, i) ==
  IF i = pivot + 1
  THEN [t EXCEPT ![pivot] = t[i], ![i] = t[pivot]]
  ELSE [t EXCEPT ![pivot] = t[i], ![pivot + 1] = t[pivot], ![i] = t[pivot + 1]]

SlipPartition(t, start, endi) ==
  LET after[i \in start..endi] ==
        IF i = start THEN [t |-> t, pivot |-> start]
        ELSE LET s == after[i - 1]
             IN  IF s.t[i].point < s.t[s.pivot].point
                 THEN [t     |-> [s.t EXCEPT ![s.pivot] = s.t[i], ![i] = s.t[s.pivot]],
                       pivot |-> s.pivot + 1]
                 ELSE s
  IN  after[endi]

\* The loop of quicksort: the elements below the first one are moved in front.
Partition(t, start, endi) ==
  LET after[i \in start..endi] ==
        IF i = start THEN [t |-> t, pivot |-> start]
        ELSE LET s == after[i - 1]
             IN  IF s.t[i].point < s.t[s.pivot].point
                 THEN [t |-> Shift(s.t, s.pivot, i), pivot |-> s.pivot + 1]
                 ELSE s
  IN  after[endi]

\* A call of quicksort for the first open range: a range of one or two elements
\* is returned as it is, a longer one is split and both parts are called.
quicksort ==
  /\ lpc = "sort"
  /\ ranges # <<>>
  /\ LET start == Head(ranges)[1]
         endi == Head(ranges)[2]
         p == Partition(continuum, start, endi)
     IN  IF endi - start < 2
         THEN /\ ranges' = Tail(ranges)
              /\ UNCHANGED continuum
         ELSE /\ continuum' = p.t
              /\ ranges' = << <<start, p.pivot - 1>>, <<p.pivot + 1, endi>> >> \o Tail(ranges)
  /\ UNCHANGED <<peers, initialized, lpc, buckets, lo, hi>>

SortDone ==
  /\ lpc = "sort"
  /\ ranges = <<>>
  /\ lpc' = "find"
  /\ lo' = 1
  /\ hi' = Len(continuum)
  /\ UNCHANGED <<peers, initialized, continuum, ranges, buckets>>

-----------------------------------------------------------------------------
(* chash_find and the filling of BUCKETS *)

\* The point bucket i stands for.
BucketPoint(i) == (MaxPoint \div Buckets) * (i - 1)

\* chash_find returns position c for the bucket that is being filled.
FindReturns(c) ==
  /\ buckets' = Append(buckets, c)
  /\ lpc' = IF Len(buckets) + 1 = Buckets THEN "idle" ELSE "find"
  /\ initialized' = (Len(buckets) + 1 = Buckets)
  /\ lo' = 1
  /\ hi' = Len(continuum)
  /\ UNCHANGED <<peers, continuum, ranges>>

SlipNarrow(point, mid) ==
  IF continuum[mid].point <= point THEN <<mid + 1, hi>> ELSE <<lo, mid>>

\* The half in which chash_find goes on.
Narrow(point, mid) ==
  IF continuum[mid].point < point THEN <<mid + 1, hi>> ELSE <<lo, mid - 1>>

\* One iteration of chash_find.
chash_find ==
  LET point == BucketPoint(Len(buckets) + 1)
      mid == (lo + hi) \div 2
      outside == point <= continuum[lo].point \/ point > continuum[hi].point
      between == point <= continuum[mid].point /\ point > continuum[mid - 1].point
  IN  /\ lpc = "find"
      /\ \/ /\ outside
            /\ FindReturns(lo)
         \/ /\ ~outside
            /\ between
            /\ FindReturns(mid)
         \/ /\ ~outside
            /\ ~between
            /\ lo' = Narrow(point, mid)[1]
            /\ hi' = Narrow(point, mid)[2]
            /\ UNCHANGED <<peers, initialized, lpc, continuum, ranges, buckets>>

\* chash_get_upstream of a key with CRC c, once the table is there: the bucket
\* it looks at.  It changes nothing.
chash_get_upstream(c) ==
  LET b == (c + 89 * Len(peers)) % Buckets IN IF b = 0 THEN 1 ELSE b

LuaNext ==
  \/ \E p \in Peers : chash_add_upstream(p)
  \/ chash_init \/ quicksort \/ SortDone \/ chash_find

LuaSpec == LuaInit /\ [][LuaNext]_luaVars

-----------------------------------------------------------------------------
(* Properties *)

LuaTypeOK ==
  /\ Len(peers) <= MaxPeers
  /\ initialized \in BOOLEAN
  /\ lpc \in {"idle", "sort", "find"}
  /\ lpc = "find" => lo \in DOMAIN continuum /\ hi \in DOMAIN continuum /\ lo <= hi
  /\ \A i \in DOMAIN buckets : buckets[i] \in DOMAIN continuum

\* After the sort a point is out of order with its direct neighbour at most:
\* the ranges quicksort leaves alone have two elements.
NearlySorted ==
  (lpc = "find" \/ initialized) =>
    \A i, j \in DOMAIN continuum : i + 1 < j => continuum[i].point <= continuum[j].point

\* Every peer keeps its points: sorting loses and duplicates nothing, so every
\* peer has ppn entries in the continuum.
PeersKeepTheirShare ==
  (lpc = "find" \/ initialized) =>
    \A p \in Peers :
      Cardinality({i \in DOMAIN continuum : continuum[i].peer = p})
        = ppn * Cardinality({i \in DOMAIN peers : peers[i] = p})

\* The continuum is in ascending order once quicksort is done.
Sorted ==
  (lpc = "find" \/ initialized) =>
    \A i \in 1..(Len(continuum) - 1) : continuum[i].point <= continuum[i + 1].point

\* Whatever its CRC, a key has a bucket (Lua tables are indexed from 1), and on
\* points in ascending order the bisection of chash_find has given it the first
\* point not below that of the bucket, going round at the end.
FindsSuccessor ==
  initialized =>
    \A c \in 0..MaxPoint :
      LET b == chash_get_upstream(c)
          above == {i \in DOMAIN continuum : continuum[i].point >= BucketPoint(b)}
      IN  /\ b \in DOMAIN buckets
          /\ Sorted => buckets[b] = IF above = {} THEN 1
                                    ELSE CHOOSE i \in above : \A j \in above : i <= j
=============================================================================
