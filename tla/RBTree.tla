------------------------------- MODULE RBTree -------------------------------
(***************************************************************************)
(* The red-black tree of src/nginx/c/util_rbtree.c, node by node: links,   *)
(* parent pointers, colours and the sentinel are a memory indexed by       *)
(* address, and one iteration of a fix-up loop is one step.  The two       *)
(* halves of each loop, which differ in left and right only, are one       *)
(* definition with a side.                                                 *)
(*                                                                         *)
(* Nodes are allocated and freed by the caller (conhash_inter.c).  Freeing *)
(* a node overwrites its first 16 bytes, key and parent, and keeps the     *)
(* colour.  util_rbtree_delete of the root leaves the parent pointer of    *)
(* the node that takes its place on the deleted node; Reuse says whether   *)
(* the allocator may hand out that address again while it is still there.  *)
(***************************************************************************)
EXTENDS Integers, Sequences, FiniteSets

CONSTANTS Addr,   \* addresses the allocator may return
          TreeKeys, \* hash values
          Nil,    \* the sentinel &rbtree->null
          Null,   \* the null pointer
          Block(_),  \* addresses malloc may return for a node with a given key
          Reuse   \* may the block parent[root] dangles on be allocated again

ASSUME AddrAssumption ==
  Nil \notin Addr /\ Null \notin Addr /\ Nil # Null /\ IsFiniteSet(Addr)
ASSUME TreeKeysAssumption == TreeKeys \subseteq Int /\ \A k \in TreeKeys : Block(k) \subseteq Addr
ASSUME ReuseAssumption == Reuse \in BOOLEAN

VARIABLES tree,  \* [root, link, parent, black]: the memory the tree lives in
          key,   \* key of every allocated node
          live,  \* allocated nodes
          size,  \* rbtree->size
          pc,    \* "idle", or the loop that runs: "insert", "delete"
          cur    \* local variable node of that loop

vars == <<tree, key, live, size, pc, cur>>

Directions == {"left", "right"}
Opp(d) == IF d = "left" THEN "right" ELSE "left"
Nodes == Addr \union {Nil}
Pointers == Nodes \union {Null}

left(t, n) == t.link["left"][n]
right(t, n) == t.link["right"][n]
isblack(t, n) == n \in t.black
isred(t, n) == n \notin t.black
SideOf(t, n, p) == IF left(t, p) = n THEN "left" ELSE "right"

\* util_rbtree_init on zeroed memory.
Init ==
  /\ tree = [root   |-> Nil,
             link   |-> [d \in Directions |-> [n \in Nodes |-> Null]],
             parent |-> [n \in Nodes |-> Null],
             black  |-> {Nil}]
  /\ key = [n \in Addr |-> 0]
  /\ live = {}
  /\ size = 0
  /\ pc = "idle"
  /\ cur = Nil

-----------------------------------------------------------------------------
(* Rotations and the walks down the tree *)

SlipRotate(t, n, d) ==
  LET c == t.link[Opp(d)][n]
      g == t.link[d][c]
      up == t.parent[n]
      s == SideOf(t, n, up)
  IN  [t EXCEPT
        !.root = IF n = t.root THEN c ELSE @,
        !.link = IF n = t.root THEN [@ EXCEPT ![d][c] = n, ![Opp(d)][n] = g]
                 ELSE [@ EXCEPT ![s][up] = c, ![d][c] = n, ![Opp(d)][n] = g],
        !.parent = [@ EXCEPT ![c] = up, ![n] = c]]

\* rbtree_left_rotate (d = "left") and rbtree_right_rotate: the child c on the
\* other side takes the place of n, n becomes its child on side d.
Rotate(t, n, d) ==
  LET c == t.link[Opp(d)][n]
      g == t.link[d][c]
      up == t.parent[n]
      s == SideOf(t, n, up)
  IN  [t EXCEPT
        !.root = IF n = t.root THEN c ELSE @,
        !.link = IF n = t.root THEN [@ EXCEPT ![d][c] = n, ![Opp(d)][n] = g]
                 ELSE [@ EXCEPT ![s][up] = c, ![d][c] = n, ![Opp(d)][n] = g],
        !.parent = [@ EXCEPT ![c] = up, ![n] = c, ![g] = IF g = Nil THEN @ ELSE n]]

SlipSubtreeMin(t, n) == n

util_rbsubtree_min(t, n) ==
  LET down[x \in Addr] == IF left(t, x) = Nil THEN x ELSE down[left(t, x)]
  IN  down[n]

\* The node below which a node with key k is linked.
InsertPosition(t, k) ==
  LET Side(x) == IF k < key[x] THEN "left" ELSE "right"
      down[x \in Addr] == IF t.link[Side(x)][x] = Nil THEN x ELSE down[t.link[Side(x)][x]]
  IN  down[t.root]

util_rbtree_search(t, k) ==
  LET down[x \in Nodes] == IF x = Nil THEN Null
                           ELSE IF k < key[x] THEN down[left(t, x)]
                           ELSE IF k > key[x] THEN down[right(t, x)]
                           ELSE x
  IN  down[t.root]

SlipLookup(t, k) ==
  LET down[x \in Nodes] == IF x = Nil THEN Null
                           ELSE IF k <= key[x]
                                THEN LET y == down[left(t, x)] IN IF y = Null THEN x ELSE y
                                ELSE down[right(t, x)]
  IN  IF t.root = Nil THEN Null ELSE IF down[t.root] = Null THEN t.root ELSE down[t.root]

\* First node with a key not below k, else the node with the smallest key.
util_rbtree_lookup(t, k) ==
  LET down[x \in Nodes] == IF x = Nil THEN Null
                           ELSE IF k <= key[x]
                                THEN LET y == down[left(t, x)] IN IF y = Null THEN x ELSE y
                                ELSE down[right(t, x)]
      found == down[t.root]
  IN  CASE t.root = Nil -> Null
        [] t.root # Nil /\ found # Null -> found
        [] OTHER -> util_rbsubtree_min(t, t.root)

\* util_rbtree_mid_travel: the nodes opera is called with, left - root - right.
util_rbtree_mid_travel(t) ==
  LET walk[x \in Nodes] == IF x = Nil THEN <<>>
                           ELSE walk[left(t, x)] \o <<x>> \o walk[right(t, x)]
  IN  walk[t.root]

\* util_rbtree_check returns 0.  The recursion turns back at a node without a
\* left child, so the right child of such a node is never looked at.
util_rbtree_check(t) ==
  LET Bad(x) == \E d \in Directions :
                  LET c == t.link[d][x] IN
                    /\ c # Nil
                    /\ \/ isred(t, x) /\ isred(t, c)
                       \/ d = "left" /\ key[x] < key[c]
                       \/ d = "right" /\ key[x] > key[c]
      ok[x \in Addr] == IF left(t, x) = Nil THEN TRUE
                        ELSE /\ ~Bad(x)
                             /\ ok[left(t, x)]
                             /\ right(t, x) # Nil => ok[right(t, x)]
      height[x \in Addr] ==
        LET below == CASE left(t, x) = Nil -> {0}
                       [] left(t, x) # Nil /\ right(t, x) = Nil -> height[left(t, x)] \union {0}
                       [] OTHER -> height[left(t, x)] \union height[right(t, x)]
        IN  {h + (IF isblack(t, x) THEN 1 ELSE 0) : h \in below}
  IN  \/ t.root = Nil
      \/ /\ isblack(t, t.root)
         /\ ok[t.root]
         /\ Cardinality(height[t.root]) = 1

-----------------------------------------------------------------------------
(* Insertion *)

\* malloc and util_rbtree_insert up to the call of rbtree_insert_fixup.
util_rbtree_insert(n, k) ==
  LET y == InsertPosition(tree, k)
      side == IF k < key[y] THEN "left" ELSE "right"
      linked == IF tree.root = Nil
                THEN [tree EXCEPT !.root = n, !.parent[n] = Nil]
                ELSE [tree EXCEPT !.parent[n] = y, !.link[side][y] = n]
  IN  /\ pc = "idle"
      /\ n \notin live
      /\ Reuse \/ tree.root = Nil \/ n # tree.parent[tree.root]
      /\ tree' = [linked EXCEPT !.link["left"][n] = Nil, !.link["right"][n] = Nil,
                                !.black = @ \ {n}]
      /\ key' = [key EXCEPT ![n] = k]
      /\ live' = live \union {n}
      /\ pc' = "insert"
      /\ cur' = n
      /\ UNCHANGED size

SlipInsertFixup(t, n) ==
  LET p == t.parent[n]
      gp == t.parent[p]
      d == SideOf(t, p, gp)
      inner == n = t.link[Opp(d)][p]
      t1 == IF inner THEN Rotate(t, p, d) ELSE t
      n1 == IF inner THEN p ELSE n
      p1 == t1.parent[n1]
      gp1 == t1.parent[p1]
  IN  [tree |-> Rotate([t1 EXCEPT !.black = (@ \union {p1}) \ {gp1}], gp1, Opp(d)),
       node |-> n1]

\* One iteration of rbtree_insert_fixup: a red uncle, or one or two rotations.
rbtree_insert_fixup(t, n) ==
  LET p == t.parent[n]
      gp == t.parent[p]
      d == SideOf(t, p, gp)
      u == t.link[Opp(d)][gp]
      inner == n = t.link[Opp(d)][p]
      t1 == IF inner THEN Rotate(t, p, d) ELSE t
      n1 == IF inner THEN p ELSE n
      p1 == t1.parent[n1]
      gp1 == t1.parent[p1]
  IN  IF isred(t, u)
      THEN [tree |-> [t EXCEPT !.black = (@ \union {u, p}) \ {gp}], node |-> gp]
      ELSE [tree |-> Rotate([t1 EXCEPT !.black = (@ \union {p1}) \ {gp1}], gp1, Opp(d)),
            node |-> n1]

InsertFixup ==
  /\ pc = "insert"
  /\ isred(tree, tree.parent[cur])
  /\ LET f == rbtree_insert_fixup(tree, cur)
     IN  tree' = f.tree /\ cur' = f.node
  /\ UNCHANGED <<key, live, size, pc>>

\* End of the loop: the root is marked black, the node counted.
InsertReturn ==
  /\ pc = "insert"
  /\ isblack(tree, tree.parent[cur])
  /\ tree' = [tree EXCEPT !.black = @ \union {tree.root}]
  /\ size' = size + 1
  /\ pc' = "idle"
  /\ cur' = Nil
  /\ UNCHANGED <<key, live>>

-----------------------------------------------------------------------------
(* Deletion *)

\* rbt_clear_node.
Clear(t, n) == [t EXCEPT !.link["left"][n] = Null, !.link["right"][n] = Null,
                         !.parent[n] = Null]

\* util_rbtree_delete without its fix-up: temp leaves its position, subst takes
\* it, and temp replaces n in the tree.  The root is a case of its own.
Unlink(t, n) ==
  LET temp == IF Nil \in {left(t, n), right(t, n)} THEN n
              ELSE util_rbsubtree_min(t, right(t, n))
      subst == IF left(t, temp) # Nil THEN left(t, temp) ELSE right(t, temp)
      up == t.parent[temp]
      t1 == [t EXCEPT !.parent[subst] = IF up = n THEN temp ELSE up,
                      !.link[SideOf(t, temp, up)][up] = subst]
      above == t1.parent[n]
      t2 == [t1 EXCEPT
              !.root = IF n = t.root THEN temp ELSE @,
              !.link = IF n = t.root THEN @ ELSE [@ EXCEPT ![SideOf(t1, n, above)][above] = temp],
              !.black = IF n \in t.black THEN @ \union {temp} ELSE @ \ {temp}]
      kids == {left(t1, n), right(t1, n)} \ {Nil}
      t3 == [t2 EXCEPT
              !.link["left"][temp] = left(t1, n),
              !.link["right"][temp] = right(t1, n),
              !.parent = [a \in Nodes |-> IF a = temp THEN above
                                          ELSE IF a \in kids THEN temp ELSE @[a]]]
  IN  IF temp = t.root
      THEN [tree  |-> Clear([t EXCEPT !.root = subst, !.black = @ \union {subst}], n),
            subst |-> subst, fix |-> FALSE]
      ELSE [tree  |-> Clear(IF temp = n THEN t1 ELSE t3, n),
            subst |-> subst, fix |-> isblack(t, temp)]

\* util_rbtree_delete; the caller frees the node as soon as it returns, which
\* the fix-up, that does not look at the node any more, cannot tell.
util_rbtree_delete(n) ==
  LET u == Unlink(tree, n)
  IN  /\ pc = "idle"
      /\ n \in live
      /\ size' = size - 1
      /\ tree' = u.tree
      /\ live' = live \ {n}
      /\ key' = [key EXCEPT ![n] = 0]
      /\ pc' = IF u.fix THEN "delete" ELSE "idle"
      /\ cur' = IF u.fix THEN u.subst ELSE Nil

\* One iteration of rbtree_delete_fixup; n is short of one black node.
rbtree_delete_fixup(t, n) ==
  LET p == t.parent[n]
      d == SideOf(t, n, p)
      o == Opp(d)
      w0 == t.link[o][p]
      t1 == IF isred(t, w0)
            THEN Rotate([t EXCEPT !.black = (@ \union {w0}) \ {p}], p, d)
            ELSE t
      w1 == t1.link[o][t1.parent[n]]
      near == t1.link[d][w1]
      far == t1.link[o][w1]
      t2 == IF isblack(t1, far)
            THEN Rotate([t1 EXCEPT !.black = (@ \union {near}) \ {w1}], w1, o)
            ELSE t1
      p2 == t2.parent[n]
      w2 == t2.link[o][p2]
      rest == t2.black \ {w2}
      t3 == [t2 EXCEPT !.black = rest \union {p2, t2.link[o][w2]}
                                      \union (IF isblack(t2, p2) THEN {w2} ELSE {})]
  IN  IF isblack(t1, near) /\ isblack(t1, far)
      THEN [tree |-> [t1 EXCEPT !.black = @ \ {w1}], node |-> t1.parent[n]]
      ELSE LET t4 == Rotate(t3, p2, d) IN [tree |-> t4, node |-> t4.root]

DeleteFixup ==
  /\ pc = "delete"
  /\ cur # tree.root
  /\ isblack(tree, cur)
  /\ LET f == rbtree_delete_fixup(tree, cur)
     IN  tree' = f.tree /\ cur' = f.node
  /\ UNCHANGED <<key, live, size, pc>>

DeleteReturn ==
  /\ pc = "delete"
  /\ cur = tree.root \/ isred(tree, cur)
  /\ tree' = [tree EXCEPT !.black = @ \union {cur}]
  /\ pc' = "idle"
  /\ cur' = Nil
  /\ UNCHANGED <<key, live, size>>

-----------------------------------------------------------------------------

Call == \/ \E n \in Addr : util_rbtree_delete(n)
        \/ \E k \in TreeKeys : \E n \in Block(k) : util_rbtree_insert(n, k)
Loop == InsertFixup \/ InsertReturn \/ DeleteFixup \/ DeleteReturn

Next == Call \/ Loop

Spec == Init /\ [][Next]_vars

-----------------------------------------------------------------------------
(* Properties *)

TypeOK ==
  /\ tree \in [root : Nodes, link : [Directions -> [Nodes -> Pointers]],
              parent : [Nodes -> Pointers], black : SUBSET Nodes]
  /\ key \in [Addr -> TreeKeys \union {0}]
  /\ live \subseteq Addr
  /\ size \in 0..Cardinality(Addr)
  /\ pc \in {"idle", "insert", "delete"}
  /\ cur \in Nodes

InOrder == util_rbtree_mid_travel(tree)
KeySequence == [i \in DOMAIN InOrder |-> key[InOrder[i]]]

\* The four rules of a red-black tree hold whenever no call is running:
\* util_rbtree_insert and util_rbtree_delete with their fix-up loops leave a
\* black root and sentinel, no red node with a red child, and as many black
\* nodes on every way down; util_rbtree_check, the code's own test, agrees.
RedBlack ==
  LET count[x \in Nodes] ==
        IF x = Nil THEN {0}
        ELSE {h + (IF isblack(tree, x) THEN 1 ELSE 0) :
                h \in count[left(tree, x)] \union count[right(tree, x)]}
  IN  pc = "idle" =>
        /\ {Nil, tree.root} \subseteq tree.black
        /\ \A n \in live, d \in Directions : isred(tree, n) => isblack(tree, tree.link[d][n])
        /\ Cardinality(count[tree.root]) = 1
        /\ util_rbtree_check(tree)

\* Links and parent pointers agree at every step, in the middle of a fix-up
\* too: exactly the live nodes are reached, each once, and every child points
\* back at its parent (the rotations and the relinking in util_rbtree_delete).
Linked ==
  /\ LET o == InOrder
     IN  Len(o) = Cardinality(live) /\ {o[i] : i \in DOMAIN o} = live
  /\ \A n \in live, d \in Directions :
       tree.link[d][n] # Nil => tree.parent[tree.link[d][n]] = n

\* util_rbtree_lookup finds the first key not below the one asked for, and
\* goes round to the smallest when there is none; util_rbtree_search finds a
\* key exactly when it is in the tree; size counts the nodes.
Searchable ==
  LET ks == KeySequence
      A == INSTANCE SortedKeys WITH Keys <- TreeKeys, keys <- ks, MaxSize <- Cardinality(Addr)
  IN  pc = "idle" =>
        /\ size = Len(ks)
        /\ \A k \in TreeKeys :
             /\ LET n == util_rbtree_search(tree, k)
                IN  IF \E i \in DOMAIN ks : ks[i] = k THEN n # Null /\ key[n] = k
                    ELSE n = Null
             /\ ks # <<>> => key[util_rbtree_lookup(tree, k)] = A!Successor(ks, k)

\* The tree is an ascending sequence of keys: linking a node inserts its key at
\* its place, unlinking removes one, and no fix-up step changes the sequence.
Abstract == INSTANCE SortedKeys WITH
              Keys <- TreeKeys,
              keys <- KeySequence,
              MaxSize <- Cardinality(Addr)
ImplementsSortedKeys == Abstract!Spec
=============================================================================
