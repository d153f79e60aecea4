------------------------------ MODULE MCRBTree ------------------------------
(* Instances of RBTree: which blocks the allocator may return. *)
EXTENDS RBTree

\* One block per key, and a second one for some keys, so that equal keys occur
\* and the names of blocks do not multiply the states.
OwnBlock(k) == {k, k + Cardinality(TreeKeys)} \intersect Addr

\* Any block for any key.
AnyBlock(k) == Addr
=============================================================================
