------------------------------ MODULE MCProxy -------------------------------
(***************************************************************************)
(* Proxy for TLC: the symmetry of the keys, and a check that Leaves is     *)
(* what applying a stream command by command comes to.                     *)
(***************************************************************************)
EXTENDS Proxy, SequencesExt

Symmetry == Permutations(Keys)

ASSUME LeavesIsApplied ==
  \A db \in DB, stream \in SeqOf(Commands, 2), k \in Keys, v \in 0 .. MaxVer :
    Leaves(db, stream, k, v) <=> v = FoldLeft(Apply, db, stream)[k]
=============================================================================
