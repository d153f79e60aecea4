------------------------------ MODULE MCTables ------------------------------
(***************************************************************************)
(* The two containers of the proxy, its key queue and its table of         *)
(* backups, in one model.  They share no state; a behaviour exercises the  *)
(* one that part names and leaves the variables of the other alone.        *)
(***************************************************************************)
EXTENDS CirQueue, HashTable

\* Addresses of two to four characters, most of them in one bin.
ServerKeys == {<<1, 2>>, <<2, 1, 2>>, <<1, 1, 1, 2>>, <<2, 2>>}

\* What an uninitialised variable may hold: zero, a value in between, and the
\* largest but one.  ht_hash stops at once at the largest, 4^3 - 1.
NotMax == {0, 21, 62}

ASSUME TableSizesAssumption /\ HostKeysAssumption /\ GarbageAssumption /\ TailAssumption

VARIABLE part

allVars == <<part, vars, tableVars>>

MCInit == part \in {"queue", "table"} /\ Init /\ TableInit

QueueOnly(A) == part = "queue" /\ A /\ UNCHANGED <<part, tableVars>>

TableStep == part = "table" /\ TableNext /\ UNCHANGED <<part, vars>>

MCNext == QueueOnly(Next) \/ TableStep

\* The fairness of CirQueue.
MCSpec ==
  /\ MCInit /\ [][MCNext]_allVars
  /\ WF_allVars(QueueOnly(ClearStep))
  /\ WF_allVars(QueueOnly(ClearEnd))
=============================================================================
