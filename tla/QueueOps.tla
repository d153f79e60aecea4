------------------------------ MODULE QueueOps ------------------------------
(***************************************************************************)
(* What the key queue of the proxy promises its callers, as operators on   *)
(* sequences: a FIFO of at most QUE_SIZE - 1 keys that silently drops a    *)
(* push when it is full and answers NULL (the C value 0) when it is empty. *)
(* FifoQueue turns them into a state machine, CirQueue implements that     *)
(* state machine with the array of proxy/cir_queue.c, and Proxy uses the   *)
(* same operators for the global variable q of proxy/io.c.                 *)
(***************************************************************************)
EXTENDS Naturals, Sequences

CONSTANTS
  QUE_SIZE,   \* slots of the array; 4096 in cir_queue.h
  NULL        \* the pointer value 0

\* clear_queue takes the semaphore twice, so a one-slot queue would block on
\* itself; the code uses 4096.
ASSUME QueSizeAssumption == QUE_SIZE \in Nat /\ QUE_SIZE >= 2

Capacity == QUE_SIZE - 1

IsEmptyQ(q) == q = << >>

IsFullQ(q) == Len(q) = Capacity

PushQ(q, x) == IF IsFullQ(q) THEN q ELSE Append(q, x)

FirstQ(q) == IF IsEmptyQ(q) THEN NULL ELSE Head(q)

PopQ(q) == IF IsEmptyQ(q) THEN q ELSE Tail(q)
=============================================================================
