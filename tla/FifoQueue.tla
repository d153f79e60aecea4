------------------------------ MODULE FifoQueue -----------------------------
(***************************************************************************)
(* The abstract specification of proxy/cir_queue.c: a bounded FIFO.  ret   *)
(* is the value the last pop_cir_queue or top_cir_queue returned.          *)
(***************************************************************************)
EXTENDS QueueOps

CONSTANT DataType   \* what the queue holds: pointers to key strings

VARIABLES
  items,   \* the keys waiting for an answer, oldest first
  ret      \* the last value handed to a caller

vars == << items, ret >>

Init ==
  /\ items = << >>
  /\ ret = NULL

Push(x) ==
  /\ items' = PushQ(items, x)
  /\ UNCHANGED ret

Pop ==
  /\ ret' = FirstQ(items)
  /\ items' = PopQ(items)

Top ==
  /\ ret' = FirstQ(items)
  /\ UNCHANGED items

Clear ==
  /\ items' = << >>
  /\ UNCHANGED ret

Next ==
  \/ \E x \in DataType : Push(x)
  \/ Pop
  \/ Top
  \/ Clear

Spec == Init /\ [][Next]_vars
=============================================================================
