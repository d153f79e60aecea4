------------------------------ MODULE CirQueue ------------------------------
(***************************************************************************)
(* The circular queue of proxy/cir_queue.c, with its array, its two        *)
(* indices, its separate element counter and its semaphore.                *)
(*                                                                         *)
(* The proxy is a single thread, so each function runs to its end before   *)
(* the next one starts.  push, pop and top release the semaphore they take *)
(* before they return and are one step each.  clear_queue is different: it *)
(* holds queue_sem across its loop while is_empty_cir_queue, called in the *)
(* loop condition, waits on the same semaphore.  Its loop is modelled      *)
(* iteration by iteration with the value of the semaphore.                 *)
(***************************************************************************)
EXTENDS QueueOps

CONSTANT DataType

ASSUME NullAssumption == NULL \notin DataType

VARIABLES
  data,    \* the array of QUE_SIZE pointers
  front,   \* index of the oldest element
  rear,    \* index of the first free slot
  count,   \* number of elements
  sem,     \* value of queue_sem
  pc,      \* "idle", or "clear" inside the loop of clear_queue
  ret      \* value returned by the last pop or top

vars == << data, front, rear, count, sem, pc, ret >>

Slots == 0 .. QUE_SIZE - 1

TypeOK ==
  /\ data \in [Slots -> DataType \union {NULL}]
  /\ front \in Slots
  /\ rear \in Slots
  /\ count \in 0 .. Capacity
  /\ sem \in Nat
  /\ pc \in {"idle", "clear"}
  /\ ret \in DataType \union {NULL}

-----------------------------------------------------------------------------
\* Slips: each definition named Slip... stands in for the one it precedes, to
\* confirm that the property it should break does notice it.

\* sem_init(&queue_sem, 0, 1), as for a mutex.
SlipSemInit == 1

\* sem_init(&queue_sem, 0, QUE_SIZE): a counting semaphore, not a mutex.
SemInit == QUE_SIZE

\* init_cir_queue
Init ==
  /\ data = [i \in Slots |-> NULL]
  /\ front = 0
  /\ rear = 0
  /\ count = 0
  /\ sem = SemInit
  /\ pc = "idle"
  /\ ret = NULL

Succ(i) == (i + 1) % QUE_SIZE

is_empty_cir_queue == front = rear

\* The queue counts as full one element too late.
SlipFull == count = QUE_SIZE

is_full_cir_queue == count = QUE_SIZE - 1

\* A call that takes and returns the semaphore needs one unit of it.
CanEnter == pc = "idle" /\ sem > 0

push_cir_queue(x) ==
  /\ CanEnter
  /\ IF is_full_cir_queue
     THEN UNCHANGED << data, rear, count >>
     ELSE /\ count' = count + 1
          /\ data' = [data EXCEPT ![rear] = x]
          /\ rear' = Succ(rear)
  /\ UNCHANGED << front, sem, pc, ret >>

\* count-- forgotten.
SlipRemoveNoCount ==
  /\ data' = [data EXCEPT ![front] = NULL]
  /\ count' = count
  /\ front' = Succ(front)

\* q->data[q->front] = 0 after front has moved on.
SlipRemoveNextSlot ==
  /\ data' = [data EXCEPT ![Succ(front)] = NULL]
  /\ count' = count - 1
  /\ front' = Succ(front)

\* Taking the oldest element out: shared by pop_cir_queue and clear_queue.
RemoveFront ==
  /\ data' = [data EXCEPT ![front] = NULL]
  /\ count' = count - 1
  /\ front' = Succ(front)

\* The element is read after front has moved on.
SlipPop ==
  /\ CanEnter
  /\ IF is_empty_cir_queue
     THEN ret' = NULL /\ UNCHANGED << data, front, count >>
     ELSE ret' = data[Succ(front)] /\ RemoveFront
  /\ UNCHANGED << rear, sem, pc >>

pop_cir_queue ==
  /\ CanEnter
  /\ IF is_empty_cir_queue
     THEN ret' = NULL /\ UNCHANGED << data, front, count >>
     ELSE ret' = data[front] /\ RemoveFront
  /\ UNCHANGED << rear, sem, pc >>

top_cir_queue ==
  /\ CanEnter
  /\ ret' = IF is_empty_cir_queue THEN NULL ELSE data[front]
  /\ UNCHANGED << data, front, rear, count, sem, pc >>

\* clear_queue: the outer sem_wait ...
ClearBegin ==
  /\ CanEnter
  /\ sem' = sem - 1
  /\ pc' = "clear"
  /\ UNCHANGED << data, front, rear, count, ret >>

\* ... one iteration, whose condition takes the semaphore a second time ...
ClearStep ==
  /\ pc = "clear"
  /\ sem > 0
  /\ ~is_empty_cir_queue
  /\ RemoveFront
  /\ UNCHANGED << rear, sem, pc, ret >>

\* The outer sem_post forgotten.
SlipClearEnd ==
  /\ pc = "clear"
  /\ sem > 0
  /\ is_empty_cir_queue
  /\ pc' = "idle"
  /\ UNCHANGED << data, front, rear, count, sem, ret >>

\* ... and the exit of the loop with the outer sem_post.
ClearEnd ==
  /\ pc = "clear"
  /\ sem > 0
  /\ is_empty_cir_queue
  /\ sem' = sem + 1
  /\ pc' = "idle"
  /\ UNCHANGED << data, front, rear, count, ret >>

Next ==
  \/ \E x \in DataType : push_cir_queue(x)
  \/ pop_cir_queue
  \/ top_cir_queue
  \/ ClearBegin
  \/ ClearStep
  \/ ClearEnd

Spec == Init /\ [][Next]_vars

\* The thread that is inside clear_queue keeps running.
FairSpec == Spec /\ WF_vars(ClearStep) /\ WF_vars(ClearEnd)

-----------------------------------------------------------------------------
\* The slot i places after slot f.
SlotOf(f, i) == IF f + i < QUE_SIZE THEN f + i ELSE f + i - QUE_SIZE

\* The n slots from slot f on.
Occupied(f, n) == {SlotOf(f, i) : i \in 0 .. n - 1}

\* The separate counter always agrees with the two indices: emptiness is
\* decided by front = rear and fullness by count, and a drift between them
\* would let push overwrite an unanswered key or pop return a stale one.
CountAgrees ==
  rear = SlotOf(front, count)

\* Exactly the slots from front up to rear hold a key; every other slot was
\* reset to 0 by the pop or clear that emptied it.
LiveSlots ==
  \A s \in Slots : (data[s] # NULL) <=> (s \in Occupied(front, count))

\* Every sem_wait has been matched by a sem_post whenever no function of the
\* queue is running, also after clear_queue, which takes it twice.
SemBalanced ==
  sem = IF pc = "clear" THEN QUE_SIZE - 1 ELSE QUE_SIZE

\* The elements from oldest to newest.  Inside clear_queue the queue counts
\* as empty already: no caller can see it before the loop has finished.
Contents ==
  IF pc = "clear" THEN << >>
  ELSE [i \in 1 .. count |-> data[SlotOf(front, i - 1)]]

Fifo == INSTANCE FifoQueue WITH items <- Contents

\* The array implementation is a bounded FIFO: pop and top return the keys
\* in the order they were pushed, and a push on a full queue changes nothing.
ImplementsFifo == Fifo!Spec

\* clear_queue returns: holding queue_sem while its own loop condition waits
\* on it never blocks the proxy.
ClearReturns == pc = "clear" ~> pc = "idle"
=============================================================================
