--------------------------- MODULE CirQueueProofs ---------------------------
(***************************************************************************)
(* CirQueue for every QUE_SIZE >= 2 and every set of keys: the inductive   *)
(* invariant of the array representation, and the refinement of the        *)
(* bounded FIFO of FifoQueue.                                              *)
(***************************************************************************)
EXTENDS CirQueue, SequenceTheorems, TLAPS

\* The increment modulo QUE_SIZE of both indices, without the modulo.
LEMMA SuccValue ==
  ASSUME NEW i \in Slots
  PROVE  Succ(i) = IF i + 1 < QUE_SIZE THEN i + 1 ELSE 0
  <1>1. CASE i + 1 < QUE_SIZE
    <2>1. (i + 1) % QUE_SIZE = i + 1
      BY <1>1, QueSizeAssumption, SMT DEF Slots
    <2>2. QED
      BY <1>1, <2>1 DEF Succ
  <1>2. CASE i + 1 = QUE_SIZE
    <2>1. QUE_SIZE % QUE_SIZE = 0
      BY QueSizeAssumption, SMT
    <2>2. QED
      BY <1>2, <2>1, QueSizeAssumption DEF Succ, Slots
  <1>3. QED
    BY <1>1, <1>2, QueSizeAssumption DEF Slots

-----------------------------------------------------------------------------
\* The inductive invariant: types, the counter against the indices, which
\* slots are in use, and the semaphore.
IInv == TypeOK /\ CountAgrees /\ LiveSlots /\ SemBalanced

\* front = rear, the test of is_empty_cir_queue, and count = 0 are the same,
\* because the queue never holds more than QUE_SIZE - 1 elements.
LEMMA EmptyIffNoElements ==
  ASSUME TypeOK, CountAgrees
  PROVE  is_empty_cir_queue <=> count = 0
  BY QueSizeAssumption
  DEF TypeOK, CountAgrees, SlotOf, Slots, Capacity, is_empty_cir_queue

\* A slot is among the n slots from f on when its distance from f is less
\* than n.
LEMMA OccupiedDistance ==
  ASSUME NEW f \in Slots, NEW n \in 0 .. Capacity, NEW s \in Slots
  PROVE  s \in Occupied(f, n) <=> (IF s >= f THEN s - f ELSE s - f + QUE_SIZE) < n
  <1> DEFINE d == IF s >= f THEN s - f ELSE s - f + QUE_SIZE
  <1>1. d \in 0 .. QUE_SIZE - 1 /\ s = SlotOf(f, d)
    BY QueSizeAssumption DEF Slots, SlotOf
  <1>2. ASSUME NEW i \in 0 .. n - 1, s = SlotOf(f, i)
        PROVE  i = d
    BY <1>2, QueSizeAssumption DEF Slots, SlotOf, Capacity
  <1>3. s \in Occupied(f, n) <=> \E i \in 0 .. n - 1 : s = SlotOf(f, i)
    BY DEF Occupied
  <1>4. d < n => d \in 0 .. n - 1
    BY <1>1, QueSizeAssumption DEF Capacity
  <1>5. (\E i \in 0 .. n - 1 : s = SlotOf(f, i)) => d < n
    BY <1>2 DEF Capacity
  <1>6. QED
    BY <1>1, <1>3, <1>4, <1>5

\* push_cir_queue, on a full queue and on one with room.
LEMMA PushInv ==
  ASSUME IInv, NEW x \in DataType, push_cir_queue(x)
  PROVE  IInv'
  <1>1. TypeOK'
    BY QueSizeAssumption, SuccValue
    DEF IInv, TypeOK, push_cir_queue, is_full_cir_queue, Capacity, Slots, CanEnter
  <1>2. CountAgrees'
    BY QueSizeAssumption, SuccValue
    DEF IInv, TypeOK, push_cir_queue, is_full_cir_queue, CountAgrees, SlotOf,
        Capacity, Slots
  <1>3. SemBalanced'
    BY DEF IInv, SemBalanced, push_cir_queue
  <1>4. ASSUME NEW s \in Slots
        PROVE  (data'[s] # NULL) <=> (s \in Occupied(front', count'))
    <2>1. /\ s \in Occupied(front, count) <=>
               (IF s >= front THEN s - front ELSE s - front + QUE_SIZE) < count
          /\ s \in Occupied(front', count') <=>
               (IF s >= front' THEN s - front' ELSE s - front' + QUE_SIZE) < count'
      BY <1>1, OccupiedDistance DEF IInv, TypeOK
    <2>2. (data[s] # NULL) <=> (s \in Occupied(front, count))
      BY DEF IInv, LiveSlots
    <2>3. QED
      BY <2>1, <2>2, QueSizeAssumption, NullAssumption
      DEF IInv, TypeOK, push_cir_queue, CountAgrees, SlotOf, Slots, Capacity,
          is_full_cir_queue
  <1>5. QED
    BY <1>1, <1>2, <1>3, <1>4 DEF IInv, LiveSlots

\* The removal that pop_cir_queue and the loop of clear_queue share.
LEMMA RemoveFrontInv ==
  ASSUME TypeOK, CountAgrees, LiveSlots, ~is_empty_cir_queue, RemoveFront,
         UNCHANGED rear
  PROVE  /\ data' \in [Slots -> DataType \union {NULL}]
         /\ front' \in Slots
         /\ count' \in 0 .. Capacity
         /\ CountAgrees'
         /\ LiveSlots'
  <1>0. count > 0
    BY EmptyIffNoElements DEF TypeOK, Capacity
  <1>1. /\ data' \in [Slots -> DataType \union {NULL}]
        /\ front' \in Slots
        /\ count' \in 0 .. Capacity
    BY <1>0, QueSizeAssumption, SuccValue
    DEF TypeOK, RemoveFront, Capacity, Slots
  <1>2. CountAgrees'
    <2>1. /\ front' = Succ(front) /\ count' = count - 1 /\ rear' = rear
          /\ rear = SlotOf(front, count)
      BY DEF RemoveFront, CountAgrees
    <2>2. /\ QUE_SIZE \in Nat /\ front \in 0 .. QUE_SIZE - 1
          /\ count \in 1 .. QUE_SIZE - 1
      BY <1>0, QueSizeAssumption DEF TypeOK, Slots, Capacity
    <2>3. Succ(front) = IF front + 1 < QUE_SIZE THEN front + 1 ELSE 0
      BY SuccValue DEF TypeOK
    <2>4. SlotOf(Succ(front), count - 1) = SlotOf(front, count)
      BY <2>2, <2>3 DEF SlotOf
    <2>5. QED
      BY <2>1, <2>4 DEF CountAgrees
  <1>3. ASSUME NEW s \in Slots
        PROVE  (data'[s] # NULL) <=> (s \in Occupied(front', count'))
    <2>1. /\ s \in Occupied(front, count) <=>
               (IF s >= front THEN s - front ELSE s - front + QUE_SIZE) < count
          /\ s \in Occupied(front', count') <=>
               (IF s >= front' THEN s - front' ELSE s - front' + QUE_SIZE) < count'
      BY <1>1, OccupiedDistance DEF TypeOK
    <2>2. (data[s] # NULL) <=> (s \in Occupied(front, count))
      BY DEF LiveSlots
    <2>3. QED
      BY <1>0, <2>1, <2>2, QueSizeAssumption, SuccValue
      DEF TypeOK, RemoveFront, Slots, Capacity
  <1>4. QED
    BY <1>1, <1>2, <1>3 DEF LiveSlots

\* pop_cir_queue, on an empty queue and on one with elements.
LEMMA PopInv ==
  ASSUME IInv, pop_cir_queue
  PROVE  IInv'
  <1>1. CASE is_empty_cir_queue
    <2>1. UNCHANGED << data, front, rear, count, sem, pc >> /\ ret' = NULL
      BY <1>1 DEF pop_cir_queue
    <2>2. QED
      BY <2>1 DEF IInv, TypeOK, CountAgrees, LiveSlots, SemBalanced
  <1>2. CASE ~is_empty_cir_queue
    <2>1. RemoveFront /\ ret' = data[front] /\ UNCHANGED << rear, sem, pc >>
      BY <1>2 DEF pop_cir_queue
    <2>2. /\ data' \in [Slots -> DataType \union {NULL}]
          /\ front' \in Slots
          /\ count' \in 0 .. Capacity
          /\ CountAgrees'
          /\ LiveSlots'
      BY <1>2, <2>1, RemoveFrontInv DEF IInv
    <2>3. TypeOK'
      BY <2>1, <2>2 DEF IInv, TypeOK
    <2>4. SemBalanced'
      BY <2>1 DEF IInv, SemBalanced
    <2>5. QED
      BY <2>2, <2>3, <2>4 DEF IInv
  <1>3. QED
    BY <1>1, <1>2

\* One iteration of the loop of clear_queue.
LEMMA ClearStepInv ==
  ASSUME IInv, ClearStep
  PROVE  IInv'
  <1>1. ~is_empty_cir_queue /\ RemoveFront /\ UNCHANGED << rear, sem, pc, ret >>
    BY DEF ClearStep
  <1>2. /\ data' \in [Slots -> DataType \union {NULL}]
        /\ front' \in Slots
        /\ count' \in 0 .. Capacity
        /\ CountAgrees'
        /\ LiveSlots'
    BY <1>1, RemoveFrontInv DEF IInv
  <1>3. TypeOK' /\ SemBalanced'
    BY <1>1, <1>2 DEF IInv, TypeOK, SemBalanced
  <1>4. QED
    BY <1>2, <1>3 DEF IInv

\* The steps that leave the array and its indices alone.
LEMMA SteadyInv ==
  ASSUME IInv,
         top_cir_queue \/ ClearBegin \/ ClearEnd \/ UNCHANGED vars
  PROVE  IInv'
  <1>1. UNCHANGED << data, front, rear, count >>
    BY DEF top_cir_queue, ClearBegin, ClearEnd, vars
  <1>2. CountAgrees' /\ LiveSlots'
    BY <1>1 DEF IInv, CountAgrees, LiveSlots
  <1>3. SemBalanced'
    BY QueSizeAssumption
    DEF IInv, SemBalanced, TypeOK, top_cir_queue, ClearBegin, ClearEnd, vars, CanEnter
  <1>4. pc' \in {"idle", "clear"}
    BY DEF IInv, TypeOK, top_cir_queue, ClearBegin, ClearEnd, vars
  <1>5. sem' \in Nat
    BY <1>3, <1>4, QueSizeAssumption DEF SemBalanced
  <1>6. ret' \in DataType \union {NULL}
    BY DEF IInv, TypeOK, top_cir_queue, ClearBegin, ClearEnd, vars
  <1>7. TypeOK'
    BY <1>1, <1>4, <1>5, <1>6 DEF IInv, TypeOK
  <1>8. QED
    BY <1>2, <1>3, <1>7 DEF IInv

\* init_cir_queue establishes the invariant.
LEMMA InitInv ==
  ASSUME Init
  PROVE  IInv
  <1>1. TypeOK /\ CountAgrees /\ SemBalanced
    BY QueSizeAssumption
    DEF Init, TypeOK, CountAgrees, SemBalanced, SemInit, SlotOf, Slots, Capacity
  <1>2. Occupied(0, 0) = {}
    BY DEF Occupied
  <1>3. LiveSlots
    BY <1>2 DEF Init, LiveSlots
  <1>4. QED
    BY <1>1, <1>3 DEF IInv

\* Every step of the queue keeps the invariant.
LEMMA NextInv ==
  ASSUME IInv, [Next]_vars
  PROVE  IInv'
  <1>1. CASE \E x \in DataType : push_cir_queue(x)
    BY <1>1, PushInv
  <1>2. CASE pop_cir_queue
    BY <1>2, PopInv
  <1>3. CASE ClearStep
    BY <1>3, ClearStepInv
  <1>4. CASE top_cir_queue \/ ClearBegin \/ ClearEnd \/ UNCHANGED vars
    BY <1>4, SteadyInv
  <1>5. QED
    BY <1>1, <1>2, <1>3, <1>4 DEF Next

\* For every QUE_SIZE and every set of keys: cir_queue.c keeps its counter
\* and its two indices in step, has a key in exactly the slots between them,
\* and returns every unit of queue_sem it takes.
THEOREM QueueInvariant == Spec => []IInv
  <1>1. Init => IInv
    BY InitInv
  <1>2. IInv /\ [Next]_vars => IInv'
    BY NextInv
  <1>3. QED
    BY <1>1, <1>2, PTL DEF Spec

\* The counter agrees with the indices in every reachable state.
THEOREM CountAlwaysAgrees == Spec => []CountAgrees
  <1>1. IInv => CountAgrees
    BY DEF IInv
  <1>2. QED
    BY <1>1, QueueInvariant, PTL

\* No slot outside front .. rear keeps a key, and none inside has lost its.
THEOREM SlotsAlwaysLive == Spec => []LiveSlots
  <1>1. IInv => LiveSlots
    BY DEF IInv
  <1>2. QED
    BY <1>1, QueueInvariant, PTL

\* The indices stay within the array and the counter within what it can hold,
\* with the arithmetic modulo QUE_SIZE of push_cir_queue and pop_cir_queue.
THEOREM QueueTypes == Spec => []TypeOK
  <1>1. IInv => TypeOK
    BY DEF IInv
  <1>2. QED
    BY <1>1, QueueInvariant, PTL

\* queue_sem is back at its initial value whenever no function of the queue runs,
\* and one below it inside the loop of clear_queue, whatever the calls before.
THEOREM SemAlwaysBalanced == Spec => []SemBalanced
  <1>1. IInv => SemBalanced
    BY DEF IInv
  <1>2. QED
    BY <1>1, QueueInvariant, PTL

-----------------------------------------------------------------------------
\* The keys in the n slots from slot f on, as Contents lists them.
Window(d, f, n) == [i \in 1 .. n |-> d[SlotOf(f, i - 1)]]

\* A window is a sequence of keys, and its elements are read off the array.
LEMMA WindowSeq ==
  ASSUME NEW d \in [Slots -> DataType \union {NULL}],
         NEW f \in Slots, NEW n \in 0 .. Capacity
  PROVE  /\ Window(d, f, n) \in Seq(DataType \union {NULL})
         /\ Len(Window(d, f, n)) = n
         /\ \A i \in 1 .. n : Window(d, f, n)[i] = d[SlotOf(f, i - 1)]
  <1>0. n \in Nat
    BY QueSizeAssumption DEF Capacity
  <1>1. \A i \in 1 .. n : SlotOf(f, i - 1) \in Slots
    BY QueSizeAssumption DEF Slots, Capacity, SlotOf
  <1>2. Window(d, f, n) \in [1 .. n -> DataType \union {NULL}]
    BY <1>1 DEF Window
  <1>3. Window(d, f, n) \in Seq(DataType \union {NULL}) /\ Len(Window(d, f, n)) = n
    BY <1>0, <1>2
  <1>4. QED
    BY <1>3 DEF Window

\* Writing x into the slot after the window appends x to it.
LEMMA WindowPush ==
  ASSUME NEW d \in [Slots -> DataType \union {NULL}], NEW x \in DataType,
         NEW f \in Slots, NEW n \in 0 .. Capacity, n < Capacity
  PROVE  Window([d EXCEPT ![SlotOf(f, n)] = x], f, n + 1)
           = Append(Window(d, f, n), x)
  <1> DEFINE e == [d EXCEPT ![SlotOf(f, n)] = x]
  <1>1. SlotOf(f, n) \in Slots /\ n + 1 \in 0 .. Capacity
    BY QueSizeAssumption DEF Slots, Capacity, SlotOf
  <1>2. e \in [Slots -> DataType \union {NULL}]
    BY <1>1
  <1>3. /\ Window(e, f, n + 1) \in Seq(DataType \union {NULL})
        /\ Len(Window(e, f, n + 1)) = n + 1
        /\ \A i \in 1 .. n + 1 : Window(e, f, n + 1)[i] = e[SlotOf(f, i - 1)]
    <2> HIDE DEF e
    <2>1. QED
      BY <1>1, <1>2, WindowSeq
  <1>4. /\ Window(d, f, n) \in Seq(DataType \union {NULL})
        /\ Len(Window(d, f, n)) = n
        /\ \A i \in 1 .. n : Window(d, f, n)[i] = d[SlotOf(f, i - 1)]
    BY WindowSeq
  <1>5. \A i \in 1 .. n : /\ SlotOf(f, i - 1) \in Slots
                          /\ SlotOf(f, i - 1) # SlotOf(f, n)
    BY QueSizeAssumption DEF Slots, Capacity, SlotOf
  <1>6. \A i \in 1 .. n : e[SlotOf(f, i - 1)] = d[SlotOf(f, i - 1)]
    BY <1>5
  <1>7. e[SlotOf(f, n)] = x
    BY <1>1
  <1>8. n + 1 - 1 = n
    OBVIOUS
  <1> HIDE DEF e
  <1>9. /\ Append(Window(d, f, n), x) \in Seq(DataType \union {NULL})
        /\ Len(Append(Window(d, f, n), x)) = n + 1
    BY <1>4
  <1>10. \A i \in 1 .. n + 1 :
            Append(Window(d, f, n), x)[i] = Window(e, f, n + 1)[i]
    BY <1>3, <1>4, <1>6, <1>7, <1>8, QueSizeAssumption DEF Capacity
  <1>11. Window(e, f, n + 1) = Append(Window(d, f, n), x)
    <2> DEFINE s == Window(e, f, n + 1)
               t == Append(Window(d, f, n), x)
    <2>1. s \in Seq(DataType \union {NULL}) /\ t \in Seq(DataType \union {NULL})
      BY <1>3, <1>9
    <2>2. Len(s) = Len(t) /\ \A i \in 1 .. Len(s) : s[i] = t[i]
      BY <1>3, <1>9, <1>10, Zenon
    <2> HIDE DEF s, t
    <2>3. s = t
      BY <2>1, <2>2, SeqEqual
    <2>4. QED
      BY <2>3 DEF s, t
  <1>12. QED
    BY <1>11 DEF e

\* Moving front on by one slot takes the head off the window.
LEMMA WindowPop ==
  ASSUME NEW d \in [Slots -> DataType \union {NULL}],
         NEW f \in Slots, NEW n \in 0 .. Capacity, n > 0
  PROVE  /\ Window(d, f, n) # << >>
         /\ Head(Window(d, f, n)) = d[f]
         /\ Window([d EXCEPT ![f] = NULL], Succ(f), n - 1) = Tail(Window(d, f, n))
  <1> DEFINE e == [d EXCEPT ![f] = NULL]
  <1>1. Succ(f) \in Slots /\ n - 1 \in 0 .. Capacity
    BY QueSizeAssumption, SuccValue DEF Slots, Capacity
  <1>2. e \in [Slots -> DataType \union {NULL}]
    OBVIOUS
  <1>3. /\ Window(e, Succ(f), n - 1) \in Seq(DataType \union {NULL})
        /\ Len(Window(e, Succ(f), n - 1)) = n - 1
        /\ \A i \in 1 .. n - 1 :
             Window(e, Succ(f), n - 1)[i] = e[SlotOf(Succ(f), i - 1)]
    <2> HIDE DEF e
    <2>1. QED
      BY <1>1, <1>2, WindowSeq
  <1>4. /\ Window(d, f, n) \in Seq(DataType \union {NULL})
        /\ Len(Window(d, f, n)) = n
        /\ \A i \in 1 .. n : Window(d, f, n)[i] = d[SlotOf(f, i - 1)]
    BY WindowSeq
  <1>5. \A i \in 1 .. n - 1 : /\ SlotOf(Succ(f), i - 1) = SlotOf(f, i)
                              /\ SlotOf(f, i) \in Slots
                              /\ SlotOf(f, i) # f
    BY QueSizeAssumption, SuccValue DEF Slots, Capacity, SlotOf
  <1>6. \A i \in 1 .. n - 1 : e[SlotOf(Succ(f), i - 1)] = d[SlotOf(f, i)]
    BY <1>5
  <1>7. SlotOf(f, 0) = f
    BY QueSizeAssumption DEF Slots, SlotOf
  <1> HIDE DEF e
  <1>8. Window(d, f, n) # << >> /\ Head(Window(d, f, n)) = d[f]
    BY <1>4, <1>7, QueSizeAssumption DEF Capacity
  <1>9. /\ Tail(Window(d, f, n)) \in Seq(DataType \union {NULL})
        /\ Len(Tail(Window(d, f, n))) = n - 1
        /\ \A i \in 1 .. n - 1 : Tail(Window(d, f, n))[i] = Window(d, f, n)[i + 1]
    BY <1>4, <1>8, QueSizeAssumption DEF Capacity
  <1>10. \A i \in 1 .. n - 1 : Window(d, f, n)[i + 1] = d[SlotOf(f, i)]
    BY <1>4, QueSizeAssumption DEF Capacity
  <1>11. \A i \in 1 .. n - 1 :
            Window(e, Succ(f), n - 1)[i] = Tail(Window(d, f, n))[i]
    BY <1>3, <1>6, <1>9, <1>10
  <1>12. Window(e, Succ(f), n - 1) = Tail(Window(d, f, n))
    <2> DEFINE s == Window(e, Succ(f), n - 1)
               t == Tail(Window(d, f, n))
    <2>1. s \in Seq(DataType \union {NULL}) /\ t \in Seq(DataType \union {NULL})
      BY <1>3, <1>9
    <2>2. Len(s) = Len(t) /\ \A i \in 1 .. Len(s) : s[i] = t[i]
      BY <1>3, <1>9, <1>11, Zenon
    <2> HIDE DEF s, t
    <2>3. s = t
      BY <2>1, <2>2, SeqEqual
    <2>4. QED
      BY <2>3 DEF s, t
  <1>13. QED
    BY <1>8, <1>12 DEF e

\* What a caller of the idle queue sees is the window from front on.
LEMMA ContentsIdle ==
  ASSUME pc = "idle"
  PROVE  Contents = Window(data, front, count)
  BY DEF Contents, Window

\* push_cir_queue is a Push of the abstract queue.
LEMMA PushRefines ==
  ASSUME IInv, NEW x \in DataType, push_cir_queue(x)
  PROVE  Fifo!Push(x)
  <1>1. pc = "idle" /\ pc' = "idle" /\ UNCHANGED ret
    BY DEF push_cir_queue, CanEnter
  <1>2. Contents = Window(data, front, count) /\ Contents' = Window(data', front', count')
    BY <1>1 DEF Contents, Window
  <1>3. Len(Contents) = count
    BY <1>2, WindowSeq DEF IInv, TypeOK
  <1>4. CASE is_full_cir_queue
    <2>1. Contents' = Contents
      BY <1>2, <1>4 DEF push_cir_queue
    <2>2. QED
      BY <1>1, <1>3, <1>4, <2>1
      DEF Fifo!Push, Fifo!PushQ, Fifo!IsFullQ, Fifo!Capacity, is_full_cir_queue
  <1>5. CASE ~is_full_cir_queue
    <2>1. count < Capacity /\ rear = SlotOf(front, count)
      BY <1>5, QueSizeAssumption
      DEF IInv, TypeOK, CountAgrees, is_full_cir_queue, Capacity
    <2>2. Contents' = Window([data EXCEPT ![SlotOf(front, count)] = x], front, count + 1)
      BY <1>2, <1>5, <2>1 DEF push_cir_queue
    <2>3. Contents' = Append(Contents, x)
      BY <1>2, <2>1, <2>2, WindowPush DEF IInv, TypeOK
    <2>4. QED
      BY <1>1, <1>3, <1>5, <2>3
      DEF Fifo!Push, Fifo!PushQ, Fifo!IsFullQ, Fifo!Capacity, is_full_cir_queue
  <1>6. QED
    BY <1>4, <1>5

\* An empty queue has no contents, and one with elements has its head in
\* data[front].
LEMMA ContentsHead ==
  ASSUME IInv, pc = "idle"
  PROVE  /\ is_empty_cir_queue => Contents = << >>
         /\ ~is_empty_cir_queue => Contents # << >> /\ Head(Contents) = data[front]
  <1>1. is_empty_cir_queue <=> count = 0
    BY EmptyIffNoElements DEF IInv
  <1>2. Contents = Window(data, front, count)
    BY ContentsIdle
  <1>3. CASE count = 0
    <2>1. Contents \in Seq(DataType \union {NULL}) /\ Len(Contents) = 0
      BY <1>2, <1>3, WindowSeq DEF IInv, TypeOK
    <2>2. QED
      BY <1>1, <1>3, <2>1
  <1>4. CASE count # 0
    <2>1. count > 0
      BY <1>4 DEF IInv, TypeOK, Capacity
    <2>2. Contents # << >> /\ Head(Contents) = data[front]
      BY <1>2, <2>1, WindowPop DEF IInv, TypeOK
    <2>3. QED
      BY <1>1, <1>4, <2>2
  <1>5. QED
    BY <1>3, <1>4

\* pop_cir_queue is a Pop of the abstract queue.
LEMMA PopRefines ==
  ASSUME IInv, pop_cir_queue
  PROVE  Fifo!Pop
  <1>1. pc = "idle" /\ pc' = "idle"
    BY DEF pop_cir_queue, CanEnter
  <1>2. Contents = Window(data, front, count) /\ Contents' = Window(data', front', count')
    BY <1>1 DEF Contents, Window
  <1>3. CASE is_empty_cir_queue
    <2>1. Contents' = Contents /\ ret' = NULL
      BY <1>2, <1>3 DEF pop_cir_queue
    <2>2. Contents = << >>
      BY <1>1, <1>3, ContentsHead
    <2>3. QED
      BY <2>1, <2>2 DEF Fifo!Pop, Fifo!PopQ, Fifo!FirstQ, Fifo!IsEmptyQ
  <1>4. CASE ~is_empty_cir_queue
    <2>1. count > 0
      BY <1>4, EmptyIffNoElements DEF IInv, TypeOK, Capacity
    <2>2. Contents' = Window([data EXCEPT ![front] = NULL], Succ(front), count - 1)
      BY <1>2, <1>4 DEF pop_cir_queue, RemoveFront
    <2>3. Contents' = Tail(Contents)
      BY <1>2, <2>1, <2>2, WindowPop DEF IInv, TypeOK
    <2>4. Contents # << >> /\ ret' = Head(Contents)
      BY <1>1, <1>4, ContentsHead DEF pop_cir_queue
    <2>5. QED
      BY <2>3, <2>4 DEF Fifo!Pop, Fifo!PopQ, Fifo!FirstQ, Fifo!IsEmptyQ
  <1>5. QED
    BY <1>3, <1>4

\* top_cir_queue is a Top of the abstract queue.
LEMMA TopRefines ==
  ASSUME IInv, top_cir_queue
  PROVE  Fifo!Top
  <1>1. pc = "idle"
    BY DEF top_cir_queue, CanEnter
  <1>2. Contents' = Contents
    BY DEF top_cir_queue, Contents
  <1>3. ret' = Fifo!FirstQ(Contents)
    BY <1>1, ContentsHead DEF top_cir_queue, Fifo!FirstQ, Fifo!IsEmptyQ
  <1>4. QED
    BY <1>2, <1>3 DEF Fifo!Top

\* Entering clear_queue is the abstract Clear; its loop and its exit change
\* nothing a caller can see.
LEMMA ClearRefines ==
  ASSUME IInv, ClearBegin \/ ClearStep \/ ClearEnd
  PROVE  Fifo!Clear \/ UNCHANGED << Contents, ret >>
  <1>1. CASE ClearBegin
    BY <1>1 DEF ClearBegin, Contents, Fifo!Clear
  <1>2. CASE ClearStep
    BY <1>2 DEF ClearStep, Contents
  <1>3. CASE ClearEnd
    <2>1. count = 0
      BY <1>3, EmptyIffNoElements DEF IInv, ClearEnd
    <2>2. Window(data, front, 0) \in Seq(DataType \union {NULL}) /\ Len(Window(data, front, 0)) = 0
      BY <2>1, WindowSeq DEF IInv, TypeOK
    <2>3. Window(data, front, 0) = << >>
      BY <2>2
    <2>4. Contents = << >> /\ Contents' = Window(data, front, 0)
      BY <1>3, <2>1 DEF ClearEnd, Contents, Window
    <2>5. QED
      BY <1>3, <2>3, <2>4 DEF ClearEnd
  <1>4. QED
    BY <1>1, <1>2, <1>3

\* The array of cir_queue.c implements the bounded FIFO for every QUE_SIZE:
\* keys come out in the order they went in, a push on a full queue is
\* dropped, and clear_queue empties the queue in one visible step.
THEOREM QueueImplementsFifo == Spec => ImplementsFifo
  <1>1. Init => Fifo!Init
    <2> SUFFICES ASSUME Init PROVE Contents = << >> /\ ret = NULL
      BY DEF Fifo!Init
    <2>1. IInv
      BY InitInv
    <2>2. QED
      BY <2>1, ContentsHead DEF Init, is_empty_cir_queue
  <1>2. IInv /\ [Next]_vars => [Fifo!Next]_(Fifo!vars)
    <2> SUFFICES ASSUME IInv, [Next]_vars PROVE Fifo!Next \/ UNCHANGED << Contents, ret >>
      BY DEF Fifo!vars
    <2>1. CASE \E x \in DataType : push_cir_queue(x)
      BY <2>1, PushRefines DEF Fifo!Next
    <2>2. CASE pop_cir_queue
      BY <2>2, PopRefines DEF Fifo!Next
    <2>3. CASE top_cir_queue
      BY <2>3, TopRefines DEF Fifo!Next
    <2>4. CASE ClearBegin \/ ClearStep \/ ClearEnd
      BY <2>4, ClearRefines DEF Fifo!Next
    <2>5. CASE UNCHANGED vars
      BY <2>5 DEF vars, Contents
    <2>6. QED
      BY <2>1, <2>2, <2>3, <2>4, <2>5 DEF Next
  <1>3. QED
    BY <1>1, <1>2, QueueInvariant, PTL DEF Spec, ImplementsFifo, Fifo!Spec
=============================================================================
