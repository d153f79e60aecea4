------------------------------- MODULE NatSets ------------------------------
(* The minimum of a set of numbers, induction over its members, and by it   *)
(* what FlattenSeq of a sequence of sequences is.                           *)
EXTENDS Naturals, Sequences, SequencesExt, WellFoundedInduction, TLAPS

\* A set of natural numbers that is not empty has a minimum: the lowest free
\* descriptor, the first point of the ring.
LEMMA MinOfNats ==
  ASSUME NEW S, S \subseteq Nat, S # {}
  PROVE  /\ Min(S) \in S
         /\ \A y \in S : Min(S) <= y
  <1> DEFINE Less == {p \in Nat \X Nat : p[1] < p[2]}
  <1>1. IsWellFoundedOn(Less, Nat)
    BY NatLessThanWellFounded, Zenon DEF OpToRel
  <1>2. PICK x \in S : \A y \in S : <<y, x>> \notin Less
    <2> HIDE DEF Less
    <2> QED
      BY <1>1, WFMin
  <1>3. ASSUME NEW y \in S PROVE x <= y
    <2>1. <<y, x>> \notin Less
      BY <1>2
    <2>2. ~(y < x)
      BY <2>1
    <2>3. QED
      BY <2>2
  <1>4. QED
    BY <1>3 DEF Min

\* Induction over the members of a set: what holds at 0 and goes on from one
\* number to the next up to n holds up to n.
LEMMA StepByStep ==
  ASSUME NEW n \in Nat, NEW S, 0 \in S,
         \A i \in 0 .. n : i # n /\ i \in S => i + 1 \in S
  PROVE  0 .. n \subseteq S
  <1> DEFINE Out == {i \in 0 .. n : i \notin S}
  <1>1. SUFFICES ASSUME Out # {} PROVE FALSE
    OBVIOUS
  <1>2. PICK m \in Out : \A y \in Out : m <= y
    <2>1. Out \subseteq Nat
      OBVIOUS
    <2> HIDE DEF Out
    <2>2. QED
      BY <1>1, <2>1, MinOfNats
  <1>3. m \in 0 .. n /\ m \notin S /\ m # 0
    BY <1>2
  <1>4. m - 1 \in 0 .. n /\ m - 1 # n /\ m - 1 + 1 = m /\ ~(m <= m - 1)
    BY <1>3
  <1>5. m - 1 \in S
    BY <1>2, <1>4
  <1>6. QED
    BY <1>3, <1>4, <1>5

\* The sequences of seqs put together up to the i-th.
Joins(F, seqs) == F = [i \in 1..Len(seqs) |-> IF i = 1 THEN seqs[i] ELSE F[i - 1] \o seqs[i]]

LEMMA JoinsExist ==
  ASSUME NEW seqs, Len(seqs) \in Nat
  PROVE  \E F : Joins(F, seqs)
  <1> DEFINE n == Len(seqs)
             Part(F, k) == F = [i \in 1..k |-> IF i = 1 THEN seqs[i] ELSE F[i - 1] \o seqs[i]]
             S == {k \in 0 .. n : \E F : Part(F, k)}
  <1>0. n \in Nat
    OBVIOUS
  <1> HIDE DEF n
  <1>1. 0 \in S
    <2>1. Part([i \in 1..0 |-> <<>>], 0)
      OBVIOUS
    <2>2. 0 \in 0 .. n
      BY <1>0
    <2> HIDE DEF Part
    <2>3. QED
      BY <2>1, <2>2
  <1>2. ASSUME NEW k \in 0 .. n, k # n, k \in S PROVE k + 1 \in S
    <2>1. PICK F : Part(F, k)
      BY <1>2
    <2> DEFINE Next1(G, i) == IF i = 1 THEN seqs[i] ELSE G[i - 1] \o seqs[i]
               E == [i \in 1..(k + 1) |-> IF i = k + 1 THEN Next1(F, i) ELSE F[i]]
    <2>2. ASSUME NEW i \in 1 .. k + 1 PROVE Next1(E, i) = Next1(F, i)
      <3>1. CASE i = 1
        BY <3>1
      <3>2. CASE i # 1
        <4>1. i - 1 \in 1 .. k + 1 /\ i - 1 # k + 1
          BY <1>0, <1>2, <3>2
        <4>2. E[i - 1] = F[i - 1]
          BY <4>1
        <4> HIDE DEF E
        <4>3. QED
          BY <4>2, Zenon
      <3>3. QED
        BY <3>1, <3>2
    <2> HIDE DEF Next1
    <2>3. ASSUME NEW i \in 1 .. k + 1 PROVE E[i] = Next1(E, i)
      <3>1. CASE i = k + 1
        BY <2>2, <3>1
      <3>2. CASE i # k + 1
        <4>1. i \in 1 .. k
          BY <1>0, <1>2, <3>2
        <4>2. F[i] = Next1(F, i)
          BY <2>1, <4>1 DEF Next1
        <4>3. QED
          BY <2>2, <3>2, <4>2
      <3>3. QED
        BY <3>1, <3>2
    <2>4. E = [i \in 1..(k + 1) |-> E[i]]
      OBVIOUS
    <2> HIDE DEF E
    <2>5. E = [i \in 1..(k + 1) |-> Next1(E, i)]
      BY <2>3, <2>4
    <2>6. Part(E, k + 1)
      BY <2>5 DEF Next1
    <2>7. k + 1 \in 0 .. n
      BY <1>0, <1>2
    <2>8. QED
      BY <2>6, <2>7
  <1> HIDE DEF S
  <1>3. 0 .. n \subseteq S
    BY <1>0, <1>1, <1>2, StepByStep
  <1>4. n \in S
    BY <1>0, <1>3
  <1>5. QED
    BY <1>4 DEF S, n, Joins

LEMMA JoinsAt ==
  ASSUME NEW F, NEW seqs, Joins(F, seqs), NEW i \in 1 .. Len(seqs)
  PROVE  F[i] = IF i = 1 THEN seqs[i] ELSE F[i - 1] \o seqs[i]
  BY DEF Joins

LEMMA FlattenJoins ==
  ASSUME NEW seqs, Len(seqs) \in Nat, Len(seqs) # 0
  PROVE  \E F : Joins(F, seqs) /\ FlattenSeq(seqs) = F[Len(seqs)]
  <1> DEFINE Body(F) == [i \in 1..Len(seqs) |-> IF i = 1 THEN seqs[i] ELSE F[i - 1] \o seqs[i]]
  <1>1. FlattenSeq(seqs) = (CHOOSE F : F = Body(F))[Len(seqs)]
    BY Zenon DEF FlattenSeq
  <1>2. ASSUME NEW F PROVE Joins(F, seqs) <=> F = Body(F)
    BY DEF Joins
  <1>3. \E F : F = Body(F)
    BY <1>2, JoinsExist
  <1>4. PICK F : F = (CHOOSE E : E = Body(E))
    OBVIOUS
  <1>5. F = Body(F)
    BY <1>3, <1>4
  <1>6. Joins(F, seqs)
    BY <1>2, <1>5
  <1>7. FlattenSeq(seqs) = F[Len(seqs)]
    BY <1>1, <1>4, Zenon
  <1>8. QED
    BY <1>6, <1>7

\* Two functions agree up to k.
Alike(F, G, k) == \A i \in 1 .. k : G[i] = F[i]

\* Two sequences of sequences that agree up to the k-th are put together alike up
\* to there.
LEMMA JoinsAgree ==
  ASSUME NEW seqs, NEW more, NEW F, NEW G, NEW k \in Nat,
         Len(seqs) \in Nat, k <= Len(seqs), Len(more) \in Nat, k <= Len(more),
         Alike(seqs, more, k), Joins(F, seqs), Joins(G, more)
  PROVE  Alike(F, G, k)
  <1> DEFINE S == {0} \cup {i \in 1 .. k : G[i] = F[i]}
  <1>1. 0 \in S
    OBVIOUS
  <1>2. ASSUME NEW i \in 0 .. k, i # k, i \in S PROVE i + 1 \in S
    <2>1. i + 1 \in 1 .. k /\ i + 1 \in 1 .. Len(seqs) /\ i + 1 \in 1 .. Len(more)
      BY <1>2
    <2>2. G[i + 1] = IF i + 1 = 1 THEN more[i + 1] ELSE G[i + 1 - 1] \o more[i + 1]
      BY <2>1, JoinsAt
    <2>3. F[i + 1] = IF i + 1 = 1 THEN seqs[i + 1] ELSE F[i + 1 - 1] \o seqs[i + 1]
      BY <2>1, JoinsAt
    <2>4. more[i + 1] = seqs[i + 1]
      BY <2>1 DEF Alike
    <2>5. i + 1 # 1 => G[i + 1 - 1] = F[i + 1 - 1]
      <3>1. i + 1 - 1 = i /\ (i + 1 # 1 => i \in 1 .. k)
        BY <2>1
      <3>2. i + 1 # 1 => G[i] = F[i]
        BY <1>2, <3>1
      <3>3. QED
        BY <3>1, <3>2, Zenon
    <2>6. G[i + 1] = F[i + 1]
      BY <2>2, <2>3, <2>4, <2>5, Zenon
    <2>7. QED
      BY <2>1, <2>6
  <1> HIDE DEF S
  <1>3. 0 .. k \subseteq S
    BY <1>1, <1>2, StepByStep
  <1>4. QED
    BY <1>3 DEF S, Alike

\* One sequence more is put behind those before.
LEMMA FlattenNext ==
  ASSUME NEW seqs, NEW more, NEW k \in Nat, Len(seqs) = k, Len(more) = k + 1,
         Alike(seqs, more, k)
  PROVE  FlattenSeq(more) = IF k = 0 THEN more[1] ELSE FlattenSeq(seqs) \o more[k + 1]
  <1>1. PICK G : Joins(G, more) /\ FlattenSeq(more) = G[Len(more)]
    <2>1. Len(more) \in Nat /\ Len(more) # 0
      OBVIOUS
    <2>2. QED
      BY <2>1, FlattenJoins
  <1>2. G[k + 1] = IF k + 1 = 1 THEN more[k + 1] ELSE G[k + 1 - 1] \o more[k + 1]
    <2>1. k + 1 \in 1 .. Len(more)
      OBVIOUS
    <2>2. QED
      BY <1>1, <2>1, JoinsAt
  <1>3. CASE k = 0
    BY <1>1, <1>2, <1>3
  <1>4. CASE k # 0
    <2>1. PICK F : Joins(F, seqs) /\ FlattenSeq(seqs) = F[Len(seqs)]
      <3>1. Len(seqs) \in Nat /\ Len(seqs) # 0
        BY <1>4
      <3>2. QED
        BY <3>1, FlattenJoins
    <2>2. Alike(F, G, k)
      <3>1. Len(seqs) \in Nat /\ k <= Len(seqs) /\ Len(more) \in Nat /\ k <= Len(more)
        OBVIOUS
      <3>2. Joins(F, seqs) /\ Joins(G, more)
        BY <1>1, <2>1
      <3>3. QED
        BY <3>1, <3>2, JoinsAgree
    <2>3. k + 1 # 1 /\ k + 1 - 1 = k /\ k \in 1 .. k
      BY <1>4
    <2>4. G[k] = F[k]
      BY <2>2, <2>3 DEF Alike
    <2>5. G[k + 1] = G[k] \o more[k + 1]
      BY <1>2, <2>3, Zenon
    <2>6. FlattenSeq(seqs) = G[k]
      BY <2>1, <2>4
    <2>7. FlattenSeq(more) = G[k + 1]
      BY <1>1
    <2>8. QED
      BY <1>4, <2>5, <2>6, <2>7, Zenon
  <1>5. QED
    BY <1>3, <1>4
=============================================================================
