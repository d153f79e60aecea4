-------------------------- MODULE HashTableProofs ---------------------------
(***************************************************************************)
(* The chained hash table is a map, for every set of keys, values and      *)
(* sizes in the relation of the program's: the two last characters of a    *)
(* key give its bin whatever the uninitialised variable of ht_hash holds,  *)
(* and a chain stays sorted by strcmp, so that a key is found where it     *)
(* would be linked.                                                        *)
(***************************************************************************)
EXTENDS HashTable, NatSets, SequenceTheorems

-----------------------------------------------------------------------------
(* The bin of a key *)

\* What main.c and hash_table.c fix: the sizes, and addresses as keys.
TableAssumption ==
  TableSizesAssumption /\ HostKeysAssumption /\ GarbageAssumption /\ TailAssumption

\* The values of an unsigned long.
Words == Radix^Width

\* Division is unique.
LEMMA Remainder ==
  ASSUME NEW m \in Nat \ {0}, NEW n \in Int, NEW q \in Int, NEW r \in 0 .. m - 1, n = m * q + r
  PROVE  n % m = r
  OBVIOUS

LEMMA Quotient ==
  ASSUME NEW m \in Nat \ {0}, NEW n \in Int
  PROVE  \E q \in Int, r \in 0 .. m - 1 : n % m = r /\ n = m * q + r
  <1>1. n = m * (n \div m) + (n % m) /\ n % m \in 0 .. m - 1 /\ n \div m \in Int
    OBVIOUS
  <1>2. QED
    BY <1>1

\* The sizes, and the greatest word seen from a character.
LEMMA Sizes ==
  ASSUME TableAssumption
  PROVE  /\ Radix \in Nat /\ Radix >= 2 /\ Size = Radix * Radix /\ Size \in Nat \ {0}
         /\ Words \in Nat \ {0} /\ ULONG_MAX = Words - 1
         /\ \E n \in Nat \ {0} : Words = Size * n
  <1>1. Radix \in Nat \ {0} /\ Size \in Nat \ {0} /\ Words \in Nat /\ Size = Radix * Radix
        /\ ULONG_MAX = Words - 1
    BY DEF TableAssumption, TableSizesAssumption, TailAssumption, Words, ULONG_MAX
  <1>2. PICK n \in 1 .. Words - 1 : Words = Size * n
    BY <1>1 DEF TableAssumption, TailAssumption, Words
  <1>3. n \in Nat \ {0} /\ Words \in Nat \ {0} /\ Words # n
    BY <1>1, <1>2
  <1>4. Radix # 1
    BY <1>1, <1>2, <1>3
  <1>5. QED
    BY <1>1, <1>2, <1>3, <1>4

\* A character shifted in.
Shifted(p, x) == IF p < ULONG_MAX THEN (p * Radix + x) % (Radix^Width) ELSE p

\* The recursion of ht_hash for the first n characters.
Shifts(u, key, hashval, n) ==
  u = [i \in 0 .. n |-> IF i = 0 THEN hashval ELSE Shifted(u[i - 1], key[i])]

\* The recursion has a solution for every number of characters.
LEMMA ShiftsExist ==
  ASSUME NEW key, NEW hashval, NEW n \in Nat
  PROVE  \E u : Shifts(u, key, hashval, n)
  <1> DEFINE S == {m \in 0 .. n : \E u : Shifts(u, key, hashval, m)}
  <1>1. 0 \in S
    <2>1. PICK u : u = [i \in 0 .. 0 |-> hashval]
      OBVIOUS
    <2>2. u = [i \in 0 .. 0 |-> IF i = 0 THEN hashval ELSE Shifted(u[i - 1], key[i])]
      BY <2>1
    <2>3. Shifts(u, key, hashval, 0) /\ 0 \in 0 .. n
      BY <2>2 DEF Shifts
    <2>4. QED
      BY <2>3
  <1>2. ASSUME NEW m \in 0 .. n, m # n, m \in S
        PROVE  m + 1 \in S
    <2>1. PICK u : Shifts(u, key, hashval, m)
      BY <1>2
    <2>2. PICK w : w = [i \in 0 .. m + 1 |-> IF i = m + 1 THEN Shifted(u[m], key[m + 1]) ELSE u[i]]
      OBVIOUS
    <2>3. u = [i \in 0 .. m |-> IF i = 0 THEN hashval ELSE Shifted(u[i - 1], key[i])]
      BY <2>1 DEF Shifts
    <2>4. ASSUME NEW i \in 0 .. m + 1
          PROVE  w[i] = IF i = 0 THEN hashval ELSE Shifted(w[i - 1], key[i])
      <3>1. CASE i = m + 1
        <4>1. w[i] = Shifted(u[m], key[i]) /\ i # 0 /\ i - 1 = m
          BY <2>2, <3>1
        <4>2. w[m] = u[m]
          BY <2>2
        <4>3. QED
          BY <4>1, <4>2
      <3>2. CASE i # m + 1 /\ i # 0
        <4>1. i \in 0 .. m /\ i - 1 \in 0 .. m /\ i - 1 \in 0 .. m + 1 /\ i - 1 # m + 1
          BY <3>2
        <4>2. w[i] = u[i] /\ w[i - 1] = u[i - 1]
          BY <2>2, <3>2, <4>1
        <4>3. u[i] = Shifted(u[i - 1], key[i])
          BY <2>3, <3>2, <4>1
        <4>4. QED
          BY <3>2, <4>2, <4>3
      <3>3. CASE i = 0
        <4>1. w[0] = u[0] /\ u[0] = hashval
          BY <2>2, <2>3
        <4>2. QED
          BY <3>3, <4>1
      <3>4. QED
        BY <3>1, <3>2, <3>3
    <2>5. w = [i \in 0 .. m + 1 |-> w[i]]
      BY <2>2
    <2>6. Shifts(w, key, hashval, m + 1)
      BY <2>4, <2>5 DEF Shifts
    <2>7. m + 1 \in 0 .. n
      BY <1>2
    <2>8. QED
      BY <2>6, <2>7
  <1> HIDE DEF S
  <1>3. n \in S
    BY <1>1, <1>2, StepByStep
  <1>4. QED
    BY <1>3 DEF S

\* ht_hash is the recursion run to the last character, reduced to a bin.
LEMMA HashShifts ==
  ASSUME NEW key, NEW hashval, Len(key) \in Nat
  PROVE  \E u : Shifts(u, key, hashval, Len(key)) /\ ht_hash(key, hashval) = u[Len(key)] % Size
  <1> DEFINE Body(h) == [i \in 0..Len(key) |->
        IF i = 0 THEN hashval
        ELSE LET p == h[i - 1]
             IN  IF p < ULONG_MAX THEN (p * Radix + key[i]) % (Radix^Width) ELSE p]
  <1>1. ht_hash(key, hashval) = (CHOOSE h : h = Body(h))[Len(key)] % Size
    BY Zenon DEF ht_hash
  <1>2. ASSUME NEW h
        PROVE  Shifts(h, key, hashval, Len(key)) <=> h = Body(h)
    BY DEF Shifts, Shifted
  <1>3. \E h : h = Body(h)
    BY <1>2, ShiftsExist
  <1>4. PICK u : u = (CHOOSE h : h = Body(h))
    OBVIOUS
  <1>5. u = Body(u)
    BY <1>3, <1>4
  <1>6. Shifts(u, key, hashval, Len(key))
    BY <1>2, <1>5
  <1>7. QED
    BY <1>1, <1>4, <1>6

\* A character below the greatest value leaves a word that is not the greatest:
\* ht_hash does not stop before the end.
LEMMA ShiftedWord ==
  ASSUME TableAssumption, NEW p \in 0 .. ULONG_MAX - 1, NEW x \in 1 .. Radix - 2
  PROVE  /\ Shifted(p, x) \in 0 .. ULONG_MAX - 1
         /\ \E q \in Int : Shifted(p, x) = (p * Radix + x) - Words * q
  <1>1. PICK n \in Nat \ {0} :
          /\ Radix \in Nat /\ Radix >= 2 /\ Size = Radix * Radix /\ Words \in Nat \ {0}
          /\ ULONG_MAX = Words - 1 /\ Words = Size * n
    BY Sizes
  <1>2. p \in Nat /\ p < ULONG_MAX /\ p * Radix \in Nat
    BY <1>1
  <1>3. PICK y \in Int : y = p * Radix + x
    BY <1>1, <1>2
  <1>4. PICK q \in Int, r \in 0 .. Words - 1 : y % Words = r /\ y = Words * q + r
    BY <1>1, <1>3, Quotient
  <1>5. Shifted(p, x) = r
    BY <1>2, <1>3, <1>4 DEF Shifted, Words
  <1>6. r # Words - 1
    <2>1. PICK k \in Int : k = Radix * n
      BY <1>1
    <2>2. Words = Radix * k
      BY <1>1, <2>1
    <2>3. SUFFICES ASSUME r = Words - 1 PROVE FALSE
      OBVIOUS
    <2>4. Words * q = Radix * (k * q) /\ k * q \in Int
      BY <1>1, <2>1, <2>2
    <2>5. PICK z \in Int : z = k * q /\ Words * q = Radix * z
      BY <2>4
    <2>6. y = Radix * p + x
      BY <1>1, <1>2, <1>3
    <2>7. Radix * p + x = Radix * z + Radix * k - 1
      BY <1>4, <2>2, <2>3, <2>5, <2>6
    <2>8. Radix * p + x = Radix * ((z + k) - 1) + (Radix - 1)
      BY <1>1, <2>7
    <2>9. (Radix * p + x) % Radix = x /\ (Radix * p + x) % Radix = Radix - 1
      <3>1. Radix \in Nat \ {0} /\ x \in 0 .. Radix - 1 /\ Radix - 1 \in 0 .. Radix - 1 /\ p \in Int
            /\ (z + k) - 1 \in Int /\ Radix * p + x \in Int
        BY <1>1, <1>2
      <3>2. (Radix * p + x) % Radix = x
        BY <3>1, Remainder
      <3>3. (Radix * p + x) % Radix = Radix - 1
        BY <2>8, <3>1, Remainder
      <3>4. QED
        BY <3>2, <3>3
    <2>10. QED
      BY <1>1, <2>9
  <1>7. r \in 0 .. ULONG_MAX - 1
    BY <1>1, <1>4, <1>6
  <1>8. r = (p * Radix + x) - Words * q
    <2>1. PICK w \in Int : w = Words * q
      BY <1>1
    <2>2. QED
      BY <1>3, <1>4, <2>1
  <1>9. QED
    BY <1>5, <1>7, <1>8

\* The two last characters.
TailBin(key) == key[Len(key) - 1] * Radix + key[Len(key)]

\* The characters of a key.
LEMMA KeyShape ==
  ASSUME TableAssumption, NEW key \in HostKeys
  PROVE  /\ key \in Seq(1 .. Radix - 2) /\ Len(key) \in Nat /\ Len(key) >= 2
         /\ \A i \in 1 .. Len(key) : key[i] \in 1 .. Radix - 2
  <1>1. key \in Seq(1 .. Radix - 2) /\ Len(key) >= 2
    BY DEF TableAssumption, HostKeysAssumption, TailAssumption
  <1>2. QED
    BY <1>1, LenProperties, ElementOfSeq

\* ht_hash never meets the word at which it would stop.
LEMMA WordsNeverGreatest ==
  ASSUME TableAssumption, NEW key \in HostKeys, NEW g \in Garbage, NEW u,
         Shifts(u, key, g, Len(key))
  PROVE  \A i \in 0 .. Len(key) : u[i] \in 0 .. ULONG_MAX - 1
  <1>1. Len(key) \in Nat /\ \A i \in 1 .. Len(key) : key[i] \in 1 .. Radix - 2
    BY KeyShape
  <1> DEFINE n == Len(key)
             S == {i \in 0 .. n : u[i] \in 0 .. ULONG_MAX - 1}
  <1>2. u = [i \in 0 .. n |-> IF i = 0 THEN g ELSE Shifted(u[i - 1], key[i])]
    BY DEF Shifts
  <1>3. 0 \in S
    <2>1. ULONG_MAX \in Int
      <3>1. Words \in Nat /\ ULONG_MAX = Words - 1
        BY Sizes
      <3>2. QED
        BY <3>1
    <2>4. g \in 0 .. ULONG_MAX /\ g # ULONG_MAX
      BY DEF TableAssumption, GarbageAssumption, TailAssumption
    <2>2. u[0] = g /\ 0 \in 0 .. n
      BY <1>1, <1>2
    <2>3. QED
      BY <2>1, <2>2, <2>4
  <1>4. ASSUME NEW i \in 0 .. n, i # n, i \in S
        PROVE  i + 1 \in S
    <2>1. i + 1 \in 1 .. n /\ i + 1 \in 0 .. n /\ i + 1 # 0 /\ (i + 1) - 1 = i
      BY <1>1, <1>4
    <2>2. u[i + 1] = Shifted(u[i], key[i + 1])
      BY <1>2, <2>1
    <2>3. u[i] \in 0 .. ULONG_MAX - 1 /\ key[i + 1] \in 1 .. Radix - 2
      BY <1>1, <1>4, <2>1
    <2>4. Shifted(u[i], key[i + 1]) \in 0 .. ULONG_MAX - 1
      BY <2>3, ShiftedWord
    <2>5. QED
      BY <2>1, <2>2, <2>4
  <1> HIDE DEF S
  <1>5. 0 .. n \subseteq S
    BY <1>1, <1>3, <1>4, StepByStep
  <1>6. QED
    BY <1>5 DEF S

\* The bin that the two last characters give exists.
LEMMA TailInBins ==
  ASSUME TableAssumption, NEW key \in HostKeys
  PROVE  TailBin(key) \in 0 .. Size - 1
  <1>1. Radix \in Nat /\ Radix >= 2 /\ Size = Radix * Radix
    BY Sizes
  <1>2. PICK x \in 1 .. Radix - 2, y \in 1 .. Radix - 2 : TailBin(key) = x * Radix + y
    <2>1. key[Len(key) - 1] \in 1 .. Radix - 2 /\ key[Len(key)] \in 1 .. Radix - 2
      BY KeyShape
    <2>2. QED
      BY <2>1 DEF TailBin
  <1>3. PICK d \in Nat : Radix = x + 1 + d
    <2>1. Radix - (x + 1) \in Nat /\ Radix = x + 1 + (Radix - (x + 1))
      BY <1>1, <1>2
    <2>2. QED
      BY <2>1
  <1>4. Radix * Radix = x * Radix + Radix + d * Radix
    BY <1>2, <1>3
  <1>5. x * Radix \in Nat /\ d * Radix \in Nat
    BY <1>1, <1>2, <1>3
  <1>6. QED
    BY <1>1, <1>2, <1>4, <1>5

\* Products over differences.
LEMMA Distributes ==
  ASSUME NEW r \in Int, NEW s \in Int, NEW t \in Int, NEW d \in Int
  PROVE  ((r + s) - t) * d = (r * d + s * d) - t * d
  OBVIOUS

LEMMA Scales ==
  ASSUME NEW d \in Int, NEW r \in Int, NEW s \in Int, NEW t \in Int
  PROVE  d * ((r - s) - t) = (d * r - d * s) - d * t
  OBVIOUS

\* What uninitialised words hold leaves no trace in a bin: two characters shift
\* it out of what a table of B * B bins looks at.
LEMMA ShiftedTwice ==
  ASSUME NEW B \in Int, NEW b \in Int, NEW x \in Int, NEW y \in Int, NEW m \in Int,
         NEW p \in Int, NEW q \in Int, NEW w \in Int, w = (B * B) * m,
         NEW a \in Int, a = (b * B + x) - w * p
  PROVE  \E z \in Int : (a * B + y) - w * q = (B * B) * z + (x * B + y)
  <1>1. PICK s \in Int, k \in Int, l \in Int : s = B * B /\ k = m * p /\ l = m * q
    OBVIOUS
  <1>2. w * p = s * k /\ w * q = s * l
    <2>1. (s * m) * p = s * (m * p) /\ (s * m) * q = s * (m * q)
      BY <1>1
    <2>2. QED
      BY <1>1, <2>1
  <1>3. PICK c \in Int, e \in Int, f \in Int, g \in Int :
          c = b * B /\ e = s * k /\ f = k * B /\ g = x * B
    BY <1>1
  <1>4. a = (c + x) - e
    BY <1>2, <1>3
  <1>5. a * B = (c * B + x * B) - e * B
    BY <1>3, <1>4, Distributes
  <1>6. c * B = s * b
    BY <1>1, <1>3
  <1>7. e * B = s * f
    BY <1>1, <1>3
  <1>8. PICK z \in Int : z = (b - f) - l
    BY <1>1, <1>3
  <1>9. s * z = (s * b - s * f) - s * l
    BY <1>1, <1>3, <1>8, Scales
  <1>10. PICK h \in Int, i \in Int, j \in Int : h = s * b /\ i = s * f /\ j = s * l
    BY <1>1, <1>3
  <1>11. a * B = (h + g) - i /\ s * z = (h - i) - j /\ w * q = j
    BY <1>2, <1>3, <1>5, <1>6, <1>7, <1>9, <1>10
  <1>12. PICK r \in Int, v \in Int : r = a * B /\ v = s * z
    BY <1>1
  <1>13. (r + y) - j = v + (g + y)
    BY <1>3, <1>10, <1>11, <1>12
  <1>14. (a * B + y) - w * q = (B * B) * z + (x * B + y)
    BY <1>1, <1>3, <1>11, <1>12, <1>13
  <1>15. QED
    BY <1>14

\* ht_hash gives the two last characters, whatever hashval held.
LEMMA HashIsTail ==
  ASSUME TableAssumption, NEW key \in HostKeys, NEW g \in Garbage
  PROVE  ht_hash(key, g) = TailBin(key)
  <1>1. PICK n \in Nat : n = Len(key) /\ n >= 2 /\ \A i \in 1 .. n : key[i] \in 1 .. Radix - 2
    BY KeyShape
  <1>2. PICK u : Shifts(u, key, g, n) /\ ht_hash(key, g) = u[n] % Size
    BY <1>1, HashShifts
  <1>3. \A i \in 0 .. n : u[i] \in 0 .. ULONG_MAX - 1
    BY <1>1, <1>2, WordsNeverGreatest
  <1>4. PICK m \in Nat \ {0} :
          /\ Radix \in Nat /\ Radix >= 2 /\ Size = Radix * Radix /\ Size \in Nat \ {0}
          /\ Words \in Nat \ {0} /\ ULONG_MAX = Words - 1 /\ Words = Size * m
    BY Sizes
  <1>5. PICK x \in Int, y \in Int : x = key[n - 1] /\ y = key[n]
                                    /\ x \in 1 .. Radix - 2 /\ y \in 1 .. Radix - 2
    <2>1. n - 1 \in 1 .. n /\ n \in 1 .. n
      BY <1>1
    <2>2. key[n - 1] \in 1 .. Radix - 2 /\ key[n] \in 1 .. Radix - 2
      BY <1>1, <2>1
    <2>3. QED
      BY <1>4, <2>2
  <1>6. u[n] = Shifted(u[n - 1], y) /\ u[n - 1] = Shifted(u[n - 2], x)
    <2>1. u = [i \in 0 .. n |-> IF i = 0 THEN g ELSE Shifted(u[i - 1], key[i])]
      BY <1>2 DEF Shifts
    <2>2. n \in 0 .. n /\ n # 0 /\ n - 1 \in 0 .. n /\ n - 1 # 0 /\ (n - 1) - 1 = n - 2
      BY <1>1
    <2>3. u[n] = Shifted(u[n - 1], key[n]) /\ u[n - 1] = Shifted(u[(n - 1) - 1], key[n - 1])
      BY <2>1, <2>2
    <2>4. QED
      BY <1>5, <2>2, <2>3
  <1>7. PICK a \in Int, b \in Int : a = u[n - 1] /\ b = u[n - 2]
                                    /\ a \in 0 .. ULONG_MAX - 1 /\ b \in 0 .. ULONG_MAX - 1
    <2>1. n - 1 \in 0 .. n /\ n - 2 \in 0 .. n
      BY <1>1
    <2>2. u[n - 1] \in 0 .. ULONG_MAX - 1 /\ u[n - 2] \in 0 .. ULONG_MAX - 1
      BY <1>1, <1>3, <2>1
    <2>3. ULONG_MAX \in Int
      BY <1>4
    <2>4. QED
      BY <2>2, <2>3
  <1>8. PICK q \in Int : u[n] = (a * Radix + y) - Words * q
    BY <1>5, <1>6, <1>7, ShiftedWord
  <1>9. PICK p \in Int : a = (b * Radix + x) - Words * p
    BY <1>5, <1>6, <1>7, ShiftedWord
  <1>10. PICK z \in Int : u[n] = Size * z + (x * Radix + y)
    <2>1. Radix \in Int /\ m \in Int /\ Words \in Int /\ Words = (Radix * Radix) * m
      BY <1>4
    <2>2. \E z \in Int : (a * Radix + y) - Words * q = (Radix * Radix) * z + (x * Radix + y)
      <3>1. /\ a \in Int /\ b \in Int /\ x \in Int /\ y \in Int /\ p \in Int /\ q \in Int
            /\ a = (b * Radix + x) - Words * p
        BY <1>5, <1>7, <1>8, <1>9
      <3>2. QED
        BY <2>1, <3>1, ShiftedTwice
    <2>3. QED
      BY <1>4, <1>8, <2>2
  <1>11. x * Radix + y = TailBin(key)
    BY <1>1, <1>5 DEF TailBin
  <1>12. TailBin(key) \in 0 .. Size - 1
    BY TailInBins
  <1>13. u[n] % Size = TailBin(key)
    <2>1. PICK e \in Int : e = u[n] /\ e = Size * z + TailBin(key)
      <3>1. Size * z \in Int /\ TailBin(key) \in Int
        BY <1>4, <1>12
      <3>2. QED
        BY <1>10, <1>11, <3>1
    <2>2. QED
      BY <1>4, <1>12, <2>1, Remainder
  <1>14. QED
    BY <1>2, <1>13

\* Two calls for one key, in ht_set and ht_get say, use one bin.
LEMMA HashAgrees ==
  ASSUME TableAssumption, NEW key \in HostKeys, NEW g \in Garbage, NEW h \in Garbage
  PROVE  ht_hash(key, g) = ht_hash(key, h) /\ ht_hash(key, g) \in Bins
  BY HashIsTail, TailInBins DEF Bins

\* GarbageIrrelevant always holds: what ht_get (hash_table.c) finds does not
\* depend on what the uninitialised hashval of ht_hash holds, at any call.
THEOREM GarbageNeverMatters ==
  ASSUME TableAssumption
  PROVE  TableSpec => []GarbageIrrelevant
  <1>1. GarbageIrrelevant
    BY HashAgrees DEF GarbageIrrelevant, ht_get
  <1>2. []GarbageIrrelevant
    BY <1>1, PTL
  <1>3. QED
    BY <1>2, PTL

-----------------------------------------------------------------------------
(* The order of strcmp *)

\* What strcmp compares.
Strings == Seq(Nat)

\* strcmp orders: no key is greater than itself.
LEMMA NotGreaterThanItself ==
  ASSUME NEW a \in Strings
  PROVE  ~Greater(a, a)
  <1>1. SUFFICES ASSUME Greater(a, a) PROVE FALSE
    OBVIOUS
  <1>2. PICK i \in 1 .. Len(a) : i > Len(a) \/ a[i] > a[i]
    BY <1>1 DEF Greater
  <1>3. Len(a) \in Nat /\ a[i] \in Nat
    BY LenProperties, ElementOfSeq DEF Strings
  <1>4. QED
    BY <1>2, <1>3

\* A greater character, or a longer string, after a common prefix.
LEMMA GreaterAt ==
  ASSUME NEW a \in Strings, NEW b \in Strings, NEW i \in 1 .. Len(a),
         \A l \in 1 .. (i - 1) : l <= Len(b) /\ a[l] = b[l],
         i > Len(b) \/ a[i] > b[i]
  PROVE  Greater(a, b)
  BY DEF Greater

\* Where two strings first differ.
LEMMA GreaterWitness ==
  ASSUME NEW a \in Strings, NEW b \in Strings, Greater(a, b)
  PROVE  \E i \in 1 .. Len(a) :
           /\ \A l \in 1 .. (i - 1) : l <= Len(b) /\ a[l] = b[l]
           /\ i > Len(b) \/ a[i] > b[i]
  BY DEF Greater

\* strcmp is transitive.
LEMMA GreaterTransitive ==
  ASSUME NEW a \in Strings, NEW b \in Strings, NEW c \in Strings,
         Greater(a, b), Greater(b, c)
  PROVE  Greater(a, c)
  <1>0. Len(a) \in Nat /\ Len(b) \in Nat /\ Len(c) \in Nat
    BY LenProperties DEF Strings
  <1>1. PICK i \in 1 .. Len(a) :
          /\ \A l \in 1 .. (i - 1) : l <= Len(b) /\ a[l] = b[l]
          /\ i > Len(b) \/ a[i] > b[i]
    BY GreaterWitness
  <1>2. PICK j \in 1 .. Len(b) :
          /\ \A l \in 1 .. (j - 1) : l <= Len(c) /\ b[l] = c[l]
          /\ j > Len(c) \/ b[j] > c[j]
    BY GreaterWitness
  <1>3. CASE i < j
    <2>1. i \in 1 .. (j - 1) /\ i <= Len(b)
      BY <1>0, <1>3
    <2>2. i <= Len(c) /\ b[i] = c[i] /\ a[i] > b[i]
      BY <1>0, <1>1, <1>2, <2>1
    <2>3. \A l \in 1 .. (i - 1) : l <= Len(c) /\ a[l] = c[l]
      <3>1. TAKE l \in 1 .. (i - 1)
      <3>2. l \in 1 .. (j - 1)
        BY <1>0, <1>3
      <3>3. QED
        BY <1>1, <1>2, <3>2
    <2>4. a[i] > c[i]
      BY <2>2
    <2>5. QED
      BY <2>3, <2>4, GreaterAt
  <1>4. CASE i = j
    <2>1. a[i] > b[i]
      BY <1>0, <1>1, <1>4
    <2>2. \A l \in 1 .. (i - 1) : l <= Len(c) /\ a[l] = c[l]
      BY <1>1, <1>2, <1>4
    <2>3. i > Len(c) \/ a[i] > c[i]
      <3>1. CASE i > Len(c)
        BY <3>1
      <3>2. CASE ~(i > Len(c))
        <4>1. b[i] > c[i] /\ i \in 1 .. Len(c)
          BY <1>0, <1>2, <1>4, <3>2
        <4>2. a[i] \in Nat /\ b[i] \in Nat /\ c[i] \in Nat
          BY <1>4, <4>1, ElementOfSeq DEF Strings
        <4>3. QED
          BY <2>1, <4>1, <4>2
      <3>3. QED
        BY <3>1, <3>2
    <2>4. QED
      BY <2>2, <2>3, GreaterAt
  <1>5. CASE j < i
    <2>1. j \in 1 .. (i - 1) /\ j \in 1 .. Len(a)
      BY <1>0, <1>5
    <2>2. a[j] = b[j] /\ (j > Len(c) \/ a[j] > c[j])
      BY <1>1, <1>2, <2>1
    <2>3. \A l \in 1 .. (j - 1) : l <= Len(c) /\ a[l] = c[l]
      <3>1. TAKE l \in 1 .. (j - 1)
      <3>2. l \in 1 .. (i - 1)
        BY <1>0, <1>5
      <3>3. QED
        BY <1>1, <1>2, <3>2
    <2>4. QED
      BY <2>1, <2>2, <2>3, GreaterAt
  <1>6. QED
    BY <1>0, <1>3, <1>4, <1>5

\* strcmp tells different strings apart.
LEMMA GreaterTotal ==
  ASSUME NEW a \in Strings, NEW b \in Strings, a # b
  PROVE  Greater(a, b) \/ Greater(b, a)
  <1>0. Len(a) \in Nat /\ Len(b) \in Nat
    BY LenProperties DEF Strings
  <1> DEFINE D == {i \in Nat \ {0} : i > Len(a) \/ i > Len(b) \/ a[i] # b[i]}
  <1>1. D \subseteq Nat /\ D # {}
    <2>1. Len(a) + 1 \in D
      BY <1>0
    <2>2. QED
      BY <2>1
  <1>2. PICK m \in D : \A y \in D : m <= y
    <2> HIDE DEF D
    <2>1. QED
      BY <1>1, MinOfNats
  <1>3. m \in Nat \ {0} /\ (m > Len(a) \/ m > Len(b) \/ a[m] # b[m])
    BY <1>2
  <1>4. ASSUME NEW l \in 1 .. (m - 1)
        PROVE  l <= Len(a) /\ l <= Len(b) /\ a[l] = b[l]
    <2>1. l \in Nat \ {0} /\ ~(m <= l)
      BY <1>3
    <2>2. l \notin D
      BY <1>2, <2>1
    <2>3. QED
      BY <1>0, <2>1, <2>2
  <1> HIDE DEF D
  <1>5. CASE m > Len(a) /\ m > Len(b)
    <2>1. Len(a) = Len(b)
      <3>1. CASE Len(a) < Len(b)
        <4>1. Len(b) \in 1 .. (m - 1)
          BY <1>0, <1>3, <1>5, <3>1
        <4>2. Len(b) <= Len(a)
          BY <1>4, <4>1
        <4>3. QED
          BY <1>0, <3>1, <4>2
      <3>2. CASE Len(b) < Len(a)
        <4>1. Len(a) \in 1 .. (m - 1)
          BY <1>0, <1>3, <1>5, <3>2
        <4>2. Len(a) <= Len(b)
          BY <1>4, <4>1
        <4>3. QED
          BY <1>0, <3>2, <4>2
      <3>3. QED
        BY <1>0, <3>1, <3>2
    <2>2. \A l \in 1 .. Len(a) : a[l] = b[l]
      <3>1. TAKE l \in 1 .. Len(a)
      <3>2. l \in 1 .. (m - 1)
        BY <1>0, <1>3, <1>5
      <3>3. QED
        BY <1>4, <3>2
    <2>3. a = b
      BY <2>1, <2>2, SeqEqual DEF Strings
    <2>4. QED
      BY <2>3
  <1>6. CASE m > Len(b) /\ ~(m > Len(a))
    <2>1. m \in 1 .. Len(a)
      BY <1>0, <1>3, <1>6
    <2>2. \A l \in 1 .. (m - 1) : l <= Len(b) /\ a[l] = b[l]
      BY <1>4
    <2>3. Greater(a, b)
      BY <1>6, <2>1, <2>2, GreaterAt
    <2>4. QED
      BY <2>3
  <1>7. CASE m > Len(a) /\ ~(m > Len(b))
    <2>1. m \in 1 .. Len(b)
      BY <1>0, <1>3, <1>7
    <2>2. \A l \in 1 .. (m - 1) : l <= Len(a) /\ b[l] = a[l]
      BY <1>4
    <2>3. Greater(b, a)
      BY <1>7, <2>1, <2>2, GreaterAt
    <2>4. QED
      BY <2>3
  <1>8. CASE ~(m > Len(a)) /\ ~(m > Len(b))
    <2>1. m \in 1 .. Len(a) /\ m \in 1 .. Len(b) /\ a[m] # b[m]
      BY <1>0, <1>3, <1>8
    <2>2. a[m] \in Nat /\ b[m] \in Nat
      BY <2>1, ElementOfSeq DEF Strings
    <2>3. /\ \A l \in 1 .. (m - 1) : l <= Len(b) /\ a[l] = b[l]
          /\ \A l \in 1 .. (m - 1) : l <= Len(a) /\ b[l] = a[l]
      BY <1>4
    <2>4. a[m] > b[m] \/ b[m] > a[m]
      BY <2>1, <2>2
    <2>5. CASE a[m] > b[m]
      BY <2>1, <2>3, <2>5, GreaterAt
    <2>6. CASE b[m] > a[m]
      BY <2>1, <2>3, <2>6, GreaterAt
    <2>7. QED
      BY <2>4, <2>5, <2>6
  <1>9. QED
    BY <1>5, <1>6, <1>7, <1>8

-----------------------------------------------------------------------------
(* Chains *)

Pairs == [key : HostKeys, value : Values]
Chains == Seq(Pairs)

\* Addresses are strings of unsigned characters.
LEMMA KeysAreStrings ==
  ASSUME TableAssumption
  PROVE  HostKeys \subseteq Strings
  <1>1. Radix \in Nat /\ 1 .. Radix - 2 \subseteq Nat
    BY DEF TableAssumption, TableSizesAssumption
  <1>2. ASSUME NEW k \in HostKeys
        PROVE  k \in Seq(Nat)
    <2>1. k \in Seq(1 .. Radix - 2)
      BY DEF TableAssumption, HostKeysAssumption
    <2>2. QED
      BY <1>1, <2>1
  <1>3. QED
    BY <1>2 DEF Strings

\* The pairs of a chain.
LEMMA PairOf ==
  ASSUME NEW s \in Chains, NEW i \in 1 .. Len(s)
  PROVE  s[i] \in Pairs /\ s[i].key \in HostKeys /\ s[i].value \in Values
  <1>1. s[i] \in Pairs
    BY ElementOfSeq DEF Chains
  <1>2. QED
    BY <1>1 DEF Pairs

\* The walk of ht_set and ht_get along a chain ends at a pair or at its end.
LEMMA PositionIs ==
  ASSUME NEW s \in Chains, NEW k
  PROVE  /\ Position(s, k) \in 1 .. (Len(s) + 1)
         /\ \A j \in 1 .. (Position(s, k) - 1) : Greater(k, s[j].key)
         /\ Position(s, k) <= Len(s) => ~Greater(k, s[Position(s, k)].key)
  <1>0. Len(s) \in Nat
    BY LenProperties DEF Chains
  <1> DEFINE D == {i \in 1 .. (Len(s) + 1) : i <= Len(s) => ~Greater(k, s[i].key)}
             P(i) == /\ \A j \in 1 .. (i - 1) : Greater(k, s[j].key)
                     /\ i <= Len(s) => ~Greater(k, s[i].key)
  <1>1. D \subseteq Nat /\ D # {}
    <2>1. Len(s) + 1 \in D
      BY <1>0
    <2>2. QED
      BY <2>1
  <1>2. PICK m \in D : \A y \in D : m <= y
    <2> HIDE DEF D
    <2>1. QED
      BY <1>1, MinOfNats
  <1>3. ASSUME NEW j \in 1 .. (m - 1)
        PROVE  Greater(k, s[j].key)
    <2>1. j \in 1 .. (Len(s) + 1) /\ ~(m <= j)
      BY <1>0, <1>2
    <2>2. j \notin D
      BY <1>2, <2>1
    <2>3. QED
      BY <2>1, <2>2
  <1>4. m \in 1 .. (Len(s) + 1) /\ P(m)
    BY <1>2, <1>3
  <1>5. Position(s, k) = CHOOSE i \in 1 .. (Len(s) + 1) : P(i)
    BY DEF Position
  <1> HIDE DEF P
  <1>6. Position(s, k) \in 1 .. (Len(s) + 1) /\ P(Position(s, k))
    BY <1>4, <1>5
  <1>7. QED
    BY <1>6 DEF P

\* The keys of a chain grow.
Sorted(s) == \A j \in 1 .. Len(s) : \A i \in 1 .. (j - 1) : Greater(s[j].key, s[i].key)

\* What ht_get returns, and what ht_set leaves, of one chain.
Get(s, k) == IF Found(s, k) THEN s[Position(s, k)].value ELSE Missing

Put(s, k, v) ==
  IF Found(s, k) THEN [s EXCEPT ![Position(s, k)].value = v]
  ELSE InsertAt(s, Position(s, k), Pair(k, v))

\* In a sorted chain the place of a key is where it is found.
LEMMA PlaceOf ==
  ASSUME TableAssumption, NEW s \in Chains, Sorted(s),
         NEW i \in 1 .. Len(s)
  PROVE  Position(s, s[i].key) = i /\ Found(s, s[i].key)
  <1> DEFINE k == s[i].key
             p == Position(s, k)
  <1>0. Len(s) \in Nat
    BY LenProperties DEF Chains
  <1>1. p \in 1 .. (Len(s) + 1) /\ (\A j \in 1 .. (p - 1) : Greater(k, s[j].key))
        /\ (p <= Len(s) => ~Greater(k, s[p].key))
    BY PositionIs
  <1>2. k \in Strings
    BY PairOf, KeysAreStrings
  <1> HIDE DEF p
  <1>3. ~(i < p)
    <2>1. SUFFICES ASSUME i < p PROVE FALSE
      OBVIOUS
    <2>2. i \in 1 .. (p - 1)
      BY <1>0, <1>1, <2>1
    <2>3. Greater(k, s[i].key)
      BY <1>1, <2>2
    <2>4. QED
      BY <1>2, <2>3, NotGreaterThanItself
  <1>4. ~(p < i)
    <2>1. SUFFICES ASSUME p < i PROVE FALSE
      OBVIOUS
    <2>2. p \in 1 .. (i - 1) /\ p <= Len(s)
      BY <1>0, <1>1, <2>1
    <2>3. Greater(s[i].key, s[p].key)
      BY <2>2 DEF Sorted
    <2>4. QED
      BY <1>1, <2>2, <2>3
  <1>5. p = i
    BY <1>0, <1>1, <1>3, <1>4
  <1>6. QED
    BY <1>0, <1>5 DEF Found, p

\* ht_get finds the pair of its key.
LEMMA GetAt ==
  ASSUME TableAssumption, NEW s \in Chains, Sorted(s),
         NEW i \in 1 .. Len(s)
  PROVE  Get(s, s[i].key) = s[i].value
  BY PlaceOf DEF Get

\* Where a key is found.
LEMMA FoundAt ==
  ASSUME NEW s \in Chains, NEW k, Found(s, k)
  PROVE  Position(s, k) \in 1 .. Len(s) /\ s[Position(s, k)].key = k
  <1>1. Len(s) \in Nat /\ Position(s, k) \in 1 .. (Len(s) + 1)
    BY LenProperties, PositionIs DEF Chains
  <1>2. QED
    BY <1>1 DEF Found

\* ht_get finds nothing when no pair has the key.
LEMMA GetNone ==
  ASSUME NEW s \in Chains, NEW k, \A i \in 1 .. Len(s) : s[i].key # k
  PROVE  Get(s, k) = Missing
  BY FoundAt DEF Get

\* What ht_set does to a chain that has the key.
LEMMA PutFound ==
  ASSUME NEW s \in Chains, NEW k \in HostKeys, NEW v \in Values, Found(s, k),
         NEW p, p = Position(s, k)
  PROVE  /\ Put(s, k, v) \in Chains /\ Len(Put(s, k, v)) = Len(s)
         /\ \A j \in 1 .. Len(s) : Put(s, k, v)[j] = IF j = p THEN Pair(k, v) ELSE s[j]
  <1>1. p \in 1 .. Len(s) /\ s[p].key = k
    BY FoundAt
  <1>2. s[p] \in Pairs
    BY <1>1, PairOf
  <1>3. [s[p] EXCEPT !.value = v] = Pair(k, v)
    BY <1>1, <1>2 DEF Pairs, Pair
  <1>4. Put(s, k, v) = [s EXCEPT ![p] = Pair(k, v)]
    <2>1. Put(s, k, v) = [s EXCEPT ![p].value = v]
      BY DEF Put
    <2>2. [s EXCEPT ![p].value = v] = [s EXCEPT ![p] = [s[p] EXCEPT !.value = v]]
      OBVIOUS
    <2>3. QED
      BY <1>3, <2>1, <2>2
  <1>5. Pair(k, v) \in Pairs
    BY DEF Pair, Pairs
  <1>6. s \in Seq(Pairs)
    BY DEF Chains
  <1>7. /\ [s EXCEPT ![p] = Pair(k, v)] \in Seq(Pairs)
        /\ Len([s EXCEPT ![p] = Pair(k, v)]) = Len(s)
        /\ \A j \in 1 .. Len(s) : [s EXCEPT ![p] = Pair(k, v)][j] = IF j = p THEN Pair(k, v) ELSE s[j]
    BY <1>1, <1>5, <1>6, ExceptSeq
  <1>8. QED
    BY <1>4, <1>7 DEF Chains

\* What linking a pair into a chain does.
Inserts(d, s, p, e) ==
  /\ Len(d) = Len(s) + 1
  /\ \A j \in 1 .. (Len(s) + 1) :
       d[j] = IF j < p THEN s[j] ELSE IF j = p THEN e ELSE s[j - 1]

LEMMA InsertedAt ==
  ASSUME NEW S, NEW s \in Seq(S), NEW p \in 1 .. (Len(s) + 1), NEW e \in S
  PROVE  InsertAt(s, p, e) \in Seq(S) /\ Inserts(InsertAt(s, p, e), s, p, e)
  <1> DEFINE a == SubSeq(s, 1, p - 1)
             b == <<e>>
             c == SubSeq(s, p, Len(s))
  <1>0. Len(s) \in Nat /\ p \in Nat \ {0} /\ p <= Len(s) + 1
    BY LenProperties
  <1>1. /\ a \in Seq(S) /\ Len(a) = p - 1 /\ \A j \in 1 .. p - 1 : a[j] = s[j]
    <2>1. \A j \in 1 .. p - 1 : s[j] \in S
      <3>1. TAKE j \in 1 .. p - 1
      <3>2. j \in 1 .. Len(s)
        BY <1>0
      <3>3. QED
        BY <3>2, ElementOfSeq
    <2>2. 1 \in Int /\ p - 1 \in Int
      BY <1>0
    <2>3. /\ a \in Seq(S) /\ Len(a) = IF 1 <= p - 1 THEN (p - 1) - 1 + 1 ELSE 0
          /\ \A j \in 1 .. (p - 1) - 1 + 1 : a[j] = s[1 + j - 1]
      BY <2>1, <2>2, SubSeqProperties
    <2>4. ASSUME NEW j \in 1 .. p - 1
          PROVE  a[j] = s[j]
      <3>1. j \in 1 .. (p - 1) - 1 + 1 /\ 1 + j - 1 = j
        BY <1>0
      <3>2. a[j] = s[1 + j - 1]
        BY <2>3, <3>1
      <3>3. QED
        BY <3>1, <3>2
    <2>5. Len(a) = p - 1
      BY <1>0, <2>3
    <2>6. QED
      BY <2>3, <2>4, <2>5
  <1>2. /\ c \in Seq(S) /\ Len(c) = (Len(s) - p) + 1
        /\ \A j \in 1 .. (Len(s) - p) + 1 : c[j] = s[(p + j) - 1]
    <2>1. \A j \in p .. Len(s) : s[j] \in S
      <3>1. TAKE j \in p .. Len(s)
      <3>2. j \in 1 .. Len(s)
        BY <1>0
      <3>3. QED
        BY <3>2, ElementOfSeq
    <2>2. p \in Int /\ Len(s) \in Int
      BY <1>0
    <2>3. /\ c \in Seq(S) /\ Len(c) = IF p <= Len(s) THEN Len(s) - p + 1 ELSE 0
          /\ \A j \in 1 .. Len(s) - p + 1 : c[j] = s[p + j - 1]
      BY <2>1, <2>2, SubSeqProperties
    <2>4. Len(c) = (Len(s) - p) + 1
      BY <1>0, <2>3
    <2>5. QED
      BY <2>3, <2>4
  <1>3. b \in Seq(S) /\ Len(b) = 1 /\ b[1] = e
    OBVIOUS
  <1> HIDE DEF a, b, c
  <1>4. /\ a \o b \in Seq(S) /\ Len(a \o b) = p
        /\ \A j \in 1 .. p : (a \o b)[j] = IF j <= p - 1 THEN a[j] ELSE b[j - (p - 1)]
    <2>1. /\ a \o b \in Seq(S) /\ Len(a \o b) = Len(a) + Len(b)
          /\ \A j \in 1 .. Len(a) + Len(b) :
               (a \o b)[j] = IF j <= Len(a) THEN a[j] ELSE b[j - Len(a)]
      BY <1>1, <1>3, ConcatProperties
    <2>2. Len(a) + Len(b) = p
      BY <1>0, <1>1, <1>3
    <2>3. QED
      BY <1>1, <2>1, <2>2
  <1>5. PICK ab : ab = a \o b
    OBVIOUS
  <1>6. ab \in Seq(S) /\ Len(ab) = p /\ ab[p] = e /\ \A j \in 1 .. p - 1 : ab[j] = s[j]
    <2>1. ab[p] = e
      <3>1. p \in 1 .. p /\ ~(p <= p - 1) /\ p - (p - 1) = 1
        BY <1>0
      <3>2. QED
        BY <1>3, <1>4, <1>5, <3>1
    <2>2. ASSUME NEW j \in 1 .. p - 1
          PROVE  ab[j] = s[j]
      <3>1. j \in 1 .. p /\ j <= p - 1
        BY <1>0
      <3>2. ab[j] = a[j]
        BY <1>4, <1>5, <3>1
      <3>3. QED
        BY <1>1, <3>2
    <2>3. QED
      BY <1>4, <1>5, <2>1, <2>2
  <1>7. PICK d : d = ab \o c
    OBVIOUS
  <1>8. /\ d \in Seq(S) /\ Len(d) = Len(s) + 1
        /\ \A j \in 1 .. Len(s) + 1 : d[j] = IF j <= p THEN ab[j] ELSE c[j - p]
    <2>1. /\ d \in Seq(S) /\ Len(d) = Len(ab) + Len(c)
          /\ \A j \in 1 .. Len(ab) + Len(c) :
               d[j] = IF j <= Len(ab) THEN ab[j] ELSE c[j - Len(ab)]
      BY <1>2, <1>6, <1>7, ConcatProperties
    <2>2. Len(ab) + Len(c) = Len(s) + 1 /\ Len(ab) = p
      BY <1>0, <1>2, <1>6
    <2>3. QED
      BY <2>1, <2>2
  <1>9. ASSUME NEW j \in 1 .. Len(s) + 1
        PROVE  d[j] = IF j < p THEN s[j] ELSE IF j = p THEN e ELSE s[j - 1]
    <2>1. CASE j < p
      <3>1. j <= p /\ j \in 1 .. p - 1
        BY <1>0, <2>1
      <3>2. d[j] = ab[j] /\ ab[j] = s[j]
        BY <1>6, <1>8, <3>1
      <3>3. QED
        BY <2>1, <3>2
    <2>2. CASE j = p
      <3>1. j <= p /\ ~(j < p)
        BY <1>0, <2>2
      <3>2. d[j] = e
        BY <1>6, <1>8, <2>2, <3>1
      <3>3. QED
        BY <2>2, <3>1, <3>2
    <2>3. CASE j > p
      <3>1. ~(j <= p) /\ j # p /\ ~(j < p) /\ j - p \in 1 .. (Len(s) - p) + 1
            /\ (p + (j - p)) - 1 = j - 1
        BY <1>0, <2>3
      <3>2. d[j] = c[j - p]
        BY <1>8, <3>1
      <3>3. c[j - p] = s[(p + (j - p)) - 1]
        BY <1>2, <3>1
      <3>4. QED
        BY <3>1, <3>2, <3>3
    <2>4. QED
      BY <1>0, <2>1, <2>2, <2>3
  <1>10. InsertAt(s, p, e) = d
    BY <1>5, <1>7 DEF InsertAt, a, b, c
  <1>11. Inserts(d, s, p, e)
    BY <1>8, <1>9 DEF Inserts
  <1>12. QED
    BY <1>8, <1>10, <1>11

\* What ht_set does to a chain that has not the key.
LEMMA PutNew ==
  ASSUME NEW s \in Chains, NEW k \in HostKeys, NEW v \in Values, ~Found(s, k),
         NEW p, p = Position(s, k)
  PROVE  /\ Put(s, k, v) \in Chains /\ Len(Put(s, k, v)) = Len(s) + 1
         /\ \A j \in 1 .. (Len(s) + 1) :
              Put(s, k, v)[j] = IF j < p THEN s[j] ELSE IF j = p THEN Pair(k, v) ELSE s[j - 1]
  <1>1. p \in 1 .. (Len(s) + 1)
    BY PositionIs
  <1>2. Pair(k, v) \in Pairs /\ s \in Seq(Pairs)
    BY DEF Pair, Pairs, Chains
  <1>3. Put(s, k, v) = InsertAt(s, p, Pair(k, v))
    BY DEF Put
  <1>4. QED
    <2>1. PICK e \in Pairs : e = Pair(k, v)
      BY <1>2
    <2>2. p \in 1 .. (Len(s) + 1) /\ s \in Seq(Pairs) /\ e \in Pairs
      BY <1>1, <1>2, <2>1
    <2>3. PICK d : d = InsertAt(s, p, e) /\ d \in Seq(Pairs) /\ Inserts(d, s, p, e)
      BY <2>2, InsertedAt, Zenon
    <2>4. Put(s, k, v) = d
      BY <1>3, <2>1, <2>3
    <2>5. /\ d \in Chains /\ Len(d) = Len(s) + 1
          /\ \A j \in 1 .. (Len(s) + 1) :
               d[j] = IF j < p THEN s[j] ELSE IF j = p THEN Pair(k, v) ELSE s[j - 1]
      BY <2>1, <2>3 DEF Chains, Inserts
    <2>6. QED
      BY <2>4, <2>5

\* The keys around the place of a key that a sorted chain has not.
LEMMA Around ==
  ASSUME TableAssumption, NEW s \in Chains, Sorted(s), NEW k \in HostKeys, ~Found(s, k)
  PROVE  \A j \in 1 .. Len(s) :
           IF j < Position(s, k) THEN Greater(k, s[j].key) ELSE Greater(s[j].key, k)
  <1>0. PICK n \in Nat, p \in Nat : n = Len(s) /\ p = Position(s, k) /\ p \in 1 .. (n + 1)
    <2>1. Len(s) \in Nat /\ Position(s, k) \in 1 .. (Len(s) + 1)
      BY LenProperties, PositionIs DEF Chains
    <2>2. QED
      BY <2>1
  <1>1. TAKE j \in 1 .. Len(s)
  <1>2. s[j].key \in Strings /\ k \in Strings
    BY PairOf, KeysAreStrings
  <1>3. CASE j < p
    <2>1. j \in 1 .. (p - 1)
      BY <1>0, <1>3
    <2>2. QED
      BY <1>0, <1>3, <2>1, PositionIs
  <1>4. CASE ~(j < p)
    <2>1. p \in 1 .. Len(s) /\ p <= Len(s)
      BY <1>0, <1>4
    <2>2. ~Greater(k, s[p].key) /\ s[p].key # k
      BY <1>0, <2>1, PositionIs DEF Found
    <2>3. s[p].key \in Strings
      BY <2>1, PairOf, KeysAreStrings
    <2>4. Greater(s[p].key, k)
      BY <1>2, <2>2, <2>3, GreaterTotal
    <2>5. CASE j = p
      BY <1>0, <1>4, <2>4, <2>5
    <2>6. CASE p < j
      <3>1. p \in 1 .. (j - 1)
        BY <1>0, <2>6
      <3>2. Greater(s[j].key, s[p].key)
        BY <3>1 DEF Sorted
      <3>3. Greater(s[j].key, k)
        BY <1>2, <2>3, <2>4, <3>2, GreaterTransitive
      <3>4. QED
        BY <1>0, <1>4, <3>3
    <2>7. QED
      BY <1>0, <1>4, <2>5, <2>6
  <1>5. QED
    BY <1>3, <1>4

\* ht_set leaves a chain sorted.
LEMMA PutSorted ==
  ASSUME TableAssumption, NEW s \in Chains, Sorted(s), NEW k \in HostKeys, NEW v \in Values
  PROVE  Put(s, k, v) \in Chains /\ Sorted(Put(s, k, v))
  <1>0. PICK n \in Nat, p \in Nat : n = Len(s) /\ p = Position(s, k) /\ p \in 1 .. (n + 1)
    <2>1. Len(s) \in Nat /\ Position(s, k) \in 1 .. (Len(s) + 1)
      BY LenProperties, PositionIs DEF Chains
    <2>2. QED
      BY <2>1
  <1>1. PICK d : d = Put(s, k, v)
    OBVIOUS
  <1>2. Pair(k, v).key = k
    BY DEF Pair
  <1>3. CASE Found(s, k)
    <2>1. d \in Chains /\ Len(d) = Len(s)
          /\ \A j \in 1 .. Len(s) : d[j] = IF j = p THEN Pair(k, v) ELSE s[j]
      BY <1>0, <1>1, <1>3, PutFound
    <2>2. s[p].key = k
      BY <1>0, <1>3, FoundAt
    <2>3. \A j \in 1 .. Len(s) : d[j].key = s[j].key
      BY <1>2, <2>1, <2>2
    <2>4. ASSUME NEW j \in 1 .. Len(d), NEW i \in 1 .. (j - 1)
          PROVE  Greater(d[j].key, d[i].key)
      <3>1. j \in 1 .. Len(s) /\ i \in 1 .. Len(s)
        BY <1>0, <2>1
      <3>2. Greater(s[j].key, s[i].key)
        BY <3>1 DEF Sorted
      <3>3. QED
        BY <2>3, <3>1, <3>2
    <2>5. QED
      BY <1>1, <2>1, <2>4 DEF Sorted
  <1>4. CASE ~Found(s, k)
    <2>1. d \in Chains /\ Len(d) = n + 1
          /\ \A j \in 1 .. (n + 1) :
               d[j] = IF j < p THEN s[j] ELSE IF j = p THEN Pair(k, v) ELSE s[j - 1]
      BY <1>0, <1>1, <1>4, PutNew
    <2>2. \A j \in 1 .. n : IF j < p THEN Greater(k, s[j].key) ELSE Greater(s[j].key, k)
      BY <1>0, <1>4, Around
    <2>3. ASSUME NEW j \in 1 .. Len(d), NEW i \in 1 .. (j - 1)
          PROVE  Greater(d[j].key, d[i].key)
      <3>0. j \in 1 .. (n + 1) /\ i \in 1 .. (n + 1) /\ i < j
        BY <1>0, <2>1
      <3>1. CASE j < p
        <4>1. d[j] = s[j] /\ d[i] = s[i]
          BY <1>0, <2>1, <3>0, <3>1
        <4>2. j \in 1 .. Len(s)
          BY <1>0, <3>0, <3>1
        <4>3. QED
          BY <4>1, <4>2 DEF Sorted
      <3>2. CASE j = p
        <4>1. i < p /\ i \in 1 .. n
          BY <1>0, <3>0, <3>2
        <4>2. d[j] = Pair(k, v) /\ d[i] = s[i]
          BY <1>0, <2>1, <3>0, <3>2, <4>1
        <4>3. QED
          BY <1>2, <2>2, <4>1, <4>2
      <3>3. CASE j > p
        <4>1. d[j] = s[j - 1] /\ j - 1 \in 1 .. n /\ ~(j - 1 < p)
          BY <1>0, <2>1, <3>0, <3>3
        <4>2. CASE i = p
          <5>1. d[i] = Pair(k, v)
            BY <1>0, <2>1, <3>0, <4>2
          <5>2. QED
            BY <1>2, <2>2, <4>1, <5>1
        <4>3. CASE i < p
          <5>1. d[i] = s[i] /\ i \in 1 .. ((j - 1) - 1)
            BY <1>0, <2>1, <3>0, <3>3, <4>3
          <5>2. QED
            BY <1>0, <4>1, <5>1 DEF Sorted
        <4>4. CASE i > p
          <5>1. d[i] = s[i - 1] /\ i - 1 \in 1 .. ((j - 1) - 1)
            BY <1>0, <2>1, <3>0, <4>4
          <5>2. QED
            BY <1>0, <4>1, <5>1 DEF Sorted
        <4>5. QED
          BY <1>0, <3>0, <4>2, <4>3, <4>4
      <3>4. QED
        BY <1>0, <3>0, <3>1, <3>2, <3>3
    <2>4. QED
      BY <1>1, <2>1, <2>3 DEF Sorted
  <1>5. QED
    BY <1>3, <1>4

-----------------------------------------------------------------------------
(* The table *)

\* What ht_set does to a chain, as far as ht_get can see.
LEMMA GetPutSame ==
  ASSUME TableAssumption, NEW s \in Chains, Sorted(s), NEW k \in HostKeys, NEW v \in Values
  PROVE  Get(Put(s, k, v), k) = v
  <1>0. PICK n \in Nat, p \in Nat : n = Len(s) /\ p = Position(s, k) /\ p \in 1 .. (n + 1)
    <2>1. Len(s) \in Nat /\ Position(s, k) \in 1 .. (Len(s) + 1)
      BY LenProperties, PositionIs DEF Chains
    <2>2. QED
      BY <2>1
  <1>1. PICK d : d = Put(s, k, v)
    OBVIOUS
  <1>2. d \in Chains /\ Sorted(d)
    BY <1>1, PutSorted
  <1>3. p \in 1 .. Len(d) /\ d[p] = Pair(k, v)
    <2>1. CASE Found(s, k)
      <3>1. /\ d \in Chains /\ Len(d) = Len(s)
            /\ \A j \in 1 .. Len(s) : d[j] = IF j = p THEN Pair(k, v) ELSE s[j]
        BY <1>0, <1>1, <2>1, PutFound
      <3>2. p \in 1 .. Len(s)
        BY <1>0, <2>1, FoundAt
      <3>3. QED
        BY <3>1, <3>2
    <2>2. CASE ~Found(s, k)
      <3>1. /\ d \in Chains /\ Len(d) = n + 1
            /\ \A j \in 1 .. (n + 1) :
                 d[j] = IF j < p THEN s[j] ELSE IF j = p THEN Pair(k, v) ELSE s[j - 1]
        BY <1>0, <1>1, <2>2, PutNew
      <3>2. ~(p < p)
        BY <1>0
      <3>3. QED
        BY <1>0, <3>1, <3>2
    <2>3. QED
      BY <2>1, <2>2
  <1>4. d[p].key = k /\ d[p].value = v
    BY <1>3 DEF Pair
  <1>5. Get(d, d[p].key) = d[p].value
    BY <1>2, <1>3, GetAt
  <1>6. QED
    BY <1>1, <1>4, <1>5

\* Another key keeps its pair or has none still.
LEMMA GetPutOther ==
  ASSUME TableAssumption, NEW s \in Chains, Sorted(s), NEW k \in HostKeys, NEW v \in Values,
         NEW other \in HostKeys, other # k
  PROVE  Get(Put(s, k, v), other) = Get(s, other)
  <1>0. PICK n \in Nat, p \in Nat : n = Len(s) /\ p = Position(s, k) /\ p \in 1 .. (n + 1)
    <2>1. Len(s) \in Nat /\ Position(s, k) \in 1 .. (Len(s) + 1)
      BY LenProperties, PositionIs DEF Chains
    <2>2. QED
      BY <2>1
  <1>1. PICK d : d = Put(s, k, v)
    OBVIOUS
  <1>2. d \in Chains /\ Sorted(d)
    BY <1>1, PutSorted
  <1>3. Pair(k, v).key = k
    BY DEF Pair
  <1>4. /\ \A i \in 1 .. Len(s) : s[i].key = other => \E j \in 1 .. Len(d) : d[j] = s[i]
        /\ \A j \in 1 .. Len(d) : d[j].key = other => \E i \in 1 .. Len(s) : d[j] = s[i]
    <2>1. CASE Found(s, k)
      <3>1. /\ d \in Chains /\ Len(d) = Len(s)
            /\ \A j \in 1 .. Len(s) : d[j] = IF j = p THEN Pair(k, v) ELSE s[j]
        BY <1>0, <1>1, <2>1, PutFound
      <3>2. p \in 1 .. Len(s) /\ s[p].key = k /\ d[p].key = k
        BY <1>0, <1>3, <2>1, <3>1, FoundAt
      <3>3. QED
        BY <3>1, <3>2
    <2>2. CASE ~Found(s, k)
      <3>1. /\ d \in Chains /\ Len(d) = n + 1
            /\ \A j \in 1 .. (n + 1) :
                 d[j] = IF j < p THEN s[j] ELSE IF j = p THEN Pair(k, v) ELSE s[j - 1]
        BY <1>0, <1>1, <2>2, PutNew
      <3>2. ASSUME NEW i \in 1 .. n
            PROVE  \E j \in 1 .. (n + 1) : d[j] = s[i]
        <4>1. CASE i < p
          <5>1. i \in 1 .. (n + 1)
            BY <1>0
          <5>2. d[i] = s[i]
            BY <3>1, <4>1, <5>1
          <5>3. QED
            BY <5>1, <5>2
        <4>2. CASE ~(i < p)
          <5>1. i + 1 \in 1 .. (n + 1) /\ ~(i + 1 < p) /\ i + 1 # p /\ (i + 1) - 1 = i
            BY <1>0, <4>2
          <5>2. d[i + 1] = s[i]
            BY <3>1, <5>1
          <5>3. QED
            BY <5>1, <5>2
        <4>3. QED
          BY <4>1, <4>2
      <3>3. ASSUME NEW j \in 1 .. (n + 1), d[j].key = other
            PROVE  \E i \in 1 .. n : d[j] = s[i]
        <4>1. j # p
          <5>1. d[p] = Pair(k, v)
            BY <1>0, <3>1
          <5>2. QED
            BY <1>3, <3>3, <5>1
        <4>2. CASE j < p
          <5>1. d[j] = s[j] /\ j \in 1 .. n
            BY <1>0, <3>1, <4>2
          <5>2. QED
            BY <5>1
        <4>3. CASE j > p
          <5>1. d[j] = s[j - 1] /\ j - 1 \in 1 .. n
            BY <1>0, <3>1, <4>3
          <5>2. QED
            BY <5>1
        <4>4. QED
          BY <1>0, <4>1, <4>2, <4>3
      <3>4. QED
        BY <1>0, <3>1, <3>2, <3>3
    <2>3. QED
      BY <2>1, <2>2
  <1>5. CASE \E i \in 1 .. Len(s) : s[i].key = other
    <2>1. PICK i \in 1 .. Len(s) : s[i].key = other
      BY <1>5
    <2>2. PICK j \in 1 .. Len(d) : d[j] = s[i]
      BY <1>4, <2>1
    <2>3. Get(s, other) = s[i].value
      BY <2>1, GetAt
    <2>4. Get(d, other) = d[j].value
      BY <1>2, <2>1, <2>2, GetAt
    <2>5. QED
      BY <1>1, <2>2, <2>3, <2>4
  <1>6. CASE ~\E i \in 1 .. Len(s) : s[i].key = other
    <2>1. Get(s, other) = Missing
      BY <1>6, GetNone
    <2>2. \A j \in 1 .. Len(d) : d[j].key # other
      BY <1>4, <1>6
    <2>3. Get(d, other) = Missing
      BY <1>2, <2>2, GetNone
    <2>4. QED
      BY <1>1, <2>1, <2>3
  <1>7. QED
    BY <1>5, <1>6

\* The inductive invariant: well-typed chains, sorted.
TableInv == TableTypeOK /\ \A b \in Bins : Sorted(table[b])

\* One call of ht_set, seen from the chain of its bin.
LEMMA SetIsPut ==
  ASSUME NEW k \in HostKeys, NEW v \in Values, NEW g \in Garbage, ht_set(k, v, g)
  PROVE  table' = [table EXCEPT ![ht_hash(k, g)] = Put(table[ht_hash(k, g)], k, v)]
  BY DEF ht_set, Put

\* ht_create.
LEMMA InitTableInv == ASSUME TableAssumption PROVE TableInit => TableInv
  <1>1. SUFFICES ASSUME TableInit PROVE TableInv
    OBVIOUS
  <1>2. table = [b \in Bins |-> <<>>]
    BY <1>1 DEF TableInit
  <1>3. TableTypeOK
    BY <1>2 DEF TableTypeOK
  <1>4. ASSUME NEW b \in Bins PROVE Sorted(table[b])
    <2>1. table[b] = <<>> /\ Len(<<>>) = 0
      BY <1>2
    <2>2. 1 .. 0 = {}
      OBVIOUS
    <2>3. QED
      BY <2>1, <2>2 DEF Sorted
  <1>5. QED
    BY <1>3, <1>4 DEF TableInv

\* ht_set.
LEMMA NextTableInv ==
  ASSUME TableAssumption, TableInv, [TableNext]_tableVars
  PROVE  TableInv'
  <1>0. table \in [Bins -> Chains] /\ \A b \in Bins : Sorted(table[b])
    BY DEF TableInv, TableTypeOK, Chains, Pairs
  <1>1. CASE TableNext
    <2>1. PICK k \in HostKeys, v \in Values, g \in Garbage : ht_set(k, v, g)
      BY <1>1 DEF TableNext
    <2>2. PICK b : b = ht_hash(k, g)
      OBVIOUS
    <2>3. b \in Bins
      BY <2>2, HashAgrees
    <2>4. PICK d : d = Put(table[b], k, v)
      OBVIOUS
    <2>5. table' = [table EXCEPT ![b] = d]
      BY <2>1, <2>2, <2>4, SetIsPut
    <2>6. d \in Chains /\ Sorted(d)
      <3>1. table[b] \in Chains /\ Sorted(table[b])
        BY <1>0, <2>3
      <3>2. QED
        BY <2>4, <3>1, PutSorted
    <2>7. table' \in [Bins -> Chains] /\ \A c \in Bins : Sorted(table'[c])
      BY <1>0, <2>3, <2>5, <2>6
    <2>8. QED
      BY <2>7 DEF TableInv, TableTypeOK, Chains, Pairs
  <1>2. CASE UNCHANGED tableVars
    <2>1. table' = table
      BY <1>2 DEF tableVars
    <2>2. QED
      BY <1>0, <2>1 DEF TableInv, TableTypeOK, Chains, Pairs
  <1>3. QED
    BY <1>1, <1>2

\* ht_set keeps every chain of hash_table.c sorted by strcmp: ht_get's walk,
\* which stops at the first key that is not smaller, misses nothing.
THEOREM AlwaysTable ==
  ASSUME TableAssumption
  PROVE  TableSpec => []TableInv
  <1>1. TableInit => TableInv
    BY InitTableInv
  <1>2. TableInv /\ [TableNext]_tableVars => TableInv'
    BY NextTableInv
  <1>3. QED
    BY <1>1, <1>2, PTL DEF TableSpec

\* The map that the chains are.
LEMMA LookupsAre ==
  ASSUME TableAssumption, NEW t, t = table
  PROVE  Lookups = [k \in HostKeys |-> Get(t[TailBin(k)], k)]
  <1>1. (CHOOSE g \in Garbage : TRUE) \in Garbage
    BY DEF TableAssumption, GarbageAssumption
  <1>2. ASSUME NEW k \in HostKeys
        PROVE  ht_get(k, CHOOSE g \in Garbage : TRUE) = Get(t[TailBin(k)], k)
    BY <1>1, HashIsTail DEF ht_get, Get
  <1>3. QED
    BY <1>2 DEF Lookups

\* The same in the next state.
LEMMA LookupsPrimed ==
  ASSUME TableAssumption
  PROVE  Lookups' = [k \in HostKeys |-> Get(table'[TailBin(k)], k)]
  <1>1. (CHOOSE g \in Garbage : TRUE) \in Garbage
    BY DEF TableAssumption, GarbageAssumption
  <1>2. ASSUME NEW k \in HostKeys
        PROVE  ht_get(k, CHOOSE g \in Garbage : TRUE)' = Get(table'[TailBin(k)], k)
    BY <1>1, HashIsTail DEF ht_get, Get
  <1>3. QED
    BY <1>2 DEF Lookups

\* An empty table is an empty map.
LEMMA StartsEmpty ==
  ASSUME TableAssumption
  PROVE  TableInit => Map!Init
  <1>1. SUFFICES ASSUME TableInit PROVE Lookups = [k \in HostKeys |-> Missing]
    BY DEF Map!Init
  <1>2. ASSUME NEW k \in HostKeys
        PROVE  Get(table[TailBin(k)], k) = Missing
    <2>1. TailBin(k) \in Bins
      BY TailInBins DEF Bins
    <2>2. table[TailBin(k)] = <<>> /\ <<>> \in Chains /\ 1 .. Len(<<>>) = {}
      BY <1>1, <2>1 DEF TableInit, Chains
    <2>3. QED
      BY <2>2, GetNone
  <1>3. Lookups = [k \in HostKeys |-> Get(table[TailBin(k)], k)]
    BY LookupsAre
  <1>4. QED
    BY <1>2, <1>3

\* Every call of ht_set is one step of the map.
LEMMA StepsOfTheMap ==
  ASSUME TableAssumption, TableInv, [TableNext]_tableVars
  PROVE  [Map!Next]_Lookups
  <1>0. table \in [Bins -> Chains] /\ \A b \in Bins : Sorted(table[b])
    BY DEF TableInv, TableTypeOK, Chains, Pairs
  <1>1. /\ Lookups = [k \in HostKeys |-> Get(table[TailBin(k)], k)]
        /\ Lookups' = [k \in HostKeys |-> Get(table'[TailBin(k)], k)]
    BY LookupsAre, LookupsPrimed
  <1>2. CASE TableNext
    <2>1. PICK k \in HostKeys, v \in Values, g \in Garbage : ht_set(k, v, g)
      BY <1>2 DEF TableNext
    <2>2. ht_hash(k, g) = TailBin(k) /\ TailBin(k) \in Bins
      BY HashIsTail, TailInBins DEF Bins
    <2>3. table' = [table EXCEPT ![TailBin(k)] = Put(table[TailBin(k)], k, v)]
      BY <2>1, <2>2, SetIsPut
    <2>4. table[TailBin(k)] \in Chains /\ Sorted(table[TailBin(k)])
      BY <1>0, <2>2
    <2>5. ASSUME NEW l \in HostKeys
          PROVE  Get(table'[TailBin(l)], l) = IF l = k THEN v ELSE Get(table[TailBin(l)], l)
      <3>1. TailBin(l) \in Bins
        BY TailInBins DEF Bins
      <3>2. CASE l = k
        <4>1. table'[TailBin(l)] = Put(table[TailBin(k)], k, v)
          BY <1>0, <2>2, <2>3, <3>2
        <4>2. QED
          BY <2>4, <3>2, <4>1, GetPutSame
      <3>3. CASE l # k /\ TailBin(l) = TailBin(k)
        <4>1. table'[TailBin(l)] = Put(table[TailBin(k)], k, v)
          BY <1>0, <2>2, <2>3, <3>3
        <4>2. Get(Put(table[TailBin(k)], k, v), l) = Get(table[TailBin(k)], l)
          BY <2>4, <3>3, GetPutOther
        <4>3. QED
          BY <3>3, <4>1, <4>2
      <3>4. CASE l # k /\ TailBin(l) # TailBin(k)
        <4>1. table'[TailBin(l)] = table[TailBin(l)]
          BY <1>0, <2>3, <3>1, <3>4
        <4>2. QED
          BY <3>4, <4>1
      <3>5. QED
        BY <3>2, <3>3, <3>4
    <2>6. Lookups' = [Lookups EXCEPT ![k] = v]
      BY <1>1, <2>5
    <2>7. QED
      BY <2>1, <2>6 DEF Map!Next, Map!Set
  <1>3. CASE UNCHANGED tableVars
    BY <1>1, <1>3 DEF tableVars
  <1>4. QED
    BY <1>2, <1>3

\* The table of hash_table.c implements a map: ht_set changes what ht_get
\* returns for its own key only, also for keys in one bin, and a different
\* hashval at every call changes nothing.
THEOREM TableIsMap ==
  ASSUME TableAssumption
  PROVE  TableSpec => ImplementsMap
  <1>1. TableInit => Map!Init
    BY StartsEmpty
  <1>2. TableInv /\ [TableNext]_tableVars => [Map!Next]_Lookups
    BY StepsOfTheMap
  <1>3. TableSpec => []TableInv
    BY AlwaysTable
  <1>4. QED
    BY <1>1, <1>2, <1>3, PTL DEF TableSpec, ImplementsMap, Map!Spec
=============================================================================
