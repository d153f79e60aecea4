--------------------------- MODULE KeyHashProofs ----------------------------
(***************************************************************************)
(* From a key to the place of its value.  First the MD5 buffers: both      *)
(* implementations compress the padded message, whatever pieces it comes   *)
(* in, for every size of a block: a context holds the whole blocks of the  *)
(* message so far and, at the start of its buffer, the rest.  Then the     *)
(* routing: whatever the digests are, a client looks where the proxy and   *)
(* the file server have put a value.                                       *)
(***************************************************************************)
EXTENDS Md5Buffer, Routing, NatSets, SequenceTheorems

\* Messages and their pieces.
Bytes == Seq(Nat)

\* Division by the size of a block is unique.
LEMMA BlocksAndRest ==
  ASSUME BlocksAssumption, NEW n \in Int, NEW q \in Int, NEW r \in 0 .. BlockSize - 1,
         n = BlockSize * q + r
  PROVE  n \div BlockSize = q /\ n % BlockSize = r
  BY DEF BlocksAssumption

\* Every number of bytes is some blocks and a rest.
LEMMA InBlocks ==
  ASSUME BlocksAssumption, NEW n \in Nat
  PROVE  /\ n \div BlockSize \in Nat /\ n % BlockSize \in 0 .. BlockSize - 1
         /\ n = BlockSize * (n \div BlockSize) + (n % BlockSize)
         /\ BlockSize \in Nat \ {0}
  <1>1. BlockSize \in Nat \ {0}
    BY DEF BlocksAssumption
  <1>2. QED
    BY <1>1

\* A block more is a block's worth of bytes more.
LEMMA MulNext ==
  ASSUME NEW B \in Nat, NEW b \in Int
  PROVE  B * (b + 1) = B * b + B /\ B * (b - 1) = B * b - B /\ B * b = b * B /\ (b - 1) * B = B * b - B
  OBVIOUS

\* More blocks are more bytes.
LEMMA MulLess ==
  ASSUME NEW B \in Nat, NEW a \in Int, NEW b \in Int, a <= b
  PROVE  B * a <= B * b
  OBVIOUS

\* A block lies within the bytes.
LEMMA BlockIn ==
  ASSUME BlocksAssumption, NEW n \in Nat, NEW b \in 1 .. n \div BlockSize, NEW i \in 1 .. BlockSize
  PROVE  (BlockSize * b - BlockSize) + i \in 1 .. n
  <1>1. PICK q \in Nat, r \in 0 .. BlockSize - 1 : q = n \div BlockSize /\ n = BlockSize * q + r
    BY InBlocks
  <1>2. BlockSize \in Nat \ {0}
    BY InBlocks
  <1>3. BlockSize * b <= BlockSize * q /\ BlockSize * 1 <= BlockSize * b
    BY <1>1, <1>2, MulLess
  <1>4. PICK x \in Int, y \in Int : x = BlockSize * b /\ y = BlockSize * q
    BY <1>1, <1>2
  <1>5. x <= y /\ BlockSize <= x /\ y <= n
    BY <1>1, <1>2, <1>3, <1>4
  <1>6. (x - BlockSize) + i \in 1 .. n
    BY <1>2, <1>5
  <1>7. QED
    BY <1>4, <1>6

\* A block of Whole, byte by byte.
LEMMA BlockOf ==
  ASSUME BlocksAssumption, NEW m \in Bytes, NEW b \in 1 .. Len(m) \div BlockSize
  PROVE  LET s == SubSeq(m, (b - 1) * BlockSize + 1, b * BlockSize)
         IN  /\ s \in Bytes /\ Len(s) = BlockSize
             /\ \A i \in 1 .. BlockSize : s[i] = m[(BlockSize * b - BlockSize) + i]
  <1>1. Len(m) \in Nat /\ BlockSize \in Nat \ {0} /\ b \in Nat
    BY InBlocks DEF Bytes
  <1>2. (b - 1) * BlockSize = BlockSize * b - BlockSize /\ b * BlockSize = BlockSize * b
    BY <1>1, MulNext
  <1>3. PICK x \in Int : x = BlockSize * b
    BY <1>1
  <1>4. \A i \in 1 .. BlockSize : (x - BlockSize) + i \in 1 .. Len(m)
    BY <1>1, <1>3, BlockIn
  <1>5. \A i \in (x - BlockSize) + 1 .. x : m[i] \in Nat
    <2> TAKE i \in (x - BlockSize) + 1 .. x
    <2>1. i - (x - BlockSize) \in 1 .. BlockSize
      BY <1>1
    <2>2. (x - BlockSize) + (i - (x - BlockSize)) = i
      BY <1>1
    <2>3. i \in 1 .. Len(m)
      BY <1>4, <2>1, <2>2
    <2>4. QED
      BY <2>3 DEF Bytes
  <1>6. /\ SubSeq(m, (x - BlockSize) + 1, x) \in Bytes
        /\ Len(SubSeq(m, (x - BlockSize) + 1, x)) = BlockSize
        /\ \A i \in 1 .. BlockSize : SubSeq(m, (x - BlockSize) + 1, x)[i] = m[(x - BlockSize) + i]
    <2>1. (x - BlockSize) + 1 \in Int /\ x - ((x - BlockSize) + 1) + 1 = BlockSize
          /\ (x - BlockSize) + 1 <= x
      BY <1>1
    <2>2. \A i \in 1 .. BlockSize : ((x - BlockSize) + 1) + i - 1 = (x - BlockSize) + i
      BY <1>1
    <2>3. QED
      BY <1>5, <2>1, <2>2, SubSeqProperties DEF Bytes
  <1>7. (b - 1) * BlockSize + 1 = (x - BlockSize) + 1 /\ b * BlockSize = x
    BY <1>2, <1>3
  <1>8. QED
    BY <1>3, <1>6, <1>7

\* The blocks of a sequence, byte by byte.
InOrder(w, m) ==
  /\ w \in Seq(Bytes) /\ Len(w) = Len(m) \div BlockSize
  /\ \A b \in 1 .. Len(m) \div BlockSize :
       /\ Len(w[b]) = BlockSize
       /\ \A i \in 1 .. BlockSize : w[b][i] = m[(BlockSize * b - BlockSize) + i]

\* Whole is in order ...
LEMMA WholeInOrder ==
  ASSUME BlocksAssumption, NEW m \in Bytes
  PROVE  InOrder(Whole(m), m)
  <1>1. PICK q \in Nat : q = Len(m) \div BlockSize
    BY InBlocks DEF Bytes
  <1>2. Whole(m) = [b \in 1 .. q |-> SubSeq(m, (b - 1) * BlockSize + 1, b * BlockSize)]
    BY <1>1 DEF Whole
  <1>3. \A b \in 1 .. q :
          /\ Whole(m)[b] \in Bytes /\ Len(Whole(m)[b]) = BlockSize
          /\ \A i \in 1 .. BlockSize : Whole(m)[b][i] = m[(BlockSize * b - BlockSize) + i]
    <2> TAKE b \in 1 .. q
    <2>1. Whole(m)[b] = SubSeq(m, (b - 1) * BlockSize + 1, b * BlockSize)
      BY <1>2
    <2>2. b \in 1 .. Len(m) \div BlockSize
      BY <1>1
    <2>3. QED
      BY <2>1, <2>2, BlockOf
  <1>4. Whole(m) \in Seq(Bytes) /\ Len(Whole(m)) = q
    <2>1. Whole(m) \in [1 .. q -> Bytes]
      BY <1>2, <1>3
    <2>2. QED
      BY <2>1
  <1>5. QED
    BY <1>1, <1>3, <1>4 DEF InOrder

\* ... and nothing else is.
LEMMA OnlyWhole ==
  ASSUME BlocksAssumption, NEW m \in Bytes, NEW w, InOrder(w, m)
  PROVE  w = Whole(m)
  <1>1. PICK v : v = Whole(m)
    OBVIOUS
  <1>2. InOrder(v, m)
    BY <1>1, WholeInOrder
  <1>3. PICK q : q = Len(m) \div BlockSize
    OBVIOUS
  <1>4. \A b \in 1 .. q : w[b] = v[b]
    <2> TAKE b \in 1 .. q
    <2>1. q \in Nat
      BY <1>3, InBlocks DEF Bytes
    <2>2. w[b] \in Seq(Nat) /\ v[b] \in Seq(Nat)
      BY <1>2, <1>3, <2>1, ElementOfSeq DEF InOrder, Bytes
    <2>3. Len(w[b]) = Len(v[b]) /\ \A i \in 1 .. Len(w[b]) : w[b][i] = v[b][i]
      BY <1>2, <1>3 DEF InOrder
    <2>4. QED
      BY <2>2, <2>3, SeqEqual
  <1>5. w \in Seq(Bytes) /\ v \in Seq(Bytes) /\ Len(w) = q /\ Len(v) = q
    BY <1>2, <1>3 DEF InOrder
  <1>6. QED
    BY <1>1, <1>4, <1>5, SeqEqual

\* A concatenation, element by element.
Joined(j, s, t) ==
  /\ Len(s) \in Nat /\ Len(t) \in Nat /\ Len(j) = Len(s) + Len(t)
  /\ \A i \in 1 .. Len(s) + Len(t) : j[i] = IF i <= Len(s) THEN s[i] ELSE t[i - Len(s)]

\* Bytes behind bytes.
LEMMA JoinedBytes ==
  ASSUME NEW s \in Bytes, NEW t \in Bytes
  PROVE  s \o t \in Bytes /\ Joined(s \o t, s, t)
  <1>1. s \in Seq(Nat) /\ t \in Seq(Nat)
    BY DEF Bytes
  <1>2. Len(s) \in Nat /\ Len(t) \in Nat
    BY <1>1
  <1>3. QED
    BY <1>1, <1>2, ConcatProperties DEF Joined, Bytes

\* Blocks behind blocks.
LEMMA JoinedBlocks ==
  ASSUME NEW s \in Seq(Bytes), NEW t \in Seq(Bytes)
  PROVE  s \o t \in Seq(Bytes) /\ Joined(s \o t, s, t)
  <1>2. Len(s) \in Nat /\ Len(t) \in Nat
    BY LenProperties
  <1>3. QED
    BY <1>2, ConcatProperties DEF Joined

\* Bytes that fill no block leave the blocks as they are.
LEMMA WholeShort ==
  ASSUME BlocksAssumption, NEW m \in Bytes, NEW d \in Bytes, NEW q \in Nat,
         NEW r \in 0 .. BlockSize - 1, Len(m) = BlockSize * q + r, r + Len(d) < BlockSize
  PROVE  Whole(m \o d) = Whole(m)
  <1>0. PICK j : j = m \o d
    OBVIOUS
  <1>1. Len(m) \in Nat /\ Len(d) \in Nat /\ j \in Bytes /\ Len(j) = Len(m) + Len(d)
        /\ \A i \in 1 .. Len(m) : j[i] = m[i]
    <2>1. Len(m) \in Nat /\ Len(d) \in Nat /\ j \in Bytes /\ Len(j) = Len(m) + Len(d)
          /\ \A i \in 1 .. Len(m) + Len(d) : j[i] = IF i <= Len(m) THEN m[i] ELSE d[i - Len(m)]
      BY <1>0, JoinedBytes DEF Joined
    <2>2. QED
      BY <2>1
  <1>2. BlockSize \in Nat \ {0} /\ r + Len(d) \in 0 .. BlockSize - 1
        /\ Len(j) = BlockSize * q + (r + Len(d))
    <2>1. BlockSize \in Nat \ {0}
      BY DEF BlocksAssumption
    <2>2. PICK x \in Int : x = BlockSize * q
      BY <2>1
    <2>3. Len(j) = x + (r + Len(d)) /\ r + Len(d) \in 0 .. BlockSize - 1
      BY <1>1, <2>1, <2>2
    <2>4. QED
      BY <2>1, <2>2, <2>3
  <1>3. Len(m) \div BlockSize = q
    BY <1>1, BlocksAndRest
  <1>4. Len(j) \div BlockSize = q
    <2>1. Len(j) \in Int /\ q \in Int
      BY <1>1
    <2>2. QED
      BY <1>2, <2>1, BlocksAndRest
  <1>5. PICK w : w = Whole(j)
    OBVIOUS
  <1>6. InOrder(w, j)
    BY <1>1, <1>5, WholeInOrder
  <1>7. InOrder(w, m)
    <2>1. \A b \in 1 .. q : \A i \in 1 .. BlockSize :
            (BlockSize * b - BlockSize) + i \in 1 .. Len(m)
      BY <1>1, <1>3, BlockIn
    <2>2. ASSUME NEW b \in 1 .. q, NEW i \in 1 .. BlockSize
          PROVE  w[b][i] = m[(BlockSize * b - BlockSize) + i]
      <3>1. PICK x \in 1 .. Len(m) : x = (BlockSize * b - BlockSize) + i
        BY <2>1
      <3>2. w[b][i] = j[x]
        BY <1>4, <1>6, <3>1 DEF InOrder
      <3>3. QED
        BY <1>1, <3>1, <3>2
    <2>3. QED
      BY <1>3, <1>4, <1>6, <2>2 DEF InOrder
  <1>8. QED
    BY <1>0, <1>5, <1>7, OnlyWhole

\* Behind whole blocks the blocks are cut afresh.
LEMMA WholeJoin ==
  ASSUME BlocksAssumption, NEW m \in Bytes, NEW d \in Bytes, NEW q \in Nat,
         Len(m) = BlockSize * q
  PROVE  Whole(m \o d) = Whole(m) \o Whole(d)
  <1>0. PICK j : j = m \o d
    OBVIOUS
  <1>1. Len(m) \in Nat /\ Len(d) \in Nat /\ j \in Bytes /\ Len(j) = Len(m) + Len(d)
        /\ \A i \in 1 .. Len(m) + Len(d) : j[i] = IF i <= Len(m) THEN m[i] ELSE d[i - Len(m)]
    BY <1>0, JoinedBytes DEF Joined
  <1>2. PICK k \in Nat, r \in 0 .. BlockSize - 1 :
          k = Len(d) \div BlockSize /\ Len(d) = BlockSize * k + r
    BY <1>1, InBlocks
  <1>3. BlockSize \in Nat \ {0} /\ Len(j) = BlockSize * (q + k) + r /\ Len(m) = BlockSize * q + 0
        /\ 0 \in 0 .. BlockSize - 1
    <2>1. BlockSize \in Nat \ {0}
      BY DEF BlocksAssumption
    <2>2. PICK x \in Int, y \in Int : x = BlockSize * q /\ y = BlockSize * k
      BY <2>1
    <2>3. BlockSize * (q + k) = x + y
      BY <2>1, <2>2
    <2>4. Len(j) = (x + y) + r /\ Len(m) = x + 0
      <3>1. Len(m) = x /\ Len(d) = y + r
        BY <1>2, <2>2
      <3>2. x + (y + r) = (x + y) + r /\ x = x + 0
        BY <1>2
      <3>3. QED
        BY <1>1, <3>1, <3>2
    <2>5. QED
      BY <2>1, <2>2, <2>3, <2>4
  <1>4. Len(m) \div BlockSize = q /\ Len(j) \div BlockSize = q + k
    <2>1. Len(m) \in Int /\ Len(j) \in Int /\ q \in Int /\ q + k \in Int
      BY <1>1
    <2>2. Len(m) \div BlockSize = q
      BY <1>3, <2>1, BlocksAndRest
    <2>3. Len(j) \div BlockSize = q + k
      BY <1>3, <2>1, BlocksAndRest
    <2>4. QED
      BY <2>2, <2>3
  <1>5. PICK v, w, u : v = Whole(m) /\ w = Whole(d) /\ u = v \o w
    OBVIOUS
  <1>6. InOrder(v, m) /\ InOrder(w, d)
    BY <1>5, WholeInOrder
  <1>7. /\ u \in Seq(Bytes) /\ Len(u) = q + k
        /\ \A b \in 1 .. q + k : u[b] = IF b <= q THEN v[b] ELSE w[b - q]
    <2>1. v \in Seq(Bytes) /\ w \in Seq(Bytes) /\ Len(v) = q /\ Len(w) = k
      BY <1>2, <1>4, <1>6 DEF InOrder
    <2>2. QED
      BY <1>5, <2>1, JoinedBlocks DEF Joined
  <1>8. ASSUME NEW b \in 1 .. q + k
        PROVE  /\ Len(u[b]) = BlockSize
               /\ \A i \in 1 .. BlockSize : u[b][i] = j[(BlockSize * b - BlockSize) + i]
    <2>1. CASE b <= q
      <3>1. b \in 1 .. q /\ u[b] = v[b]
        BY <1>7, <2>1
      <3>2. ASSUME NEW i \in 1 .. BlockSize
            PROVE  u[b][i] = j[(BlockSize * b - BlockSize) + i]
        <4>1. PICK x \in 1 .. Len(m) : x = (BlockSize * b - BlockSize) + i
          BY <1>1, <1>4, <3>1, BlockIn
        <4>2. v[b][i] = m[x]
          BY <1>4, <1>6, <3>1, <4>1 DEF InOrder
        <4>3. j[x] = m[x]
          BY <1>1
        <4>4. QED
          BY <3>1, <4>1, <4>2, <4>3
      <3>3. QED
        BY <1>4, <1>6, <3>1, <3>2 DEF InOrder
    <2>2. CASE b > q
      <3>1. PICK a \in 1 .. k : a = b - q
        BY <2>2
      <3>2. u[b] = w[a]
        BY <1>7, <2>2, <3>1
      <3>3. ASSUME NEW i \in 1 .. BlockSize
            PROVE  u[b][i] = j[(BlockSize * b - BlockSize) + i]
        <4>1. PICK x \in 1 .. Len(d) : x = (BlockSize * a - BlockSize) + i
          BY <1>1, <1>2, <3>1, BlockIn
        <4>2. w[a][i] = d[x]
          BY <1>2, <1>6, <3>1, <4>1 DEF InOrder
        <4>3. (BlockSize * b - BlockSize) + i = Len(m) + x
          <5>1. BlockSize * b = BlockSize * q + BlockSize * a
            BY <1>3, <3>1
          <5>2. PICK y \in Int : y = BlockSize * a
            BY <1>3
          <5>3. QED
            BY <1>1, <1>3, <4>1, <5>1, <5>2
        <4>4. j[Len(m) + x] = d[x]
          <5>1. Len(m) + x \in 1 .. Len(m) + Len(d) /\ ~(Len(m) + x <= Len(m))
                /\ (Len(m) + x) - Len(m) = x
            BY <1>1
          <5>2. QED
            BY <1>1, <5>1
        <4>5. QED
          BY <3>2, <4>2, <4>3, <4>4
      <3>4. QED
        BY <1>2, <1>6, <3>1, <3>2, <3>3 DEF InOrder
    <2>3. QED
      BY <2>1, <2>2
  <1>9. InOrder(u, j)
    BY <1>4, <1>7, <1>8 DEF InOrder
  <1>10. QED
    BY <1>0, <1>1, <1>5, <1>9, OnlyWhole

\* The bytes that complete a block make one block more.
LEMMA FilledLength ==
  ASSUME BlocksAssumption, NEW n \in Int, NEW k \in Int, NEW q \in Nat, NEW r \in Int,
         n = BlockSize * q + r, r + k = BlockSize
  PROVE  n + k = BlockSize * (q + 1) + 0
  <1>1. BlockSize \in Nat \ {0}
    BY DEF BlocksAssumption
  <1>2. PICK x \in Int : x = BlockSize * q
    BY <1>1
  <1>3. BlockSize * (q + 1) = x + BlockSize
    BY <1>1, <1>2
  <1>4. n = x + r
    BY <1>2
  <1>5. n + k = x + BlockSize
    BY <1>1, <1>4
  <1>6. QED
    BY <1>1, <1>3, <1>5

\* The block made of the last r bytes of m, behind q blocks, and of d.
Filled(f, m, d, q, r) ==
  /\ Len(f) = BlockSize
  /\ \A i \in 1 .. BlockSize : f[i] = IF i <= r THEN m[BlockSize * q + i] ELSE d[i - r]

\* Bytes that complete a block add it.
LEMMA WholeFill ==
  ASSUME BlocksAssumption, NEW m \in Bytes, NEW d \in Bytes, NEW q \in Nat,
         NEW r \in 0 .. BlockSize - 1, Len(m) = BlockSize * q + r, r + Len(d) = BlockSize,
         NEW f \in Bytes, Filled(f, m, d, q, r)
  PROVE  /\ Whole(m \o d) = Append(Whole(m), f)
         /\ Len(m \o d) = BlockSize * (q + 1)
  <1>0. PICK j : j = m \o d
    OBVIOUS
  <1>1. Len(m) \in Nat /\ Len(d) \in Nat /\ j \in Bytes /\ Len(j) = Len(m) + Len(d)
        /\ \A i \in 1 .. Len(m) + Len(d) : j[i] = IF i <= Len(m) THEN m[i] ELSE d[i - Len(m)]
    BY <1>0, JoinedBytes DEF Joined
  <1>3. BlockSize \in Nat \ {0} /\ Len(j) = BlockSize * (q + 1) + 0 /\ 0 \in 0 .. BlockSize - 1
    <2>1. BlockSize \in Nat \ {0}
      BY DEF BlocksAssumption
    <2>2. Len(m) \in Int /\ Len(d) \in Int
      BY <1>1
    <2>3. Len(m) + Len(d) = BlockSize * (q + 1) + 0
      BY <2>2, FilledLength
    <2>4. QED
      BY <1>1, <2>1, <2>3
  <1>4. Len(m) \div BlockSize = q /\ Len(j) \div BlockSize = q + 1
    <2>1. Len(m) \in Int /\ Len(j) \in Int /\ q \in Int /\ q + 1 \in Int
      BY <1>1
    <2>2. Len(m) \div BlockSize = q
      BY <2>1, BlocksAndRest
    <2>3. Len(j) \div BlockSize = q + 1
      BY <1>3, <2>1, BlocksAndRest
    <2>4. QED
      BY <2>2, <2>3
  <1>5. PICK v, u : v = Whole(m) /\ u = Append(v, f)
    OBVIOUS
  <1>6. InOrder(v, m)
    BY <1>5, WholeInOrder
  <1>7. /\ u \in Seq(Bytes) /\ Len(u) = q + 1
        /\ \A b \in 1 .. q : u[b] = v[b]
        /\ u[q + 1] = f
    <2>1. v \in Seq(Bytes) /\ Len(v) = q
      BY <1>4, <1>6 DEF InOrder
    <2>2. QED
      BY <1>5, <2>1
  <1>8. ASSUME NEW b \in 1 .. q + 1
        PROVE  /\ Len(u[b]) = BlockSize
               /\ \A i \in 1 .. BlockSize : u[b][i] = j[(BlockSize * b - BlockSize) + i]
    <2>1. CASE b <= q
      <3>1. b \in 1 .. q /\ u[b] = v[b]
        BY <1>7, <2>1
      <3>2. ASSUME NEW i \in 1 .. BlockSize
            PROVE  u[b][i] = j[(BlockSize * b - BlockSize) + i]
        <4>1. PICK x \in 1 .. Len(m) : x = (BlockSize * b - BlockSize) + i
          BY <1>1, <1>4, <3>1, BlockIn
        <4>2. v[b][i] = m[x]
          BY <1>4, <1>6, <3>1, <4>1 DEF InOrder
        <4>3. j[x] = m[x]
          BY <1>1
        <4>4. QED
          BY <3>1, <4>1, <4>2, <4>3
      <3>3. QED
        BY <1>4, <1>6, <3>1, <3>2 DEF InOrder
    <2>2. CASE b > q
      <3>1. b = q + 1
        BY <2>2
      <3>2. PICK y \in Nat : y = BlockSize * q
        BY <1>3
      <3>3. BlockSize * b - BlockSize = y
        BY <1>3, <3>1, <3>2
      <3>4. ASSUME NEW i \in 1 .. BlockSize
            PROVE  f[i] = j[y + i]
        <4>1. CASE i <= r
          <5>1. y + i \in 1 .. Len(m) + Len(d) /\ y + i <= Len(m)
            BY <1>1, <1>3, <3>2, <4>1
          <5>2. QED
            BY <1>1, <3>2, <4>1, <5>1 DEF Filled
        <4>2. CASE ~(i <= r)
          <5>1. y + i \in 1 .. Len(m) + Len(d) /\ ~(y + i <= Len(m)) /\ (y + i) - Len(m) = i - r
            BY <1>1, <1>3, <3>2, <4>2
          <5>2. QED
            BY <1>1, <4>2, <5>1 DEF Filled
        <4>3. QED
          BY <4>1, <4>2
      <3>5. QED
        BY <1>7, <3>1, <3>3, <3>4 DEF Filled
    <2>3. QED
      BY <2>1, <2>2
  <1>9. InOrder(u, j)
    <2>1. PICK n : n = Len(j) \div BlockSize
      OBVIOUS
    <2>2. n = q + 1
      BY <1>4, <2>1
    <2>3. u \in Seq(Bytes) /\ Len(u) = n
      BY <1>7, <2>2
    <2>4. \A b \in 1 .. n : /\ Len(u[b]) = BlockSize
                            /\ \A i \in 1 .. BlockSize : u[b][i] = j[(BlockSize * b - BlockSize) + i]
      BY <1>8, <2>2, Zenon
    <2>5. QED
      BY <2>1, <2>3, <2>4, Zenon DEF InOrder
  <1>10. Whole(j) = Append(Whole(m), f)
    BY <1>1, <1>5, <1>9, OnlyWhole
  <1>11. QED
    BY <1>0, <1>3, <1>10

\* MD5_CTX and md5_state_t.
Context(n, buf, w) == [count |-> n, buffer |-> buf, blocks |-> w]
Buffers == [1 .. BlockSize -> Nat]

\* The bytes of a message that fill no block.
Left(m) == Len(m) % BlockSize
Cut(m) == Len(m) - Left(m)

\* What a context is after a message: its whole blocks transformed, the rest of it
\* at the start of the buffer.
Holds(c, m) ==
  \E buf \in Buffers :
    /\ c = Context(Len(m), buf, Whole(m))
    /\ \A i \in 1 .. Left(m) : buf[i] = m[Cut(m) + i]

\* The whole blocks of a message end at Cut.
LEMMA CutAt ==
  ASSUME BlocksAssumption, NEW m \in Bytes
  PROVE  \E q \in Nat : /\ Left(m) \in 0 .. BlockSize - 1
                        /\ Len(m) \in Nat /\ Len(m) = BlockSize * q + Left(m)
                        /\ Cut(m) = BlockSize * q /\ Cut(m) \in Nat
                        /\ BlockSize \in Nat \ {0}
  <1>1. Len(m) \in Nat
    BY DEF Bytes
  <1>2. PICK q \in Nat, r \in 0 .. BlockSize - 1 : r = Left(m) /\ Len(m) = BlockSize * q + r
    BY <1>1, InBlocks DEF Left
  <1>3. BlockSize \in Nat \ {0}
    BY DEF BlocksAssumption
  <1>4. BlockSize * q \in Nat
    BY <1>3
  <1>5. Cut(m) = BlockSize * q
    <2>1. PICK x \in Nat : x = BlockSize * q
      BY <1>4
    <2>2. QED
      BY <1>2, <2>1 DEF Cut
  <1>6. QED
    BY <1>1, <1>2, <1>3, <1>4, <1>5

\* How a message is cut is determined by its length.
LEMMA CutIs ==
  ASSUME BlocksAssumption, NEW m \in Bytes, NEW q \in Nat, NEW r \in 0 .. BlockSize - 1,
         Len(m) = BlockSize * q + r
  PROVE  Left(m) = r /\ Cut(m) = BlockSize * q
  <1>1. Len(m) \in Int /\ q \in Int
    BY DEF Bytes
  <1>2. Left(m) = r
    BY <1>1, BlocksAndRest DEF Left
  <1>3. BlockSize \in Nat
    BY DEF BlocksAssumption
  <1>4. PICK x \in Int : x = BlockSize * q
    BY <1>3
  <1>5. QED
    BY <1>2, <1>4 DEF Cut

\* memcpy to a buffer.
LEMMA Copied ==
  ASSUME BlocksAssumption, NEW buf \in Buffers, NEW at \in Nat, NEW d \in Bytes
  PROVE  /\ Copy(buf, at, d) \in Buffers
         /\ \A i \in 1 .. BlockSize :
              Copy(buf, at, d)[i] = IF i > at /\ i <= at + Len(d) THEN d[i - at] ELSE buf[i]
  <1>1. Len(d) \in Nat /\ \A i \in 1 .. Len(d) : d[i] \in Nat
    BY DEF Bytes
  <1>2. ASSUME NEW i \in 1 .. BlockSize
        PROVE  (IF i > at /\ i <= at + Len(d) THEN d[i - at] ELSE buf[i]) \in Nat
    BY <1>1 DEF Buffers
  <1>3. QED
    BY <1>2 DEF Copy, Buffers

\* Both implementations: bytes that do not fill the buffer.
LEMMA TakesFew ==
  ASSUME BlocksAssumption, NEW m \in Bytes, NEW d \in Bytes, NEW c, Holds(c, m),
         Left(m) + Len(d) < BlockSize
  PROVE  Holds([c EXCEPT !.count = @ + Len(d), !.buffer = Copy(@, Left(m), d)], m \o d)
  <1>1. PICK buf \in Buffers : /\ c = Context(Len(m), buf, Whole(m))
                               /\ \A i \in 1 .. Left(m) : buf[i] = m[Cut(m) + i]
    BY DEF Holds
  <1>2. PICK q \in Nat : /\ Left(m) \in 0 .. BlockSize - 1
                         /\ Len(m) \in Nat /\ Len(m) = BlockSize * q + Left(m)
                         /\ Cut(m) = BlockSize * q /\ Cut(m) \in Nat
                         /\ BlockSize \in Nat \ {0}
    BY CutAt
  <1>3. PICK r \in 0 .. BlockSize - 1, x \in Nat : r = Left(m) /\ x = Cut(m) /\ Len(m) = x + r
    BY <1>2
  <1>4. PICK j \in Bytes : j = m \o d /\ Joined(j, m, d)
    BY JoinedBytes
  <1>5. PICK k \in Nat : k = Len(d) /\ r + k \in 0 .. BlockSize - 1
    <2>1. PICK k \in Nat : k = Len(d)
      BY <1>4 DEF Joined
    <2>2. BlockSize \in Nat
      BY <1>2
    <2>3. r + k < BlockSize
      BY <1>3, <2>1
    <2>4. r + k \in 0 .. BlockSize - 1
      BY <2>2, <2>3
    <2>5. QED
      BY <2>1, <2>4
  <1>6. Whole(j) = Whole(m)
    BY <1>2, <1>4, WholeShort
  <1>7. Left(j) = r + k /\ Cut(j) = x
    <2>1. Len(j) = x + (r + k)
      BY <1>3, <1>4, <1>5 DEF Joined
    <2>2. x = BlockSize * q
      BY <1>2, <1>3
    <2>3. QED
      BY <1>5, <2>1, <2>2, CutIs
  <1>8. PICK new \in Buffers :
          /\ new = Copy(buf, r, d)
          /\ \A i \in 1 .. BlockSize : new[i] = IF i > r /\ i <= r + k THEN d[i - r] ELSE buf[i]
    <2>1. r \in Nat
      OBVIOUS
    <2>2. PICK new : new = Copy(buf, r, d)
      OBVIOUS
    <2>3. /\ new \in Buffers
          /\ \A i \in 1 .. BlockSize :
               new[i] = IF i > r /\ i <= r + Len(d) THEN d[i - r] ELSE buf[i]
      BY <2>1, <2>2, Copied
    <2>4. QED
      BY <1>5, <2>2, <2>3
  <1>9. [c EXCEPT !.count = @ + Len(d), !.buffer = Copy(@, Left(m), d)]
          = Context(Len(j), new, Whole(j))
    <2>1. Len(j) = Len(m) + Len(d)
      BY <1>4 DEF Joined
    <2>2. Context(Len(m) + Len(d), new, Whole(m)) = Context(Len(j), new, Whole(j))
      BY <1>6, <2>1
    <2>3. Copy(buf, Left(m), d) = new
      BY <1>3, <1>8
    <2>4. [c EXCEPT !.count = @ + Len(d), !.buffer = Copy(@, Left(m), d)]
            = Context(Len(m) + Len(d), Copy(buf, Left(m), d), Whole(m))
      <3>1. c.count = Len(m) /\ c.buffer = buf
        BY <1>1 DEF Context
      <3>2. [c EXCEPT !.count = Len(m) + Len(d), !.buffer = Copy(buf, Left(m), d)]
              = Context(Len(m) + Len(d), Copy(buf, Left(m), d), Whole(m))
        <4>1. c = Context(Len(m), buf, Whole(m))
          BY <1>1
        <4>2. PICK n2, buf2 : n2 = Len(m) + Len(d) /\ buf2 = Copy(buf, Left(m), d)
          OBVIOUS
        <4>3. [c EXCEPT !.count = n2, !.buffer = buf2] = Context(n2, buf2, Whole(m))
          <5>1. [c EXCEPT !.count = n2, !.buffer = buf2]
                  = [[c EXCEPT !.count = n2] EXCEPT !.buffer = buf2]
            OBVIOUS
          <5>2. [c EXCEPT !.count = n2] = Context(n2, buf, Whole(m))
            BY <4>1 DEF Context
          <5>3. [Context(n2, buf, Whole(m)) EXCEPT !.buffer = buf2] = Context(n2, buf2, Whole(m))
            BY DEF Context
          <5>4. QED
            BY <5>1, <5>2, <5>3
        <4>4. QED
          BY <4>2, <4>3
      <3>3. QED
        BY <3>1, <3>2
    <2>5. QED
      BY <2>2, <2>3, <2>4
  <1>10. ASSUME NEW i \in 1 .. Left(j)
         PROVE  new[i] = j[Cut(j) + i]
    <2>0. i \in 1 .. r + k
      BY <1>7
    <2>1. i \in 1 .. r + k /\ i \in 1 .. BlockSize
      <3>1. r + k < BlockSize /\ BlockSize \in Nat
        BY <1>2, <1>5
      <3>2. QED
        BY <2>0, <3>1
    <2>2. x + i \in 1 .. Len(m) + Len(d)
      <3>1. Len(m) + Len(d) = (x + r) + k
        BY <1>3, <1>5
      <3>2. x + i \in 1 .. (x + r) + k
        BY <2>0
      <3>3. QED
        BY <3>1, <3>2
    <2>3. j[x + i] = IF x + i <= Len(m) THEN m[x + i] ELSE d[(x + i) - Len(m)]
      BY <1>4, <2>2 DEF Joined
    <2>4. CASE i <= r
      <3>1. x + i <= Len(m) /\ i \in 1 .. Left(m) /\ ~(i > r)
        BY <1>3, <2>1, <2>4
      <3>2. QED
        BY <1>1, <1>3, <1>7, <1>8, <2>1, <2>3, <3>1
    <2>5. CASE i > r
      <3>1. ~(x + i <= Len(m)) /\ (x + i) - Len(m) = i - r /\ i <= r + k
        BY <1>3, <2>1, <2>5
      <3>2. QED
        BY <1>7, <1>8, <2>1, <2>3, <2>5, <3>1
    <2>6. QED
      BY <2>1, <2>4, <2>5
  <1>11. QED
    BY <1>4, <1>9, <1>10 DEF Holds

\* What goes back to the start of the buffer.
LEMMA RestOf ==
  ASSUME BlocksAssumption, NEW d \in Bytes
  PROVE  /\ Rest(d) \in Bytes /\ Len(Rest(d)) = Left(d)
         /\ \A i \in 1 .. Left(d) : Rest(d)[i] = d[Cut(d) + i]
  <1>1. PICK q \in Nat : /\ Left(d) \in 0 .. BlockSize - 1
                         /\ Len(d) \in Nat /\ Len(d) = BlockSize * q + Left(d)
                         /\ Cut(d) = BlockSize * q /\ Cut(d) \in Nat
                         /\ BlockSize \in Nat \ {0}
    BY CutAt
  <1>2. PICK r \in Nat, x \in Nat : r = Left(d) /\ x = Cut(d) /\ Len(d) = x + r
    BY <1>1
  <1>3. (Len(d) \div BlockSize) * BlockSize = x
    <2>1. Len(d) \div BlockSize = q
      <3>1. Len(d) \in Int /\ q \in Int
        BY <1>1
      <3>2. QED
        BY <1>1, <3>1, BlocksAndRest
    <2>2. q * BlockSize = BlockSize * q
      BY <1>1
    <2>3. QED
      BY <1>1, <1>2, <2>1, <2>2
  <1>4. Rest(d) = SubSeq(d, x + 1, x + r)
    BY <1>2, <1>3 DEF Rest
  <1>5. \A i \in x + 1 .. x + r : d[i] \in Nat
    <2>1. x + r = Len(d)
      BY <1>2
    <2>2. QED
      BY <1>2, <2>1 DEF Bytes
  <1>6. /\ SubSeq(d, x + 1, x + r) \in Bytes
        /\ Len(SubSeq(d, x + 1, x + r)) = r
        /\ \A i \in 1 .. r : SubSeq(d, x + 1, x + r)[i] = d[x + i]
    <2>1. x + 1 \in Int /\ x + r \in Int /\ (x + r) - (x + 1) + 1 = r
          /\ (x + 1 <= x + r <=> r # 0)
      OBVIOUS
    <2>2. \A i \in 1 .. r : (x + 1) + i - 1 = x + i
      OBVIOUS
    <2>3. PICK from \in Int, to \in Int : from = x + 1 /\ to = x + r
      BY <2>1
    <2>4. /\ SubSeq(d, from, to) \in Seq(Nat)
          /\ Len(SubSeq(d, from, to)) = IF from <= to THEN to - from + 1 ELSE 0
          /\ \A i \in 1 .. to - from + 1 : SubSeq(d, from, to)[i] = d[from + i - 1]
      BY <1>5, <2>3, SubSeqProperties
    <2>5. to - from + 1 = r /\ (from <= to <=> r # 0) /\ \A i \in 1 .. r : from + i - 1 = x + i
      BY <2>1, <2>2, <2>3
    <2>6. QED
      BY <2>3, <2>4, <2>5 DEF Bytes
  <1>7. QED
    BY <1>2, <1>4, <1>6

\* Both implementations: bytes that come when the buffer is empty.
LEMMA TakesBlocks ==
  ASSUME BlocksAssumption, NEW m \in Bytes, NEW d \in Bytes, NEW q \in Nat,
         Len(m) = BlockSize * q, NEW old \in Buffers
  PROVE  Holds(Context(Len(m) + Len(d), Copy(old, 0, Rest(d)), Whole(m) \o Whole(d)), m \o d)
  <1>1. PICK j \in Bytes : j = m \o d /\ Joined(j, m, d)
    BY JoinedBytes
  <1>2. Whole(j) = Whole(m) \o Whole(d) /\ Len(j) = Len(m) + Len(d)
    BY <1>1, WholeJoin DEF Joined
  <1>3. PICK k \in Nat : /\ Left(d) \in 0 .. BlockSize - 1
                         /\ Len(d) \in Nat /\ Len(d) = BlockSize * k + Left(d)
                         /\ Cut(d) = BlockSize * k /\ Cut(d) \in Nat
                         /\ BlockSize \in Nat \ {0}
    BY CutAt
  <1>4. PICK r \in 0 .. BlockSize - 1, x \in Nat :
          r = Left(d) /\ x = Cut(d) /\ Len(d) = x + r
    BY <1>3
  <1>5. PICK y \in Nat : y = Len(m)
    BY DEF Bytes
  <1>6. Left(j) = r /\ Cut(j) = y + x
    <2>1. BlockSize * (q + k) = y + x
      BY <1>3, <1>4, <1>5
    <2>2. Len(j) = (y + x) + r /\ q + k \in Nat
      BY <1>2, <1>4, <1>5
    <2>3. QED
      BY <2>1, <2>2, CutIs
  <1>7. PICK s \in Bytes : s = Rest(d) /\ Len(s) = r /\ \A i \in 1 .. r : s[i] = d[x + i]
    BY <1>4, RestOf
  <1>8. PICK new \in Buffers :
          /\ new = Copy(old, 0, s)
          /\ \A i \in 1 .. BlockSize : new[i] = IF i > 0 /\ i <= 0 + Len(s) THEN s[i - 0] ELSE old[i]
    <2>1. 0 \in Nat
      OBVIOUS
    <2>2. QED
      BY <2>1, Copied
  <1>9. ASSUME NEW i \in 1 .. Left(j)
        PROVE  new[i] = j[Cut(j) + i]
    <2>1. i \in 1 .. r /\ i \in 1 .. BlockSize /\ i > 0 /\ i <= 0 + r /\ i - 0 = i
      BY <1>3, <1>4, <1>6
    <2>2. new[i] = d[x + i]
      BY <1>7, <1>8, <2>1
    <2>3. /\ (y + x) + i \in 1 .. Len(m) + Len(d) /\ ~((y + x) + i <= Len(m))
          /\ ((y + x) + i) - Len(m) = x + i
      <3>1. Len(m) + Len(d) = y + (x + r)
        BY <1>4, <1>5
      <3>2. (y + x) + i \in 1 .. y + (x + r) /\ ~((y + x) + i <= y) /\ ((y + x) + i) - y = x + i
        BY <2>1
      <3>3. QED
        BY <1>5, <3>1, <3>2
    <2>4. j[(y + x) + i] = d[x + i]
      BY <1>1, <2>3 DEF Joined
    <2>5. QED
      BY <1>6, <2>2, <2>4
  <1>10. QED
    BY <1>1, <1>2, <1>7, <1>8, <1>9 DEF Holds

\* Both implementations: bytes that fill the buffer.
LEMMA TakesFull ==
  ASSUME BlocksAssumption, NEW m \in Bytes, NEW d \in Bytes, NEW c, Holds(c, m),
         Left(m) + Len(d) = BlockSize
  PROVE  /\ c = Context(Len(m), c.buffer, Whole(m)) /\ c.buffer \in Buffers
         /\ Copy(c.buffer, Left(m), d) \in Buffers
         /\ Whole(m \o d) = Append(Whole(m), Copy(c.buffer, Left(m), d))
         /\ \E q \in Nat : Len(m \o d) = BlockSize * q
  <1>1. PICK buf \in Buffers : /\ c = Context(Len(m), buf, Whole(m))
                               /\ \A i \in 1 .. Left(m) : buf[i] = m[Cut(m) + i]
    BY DEF Holds
  <1>2. PICK q \in Nat : /\ Left(m) \in 0 .. BlockSize - 1
                         /\ Len(m) \in Nat /\ Len(m) = BlockSize * q + Left(m)
                         /\ Cut(m) = BlockSize * q /\ Cut(m) \in Nat
                         /\ BlockSize \in Nat \ {0}
    BY CutAt
  <1>3. c.buffer = buf
    BY <1>1 DEF Context
  <1>4. PICK r \in 0 .. BlockSize - 1 : r = Left(m)
    BY <1>2
  <1>5. PICK f \in Buffers :
          /\ f = Copy(buf, r, d)
          /\ \A i \in 1 .. BlockSize : f[i] = IF i > r /\ i <= r + Len(d) THEN d[i - r] ELSE buf[i]
    <2>1. r \in Nat
      BY <1>4
    <2>2. QED
      BY <2>1, Copied
  <1>6. f \in Bytes /\ Len(f) = BlockSize
    <2>1. BlockSize \in Nat /\ f \in [1 .. BlockSize -> Nat]
      BY <1>2 DEF Buffers
    <2>2. f \in Seq(Nat) /\ Len(f) = BlockSize
      BY <2>1
    <2>3. QED
      BY <2>2 DEF Bytes
  <1>7. ASSUME NEW i \in 1 .. BlockSize
        PROVE  f[i] = IF i <= r THEN m[BlockSize * q + i] ELSE d[i - r]
    <2>1. CASE i <= r
      <3>1. i \in 1 .. Left(m) /\ ~(i > r)
        BY <1>4, <2>1
      <3>2. f[i] = m[Cut(m) + i]
        BY <1>1, <1>5, <3>1
      <3>3. QED
        BY <1>2, <2>1, <3>2
    <2>2. CASE ~(i <= r)
      <3>1. i > r /\ i <= r + Len(d)
        BY <1>4, <2>2
      <3>2. QED
        BY <1>5, <2>2, <3>1
    <2>3. QED
      BY <2>1, <2>2
  <1>a. Filled(f, m, d, q, r)
    BY <1>6, <1>7 DEF Filled
  <1>8. Whole(m \o d) = Append(Whole(m), f) /\ Len(m \o d) = BlockSize * (q + 1)
    <2>1. Len(m) = BlockSize * q + r
      BY <1>2, <1>4
    <2>2. r + Len(d) = BlockSize
      BY <1>4
    <2>3. QED
      BY <1>6, <1>a, <2>1, <2>2, WholeFill
  <1>9. QED
    BY <1>1, <1>3, <1>4, <1>5, <1>8

\* A piece is split where the buffer is full.
LEMMA Split ==
  ASSUME NEW d \in Bytes, NEW k \in 0 .. Len(d)
  PROVE  LET s == SubSeq(d, 1, k)
             t == SubSeq(d, k + 1, Len(d))
         IN  /\ s \in Bytes /\ t \in Bytes /\ Len(s) = k /\ Len(t) = Len(d) - k
             /\ d = s \o t
  <1>1. d \in Seq(Nat) /\ Len(d) \in Nat /\ k \in Nat
    BY DEF Bytes
  <1>2. \A i \in 1 .. Len(d) : d[i] \in Nat
    BY <1>1
  <1>3. SubSeq(d, 1, k) \in Seq(Nat) /\ Len(SubSeq(d, 1, k)) = IF 1 <= k THEN k - 1 + 1 ELSE 0
    <2>1. \A i \in 1 .. k : d[i] \in Nat
      BY <1>1, <1>2
    <2>2. QED
      BY <1>1, <2>1, SubSeqProperties
  <1>4. /\ SubSeq(d, k + 1, Len(d)) \in Seq(Nat)
        /\ Len(SubSeq(d, k + 1, Len(d))) = IF k + 1 <= Len(d) THEN Len(d) - (k + 1) + 1 ELSE 0
    <2>1. PICK from \in Int, to \in Int : from = k + 1 /\ to = Len(d)
      BY <1>1
    <2>2. \A i \in from .. to : d[i] \in Nat
      BY <1>1, <1>2, <2>1
    <2>3. SubSeq(d, from, to) \in Seq(Nat) /\ Len(SubSeq(d, from, to)) = IF from <= to THEN to - from + 1 ELSE 0
      BY <2>2, SubSeqProperties
    <2>4. QED
      BY <2>1, <2>3
  <1>5. SubSeq(d, 1, k) \o SubSeq(d, k + 1, Len(d)) = SubSeq(d, 1, Len(d))
    <2>1. 1 \in 1 .. Len(d) + 1 /\ k \in 1 - 1 .. Len(d) /\ Len(d) \in k .. Len(d)
      BY <1>1
    <2>2. QED
      BY <1>1, <2>1, ConcatAdjacentSubSeq
  <1>6. SubSeq(d, 1, Len(d)) = d
    BY <1>1, SubSeqFull
  <1>7. Len(SubSeq(d, 1, k)) = k
    BY <1>1, <1>3
  <1>8. Len(SubSeq(d, k + 1, Len(d))) = Len(d) - k
    <2>1. PICK n \in Nat : n = Len(d) /\ k <= n
      BY <1>1
    <2>2. QED
      BY <1>1, <1>4, <2>1
  <1>9. QED
    BY <1>3, <1>4, <1>5, <1>6, <1>7, <1>8 DEF Bytes

\* Bytes can be grouped at will.
Behind(s, t) == s \o t

LEMMA Grouped ==
  ASSUME NEW S, NEW s \in Seq(S), NEW t \in Seq(S), NEW u \in Seq(S)
  PROVE  Behind(Behind(s, t), u) = Behind(s, Behind(t, u))
  BY ConcatAssociative DEF Behind

LEMMA BehindBytes ==
  ASSUME NEW s \in Bytes, NEW t \in Bytes, NEW u \in Bytes
  PROVE  Behind(Behind(s, t), u) = Behind(s, Behind(t, u))
  BY Grouped DEF Bytes

\* What one part has less the other has more.
LEMMA SumKept ==
  ASSUME NEW a \in Int, NEW b \in Int, NEW k \in Int
  PROVE  (a + k) + (b - k) = a + b
  OBVIOUS

\* The buffer is filled up and transformed, then the rest is cut into blocks.
LEMMA TakesMany ==
  ASSUME BlocksAssumption, NEW m \in Bytes, NEW d \in Bytes, NEW c, Holds(c, m),
         NEW k \in 0 .. Len(d), Left(m) + k = BlockSize,
         NEW full, full = Copy(c.buffer, Left(m), SubSeq(d, 1, k)),
         NEW after, after = SubSeq(d, k + 1, Len(d)), NEW old \in Buffers
  PROVE  /\ c = Context(Len(m), c.buffer, Whole(m)) /\ full \in Buffers
         /\ Holds(Context(Len(m) + Len(d), Copy(old, 0, Rest(after)),
                          Append(Whole(m), full) \o Whole(after)), m \o d)
  <1>1. PICK s \in Bytes : s = SubSeq(d, 1, k) /\ Len(s) = k /\ d = s \o after /\ after \in Bytes
                           /\ Len(after) = Len(d) - k
    BY Split
  <1>2. Left(m) + Len(s) = BlockSize
    BY <1>1
  <1>3. /\ c = Context(Len(m), c.buffer, Whole(m)) /\ c.buffer \in Buffers
        /\ full \in Buffers /\ Whole(m \o s) = Append(Whole(m), full)
        /\ \E q \in Nat : Len(m \o s) = BlockSize * q
    <2>1. full = Copy(c.buffer, Left(m), s)
      BY <1>1
    <2>2. QED
      BY <1>2, <2>1, TakesFull
  <1>4. PICK m1 \in Bytes : m1 = m \o s /\ Len(m1) = Len(m) + Len(s)
    BY JoinedBytes DEF Joined
  <1>5. PICK q \in Nat : Len(m1) = BlockSize * q
    BY <1>3, <1>4
  <1>6. Holds(Context(Len(m1) + Len(after), Copy(old, 0, Rest(after)), Whole(m1) \o Whole(after)),
              m1 \o after)
    BY <1>1, <1>5, TakesBlocks
  <1>7. m1 \o after = m \o d
    <2>1. after \in Bytes /\ d = Behind(s, after) /\ m1 = Behind(m, s)
      BY <1>1, <1>4, Zenon DEF Behind
    <2>2. Behind(m1, after) = Behind(m, d)
      BY <2>1, BehindBytes
    <2>3. QED
      BY <2>2, Zenon DEF Behind
  <1>8. Len(m1) + Len(after) = Len(m) + Len(d)
    <2>1. Len(m) \in Int /\ Len(d) \in Int /\ k \in Int
      BY DEF Bytes
    <2>2. Len(m1) = Len(m) + k /\ Len(after) = Len(d) - k
      BY <1>1, <1>4
    <2>3. (Len(m) + k) + (Len(d) - k) = Len(m) + Len(d)
      BY <2>1, SumKept, Zenon
    <2>4. QED
      BY <2>2, <2>3, Zenon
  <1>9. Whole(m1) = Append(Whole(m), full)
    BY <1>3, <1>4
  <1>10. QED
    BY <1>3, <1>6, <1>7, <1>8, <1>9

\* One more block.
LEMMA Appended ==
  ASSUME BlocksAssumption, NEW m \in Bytes, NEW f
  PROVE  Whole(m) \o <<f>> = Append(Whole(m), f)
  <1>1. PICK w : w = Whole(m)
    OBVIOUS
  <1>2. w \in Seq(Bytes)
    BY <1>1, WholeInOrder DEF InOrder
  <1>3. w \o <<f>> = Append(w, f)
    BY <1>2
  <1>4. QED
    BY <1>1, <1>3

\* However much MD5Update is given, it holds the longer message then.
LEMMA UpdateHolds ==
  ASSUME BlocksAssumption, NEW m \in Bytes, NEW d \in Bytes, NEW c, Holds(c, m)
  PROVE  Holds(MD5Update(c, d), m \o d)
  <1>1. PICK buf \in Buffers : c = Context(Len(m), buf, Whole(m))
    BY DEF Holds
  <1>2. c.count = Len(m) /\ c.buffer = buf /\ c.blocks = Whole(m)
    BY <1>1 DEF Context
  <1>3. c.count % BlockSize = Left(m)
    BY <1>2 DEF Left
  <1>4. BlockSize \in Nat \ {0} /\ Left(m) \in 0 .. BlockSize - 1 /\ Len(d) \in Nat
    BY CutAt DEF Bytes
  <1>5. PICK k \in Nat : k = BlockSize - Left(m)
    BY <1>4
  <1>6. Left(m) + k = BlockSize
    BY <1>4, <1>5
  <1>7. CASE Len(d) >= k
    <2>1. k \in 0 .. Len(d)
      BY <1>4, <1>7
    <2>2. PICK full, after : /\ full = Copy(c.buffer, Left(m), SubSeq(d, 1, k))
                             /\ after = SubSeq(d, k + 1, Len(d))
      OBVIOUS
    <2>3. full \in Buffers
      BY <1>1, <1>6, <2>1, <2>2, TakesMany
    <2>4. Holds(Context(Len(m) + Len(d), Copy(full, 0, Rest(after)),
                        Append(Whole(m), full) \o Whole(after)), m \o d)
      BY <1>6, <2>1, <2>2, <2>3, TakesMany
    <2>5. MD5Update(c, d) = Context(c.count + Len(d), Copy(full, 0, Rest(after)),
                                    c.blocks \o <<full>> \o Whole(after))
      BY <1>3, <1>5, <1>7, <2>2 DEF MD5Update, Context
    <2>6. c.blocks \o <<full>> = Append(Whole(m), full)
      BY <1>2, Appended
    <2>7. MD5Update(c, d) = Context(Len(m) + Len(d), Copy(full, 0, Rest(after)),
                                    Append(Whole(m), full) \o Whole(after))
      BY <1>2, <2>5, <2>6
    <2>8. QED
      BY <2>4, <2>7
  <1>8. CASE ~(Len(d) >= k)
    <2>1. Left(m) + Len(d) < BlockSize
      BY <1>4, <1>6, <1>8
    <2>2. MD5Update(c, d) = [c EXCEPT !.count = @ + Len(d), !.buffer = Copy(@, Left(m), d)]
      BY <1>3, <1>5, <1>8 DEF MD5Update
    <2>3. QED
      BY <2>1, <2>2, TakesFew
  <1>9. QED
    BY <1>7, <1>8

\* md5_append, too.
LEMMA AppendHolds ==
  ASSUME BlocksAssumption, NEW m \in Bytes, NEW d \in Bytes, NEW c, Holds(c, m)
  PROVE  Holds(md5_append(c, d), m \o d)
  <1>1. PICK buf \in Buffers : c = Context(Len(m), buf, Whole(m))
    BY DEF Holds
  <1>2. c.count = Len(m) /\ c.buffer = buf /\ c.blocks = Whole(m)
    BY <1>1 DEF Context
  <1>3. PICK r : r = Left(m) /\ c.count % BlockSize = r
    BY <1>2 DEF Left
  <1>4. BlockSize \in Nat \ {0} /\ r \in 0 .. BlockSize - 1 /\ Len(d) \in Nat
    BY <1>3, CutAt DEF Bytes
  <1>5. PICK n \in Int : n = IF r + Len(d) > BlockSize THEN BlockSize - r ELSE Len(d)
    BY <1>4
  <1>6. n \in 0 .. Len(d)
    BY <1>4, <1>5
  <1>7. PICK count : count = Len(m) + Len(d)
    OBVIOUS
  <1>8. PICK counted : counted = [c EXCEPT !.count = count]
    OBVIOUS
  <1>a. counted = Context(count, buf, Whole(m))
    BY <1>1, <1>8 DEF Context
  <1>b. counted.buffer = buf
    BY <1>a DEF Context
  <1>9. PICK full : full = Copy(buf, r, SubSeq(d, 1, n))
    OBVIOUS
  <1>c. PICK filled : filled = [counted EXCEPT !.buffer = full]
    OBVIOUS
  <1>d. filled = Context(count, full, Whole(m))
    BY <1>a, <1>c DEF Context
  <1> DEFINE Blocks(e, bytes) ==
        [e EXCEPT !.blocks = @ \o Whole(bytes), !.buffer = Copy(@, 0, Rest(bytes))]
  <1>10. ASSUME NEW w, NEW old, NEW bytes
         PROVE  Blocks(Context(count, old, w), bytes)
                  = Context(count, Copy(old, 0, Rest(bytes)), w \o Whole(bytes))
    <2>1. PICK e : e = Context(count, old, w)
      OBVIOUS
    <2>2. e.blocks = w /\ e.buffer = old
      BY <2>1 DEF Context
    <2>3. PICK w2, old2 : w2 = w \o Whole(bytes) /\ old2 = Copy(old, 0, Rest(bytes))
      OBVIOUS
    <2>4. Blocks(e, bytes) = [e EXCEPT !.blocks = w2, !.buffer = old2]
      BY <2>2, <2>3
    <2>5. [e EXCEPT !.blocks = w2, !.buffer = old2] = [[e EXCEPT !.blocks = w2] EXCEPT !.buffer = old2]
      OBVIOUS
    <2>6. [e EXCEPT !.blocks = w2] = Context(count, old, w2)
      BY <2>1 DEF Context
    <2>7. [Context(count, old, w2) EXCEPT !.buffer = old2] = Context(count, old2, w2)
      BY DEF Context
    <2> HIDE DEF Blocks
    <2>8. QED
      BY <2>1, <2>3, <2>4, <2>5, <2>6, <2>7
  <1> DEFINE offset == c.count % BlockSize
             size == IF offset + Len(d) > BlockSize THEN BlockSize - offset ELSE Len(d)
             longer == [c EXCEPT !.count = @ + Len(d)]
             fuller == [longer EXCEPT !.buffer = Copy(@, offset, SubSeq(d, 1, size))]
  <1>e. md5_append(c, d) =
           IF Len(d) = 0 THEN c
           ELSE IF offset = 0 THEN Blocks(longer, d)
           ELSE IF offset + size < BlockSize THEN fuller
           ELSE Blocks([fuller EXCEPT !.blocks = Append(@, fuller.buffer)],
                       SubSeq(d, size + 1, Len(d)))
    BY Zenon DEF md5_append
  <1>f. offset = r /\ size = n
    BY <1>3, <1>5
  <1>g. longer = counted
    BY <1>2, <1>7, <1>8
  <1> HIDE DEF offset, size, longer
  <1>h. fuller = filled
    BY <1>b, <1>9, <1>c, <1>f, <1>g
  <1> HIDE DEF fuller, Blocks
  <1>11. md5_append(c, d) =
           IF Len(d) = 0 THEN c
           ELSE IF r = 0 THEN Blocks(counted, d)
           ELSE IF r + n < BlockSize THEN filled
           ELSE Blocks([filled EXCEPT !.blocks = Append(@, filled.buffer)],
                       SubSeq(d, n + 1, Len(d)))
    BY <1>e, <1>f, <1>g, <1>h
  <1>12. CASE Len(d) = 0
    <2>1. md5_append(c, d) = c
      BY <1>11, <1>12
    <2>2. m \o d = m
      <3>1. d = <<>>
        BY <1>12, EmptySeq DEF Bytes
      <3>2. QED
        BY <3>1, ConcatEmptySeq DEF Bytes
    <2>3. QED
      BY <2>1, <2>2
  <1>13. CASE Len(d) # 0 /\ r = 0
    <2>1. md5_append(c, d) = Blocks(counted, d)
      BY <1>11, <1>13
    <2>2. PICK q \in Nat : Len(m) = BlockSize * q
      <3>1. PICK q \in Nat : Len(m) = BlockSize * q + 0
        BY <1>3, <1>13, CutAt
      <3>2. BlockSize * q \in Int
        BY <1>4
      <3>3. QED
        BY <3>1, <3>2
    <2>3. Holds(Context(Len(m) + Len(d), Copy(buf, 0, Rest(d)), Whole(m) \o Whole(d)), m \o d)
      BY <2>2, TakesBlocks
    <2>4. QED
      BY <1>7, <1>a, <1>10, <2>1, <2>3
  <1>14. CASE Len(d) # 0 /\ r # 0 /\ r + n < BlockSize
    <2>1. md5_append(c, d) = filled
      BY <1>11, <1>14
    <2>2. n = Len(d) /\ r + Len(d) < BlockSize
      BY <1>4, <1>5, <1>14
    <2>3. SubSeq(d, 1, n) = d
      BY <2>2, SubSeqFull DEF Bytes
    <2>4. filled = [c EXCEPT !.count = @ + Len(d), !.buffer = Copy(@, Left(m), d)]
      <3>1. [c EXCEPT !.count = count, !.buffer = full] = [[c EXCEPT !.count = count] EXCEPT !.buffer = full]
        OBVIOUS
      <3>2. c.count + Len(d) = count /\ Copy(c.buffer, Left(m), d) = full
        BY <1>2, <1>3, <1>7, <1>9, <2>3
      <3>3. QED
        BY <1>8, <1>c, <3>1, <3>2
    <2>5. Left(m) + Len(d) < BlockSize
      BY <1>3, <2>2
    <2>6. Holds(filled, m \o d)
      BY <2>4, <2>5, TakesFew
    <2>7. QED
      BY <2>1, <2>6
  <1>15. CASE Len(d) # 0 /\ r # 0 /\ ~(r + n < BlockSize)
    <2>1. PICK after : after = SubSeq(d, n + 1, Len(d))
      OBVIOUS
    <2>2. filled.blocks = Whole(m) /\ filled.buffer = full
      BY <1>d DEF Context
    <2>3. [filled EXCEPT !.blocks = Append(@, filled.buffer)]
            = Context(count, full, Append(Whole(m), full))
      <3>1. PICK w : w = Append(Whole(m), full)
        OBVIOUS
      <3>2. [filled EXCEPT !.blocks = w] = Context(count, full, w)
        BY <1>d DEF Context
      <3>3. QED
        BY <2>2, <3>1, <3>2
    <2>4. md5_append(c, d) = Context(count, Copy(full, 0, Rest(after)),
                                     Append(Whole(m), full) \o Whole(after))
      <3>1. md5_append(c, d) = Blocks([filled EXCEPT !.blocks = Append(@, filled.buffer)], after)
        BY <1>11, <1>15, <2>1
      <3>2. md5_append(c, d) = Blocks(Context(count, full, Append(Whole(m), full)), after)
        BY <2>3, <3>1
      <3>3. QED
        BY <1>10, <3>2
    <2>5. Left(m) + n = BlockSize
      <3>1. r + n = BlockSize
        BY <1>4, <1>5, <1>15
      <3>2. QED
        BY <1>3, <3>1
    <2>6. full = Copy(c.buffer, Left(m), SubSeq(d, 1, n))
      BY <1>2, <1>3, <1>9
    <2>7. full \in Buffers
      BY <1>1, <1>6, <2>1, <2>5, <2>6, TakesMany
    <2>8. Holds(Context(Len(m) + Len(d), Copy(full, 0, Rest(after)),
                        Append(Whole(m), full) \o Whole(after)), m \o d)
      BY <1>6, <2>1, <2>5, <2>6, <2>7, TakesMany
    <2>9. QED
      BY <1>7, <2>4, <2>8
  <1>16. QED
    BY <1>12, <1>13, <1>14, <1>15

\* What MD5Final and md5_finish add.
Padded(m) ==
  m \o Padding((((BlockSize - LenBytes) - Len(m) - 1) % BlockSize) + 1) \o Length(Len(m))

\* The padding and the length are bytes.
LEMMA PaddingBytes ==
  ASSUME BlocksAssumption, NEW m \in Bytes, NEW n \in Nat
  PROVE  Padding(n) \in Bytes /\ Length(Len(m)) \in Bytes
  <1>1. LenBytes \in Nat /\ Len(m) \in Nat
    BY DEF BlocksAssumption, Bytes
  <1>2. Padding(n) \in [1 .. n -> Nat] /\ Length(Len(m)) \in [1 .. LenBytes -> Nat]
    BY <1>1 DEF Padding, Length
  <1>3. QED
    BY <1>1, <1>2 DEF Bytes

\* MD5Final holds the padded message: its two cases of padlen are one remainder.
LEMMA FinalHolds ==
  ASSUME BlocksAssumption, NEW m \in Bytes, NEW c, Holds(c, m)
  PROVE  Holds(MD5Final(c), Padded(m))
  <1>1. PICK buf \in Buffers : c = Context(Len(m), buf, Whole(m))
    BY DEF Holds
  <1>2. c.count = Len(m)
    BY <1>1 DEF Context
  <1>3. PICK r, room : r = Left(m) /\ c.count % BlockSize = r /\ room = BlockSize - LenBytes
    BY <1>2 DEF Left
  <1>4. BlockSize \in Nat \ {0} /\ r \in 0 .. BlockSize - 1 /\ room \in 0 .. BlockSize - 1
    BY <1>3, CutAt DEF BlocksAssumption
  <1>5. PICK n \in Nat : n = IF r < room THEN room - r ELSE BlockSize + room - r
    <2>1. r < room => room - r \in Nat
      BY <1>4
    <2>2. BlockSize + room - r \in Nat
      BY <1>4
    <2>3. QED
      BY <2>1, <2>2
  <1>6. ((room - Len(m) - 1) % BlockSize) + 1 = n
    <2>1. PICK q \in Nat : Len(m) = BlockSize * q + r
      BY <1>3, CutAt
    <2>2. PICK x \in Int : x = BlockSize * q
      BY <1>4
    <2>3. BlockSize * (0 - q) = 0 - x /\ BlockSize * ((0 - q) - 1) = (0 - x) - BlockSize
      BY <1>4, <2>2
    <2>4. Len(m) = x + r
      BY <2>1, <2>2
    <2>5. PICK y \in Int : y = room - Len(m) - 1 /\ y = (0 - x) + ((room - r) - 1)
      BY <1>4, <2>4
    <2>6. CASE r < room
      <3>1. (room - r) - 1 \in 0 .. BlockSize - 1 /\ y = BlockSize * (0 - q) + ((room - r) - 1)
        BY <1>4, <2>3, <2>5, <2>6
      <3>2. y % BlockSize = (room - r) - 1
        BY <3>1, BlocksAndRest
      <3>3. QED
        BY <1>4, <1>5, <2>5, <2>6, <3>2
    <2>7. CASE ~(r < room)
      <3>1. ((BlockSize + room) - r) - 1 \in 0 .. BlockSize - 1
        BY <1>4, <2>7
      <3>2. y = BlockSize * ((0 - q) - 1) + (((BlockSize + room) - r) - 1)
        BY <1>4, <2>3, <2>5
      <3>3. y % BlockSize = ((BlockSize + room) - r) - 1
        BY <3>1, <3>2, BlocksAndRest
      <3>4. QED
        BY <1>4, <1>5, <2>5, <2>7, <3>3
    <2>8. QED
      BY <2>6, <2>7
  <1>7. Padding(n) \in Bytes /\ Length(Len(m)) \in Bytes
    BY PaddingBytes
  <1>8. Holds(MD5Update(c, Padding(n)), m \o Padding(n))
    BY <1>7, UpdateHolds
  <1>9. m \o Padding(n) \in Bytes
    BY <1>7, JoinedBytes
  <1>10. Holds(MD5Update(MD5Update(c, Padding(n)), Length(Len(m))),
               m \o Padding(n) \o Length(Len(m)))
    BY <1>7, <1>8, <1>9, UpdateHolds
  <1>11. MD5Final(c) = MD5Update(MD5Update(c, Padding(n)), Length(Len(m)))
    BY <1>2, <1>3, <1>5 DEF MD5Final
  <1>12. Padded(m) = m \o Padding(n) \o Length(Len(m))
    BY <1>3, <1>6 DEF Padded
  <1>13. QED
    BY <1>10, <1>11, <1>12

\* md5_finish, too.
LEMMA FinishHolds ==
  ASSUME BlocksAssumption, NEW m \in Bytes, NEW c, Holds(c, m)
  PROVE  Holds(md5_finish(c), Padded(m))
  <1>1. PICK buf \in Buffers : c = Context(Len(m), buf, Whole(m))
    BY DEF Holds
  <1>2. c.count = Len(m)
    BY <1>1 DEF Context
  <1>3. BlockSize \in Nat \ {0} /\ LenBytes \in Nat /\ Len(m) \in Nat
    BY DEF BlocksAssumption, Bytes
  <1>4. PICK n \in Nat : n = (((BlockSize - LenBytes) - Len(m) - 1) % BlockSize) + 1
    <2>0. (BlockSize - LenBytes) - Len(m) - 1 \in Int
      BY <1>3
    <2>1. PICK y \in Int : y = (BlockSize - LenBytes) - Len(m) - 1
      BY <2>0
    <2>2. y % BlockSize \in Nat
      BY <1>3
    <2>3. QED
      BY <2>1, <2>2
  <1>5. (BlockSize - LenBytes) - Len(m) - 1 = (BlockSize - LenBytes) - 1 - Len(m)
    BY <1>3
  <1>7. Padding(n) \in Bytes /\ Length(Len(m)) \in Bytes
    BY PaddingBytes
  <1>8. Holds(md5_append(c, Padding(n)), m \o Padding(n))
    BY <1>7, AppendHolds
  <1>9. m \o Padding(n) \in Bytes
    BY <1>7, JoinedBytes
  <1>10. Holds(md5_append(md5_append(c, Padding(n)), Length(Len(m))),
               m \o Padding(n) \o Length(Len(m)))
    BY <1>7, <1>8, <1>9, AppendHolds
  <1>11. md5_finish(c) = md5_append(md5_append(c, Padding(n)), Length(Len(m)))
    BY <1>2, <1>4, <1>5 DEF md5_finish
  <1>12. Padded(m) = m \o Padding(n) \o Length(Len(m))
    BY <1>4 DEF Padded
  <1>13. QED
    BY <1>10, <1>11, <1>12

-----------------------------------------------------------------------------

\* Until the end both contexts hold the message, then the padded message.
BothHold ==
  /\ message \in Bytes /\ done \in BOOLEAN
  /\ ~done => Holds(proxyMd5, message) /\ Holds(ringMd5, message)
  /\ done => Holds(proxyMd5, Padded(message)) /\ Holds(ringMd5, Padded(message))

\* MD5Init and md5_init: what the buffers hold does not matter.
LEMMA BothHoldInit == BlocksAssumption /\ Md5Init => BothHold
  <1> SUFFICES ASSUME BlocksAssumption, Md5Init
               PROVE  BothHold
    OBVIOUS
  <1>1. message = <<>> /\ proxyMd5 = Empty /\ ringMd5 = Empty /\ ~done /\ done \in BOOLEAN
    BY Zenon DEF Md5Init
  <1>2. message \in Bytes /\ Len(message) = 0
    BY <1>1 DEF Bytes
  <1>3. BlockSize \in Nat \ {0}
    BY DEF BlocksAssumption
  <1>4. Left(message) = 0 /\ Cut(message) = 0
    <2>1. Len(message) = BlockSize * 0 + 0 /\ 0 \in 0 .. BlockSize - 1 /\ 0 \in Nat
      BY <1>2, <1>3
    <2>2. Left(message) = 0
      BY <1>2, <2>1, CutIs
    <2>3. QED
      BY <1>2, <2>2 DEF Cut
  <1>5. Whole(message) = <<>>
    <2>1. Whole(message) \in Seq(Bytes) /\ Len(Whole(message)) = 0
      <3>1. Len(message) \div BlockSize = 0
        BY <1>2, <1>3
      <3>2. QED
        BY <1>2, <3>1, WholeInOrder DEF InOrder
    <2>2. QED
      BY <2>1, EmptySeq
  <1>6. PICK buf \in Buffers : buf = [i \in 1 .. BlockSize |-> 0]
    BY DEF Buffers
  <1>7. Empty = Context(Len(message), buf, Whole(message))
    BY <1>2, <1>5, <1>6 DEF Empty, Context
  <1>8. Holds(Empty, message)
    BY <1>4, <1>7 DEF Holds
  <1>9. QED
    BY <1>1, <1>2, <1>8 DEF BothHold

\* Another piece, or the end.
LEMMA BothHoldNext == BlocksAssumption /\ BothHold /\ [Md5Next]_md5Vars => BothHold'
  <1> SUFFICES ASSUME BlocksAssumption, BothHold, [Md5Next]_md5Vars
               PROVE  BothHold'
    OBVIOUS
  <1>1. ASSUME NEW n \in 0 .. MaxLen, Update(n)
        PROVE  BothHold'
    <2>1. PICK piece : /\ piece = [i \in 1 .. n |-> 200 + Len(message) + i]
                       /\ message' = message \o piece
                       /\ proxyMd5' = MD5Update(proxyMd5, piece) /\ ringMd5' = md5_append(ringMd5, piece)
                       /\ ~done /\ (done' <=> done)
      BY <1>1 DEF Update
    <2>2. piece \in Bytes
      <3>1. n \in Nat /\ Len(message) \in Nat
        BY DEF BlocksAssumption, BothHold, Bytes
      <3>2. piece \in [1 .. n -> Nat]
        BY <2>1, <3>1
      <3>3. QED
        BY <3>1, <3>2 DEF Bytes
    <2>3. message \in Bytes /\ Holds(proxyMd5, message) /\ Holds(ringMd5, message)
      BY <2>1 DEF BothHold
    <2>4. message \o piece \in Bytes
      BY <2>2, <2>3, JoinedBytes
    <2>5. Holds(MD5Update(proxyMd5, piece), message \o piece)
          /\ Holds(md5_append(ringMd5, piece), message \o piece)
      BY <2>2, <2>3, UpdateHolds, AppendHolds
    <2>6. message' \in Bytes /\ Holds(proxyMd5', message') /\ Holds(ringMd5', message') /\ ~done'
      BY <2>1, <2>4, <2>5
    <2>7. done' \in BOOLEAN
      BY <1>1, Zenon DEF Update, BothHold
    <2>8. QED
      BY <2>6, <2>7, Zenon DEF BothHold, Holds, Padded, Left, Cut
  <1>2. CASE Final
    <2>1. /\ ~done /\ done' = TRUE /\ message' = message
          /\ proxyMd5' = MD5Final(proxyMd5) /\ ringMd5' = md5_finish(ringMd5)
      BY <1>2 DEF Final
    <2>2. message \in Bytes /\ Holds(proxyMd5, message) /\ Holds(ringMd5, message)
      BY <2>1 DEF BothHold
    <2>3. Holds(MD5Final(proxyMd5), Padded(message)) /\ Holds(md5_finish(ringMd5), Padded(message))
      BY <2>2, FinalHolds, FinishHolds
    <2>4. QED
      BY <2>1, <2>2, <2>3 DEF BothHold
  <1>3. CASE UNCHANGED md5Vars
    BY <1>3, Zenon DEF md5Vars, BothHold
  <1>4. QED
    BY <1>1, <1>2, <1>3 DEF Md5Next

\* However a key is cut into pieces, the proxy (MD5Update, MD5Final) and the ring
\* (md5_append, md5_finish) compress the message, padded to whole blocks with its
\* length at the end, and nothing of what was in the buffers before.
THEOREM DigestsAlwaysSeeMessage ==
  ASSUME BlocksAssumption
  PROVE  Md5Spec => []DigestsSeeMessage
  <1>1. BothHold => DigestsSeeMessage
    <2> SUFFICES ASSUME BothHold, done
                 PROVE  proxyMd5.blocks = Whole(Padded(message)) /\ ringMd5.blocks = Whole(Padded(message))
      BY DEF DigestsSeeMessage, Padded
    <2>1. Holds(proxyMd5, Padded(message)) /\ Holds(ringMd5, Padded(message))
      BY DEF BothHold
    <2>2. QED
      BY <2>1 DEF Holds, Context
  <1>2. Md5Init => BothHold
    BY BothHoldInit
  <1>3. BothHold /\ [Md5Next]_md5Vars => BothHold'
    BY BothHoldNext
  <1>4. QED
    BY <1>1, <1>2, <1>3, PTL DEF Md5Spec

-----------------------------------------------------------------------------
(* Division by the base *)

\* Division is what it is: quotient and remainder are unique.
LEMMA Divided ==
  ASSUME NEW b \in Nat \ {0}, NEW q \in Int, NEW r \in 0 .. b - 1
  PROVE  (b * q + r) \div b = q /\ (b * q + r) % b = r
  OBVIOUS

\* Quotient and remainder by the base.
LEMMA ByBase ==
  ASSUME RoutingAssumption, NEW m \in Nat
  PROVE  /\ m \div Base \in Nat /\ m % Base \in 0 .. Base - 1
         /\ m = Base * (m \div Base) + (m % Base)
  <1>1. Base \in Nat /\ Base > 0
    BY DEF RoutingAssumption
  <1>2. QED
    BY <1>1

\* Dividing by the base makes smaller.
LEMMA Shrinks ==
  ASSUME RoutingAssumption, NEW m \in Nat, m # 0
  PROVE  m \div Base \in 0 .. m - 1
  <1>1. Base \in Nat /\ Base >= 2
    BY DEF RoutingAssumption
  <1> DEFINE q == m \div Base
             r == m % Base
  <1>2. q \in Nat /\ r \in Nat /\ m = Base * q + r
    BY <1>1, ByBase
  <1> HIDE DEF q, r
  <1>3. Base * q = (Base - 2) * q + 2 * q
    BY <1>1, <1>2
  <1>4. (Base - 2) * q \in Nat
    BY <1>1, <1>2
  <1>5. m >= 2 * q
    BY <1>2, <1>3, <1>4
  <1>6. q < m
    BY <1>2, <1>5
  <1>7. QED
    BY <1>2, <1>6 DEF q

-----------------------------------------------------------------------------
(* The loop of writeGetPath *)

\* One round of the inner loop for every number up to num, given the rounds for
\* smaller anchors.
Round(D, anchor, num) ==
  [n \in 0..num |-> IF anchor <= 1 THEN <<>>
                    ELSE <<n \div (anchor \div Base)>> \o D[anchor \div Base][n % (anchor \div Base)]]

Rounds(D, slot, num) == D = [anchor \in 0..slot |-> Round(D, anchor, num)]

LEMMA RoundsExist ==
  ASSUME RoutingAssumption, NEW slot \in Nat, NEW num
  PROVE  \E D : Rounds(D, slot, num)
  <1> DEFINE S == {k \in 0 .. slot : \E D : Rounds(D, k, num)}
  <1>1. 0 \in S
    <2>1. Rounds([anchor \in 0..0 |-> [n \in 0..num |-> <<>>]], 0, num)
      BY DEF Rounds, Round
    <2>2. QED
      BY <2>1
  <1>2. ASSUME NEW k \in 0 .. slot, k # slot, k \in S PROVE k + 1 \in S
    <2>1. PICK D : Rounds(D, k, num)
      BY <1>2
    <2> DEFINE E == [anchor \in 0..(k + 1) |-> IF anchor = k + 1 THEN Round(D, k + 1, num) ELSE D[anchor]]
    <2>2. ASSUME NEW anchor \in 0 .. k + 1 PROVE Round(E, anchor, num) = Round(D, anchor, num)
      <3>1. CASE anchor <= 1
        BY <3>1 DEF Round
      <3>2. CASE ~(anchor <= 1)
        <4>1. anchor \div Base \in 0 .. anchor - 1
          BY <3>2, Shrinks
        <4>2. E[anchor \div Base] = D[anchor \div Base]
          BY <4>1
        <4> HIDE DEF E
        <4>3. QED
          BY <4>2, Zenon DEF Round
      <3>3. QED
        BY <3>1, <3>2
    <2>3. ASSUME NEW anchor \in 0 .. k + 1 PROVE E[anchor] = Round(E, anchor, num)
      <3>1. CASE anchor = k + 1
        BY <2>2, <3>1
      <3>2. CASE anchor # k + 1
        <4>1. anchor \in 0 .. k
          BY <3>2
        <4>2. D[anchor] = Round(D, anchor, num)
          BY <2>1, <4>1 DEF Rounds
        <4>3. QED
          BY <2>2, <3>2, <4>2
      <3>3. QED
        BY <3>1, <3>2
    <2>4. E = [anchor \in 0..(k + 1) |-> E[anchor]]
      OBVIOUS
    <2> HIDE DEF E
    <2>5. Rounds(E, k + 1, num)
      BY <2>3, <2>4 DEF Rounds
    <2>6. QED
      BY <1>2, <2>5
  <1> HIDE DEF S
  <1>3. 0 .. slot \subseteq S
    BY <1>1, <1>2, StepByStep
  <1>4. QED
    BY <1>3 DEF S

LEMMA DigitsRounds ==
  ASSUME RoutingAssumption, NEW slot \in Nat, NEW num
  PROVE  \E D : Rounds(D, slot, num) /\ Digits(num, slot) = D[slot][num]
  <1> DEFINE Body(D) == [anchor \in 0..slot |->
               LET a == anchor \div Base
               IN  [n \in 0..num |-> IF anchor <= 1 THEN <<>> ELSE <<n \div a>> \o D[a][n % a]]]
  <1>1. Digits(num, slot) = (CHOOSE D : D = Body(D))[slot][num]
    BY Zenon DEF Digits
  <1>2. ASSUME NEW D PROVE Rounds(D, slot, num) <=> D = Body(D)
    BY DEF Rounds, Round
  <1>3. \E D : D = Body(D)
    BY <1>2, RoundsExist
  <1>4. PICK D : D = (CHOOSE E : E = Body(E))
    OBVIOUS
  <1>5. D = Body(D)
    BY <1>3, <1>4
  <1>6. Rounds(D, slot, num)
    BY <1>2, <1>5
  <1>7. Digits(num, slot) = D[slot][num]
    BY <1>1, <1>4, Zenon
  <1>8. QED
    BY <1>6, <1>7

-----------------------------------------------------------------------------
(* String.format of the client *)

\* The digits of m, given those of smaller numbers.
Written(M, m) == IF m < Base THEN <<m>> ELSE Append(M[m \div Base], m % Base)

Writing(M, n) == M = [m \in 0..n |-> Written(M, m)]

LEMMA WritingExists ==
  ASSUME RoutingAssumption, NEW n \in Nat
  PROVE  \E M : Writing(M, n)
  <1> DEFINE S == {k \in 0 .. n : \E M : Writing(M, k)}
  <1>0. Base \in Nat /\ Base >= 2
    BY DEF RoutingAssumption
  <1>1. 0 \in S
    <2>1. Writing([m \in 0..0 |-> <<m>>], 0)
      BY <1>0 DEF Writing, Written
    <2>2. QED
      BY <2>1
  <1>2. ASSUME NEW k \in 0 .. n, k # n, k \in S PROVE k + 1 \in S
    <2>1. PICK M : Writing(M, k)
      BY <1>2
    <2> DEFINE E == [m \in 0..(k + 1) |-> IF m = k + 1 THEN Written(M, k + 1) ELSE M[m]]
    <2>2. ASSUME NEW m \in 0 .. k + 1 PROVE Written(E, m) = Written(M, m)
      <3>1. CASE m < Base
        BY <3>1 DEF Written
      <3>2. CASE ~(m < Base)
        <4>0. m \in Nat /\ m # 0
          BY <1>0, <3>2
        <4>1. m \div Base \in 0 .. m - 1
          BY <4>0, Shrinks
        <4>2. E[m \div Base] = M[m \div Base]
          BY <4>1
        <4> HIDE DEF E
        <4>3. QED
          BY <4>2, Zenon DEF Written
      <3>3. QED
        BY <3>1, <3>2
    <2>3. ASSUME NEW m \in 0 .. k + 1 PROVE E[m] = Written(E, m)
      <3>1. CASE m = k + 1
        BY <2>2, <3>1
      <3>2. CASE m # k + 1
        <4>1. m \in 0 .. k
          BY <3>2
        <4>2. M[m] = Written(M, m)
          BY <2>1, <4>1 DEF Writing
        <4>3. QED
          BY <2>2, <3>2, <4>2
      <3>3. QED
        BY <3>1, <3>2
    <2>4. E = [m \in 0..(k + 1) |-> E[m]]
      OBVIOUS
    <2> HIDE DEF E
    <2>5. Writing(E, k + 1)
      BY <2>3, <2>4 DEF Writing
    <2>6. QED
      BY <1>2, <2>5
  <1> HIDE DEF S
  <1>3. 0 .. n \subseteq S
    BY <1>1, <1>2, StepByStep
  <1>4. QED
    BY <1>3 DEF S

LEMMA DecimalWriting ==
  ASSUME RoutingAssumption, NEW n \in Nat
  PROVE  \E M : Writing(M, n) /\ Decimal(n) = M[n]
  <1> DEFINE Body(M) == [m \in 0..n |-> IF m < Base THEN <<m>> ELSE Append(M[m \div Base], m % Base)]
  <1>1. Decimal(n) = (CHOOSE M : M = Body(M))[n]
    BY Zenon DEF Decimal
  <1>2. ASSUME NEW M PROVE Writing(M, n) <=> M = Body(M)
    BY DEF Writing, Written
  <1>3. \E M : M = Body(M)
    BY <1>2, WritingExists
  <1>4. PICK M : M = (CHOOSE E : E = Body(E))
    OBVIOUS
  <1>5. M = Body(M)
    BY <1>3, <1>4
  <1>6. Writing(M, n)
    BY <1>2, <1>5
  <1>7. Decimal(n) = M[n]
    BY <1>1, <1>4, Zenon
  <1>8. QED
    BY <1>6, <1>7

\* A number below the third power of the base is three digits.
ThreeDigits(num, x, y, z) ==
  /\ x \in 0 .. Base - 1 /\ y \in 0 .. Base - 1 /\ z \in 0 .. Base - 1
  /\ num = Base * (Base * x + y) + z

LEMMA HasThreeDigits ==
  ASSUME RoutingAssumption, NEW num \in 0 .. Base * Base * Base - 1
  PROVE  \E x, y, z : ThreeDigits(num, x, y, z)
  <1>1. Base \in Nat /\ Base >= 2
    BY DEF RoutingAssumption
  <1>2. num \in Nat /\ num < Base * (Base * Base)
    <2>1. Base * Base \in Nat /\ Base * Base * Base = Base * (Base * Base) /\ Base * (Base * Base) \in Nat
      BY <1>1
    <2>2. QED
      BY <2>1
  <1>3. PICK w \in Nat, z \in 0 .. Base - 1 : num = Base * w + z
    BY <1>2, ByBase
  <1>4. PICK x \in Nat, y \in 0 .. Base - 1 : w = Base * x + y
    BY <1>3, ByBase
  <1>5. w < Base * Base
    <2>1. SUFFICES ASSUME w >= Base * Base PROVE FALSE
      BY <1>1, <1>3
    <2>2. Base * w = Base * (Base * Base) + Base * (w - Base * Base)
      BY <1>1, <1>3
    <2>3. w - Base * Base \in Nat
      BY <1>1, <1>3, <2>1
    <2>4. Base * (w - Base * Base) \in Nat
      BY <1>1, <2>3
    <2>5. QED
      BY <1>1, <1>2, <1>3, <2>2, <2>4
  <1>6. x < Base
    <2>1. SUFFICES ASSUME x >= Base PROVE FALSE
      BY <1>1, <1>4
    <2>2. Base * x = Base * Base + Base * (x - Base)
      BY <1>1, <1>4
    <2>3. x - Base \in Nat
      BY <1>1, <1>4, <2>1
    <2>4. Base * (x - Base) \in Nat
      BY <1>1, <2>3
    <2>5. QED
      BY <1>1, <1>4, <1>5, <2>2, <2>4
  <1>7. ThreeDigits(num, x, y, z)
    BY <1>1, <1>3, <1>4, <1>6 DEF ThreeDigits
  <1>8. QED
    BY <1>7

\* The arithmetic of the anchors: Base^3, Base^2, Base, 1.
LEMMA Anchors ==
  ASSUME RoutingAssumption, Slot = Base * Base * Base
  PROVE  /\ Slot \in Nat /\ Slot > 1 /\ Slot \div Base = Base * Base
         /\ Base * Base \in 0 .. Slot /\ Base * Base > 1 /\ (Base * Base) \div Base = Base
         /\ Base \in 0 .. Slot /\ Base > 1 /\ Base \div Base = 1
         /\ 1 \in 0 .. Slot
  <1>1. Base \in Nat /\ Base >= 2
    BY DEF RoutingAssumption
  <1>2. 0 \in 0 .. Base - 1
    BY <1>1
  <1>3. PICK b \in Nat : b = Base * Base
    BY <1>1
  <1>4. b = 2 * Base + Base * (Base - 2)
    BY <1>1, <1>3
  <1>5. Base * (Base - 2) \in Nat
    <2>1. Base - 2 \in Nat
      BY <1>1
    <2>2. QED
      BY <1>1, <2>1
  <1>6. b >= 2 * Base
    BY <1>1, <1>3, <1>4, <1>5
  <1>7. PICK s \in Nat : s = Base * b
    BY <1>1, <1>3
  <1>8. s = Slot
    BY <1>1, <1>3, <1>7
  <1>9. s = 2 * b + (Base - 2) * b
    BY <1>1, <1>3, <1>7
  <1>10. (Base - 2) * b \in Nat
    <2>1. Base - 2 \in Nat
      BY <1>1
    <2>2. QED
      BY <1>3, <2>1
  <1>11. s >= 2 * b
    BY <1>3, <1>7, <1>9, <1>10
  <1>12. (Base * b + 0) \div Base = b /\ (Base * Base + 0) \div Base = Base /\ (Base * 1 + 0) \div Base = 1
    BY <1>1, <1>2, <1>3, Divided
  <1>13. s \div Base = b
    BY <1>1, <1>3, <1>7, <1>12
  <1>14. b \div Base = Base
    BY <1>1, <1>3, <1>12
  <1>15. Base \div Base = 1
    BY <1>1, <1>12
  <1>16. QED
    BY <1>1, <1>3, <1>6, <1>7, <1>8, <1>11, <1>13, <1>14, <1>15

\* What the three rounds of the inner loop divide.
LEMMA AnchorParts ==
  ASSUME RoutingAssumption, NEW num, NEW x, NEW y, NEW z, ThreeDigits(num, x, y, z)
  PROVE  /\ num \in Nat /\ num \div (Base * Base) = x /\ num % (Base * Base) = Base * y + z
         /\ Base * y + z \in 0 .. num /\ (Base * y + z) \div Base = y /\ (Base * y + z) % Base = z
         /\ z \in 0 .. num /\ z \div 1 = z /\ z % 1 = 0
  <1>1. Base \in Nat /\ Base >= 2
    BY DEF RoutingAssumption
  <1>2. x \in Nat /\ y \in Nat /\ z \in Nat /\ y <= Base - 1 /\ z <= Base - 1
    BY <1>1 DEF ThreeDigits
  <1>3. PICK b \in Nat : b = Base * Base
    BY <1>1
  <1>4. b # 0
    BY <1>1, <1>3
  <1>5. Base * y + z \in 0 .. b - 1
    <2>1. b = Base * y + Base * (Base - 1 - y) + Base
      BY <1>1, <1>2, <1>3
    <2>2. Base - 1 - y \in Nat
      BY <1>1, <1>2
    <2>3. Base * (Base - 1 - y) \in Nat /\ Base * y \in Nat
      BY <1>1, <1>2, <2>2
    <2>4. QED
      BY <1>1, <1>2, <1>3, <2>1, <2>3
  <1>6. num = b * x + (Base * y + z)
    BY <1>1, <1>2, <1>3 DEF ThreeDigits
  <1>7. b \in Nat \ {0} /\ x \in Int
    BY <1>2, <1>3, <1>4
  <1>8. num \div b = x /\ num % b = Base * y + z
    BY <1>5, <1>6, <1>7, Divided
  <1>9. Base \in Nat \ {0} /\ y \in Int /\ z \in 0 .. Base - 1
    BY <1>1, <1>2
  <1>10. (Base * y + z) \div Base = y /\ (Base * y + z) % Base = z
    BY <1>9, Divided
  <1>11. b * x \in Nat /\ Base * y \in Nat
    BY <1>1, <1>2, <1>3
  <1>12. num \in Nat /\ Base * y + z \in 0 .. num /\ z \in 0 .. num
    BY <1>2, <1>6, <1>11
  <1>13. z \div 1 = z /\ z % 1 = 0
    BY <1>2
  <1>14. QED
    BY <1>3, <1>8, <1>10, <1>12, <1>13

LEMMA ThreeDigitsNat ==
  ASSUME RoutingAssumption, NEW num, NEW x, NEW y, NEW z, ThreeDigits(num, x, y, z)
  PROVE  x \in Nat /\ y \in Nat /\ z \in Nat
  BY DEF ThreeDigits, RoutingAssumption

\* A sequence is its elements.
LEMMA TwoOf ==
  ASSUME NEW s \in Seq(Nat), NEW x, NEW y, Len(s) = 2, s[1] = x, s[2] = y
  PROVE  s = <<x, y>>
  OBVIOUS

LEMMA ThreeOf ==
  ASSUME NEW s \in Seq(Nat), NEW x, NEW y, NEW z, Len(s) = 3, s[1] = x, s[2] = y, s[3] = z
  PROVE  s = <<x, y, z>>
  OBVIOUS

LEMMA OneAppended ==
  ASSUME NEW S, NEW s \in Seq(S), NEW e \in S
  PROVE  /\ Append(s, e) \in Seq(S) /\ Len(Append(s, e)) = Len(s) + 1
         /\ \A i \in 1 .. Len(s) : Append(s, e)[i] = s[i]
         /\ Append(s, e)[Len(s) + 1] = e
  BY AppendProperties, SMTT(30)

LEMMA OneMore ==
  ASSUME NEW x \in Nat, NEW y \in Nat, NEW z \in Nat
  PROVE  Append(<<x>>, y) = <<x, y>> /\ Append(<<x, y>>, z) = <<x, y, z>>
  <1>1. PICK s : s = <<x>>
    OBVIOUS
  <1>2. s \in Seq(Nat) /\ Len(s) = 1 /\ s[1] = x
    BY <1>1
  <1>3. PICK t : t = Append(s, y)
    OBVIOUS
  <1>4. t \in Seq(Nat) /\ Len(t) = 2 /\ t[1] = x /\ t[2] = y
    <2>0. s \in Seq(Nat)
      BY <1>2
    <2>1. /\ t \in Seq(Nat) /\ Len(t) = Len(s) + 1
          /\ \A i \in 1 .. Len(s) : t[i] = s[i]
          /\ t[Len(s) + 1] = y
      BY <2>0, <1>3, OneAppended, SMTT(30)
    <2>2. QED
      BY <1>2, <2>1
  <1>5. t = <<x, y>>
    BY <1>4, TwoOf
  <1>6. PICK u : u = Append(t, z)
    OBVIOUS
  <1>7. u \in Seq(Nat) /\ Len(u) = 3 /\ u[1] = x /\ u[2] = y /\ u[3] = z
    <2>0. t \in Seq(Nat)
      BY <1>4
    <2>1. /\ u \in Seq(Nat) /\ Len(u) = Len(t) + 1
          /\ \A i \in 1 .. Len(t) : u[i] = t[i]
          /\ u[Len(t) + 1] = z
      BY <2>0, <1>6, OneAppended, SMTT(30)
    <2>2. QED
      BY <1>4, <2>1
  <1>8. u = <<x, y, z>>
    BY <1>7, ThreeOf
  <1>9. QED
    BY <1>1, <1>3, <1>5, <1>6, <1>8, Zenon

LEMMA Together ==
  ASSUME NEW x \in Nat, NEW y \in Nat, NEW z \in Nat
  PROVE  /\ <<x>> \o <<y, z>> = <<x, y, z>> /\ <<x, y>> \o <<z>> = <<x, y, z>>
         /\ <<y>> \o <<z>> = <<y, z>>
  <1>1. PICK a : a = <<x>>
    OBVIOUS
  <1>2. PICK b : b = <<y>>
    OBVIOUS
  <1>3. PICK c : c = <<z>>
    OBVIOUS
  <1>4. PICK d : d = <<x, y>>
    OBVIOUS
  <1>5. PICK e : e = <<y, z>>
    OBVIOUS
  <1>6. a \in Seq(Nat) /\ Len(a) = 1 /\ a[1] = x /\ b \in Seq(Nat) /\ Len(b) = 1 /\ b[1] = y
    BY <1>1, <1>2
  <1>7. c \in Seq(Nat) /\ Len(c) = 1 /\ c[1] = z
    BY <1>3
  <1>8. d \in Seq(Nat) /\ Len(d) = 2 /\ d[1] = x /\ d[2] = y
    BY <1>4
  <1>9. e \in Seq(Nat) /\ Len(e) = 2 /\ e[1] = y /\ e[2] = z
    BY <1>5
  <1>10. PICK s : s = a \o e
    OBVIOUS
  <1>11. s \in Seq(Nat) /\ Len(s) = 3 /\ s[1] = x /\ s[2] = y /\ s[3] = z
    <2>1. /\ s \in Seq(Nat) /\ Len(s) = Len(a) + Len(e)
          /\ \A i \in 1 .. Len(a) + Len(e) :
               s[i] = IF i <= Len(a) THEN a[i] ELSE e[i - Len(a)]
      BY <1>6, <1>9, <1>10, ConcatProperties
    <2>2. QED
      BY <1>6, <1>9, <1>10, <2>1, SMTT(30)
  <1>12. s = <<x, y, z>>
    BY <1>11, ThreeOf
  <1>13. PICK t : t = d \o c
    OBVIOUS
  <1>14. t \in Seq(Nat) /\ Len(t) = 3 /\ t[1] = x /\ t[2] = y /\ t[3] = z
    <2>1. /\ t \in Seq(Nat) /\ Len(t) = Len(d) + Len(c)
          /\ \A i \in 1 .. Len(d) + Len(c) :
               t[i] = IF i <= Len(d) THEN d[i] ELSE c[i - Len(d)]
      BY <1>7, <1>8, <1>13, ConcatProperties
    <2>2. QED
      BY <1>7, <1>8, <1>13, <2>1
  <1>15. t = <<x, y, z>>
    BY <1>14, ThreeOf
  <1>16. PICK u : u = b \o c
    OBVIOUS
  <1>17. u \in Seq(Nat) /\ Len(u) = 2 /\ u[1] = y /\ u[2] = z
    <2>1. /\ u \in Seq(Nat) /\ Len(u) = Len(b) + Len(c)
          /\ \A i \in 1 .. Len(b) + Len(c) :
               u[i] = IF i <= Len(b) THEN b[i] ELSE c[i - Len(b)]
      BY <1>6, <1>7, <1>16, ConcatProperties
    <2>2. QED
      BY <1>6, <1>7, <1>16, <2>1
  <1>18. u = <<y, z>>
    BY <1>17, TwoOf
  <1>19. <<x>> \o <<y, z>> = <<x, y, z>>
    BY <1>1, <1>5, <1>10, <1>12, Zenon
  <1>20. <<x, y>> \o <<z>> = <<x, y, z>>
    BY <1>3, <1>4, <1>13, <1>15, Zenon
  <1>21. <<y>> \o <<z>> = <<y, z>>
    BY <1>2, <1>3, <1>16, <1>18, Zenon
  <1>22. QED
    BY <1>19, <1>20, <1>21
LEMMA Strung ==
  ASSUME NEW x \in Nat, NEW y \in Nat, NEW z \in Nat
  PROVE  <<x>> \o (<<y>> \o (<<z>> \o <<>>)) = <<x, y, z>>
  <1>1. <<z>> \in Seq(Nat)
    OBVIOUS
  <1>2. <<z>> \o <<>> = <<z>>
    BY <1>1, ConcatEmptySeq
  <1>3. <<y>> \o <<z>> = <<y, z>> /\ <<x>> \o <<y, z>> = <<x, y, z>>
    BY Together, Zenon
  <1>4. QED
    BY <1>2, <1>3, Zenon

\* Zeros in front of one, two or three digits.
ZeroFilled(d) == [i \in 1..(3 - Len(d)) |-> 0] \o d

LEMMA ZeroFills ==
  ASSUME NEW x \in Nat, NEW y \in Nat, NEW z \in Nat
  PROVE  /\ ZeroFilled(<<z>>) = <<0, 0, z>> /\ ZeroFilled(<<y, z>>) = <<0, y, z>>
         /\ ZeroFilled(<<x, y, z>>) = <<x, y, z>>
  <1>0. 0 \in Nat
    OBVIOUS
  <1>1. ZeroFilled(<<z>>) = <<0, 0, z>>
    <2>1. 3 - Len(<<z>>) = 2
      OBVIOUS
    <2>2. PICK s : s = [i \in 1..2 |-> 0]
      OBVIOUS
    <2>3. s \in Seq(Nat) /\ Len(s) = 2 /\ s[1] = 0 /\ s[2] = 0
      BY <2>2
    <2>4. s = <<0, 0>>
      BY <2>3, TwoOf
    <2>5. <<0, 0>> \o <<z>> = <<0, 0, z>>
      BY <1>0, Together, Zenon
    <2>6. QED
      BY <2>1, <2>2, <2>4, <2>5, Zenon DEF ZeroFilled
  <1>2. ZeroFilled(<<y, z>>) = <<0, y, z>>
    <2>1. 3 - Len(<<y, z>>) = 1
      OBVIOUS
    <2>2. [i \in 1..1 |-> 0] = <<0>>
      OBVIOUS
    <2>3. <<0>> \o <<y, z>> = <<0, y, z>>
      BY <1>0, Together, Zenon
    <2>4. QED
      BY <2>1, <2>2, <2>3, Zenon DEF ZeroFilled
  <1>3. ZeroFilled(<<x, y, z>>) = <<x, y, z>>
    <2>1. 3 - Len(<<x, y, z>>) = 0 /\ <<x, y, z>> \in Seq(Nat)
      OBVIOUS
    <2>2. [i \in 1..0 |-> 0] = <<>>
      OBVIOUS
    <2>3. <<>> \o <<x, y, z>> = <<x, y, z>>
      BY <2>1, ConcatEmptySeq
    <2>4. QED
      BY <2>1, <2>2, <2>3, Zenon DEF ZeroFilled
  <1>4. QED
    BY <1>1, <1>2, <1>3

\* The server writes the three digits.
LEMMA DigitsAre ==
  ASSUME RoutingAssumption, Slot = Base * Base * Base,
         NEW num, NEW x, NEW y, NEW z, ThreeDigits(num, x, y, z)
  PROVE  Digits(num, Slot) = <<x, y, z>>
  <1>1. Slot \in Nat
    BY Anchors
  <1>2. PICK D : Rounds(D, Slot, num) /\ Digits(num, Slot) = D[Slot][num]
    BY <1>1, DigitsRounds
  <1>3. ASSUME NEW anchor \in 0 .. Slot, NEW n \in 0 .. num, anchor > 1
        PROVE  D[anchor][n] = <<n \div (anchor \div Base)>> \o D[anchor \div Base][n % (anchor \div Base)]
    <2>1. D[anchor] = Round(D, anchor, num)
      BY <1>2 DEF Rounds
    <2>2. ~(anchor <= 1)
      BY <1>3, <1>1
    <2>3. QED
      BY <2>1, <2>2 DEF Round
  <1>4. ASSUME NEW n \in 0 .. num PROVE D[1][n] = <<>>
    <2>1. D[1] = Round(D, 1, num)
      BY <1>2, Anchors DEF Rounds
    <2>2. QED
      BY <2>1 DEF Round
  <1>5. num \in 0 .. num /\ 0 \in 0 .. num
    BY AnchorParts
  <1>6. D[Slot][num] = <<x>> \o D[Base * Base][Base * y + z]
    <2>1. Slot \in 0 .. Slot /\ Slot > 1
      BY Anchors
    <2>2. D[Slot][num] = <<num \div (Slot \div Base)>> \o D[Slot \div Base][num % (Slot \div Base)]
      BY <1>3, <1>5, <2>1
    <2>3. Slot \div Base = Base * Base /\ num \div (Base * Base) = x /\ num % (Base * Base) = Base * y + z
      BY Anchors, AnchorParts
    <2>4. QED
      BY <2>2, <2>3, Zenon
  <1>7. D[Base * Base][Base * y + z] = <<y>> \o D[Base][z]
    <2>1. Base * Base \in 0 .. Slot /\ Base * Base > 1 /\ Base * y + z \in 0 .. num
      BY Anchors, AnchorParts
    <2> DEFINE a == Base * Base
               n == Base * y + z
    <2> HIDE DEF a, n
    <2>2. D[a][n] = <<n \div (a \div Base)>> \o D[a \div Base][n % (a \div Base)]
      BY <1>3, <2>1 DEF a, n
    <2>3. a \div Base = Base /\ n \div Base = y /\ n % Base = z
      BY Anchors, AnchorParts DEF a, n
    <2>4. D[a][n] = <<y>> \o D[Base][z]
      BY <2>2, <2>3, Zenon
    <2>5. QED
      BY <2>4 DEF a, n
  <1>8. D[Base][z] = <<z>> \o D[1][0]
    <2>1. Base \in 0 .. Slot /\ Base > 1 /\ z \in 0 .. num
      BY Anchors, AnchorParts
    <2>2. D[Base][z] = <<z \div (Base \div Base)>> \o D[Base \div Base][z % (Base \div Base)]
      BY <1>3, <2>1
    <2>3. Base \div Base = 1 /\ z \div 1 = z /\ z % 1 = 0
      BY Anchors, AnchorParts
    <2>4. QED
      BY <2>2, <2>3, Zenon
  <1>9. D[1][0] = <<>>
    BY <1>4, <1>5
  <1>10. Digits(num, Slot) = <<x>> \o (<<y>> \o (<<z>> \o <<>>))
    BY <1>2, <1>6, <1>7, <1>8, <1>9, Zenon
  <1>11. <<x>> \o (<<y>> \o (<<z>> \o <<>>)) = <<x, y, z>>
    BY ThreeDigitsNat, Strung
  <1>12. QED
    BY <1>10, <1>11

\* The client writes them, too: zeros in front make up for digits that are not there.
LEMMA FormatIs ==
  ASSUME RoutingAssumption, NEW num, NEW x, NEW y, NEW z, ThreeDigits(num, x, y, z)
  PROVE  Format03d(num) = <<x, y, z>>
  <1>1. Base \in Nat /\ Base >= 2
    BY DEF RoutingAssumption
  <1>2. x \in 0 .. Base - 1 /\ y \in 0 .. Base - 1 /\ z \in 0 .. Base - 1
    BY DEF ThreeDigits
  <1>3. num \in Nat
    BY AnchorParts
  <1>4. PICK w \in Nat : w = Base * x + y
    BY <1>1, <1>2
  <1>5. num = Base * w + z
    BY <1>4 DEF ThreeDigits
  <1> Base \in Nat \ {0} /\ w \in Int /\ x \in Int
    BY <1>1, <1>2, <1>4
  <1>6. num \div Base = w /\ num % Base = z
    BY <1>2, <1>5, Divided
  <1>7. w \div Base = x /\ w % Base = y
    BY <1>2, <1>4, Divided
  <1>8. w \in 0 .. num /\ x \in 0 .. num
    <2>1. Base * w = 2 * w + (Base - 2) * w /\ Base * x = 2 * x + (Base - 2) * x
      BY <1>1, <1>2, <1>4
    <2>2. Base - 2 \in Nat /\ x \in Nat
      BY <1>1, <1>2
    <2>3. (Base - 2) * w \in Nat /\ (Base - 2) * x \in Nat
      BY <1>4, <2>2
    <2>4. w >= 2 * x
      BY <1>2, <1>4, <2>1, <2>2, <2>3
    <2>5. num >= 2 * w
      BY <1>2, <1>4, <1>5, <2>1, <2>3
    <2>6. QED
      BY <1>3, <1>4, <2>2, <2>4, <2>5
  <1>9. PICK M : Writing(M, num) /\ Decimal(num) = M[num]
    BY <1>3, DecimalWriting
  <1>10. ASSUME NEW m \in 0 .. num, m < Base PROVE M[m] = <<m>>
    <2>1. M[m] = Written(M, m)
      BY <1>9 DEF Writing
    <2>2. QED
      BY <1>10, <2>1, Zenon DEF Written
  <1>11. ASSUME NEW m \in 0 .. num, ~(m < Base) PROVE M[m] = Append(M[m \div Base], m % Base)
    <2>1. M[m] = Written(M, m)
      BY <1>9 DEF Writing
    <2>2. QED
      BY <1>11, <2>1, Zenon DEF Written
  <1>12. num \in 0 .. num
    BY <1>3
  <1>20. x \in Nat /\ y \in Nat /\ z \in Nat
    BY ThreeDigitsNat
  <1>21. Format03d(num) = ZeroFilled(Decimal(num))
    BY Zenon DEF Format03d, ZeroFilled
  <1>13. CASE w = 0
    <2>1. Base * x \in Nat
      BY <1>1, <1>2
    <2>2. Base * x = 0 /\ y = 0
      BY <1>2, <1>4, <1>13, <2>1
    <2>3. x = 0
      BY <1>1, <1>2, <2>2
    <2>4. num = z /\ num < Base
      BY <1>1, <1>2, <1>5, <1>13
    <2>5. Decimal(num) = <<z>>
      BY <1>9, <1>10, <1>12, <2>4
    <2>6. QED
      BY <1>20, <1>21, <2>2, <2>3, <2>5, ZeroFills
  <1>14. CASE w # 0
    <2>1. Base * w = Base + Base * (w - 1)
      BY <1>1, <1>4
    <2>2. w - 1 \in Nat
      BY <1>4, <1>14
    <2>3. Base * (w - 1) \in Nat
      BY <1>1, <2>2
    <2>4. ~(num < Base)
      BY <1>1, <1>2, <1>4, <1>5, <2>1, <2>3
    <2>5. Decimal(num) = Append(M[w], z)
      BY <1>6, <1>9, <1>11, <1>12, <2>4
    <2>6. CASE x = 0
      <3>1. Base * x = 0
        BY <1>1, <2>6
      <3>2. w = y /\ w < Base
        BY <1>1, <1>2, <1>4, <3>1
      <3>3. M[w] = <<y>>
        BY <1>8, <1>10, <3>2
      <3>4. Decimal(num) = <<y, z>>
        <4>1. Append(<<y>>, z) = <<y, z>>
          BY <1>20, OneMore, ZenonT(30)
        <4>2. QED
          BY <2>5, <3>3, <4>1, Zenon
      <3>5. QED
        <4>1. ZeroFilled(<<y, z>>) = <<0, y, z>>
          BY <1>20, ZeroFills, Zenon
        <4>2. QED
          BY <1>21, <2>6, <3>4, <4>1, Zenon
    <2>7. CASE x # 0
      <3>1. Base * x = Base + Base * (x - 1)
        BY <1>1, <1>2
      <3>2. x - 1 \in Nat
        BY <1>2, <2>7
      <3>3. Base * (x - 1) \in Nat
        BY <1>1, <3>2
      <3>4. ~(w < Base)
        BY <1>1, <1>2, <1>4, <3>1, <3>3
      <3>5. M[w] = Append(M[x], y)
        BY <1>7, <1>8, <1>11, <3>4
      <3>6. M[x] = <<x>>
        BY <1>1, <1>2, <1>8, <1>10
      <3>7. Decimal(num) = <<x, y, z>>
        <4>1. Append(<<x>>, y) = <<x, y>> /\ Append(<<x, y>>, z) = <<x, y, z>>
          BY <1>20, OneMore, Zenon
        <4>2. QED
          BY <2>5, <3>5, <3>6, <4>1, Zenon
      <3>8. QED
        <4>1. ZeroFilled(<<x, y, z>>) = <<x, y, z>>
          BY <1>20, ZeroFills, ZenonT(30)
        <4>2. QED
          BY <1>21, <3>7, <4>1, Zenon
    <2>8. QED
      BY <2>6, <2>7
  <1>15. QED
    BY <1>13, <1>14

\* For three-digit slots both write a number the same way.
LEMMA SameDigits ==
  ASSUME RoutingAssumption, Slot = Base * Base * Base, NEW num \in 0 .. Slot - 1
  PROVE  /\ Digits(num, Slot) = Format03d(num)
         /\ Format03d(num) \in [1..3 -> 0..(Base - 1)]
  <1>1. PICK x, y, z : ThreeDigits(num, x, y, z)
    BY HasThreeDigits
  <1>2. Digits(num, Slot) = <<x, y, z>> /\ Format03d(num) = <<x, y, z>>
    BY <1>1, DigitsAre, FormatIs
  <1>3. <<x, y, z>> \in [1..3 -> 0..(Base - 1)]
    BY <1>1 DEF ThreeDigits
  <1>4. QED
    BY <1>2, <1>3

-----------------------------------------------------------------------------
(* Escaping *)

\* Strings of one character each put together are the characters.
LEMMA FlattenSingles ==
  ASSUME NEW s \in Seq(Nat)
  PROVE  FlattenSeq([i \in DOMAIN s |-> <<s[i]>>]) = s
  <1> DEFINE seqs == [i \in DOMAIN s |-> <<s[i]>>]
             n == Len(s)
  <1>1. n \in Nat /\ DOMAIN s = 1 .. n /\ seqs = [i \in 1 .. n |-> <<s[i]>>] /\ Len(seqs) = n
    BY LenProperties
  <1>2. CASE n = 0
    <2>1. s = <<>> /\ seqs = <<>>
      BY <1>1, <1>2, EmptySeq
    <2>2. Len(seqs) = 0
      BY <1>1, <1>2
    <2> HIDE DEF seqs
    <2>3. FlattenSeq(seqs) = s
      BY <2>1, <2>2, Zenon DEF FlattenSeq
    <2>4. QED
      BY <2>3 DEF seqs
  <1>3. CASE n # 0
    <2>0. Len(seqs) \in Nat /\ Len(seqs) # 0
      BY <1>1, <1>3
    <2>1. \A i \in 1 .. n : seqs[i] = <<s[i]>> /\ s[i] \in Nat
      BY <1>1
    <2> HIDE DEF seqs
    <2>2. PICK F : Joins(F, seqs) /\ FlattenSeq(seqs) = F[Len(seqs)]
      BY <2>0, FlattenJoins
    <2> DEFINE S == {0} \cup {k \in 1 .. n : F[k] = SubSeq(s, 1, k)}
    <2> HIDE DEF n
    <2>3. ASSUME NEW i \in 0 .. n, i # n, i \in S PROVE i + 1 \in S
      <3>1. i \in Nat /\ i + 1 \in 1 .. n
        BY <1>1, <2>3
      <3>2. F[i + 1] = IF i = 0 THEN seqs[i + 1] ELSE F[i] \o seqs[i + 1]
        <4>1. i + 1 \in 1 .. Len(seqs)
          BY <1>1, <3>1
        <4>2. F[i + 1] = IF i + 1 = 1 THEN seqs[i + 1] ELSE F[i + 1 - 1] \o seqs[i + 1]
          BY <2>2, <4>1, JoinsAt
        <4>3. (i + 1 = 1 <=> i = 0) /\ i + 1 - 1 = i
          BY <3>1
        <4>4. QED
          BY <4>2, <4>3, Zenon
      <3>3. seqs[i + 1] = <<s[i + 1]>> /\ s[i + 1] \in Nat
        BY <2>1, <3>1
      <3>4. CASE i = 0
        <4>1. SubSeq(s, 1, 1) = <<s[1]>>
          <5>1. s[1] \in Nat
            BY <3>3, <3>4
          <5>2. \A j \in 1 .. 1 : s[j] \in Nat
            BY <5>1
          <5>3. PICK t : t = SubSeq(s, 1, 1)
            OBVIOUS
          <5>4. t \in Seq(Nat) /\ Len(t) = 1 /\ t[1] = s[1]
            BY <5>2, <5>3, SubSeqProperties
          <5>5. t = <<s[1]>>
            BY <5>4
          <5>6. QED
            BY <5>3, <5>5
        <4>2. F[1] = <<s[1]>>
          BY <3>2, <3>3, <3>4
        <4>3. QED
          BY <3>1, <3>4, <4>1, <4>2
      <3>5. CASE i # 0
        <4>1. F[i] = SubSeq(s, 1, i) /\ F[i + 1] = F[i] \o <<s[i + 1]>>
          BY <2>3, <3>1, <3>2, <3>3, <3>5
        <4>2. SubSeq(s, 1, i + 1) = SubSeq(s, 1, i) \o <<s[i + 1]>>
          <5>1. /\ SubSeq(s, 1, i + 1) \in Seq(Nat) /\ SubSeq(s, 1, i) \in Seq(Nat)
                /\ Len(SubSeq(s, 1, i + 1)) = i + 1 /\ Len(SubSeq(s, 1, i)) = i
                /\ \A j \in 1 .. i + 1 : SubSeq(s, 1, i + 1)[j] = s[j]
                /\ \A j \in 1 .. i : SubSeq(s, 1, i)[j] = s[j]
            BY <1>1, <3>1 DEF n
          <5>2. <<s[i + 1]>> \in Seq(Nat) /\ Len(<<s[i + 1]>>) = 1 /\ <<s[i + 1]>>[1] = s[i + 1]
            BY <3>3
          <5> DEFINE a == SubSeq(s, 1, i)
                     b == <<s[i + 1]>>
                     c == SubSeq(s, 1, i + 1)
          <5> HIDE DEF a, b, c
          <5>3. /\ a \o b \in Seq(Nat) /\ Len(a \o b) = i + 1
                /\ \A j \in 1 .. i + 1 : (a \o b)[j] = IF j <= i THEN a[j] ELSE b[j - i]
            BY <5>1, <5>2, ConcatProperties DEF a, b
          <5>4. ASSUME NEW j \in 1 .. i + 1 PROVE (a \o b)[j] = c[j]
            <6>1. CASE j <= i
              BY <3>1, <5>1, <5>3, <6>1 DEF a, c
            <6>2. CASE ~(j <= i)
              <7>1. j = i + 1 /\ j - i = 1
                BY <3>1, <6>2
              <7>2. (a \o b)[j] = b[1]
                BY <5>3, <6>2, <7>1
              <7>3. b[1] = s[j] /\ c[j] = s[j]
                BY <5>1, <5>2, <7>1 DEF b, c
              <7>4. QED
                BY <7>2, <7>3
            <6>3. QED
              BY <6>1, <6>2
          <5>5. c \in Seq(Nat) /\ Len(c) = i + 1
            BY <5>1 DEF c
          <5>6. c = a \o b
            BY <5>3, <5>4, <5>5, SeqEqual
          <5>7. QED
            BY <5>6 DEF a, b, c
        <4>3. QED
          BY <3>1, <4>1, <4>2
      <3>6. QED
        BY <3>4, <3>5
    <2>4. 0 \in S
      OBVIOUS
    <2> HIDE DEF S
    <2>5. 0 .. n \subseteq S
      BY <1>1, <2>3, <2>4, StepByStep
    <2>6. n \in S
      BY <1>1, <2>5
    <2>7. F[n] = SubSeq(s, 1, n)
      BY <1>1, <1>3, <2>6 DEF S
    <2>8. SubSeq(s, 1, n) = s
      BY <1>1 DEF n
    <2>9. QED
      BY <1>1, <2>2, <2>7, <2>8 DEF seqs
  <1>4. QED
    BY <1>2, <1>3

\* A character of one of the strings is a character of the whole.
LEMMA FlattenContains ==
  ASSUME NEW seqs, Len(seqs) \in Nat, NEW T, \A i \in 1 .. Len(seqs) : seqs[i] \in Seq(T),
         NEW j \in 1 .. Len(seqs), NEW m \in 1 .. Len(seqs[j])
  PROVE  \E i \in DOMAIN FlattenSeq(seqs) : FlattenSeq(seqs)[i] = seqs[j][m]
  <1> DEFINE n == Len(seqs)
             c == seqs[j][m]
             Has(t) == t \in Seq(T) /\ \E i \in 1 .. Len(t) : t[i] = c
  <1>1. n \in Nat /\ n # 0 /\ j \in 1 .. n
    OBVIOUS
  <1>2. PICK F : Joins(F, seqs) /\ FlattenSeq(seqs) = F[n]
    BY <1>1, FlattenJoins
  <1>3. \A i \in 1 .. n : seqs[i] \in Seq(T)
    OBVIOUS
  <1>4. Has(seqs[j])
    BY <1>3
  <1> DEFINE S == {0} \cup {k \in 1 .. n : F[k] \in Seq(T) /\ (j <= k => Has(F[k]))}
  <1> HIDE DEF n, c
  <1>5. ASSUME NEW i \in 0 .. n, i # n, i \in S PROVE i + 1 \in S
    <2>1. i \in Nat /\ i + 1 \in 1 .. n
      BY <1>1, <1>5
    <2>2. F[i + 1] = IF i = 0 THEN seqs[i + 1] ELSE F[i] \o seqs[i + 1]
      <3>1. i + 1 \in 1 .. Len(seqs)
        BY <2>1 DEF n
      <3>2. F[i + 1] = IF i + 1 = 1 THEN seqs[i + 1] ELSE F[i + 1 - 1] \o seqs[i + 1]
        BY <1>2, <3>1, JoinsAt
      <3>3. (i + 1 = 1 <=> i = 0) /\ i + 1 - 1 = i
        BY <2>1
      <3>4. QED
        BY <3>2, <3>3, Zenon
    <2>3. seqs[i + 1] \in Seq(T)
      BY <1>3, <2>1
    <2>4. CASE i = 0
      <3>1. F[i + 1] = seqs[i + 1]
        BY <2>2, <2>4
      <3>2. j <= i + 1 => Has(F[i + 1])
        <4>1. SUFFICES ASSUME j <= i + 1 PROVE Has(F[i + 1])
          OBVIOUS
        <4>2. j = i + 1
          BY <1>1, <2>4, <4>1
        <4> HIDE DEF Has
        <4>3. QED
          BY <1>4, <3>1, <4>2
      <3> HIDE DEF Has
      <3>3. QED
        BY <2>1, <2>3, <3>1, <3>2
    <2>5. CASE i # 0
      <3> DEFINE a == F[i]
                 b == seqs[i + 1]
      <3>1. a \in Seq(T) /\ (j <= i => Has(a)) /\ F[i + 1] = a \o b
        <4>1. i \in 1 .. n /\ a \in Seq(T) /\ (j <= i => Has(a))
          BY <1>5, <2>1, <2>5
        <4>2. F[i + 1] = a \o b
          BY <2>2, <2>5
        <4> HIDE DEF Has, a, b
        <4>3. QED
          BY <4>1, <4>2
      <3>2. b \in Seq(T)
        BY <2>3
      <3> HIDE DEF a, b
      <3>3. /\ a \o b \in Seq(T) /\ Len(a \o b) = Len(a) + Len(b) /\ Len(a) \in Nat /\ Len(b) \in Nat
            /\ \A k \in 1 .. Len(a) + Len(b) : (a \o b)[k] = IF k <= Len(a) THEN a[k] ELSE b[k - Len(a)]
        BY <3>1, <3>2, ConcatProperties, LenProperties
      <3>4. ASSUME j <= i + 1 PROVE Has(a \o b)
        <4>1. CASE j <= i
          <5>1. PICK k \in 1 .. Len(a) : a[k] = c
            BY <3>1, <4>1
          <5>2. k \in 1 .. Len(a \o b) /\ (a \o b)[k] = c
            BY <3>3, <5>1
          <5>3. QED
            BY <3>3, <5>2
        <4>2. CASE ~(j <= i)
          <5>1. j = i + 1
            BY <1>1, <2>1, <3>4, <4>2
          <5>2. PICK k \in 1 .. Len(b) : b[k] = c
            BY <1>4, <5>1 DEF b
          <5>3. k + Len(a) \in 1 .. Len(a \o b) /\ (a \o b)[k + Len(a)] = b[k]
            BY <3>3, <5>2
          <5>4. QED
            BY <3>3, <5>2, <5>3
        <4>3. QED
          BY <4>1, <4>2
      <3> HIDE DEF Has
      <3>5. QED
        BY <2>1, <3>1, <3>3, <3>4
    <2>6. QED
      BY <2>4, <2>5
  <1>6. 0 \in S
    OBVIOUS
  <1> HIDE DEF S
  <1>7. 0 .. n \subseteq S
    BY <1>1, <1>5, <1>6, StepByStep
  <1>8. n \in S
    BY <1>1, <1>7
  <1>9. Has(F[n])
    BY <1>1, <1>8 DEF S
  <1>10. QED
    BY <1>2, <1>9, LenProperties DEF c, n

LEMMA KeyChars ==
  ASSUME RoutingAssumption, NEW k \in Keys
  PROVE  k \in Seq(Nat) /\ \A i \in DOMAIN k : k[i] # Escape
  BY DEF RoutingAssumption

\* A key without special characters goes through a URL as it is.
LEMMA PlainKeys ==
  ASSUME RoutingAssumption, NEW k \in Keys, Plain(k)
  PROVE  Encode(k) = k /\ Decode(k) = k
  <1>1. k \in Seq(Nat) /\ \A i \in DOMAIN k : k[i] # Escape
    BY KeyChars
  <1>2. FlattenSeq([i \in DOMAIN k |-> <<k[i]>>]) = k
    BY <1>1, FlattenSingles
  <1>3. [i \in DOMAIN k |-> IF k[i] \in Special THEN <<Escape, k[i]>> ELSE <<k[i]>>]
          = [i \in DOMAIN k |-> <<k[i]>>]
    BY Zenon DEF Plain
  <1>4. [i \in DOMAIN k |-> IF k[i] = Escape THEN <<>> ELSE <<k[i]>>]
          = [i \in DOMAIN k |-> <<k[i]>>]
    BY <1>1, Zenon
  <1>5. QED
    BY <1>2, <1>3, <1>4, Zenon DEF Encode, Decode

\* Any other key has an escape sign in its name.
LEMMA OtherKeys ==
  ASSUME RoutingAssumption, NEW k \in Keys, ~Plain(k)
  PROVE  \E i \in DOMAIN Encode(k) : Encode(k)[i] = Escape
  <1> DEFINE seqs == [i \in DOMAIN k |-> IF k[i] \in Special THEN <<Escape, k[i]>> ELSE <<k[i]>>]
             T == Nat \cup {Escape}
  <1>1. k \in Seq(Nat)
    BY KeyChars
  <1>2. Len(k) \in Nat /\ DOMAIN k = 1 .. Len(k) /\ \A i \in 1 .. Len(k) : k[i] \in Nat
    BY <1>1, LenProperties
  <1>3. Len(seqs) = Len(k)
    BY <1>2
  <1>4. ASSUME NEW i \in 1 .. Len(k) PROVE seqs[i] \in Seq(T)
    <2>1. seqs[i] = IF k[i] \in Special THEN <<Escape, k[i]>> ELSE <<k[i]>>
      BY <1>2
    <2>2. <<Escape, k[i]>> \in Seq(T) /\ <<k[i]>> \in Seq(T)
      BY <1>2
    <2> HIDE DEF seqs, T
    <2>3. QED
      BY <2>1, <2>2, Zenon
  <1>5. PICK j \in 1 .. Len(k) : k[j] \in Special
    BY <1>2 DEF Plain
  <1>6. seqs[j] = <<Escape, k[j]>>
    BY <1>2, <1>5
  <1>7. 1 \in 1 .. Len(seqs[j]) /\ seqs[j][1] = Escape
    <2>1. Len(<<Escape, k[j]>>) = 2 /\ <<Escape, k[j]>>[1] = Escape
      OBVIOUS
    <2> HIDE DEF seqs
    <2>2. QED
      BY <1>6, <2>1
  <1>8. Encode(k) = FlattenSeq(seqs)
    BY Zenon DEF Encode
  <1> HIDE DEF seqs, T
  <1>9. j \in 1 .. Len(seqs) /\ Len(seqs) \in Nat
    BY <1>2, <1>3, <1>5
  <1>10. \A i \in 1 .. Len(seqs) : seqs[i] \in Seq(T)
    BY <1>3, <1>4
  <1>11. \E i \in DOMAIN FlattenSeq(seqs) : FlattenSeq(seqs)[i] = seqs[j][1]
    BY <1>7, <1>9, <1>10, FlattenContains
  <1>12. QED
    BY <1>7, <1>8, <1>11

\* No other key has the name of a plain one.
LEMMA NamesDiffer ==
  ASSUME RoutingAssumption, NEW k \in Keys, NEW l \in Keys, Plain(k), k # l
  PROVE  Encode(l) # Encode(k)
  <1>1. Encode(k) = k /\ \A i \in DOMAIN k : k[i] # Escape
    BY PlainKeys, KeyChars
  <1>2. CASE Plain(l)
    BY <1>1, <1>2, PlainKeys
  <1>3. CASE ~Plain(l)
    BY <1>1, <1>3, OtherKeys
  <1>4. QED
    BY <1>2, <1>3

-----------------------------------------------------------------------------
(* Hosts and directories *)

LEMMA HashInRange ==
  ASSUME RoutingAssumption, NEW str, Digest(seed, str) \in Nat, NEW slot \in Nat \ {0}
  PROVE  hash(str, slot) \in 0 .. slot - 1
  BY DEF hash

LEMMA ThreeLong ==
  ASSUME NEW S, NEW d \in [1..3 -> S]
  PROVE  d \in Seq(S) /\ Len(d) = 3
  <1>1. d = [i \in 1..3 |-> d[i]] /\ \A i \in 1 .. 3 : d[i] \in S
    OBVIOUS
  <1>2. QED
    BY <1>1

\* With the digits of no, one or two levels appended, the sum of a digest is a number.
LEMMA Digests ==
  ASSUME RoutingAssumption, seed \in Seeds, NEW k \in Keys,
         NEW d \in [1..3 -> 0..(Base - 1)], NEW e \in [1..3 -> 0..(Base - 1)]
  PROVE  /\ Digest(seed, k) \in Nat /\ Digest(seed, k \o d) \in Nat
         /\ Digest(seed, k \o d \o e) \in Nat
  <1> DEFINE C == 0..(Base - 1)
             D == UNION {[1..n -> C] : n \in {0, 3, 6}}
  <1>1. \A f \in D : Digest(seed, k \o f) \in Nat
    BY Zenon DEF RoutingAssumption
  <1>2. Base \in Nat /\ k \in Seq(Nat)
    BY KeyChars DEF RoutingAssumption
  <1>3. <<>> \in [1..0 -> C] /\ k \o <<>> = k
    <2>1. k \o <<>> = k
      BY <1>2, ConcatEmptySeq
    <2>2. <<>> \in [1..0 -> C]
      OBVIOUS
    <2>3. QED
      BY <2>1, <2>2
  <1>4. d \o e \in [1..6 -> C] /\ k \o d \o e = k \o (d \o e)
    <2>0. C \subseteq Nat
      BY <1>2
    <2>1. d \in Seq(C) /\ e \in Seq(C) /\ Len(d) = 3 /\ Len(e) = 3
      BY ThreeLong
    <2> HIDE DEF C
    <2>2. d \in Seq(Nat) /\ e \in Seq(Nat)
      BY <2>0, <2>1, SeqMonotonic
    <2>3. k \o d \o e = k \o (d \o e)
      <3>1. k \in Seq(Nat)
        BY <1>2
      <3>2. (k \o d) \o e = k \o (d \o e)
        <4>1. Behind(Behind(k, d), e) = Behind(k, Behind(d, e))
          BY <2>2, <3>1, Grouped
        <4>2. QED
          BY <4>1, Zenon DEF Behind
      <3>3. QED
        BY <3>2
    <2>4. d \o e \in Seq(C) /\ Len(d \o e) = Len(d) + Len(e)
      BY <2>1, ConcatProperties, Zenon
    <2>5. d \o e \in [1..6 -> C]
      <3>1. d \o e \in [1..Len(d \o e) -> C]
        BY <2>4, LenProperties, Zenon
      <3>2. Len(d \o e) = 6
        BY <2>1, <2>4
      <3>3. QED
        BY <3>1, <3>2
    <2>6. QED
      BY <2>3, <2>5
  <1>5. <<>> \in D /\ d \in D /\ d \o e \in D
    <2>1. 0 \in {0, 3, 6} /\ 3 \in {0, 3, 6} /\ 6 \in {0, 3, 6} /\ d \in [1..3 -> C]
      OBVIOUS
    <2> HIDE DEF C
    <2>2. QED
      BY <1>3, <1>4, <2>1, Zenon
  <1> HIDE DEF D
  <1>6. QED
    BY <1>1, <1>3, <1>4, <1>5

\* The server makes the directories in which the client looks.
LEMMA SamePaths ==
  ASSUME RoutingAssumption, seed \in Seeds, Slot = Base * Base * Base, NEW k \in Keys
  PROVE  ClientPath(k) = writeGetPath(k)
  <1>0. Slot \in Nat \ {0}
    BY Anchors
  <1> DEFINE Level(str) == Digits(hash(str, Slot), Slot)
             Dir(str) == Format03d(hash(str, Slot))
             Three == [1..3 -> 0..(Base - 1)]
  <1>1. ASSUME NEW str, Digest(seed, str) \in Nat
        PROVE  Level(str) = Dir(str) /\ Level(str) \in Three
    <2>1. hash(str, Slot) \in 0 .. Slot - 1
      BY <1>0, <1>1, HashInRange
    <2>2. QED
      BY <2>1, SameDigits
  <1>2. writeGetPath(k) = <<Level(k), Level(k \o Level(k)), Level(k \o Level(k) \o Level(k \o Level(k)))>>
    BY Zenon DEF writeGetPath
  <1>3. ClientPath(k) = <<Dir(k), Dir(k \o Dir(k)), Dir(k \o Dir(k) \o Dir(k \o Dir(k)))>>
    BY Zenon DEF ClientPath
  <1> HIDE DEF Level, Dir
  <1>4. PICK z \in Three : TRUE
    <2>1. [i \in 1..3 |-> 0] \in Three
      BY DEF RoutingAssumption
    <2>2. QED
      BY <2>1
  <1>5. Digest(seed, k) \in Nat
    BY <1>4, Digests
  <1>6. Level(k) = Dir(k) /\ Level(k) \in Three
    BY <1>1, <1>5
  <1>7. Digest(seed, k \o Level(k)) \in Nat
    BY <1>6, Digests
  <1>8. Level(k \o Level(k)) = Dir(k \o Level(k)) /\ Level(k \o Level(k)) \in Three
    BY <1>1, <1>7
  <1>9. Digest(seed, k \o Level(k) \o Level(k \o Level(k))) \in Nat
    BY <1>6, <1>8, Digests
  <1>10. Level(k \o Level(k) \o Level(k \o Level(k))) = Dir(k \o Level(k) \o Level(k \o Level(k)))
    BY <1>1, <1>9
  <1>11. QED
    BY <1>2, <1>3, <1>6, <1>8, <1>10, Zenon

LEMMA HostExists ==
  ASSUME RoutingAssumption, seed \in Seeds, NEW k \in Keys, NEW s \in Sides
  PROVE  <<s, HostIndex(k)>> \in Hosts
  <1>1. PICK z \in [1..3 -> 0..(Base - 1)] : TRUE
    <2>1. [i \in 1..3 |-> 0] \in [1..3 -> 0..(Base - 1)]
      BY DEF RoutingAssumption
    <2>2. QED
      BY <2>1
  <1>2. Digest(seed, k) \in Nat
    BY <1>1, Digests
  <1>3. Pairs \in Nat \ {0}
    BY DEF RoutingAssumption
  <1>4. hash(k, Pairs) \in 0 .. Pairs - 1
    BY <1>2, <1>3, HashInRange
  <1>5. HostIndex(k) \in 1 .. Pairs
    BY <1>3, <1>4 DEF HostIndex
  <1>6. QED
    BY <1>5 DEF Hosts

-----------------------------------------------------------------------------
(* Files *)

\* The path of a plain key.
Place(k) == <<writeGetPath(k), Encode(k)>>

FilesTypeOK ==
  /\ seed \in Seeds /\ versions \in Nat
  /\ files \in [Hosts -> [Paths -> Nat]]
  /\ saved \in [Keys -> Nat]
  /\ stored \in [Keys -> [Sides -> BOOLEAN]]

\* A server that has stored the last value of a plain key has it at its place.
InPlace ==
  \A k \in Keys, s \in Sides :
    Plain(k) /\ stored[k][s] => files[<<s, HostIndex(k)>>][Place(k)] = saved[k]

RoutingInv == FilesTypeOK /\ InPlace

LEMMA RoutingStarts ==
  ASSUME RoutingAssumption, RoutingInit
  PROVE  RoutingInv
  BY DEF RoutingInit, RoutingInv, FilesTypeOK, InPlace

\* No step changes where a key belongs.
LEMMA PlacesStay ==
  ASSUME seed' = seed
  PROVE  /\ Paths' = Paths
         /\ \A k : HostIndex(k)' = HostIndex(k) /\ Place(k)' = Place(k)
  BY DEF Paths, HostIndex, Place, writeGetPath, hash

LEMMA PlaceIsWritten ==
  ASSUME RoutingAssumption, NEW k \in Keys, Plain(k)
  PROVE  writeData(Encode(k)) = Place(k) /\ Place(k) \in Paths
  <1>1. Decode(Encode(k)) = k
    BY PlainKeys
  <1>2. QED
    BY <1>1, Zenon DEF writeData, Place, Paths

LEMMA SavedValue ==
  ASSUME RoutingAssumption, RoutingInv, NEW l \in Keys, NEW posted \in SUBSET Sides, saveValue(l, posted)
  PROVE  RoutingInv'
  <1>1. /\ seed' = seed /\ versions' = versions + 1
        /\ saved' = [saved EXCEPT ![l] = versions']
        /\ stored' = [stored EXCEPT ![l] = [s \in Sides |-> s \in posted]]
    BY DEF saveValue
  <1>2. FilesTypeOK /\ InPlace
    BY DEF RoutingInv
  <1> DEFINE P == writeData(Encode(l))
  <1>3. files' = [h \in Hosts |->
                    IF h[1] \in posted /\ h[2] = HostIndex(l)
                    THEN [files[h] EXCEPT ![P] = versions'] ELSE files[h]]
    BY Zenon DEF saveValue
  <1>4. versions' \in Nat /\ seed' \in Seeds
    BY <1>1, <1>2 DEF FilesTypeOK
  <1>5. Paths' = Paths /\ \A k : HostIndex(k)' = HostIndex(k) /\ Place(k)' = Place(k)
    BY <1>1, PlacesStay
  <1>6. P[2] = Encode(l)
    BY DEF writeData
  <1> HIDE DEF P
  <1>7. ASSUME NEW h \in Hosts PROVE files'[h] \in [Paths -> Nat]
    <2>1. files[h] \in [Paths -> Nat]
      BY <1>2 DEF FilesTypeOK
    <2>2. [files[h] EXCEPT ![P] = versions'] \in [Paths -> Nat]
      BY <1>4, <2>1
    <2>3. files'[h] = IF h[1] \in posted /\ h[2] = HostIndex(l)
                      THEN [files[h] EXCEPT ![P] = versions'] ELSE files[h]
      BY <1>3, Zenon
    <2>4. QED
      BY <2>1, <2>2, <2>3, Zenon
  <1>8. FilesTypeOK'
    <2>1. files' \in [Hosts -> [Paths -> Nat]]
      <3>1. files' = [h \in Hosts |-> files'[h]]
        BY <1>3, Zenon
      <3>2. QED
        BY <1>7, <3>1, Zenon
    <2>2. saved' \in [Keys -> Nat]
      BY <1>1, <1>2, <1>4 DEF FilesTypeOK
    <2>3. stored' \in [Keys -> [Sides -> BOOLEAN]]
      <3>1. [s \in Sides |-> s \in posted] \in [Sides -> BOOLEAN]
        OBVIOUS
      <3>2. stored \in [Keys -> [Sides -> BOOLEAN]]
        BY <1>2 DEF FilesTypeOK
      <3> DEFINE v == [s \in Sides |-> s \in posted]
      <3>3. stored' = [stored EXCEPT ![l] = v] /\ v \in [Sides -> BOOLEAN]
        BY <1>1, <3>1
      <3> HIDE DEF v
      <3>4. QED
        BY <3>2, <3>3
    <2>4. files' \in [Hosts -> [Paths' -> Nat]]
      BY <1>5, <2>1, Zenon
    <2>5. Hosts' = Hosts /\ Keys' = Keys
      BY DEF Hosts
    <2>6. QED
      BY <1>4, <2>2, <2>3, <2>4 DEF FilesTypeOK, Hosts
  <1>9. ASSUME NEW k \in Keys, NEW s \in Sides, Plain(k), stored'[k][s]
        PROVE  files'[<<s, HostIndex(k)>>][Place(k)] = saved'[k]
    <2> DEFINE h == <<s, HostIndex(k)>>
    <2>1. h \in Hosts /\ h[1] = s /\ h[2] = HostIndex(k)
      BY <1>2, HostExists DEF FilesTypeOK
    <2>2. Place(k) \in Paths
      BY <1>9, PlaceIsWritten
    <2>3. files[h] \in [Paths -> Nat]
      BY <1>2, <2>1 DEF FilesTypeOK
    <2> HIDE DEF h
    <2>4. files'[h] = IF s \in posted /\ HostIndex(k) = HostIndex(l)
                      THEN [files[h] EXCEPT ![P] = versions'] ELSE files[h]
      BY <1>3, <2>1, Zenon
    <2>5. CASE k = l
      <3>1. P = Place(k)
        BY <1>9, <2>5, PlaceIsWritten DEF P
      <3>2. stored'[k] = [t \in Sides |-> t \in posted]
        BY <1>1, <1>2, <2>5 DEF FilesTypeOK
      <3>3. s \in posted
        BY <1>9, <3>2
      <3>4. files'[h] = [files[h] EXCEPT ![Place(k)] = versions']
        BY <2>4, <2>5, <3>1, <3>3, Zenon
      <3>5. files'[h][Place(k)] = versions'
        BY <2>2, <2>3, <3>4
      <3>6. saved'[k] = versions'
        BY <1>1, <1>2, <2>5 DEF FilesTypeOK
      <3>7. QED
        BY <3>5, <3>6 DEF h
    <2>6. CASE k # l
      <3>1. stored'[k] = stored[k] /\ saved'[k] = saved[k]
        BY <1>1, <1>2, <2>6 DEF FilesTypeOK
      <3>2. P # Place(k)
        <4>1. Place(k)[2] = Encode(k)
          BY DEF Place
        <4>2. Encode(l) # Encode(k)
          BY <1>9, <2>6, NamesDiffer
        <4>3. QED
          BY <1>6, <4>1, <4>2
      <3>3. files'[h][Place(k)] = files[h][Place(k)]
        <4>1. [files[h] EXCEPT ![P] = versions'][Place(k)] = files[h][Place(k)]
          BY <2>2, <2>3, <3>2
        <4>2. QED
          BY <2>4, <4>1, Zenon
      <3>4. files[h][Place(k)] = saved[k]
        BY <1>2, <1>9, <3>1 DEF InPlace, h
      <3>5. QED
        BY <3>1, <3>3, <3>4 DEF h
    <2>7. QED
      BY <2>5, <2>6
  <1>10. InPlace'
    BY <1>5, <1>9 DEF InPlace, Sides
  <1>11. QED
    BY <1>8, <1>10 DEF RoutingInv

LEMMA RoutingGoesOn ==
  ASSUME RoutingAssumption, RoutingInv, [RoutingNext]_routingVars
  PROVE  RoutingInv'
  <1>1. CASE RoutingNext
    BY <1>1, SavedValue DEF RoutingNext
  <1>2. CASE UNCHANGED routingVars
    <2>1. /\ seed' = seed /\ versions' = versions /\ files' = files /\ saved' = saved /\ stored' = stored
      BY <1>2 DEF routingVars
    <2>2. Paths' = Paths /\ \A k : HostIndex(k)' = HostIndex(k) /\ Place(k)' = Place(k)
      BY <2>1, PlacesStay
    <2>3. QED
      BY <2>1, <2>2 DEF RoutingInv, FilesTypeOK, InPlace
  <1>3. QED
    BY <1>1, <1>2

\* ReadersFindValues always holds: host and directories that store.c and
\* writeGetPath of hash.c compute are those of IcebergClient.java, whatever the
\* digests, and no other key is stored in their place.
THEOREM ReadersAlwaysFind ==
  ASSUME RoutingAssumption
  PROVE  RoutingSpec => []ReadersFindValues
  <1>1. ASSUME RoutingInv PROVE ReadersFindValues
    <2> SUFFICES ASSUME Slot = Base * Base * Base, NEW k \in Keys, NEW s \in Sides, Plain(k), stored[k][s]
                 PROVE  getPosition(k, s) = saved[k]
      BY DEF ReadersFindValues
    <2>1. FilesTypeOK /\ InPlace
      BY <1>1 DEF RoutingInv
    <2>2. ClientPath(k) = writeGetPath(k)
      BY <2>1, SamePaths DEF FilesTypeOK
    <2>3. Encode(k) = k /\ Decode(k) = k
      BY PlainKeys
    <2>4. Place(k) \in Paths /\ <<ClientPath(k), Decode(Encode(k))>> = Place(k)
      BY <2>2, <2>3, PlaceIsWritten, Zenon DEF Place
    <2>5. getPosition(k, s) = files[<<s, HostIndex(k)>>][Place(k)]
      BY <2>4, Zenon DEF getPosition, HostIndex
    <2>6. QED
      BY <2>1, <2>5 DEF InPlace
  <1>2. RoutingInit => RoutingInv
    BY RoutingStarts
  <1>3. RoutingInv /\ [RoutingNext]_routingVars => RoutingInv'
    BY RoutingGoesOn
  <1>4. RoutingInv => ReadersFindValues
    BY <1>1
  <1>5. QED
    BY <1>2, <1>3, <1>4, PTL DEF RoutingSpec
=============================================================================
