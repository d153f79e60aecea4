----------------------------- MODULE Md5Buffer ------------------------------
(***************************************************************************)
(* How the two MD5 implementations cut their input into blocks: MD5Update  *)
(* and MD5Final of src/proxy/md5.c (keys of proxy and file server), and    *)
(* md5_append and md5_finish of src/nginx/c/md5.c (the ring).  The         *)
(* compression of a block is left out: its calls are recorded.  Buffers    *)
(* are not cleared between blocks, so old bytes stay in them.              *)
(*                                                                         *)
(* A block has BlockSize bytes, the last LenBytes of which hold the        *)
(* length: 64 and 8 in the code.  The two 32-bit counters are one number   *)
(* of bytes; keys are far from overflowing it.                             *)
(***************************************************************************)
EXTENDS Integers, Sequences, SequencesExt

CONSTANTS BlockSize,  \* 64
          LenBytes,   \* 8
          MaxLen      \* bound on the length of a message

BlocksAssumption ==
  BlockSize \in Nat \ {0} /\ LenBytes \in 1..BlockSize /\ MaxLen \in Nat

VARIABLES message,    \* what was given to both so far
          proxyMd5,   \* MD5_CTX: count, buffer, and the blocks transformed
          ringMd5,    \* md5_state_t, likewise
          done        \* finished

md5Vars == <<message, proxyMd5, ringMd5, done>>

Empty == [count |-> 0, buffer |-> [i \in 1..BlockSize |-> 0], blocks |-> <<>>]

\* memcpy of bytes to a buffer, from position at (counted from 0).
Copy(buffer, at, bytes) ==
  [i \in 1..BlockSize |-> IF i > at /\ i <= at + Len(bytes) THEN bytes[i - at] ELSE buffer[i]]

\* Whole blocks of a sequence, and what is left.
Whole(bytes) ==
  [b \in 1..(Len(bytes) \div BlockSize) |-> SubSeq(bytes, (b - 1) * BlockSize + 1, b * BlockSize)]
Rest(bytes) == SubSeq(bytes, (Len(bytes) \div BlockSize) * BlockSize + 1, Len(bytes))

SlipUpdate(c, input) ==
  LET index == c.count % BlockSize
      partlen == BlockSize - index
      full == Copy(c.buffer, index, SubSeq(input, 1, partlen))
      after == SubSeq(input, partlen + 1, Len(input))
  IN  IF Len(input) > partlen
      THEN [count  |-> c.count + Len(input),
            buffer |-> Copy(full, 0, Rest(after)),
            blocks |-> c.blocks \o <<full>> \o Whole(after)]
      ELSE [c EXCEPT !.count = @ + Len(input), !.buffer = Copy(@, index, input)]

\* MD5Update: the buffer is filled up first, whole blocks are taken from the
\* input, the rest goes to the start of the buffer.
MD5Update(c, input) ==
  LET index == c.count % BlockSize
      partlen == BlockSize - index
      full == Copy(c.buffer, index, SubSeq(input, 1, partlen))
      after == SubSeq(input, partlen + 1, Len(input))
  IN  IF Len(input) >= partlen
      THEN [count  |-> c.count + Len(input),
            buffer |-> Copy(full, 0, Rest(after)),
            blocks |-> c.blocks \o <<full>> \o Whole(after)]
      ELSE [c EXCEPT !.count = @ + Len(input), !.buffer = Copy(@, index, input)]

\* md5_append: the same, but an empty buffer is not filled first.
md5_append(c, data) ==
  LET offset == c.count % BlockSize
      n == IF offset + Len(data) > BlockSize THEN BlockSize - offset ELSE Len(data)
      counted == [c EXCEPT !.count = @ + Len(data)]
      filled == [counted EXCEPT !.buffer = Copy(@, offset, SubSeq(data, 1, n))]
      Blocks(d, bytes) ==
        [d EXCEPT !.blocks = @ \o Whole(bytes), !.buffer = Copy(@, 0, Rest(bytes))]
  IN  IF Len(data) = 0 THEN c
      ELSE IF offset = 0 THEN Blocks(counted, data)
      ELSE IF offset + n < BlockSize THEN filled
      ELSE Blocks([filled EXCEPT !.blocks = Append(@, filled.buffer)],
                  SubSeq(data, n + 1, Len(data)))

\* 0x80 and zeros, and the length as MD5Encode writes it: in the low bytes.
Padding(n) == [i \in 1..n |-> IF i = 1 THEN 128 ELSE 0]
Length(n) == [i \in 1..LenBytes |-> IF i = 1 THEN n ELSE 0]

\* MD5Final.
MD5Final(c) ==
  LET index == c.count % BlockSize
      room == BlockSize - LenBytes
      padlen == IF index < room THEN room - index ELSE BlockSize + room - index
  IN  MD5Update(MD5Update(c, Padding(padlen)), Length(c.count))

\* md5_finish.
md5_finish(c) ==
  LET room == BlockSize - LenBytes
  IN  md5_append(md5_append(c, Padding(((room - 1 - c.count) % BlockSize) + 1)), Length(c.count))

-----------------------------------------------------------------------------

\* MD5Init and md5_init; what the buffers hold does not matter.
Md5Init == message = <<>> /\ proxyMd5 = Empty /\ ringMd5 = Empty /\ done = FALSE

\* Another piece of n bytes; every byte of a message is different.
Update(n) ==
  LET piece == [i \in 1..n |-> 200 + Len(message) + i]
  IN  /\ ~done
      /\ Len(message) + n <= MaxLen
      /\ message' = message \o piece
      /\ proxyMd5' = MD5Update(proxyMd5, piece)
      /\ ringMd5' = md5_append(ringMd5, piece)
      /\ UNCHANGED done

Final ==
  /\ ~done
  /\ done' = TRUE
  /\ proxyMd5' = MD5Final(proxyMd5)
  /\ ringMd5' = md5_finish(ringMd5)
  /\ UNCHANGED message

Md5Next == Final \/ \E n \in 0..MaxLen : Update(n)

Md5Spec == Md5Init /\ [][Md5Next]_md5Vars

-----------------------------------------------------------------------------
(* Properties *)

\* However a message is cut into pieces, both implementations compress the
\* message, padded to whole blocks with its length at the end, and nothing of
\* what was in the buffers before (MD5Update, MD5Final, md5_append, md5_finish).
DigestsSeeMessage ==
  LET n == Len(message)
      room == BlockSize - LenBytes
      zeros == (room - n - 1) % BlockSize
      padded == message \o Padding(zeros + 1) \o Length(n)
  IN  done => proxyMd5.blocks = Whole(padded) /\ ringMd5.blocks = Whole(padded)
=============================================================================
