----------------------------- MODULE DelScanner -----------------------------
(***************************************************************************)
(* The search for DEL commands in the replication stream,                  *)
(* processInputBuffer of src/proxy/lrued_query.c, on what a read returned  *)
(* and buf_master_cmd kept of the reads before.  Proxy leaves open whether *)
(* a DEL is found; this module says when it is.                            *)
(*                                                                         *)
(* The stream is a sequence of symbols.  The 14 bytes "*2\r\n$3\r\nDEL\r\n$" *)
(* are Header symbols, the rest of the length line is one, a key is two.   *)
(* Every other command begins with "*", too, and has at least 14 bytes;    *)
(* its value may hold a "*", a zero byte, or the bytes of a DEL.           *)
(***************************************************************************)
EXTENDS Integers, Sequences, FiniteSets, SequencesExt

CONSTANTS MAX_READ,     \* symbols one read returns at most
          StreamLength, \* bound: commands in the stream
          Terminated    \* is the byte after cmp[14] a zero in this build?

\* A zero byte, and whatever else is in memory in front of a buffer.
Nul == <<"nul", 0>>
Other == <<"other", 0>>

DEL(n) == << <<"*", n>>, <<"D", n>>, <<"$", n>>, <<"len", n>>, <<"k", n>>, <<"k", n>>, <<"e", n>> >>
SET(n) == << <<"*", n>>, <<"S", n>>, <<"x", n>>, <<"x", n>>, <<"e", n>> >>
StarSET(n) == << <<"*", n>>, <<"S", n>>, <<"x", n>>, <<"*", n>>, <<"e", n>> >>
NulSET(n) == << <<"*", n>>, <<"S", n>>, <<"x", n>>, Nul, <<"e", n>> >>
DelSET(n) == << <<"*", n>>, <<"S", n>>, <<"x", n>> >> \o DEL(n)

Header == 3
KeyLen == 2

\* A header with a key that is not complete fits into buf_master_cmd (MAX_READ is
\* 10240, in bytes).
ScannerAssumption ==
  /\ MAX_READ \in Nat /\ MAX_READ > Header + KeyLen
  /\ StreamLength \in Nat /\ Terminated \in BOOLEAN

VARIABLES kinds,   \* the commands of the stream
          symbols, \* the symbols of the stream
          pos,     \* how many were read
          cut,     \* commands in whose header a read ended
          short,   \* a read was no longer than a header
          zeroed,  \* a read with a zero byte was put behind what was kept
          buf,     \* buf_master_cmd
          queried  \* keys queryKey was called with, by command

scanVars == <<kinds, symbols, pos, cut, short, zeroed, buf, queried>>

Kinds == {"DEL", "SET", "StarSET", "NulSET", "DelSET"}
Text(kind, n) ==
  CASE kind = "DEL" -> DEL(n)         [] kind = "SET" -> SET(n)
    [] kind = "StarSET" -> StarSET(n) [] kind = "NulSET" -> NulSET(n) [] OTHER -> DelSET(n)

ScanInit ==
  /\ kinds \in [1..StreamLength -> Kinds]
  /\ symbols = FlattenSeq([n \in 1..StreamLength |-> Text(kinds[n], n)])
  /\ pos = 0 /\ cut = {} /\ short = FALSE /\ zeroed = FALSE /\ buf = <<>> /\ queried = <<>>

\* strncpy: nothing but zeros after a zero.
strncpy(d) ==
  [i \in DOMAIN d |-> IF \E j \in 1..i : d[j] = Nul THEN Nul ELSE d[i]]

SlipSaveToBuf(d, start, before) == <<>>

\* saveToBuf from index start on, counted from 0; before is the byte in front of
\* the data, which is copied, too, when start is -1.
saveToBuf(d, start, before) ==
  LET s == IF start = -1 THEN <<before>> \o d ELSE SubSeq(d, start + 1, Len(d))
  IN  IF Len(s) < MAX_READ THEN strncpy(s) ELSE <<>>

\* strcmp of the header at index with cmp1: cmp is not terminated, and where the
\* data ends before the header does, old bytes behind it decide.
IsDel(d, index, stale) ==
  /\ Terminated
  /\ index + Header <= Len(d) \/ stale
  /\ \A i \in 1..Header : index + i <= Len(d) => d[index + i][1] = <<"*", "D", "$">>[i]

\* delParser at start: the index it returns (-1: incomplete), what it keeps and
\* the commands it asks for.
delParser(d, start) ==
  LET k == start + Header + 1
      kept == saveToBuf(d, start, Nul)
  IN  IF k >= Len(d) THEN [index |-> -1, kept |-> kept, asked |-> <<>>]
      ELSE IF k + KeyLen <= Len(d)
      THEN [index |-> k + KeyLen + 1, kept |-> <<>>, asked |-> <<d[k + 1][2]>>]
      ELSE [index |-> k + KeyLen + 1, kept |-> kept, asked |-> <<>>]

\* The loop of processInputBuffer.  That the header may be cut is noticed only
\* when all of the data is no longer than it.
processInputBuffer(d, before, stale) ==
  LET loop[index \in 0..(Len(d) + Header + KeyLen + 2)] ==
        LET p == delParser(d, index)
            rest == loop[p.index]
        IN  IF index >= Len(d) THEN [kept |-> <<>>, asked |-> <<>>]
            ELSE IF d[index + 1][1] # "*" THEN loop[index + 1]
            ELSE IF Len(d) <= Header
                 THEN [kept |-> saveToBuf(d, index - 1, before), asked |-> <<>>]
            ELSE IF ~IsDel(d, index, stale) THEN loop[index + Header]
            ELSE IF p.index = -1 THEN p
            ELSE [kept |-> p.kept \o rest.kept, asked |-> p.asked \o rest.asked]
  IN  loop[0]

\* Symbols in front of command n.
Start(n) == Len(FlattenSeq([m \in 1..(n - 1) |-> Text(kinds[m], m)]))

\* readFromMaster in RUNNING_STATE: a read of size symbols.  Behind what was kept
\* it is put with strncpy; by itself it is searched as it came.
ScanRead(size) ==
  LET new == SubSeq(symbols, pos + 1, pos + size)
      merging == buf # <<>> /\ Len(buf) + size < 2 * MAX_READ
      merged == IF merging THEN strncpy(buf) \o strncpy(new) ELSE new
  IN  /\ pos + size <= Len(symbols)
      /\ \E before \in {Nul, Other}, stale \in BOOLEAN :
           LET p == processInputBuffer(merged, before, stale)
           IN  buf' = p.kept /\ queried' = queried \o p.asked
      /\ pos' = pos + size
      /\ cut' = cut \union {n \in DOMAIN kinds : Start(n) < pos' /\ pos' < Start(n) + Header}
      /\ short' = (short \/ size <= Header)
      /\ zeroed' = (zeroed \/ (merging /\ \E i \in DOMAIN new : new[i] = Nul))
      /\ UNCHANGED <<kinds, symbols>>

ScanNext == \E n \in 1..MAX_READ : ScanRead(n)

ScanSpec == ScanInit /\ [][ScanNext]_scanVars

-----------------------------------------------------------------------------
(* Properties *)

\* Where the bytes of a DEL begin in command n, which is one or holds them.
DelStart(n) == Start(n) + IF kinds[n] = "DelSET" THEN 3 ELSE 0

\* processInputBuffer asks for the keys of DEL commands, which are in the stream
\* as commands or as the bytes of a value, and for nothing else, when all of the
\* key has been read, in order and once each.  It misses a DEL only if a read was
\* no longer than its header, a read ended inside its header, a value with a "*"
\* made it jump over the header, or a zero byte in a read that was put behind
\* what was kept hid the rest of that read.
FindsUncutDels ==
  /\ \A i \in DOMAIN queried :
       kinds[queried[i]] \in {"DEL", "DelSET"} /\ DelStart(queried[i]) + Header + 1 + KeyLen <= pos
  /\ \A i, j \in DOMAIN queried : i < j => queried[i] < queried[j]
  /\ Terminated /\ ~short /\ ~zeroed /\ (\A m \in DOMAIN kinds : kinds[m] \notin {"StarSET", "DelSET"}) =>
       \A n \in DOMAIN kinds \ cut :
         kinds[n] = "DEL" /\ Start(n) + Len(DEL(n)) <= pos => \E i \in DOMAIN queried : queried[i] = n
=============================================================================
