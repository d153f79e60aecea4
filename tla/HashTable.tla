----------------------------- MODULE HashTable ------------------------------
(***************************************************************************)
(* The chained hash table of src/proxy/hash_table.c, in which the proxy    *)
(* keeps the backup of every file server.  A key is the sequence of its    *)
(* characters.  ht_hash starts from an uninitialised variable: what it     *)
(* happens to hold is a parameter chosen at every call.                    *)
(*                                                                         *)
(* The sizes are scaled down and keep their relations: in the program a    *)
(* character is 8 bits and below 255, an unsigned long holds 8 of them and *)
(* the table has 65536 = 2^16 bins (main.c).                               *)
(***************************************************************************)
EXTENDS Integers, Sequences, SequencesExt

CONSTANTS HostKeys, \* server addresses: sequences of characters
          Values,
          Missing,  \* the null pointer ht_get returns
          Radix,    \* 2^8: values of a character
          Width,    \* characters in an unsigned long
          Size,     \* bins
          Garbage   \* what the uninitialised hashval may hold

ULONG_MAX == Radix^Width - 1

TableSizesAssumption == Radix \in Nat \ {0} /\ Width \in Nat \ {0} /\ Size \in Nat \ {0}
HostKeysAssumption == (\A k \in HostKeys : k \in Seq(1..(Radix - 2))) /\ Missing \notin Values
GarbageAssumption == Garbage # {} /\ Garbage \subseteq 0..ULONG_MAX

\* The bins are as many as two characters have values, and divide those of an
\* unsigned long; an address has two characters at least; the uninitialised
\* variable does not happen to stop ht_hash at once.
TailAssumption ==
  /\ Size = Radix * Radix
  /\ Radix^Width \in Nat /\ \E n \in 1..ULONG_MAX : Radix^Width = Size * n
  /\ \A k \in HostKeys : Len(k) >= 2
  /\ ULONG_MAX \notin Garbage

VARIABLE table      \* hashtable->table: the chain of every bin

tableVars == <<table>>

Bins == 0..(Size - 1)
Pair(k, v) == [key |-> k, value |-> v]

\* ht_create.
TableInit == table = [b \in Bins |-> <<>>]

SlipHash(key, hashval) ==
  LET h[i \in 0..Len(key)] ==
        IF i = 0 THEN hashval
        ELSE LET p == h[i - 1]
             IN  IF p < ULONG_MAX THEN (p * (Radix - 1) + key[i]) % (Radix^Width) ELSE p
  IN  h[Len(key)] % Size

\* ht_hash: shift in the characters; the loop stops early at ULONG_MAX.
ht_hash(key, hashval) ==
  LET h[i \in 0..Len(key)] ==
        IF i = 0 THEN hashval
        ELSE LET p == h[i - 1]
             IN  IF p < ULONG_MAX THEN (p * Radix + key[i]) % (Radix^Width) ELSE p
  IN  h[Len(key)] % Size

\* strcmp(a, b) > 0.
Greater(a, b) ==
  \E i \in 1..Len(a) :
    /\ \A j \in 1..(i - 1) : j <= Len(b) /\ a[j] = b[j]
    /\ i > Len(b) \/ a[i] > b[i]

\* Position of the first pair of a chain whose key is not below the given one.
Position(chain, key) ==
  CHOOSE i \in 1..(Len(chain) + 1) :
    /\ \A j \in 1..(i - 1) : Greater(key, chain[j].key)
    /\ i <= Len(chain) => ~Greater(key, chain[i].key)

SlipFound(chain, key) == Position(chain, key) <= Len(chain)

Found(chain, key) ==
  LET i == Position(chain, key) IN i <= Len(chain) /\ chain[i].key = key

\* ht_set: replace the value of the pair or link a new one at its place.
ht_set(key, value, hashval) ==
  LET b == ht_hash(key, hashval)
      i == Position(table[b], key)
  IN  table' = [table EXCEPT ![b] =
                  IF Found(@, key) THEN [@ EXCEPT ![i].value = value]
                  ELSE InsertAt(@, i, Pair(key, value))]

\* ht_get changes nothing.
ht_get(key, hashval) ==
  LET chain == table[ht_hash(key, hashval)]
  IN  IF Found(chain, key) THEN chain[Position(chain, key)].value ELSE Missing

TableNext == \E k \in HostKeys, v \in Values, g \in Garbage : ht_set(k, v, g)

TableSpec == TableInit /\ [][TableNext]_tableVars

-----------------------------------------------------------------------------
(* Properties *)

TableTypeOK == table \in [Bins -> Seq([key : HostKeys, value : Values])]

\* What ht_get finds does not depend on what the uninitialised variable of
\* ht_hash holds: the table has as many bins as two characters have values, so
\* the two last characters decide.
GarbageIrrelevant ==
  \A k \in HostKeys : \A g, h \in Garbage : ht_get(k, g) = ht_get(k, h)

\* What ht_get finds.
Lookups == [k \in HostKeys |-> ht_get(k, CHOOSE g \in Garbage : TRUE)]

\* Together the chains are one map: ht_set changes what ht_get returns for its
\* own key only, also for keys in one bin.
Map == INSTANCE KeyValueMap WITH Keys <- HostKeys, map <- Lookups
ImplementsMap == Map!Spec
=============================================================================
