------------------------------- MODULE Routing ------------------------------
(***************************************************************************)
(* Where a value is filed and where a client looks for it.  Three programs *)
(* compute host and path of a key for themselves: the proxy picks the      *)
(* server (store.c), the file server the directories (hash.c, called from  *)
(* writeData.lua), the Java client both (IcebergClient.java).              *)
(*                                                                         *)
(* A key is a sequence of characters; Special are those that are escaped   *)
(* in a URL.  The sum of the bytes of an MD5 digest is any function of     *)
(* the string: a behaviour chooses one of the family Digest by its seed.   *)
(***************************************************************************)
EXTENDS Integers, Sequences, FiniteSets, SequencesExt

CONSTANTS Keys,      \* sequences of characters; characters are numbers
          Special,   \* characters that are escaped
          Escape,    \* the escape sign, which is not in any key
          Base,      \* 10
          Slot,      \* directories per level: slot and dir_num, 1000
          Pairs,     \* file servers: master and backup of every pair
          Seeds,     \* hash functions
          Digest(_, _),  \* the sum of the bytes of the digest, by seed and string
          MaxSaves   \* bound: values saved

Sides == {"master", "slave"}
Hosts == Sides \X (1..Pairs)

\* The escape sign does not occur in a key, and a sum of bytes is a number, for
\* a key and for a key with the digits of one or two levels.
RoutingAssumption ==
  /\ Base \in Nat /\ Base >= 2 /\ Pairs \in Nat \ {0} /\ MaxSaves \in Nat
  /\ \A k \in Keys : k \in Seq(Nat) /\ \A i \in DOMAIN k : k[i] # Escape
  /\ \A s \in Seeds, k \in Keys, d \in UNION {[1..n -> 0..(Base - 1)] : n \in {0, 3, 6}} :
       Digest(s, k \o d) \in Nat

VARIABLES seed,    \* the hash function
          files,   \* per server the files: <<directories, name>> -> version, 0: none
          saved,   \* per key the last version given to saveValue
          stored,  \* per key and side: has the last post been stored?
          versions \* how many were given to it so far

routingVars == <<seed, files, saved, stored, versions>>

-----------------------------------------------------------------------------
(* myhash.c and IcebergClient.hash *)

\* hash: the sum of the bytes of the digest, modulo slot.
hash(str, slot) == Digest(seed, str) % slot

\* num in three digits at least, as String.format("%03d") writes it.
Decimal(n) ==
  LET digits[m \in 0..n] == IF m < Base THEN <<m>> ELSE Append(digits[m \div Base], m % Base)
  IN  digits[n]
Format03d(n) == LET d == Decimal(n) IN [i \in 1..(3 - Len(d)) |-> 0] \o d

\* The inner loop of writeGetPath and readGetPath: one digit for every power of
\* ten below slot.
Digits(num, slot) ==
  LET digits[anchor \in 0..slot] ==
        LET a == anchor \div Base
        IN  [n \in 0..num |-> IF anchor <= 1 THEN <<>> ELSE <<n \div a>> \o digits[a][n % a]]
  IN  digits[slot][num]

\* The outer loop: the digits of a level are appended to the key before the
\* next level is computed.
SlipGetPath(key) ==
  LET d1 == Digits(hash(key, Slot), Slot)
      d2 == Digits(hash(key \o d1, Slot), Slot)
  IN  <<d1, d2, Digits(hash(key \o d2, Slot), Slot)>>

writeGetPath(key) ==
  LET d1 == Digits(hash(key, Slot), Slot)
      d2 == Digits(hash(key \o d1, Slot), Slot)
  IN  <<d1, d2, Digits(hash(key \o d1 \o d2, Slot), Slot)>>

\* IcebergClient.getPath without the file name.
ClientPath(key) ==
  LET d1 == Format03d(hash(key, Slot))
      d2 == Format03d(hash(key \o d1, Slot))
  IN  <<d1, d2, Format03d(hash(key \o d1 \o d2, Slot))>>

\* curl_easy_escape and URLEncoder.encode, where they agree: a special
\* character becomes the escape sign and its code.
Encode(key) ==
  FlattenSeq([i \in DOMAIN key |->
                IF key[i] \in Special THEN <<Escape, key[i]>> ELSE <<key[i]>>])

\* ngx.unescape_uri, and what nginx does to the path of a request.
Decode(str) ==
  FlattenSeq([i \in DOMAIN str |-> IF str[i] = Escape THEN <<>> ELSE <<str[i]>>])

-----------------------------------------------------------------------------

Paths == {<<writeGetPath(k), Encode(k)>> : k \in Keys}

RoutingInit ==
  /\ seed \in Seeds
  /\ files = [h \in Hosts |-> [p \in Paths |-> 0]]
  /\ saved = [k \in Keys |-> 0]
  /\ stored = [k \in Keys |-> [s \in Sides |-> FALSE]]
  /\ versions = 0

\* writeData.lua: the directories of the unescaped key, and the key as it came
\* in the request for a name.
writeData(arg_key) == <<writeGetPath(Decode(arg_key)), arg_key>>

\* The pair of servers for a key: host_masters and the backup ht_get returns.
HostIndex(key) == hash(key, Pairs) + 1

\* saveValue: a post to the master and one to its backup.  Either may fail,
\* which is logged and nothing else; posted are the sides that stored the value.
saveValue(k, posted) ==
  /\ versions < MaxSaves
  /\ versions' = versions + 1
  /\ files' = [h \in Hosts |->
                 IF h[1] \in posted /\ h[2] = HostIndex(k)
                 THEN [files[h] EXCEPT ![writeData(Encode(k))] = versions']
                 ELSE files[h]]
  /\ saved' = [saved EXCEPT ![k] = versions']
  /\ stored' = [stored EXCEPT ![k] = [s \in Sides |-> s \in posted]]
  /\ UNCHANGED seed

\* What a client gets that asks for the URL of getPosition: getHost picks masters
\* or slaves at random, nginx serves the file the path stands for, 0 if there is
\* none.
getPosition(k, side) ==
  LET h == <<side, hash(k, Pairs) + 1>>
      p == <<ClientPath(k), Decode(Encode(k))>>
  IN  IF p \in Paths THEN files[h][p] ELSE 0

RoutingNext == \E k \in Keys, posted \in SUBSET Sides : saveValue(k, posted)

RoutingSpec == RoutingInit /\ [][RoutingNext]_routingVars

-----------------------------------------------------------------------------
(* Properties *)

Plain(k) == \A i \in DOMAIN k : k[i] \notin Special

\* A client that asks a server which has stored the last value of a key gets that
\* value: the three computations of host and directories agree (store.c, hash.c,
\* IcebergClient.java), for keys that need no escaping and three-digit slots.
ReadersFindValues ==
  Slot = Base * Base * Base =>
    \A k \in Keys, s \in Sides : Plain(k) /\ stored[k][s] => getPosition(k, s) = saved[k]
=============================================================================
