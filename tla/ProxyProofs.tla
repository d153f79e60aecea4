---------------------------- MODULE ProxyProofs -----------------------------
(***************************************************************************)
(* Proxy for every set of keys and replicas, every queue size and every    *)
(* buffer size: type correctness; for replies that fit one read, that the  *)
(* key queue stays in step with the replies and that no file is overwritten*)
(* with an older value; for replies of any size, that the proxy is         *)
(* transparent to the replication stream and that buf_slave_answer is the  *)
(* beginning of the first reply.                                           *)
(***************************************************************************)
EXTENDS Proxy, NatSets, SequenceTheorems, TLAPS

-----------------------------------------------------------------------------
(* Sequences and replication data.                                         *)

\* A part of a stream read in one go is a stream of the same data.
LEMMA SubSeqIn ==
  ASSUME NEW S, NEW s \in Seq(S), NEW m \in Nat \ {0}, NEW n \in 0 .. Len(s)
  PROVE  SubSeq(s, m, n) \in Seq(S)
  <1>1. \A i \in m .. n : i \in 1 .. Len(s)
    OBVIOUS
  <1>2. \A i \in m .. n : s[i] \in S
    BY <1>1, ElementOfSeq
  <1>3. m \in Int /\ n \in Int
    OBVIOUS
  <1>4. QED
    BY <1>2, <1>3, SubSeqProperties

\* Data put behind a stream.
LEMMA ConcatIn ==
  ASSUME NEW S, NEW s \in Seq(S), NEW t \in Seq(S)
  PROVE  s \o t \in Seq(S)
  BY ConcatProperties

\* The write commands, lines and snapshots of the replication link.
LEMMA CommandTypes ==
  /\ \A k \in Keys, v \in 0 .. MaxVer :
       /\ [op |-> "HSET", key |-> k, ver |-> v] \in Commands
       /\ [op |-> "DEL", key |-> k, ver |-> v] \in Commands
  /\ \A l \in Lines : [op |-> l] \in Commands
  /\ \A d \in DB : [op |-> "RDB", db |-> d] \in Commands
  BY DEF Commands

\* What a DEL or an HSET in the stream looks like.
LEMMA WriteFields ==
  ASSUME NEW c \in Commands, c.op \in {"HSET", "DEL"}
  PROVE  c.key \in Keys /\ c.ver \in 0 .. MaxVer
  BY DEF Commands, Lines

\* The slave's data set stays one whatever is applied to it.
LEMMA ApplyType ==
  ASSUME NEW d \in DB, NEW c \in Commands
  PROVE  Apply(d, c) \in DB
  <1>1. CASE c.op = "HSET"
    BY <1>1, WriteFields DEF Apply, DB
  <1>2. CASE c.op = "DEL"
    <2>1. c.key \in Keys /\ 0 \in 0 .. MaxVer
      BY <1>2, WriteFields, ProxyAssumption
    <2>2. Apply(d, c) = [d EXCEPT ![c.key] = 0]
      BY <1>2 DEF Apply
    <2>3. QED
      BY <2>1, <2>2 DEF DB
  <1>3. CASE c.op = "RDB"
    <2>1. c.db \in DB
      BY <1>3 DEF Commands, Lines
    <2>2. QED
      BY <1>3, <2>1 DEF Apply
  <1>4. CASE c.op \notin {"HSET", "DEL", "RDB"}
    BY <1>4 DEF Apply
  <1>5. QED
    BY <1>1, <1>2, <1>3, <1>4

-----------------------------------------------------------------------------
(* Type correctness.                                                       *)

\* A reset, whatever sockets were open.
LEMMA CloseFdType ==
  ASSUME LinkType, NEW f \in [Fds -> FdStates], closeFd(f)
  PROVE  LinkType'
  <1>1. feeding' \in BOOLEAN
    BY DEF closeFd, LoseSockets
  <1>2. fd' \in [Fds -> FdStates]
    BY DEF closeFd, FdStates
  <1>3. /\ unread' \in Nat /\ off' \in Nat
        /\ have' \in 0 .. MAX_READ - 1
        /\ resets' \in 0 .. MaxResets
    BY ProxyAssumption DEF LinkType, closeFd, LoseSockets
  <1>4. /\ m2p' = << >> /\ queries' = << >> /\ answers' = << >> /\ queue' = << >>
        /\ p2m' \in Requests /\ s2p' \in Requests
        /\ state' = "START"
    BY DEF closeFd, LoseSockets, Requests
  <1>5. QED
    BY <1>1, <1>2, <1>3, <1>4 DEF LinkType

\* The end of the process.
LEMMA ExitType ==
  ASSUME LinkType, Exit
  PROVE  LinkType' /\ HandlerType'
  <1>1. feeding' \in BOOLEAN
    BY DEF Exit, LoseSockets
  <1>2. fd' \in [Fds -> FdStates]
    BY DEF Exit, FdStates
  <1>3. /\ unread' \in Nat /\ off' \in Nat /\ avail' \in Nat
        /\ have' \in 0 .. MAX_READ - 1
        /\ resets' \in 0 .. MaxResets
    BY ProxyAssumption DEF LinkType, Exit, LoseSockets
  <1>4. /\ m2p' = << >> /\ queries' = << >> /\ answers' = << >> /\ queue' = << >>
        /\ chunk' = << >> /\ todo' = << >>
        /\ p2m' \in Requests /\ s2p' \in Requests
        /\ state' = "START" /\ pc' = "exited"
    BY DEF Exit, LoseSockets, Requests
  <1>5. QED
    BY <1>1, <1>2, <1>3, <1>4 DEF LinkType, HandlerType

\* A failing write, by either of its outcomes.
LEMMA WriteFailsType ==
  ASSUME LinkType, HandlerType, WriteFails
  PROVE  LinkType' /\ HandlerType'
  <1>1. CASE Exit
    BY <1>1, ExitType
  <1>2. CASE ~Exit
    <2>1. closeFd(fd) /\ pc' = "idle" /\ avail' = avail /\ chunk' = << >> /\ todo' = << >>
      BY <1>2 DEF WriteFails
    <2>2. LinkType'
      BY <2>1, CloseFdType DEF LinkType
    <2>3. HandlerType'
      BY <2>1 DEF HandlerType
    <2>4. QED
      BY <2>2, <2>3
  <1>3. QED
    BY <1>1, <1>2

\* Sockets after a reconnection.
LEMMA ConnectType ==
  ASSUME fd \in [Fds -> FdStates]
  PROVE  /\ connectToMaster \in [Fds -> FdStates]
         /\ Reconnect => fd' \in [Fds -> FdStates]
  BY DEF connectToMaster, Reconnect, Fds, FdStates

\* Passing data on to the slave, and failing to.
LEMMA ForwardType ==
  ASSUME p2s \in Seq(Commands), NEW data \in Seq(Commands),
         \/ Forward(data)
         \/ \E n \in 0 .. Len(data) : p2s' = p2s \o SubSeq(data, 1, n)
  PROVE  p2s' \in Seq(Commands)
  <1>1. p2s \o data \in Seq(Commands)
    BY ConcatIn
  <1>2. \A n \in 0 .. Len(data) : p2s \o SubSeq(data, 1, n) \in Seq(Commands)
    <2>1. \A n \in 0 .. Len(data) : SubSeq(data, 1, n) \in Seq(Commands)
      BY SubSeqIn
    <2>2. QED
      BY <2>1, ConcatIn
  <1>3. QED
    BY <1>1, <1>2 DEF Forward

\* The master feeding its link.
LEMMA FeedType ==
  ASSUME m2p \in Seq(Commands), NEW c \in Commands, Feed(c)
  PROVE  m2p' \in Seq(Commands)
  <1>1. Append(m2p, c) \in Seq(Commands)
    OBVIOUS
  <1>2. QED
    BY <1>1 DEF Feed

\* The master writes, deletes and answers a sync request.
LEMMA MasterType ==
  ASSUME TypeOK,
         \/ \E k \in Keys : MasterWrite(k) \/ MasterDel(k)
         \/ MasterSync
  PROVE  TypeOK'
  <1>0. LinkType /\ HandlerType /\ StoreType
    BY DEF TypeOK
  <1>1. ASSUME NEW k \in Keys, MasterWrite(k)
        PROVE  TypeOK'
    <2>1. clock' \in 0 .. MaxVer /\ mdb' \in DB
      BY <1>0, <1>1, ProxyAssumption DEF MasterWrite, StoreType, DB
    <2>2. m2p' \in Seq(Commands)
      <3>1. [op |-> "HSET", key |-> k, ver |-> clock'] \in Commands
        BY <2>1, CommandTypes
      <3>2. QED
        BY <1>0, <1>1, <3>1, FeedType DEF MasterWrite, LinkType
    <2>3. LinkType' /\ HandlerType' /\ StoreType'
      BY <1>0, <1>1, <2>1, <2>2
      DEF MasterWrite, LinkType, HandlerType, StoreType, queryVars, scanVars, parseVars
    <2>4. QED
      BY <2>3 DEF TypeOK
  <1>2. ASSUME NEW k \in Keys, MasterDel(k)
        PROVE  TypeOK'
    <2>1. mdb' \in DB /\ mdb[k] \in 0 .. MaxVer
      BY <1>0, <1>2, ProxyAssumption DEF MasterDel, StoreType, DB
    <2>2. m2p' \in Seq(Commands)
      <3>1. [op |-> "DEL", key |-> k, ver |-> mdb[k]] \in Commands
        BY <2>1, CommandTypes
      <3>2. QED
        BY <1>0, <1>2, <3>1, FeedType DEF MasterDel, LinkType
    <2>3. LinkType' /\ HandlerType' /\ StoreType'
      BY <1>0, <1>2, <2>1, <2>2
      DEF MasterDel, LinkType, HandlerType, StoreType, queryVars, scanVars, parseVars
    <2>4. QED
      BY <2>3 DEF TypeOK
  <1>3. ASSUME MasterSync
        PROVE  TypeOK'
    <2>1. << >> \in Seq(Commands) /\ << [op |-> "FULLRESYNC"] >> \in Seq(Commands)
      BY CommandTypes DEF Lines
    <2>2. << [op |-> "HEADER"], [op |-> "RDB", db |-> mdb] >> \in Seq(Commands)
      BY <1>0, CommandTypes DEF Lines, StoreType
    <2>3. Append(m2p, [op |-> "ERR"]) \in Seq(Commands)
      BY <1>0, CommandTypes DEF Lines, LinkType
    <2>4. m2p \o (IF p2m = "PSYNC" THEN << [op |-> "FULLRESYNC"] >> ELSE << >>)
              \o << [op |-> "HEADER"], [op |-> "RDB", db |-> mdb] >> \in Seq(Commands)
      BY <1>0, <2>1, <2>2, ConcatIn DEF LinkType
    <2>5. m2p' \in Seq(Commands) /\ feeding' \in BOOLEAN /\ p2m' \in Requests
      BY <1>0, <1>3, <2>3, <2>4 DEF MasterSync, LinkType, Requests
    <2>6. LinkType' /\ HandlerType' /\ StoreType'
      BY <1>0, <1>3, <2>5
      DEF MasterSync, LinkType, HandlerType, StoreType, queryVars, scanVars, parseVars
    <2>7. QED
      BY <2>6 DEF TypeOK
  <1>4. QED
    BY <1>1, <1>2, <1>3

\* The slave executes replication data and answers queries.
LEMMA SlaveType ==
  ASSUME TypeOK, SlaveApply \/ SlaveAnswer
  PROVE  TypeOK'
  <1>0. LinkType /\ HandlerType /\ StoreType
    BY DEF TypeOK
  <1>1. ASSUME SlaveApply
        PROVE  TypeOK'
    <2>1. Head(p2s) \in Commands /\ p2s' \in Seq(Commands)
      BY <1>0, <1>1 DEF SlaveApply, StoreType
    <2>2. sdb' \in DB
      BY <1>0, <1>1, <2>1, ApplyType DEF SlaveApply, StoreType
    <2>3. LinkType' /\ HandlerType' /\ StoreType'
      BY <1>0, <1>1, <2>1, <2>2
      DEF SlaveApply, LinkType, HandlerType, StoreType, masterVars, linkVars,
          queryVars, scanVars, parseVars
    <2>4. QED
      BY <2>3 DEF TypeOK
  <1>2. ASSUME SlaveAnswer
        PROVE  TypeOK'
    <2>1. Head(queries) \in Queries /\ queries' \in Seq(Queries)
      BY <1>0, <1>2 DEF SlaveAnswer, LinkType
    <2>2. PICK err \in BOOLEAN, s \in Sizes \union {1} :
            /\ answers' = Append(answers,
                 [key |-> Head(queries).key, del |-> Head(queries).del,
                  ver |-> IF err THEN 0 ELSE sdb[Head(queries).key],
                  err |-> err, size |-> s])
            /\ unread' = unread + s
      BY <1>2 DEF SlaveAnswer
    <2> DEFINE v == IF err THEN 0 ELSE sdb[Head(queries).key]
    <2>3. Head(queries).key \in Keys /\ Head(queries).del \in 0 .. MaxVer
      BY <2>1 DEF Queries
    <2>4. v \in 0 .. MaxVer
      BY <1>0, <2>3, ProxyAssumption DEF StoreType, DB
    <2>5. s \in Nat \ {0}
      BY ProxyAssumption
    <2> HIDE DEF v
    <2>6. [key |-> Head(queries).key, del |-> Head(queries).del, ver |-> v,
           err |-> err, size |-> s] \in Answers
      BY <2>3, <2>4, <2>5 DEF Answers
    <2>7. answers' \in Seq(Answers)
      BY <1>0, <2>2, <2>6 DEF LinkType, v
    <2>8. unread' \in Nat
      BY <1>0, <2>2, <2>5 DEF LinkType
    <2>9. LinkType' /\ HandlerType' /\ StoreType'
      BY <1>0, <1>2, <2>1, <2>7, <2>8
      DEF SlaveAnswer, LinkType, HandlerType, StoreType, masterVars, linkVars,
          scanVars, parseVars
    <2>10. QED
      BY <2>9 DEF TypeOK
  <1>3. QED
    BY <1>1, <1>2

\* The handlers that open and lose connections.
LEMMA ConnectionType ==
  ASSUME TypeOK, timeEvent \/ acceptTcpHandler \/ readDataFails \/ readFromSlave
  PROVE  TypeOK'
  <1>0. LinkType /\ HandlerType /\ StoreType
    BY DEF TypeOK
  <1>1. ASSUME timeEvent
        PROVE  TypeOK'
    <2>1. StoreType'
      BY <1>0, <1>1 DEF timeEvent, StoreType, masterVars
    <2>2. CASE Exit
      BY <1>0, <2>1, <2>2, ExitType DEF TypeOK
    <2>3. CASE ~Exit
      <3>1. fd' \in [Fds -> FdStates]
        BY <1>0, <1>1, <2>3, ConnectType DEF timeEvent, LinkType
      <3>2. LinkType' /\ HandlerType'
        BY <1>0, <1>1, <2>3, <3>1
        DEF timeEvent, LinkType, HandlerType, masterVars, linkVars, queryVars,
            scanVars, parseVars
      <3>3. QED
        BY <2>1, <3>2 DEF TypeOK
    <2>4. QED
      BY <2>2, <2>3
  <1>2. ASSUME acceptTcpHandler
        PROVE  TypeOK'
    <2>1. HandlerType'
      BY <1>0, <1>2 DEF acceptTcpHandler, HandlerType, scanVars
    <2>2. StoreType'
      <3>1. p2s' = << >> \/ p2s' = p2s
        BY <1>2 DEF acceptTcpHandler
      <3>2. UNCHANGED << mdb, clock, sdb, store, bulk >>
        BY <1>2 DEF acceptTcpHandler
      <3>3. << >> \in Seq(Commands) /\ p2s \in Seq(Commands)
        BY <1>0, EmptySeq DEF StoreType
      <3>4. p2s' \in Seq(Commands)
        BY <3>1, <3>3
      <3>5. QED
        BY <1>0, <3>2, <3>4 DEF StoreType
    <2>3. [fd EXCEPT !["client"] = "open"] \in [Fds -> FdStates]
      BY <1>0 DEF LinkType, Fds, FdStates
    <2>4. CASE closeFd([fd EXCEPT !["client"] = "open"])
      BY <1>0, <2>1, <2>2, <2>3, <2>4, CloseFdType DEF TypeOK
    <2>5. CASE ~closeFd([fd EXCEPT !["client"] = "open"])
      <3>1. fd' \in [Fds -> FdStates] /\ s2p' \in Requests
        BY <1>0, <1>2, <2>5 DEF acceptTcpHandler, LinkType, Fds, FdStates, Requests
      <3>2. UNCHANGED << feeding, m2p, p2m, queryVars, state, queue, have, resets >>
        BY <1>2, <2>5 DEF acceptTcpHandler
      <3>3. LinkType'
        BY <1>0, <3>1, <3>2 DEF LinkType, queryVars
      <3>4. QED
        BY <2>1, <2>2, <3>3 DEF TypeOK
    <2>6. QED
      BY <2>4, <2>5
  <1>3. ASSUME readDataFails
        PROVE  TypeOK'
    <2>1. LinkType'
      BY <1>0, <1>3, CloseFdType DEF readDataFails, LinkType
    <2>2. HandlerType' /\ StoreType'
      BY <1>0, <1>3 DEF readDataFails, HandlerType, StoreType, scanVars
    <2>3. QED
      BY <2>1, <2>2 DEF TypeOK
  <1>4. ASSUME readFromSlave
        PROVE  TypeOK'
    <2>1. StoreType'
      BY <1>0, <1>4 DEF readFromSlave, StoreType
    <2>2. CASE WriteFails
      BY <1>0, <2>1, <2>2, WriteFailsType DEF TypeOK
    <2>3. CASE ~WriteFails
      <3>1. LinkType' /\ HandlerType'
        BY <1>0, <1>4, <2>3
        DEF readFromSlave, LinkType, HandlerType, queryVars, scanVars, parseVars,
            Requests
      <3>2. QED
        BY <2>1, <3>1 DEF TypeOK
    <2>4. QED
      BY <2>2, <2>3
  <1>5. QED
    BY <1>1, <1>2, <1>3, <1>4

\* readFromMaster in its four states.
LEMMA MasterLinkType ==
  ASSUME TypeOK,
         ReadSyncHeader \/ ReadSyncPayload \/ ReadBeforeSync \/ ReadCommands
  PROVE  TypeOK'
  <1>0. LinkType /\ HandlerType /\ StoreType
    BY DEF TypeOK
  <1>a. m2p # << >> => m2p[1] \in Commands /\ << m2p[1] >> \in Seq(Commands)
    BY <1>0 DEF LinkType
  <1>b. \A n \in 0 .. Len(m2p) : /\ SubSeq(m2p, 1, n) \in Seq(Commands)
                                 /\ SubSeq(m2p, n + 1, Len(m2p)) \in Seq(Commands)
    BY <1>0, SubSeqIn DEF LinkType
  <1>1. ASSUME ReadSyncHeader
        PROVE  TypeOK'
    <2>0. m2p # << >> /\ UNCHANGED << mdb, clock, sdb, store >>
      BY <1>1 DEF ReadSyncHeader
    <2>1. CASE /\ Exit
               /\ p2s' = p2s \o << m2p[1] >>
               /\ UNCHANGED bulk
      <3>1. p2s' \in Seq(Commands)
        BY <1>0, <1>a, <2>0, <2>1, ConcatIn DEF StoreType
      <3>2. StoreType'
        BY <1>0, <2>0, <2>1, <3>1 DEF StoreType
      <3>3. QED
        BY <1>0, <2>1, <3>2, ExitType DEF TypeOK
    <2>2. CASE ForwardFails(<< m2p[1] >>) /\ UNCHANGED bulk
      <3>1. p2s' \in Seq(Commands)
        BY <1>0, <1>a, <2>0, <2>2, ForwardType DEF StoreType, ForwardFails
      <3>2. StoreType'
        BY <1>0, <2>0, <2>2, <3>1 DEF StoreType
      <3>3. LinkType' /\ HandlerType'
        BY <1>0, <2>2, WriteFailsType DEF ForwardFails
      <3>4. QED
        BY <3>2, <3>3 DEF TypeOK
    <2>3. CASE \E n \in {1, 2} :
                 /\ n = 2 => Len(m2p) > 1 /\ m2p[1].op = "RDB"
                 /\ m2p' = SubSeq(m2p, n + 1, Len(m2p))
                 /\ Forward(SubSeq(m2p, 1, n))
                 /\ IF fd["client"] = "open"
                    THEN state' = "SYNC" /\ bulk' = IF m2p[1].op = "HEADER" THEN 1 ELSE 0
                    ELSE UNCHANGED << state, bulk >>
                 /\ UNCHANGED << feeding, p2m, s2p, queryVars, fd, queue, pc, scanVars,
                                 parseVars, resets >>
      <3>1. PICK n \in {1, 2} :
                 /\ n = 2 => Len(m2p) > 1
                 /\ m2p' = SubSeq(m2p, n + 1, Len(m2p))
                 /\ Forward(SubSeq(m2p, 1, n))
        BY <2>3
      <3>2. n \in 0 .. Len(m2p)
        BY <1>0, <2>0, <3>1 DEF LinkType
      <3>3. m2p' \in Seq(Commands) /\ SubSeq(m2p, 1, n) \in Seq(Commands)
        BY <1>b, <3>1, <3>2
      <3>4. p2s' \in Seq(Commands)
        BY <1>0, <3>1, <3>3, ForwardType DEF StoreType
      <3>5. state' \in {state, "SYNC"} /\ bulk' \in {bulk, 0, 1}
        BY <2>3
      <3>6. LinkType' /\ HandlerType'
        BY <1>0, <2>3, <3>3, <3>5
        DEF LinkType, HandlerType, queryVars, scanVars, parseVars
      <3>7. StoreType'
        BY <1>0, <2>0, <3>4, <3>5 DEF StoreType
      <3>8. QED
        BY <3>6, <3>7 DEF TypeOK
    <2>4. QED
      BY <1>1, <2>1, <2>2, <2>3 DEF ReadSyncHeader
  <1>2. ASSUME ReadSyncPayload
        PROVE  TypeOK'
    <2>0. UNCHANGED << mdb, clock, sdb, store >>
      BY <1>2 DEF ReadSyncPayload
    <2>1. CASE m2p # << >> /\ ForwardFails(<< m2p[1] >>) /\ UNCHANGED bulk
      <3>1. p2s' \in Seq(Commands)
        BY <1>0, <1>a, <2>1, ForwardType DEF StoreType, ForwardFails
      <3>2. StoreType'
        BY <1>0, <2>0, <2>1, <3>1 DEF StoreType
      <3>3. LinkType' /\ HandlerType'
        BY <1>0, <2>1, WriteFailsType DEF ForwardFails
      <3>4. QED
        BY <3>2, <3>3 DEF TypeOK
    <2>2. CASE /\ m2p # << >>
               /\ m2p' = Tail(m2p)
               /\ Forward(<< m2p[1] >>)
               /\ IF fd["client"] = "open"
                  THEN state' = "RUNNING" /\ bulk' = 0
                  ELSE UNCHANGED << state, bulk >>
               /\ UNCHANGED << feeding, p2m, s2p, queryVars, fd, queue, pc, scanVars,
                               parseVars, resets >>
      <3>1. m2p' \in Seq(Commands)
        BY <1>0, <2>2 DEF LinkType
      <3>2. p2s' \in Seq(Commands)
        BY <1>0, <1>a, <2>2, ForwardType DEF StoreType
      <3>3. state' \in {state, "RUNNING"} /\ bulk' \in {bulk, 0}
        BY <2>2
      <3>4. LinkType' /\ HandlerType'
        BY <1>0, <2>2, <3>1, <3>3
        DEF LinkType, HandlerType, queryVars, scanVars, parseVars
      <3>5. StoreType'
        BY <1>0, <2>0, <3>2, <3>3 DEF StoreType
      <3>6. QED
        BY <3>4, <3>5 DEF TypeOK
    <2>3. CASE /\ state' = "RUNNING"
               /\ UNCHANGED << feeding, linkVars, queryVars, fd, queue, pc, scanVars,
                               parseVars, resets, p2s, bulk >>
      <3>1. LinkType' /\ HandlerType' /\ StoreType'
        BY <1>0, <2>0, <2>3
        DEF LinkType, HandlerType, StoreType, linkVars, queryVars, scanVars, parseVars
      <3>2. QED
        BY <3>1 DEF TypeOK
    <2>4. QED
      BY <1>2, <2>1, <2>2, <2>3 DEF ReadSyncPayload
  <1>3. ASSUME ReadBeforeSync
        PROVE  TypeOK'
    <2>0. UNCHANGED << mdb, clock, sdb, store, bulk >>
      BY <1>3 DEF ReadBeforeSync
    <2>1. PICK n \in 1 .. Len(m2p) :
            \/ /\ m2p' = SubSeq(m2p, n + 1, Len(m2p))
               /\ Forward(SubSeq(m2p, 1, n))
               /\ state' \in {state, "SYNC_START"}
               /\ UNCHANGED << feeding, p2m, s2p, queryVars, fd, queue, pc, scanVars,
                               parseVars, resets >>
            \/ ForwardFails(SubSeq(m2p, 1, n))
      BY <1>3 DEF ReadBeforeSync
    <2>2. SubSeq(m2p, 1, n) \in Seq(Commands) /\ SubSeq(m2p, n + 1, Len(m2p)) \in Seq(Commands)
      <3>1. n \in 0 .. Len(m2p)
        OBVIOUS
      <3>2. QED
        BY <1>b, <3>1
    <2>3. p2s' \in Seq(Commands)
      BY <1>0, <2>1, <2>2, ForwardType DEF StoreType, ForwardFails
    <2>4. StoreType'
      BY <1>0, <2>0, <2>3 DEF StoreType
    <2>5. CASE ForwardFails(SubSeq(m2p, 1, n))
      BY <1>0, <2>4, <2>5, WriteFailsType DEF ForwardFails, TypeOK
    <2>6. CASE ~ForwardFails(SubSeq(m2p, 1, n))
      <3>1. LinkType' /\ HandlerType'
        BY <1>0, <2>1, <2>2, <2>6
        DEF LinkType, HandlerType, queryVars, scanVars, parseVars
      <3>2. QED
        BY <2>4, <3>1 DEF TypeOK
    <2>7. QED
      BY <2>5, <2>6
  <1>4. ASSUME ReadCommands
        PROVE  TypeOK'
    <2>1. PICK n \in 1 .. Len(m2p) : /\ chunk' = SubSeq(m2p, 1, n)
                                     /\ m2p' = SubSeq(m2p, n + 1, Len(m2p))
      BY <1>4 DEF ReadCommands
    <2>2. n \in 0 .. Len(m2p)
      OBVIOUS
    <2>3. chunk' \in Seq(Commands) /\ m2p' \in Seq(Commands)
      BY <1>b, <2>1, <2>2
    <2>4. LinkType' /\ HandlerType' /\ StoreType'
      BY <1>0, <1>4, <2>3
      DEF ReadCommands, LinkType, HandlerType, StoreType, masterVars, queryVars,
          parseVars
    <2>5. QED
      BY <2>4 DEF TypeOK
  <1>5. QED
    BY <1>1, <1>2, <1>3, <1>4

\* The scan of a chunk, the queries it sends and the write that ends it.
LEMMA ScanType ==
  ASSUME TypeOK, ScanDel \/ ScanSkip \/ ForwardChunk
  PROVE  TypeOK'
  <1>0. LinkType /\ HandlerType /\ StoreType
    BY DEF TypeOK
  <1>1. ASSUME ScanDel
        PROVE  TypeOK'
    <2>0. /\ todo # << >>
          /\ Head(todo).op = "DEL"
          /\ queryKey(Head(todo))
          /\ UNCHANGED << mdb, clock, sdb, store, p2s, bulk >>
      BY <1>1 DEF ScanDel
    <2>1. Head(todo) \in Commands /\ Tail(todo) \in Seq(Commands)
      BY <1>0, <2>0 DEF HandlerType
    <2>2. Head(todo).key \in Keys /\ Head(todo).ver \in 0 .. MaxVer
      BY <2>0, <2>1, WriteFields
    <2>3. StoreType'
      BY <1>0, <2>0 DEF StoreType
    <2>4. CASE Exit
      BY <1>0, <2>3, <2>4, ExitType DEF TypeOK
    <2>5. CASE closeFd(fd) /\ todo' = Tail(todo) /\ UNCHANGED << pc, chunk, avail >>
      <3>1. LinkType'
        BY <1>0, <2>5, CloseFdType DEF LinkType
      <3>2. HandlerType'
        BY <1>0, <2>1, <2>5 DEF HandlerType
      <3>3. QED
        BY <2>3, <3>1, <3>2 DEF TypeOK
    <2>6. CASE /\ queries' = Append(queries, [key |-> Head(todo).key, del |-> Head(todo).ver])
               /\ queue' = PushQ(queue, Head(todo).key)
               /\ todo' = Tail(todo)
               /\ UNCHANGED << feeding, linkVars, answers, unread, off, state, fd, have,
                               resets, pc, chunk, avail >>
      <3>1. [key |-> Head(todo).key, del |-> Head(todo).ver] \in Queries
        BY <2>2 DEF Queries
      <3>2. queries' \in Seq(Queries)
        BY <1>0, <2>6, <3>1 DEF LinkType
      <3>3. queue' \in Seq(Keys)
        BY <1>0, <2>2, <2>6 DEF LinkType, PushQ
      <3>4. LinkType' /\ HandlerType'
        BY <1>0, <2>1, <2>6, <3>2, <3>3 DEF LinkType, HandlerType, linkVars
      <3>5. QED
        BY <2>3, <3>4 DEF TypeOK
    <2>7. CASE /\ Reconnect \/ UNCHANGED fd
               /\ todo' = Tail(todo)
               /\ UNCHANGED << feeding, linkVars, queryVars, state, queue, have, resets,
                               pc, chunk, avail >>
      <3>1. fd' \in [Fds -> FdStates]
        BY <1>0, <2>7, ConnectType DEF LinkType
      <3>2. LinkType' /\ HandlerType'
        BY <1>0, <2>1, <2>7, <3>1 DEF LinkType, HandlerType, linkVars, queryVars
      <3>3. QED
        BY <2>3, <3>2 DEF TypeOK
    <2>8. QED
      BY <2>0, <2>4, <2>5, <2>6, <2>7 DEF queryKey
  <1>2. ASSUME ScanSkip
        PROVE  TypeOK'
    <2>1. todo' \in Seq(Commands)
      BY <1>0, <1>2 DEF ScanSkip, HandlerType
    <2>2. LinkType' /\ HandlerType' /\ StoreType'
      BY <1>0, <1>2, <2>1
      DEF ScanSkip, LinkType, HandlerType, StoreType, masterVars, linkVars, queryVars,
          parseVars
    <2>3. QED
      BY <2>2 DEF TypeOK
  <1>3. ASSUME ForwardChunk
        PROVE  TypeOK'
    <2>0. UNCHANGED << mdb, clock, sdb, store, bulk >>
      BY <1>3 DEF ForwardChunk
    <2>1. p2s' \in Seq(Commands)
      <3>1. chunk \in Seq(Commands) /\ p2s \in Seq(Commands)
        BY <1>0 DEF HandlerType, StoreType
      <3>2. \/ Forward(chunk)
            \/ \E n \in 0 .. Len(chunk) : p2s' = p2s \o SubSeq(chunk, 1, n)
            \/ p2s' = p2s
        BY <1>3 DEF ForwardChunk, ForwardFails
      <3>3. QED
        BY <3>1, <3>2, ForwardType
    <2>2. StoreType'
      BY <1>0, <2>0, <2>1 DEF StoreType
    <2>3. CASE ForwardFails(chunk)
      BY <1>0, <2>2, <2>3, WriteFailsType DEF ForwardFails, TypeOK
    <2>4. CASE Exit
      BY <1>0, <2>2, <2>4, ExitType DEF TypeOK
    <2>5. CASE /\ Reconnect
               /\ pc' = "idle"
               /\ chunk' = << >>
               /\ UNCHANGED << feeding, linkVars, queryVars, state, queue, todo, parseVars,
                               resets >>
      <3>1. fd' \in [Fds -> FdStates]
        BY <1>0, <2>5, ConnectType DEF LinkType
      <3>2. LinkType' /\ HandlerType'
        BY <1>0, <2>5, <3>1
        DEF LinkType, HandlerType, linkVars, queryVars, parseVars
      <3>3. QED
        BY <2>2, <3>2 DEF TypeOK
    <2>6. QED
      BY <1>3, <2>3, <2>4, <2>5 DEF ForwardChunk
  <1>4. QED
    BY <1>1, <1>2, <1>3

\* Units taken from the first reply.
LEMMA ConsumeType ==
  ASSUME answers \in Seq(Answers), answers # << >>, off \in Nat, avail \in Nat,
         NEW n \in Int, n <= avail, n \in Nat \/ n = Rest, Consume(n)
  PROVE  /\ answers' \in Seq(Answers)
         /\ off' \in Nat
         /\ avail' \in Nat
  <1>1. avail' \in Nat
    BY DEF Consume
  <1>2. Tail(answers) \in Seq(Answers)
    OBVIOUS
  <1>3. answers' \in Seq(Answers)
    BY <1>2 DEF Consume
  <1>4. off' \in Nat
    BY DEF Consume
  <1>5. QED
    BY <1>1, <1>3, <1>4

\* The first reply, and how much of it is left.
LEMMA FirstReply ==
  ASSUME answers \in Seq(Answers), answers # << >>, off \in Nat
  PROVE  answers[1] \in Answers /\ answers[1].size \in Nat \ {0} /\ Rest \in Int
  <1>1. answers[1] \in Answers
    OBVIOUS
  <1>2. answers[1].size \in Nat \ {0}
    BY <1>1 DEF Answers
  <1>3. QED
    BY <1>1, <1>2 DEF Rest

\* The key at the front of a queue that is not empty, and the queue after it.
LEMMA QueueFront ==
  ASSUME NEW q \in Seq(Keys)
  PROVE  /\ PopQ(q) \in Seq(Keys)
         /\ ~IsEmptyQ(q) => FirstQ(q) \in Keys /\ FirstQ(q) = q[1] /\ PopQ(q) = Tail(q)
  BY DEF PopQ, FirstQ, IsEmptyQ

\* Files written by saveValue hold archives.
LEMMA SaveType ==
  ASSUME store \in [Replicas -> [Keys -> Archives \union {NULL}]],
         NEW k \in Keys, NEW a \in Answers, saveValue(k, a)
  PROVE  store' \in [Replicas -> [Keys -> Archives \union {NULL}]]
  <1>1. [key |-> a.key, del |-> a.del, ver |-> a.ver] \in Archives
    BY DEF Answers, Archives
  <1> DEFINE e == [key |-> a.key, del |-> a.del, ver |-> a.ver]
  <1> HIDE DEF e
  <1>2. e \in Archives
    BY <1>1 DEF e
  <1>3. PICK ok \in SUBSET Replicas :
          store' = [r \in Replicas |-> IF r \in ok THEN [store[r] EXCEPT ![k] = e]
                                       ELSE store[r]]
    BY DEF saveValue, e
  <1>4. \A r \in Replicas : store[r] \in [Keys -> Archives \union {NULL}]
    OBVIOUS
  <1>5. \A r \in Replicas : [store[r] EXCEPT ![k] = e] \in [Keys -> Archives \union {NULL}]
    BY <1>2, <1>4
  <1>6. QED
    BY <1>3, <1>4, <1>5

\* Reading replies and parsing them, complete, cut, or without their start.
LEMMA ParseType ==
  ASSUME TypeOK,
         \/ readDelValue \/ ParseArray \/ PopOnEmpty \/ ParseSimple
         \/ ParseIncomplete \/ UnexpectedData \/ Discard \/ ParseBulkString
  PROVE  TypeOK'
  <1>0. LinkType /\ HandlerType /\ StoreType
    BY DEF TypeOK
  <1>a. /\ answers \in Seq(Answers) /\ off \in Nat /\ avail \in Nat
        /\ unread \in Nat /\ have \in Nat /\ queue \in Seq(Keys)
    BY <1>0, ProxyAssumption DEF LinkType, HandlerType
  <1>1. ASSUME readDelValue
        PROVE  TypeOK'
    <2>1. unread' \in Nat /\ avail' \in Nat /\ have' \in 0 .. MAX_READ - 1
      BY <1>a, <1>1, ProxyAssumption DEF readDelValue
    <2>2. LinkType' /\ HandlerType' /\ StoreType'
      BY <1>0, <1>1, <2>1
      DEF readDelValue, LinkType, HandlerType, StoreType, masterVars, linkVars, scanVars
    <2>3. QED
      BY <2>2 DEF TypeOK
  <1>2. ASSUME ParseArray
        PROVE  TypeOK'
    <2>1. /\ answers # << >> /\ answers[1].size <= avail /\ ~IsEmptyQ(queue)
          /\ saveValue(FirstQ(queue), answers[1])
          /\ queue' = PopQ(queue)
          /\ Consume(answers[1].size)
          /\ pc' \in {"idle", "parse"}
      BY <1>2 DEF ParseArray, InReply, popHandle, Resume
    <2>2. answers[1] \in Answers /\ answers[1].size \in Nat
      BY <1>a, <2>1, FirstReply
    <2>3. answers' \in Seq(Answers) /\ off' \in Nat /\ avail' \in Nat
      BY <1>a, <2>1, <2>2, ConsumeType
    <2>4. FirstQ(queue) \in Keys /\ queue' \in Seq(Keys)
      BY <1>a, <2>1, QueueFront
    <2>5. store' \in [Replicas -> [Keys -> Archives \union {NULL}]]
      BY <1>0, <2>1, <2>2, <2>4, SaveType DEF StoreType
    <2>6. LinkType' /\ HandlerType' /\ StoreType'
      BY <1>0, <1>2, <2>1, <2>3, <2>4, <2>5
      DEF ParseArray, LinkType, HandlerType, StoreType, masterVars, linkVars, scanVars
    <2>7. QED
      BY <2>6 DEF TypeOK
  <1>3. ASSUME PopOnEmpty
        PROVE  TypeOK'
    <2>1. StoreType'
      BY <1>0, <1>3 DEF PopOnEmpty, StoreType
    <2>2. QED
      BY <1>0, <1>3, <2>1, ExitType DEF PopOnEmpty, TypeOK
  <1>4. ASSUME ParseSimple
        PROVE  TypeOK'
    <2>1. /\ answers # << >> /\ answers[1].size <= avail
          /\ queue' = PopQ(queue)
          /\ Consume(answers[1].size)
          /\ pc' \in {"idle", "parse"}
      BY <1>4 DEF ParseSimple, InReply, Resume
    <2>2. answers[1].size \in Nat
      BY <1>a, <2>1, FirstReply
    <2>3. answers' \in Seq(Answers) /\ off' \in Nat /\ avail' \in Nat
      BY <1>a, <2>1, <2>2, ConsumeType
    <2>4. queue' \in Seq(Keys)
      BY <1>a, <2>1, QueueFront
    <2>5. LinkType' /\ HandlerType' /\ StoreType'
      BY <1>0, <1>4, <2>1, <2>3, <2>4
      DEF ParseSimple, LinkType, HandlerType, StoreType, masterVars, linkVars, scanVars
    <2>6. QED
      BY <2>5 DEF TypeOK
  <1>5. ASSUME ParseIncomplete
        PROVE  TypeOK'
    <2>1. have' \in 0 .. MAX_READ - 1 /\ off' \in Nat /\ avail' \in Nat
      BY <1>a, <1>5, ProxyAssumption DEF ParseIncomplete, saveToBuf
    <2>2. LinkType' /\ HandlerType' /\ StoreType'
      BY <1>0, <1>5, <2>1
      DEF ParseIncomplete, LinkType, HandlerType, StoreType, masterVars, linkVars,
          scanVars
    <2>3. QED
      BY <2>2 DEF TypeOK
  <1>6. ASSUME UnexpectedData
        PROVE  TypeOK'
    <2>1. LinkType' /\ HandlerType' /\ StoreType'
      BY <1>0, <1>6
      DEF UnexpectedData, LinkType, HandlerType, StoreType, masterVars, linkVars,
          queryVars, scanVars, parseVars
    <2>2. QED
      BY <2>1 DEF TypeOK
  <1>7. ASSUME Discard
        PROVE  TypeOK'
    <2> DEFINE n == IF avail < Rest THEN avail ELSE Rest
    <2>1. answers # << >> /\ Consume(n) /\ pc' \in {"idle", "discard"}
      BY <1>7 DEF Discard, Resume
    <2>2. Rest \in Int
      BY <1>a, <2>1, FirstReply
    <2>3. n \in Int /\ n <= avail /\ (n \in Nat \/ n = Rest)
      BY <1>a, <2>2
    <2> HIDE DEF n
    <2>4. answers' \in Seq(Answers) /\ off' \in Nat /\ avail' \in Nat
      BY <1>a, <2>1, <2>3, ConsumeType
    <2>5. LinkType' /\ HandlerType' /\ StoreType'
      BY <1>0, <1>7, <2>1, <2>4
      DEF Discard, LinkType, HandlerType, StoreType, masterVars, linkVars, scanVars
    <2>6. QED
      BY <2>5 DEF TypeOK
  <1>8. ASSUME ParseBulkString
        PROVE  TypeOK'
    <2>0. StoreType'
      BY <1>0, <1>8 DEF ParseBulkString, StoreType
    <2>1. CASE Exit
      BY <1>0, <2>0, <2>1, ExitType DEF TypeOK
    <2>2. CASE ~Exit
      <3>1. PICK n \in 1 .. MAX_READ :
              /\ n <= avail
              /\ queue' = PopQ(queue)
              /\ Consume(n)
              /\ pc' \in {"idle", "parse"}
              /\ UNCHANGED << feeding, linkVars, queries, unread, state, fd, scanVars,
                              have, resets >>
        BY <1>8, <2>2 DEF ParseBulkString, Resume
      <3>2. answers # << >> /\ n \in Nat /\ n \in Int
        BY <1>8, ProxyAssumption DEF ParseBulkString, MidReply
      <3>3. answers' \in Seq(Answers) /\ off' \in Nat /\ avail' \in Nat
        BY <1>a, <3>1, <3>2, ConsumeType
      <3>4. queue' \in Seq(Keys)
        BY <1>a, <3>1, QueueFront
      <3>5. LinkType' /\ HandlerType'
        BY <1>0, <3>1, <3>3, <3>4 DEF LinkType, HandlerType, linkVars, scanVars
      <3>6. QED
        BY <2>0, <3>5 DEF TypeOK
    <2>3. QED
      BY <2>1, <2>2
  <1>9. QED
    BY <1>1, <1>2, <1>3, <1>4, <1>5, <1>6, <1>7, <1>8

\* The initial state of main.
LEMMA InitType ==
  ASSUME Init
  PROVE  TypeOK
  <1>1. mdb \in DB /\ sdb \in DB
    BY ProxyAssumption DEF Init, DB
  <1>2. LinkType
    <2>1. feeding \in BOOLEAN
      BY DEF Init
    <2>2. fd \in [Fds -> FdStates]
      BY DEF Init, FdStates
    <2>3. QED
      BY <2>1, <2>2, ProxyAssumption DEF Init, LinkType, Requests
  <1>3. HandlerType /\ StoreType
    BY <1>1, ProxyAssumption DEF Init, HandlerType, StoreType
  <1>4. QED
    BY <1>2, <1>3 DEF TypeOK

\* Every step keeps the types.
LEMMA NextType ==
  ASSUME TypeOK, [Next]_vars
  PROVE  TypeOK'
  <1>1. CASE Environment
    BY <1>1, MasterType, SlaveType DEF Environment
  <1>2. CASE Handler
    BY <1>2, ConnectionType, MasterLinkType, ParseType DEF Handler
  <1>3. CASE Continue
    BY <1>3, ScanType, ParseType DEF Continue
  <1>4. CASE UNCHANGED vars
    <2>1. LinkType' /\ HandlerType' /\ StoreType'
      BY <1>4
      DEF TypeOK, LinkType, HandlerType, StoreType, vars, masterVars, linkVars,
          queryVars, scanVars, parseVars
    <2>2. QED
      BY <2>1 DEF TypeOK
  <1>5. QED
    BY <1>1, <1>2, <1>3, <1>4 DEF Next

\* Type correctness of the proxy, for replies of every size: in particular
\* buf_slave_answer is never filled up to MAX_READ, so that merging it with
\* the next read always fits.
THEOREM TypeCorrect == Spec => []TypeOK
  <1>1. Init => TypeOK
    BY InitType
  <1>2. TypeOK /\ [Next]_vars => TypeOK'
    BY NextType
  <1>3. QED
    BY <1>1, <1>2, PTL DEF Spec

-----------------------------------------------------------------------------
(* The queue in step with the replies, when no reply exceeds one read.     *)

\* QueueMatchesAnswers is not inductive: whether the next reply survives the
\* buffer depends on its size, and a parser that has given up on a read may
\* throw away replies.  The invariant adds that neither is the case.
InStep ==
  /\ QueueMatchesAnswers
  /\ \A i \in 1 .. Len(answers) : answers[i].size <= MAX_READ
  /\ pc # "discard"
  /\ ArchivedUnderOwnKey

\* A step that touches neither the queue, the queries, the replies nor the
\* files.
LEMMA FrameInStep ==
  ASSUME InStep, UNCHANGED << queue, queries, answers, off, store >>, pc' # "discard"
  PROVE  InStep'
  BY DEF InStep, QueueMatchesAnswers, ArchivedUnderOwnKey

\* A reset, or the end of the process: nothing is queued and nothing awaited.
LEMMA ResetInStep ==
  ASSUME InStep, UNCHANGED store, pc' # "discard",
         Exit \/ \E f \in [Fds -> FdStates] : closeFd(f)
  PROVE  InStep'
  <1>1. queue' = << >> /\ queries' = << >> /\ answers' = << >> /\ off' = 0
    BY DEF Exit, closeFd, LoseSockets
  <1>2. QueueMatchesAnswers' /\ \A i \in 1 .. Len(answers') : answers'[i].size <= MAX_READ
    BY <1>1 DEF QueueMatchesAnswers
  <1>3. ArchivedUnderOwnKey'
    BY DEF InStep, ArchivedUnderOwnKey
  <1>4. QED
    BY <1>2, <1>3 DEF InStep

\* The two outcomes of a failing write are resets.
LEMMA WriteFailsInStep ==
  ASSUME TypeOK, InStep, UNCHANGED store, WriteFails
  PROVE  InStep'
  <1>1. fd \in [Fds -> FdStates]
    BY DEF TypeOK, LinkType
  <1>2. pc' # "discard" /\ (Exit \/ closeFd(fd))
    BY DEF WriteFails, Exit
  <1>3. QED
    BY <1>1, <1>2, ResetInStep

\* The slave answers a query: the key moves from the queries to the replies,
\* and the reply fits.
LEMMA AnswerInStep ==
  ASSUME AnswersFit, TypeOK, InStep, SlaveAnswer
  PROVE  InStep'
  <1>0. /\ queue \in Seq(Keys) /\ queries \in Seq(Queries) /\ answers \in Seq(Answers)
        /\ queries # << >>
    BY DEF TypeOK, LinkType, SlaveAnswer
  <1>1. PICK err \in BOOLEAN, s \in Sizes \union {1} :
          answers' = Append(answers,
                 [key |-> Head(queries).key, del |-> Head(queries).del,
                  ver |-> IF err THEN 0 ELSE sdb[Head(queries).key],
                  err |-> err, size |-> s])
    BY DEF SlaveAnswer
  <1> DEFINE a == [key |-> Head(queries).key, del |-> Head(queries).del,
                   ver |-> IF err THEN 0 ELSE sdb[Head(queries).key],
                   err |-> err, size |-> s]
  <1>2. a.key = queries[1].key /\ a.size <= MAX_READ
    <2>1. s <= MAX_READ
      BY ProxyAssumption DEF AnswersFit
    <2>2. Head(queries) = queries[1]
      BY <1>0
    <2>3. QED
      BY <2>1, <2>2
  <1>3. answers' = Append(answers, a)
    BY <1>1
  <1> HIDE DEF a
  <1>4. queries' = Tail(queries) /\ UNCHANGED << queue, off, store, pc >>
    BY DEF SlaveAnswer
  <1>5. /\ Len(answers') = Len(answers) + 1
        /\ answers'[Len(answers) + 1] = a
        /\ \A i \in 1 .. Len(answers) : answers'[i] = answers[i]
    BY <1>0, <1>3
  <1>6. /\ Len(queries') = Len(queries) - 1
        /\ \A i \in 1 .. Len(queries') : queries'[i] = queries[i + 1]
        /\ Len(queries) >= 1
    BY <1>0, <1>4
  <1>7. Len(answers) \in Nat /\ Len(queries) \in Nat
    BY <1>0
  <1>8. /\ off = 0
        /\ Len(queue) = Len(answers) + Len(queries)
        /\ \A i \in 1 .. Len(answers) : queue[i] = answers[i].key
        /\ \A i \in 1 .. Len(queries) : queue[Len(answers) + i] = queries[i].key
    BY DEF InStep, QueueMatchesAnswers
  <1>9. queue[Len(answers) + 1] = a.key
    BY <1>2, <1>6, <1>7, <1>8
  <1>10. \A i \in 1 .. Len(answers') : queue[i] = answers'[i].key
    BY <1>5, <1>7, <1>8, <1>9
  <1>11. \A i \in 1 .. Len(queries') : queue[Len(answers') + i] = queries'[i].key
    <2> SUFFICES ASSUME NEW i \in 1 .. Len(queries')
                 PROVE  queue[Len(answers') + i] = queries'[i].key
      OBVIOUS
    <2>1. i + 1 \in 1 .. Len(queries) /\ Len(answers') + i = Len(answers) + (i + 1)
      BY <1>5, <1>6, <1>7
    <2>2. queue[Len(answers) + (i + 1)] = queries[i + 1].key
      BY <1>8, <2>1
    <2>3. QED
      BY <1>6, <2>1, <2>2
  <1>12. QueueMatchesAnswers'
    <2>1. queue' = queue /\ off' = 0
      BY <1>4, <1>8
    <2>2. Len(queue') = Len(answers') + Len(queries')
      <3>1. Len(queue') = Len(answers) + Len(queries)
        BY <1>8, <2>1
      <3>2. /\ Len(answers') = Len(answers) + 1
            /\ Len(queries') = Len(queries) - 1
        BY <1>5, <1>6
      <3>3. QED
        BY <1>7, <3>1, <3>2
    <2>3. QED
      BY <1>10, <1>11, <2>1, <2>2 DEF QueueMatchesAnswers
  <1>13. \A i \in 1 .. Len(answers') : answers'[i].size <= MAX_READ
    BY <1>2, <1>5, <1>7 DEF InStep
  <1>14. ArchivedUnderOwnKey'
    BY <1>4 DEF InStep, ArchivedUnderOwnKey
  <1>15. QED
    BY <1>4, <1>12, <1>13, <1>14 DEF InStep

\* queryKey sends a query: the key is queued behind all others.
LEMMA QueryInStep ==
  ASSUME TypeOK, InStep, NEW c, c.key \in Keys, ~IsFullQ(queue),
         queries' = Append(queries, [key |-> c.key, del |-> c.ver]),
         queue' = PushQ(queue, c.key),
         UNCHANGED << answers, off, store, pc >>
  PROVE  InStep'
  <1>0. queue \in Seq(Keys) /\ queries \in Seq(Queries) /\ answers \in Seq(Answers)
    BY DEF TypeOK, LinkType
  <1>1. queue' = Append(queue, c.key)
    BY DEF PushQ
  <1>2. /\ Len(queue') = Len(queue) + 1
        /\ queue'[Len(queue) + 1] = c.key
        /\ \A i \in 1 .. Len(queue) : queue'[i] = queue[i]
    BY <1>0, <1>1
  <1> DEFINE e == [key |-> c.key, del |-> c.ver]
  <1>3. e.key = c.key /\ queries' = Append(queries, e)
    OBVIOUS
  <1> HIDE DEF e
  <1>4. /\ Len(queries') = Len(queries) + 1
        /\ queries'[Len(queries) + 1] = e
        /\ \A i \in 1 .. Len(queries) : queries'[i] = queries[i]
    BY <1>0, <1>3
  <1>5. Len(answers) \in Nat /\ Len(queries) \in Nat
    BY <1>0
  <1>6. /\ off = 0
        /\ Len(queue) = Len(answers) + Len(queries)
        /\ \A i \in 1 .. Len(answers) : queue[i] = answers[i].key
        /\ \A i \in 1 .. Len(queries) : queue[Len(answers) + i] = queries[i].key
    BY DEF InStep, QueueMatchesAnswers
  <1>7. \A i \in 1 .. Len(answers) : queue'[i] = answers[i].key
    BY <1>2, <1>5, <1>6
  <1>8. \A i \in 1 .. Len(queries') : queue'[Len(answers) + i] = queries'[i].key
    <2> SUFFICES ASSUME NEW i \in 1 .. Len(queries')
                 PROVE  queue'[Len(answers) + i] = queries'[i].key
      OBVIOUS
    <2>1. CASE i = Len(queries) + 1
      BY <1>2, <1>3, <1>4, <1>5, <1>6, <2>1
    <2>2. CASE i \in 1 .. Len(queries)
      <3>1. Len(answers) + i \in 1 .. Len(queue)
        BY <1>5, <1>6, <2>2
      <3>2. queue'[Len(answers) + i] = queue[Len(answers) + i]
        BY <1>2, <3>1
      <3>3. QED
        BY <1>4, <1>6, <2>2, <3>2
    <2>3. QED
      BY <1>4, <1>5, <2>1, <2>2
  <1>9. QueueMatchesAnswers'
    <2>1. answers' = answers /\ off' = 0
      BY <1>6
    <2>2. Len(queue') = Len(answers') + Len(queries')
      BY <1>2, <1>4, <1>5, <1>6, <2>1
    <2>3. \A i \in 1 .. Len(answers') : queue'[i] = answers'[i].key
      BY <1>7, <2>1
    <2>4. \A i \in 1 .. Len(queries') : queue'[Len(answers') + i] = queries'[i].key
      BY <1>8, <2>1
    <2>5. QED
      BY <2>1, <2>2, <2>3, <2>4 DEF QueueMatchesAnswers
  <1>10. ArchivedUnderOwnKey'
    BY DEF InStep, ArchivedUnderOwnKey
  <1>11. QED
    BY <1>9, <1>10 DEF InStep

\* The first reply is parsed to its end and the first key popped with it.
LEMMA PopInStep ==
  ASSUME TypeOK, InStep, answers # << >>,
         queue' = PopQ(queue), Consume(answers[1].size), UNCHANGED queries
  PROVE  /\ QueueMatchesAnswers'
         /\ \A i \in 1 .. Len(answers') : answers'[i].size <= MAX_READ
         /\ ~IsEmptyQ(queue) /\ FirstQ(queue) = answers[1].key
  <1>0. /\ queue \in Seq(Keys) /\ queries \in Seq(Queries) /\ answers \in Seq(Answers)
    BY DEF TypeOK, LinkType
  <1>1. /\ off = 0
        /\ Len(queue) = Len(answers) + Len(queries)
        /\ \A i \in 1 .. Len(answers) : queue[i] = answers[i].key
        /\ \A i \in 1 .. Len(queries) : queue[Len(answers) + i] = queries[i].key
        /\ \A i \in 1 .. Len(answers) : answers[i].size <= MAX_READ
    BY DEF InStep, QueueMatchesAnswers
  <1>2. answers[1].size \in Nat
    BY <1>0, <1>1, FirstReply
  <1>3. answers' = Tail(answers) /\ off' = 0
    BY <1>1, <1>2 DEF Consume, Rest
  <1>4. Len(answers) \in Nat \ {0} /\ Len(queries) \in Nat
    BY <1>0
  <1>5. /\ Len(answers') = Len(answers) - 1
        /\ \A i \in 1 .. Len(answers') : answers'[i] = answers[i + 1]
    BY <1>0, <1>3
  <1>6. ~IsEmptyQ(queue)
    BY <1>0, <1>1, <1>4 DEF IsEmptyQ
  <1>7. queue' = Tail(queue) /\ FirstQ(queue) = queue[1]
    BY <1>0, <1>6, QueueFront
  <1>8. queue # << >>
    BY <1>6 DEF IsEmptyQ
  <1>9. /\ Len(queue') = Len(queue) - 1
        /\ \A i \in 1 .. Len(queue') : queue'[i] = queue[i + 1]
    BY <1>0, <1>7, <1>8
  <1>10. \A i \in 1 .. Len(answers') : queue'[i] = answers'[i].key
    <2> SUFFICES ASSUME NEW i \in 1 .. Len(answers')
                 PROVE  queue'[i] = answers'[i].key
      OBVIOUS
    <2>1. i + 1 \in 1 .. Len(answers) /\ i \in 1 .. Len(queue')
      BY <1>1, <1>4, <1>5, <1>9
    <2>2. QED
      BY <1>1, <1>5, <1>9, <2>1
  <1>11. \A i \in 1 .. Len(queries') : queue'[Len(answers') + i] = queries'[i].key
    <2> SUFFICES ASSUME NEW i \in 1 .. Len(queries)
                 PROVE  queue'[Len(answers') + i] = queries[i].key
      OBVIOUS
    <2>1. /\ Len(answers') + i \in 1 .. Len(queue')
          /\ (Len(answers') + i) + 1 = Len(answers) + i
      BY <1>1, <1>4, <1>5, <1>9
    <2>2. queue'[Len(answers') + i] = queue[Len(answers) + i]
      BY <1>9, <2>1
    <2>3. QED
      BY <1>1, <2>2
  <1>12. QueueMatchesAnswers'
    <2>1. Len(queue') = Len(answers') + Len(queries')
      BY <1>1, <1>4, <1>5, <1>9
    <2>2. QED
      BY <1>3, <1>10, <1>11, <2>1 DEF QueueMatchesAnswers
  <1>13. \A i \in 1 .. Len(answers') : answers'[i].size <= MAX_READ
    <2> SUFFICES ASSUME NEW i \in 1 .. Len(answers')
                 PROVE  answers'[i].size <= MAX_READ
      OBVIOUS
    <2>1. i + 1 \in 1 .. Len(answers)
      BY <1>4, <1>5
    <2>2. QED
      BY <1>1, <1>5, <2>1
  <1>14. FirstQ(queue) = answers[1].key
    BY <1>1, <1>4, <1>7
  <1>15. QED
    BY <1>6, <1>12, <1>13, <1>14

\* A complete reply is filed under the key it belongs to.
LEMMA ArrayInStep ==
  ASSUME TypeOK, InStep, ParseArray
  PROVE  InStep'
  <1>1. /\ answers # << >>
        /\ saveValue(FirstQ(queue), answers[1])
        /\ queue' = PopQ(queue)
        /\ Consume(answers[1].size)
        /\ UNCHANGED queries
        /\ pc' # "discard"
    BY DEF ParseArray, InReply, popHandle, Resume
  <1>2. /\ QueueMatchesAnswers'
        /\ \A i \in 1 .. Len(answers') : answers'[i].size <= MAX_READ
        /\ FirstQ(queue) = answers[1].key
    BY <1>1, PopInStep
  <1>3. ArchivedUnderOwnKey'
    <2> DEFINE k == answers[1].key
               e == [key |-> k, del |-> answers[1].del, ver |-> answers[1].ver]
    <2>1. PICK ok \in SUBSET Replicas :
            store' = [r \in Replicas |-> IF r \in ok THEN [store[r] EXCEPT ![k] = e]
                                         ELSE store[r]]
      BY <1>1, <1>2 DEF saveValue
    <2>2. e.key = k
      OBVIOUS
    <2> HIDE DEF e, k
    <2>3. \A r \in Replicas, x \in Keys : store[r][x] # NULL => store[r][x].key = x
      BY DEF InStep, ArchivedUnderOwnKey
    <2>4. \A r \in Replicas : store[r] \in [Keys -> Archives \union {NULL}]
      BY DEF TypeOK, StoreType
    <2>5. ASSUME NEW r \in Replicas, NEW x \in Keys, store'[r][x] # NULL
          PROVE  store'[r][x].key = x
      <3>1. CASE r \in ok /\ x = k
        <4>1. store'[r][x] = e
          BY <2>1, <2>4, <3>1
        <4>2. QED
          BY <2>2, <3>1, <4>1
      <3>2. CASE ~(r \in ok /\ x = k)
        <4>1. store'[r][x] = store[r][x]
          BY <2>1, <2>4, <3>2
        <4>2. QED
          BY <2>3, <2>5, <4>1
      <3>3. QED
        BY <3>1, <3>2
    <2>6. QED
      BY <2>5 DEF ArchivedUnderOwnKey
  <1>4. QED
    BY <1>1, <1>2, <1>3 DEF InStep

\* An error reply costs its own key and no other.
LEMMA SimpleInStep ==
  ASSUME TypeOK, InStep, ParseSimple
  PROVE  InStep'
  <1>1. /\ answers # << >>
        /\ queue' = PopQ(queue)
        /\ Consume(answers[1].size)
        /\ UNCHANGED << queries, store >>
        /\ pc' # "discard"
    BY DEF ParseSimple, InReply, Resume
  <1>2. /\ QueueMatchesAnswers'
        /\ \A i \in 1 .. Len(answers') : answers'[i].size <= MAX_READ
    BY <1>1, PopInStep
  <1>3. ArchivedUnderOwnKey'
    BY <1>1 DEF InStep, ArchivedUnderOwnKey
  <1>4. QED
    BY <1>1, <1>2, <1>3 DEF InStep

\* A reply that is cut by a read is kept whole: it is shorter than MAX_READ.
LEMMA IncompleteInStep ==
  ASSUME TypeOK, InStep, ParseIncomplete
  PROVE  InStep'
  <1>1. /\ answers # << >> /\ avail < Rest /\ saveToBuf /\ pc' = "idle"
        /\ UNCHANGED << queries, answers, store, queue >>
    BY DEF ParseIncomplete
  <1>2. answers \in Seq(Answers) /\ off \in Nat /\ avail \in Nat
    BY DEF TypeOK, LinkType, HandlerType
  <1>3. answers[1].size \in Nat /\ off = 0 /\ answers[1].size <= MAX_READ
    <2>1. answers[1].size \in Nat
      BY <1>1, <1>2, FirstReply
    <2>2. 1 \in 1 .. Len(answers)
      BY <1>1, <1>2
    <2>3. QED
      BY <2>1, <2>2 DEF InStep, QueueMatchesAnswers
  <1>4. avail < MAX_READ
    BY <1>1, <1>2, <1>3, ProxyAssumption DEF Rest
  <1>5. UNCHANGED off
    BY <1>1, <1>4 DEF saveToBuf
  <1>6. QED
    BY <1>1, <1>5, FrameInStep

\* Every step of the master, the slave and the proxy keeps them in step.
LEMMA NextInStep ==
  ASSUME AnswersFit, TypeOK, InStep, [Next]_vars
  PROVE  InStep'
  <1>0. fd \in [Fds -> FdStates] /\ pc # "discard" /\ off = 0
    BY DEF TypeOK, LinkType, InStep, QueueMatchesAnswers
  <1>1. CASE \/ \E k \in Keys : MasterWrite(k) \/ MasterDel(k)
             \/ MasterSync \/ SlaveApply
    <2>1. UNCHANGED << queue, queries, answers, off, store, pc >>
      BY <1>1 DEF MasterWrite, MasterDel, MasterSync, SlaveApply, queryVars
    <2>2. QED
      BY <1>0, <2>1, FrameInStep
  <1>2. CASE SlaveAnswer
    BY <1>2, AnswerInStep
  <1>3. CASE timeEvent
    <2>1. CASE Exit
      BY <1>3, <2>1, ResetInStep DEF timeEvent, Exit
    <2>2. CASE ~Exit
      <3>1. UNCHANGED << queue, queries, answers, off, store, pc >>
        BY <1>3, <2>2 DEF timeEvent, queryVars
      <3>2. QED
        BY <1>0, <3>1, FrameInStep
    <2>3. QED
      BY <2>1, <2>2
  <1>4. CASE acceptTcpHandler
    <2>0. UNCHANGED << store, pc >>
      BY <1>4 DEF acceptTcpHandler
    <2>1. [fd EXCEPT !["client"] = "open"] \in [Fds -> FdStates]
      BY <1>0 DEF Fds, FdStates
    <2>2. CASE closeFd([fd EXCEPT !["client"] = "open"])
      BY <1>0, <2>0, <2>1, <2>2, ResetInStep
    <2>3. CASE ~closeFd([fd EXCEPT !["client"] = "open"])
      <3>1. UNCHANGED << queryVars, queue >>
        BY <1>4, <2>3 DEF acceptTcpHandler
      <3>2. QED
        BY <1>0, <2>0, <3>1, FrameInStep DEF queryVars
    <2>4. QED
      BY <2>2, <2>3
  <1>5. CASE readDataFails
    BY <1>0, <1>5, ResetInStep DEF readDataFails
  <1>6. CASE \/ readFromSlave \/ ReadSyncHeader \/ ReadSyncPayload \/ ReadBeforeSync
             \/ ReadCommands \/ ForwardChunk
    <2>0. UNCHANGED store
      BY <1>6
      DEF readFromSlave, ReadSyncHeader, ReadSyncPayload, ReadBeforeSync, ReadCommands,
          ForwardChunk
    <2>1. CASE WriteFails
      BY <2>0, <2>1, WriteFailsInStep
    <2>2. CASE Exit
      BY <2>0, <2>2, ResetInStep DEF Exit
    <2>3. CASE ~WriteFails /\ ~Exit
      <3>1. UNCHANGED << queryVars, queue >> /\ pc' \in {pc, "idle", "scan"}
        <4>1. CASE readFromSlave
          BY <2>3, <4>1 DEF readFromSlave
        <4>2. CASE ReadSyncHeader
          BY <2>3, <4>2 DEF ReadSyncHeader, ForwardFails
        <4>3. CASE ReadSyncPayload
          BY <2>3, <4>3 DEF ReadSyncPayload, ForwardFails
        <4>4. CASE ReadBeforeSync
          BY <2>3, <4>4 DEF ReadBeforeSync, ForwardFails
        <4>5. CASE ReadCommands
          BY <4>5 DEF ReadCommands
        <4>6. CASE ForwardChunk
          BY <2>3, <4>6 DEF ForwardChunk, ForwardFails
        <4>7. QED
          BY <1>6, <4>1, <4>2, <4>3, <4>4, <4>5, <4>6
      <3>2. QED
        BY <1>0, <2>0, <3>1, FrameInStep DEF queryVars
    <2>4. QED
      BY <2>1, <2>2, <2>3
  <1>7. CASE ScanDel
    <2>1. /\ todo # << >> /\ Head(todo).op = "DEL"
          /\ queryKey(Head(todo)) /\ UNCHANGED store
      BY <1>7 DEF ScanDel
    <2>2. Head(todo).key \in Keys
      <3>1. Head(todo) \in Commands
        BY <2>1 DEF TypeOK, HandlerType
      <3>2. QED
        BY <2>1, <3>1, WriteFields
    <2>3. CASE Exit
      BY <2>1, <2>3, ResetInStep DEF Exit
    <2>4. CASE closeFd(fd) /\ UNCHANGED pc
      BY <1>0, <2>1, <2>4, ResetInStep
    <2>5. CASE /\ ~IsFullQ(queue)
               /\ queries' = Append(queries,
                               [key |-> Head(todo).key, del |-> Head(todo).ver])
               /\ queue' = PushQ(queue, Head(todo).key)
               /\ UNCHANGED << answers, off, pc >>
      BY <2>1, <2>2, <2>5, QueryInStep
    <2>6. CASE UNCHANGED << queryVars, queue, pc >>
      BY <1>0, <2>1, <2>6, FrameInStep DEF queryVars
    <2>7. QED
      BY <2>1, <2>3, <2>4, <2>5, <2>6 DEF queryKey
  <1>8. CASE ScanSkip \/ readDelValue
    <2>1. UNCHANGED << queue, queries, answers, off, store >> /\ pc' \in {pc, "parse"}
      BY <1>8 DEF ScanSkip, readDelValue, queryVars
    <2>2. QED
      BY <1>0, <2>1, FrameInStep
  <1>9. CASE ParseArray
    BY <1>9, ArrayInStep
  <1>10. CASE PopOnEmpty
    BY <1>10, ResetInStep DEF PopOnEmpty, Exit
  <1>11. CASE ParseSimple
    BY <1>11, SimpleInStep
  <1>12. CASE ParseIncomplete
    BY <1>12, IncompleteInStep
  <1>13. CASE UnexpectedData \/ Discard \/ ParseBulkString
    BY <1>0, <1>13 DEF UnexpectedData, Discard, ParseBulkString, MidReply
  <1>14. CASE UNCHANGED vars
    <2>1. UNCHANGED << queue, queries, answers, off, store, pc >>
      BY <1>14 DEF vars, queryVars
    <2>2. QED
      BY <1>0, <2>1, FrameInStep
  <1>15. QED
    BY <1>1, <1>2, <1>3, <1>4, <1>5, <1>6, <1>7, <1>8, <1>9, <1>10, <1>11, <1>12,
       <1>13, <1>14
    DEF Next, Environment, Handler, Continue

\* As long as no reply exceeds one read, the keys in the queue are those of
\* the outstanding replies in their order, through every split of the
\* replies into reads, every full queue, error reply, reset and reconnection.
THEOREM QueueInStep == AnswersFit => (Spec => []QueueMatchesAnswers)
  <1> SUFFICES ASSUME AnswersFit
               PROVE  Spec => []QueueMatchesAnswers
    OBVIOUS
  <1>1. Init => InStep
    BY DEF Init, InStep, QueueMatchesAnswers, ArchivedUnderOwnKey
  <1>2. TypeOK /\ InStep /\ [Next]_vars => InStep'
    BY NextInStep
  <1>3. InStep => QueueMatchesAnswers
    BY DEF InStep
  <1>4. QED
    BY <1>1, <1>2, <1>3, TypeCorrect, PTL DEF Spec

\* As long as no reply exceeds one read, no file ever holds the value of
\* another key than its own.
THEOREM FiledUnderOwnKey == AnswersFit => (Spec => []ArchivedUnderOwnKey)
  <1> SUFFICES ASSUME AnswersFit
               PROVE  Spec => []ArchivedUnderOwnKey
    OBVIOUS
  <1>1. Init => InStep
    BY DEF Init, InStep, QueueMatchesAnswers, ArchivedUnderOwnKey
  <1>2. TypeOK /\ InStep /\ [Next]_vars => InStep'
    BY NextInStep
  <1>3. InStep => ArchivedUnderOwnKey
    BY DEF InStep
  <1>4. QED
    BY <1>1, <1>2, <1>3, TypeCorrect, PTL DEF Spec

-----------------------------------------------------------------------------
(* Files never go back.                                                    *)

(* The versions of a key move in one direction: from the master through    *)
(* its link, the chunk that is scanned and the slave's stream to the       *)
(* slave, and from there with the replies to the files.  In every state    *)
(* they are sorted along that way.  Deletions leave gaps (version 0), so   *)
(* neighbours are not enough: every two places are compared.               *)

Versions == 1 .. MaxVer

Upto(S, T) == \A v \in S, w \in T : v <= w

\* Applying c gives k the version v.
Brings(c, k, v) ==
  \/ c.op = "HSET" /\ c.key = k /\ c.ver = v
  \/ c.op = "RDB" /\ c.db[k] = v

\* The versions of k a stream brings, and that they come in order.
InStream(s, k) == {v \in Versions : \E i \in 1 .. Len(s) : Brings(s[i], k, v)}

InOrder(s, k) ==
  \A i, j \in 1 .. Len(s), v, w \in Versions :
    i < j /\ Brings(s[i], k, v) /\ Brings(s[j], k, w) => v <= w

\* The same for replies.
Answered(a, k) == {v \in Versions : \E i \in 1 .. Len(a) : a[i].key = k /\ a[i].ver = v}

AnswersInOrder(a, k) ==
  \A i, j \in 1 .. Len(a) :
    i < j /\ a[i].key = k /\ a[j].key = k /\ a[i].ver # 0 /\ a[j].ver # 0
      => a[i].ver <= a[j].ver

Kept(db, k) == {db[k]} \ {0}

OnFile(k) ==
  {v \in Versions : \E r \in Replicas : store[r][k] # NULL /\ store[r][k].ver = v}

\* Where versions of k are, from the files back to the master.
Stages == 1 .. 7

Pipe(k) ==
  << OnFile(k), Answered(answers, k), Kept(sdb, k), InStream(p2s, k),
     InStream(chunk, k), InStream(m2p, k), Kept(mdb, k) >>

Ordered(p) == \A m, n \in Stages : m < n => Upto(p[m], p[n])

Bounded(p) == \A n \in Stages : Upto(p[n], {clock})

StreamsInOrder(k) ==
  /\ AnswersInOrder(answers, k)
  /\ InOrder(p2s, k) /\ InOrder(chunk, k) /\ InOrder(m2p, k)

Aging(k) == Ordered(Pipe(k)) /\ Bounded(Pipe(k)) /\ StreamsInOrder(k)

\* A chunk is in hand only while it is scanned: nothing overtakes it.
OneChunk == pc # "scan" => chunk = << >>

\* The stages one by one.
LEMMA PipeStages ==
  ASSUME NEW k
  PROVE  /\ Pipe(k)[1] = OnFile(k)
         /\ Pipe(k)[2] = Answered(answers, k)
         /\ Pipe(k)[3] = Kept(sdb, k)
         /\ Pipe(k)[4] = InStream(p2s, k)
         /\ Pipe(k)[5] = InStream(chunk, k)
         /\ Pipe(k)[6] = InStream(m2p, k)
         /\ Pipe(k)[7] = Kept(mdb, k)
  BY DEF Pipe

LEMMA PipeStagesNext ==
  ASSUME NEW k
  PROVE  /\ Pipe(k)'[1] = OnFile(k)'
         /\ Pipe(k)'[2] = Answered(answers', k)
         /\ Pipe(k)'[3] = Kept(sdb', k)
         /\ Pipe(k)'[4] = InStream(p2s', k)
         /\ Pipe(k)'[5] = InStream(chunk', k)
         /\ Pipe(k)'[6] = InStream(m2p', k)
         /\ Pipe(k)'[7] = Kept(mdb', k)
  BY DEF Pipe

LEMMA StageNumbers == \A n : n \in Stages <=> n \in {1, 2, 3, 4, 5, 6, 7}
  BY DEF Stages

\* Versions X that arrive at stage m, when every other stage loses at most.
LEMMA Flow ==
  ASSUME NEW p, NEW q, Ordered(p), NEW m \in Stages, NEW X,
         q[m] \subseteq p[m] \union X,
         \A n \in Stages \ {m} : q[n] \subseteq p[n],
         \A n \in Stages : n < m => Upto(p[n], X),
         \A n \in Stages : m < n => Upto(X, q[n])
  PROVE  Ordered(q)
  <1> SUFFICES ASSUME NEW i \in Stages, NEW j \in Stages, i < j, NEW v \in q[i], NEW w \in q[j]
               PROVE  v <= w
    BY DEF Ordered, Upto
  <1>1. v \in p[i] /\ w \in p[j] => v <= w
    BY DEF Ordered, Upto
  <1>2. CASE i # m /\ j # m
    BY <1>1, <1>2
  <1>3. CASE i = m
    <2>1. j # m
      BY <1>3 DEF Stages
    <2>2. CASE v \in X
      BY <1>3, <2>2 DEF Upto
    <2>3. CASE v \in p[i]
      BY <1>1, <2>1, <2>3
    <2>4. QED
      BY <1>3, <2>2, <2>3
  <1>4. CASE j = m
    <2>1. i # m
      BY <1>4 DEF Stages
    <2>2. CASE w \in X
      BY <1>4, <2>1, <2>2 DEF Upto
    <2>3. CASE w \in p[j]
      BY <1>1, <2>1, <2>3
    <2>4. QED
      BY <1>4, <2>2, <2>3
  <1>5. QED
    BY <1>2, <1>3, <1>4

\* A stream without data brings nothing.
LEMMA EmptyStreams ==
  ASSUME NEW k
  PROVE  /\ InStream(<< >>, k) = {} /\ InOrder(<< >>, k)
         /\ Answered(<< >>, k) = {} /\ AnswersInOrder(<< >>, k)
  BY DEF InStream, InOrder, Answered, AnswersInOrder

\* A run of elements of a stream.
LEMMA RunOfStream ==
  ASSUME NEW k, NEW s, NEW t, Len(s) \in Nat, Len(t) \in Nat, NEW o \in Nat,
         o + Len(t) <= Len(s), \A i \in 1 .. Len(t) : t[i] = s[o + i], InOrder(s, k)
  PROVE  InStream(t, k) \subseteq InStream(s, k) /\ InOrder(t, k)
  <1>1. \A i \in 1 .. Len(t) : o + i \in 1 .. Len(s) /\ t[i] = s[o + i]
    OBVIOUS
  <1>2. InStream(t, k) \subseteq InStream(s, k)
    BY <1>1 DEF InStream
  <1>3. ASSUME NEW i \in 1 .. Len(t), NEW j \in 1 .. Len(t), NEW v \in Versions, NEW w \in Versions,
               i < j, Brings(t[i], k, v), Brings(t[j], k, w)
        PROVE  v <= w
    <2>1. o + i < o + j /\ Brings(s[o + i], k, v) /\ Brings(s[o + j], k, w)
      BY <1>1, <1>3
    <2>2. QED
      BY <1>1, <2>1 DEF InOrder
  <1>4. QED
    BY <1>2, <1>3 DEF InOrder

\* A stream read up to n, of which j elements are passed on.
LEMMA CutStream ==
  ASSUME NEW k, NEW s \in Seq(Commands), InOrder(s, k), NEW n \in 0 .. Len(s), NEW j \in 0 .. n
  PROVE  LET d == SubSeq(s, 1, j)
             r == SubSeq(s, n + 1, Len(s))
         IN  /\ InStream(d, k) \subseteq InStream(s, k) /\ InOrder(d, k)
             /\ InStream(r, k) \subseteq InStream(s, k) /\ InOrder(r, k)
             /\ Upto(InStream(d, k), InStream(r, k))
  <1> DEFINE d == SubSeq(s, 1, j)
             r == SubSeq(s, n + 1, Len(s))
  <1>0. Len(s) \in Nat /\ n \in Nat /\ j \in Nat /\ n <= Len(s) /\ j <= n
    OBVIOUS
  <1>1. Len(d) = j /\ \A i \in 1 .. j : d[i] = s[i]
    <2>1. \A i \in 1 .. j : s[i] \in Commands
      BY <1>0, ElementOfSeq
    <2>2. /\ Len(d) = IF 1 <= j THEN j - 1 + 1 ELSE 0
          /\ \A i \in 1 .. j - 1 + 1 : d[i] = s[1 + i - 1]
      BY <1>0, <2>1, SubSeqProperties
    <2> HIDE DEF d
    <2>3. QED
      BY <1>0, <2>2
  <1>2. Len(r) = Len(s) - n /\ \A i \in 1 .. Len(s) - n : r[i] = s[n + i]
    <2>1. \A i \in n + 1 .. Len(s) : s[i] \in Commands
      BY <1>0, ElementOfSeq
    <2>2. /\ Len(r) = IF n + 1 <= Len(s) THEN Len(s) - (n + 1) + 1 ELSE 0
          /\ \A i \in 1 .. Len(s) - (n + 1) + 1 : r[i] = s[n + 1 + i - 1]
      BY <1>0, <2>1, SubSeqProperties
    <2> HIDE DEF r
    <2>3. QED
      BY <1>0, <2>2
  <1> HIDE DEF d, r
  <1>3. InStream(d, k) \subseteq InStream(s, k) /\ InOrder(d, k)
    <2>1. 0 + Len(d) <= Len(s) /\ \A i \in 1 .. Len(d) : d[i] = s[0 + i]
      BY <1>0, <1>1
    <2>2. QED
      BY <1>0, <1>1, <2>1, RunOfStream
  <1>4. InStream(r, k) \subseteq InStream(s, k) /\ InOrder(r, k)
    <2>1. /\ Len(r) \in Nat /\ n + Len(r) <= Len(s)
          /\ \A i \in 1 .. Len(r) : r[i] = s[n + i]
      BY <1>0, <1>2
    <2>2. QED
      BY <1>0, <2>1, RunOfStream
  <1>5. Upto(InStream(d, k), InStream(r, k))
    <2> SUFFICES ASSUME NEW v \in InStream(d, k), NEW w \in InStream(r, k)
                 PROVE  v <= w
      BY DEF Upto
    <2>1. PICK a \in 1 .. Len(d) : Brings(d[a], k, v) /\ v \in Versions
      BY DEF InStream
    <2>2. PICK b \in 1 .. Len(r) : Brings(r[b], k, w) /\ w \in Versions
      BY DEF InStream
    <2>3. /\ a \in 1 .. Len(s) /\ n + b \in 1 .. Len(s) /\ a < n + b
          /\ Brings(s[a], k, v) /\ Brings(s[n + b], k, w)
      BY <1>0, <1>1, <1>2, <2>1, <2>2
    <2>4. QED
      BY <2>1, <2>2, <2>3 DEF InOrder
  <1>6. QED
    BY <1>3, <1>4, <1>5 DEF d, r

\* Data written behind a stream.
LEMMA JoinStreams ==
  ASSUME NEW k, NEW s \in Seq(Commands), NEW t \in Seq(Commands), InOrder(s, k), InOrder(t, k),
         Upto(InStream(s, k), InStream(t, k))
  PROVE  /\ InStream(s \o t, k) \subseteq InStream(s, k) \union InStream(t, k)
         /\ InOrder(s \o t, k)
  <1> DEFINE u == s \o t
  <1>1. /\ Len(s) \in Nat /\ Len(t) \in Nat /\ Len(u) = Len(s) + Len(t)
        /\ \A i \in 1 .. Len(u) : u[i] = IF i <= Len(s) THEN s[i] ELSE t[i - Len(s)]
    BY ConcatProperties
  <1> HIDE DEF u
  <1>2. \A i \in 1 .. Len(u) : \/ i \in 1 .. Len(s) /\ u[i] = s[i]
                               \/ i - Len(s) \in 1 .. Len(t) /\ u[i] = t[i - Len(s)]
    BY <1>1
  <1>3. InStream(u, k) \subseteq InStream(s, k) \union InStream(t, k)
    BY <1>2 DEF InStream
  <1>4. ASSUME NEW i \in 1 .. Len(u), NEW j \in 1 .. Len(u), NEW v \in Versions, NEW w \in Versions,
               i < j, Brings(u[i], k, v), Brings(u[j], k, w)
        PROVE  v <= w
    <2>1. CASE j <= Len(s)
      <3>1. i \in 1 .. Len(s) /\ j \in 1 .. Len(s) /\ u[i] = s[i] /\ u[j] = s[j]
        BY <1>1, <1>4, <2>1
      <3>2. QED
        BY <1>4, <3>1 DEF InOrder
    <2>2. CASE i <= Len(s) /\ ~(j <= Len(s))
      <3>1. /\ i \in 1 .. Len(s) /\ j - Len(s) \in 1 .. Len(t)
            /\ u[i] = s[i] /\ u[j] = t[j - Len(s)]
        BY <1>1, <2>2
      <3>2. v \in InStream(s, k) /\ w \in InStream(t, k)
        BY <1>4, <3>1 DEF InStream
      <3>3. QED
        BY <3>2 DEF Upto
    <2>3. CASE ~(i <= Len(s))
      <3>1. /\ i - Len(s) \in 1 .. Len(t) /\ j - Len(s) \in 1 .. Len(t)
            /\ i - Len(s) < j - Len(s)
            /\ u[i] = t[i - Len(s)] /\ u[j] = t[j - Len(s)]
        BY <1>1, <1>4, <2>3
      <3>2. QED
        BY <1>4, <3>1 DEF InOrder
    <2>4. QED
      BY <1>1, <2>1, <2>2, <2>3
  <1>5. QED
    BY <1>3, <1>4 DEF InOrder, u

\* The first element of a stream and the rest.
LEMMA HeadOfStream ==
  ASSUME NEW k, NEW s \in Seq(Commands), InOrder(s, k), s # << >>
  PROVE  /\ InStream(Tail(s), k) \subseteq InStream(s, k) /\ InOrder(Tail(s), k)
         /\ \A v \in Versions : Brings(s[1], k, v) =>
              v \in InStream(s, k) /\ Upto({v}, InStream(Tail(s), k))
  <1>1. /\ Len(s) \in Nat /\ Len(s) >= 1 /\ Len(Tail(s)) = Len(s) - 1
        /\ \A i \in 1 .. Len(Tail(s)) : Tail(s)[i] = s[1 + i]
    BY HeadTailProperties
  <1>2. InStream(Tail(s), k) \subseteq InStream(s, k) /\ InOrder(Tail(s), k)
    <2>1. Len(Tail(s)) \in Nat /\ 1 + Len(Tail(s)) <= Len(s)
      BY <1>1
    <2>2. QED
      BY <1>1, <2>1, RunOfStream
  <1>3. ASSUME NEW v \in Versions, Brings(s[1], k, v)
        PROVE  v \in InStream(s, k) /\ Upto({v}, InStream(Tail(s), k))
    <2>1. v \in InStream(s, k)
      BY <1>1, <1>3 DEF InStream
    <2>2. ASSUME NEW w \in InStream(Tail(s), k)
          PROVE  v <= w
      <3>1. PICK b \in 1 .. Len(Tail(s)) : Brings(Tail(s)[b], k, w) /\ w \in Versions
        BY DEF InStream
      <3>2. /\ 1 \in 1 .. Len(s) /\ 1 + b \in 1 .. Len(s) /\ 1 < 1 + b
            /\ Brings(s[1 + b], k, w)
        BY <1>1, <3>1
      <3>3. QED
        BY <1>3, <3>1, <3>2 DEF InOrder
    <2>3. QED
      BY <2>1, <2>2 DEF Upto
  <1>4. QED
    BY <1>2, <1>3

\* One element as a stream of its own.
LEMMA SingleStream ==
  ASSUME NEW k, NEW c \in Commands
  PROVE  /\ << c >> \in Seq(Commands) /\ InOrder(<< c >>, k)
         /\ InStream(<< c >>, k) = {v \in Versions : Brings(c, k, v)}
  <1> DEFINE s == << c >>
  <1>1. s \in Seq(Commands) /\ Len(s) = 1 /\ s[1] = c
    OBVIOUS
  <1> HIDE DEF s
  <1>2. 1 .. Len(s) = {1}
    BY <1>1
  <1>3. InOrder(s, k)
    BY <1>2 DEF InOrder
  <1>4. InStream(s, k) = {v \in Versions : Brings(c, k, v)}
    BY <1>1, <1>2 DEF InStream
  <1>5. QED
    BY <1>1, <1>3, <1>4 DEF s

\* A prefix of what was to be written.
LEMMA PrefixOfStream ==
  ASSUME NEW k, NEW s \in Seq(Commands), InOrder(s, k), NEW n \in 0 .. Len(s)
  PROVE  /\ SubSeq(s, 1, n) \in Seq(Commands)
         /\ InStream(SubSeq(s, 1, n), k) \subseteq InStream(s, k)
         /\ InOrder(SubSeq(s, 1, n), k)
  <1>1. n \in 0 .. n /\ 1 \in Nat \ {0}
    OBVIOUS
  <1>2. QED
    BY <1>1, CutStream, SubSeqIn

\* What a reply says.
LEMMA AnswerFields ==
  ASSUME NEW x \in Answers
  PROVE  x.key \in Keys /\ x.ver \in 0 .. MaxVer /\ (x.ver # 0 => x.ver \in Versions)
  <1>1. x.key \in Keys /\ x.ver \in 0 .. MaxVer
    BY DEF Answers
  <1>2. QED
    BY <1>1, ProxyAssumption DEF Versions

\* A reply behind the others.
LEMMA AnswerAppended ==
  ASSUME NEW k, NEW a \in Seq(Answers), NEW x \in Answers, AnswersInOrder(a, k),
         x.key = k /\ x.ver # 0 => Upto(Answered(a, k), {x.ver})
  PROVE  /\ Answered(Append(a, x), k)
              \subseteq Answered(a, k) \union {v \in Versions : x.key = k /\ x.ver = v}
         /\ AnswersInOrder(Append(a, x), k)
  <1> DEFINE b == Append(a, x)
  <1>1. /\ Len(a) \in Nat /\ Len(b) = Len(a) + 1 /\ b[Len(a) + 1] = x
        /\ \A i \in 1 .. Len(a) : b[i] = a[i] /\ a[i] \in Answers
    BY AppendProperties
  <1> HIDE DEF b
  <1>2. \A i \in 1 .. Len(b) : (i \in 1 .. Len(a) /\ b[i] = a[i]) \/ (i = Len(a) + 1 /\ b[i] = x)
    BY <1>1
  <1>3. Answered(b, k) \subseteq Answered(a, k) \union {v \in Versions : x.key = k /\ x.ver = v}
    BY <1>2 DEF Answered
  <1>4. ASSUME NEW i \in 1 .. Len(b), NEW j \in 1 .. Len(b), i < j, b[i].key = k, b[j].key = k,
               b[i].ver # 0, b[j].ver # 0
        PROVE  b[i].ver <= b[j].ver
    <2>1. i \in 1 .. Len(a) /\ b[i] = a[i]
      BY <1>1, <1>4
    <2>2. CASE j \in 1 .. Len(a)
      <3>1. b[j] = a[j]
        BY <1>1, <2>2
      <3>2. QED
        BY <1>4, <2>1, <2>2, <3>1 DEF AnswersInOrder
    <2>3. CASE j = Len(a) + 1
      <3>1. a[i].ver \in Versions
        BY <1>1, <1>4, <2>1, AnswerFields
      <3>2. a[i].ver \in Answered(a, k)
        BY <1>4, <2>1, <3>1 DEF Answered
      <3>3. b[j] = x
        BY <1>1, <2>3
      <3>4. QED
        BY <1>4, <2>1, <3>2, <3>3 DEF Upto
    <2>4. QED
      BY <1>2, <2>2, <2>3
  <1>5. QED
    BY <1>3, <1>4 DEF AnswersInOrder, b

\* The first reply is taken away.
LEMMA AnswerTaken ==
  ASSUME NEW k, NEW a \in Seq(Answers), a # << >>, AnswersInOrder(a, k)
  PROVE  /\ Answered(Tail(a), k) \subseteq Answered(a, k) /\ AnswersInOrder(Tail(a), k)
         /\ a[1].key = k /\ a[1].ver # 0 =>
              a[1].ver \in Answered(a, k) /\ Upto({a[1].ver}, Answered(Tail(a), k))
  <1> DEFINE b == Tail(a)
  <1>1. /\ Len(a) \in Nat /\ Len(a) >= 1 /\ Len(b) = Len(a) - 1
        /\ \A i \in 1 .. Len(b) : b[i] = a[i + 1]
        /\ a[1] \in Answers
    BY HeadTailProperties
  <1> HIDE DEF b
  <1>2. \A i \in 1 .. Len(b) : i + 1 \in 1 .. Len(a) /\ 1 < i + 1 /\ b[i] = a[i + 1]
    BY <1>1
  <1>3. Answered(b, k) \subseteq Answered(a, k)
    BY <1>2 DEF Answered
  <1>4. ASSUME NEW i \in 1 .. Len(b), NEW j \in 1 .. Len(b), i < j, b[i].key = k, b[j].key = k,
               b[i].ver # 0, b[j].ver # 0
        PROVE  b[i].ver <= b[j].ver
    <2>1. i + 1 < j + 1
      BY <1>4
    <2>2. QED
      BY <1>2, <1>4, <2>1 DEF AnswersInOrder
  <1>5. ASSUME a[1].key = k, a[1].ver # 0
        PROVE  a[1].ver \in Answered(a, k) /\ Upto({a[1].ver}, Answered(b, k))
    <2>1. a[1].ver \in Versions /\ 1 \in 1 .. Len(a)
      BY <1>1, <1>5, AnswerFields
    <2>2. a[1].ver \in Answered(a, k)
      BY <1>5, <2>1 DEF Answered
    <2>3. ASSUME NEW w \in Answered(b, k)
          PROVE  a[1].ver <= w
      <3>1. PICK i \in 1 .. Len(b) : b[i].key = k /\ b[i].ver = w /\ w # 0
        BY DEF Answered, Versions
      <3>2. QED
        BY <1>2, <1>5, <2>1, <3>1 DEF AnswersInOrder
    <2>4. QED
      BY <2>2, <2>3 DEF Upto
  <1>6. QED
    BY <1>3, <1>4, <1>5 DEF AnswersInOrder, b

-----------------------------------------------------------------------------
(* Steps along the way.                                                    *)

\* Versions X reach stage m; they are not older than what is ahead of them and
\* not newer than what is left behind.
LEMMA AgingFlow ==
  ASSUME NEW k, Aging(k), StreamsInOrder(k)', UNCHANGED clock, NEW m \in Stages, NEW X,
         Pipe(k)'[m] \subseteq Pipe(k)[m] \union X,
         \A n \in Stages \ {m} : Pipe(k)'[n] \subseteq Pipe(k)[n],
         \A n \in Stages : n < m => Upto(Pipe(k)[n], X),
         \A n \in Stages : m < n => Upto(X, Pipe(k)'[n]),
         Upto(X, {clock})
  PROVE  Aging(k)'
  <1>1. Ordered(Pipe(k)')
    BY Flow DEF Aging
  <1>2. \A n \in Stages : Pipe(k)'[n] \subseteq Pipe(k)[n] \union X
    OBVIOUS
  <1>3. \A n \in Stages : Upto(Pipe(k)'[n], {clock'})
    BY <1>2 DEF Aging, Bounded, Upto
  <1>4. QED
    BY <1>1, <1>3 DEF Aging, Ordered, Bounded, Upto

\* Nothing new arrives anywhere.
LEMMA AgingShrinks ==
  ASSUME NEW k, Aging(k), StreamsInOrder(k)', UNCHANGED << store, sdb, clock >>,
         Kept(mdb', k) \subseteq Kept(mdb, k),
         Answered(answers', k) \subseteq Answered(answers, k),
         InStream(p2s', k) \subseteq InStream(p2s, k),
         InStream(chunk', k) \subseteq InStream(chunk, k),
         InStream(m2p', k) \subseteq InStream(m2p, k)
  PROVE  Aging(k)'
  <1>1. OnFile(k)' = OnFile(k) /\ Kept(sdb', k) = Kept(sdb, k)
    BY DEF OnFile
  <1>2. \A n \in Stages : Pipe(k)'[n] \subseteq Pipe(k)[n]
    BY <1>1, PipeStages, PipeStagesNext, StageNumbers
  <1>3. 1 \in Stages /\ \A n \in Stages : Upto(Pipe(k)[n], {}) /\ Upto({}, Pipe(k)'[n])
    BY DEF Stages, Upto
  <1>4. Upto({}, {clock}) /\ Pipe(k)'[1] \subseteq Pipe(k)[1] \union {}
    BY <1>2, <1>3 DEF Upto
  <1>5. QED
    BY <1>2, <1>3, <1>4, AgingFlow

\* Streams are left alone or lost (closeFd, exit, a new connection of the slave).
LEMMA AgingLoses ==
  ASSUME NEW k, Aging(k), UNCHANGED << store, sdb, mdb, clock >>,
         answers' = answers \/ answers' = << >>,
         p2s' = p2s \/ p2s' = << >>,
         chunk' = chunk \/ chunk' = << >>,
         m2p' = m2p \/ m2p' = << >>
  PROVE  Aging(k)'
  <1>1. /\ Answered(answers', k) \subseteq Answered(answers, k) /\ AnswersInOrder(answers', k)
        /\ InStream(p2s', k) \subseteq InStream(p2s, k) /\ InOrder(p2s', k)
        /\ InStream(chunk', k) \subseteq InStream(chunk, k) /\ InOrder(chunk', k)
        /\ InStream(m2p', k) \subseteq InStream(m2p, k) /\ InOrder(m2p', k)
    BY EmptyStreams DEF Aging, StreamsInOrder
  <1>2. QED
    BY <1>1, AgingShrinks DEF StreamsInOrder

\* Data is written to the slave, from the chunk or, when there is none, straight
\* from the link.
LEMMA AgingForward ==
  ASSUME TypeOK, NEW k, Aging(k), UNCHANGED << store, sdb, mdb, clock >>,
         answers' = answers \/ answers' = << >>,
         NEW d \in Seq(Commands), p2s' = p2s \o d, InOrder(d, k),
         chunk' = << >>,
         InStream(m2p', k) \subseteq InStream(m2p, k), InOrder(m2p', k),
         Upto(InStream(d, k), InStream(m2p', k)),
         \/ InStream(d, k) \subseteq InStream(chunk, k)
         \/ InStream(d, k) \subseteq InStream(m2p, k)
  PROVE  Aging(k)'
  <1> DEFINE X == InStream(d, k)
  <1>0. PICK l \in {5, 6} : X \subseteq Pipe(k)[l]
    BY PipeStages
  <1>1. \A n \in Stages : n < 4 => Upto(Pipe(k)[n], X)
    <2>1. l \in Stages /\ \A n \in Stages : n < 4 => n < l
      BY DEF Stages
    <2>2. QED
      BY <1>0, <2>1 DEF Aging, Ordered, Upto
  <1>2. Upto(Pipe(k)[4], X)
    <2>1. l \in Stages /\ 4 \in Stages /\ 4 < l
      BY DEF Stages
    <2>2. QED
      BY <1>0, <2>1 DEF Aging, Ordered, Upto
  <1>3. Upto(X, Pipe(k)[7]) /\ Upto(X, {clock})
    <2>1. l \in Stages /\ 7 \in Stages /\ l < 7
      BY DEF Stages
    <2>2. QED
      BY <1>0, <2>1 DEF Aging, Ordered, Bounded, Upto
  <1>4. InStream(p2s', k) \subseteq InStream(p2s, k) \union X /\ InOrder(p2s', k)
    <2>1. p2s \in Seq(Commands) /\ InOrder(p2s, k) /\ Upto(InStream(p2s, k), X)
      BY <1>2, PipeStages DEF TypeOK, StoreType, Aging, StreamsInOrder
    <2>2. QED
      BY <2>1, JoinStreams
  <1>5. /\ Answered(answers', k) \subseteq Answered(answers, k) /\ AnswersInOrder(answers', k)
        /\ InStream(chunk', k) = {} /\ InOrder(chunk', k)
    BY EmptyStreams DEF Aging, StreamsInOrder
  <1>6. OnFile(k)' = OnFile(k) /\ Kept(sdb', k) = Kept(sdb, k) /\ Kept(mdb', k) = Kept(mdb, k)
    BY DEF OnFile
  <1> HIDE DEF X
  <1>7. /\ \A n \in Stages \ {4} : Pipe(k)'[n] \subseteq Pipe(k)[n]
        /\ Pipe(k)'[4] \subseteq Pipe(k)[4] \union X
        /\ 4 \in Stages
    <2>1. /\ Pipe(k)'[1] = Pipe(k)[1] /\ Pipe(k)'[3] = Pipe(k)[3] /\ Pipe(k)'[7] = Pipe(k)[7]
      BY <1>6, PipeStages, PipeStagesNext
    <2>2. /\ Pipe(k)'[2] \subseteq Pipe(k)[2] /\ Pipe(k)'[5] \subseteq Pipe(k)[5]
          /\ Pipe(k)'[6] \subseteq Pipe(k)[6]
      BY <1>5, PipeStages, PipeStagesNext
    <2>3. Pipe(k)'[4] \subseteq Pipe(k)[4] \union X
      BY <1>4, PipeStages, PipeStagesNext
    <2>4. ASSUME NEW n \in Stages \ {4} PROVE Pipe(k)'[n] \subseteq Pipe(k)[n]
      <3>1. n \in {1, 2, 3, 5, 6, 7}
        BY StageNumbers
      <3>2. QED
        BY <2>1, <2>2, <3>1, ZenonT(30)
    <2>5. QED
      BY <2>3, <2>4, StageNumbers
  <1>8. \A n \in Stages : 4 < n => Upto(X, Pipe(k)'[n])
    <2>1. Upto(X, Pipe(k)'[5])
      BY <1>5, PipeStagesNext DEF Upto
    <2>2. Upto(X, Pipe(k)'[6])
      BY PipeStagesNext DEF X
    <2>3. Upto(X, Pipe(k)'[7])
      BY <1>3, <1>6, PipeStages, PipeStagesNext
    <2>4. \A n \in Stages : 4 < n => n \in {5, 6, 7}
      BY DEF Stages
    <2>5. QED
      BY <2>1, <2>2, <2>3, <2>4
  <1>9. StreamsInOrder(k)'
    BY <1>4, <1>5 DEF StreamsInOrder
  <1>10. QED
    BY <1>1, <1>3, <1>7, <1>8, <1>9, AgingFlow

\* Versions are numbers.
LEMMA PipeTypes ==
  ASSUME TypeOK, NEW k \in Keys
  PROVE  \A n \in Stages : Pipe(k)[n] \subseteq Nat
  <1>1. /\ OnFile(k) \subseteq Versions /\ Answered(answers, k) \subseteq Versions
        /\ InStream(p2s, k) \subseteq Versions /\ InStream(chunk, k) \subseteq Versions
        /\ InStream(m2p, k) \subseteq Versions
    BY DEF OnFile, Answered, InStream
  <1>2. Kept(sdb, k) \subseteq Nat /\ Kept(mdb, k) \subseteq Nat
    BY ProxyAssumption DEF TypeOK, StoreType, DB, Kept
  <1>3. Versions \subseteq Nat
    BY ProxyAssumption DEF Versions
  <1>4. /\ Pipe(k)[1] \subseteq Nat /\ Pipe(k)[2] \subseteq Nat /\ Pipe(k)[4] \subseteq Nat
        /\ Pipe(k)[5] \subseteq Nat /\ Pipe(k)[6] \subseteq Nat
    BY <1>1, <1>3, PipeStages
  <1>5. Pipe(k)[3] \subseteq Nat /\ Pipe(k)[7] \subseteq Nat
    BY <1>2, PipeStages
  <1>6. QED
    BY <1>4, <1>5, StageNumbers

\* A line or a DEL behind the stream brings nothing.
LEMMA NothingBrought ==
  ASSUME NEW k, NEW s \in Seq(Commands), InOrder(s, k), NEW c \in Commands,
         \A v : ~Brings(c, k, v)
  PROVE  InStream(Append(s, c), k) \subseteq InStream(s, k) /\ InOrder(Append(s, c), k)
  <1>1. << c >> \in Seq(Commands) /\ InOrder(<< c >>, k) /\ InStream(<< c >>, k) = {}
    BY SingleStream
  <1>2. Upto(InStream(s, k), InStream(<< c >>, k))
    BY <1>1 DEF Upto
  <1>3. InStream(s \o << c >>, k) \subseteq InStream(s, k) /\ InOrder(s \o << c >>, k)
    BY <1>1, <1>2, JoinStreams
  <1>4. QED
    BY <1>3, AppendIsConcat

\* A client of the master writes: the new version is the newest anywhere.
LEMMA WriteAging ==
  ASSUME TypeOK, NEW k \in Keys, Aging(k), NEW x \in Keys, MasterWrite(x)
  PROVE  Aging(k)'
  <1> DEFINE c == [op |-> "HSET", key |-> x, ver |-> clock + 1]
             d == << c >>
  <1>1. /\ clock \in 0 .. MaxVer /\ clock + 1 \in Versions /\ clock' = clock + 1
        /\ mdb' = [mdb EXCEPT ![x] = clock + 1] /\ mdb \in DB /\ m2p \in Seq(Commands)
        /\ m2p' = Append(m2p, c) \/ m2p' = m2p
        /\ UNCHANGED << store, sdb, answers, p2s, chunk >>
    BY ProxyAssumption
    DEF TypeOK, LinkType, StoreType, MasterWrite, Feed, Versions, queryVars, scanVars
  <1>2. c \in Commands
    <2>1. clock + 1 \in 0 .. MaxVer
      BY <1>1, ProxyAssumption DEF Versions
    <2>2. QED
      BY <2>1, CommandTypes
  <1>3. \A v : Brings(c, k, v) <=> k = x /\ v = clock + 1
    BY DEF Brings
  <1> HIDE DEF c
  <1>4. /\ d \in Seq(Commands) /\ InOrder(d, k)
        /\ InStream(d, k) \subseteq {v \in {clock + 1} : k = x}
    BY <1>2, <1>3, SingleStream
  <1>5. \A n \in Stages : \A v \in Pipe(k)[n] : v \in Nat /\ v <= clock /\ v <= clock + 1
    <2>1. \A n \in Stages : \A v \in Pipe(k)[n] : v \in Nat /\ v <= clock
      BY PipeTypes DEF Aging, Bounded, Upto
    <2>2. QED
      BY <1>1, <2>1
  <1>6. /\ InStream(m2p', k) \subseteq InStream(m2p, k) \union {v \in {clock + 1} : k = x}
        /\ InOrder(m2p', k)
    <2>0. InOrder(m2p, k)
      BY DEF Aging, StreamsInOrder
    <2>1. Upto(InStream(m2p, k), InStream(d, k))
      BY <1>4, <1>5, PipeStages, StageNumbers DEF Upto
    <2>2. Append(m2p, c) = m2p \o d
      BY <1>1, <1>2, AppendIsConcat
    <2>3. /\ InStream(m2p \o d, k) \subseteq InStream(m2p, k) \union InStream(d, k)
          /\ InOrder(m2p \o d, k)
      BY <1>1, <1>4, <2>0, <2>1, JoinStreams
    <2> HIDE DEF d
    <2>4. QED
      BY <1>1, <1>4, <2>0, <2>2, <2>3
  <1>7. StreamsInOrder(k)'
    BY <1>1, <1>6 DEF Aging, StreamsInOrder
  <1>8. /\ \A n \in 1 .. 5 : Pipe(k)'[n] = Pipe(k)[n]
        /\ Pipe(k)'[6] \subseteq Pipe(k)[6] \union {v \in {clock + 1} : k = x}
        /\ Pipe(k)'[7] = IF k = x THEN {clock + 1} ELSE Pipe(k)[7]
    <2>1. OnFile(k)' = OnFile(k)
      BY <1>1 DEF OnFile
    <2>2. /\ Pipe(k)'[1] = Pipe(k)[1] /\ Pipe(k)'[2] = Pipe(k)[2] /\ Pipe(k)'[3] = Pipe(k)[3]
          /\ Pipe(k)'[4] = Pipe(k)[4] /\ Pipe(k)'[5] = Pipe(k)[5]
      BY <1>1, <2>1, PipeStages, PipeStagesNext
    <2>3. Kept(mdb', k) = IF k = x THEN {clock + 1} ELSE Kept(mdb, k)
      BY <1>1 DEF Kept, DB
    <2>4. QED
      BY <1>6, <2>2, <2>3, PipeStages, PipeStagesNext
  <1>9. ASSUME NEW m \in Stages, NEW n \in Stages, m < n, NEW v \in Pipe(k)'[m], NEW w \in Pipe(k)'[n]
        PROVE  v <= w
    <2>1. v \in Pipe(k)[m] /\ w \in Pipe(k)[n] => v <= w
      BY <1>9 DEF Aging, Ordered, Upto
    <2>2. CASE w = clock + 1
      <3>1. v \in Pipe(k)[m] \/ v = clock + 1
        BY <1>8, <1>9 DEF Stages
      <3>2. QED
        BY <1>1, <1>5, <2>2, <3>1
    <2>3. CASE w # clock + 1
      <3>1. w \in Pipe(k)[n] /\ (n = 7 => k # x)
        BY <1>8, <2>3 DEF Stages
      <3>2. v \in Pipe(k)[m]
        BY <1>8, <1>9, <2>3, <3>1 DEF Stages
      <3>3. QED
        BY <2>1, <3>1, <3>2
    <2>4. QED
      BY <2>2, <2>3
  <1>10. \A n \in Stages : Upto(Pipe(k)'[n], {clock'})
    BY <1>1, <1>5, <1>8 DEF Stages, Upto
  <1>11. QED
    BY <1>7, <1>9, <1>10 DEF Aging, Ordered, Bounded, Upto

\* The master deletes: one version less, and a DEL that brings nothing.
LEMMA DelAging ==
  ASSUME TypeOK, NEW k \in Keys, Aging(k), NEW x \in Keys, MasterDel(x)
  PROVE  Aging(k)'
  <1> DEFINE c == [op |-> "DEL", key |-> x, ver |-> mdb[x]]
  <1>1. /\ mdb' = [mdb EXCEPT ![x] = 0] /\ mdb \in DB /\ m2p \in Seq(Commands)
        /\ m2p' = Append(m2p, c) \/ m2p' = m2p
        /\ UNCHANGED << store, sdb, clock, answers, p2s, chunk >>
    BY DEF TypeOK, LinkType, StoreType, MasterDel, Feed, queryVars, scanVars
  <1>2. mdb[x] \in 0 .. MaxVer
    BY <1>1 DEF DB
  <1>3. c \in Commands
    BY <1>2, CommandTypes
  <1>4. \A v : ~Brings(c, k, v)
    BY DEF Brings
  <1> HIDE DEF c
  <1>5. InStream(m2p', k) \subseteq InStream(m2p, k) /\ InOrder(m2p', k)
    BY <1>1, <1>3, <1>4, NothingBrought DEF Aging, StreamsInOrder
  <1>6. Kept(mdb', k) \subseteq Kept(mdb, k)
    BY <1>1 DEF Kept, DB
  <1>7. StreamsInOrder(k)'
    BY <1>1, <1>5 DEF Aging, StreamsInOrder
  <1>8. QED
    BY <1>1, <1>5, <1>6, <1>7, AgingShrinks

\* The snapshot behind its header brings what the master has.
LEMMA SnapshotStream ==
  ASSUME TypeOK, NEW k \in Keys
  PROVE  LET d == << [op |-> "HEADER"], [op |-> "RDB", db |-> mdb] >>
         IN  d \in Seq(Commands) /\ InStream(d, k) \subseteq Kept(mdb, k) /\ InOrder(d, k)
  <1> DEFINE h == [op |-> "HEADER"]
             r == [op |-> "RDB", db |-> mdb]
             d == << h, r >>
  <1>1. h \in Commands /\ r \in Commands
    BY CommandTypes DEF Lines, TypeOK, StoreType
  <1>2. /\ \A v : ~Brings(h, k, v)
        /\ \A v : Brings(r, k, v) => v = mdb[k]
    BY DEF Brings
  <1> HIDE DEF h, r
  <1>3. d \in Seq(Commands) /\ Len(d) = 2 /\ d[1] = h /\ d[2] = r
    BY <1>1
  <1> HIDE DEF d
  <1>4. 1 .. Len(d) = {1, 2}
    BY <1>3
  <1>5. InStream(d, k) \subseteq Kept(mdb, k)
    BY <1>2, <1>3, <1>4 DEF InStream, Kept, Versions
  <1>6. InOrder(d, k)
    BY <1>2, <1>3, <1>4 DEF InOrder
  <1>7. QED
    BY <1>3, <1>5, <1>6 DEF d, h, r

\* The master answers a sync request.
LEMMA SyncAging ==
  ASSUME TypeOK, NEW k \in Keys, Aging(k), MasterSync
  PROVE  Aging(k)'
  <1> DEFINE X == Kept(mdb, k)
             d == << [op |-> "HEADER"], [op |-> "RDB", db |-> mdb] >>
             e == [op |-> "ERR"]
             f == [op |-> "FULLRESYNC"]
  <1>1. /\ m2p \in Seq(Commands) /\ InOrder(m2p, k)
        /\ UNCHANGED << store, sdb, mdb, clock, answers, p2s, chunk >>
    BY DEF TypeOK, LinkType, MasterSync, queryVars, scanVars, Aging, StreamsInOrder
  <1>2. /\ e \in Commands /\ f \in Commands
        /\ \A v : ~Brings(e, k, v) /\ ~Brings(f, k, v)
    <2>1. e \in Commands /\ f \in Commands
      BY CommandTypes DEF Lines
    <2>2. QED
      BY <2>1 DEF Brings
  <1>3. d \in Seq(Commands) /\ InStream(d, k) \subseteq X /\ InOrder(d, k)
    BY SnapshotStream
  <1>4. \/ m2p' = Append(m2p, e)
        \/ m2p' = m2p \o << >> \o d
        \/ m2p' = m2p \o << f >> \o d
    BY DEF MasterSync
  <1> HIDE DEF d, e, f
  <1>5. /\ \A n \in Stages : n < 7 => Upto(Pipe(k)[n], X)
        /\ Upto(InStream(m2p, k), X) /\ Upto(X, {clock})
    <2>1. Pipe(k)[7] = X /\ Pipe(k)[6] = InStream(m2p, k)
      BY PipeStages
    <2>2. 6 \in Stages /\ 7 \in Stages /\ 6 < 7
      BY DEF Stages
    <2>3. QED
      BY <2>1, <2>2 DEF Aging, Ordered, Bounded
  <1> HIDE DEF X
  <1>6. /\ InStream(m2p', k) \subseteq InStream(m2p, k) \union X
        /\ InOrder(m2p', k)
    <2>1. CASE m2p' = Append(m2p, e)
      BY <1>1, <1>2, <2>1, NothingBrought
    <2>2. ASSUME NEW s \in Seq(Commands), InOrder(s, k), InStream(s, k) \subseteq InStream(m2p, k)
          PROVE  InStream(s \o d, k) \subseteq InStream(m2p, k) \union X /\ InOrder(s \o d, k)
      <3>1. Upto(InStream(s, k), InStream(d, k))
        BY <1>3, <1>5, <2>2 DEF Upto
      <3>2. QED
        BY <1>3, <2>2, <3>1, JoinStreams
    <2>3. CASE m2p' = m2p \o << >> \o d
      <3>1. m2p \o << >> = m2p
        BY <1>1
      <3>2. QED
        BY <1>1, <2>2, <2>3, <3>1
    <2>4. CASE m2p' = m2p \o << f >> \o d
      <3>1. m2p \o << f >> = Append(m2p, f) /\ Append(m2p, f) \in Seq(Commands)
        BY <1>1, <1>2, AppendIsConcat
      <3>2. InStream(Append(m2p, f), k) \subseteq InStream(m2p, k) /\ InOrder(Append(m2p, f), k)
        BY <1>1, <1>2, NothingBrought
      <3>3. QED
        BY <2>2, <2>4, <3>1, <3>2
    <2>5. QED
      BY <1>4, <2>1, <2>3, <2>4
  <1>7. /\ \A n \in Stages \ {6} : Pipe(k)'[n] \subseteq Pipe(k)[n]
        /\ Pipe(k)'[6] \subseteq Pipe(k)[6] \union X
        /\ Pipe(k)'[7] = X /\ 6 \in Stages
    <2>1. OnFile(k)' = OnFile(k)
      BY <1>1 DEF OnFile
    <2>2. /\ Pipe(k)'[1] = Pipe(k)[1] /\ Pipe(k)'[2] = Pipe(k)[2] /\ Pipe(k)'[3] = Pipe(k)[3]
          /\ Pipe(k)'[4] = Pipe(k)[4] /\ Pipe(k)'[5] = Pipe(k)[5] /\ Pipe(k)'[7] = Pipe(k)[7]
      BY <1>1, <2>1, PipeStages, PipeStagesNext
    <2>3. Pipe(k)'[6] \subseteq Pipe(k)[6] \union X /\ Pipe(k)[7] = X
      BY <1>6, PipeStages, PipeStagesNext DEF X
    <2>4. QED
      BY <2>2, <2>3, StageNumbers
  <1>8. Upto(X, X)
    BY ProxyAssumption DEF X, Kept, Upto, TypeOK, StoreType, DB
  <1>9. \A n \in Stages : /\ n < 6 => Upto(Pipe(k)[n], X)
                          /\ 6 < n => Upto(X, Pipe(k)'[n])
    BY <1>5, <1>7, <1>8 DEF Stages
  <1>10. StreamsInOrder(k)'
    BY <1>1, <1>6 DEF Aging, StreamsInOrder
  <1>11. QED
    BY <1>1, <1>5, <1>7, <1>9, <1>10, AgingFlow

\* What applying a command leaves of k: what was there or what it brings.
LEMMA ApplyBrings ==
  ASSUME NEW d \in DB, NEW c \in Commands, NEW k \in Keys
  PROVE  Kept(Apply(d, c), k) \subseteq Kept(d, k) \union {v \in Versions : Brings(c, k, v)}
  <1>1. Apply(d, c)[k] = d[k] \/ Apply(d, c)[k] = 0 \/ Brings(c, k, Apply(d, c)[k])
    <2>1. CASE c.op = "HSET"
      <3>1. c.key \in Keys /\ Apply(d, c) = [d EXCEPT ![c.key] = c.ver]
        BY <2>1, WriteFields DEF Apply
      <3>2. CASE c.key = k
        <4>1. Apply(d, c)[k] = c.ver
          BY <3>1, <3>2 DEF DB
        <4>2. QED
          BY <2>1, <3>2, <4>1 DEF Brings
      <3>3. CASE c.key # k
        BY <3>1, <3>3 DEF DB
      <3>4. QED
        BY <3>2, <3>3
    <2>2. CASE c.op = "DEL"
      <3>1. c.key \in Keys /\ Apply(d, c) = [d EXCEPT ![c.key] = 0]
        BY <2>2, WriteFields DEF Apply
      <3>2. QED
        BY <3>1 DEF DB
    <2>3. CASE c.op = "RDB"
      BY <2>3 DEF Apply, Brings
    <2>4. CASE c.op \notin {"HSET", "DEL", "RDB"}
      BY <2>4 DEF Apply
    <2>5. QED
      BY <2>1, <2>2, <2>3, <2>4
  <1>2. Apply(d, c)[k] \in 0 .. MaxVer
    BY ApplyType DEF DB
  <1>3. Apply(d, c)[k] # 0 => Apply(d, c)[k] \in Versions
    BY <1>2, ProxyAssumption DEF Versions
  <1>4. QED
    BY <1>1, <1>3 DEF Kept

\* The slave applies the oldest element of its stream.
LEMMA ApplyAging ==
  ASSUME TypeOK, NEW k \in Keys, Aging(k), SlaveApply
  PROVE  Aging(k)'
  <1> DEFINE X == {v \in Versions : Brings(p2s[1], k, v)}
  <1>1. /\ p2s \in Seq(Commands) /\ p2s # << >> /\ InOrder(p2s, k)
        /\ sdb \in DB /\ p2s' = Tail(p2s) /\ sdb' = Apply(sdb, p2s[1])
        /\ UNCHANGED << store, mdb, clock, answers, chunk, m2p >>
    BY DEF TypeOK, StoreType, SlaveApply, Aging, StreamsInOrder, masterVars, linkVars, queryVars,
           scanVars
  <1>2. p2s[1] \in Commands
    BY <1>1
  <1>3. Kept(sdb', k) \subseteq Kept(sdb, k) \union X
    BY <1>1, <1>2, ApplyBrings
  <1>4. /\ InStream(p2s', k) \subseteq InStream(p2s, k) /\ InOrder(p2s', k)
        /\ X \subseteq InStream(p2s, k) /\ Upto(X, InStream(p2s', k))
    BY <1>1, HeadOfStream DEF Upto
  <1> HIDE DEF X
  <1>5. /\ \A n \in Stages \ {3} : Pipe(k)'[n] \subseteq Pipe(k)[n]
        /\ Pipe(k)'[3] \subseteq Pipe(k)[3] \union X
        /\ 3 \in Stages /\ X \subseteq Pipe(k)[4] /\ Upto(X, Pipe(k)'[4])
        /\ \A n \in {5, 6, 7} : Pipe(k)'[n] = Pipe(k)[n]
    <2>1. OnFile(k)' = OnFile(k)
      BY <1>1 DEF OnFile
    <2>2. /\ Pipe(k)'[1] = Pipe(k)[1] /\ Pipe(k)'[2] = Pipe(k)[2] /\ Pipe(k)'[5] = Pipe(k)[5]
          /\ Pipe(k)'[6] = Pipe(k)[6] /\ Pipe(k)'[7] = Pipe(k)[7]
      BY <1>1, <2>1, PipeStages, PipeStagesNext
    <2>3. /\ Pipe(k)'[3] \subseteq Pipe(k)[3] \union X
          /\ Pipe(k)'[4] \subseteq Pipe(k)[4]
          /\ X \subseteq Pipe(k)[4] /\ Upto(X, Pipe(k)'[4])
      BY <1>3, <1>4, PipeStages, PipeStagesNext
    <2>4. QED
      BY <2>2, <2>3, StageNumbers
  <1>6. \A n \in Stages : /\ n < 3 => Upto(Pipe(k)[n], X)
                          /\ 3 < n => Upto(X, Pipe(k)'[n])
    <2>1. \A n \in Stages : /\ n < 4 => Upto(Pipe(k)[n], X)
                            /\ 4 < n => Upto(X, Pipe(k)[n])
      <3>1. 4 \in Stages
        BY DEF Stages
      <3>2. QED
        BY <1>5, <3>1 DEF Aging, Ordered, Upto
    <2>2. QED
      BY <1>5, <2>1 DEF Stages
  <1>7. Upto(X, {clock})
    <2>1. 4 \in Stages
      BY DEF Stages
    <2>2. QED
      BY <1>5, <2>1 DEF Aging, Bounded, Upto
  <1>8. StreamsInOrder(k)'
    BY <1>1, <1>4 DEF Aging, StreamsInOrder
  <1>9. QED
    BY <1>1, <1>5, <1>6, <1>7, <1>8, AgingFlow

\* The slave answers with what it has.
LEMMA AnswerAging ==
  ASSUME TypeOK, TypeOK', NEW k \in Keys, Aging(k), SlaveAnswer
  PROVE  Aging(k)'
  <1> DEFINE X == Kept(sdb, k)
  <1>1. PICK err \in BOOLEAN, s \in Sizes \union {1} :
          answers' = Append(answers,
                 [key |-> Head(queries).key, del |-> Head(queries).del,
                  ver |-> IF err THEN 0 ELSE sdb[Head(queries).key],
                  err |-> err, size |-> s])
    BY DEF SlaveAnswer
  <1> DEFINE a == [key |-> Head(queries).key, del |-> Head(queries).del,
                   ver |-> IF err THEN 0 ELSE sdb[Head(queries).key],
                   err |-> err, size |-> s]
  <1>2. /\ answers \in Seq(Answers) /\ answers' \in Seq(Answers) /\ sdb \in DB
        /\ answers' = Append(answers, a) /\ AnswersInOrder(answers, k)
        /\ UNCHANGED << store, sdb, mdb, clock, p2s, chunk, m2p >>
    BY <1>1
    DEF TypeOK, LinkType, StoreType, SlaveAnswer, Aging, StreamsInOrder, masterVars, linkVars, scanVars
  <1>3. a.key = k /\ a.ver # 0 => a.ver \in X
    BY DEF Kept
  <1> HIDE DEF a
  <1>4. a \in Answers
    <2>1. Len(answers) \in Nat /\ Len(answers') = Len(answers) + 1 /\ answers'[Len(answers) + 1] = a
      BY <1>2
    <2>2. Len(answers) + 1 \in 1 .. Len(answers')
      BY <2>1
    <2>3. QED
      BY <1>2, <2>1, <2>2, ElementOfSeq
  <1>5. Pipe(k)[2] = Answered(answers, k) /\ Pipe(k)[3] = X /\ 2 \in Stages /\ 3 \in Stages
    BY PipeStages, StageNumbers
  <1> HIDE DEF X
  <1>6. Upto(Answered(answers, k), X) /\ Upto(X, {clock})
    BY <1>5 DEF Aging, Ordered, Bounded
  <1>7. Answered(answers', k) \subseteq Answered(answers, k) \union X /\ AnswersInOrder(answers', k)
    <2>1. a.key = k /\ a.ver # 0 => Upto(Answered(answers, k), {a.ver})
      BY <1>3, <1>6 DEF Upto
    <2>2. {v \in Versions : a.key = k /\ a.ver = v} \subseteq X
      BY <1>3 DEF Versions
    <2>3. QED
      BY <1>2, <1>4, <2>1, <2>2, AnswerAppended
  <1>8. /\ \A n \in Stages \ {2} : Pipe(k)'[n] = Pipe(k)[n]
        /\ Pipe(k)'[2] \subseteq Pipe(k)[2] \union X
    <2>1. OnFile(k)' = OnFile(k)
      BY <1>2 DEF OnFile
    <2>2. /\ Pipe(k)'[1] = Pipe(k)[1] /\ Pipe(k)'[3] = Pipe(k)[3] /\ Pipe(k)'[4] = Pipe(k)[4]
          /\ Pipe(k)'[5] = Pipe(k)[5] /\ Pipe(k)'[6] = Pipe(k)[6] /\ Pipe(k)'[7] = Pipe(k)[7]
      BY <1>2, <2>1, PipeStages, PipeStagesNext
    <2>3. Pipe(k)'[2] \subseteq Pipe(k)[2] \union X
      BY <1>7, PipeStages, PipeStagesNext
    <2>4. QED
      BY <2>2, <2>3, StageNumbers
  <1>9. Upto(X, X)
    BY <1>2, ProxyAssumption DEF X, Kept, Upto, DB
  <1>10. \A n \in Stages : /\ n < 2 => Upto(Pipe(k)[n], X)
                           /\ 2 < n => Upto(X, Pipe(k)'[n])
    <2>1. \A n \in Stages : /\ n < 3 => Upto(Pipe(k)[n], X)
                            /\ 3 < n => Upto(X, Pipe(k)[n])
      BY <1>5 DEF Aging, Ordered
    <2>2. QED
      BY <1>5, <1>8, <1>9, <2>1 DEF Stages
  <1>11. StreamsInOrder(k)'
    BY <1>2, <1>7 DEF Aging, StreamsInOrder
  <1>12. QED
    BY <1>2, <1>5, <1>6, <1>8, <1>10, <1>11, AgingFlow

\* No file of k goes back in this step.
Forth(k) ==
  \A r \in Replicas :
    store[r][k] # NULL /\ store'[r][k].ver # 0 => store'[r][k].ver >= store[r][k].ver

\* The first reply is parsed to its end.
LEMMA ReplyTaken ==
  ASSUME TypeOK, InStep, answers # << >>, Consume(answers[1].size)
  PROVE  answers' = Tail(answers)
  <1>1. answers[1] \in Answers /\ off = 0
    BY DEF TypeOK, LinkType, InStep, QueueMatchesAnswers
  <1>2. answers[1].size \in Nat
    BY <1>1 DEF Answers
  <1>3. Rest = answers[1].size
    BY <1>1, <1>2 DEF Rest
  <1>4. QED
    BY <1>3 DEF Consume

\* An error reply is dropped.
LEMMA SimpleAging ==
  ASSUME TypeOK, InStep, NEW k \in Keys, Aging(k), ParseSimple
  PROVE  Aging(k)'
  <1>1. /\ answers \in Seq(Answers) /\ answers # << >> /\ AnswersInOrder(answers, k)
        /\ Consume(answers[1].size)
        /\ UNCHANGED << store, sdb, mdb, clock, p2s, chunk, m2p >>
    BY DEF TypeOK, LinkType, ParseSimple, InReply, Aging, StreamsInOrder, masterVars, linkVars, scanVars
  <1>2. answers' = Tail(answers)
    BY <1>1, ReplyTaken
  <1>3. Answered(answers', k) \subseteq Answered(answers, k) /\ AnswersInOrder(answers', k)
    BY <1>1, <1>2, AnswerTaken
  <1>4. StreamsInOrder(k)'
    BY <1>1, <1>3 DEF Aging, StreamsInOrder
  <1>5. QED
    BY <1>1, <1>3, <1>4, AgingShrinks

\* A reply is filed: what it says is not older than what was on file.
LEMMA ArrayAging ==
  ASSUME TypeOK, InStep, NEW k \in Keys, Aging(k), ParseArray
  PROVE  Aging(k)' /\ Forth(k)
  <1> DEFINE a == answers[1]
             X == {v \in Versions : a.key = k /\ a.ver = v}
  <1>1. /\ answers \in Seq(Answers) /\ answers # << >> /\ AnswersInOrder(answers, k)
        /\ a \in Answers /\ store \in [Replicas -> [Keys -> Archives \union {NULL}]]
        /\ saveValue(FirstQ(queue), a) /\ Consume(a.size) /\ queue' = PopQ(queue)
        /\ UNCHANGED << sdb, mdb, clock, p2s, chunk, m2p, queries >>
    BY DEF TypeOK, LinkType, StoreType, ParseArray, popHandle, InReply, Aging, StreamsInOrder,
           masterVars, linkVars, scanVars
  <1>2. answers' = Tail(answers) /\ FirstQ(queue) = a.key
    <2>1. pc' # "discard"
      BY DEF ParseArray, Resume
    <2>2. QED
      BY <1>1, <2>1, ReplyTaken, PopInStep
  <1>3. /\ Answered(answers', k) \subseteq Answered(answers, k) /\ AnswersInOrder(answers', k)
        /\ X \subseteq Answered(answers, k) /\ Upto(X, Answered(answers', k))
    <2>1. \A v \in X : a.key = k /\ a.ver # 0 /\ v = a.ver
      BY DEF Versions
    <2>2. QED
      BY <1>1, <1>2, <2>1, AnswerTaken DEF Upto
  <1> DEFINE e == [key |-> a.key, del |-> a.del, ver |-> a.ver]
  <1>4. PICK ok \in SUBSET Replicas :
          store' = [r \in Replicas |-> IF r \in ok THEN [store[r] EXCEPT ![a.key] = e] ELSE store[r]]
    BY <1>1, <1>2 DEF saveValue
  <1>5. e.ver = a.ver /\ a.key \in Keys /\ (a.ver # 0 => a.ver \in Versions)
    BY <1>1, AnswerFields
  <1> HIDE DEF a, e
  <1>6. \A r \in Replicas : \/ store'[r][k] = store[r][k]
                            \/ a.key = k /\ store'[r][k] = e
    BY <1>1, <1>4, <1>5
  <1>7. OnFile(k)' \subseteq OnFile(k) \union X
    BY <1>5, <1>6 DEF OnFile
  <1>8. /\ \A n \in Stages \ {1} : Pipe(k)'[n] \subseteq Pipe(k)[n]
        /\ Pipe(k)'[1] \subseteq Pipe(k)[1] \union X
        /\ 1 \in Stages /\ 2 \in Stages /\ X \subseteq Pipe(k)[2] /\ Upto(X, Pipe(k)'[2])
    <2> HIDE DEF X
    <2>1. /\ Pipe(k)'[3] = Pipe(k)[3] /\ Pipe(k)'[4] = Pipe(k)[4] /\ Pipe(k)'[5] = Pipe(k)[5]
          /\ Pipe(k)'[6] = Pipe(k)[6] /\ Pipe(k)'[7] = Pipe(k)[7]
      BY <1>1, PipeStages, PipeStagesNext
    <2>2. /\ Pipe(k)'[1] \subseteq Pipe(k)[1] \union X
          /\ Pipe(k)'[2] \subseteq Pipe(k)[2]
          /\ X \subseteq Pipe(k)[2] /\ Upto(X, Pipe(k)'[2])
      BY <1>3, <1>7, PipeStages, PipeStagesNext
    <2>3. QED
      BY <2>1, <2>2, StageNumbers
  <1>9. /\ Upto(X, {clock})
        /\ \A n \in Stages : 2 < n => Upto(X, Pipe(k)[n])
        /\ Upto(Pipe(k)[1], X)
    <2> HIDE DEF X
    <2>1. 1 < 2
      OBVIOUS
    <2>2. QED
      BY <1>8, <2>1 DEF Aging, Ordered, Bounded, Upto
  <1>10. \A n \in Stages : /\ n < 1 => Upto(Pipe(k)[n], X)
                           /\ 1 < n => Upto(X, Pipe(k)'[n])
    <2> HIDE DEF X
    <2>1. \A n \in Stages : ~(n < 1) /\ (1 < n => n = 2 \/ 2 < n) /\ (2 < n => n \in Stages \ {1})
      BY DEF Stages
    <2>2. QED
      BY <1>8, <1>9, <2>1 DEF Upto
  <1>11. Aging(k)'
    <2>1. StreamsInOrder(k)'
      BY <1>1, <1>3 DEF Aging, StreamsInOrder
    <2> HIDE DEF X
    <2>2. QED
      BY <1>1, <1>8, <1>9, <1>10, <2>1, AgingFlow
  <1>12. Forth(k)
    <2> SUFFICES ASSUME NEW r \in Replicas, store[r][k] # NULL, store'[r][k].ver # 0
                 PROVE  store'[r][k].ver >= store[r][k].ver
      BY DEF Forth
    <2>1. store[r][k] \in Archives
      BY <1>1
    <2>2. store[r][k].ver \in 0 .. MaxVer
      BY <2>1 DEF Archives
    <2>3. CASE store'[r][k] = store[r][k]
      BY <2>2, <2>3, ProxyAssumption
    <2>4. CASE a.key = k /\ store'[r][k] = e
      <3>1. a.ver \in X /\ a.ver \in Versions /\ store'[r][k].ver = a.ver
        BY <1>5, <2>4
      <3>2. CASE store[r][k].ver = 0
        BY <3>1, <3>2, ProxyAssumption DEF Versions
      <3>3. CASE store[r][k].ver # 0
        <4>1. store[r][k].ver \in Versions
          BY <2>2, <3>3, ProxyAssumption DEF Versions
        <4>2. store[r][k].ver \in OnFile(k)
          BY <4>1 DEF OnFile
        <4>3. Upto(OnFile(k), X)
          BY <1>9, PipeStages
        <4>4. store[r][k].ver <= a.ver
          BY <3>1, <4>2, <4>3 DEF Upto
        <4>5. QED
          BY <3>1, <4>1, <4>4, ProxyAssumption DEF Versions
      <3>4. QED
        BY <3>2, <3>3
    <2>5. QED
      BY <1>6, <2>3, <2>4
  <1>13. QED
    BY <1>11, <1>12

\* Data passed on, or dropped when there is no slave.
LEMMA PassAging ==
  ASSUME TypeOK, NEW k \in Keys, Aging(k), UNCHANGED << store, sdb, mdb, clock, answers >>,
         NEW d \in Seq(Commands), Forward(d), InOrder(d, k), chunk' = << >>,
         InStream(m2p', k) \subseteq InStream(m2p, k), InOrder(m2p', k),
         Upto(InStream(d, k), InStream(m2p', k)),
         \/ InStream(d, k) \subseteq InStream(chunk, k)
         \/ InStream(d, k) \subseteq InStream(m2p, k)
  PROVE  Aging(k)'
  <1>1. CASE p2s' = p2s \o d
    BY <1>1, AgingForward
  <1>2. CASE p2s' = p2s
    <2>1. StreamsInOrder(k)' /\ InStream(chunk', k) \subseteq InStream(chunk, k)
      BY <1>2, EmptyStreams DEF Aging, StreamsInOrder
    <2>2. QED
      BY <1>2, <2>1, AgingShrinks
  <1>3. QED
    BY <1>1, <1>2 DEF Forward

\* closeFd and exit lose what is on the link and the replies.
LEMMA LinkLost ==
  ASSUME WriteFails \/ Exit \/ \E f : closeFd(f)
  PROVE  /\ m2p' = << >> /\ answers' = << >>
         /\ WriteFails \/ Exit => chunk' = << >>
  BY DEF WriteFails, Exit, closeFd, LoseSockets

\* A write that breaks off has passed on the start of the data, and the link is
\* lost.
LEMMA BreakAging ==
  ASSUME TypeOK, NEW k \in Keys, Aging(k), UNCHANGED << store, sdb, mdb, clock >>,
         NEW d \in Seq(Commands), ForwardFails(d), InOrder(d, k),
         \/ InStream(d, k) \subseteq InStream(chunk, k)
         \/ InStream(d, k) \subseteq InStream(m2p, k)
  PROVE  Aging(k)'
  <1>1. PICK n \in 0 .. Len(d) : p2s' = p2s \o SubSeq(d, 1, n)
    BY DEF ForwardFails
  <1>2. m2p' = << >> /\ answers' = << >> /\ chunk' = << >>
    BY LinkLost DEF ForwardFails
  <1> DEFINE e == SubSeq(d, 1, n)
  <1>3. e \in Seq(Commands) /\ InStream(e, k) \subseteq InStream(d, k) /\ InOrder(e, k)
    BY PrefixOfStream
  <1>4. /\ InStream(m2p', k) = {} /\ InOrder(m2p', k)
        /\ Upto(InStream(e, k), InStream(m2p', k))
    BY <1>2, EmptyStreams DEF Upto
  <1>5. p2s' = p2s \o e
    BY <1>1
  <1> HIDE DEF e
  <1>6. \/ InStream(e, k) \subseteq InStream(chunk, k)
        \/ InStream(e, k) \subseteq InStream(m2p, k)
    BY <1>3
  <1>7. QED
    BY <1>2, <1>3, <1>4, <1>5, <1>6, AgingForward

\* The first element of the link as data.
LEMMA FirstOfLink ==
  ASSUME TypeOK, NEW k \in Keys, Aging(k), m2p # << >>
  PROVE  /\ << m2p[1] >> \in Seq(Commands) /\ InOrder(<< m2p[1] >>, k)
         /\ InStream(<< m2p[1] >>, k) \subseteq InStream(m2p, k)
         /\ InStream(Tail(m2p), k) \subseteq InStream(m2p, k) /\ InOrder(Tail(m2p), k)
         /\ Upto(InStream(<< m2p[1] >>, k), InStream(Tail(m2p), k))
  <1>1. m2p \in Seq(Commands) /\ InOrder(m2p, k)
    BY DEF TypeOK, LinkType, Aging, StreamsInOrder
  <1>2. m2p[1] \in Commands
    BY <1>1
  <1>3. /\ << m2p[1] >> \in Seq(Commands) /\ InOrder(<< m2p[1] >>, k)
        /\ InStream(<< m2p[1] >>, k) = {v \in Versions : Brings(m2p[1], k, v)}
    BY <1>2, SingleStream
  <1>4. /\ InStream(Tail(m2p), k) \subseteq InStream(m2p, k) /\ InOrder(Tail(m2p), k)
        /\ \A v \in Versions : Brings(m2p[1], k, v) =>
             v \in InStream(m2p, k) /\ Upto({v}, InStream(Tail(m2p), k))
    BY <1>1, HeadOfStream
  <1>5. QED
    BY <1>3, <1>4 DEF Upto

\* A read from the link that is passed on at once.
LEMMA ReadAging ==
  ASSUME TypeOK, NEW k \in Keys, Aging(k), UNCHANGED << store, sdb, mdb, clock, answers, chunk >>,
         chunk = << >>, NEW n \in 0 .. Len(m2p), m2p' = SubSeq(m2p, n + 1, Len(m2p)),
         Forward(SubSeq(m2p, 1, n))
  PROVE  Aging(k)'
  <1> DEFINE d == SubSeq(m2p, 1, n)
  <1>1. /\ m2p \in Seq(Commands) /\ InOrder(m2p, k)
        /\ n \in 0 .. n /\ 1 \in Nat \ {0}
    BY DEF TypeOK, LinkType, Aging, StreamsInOrder
  <1>2. /\ InStream(d, k) \subseteq InStream(m2p, k) /\ InOrder(d, k)
        /\ InStream(m2p', k) \subseteq InStream(m2p, k) /\ InOrder(m2p', k)
        /\ Upto(InStream(d, k), InStream(m2p', k))
    BY <1>1, CutStream
  <1>3. d \in Seq(Commands) /\ Forward(d)
    BY <1>1, SubSeqIn
  <1> HIDE DEF d
  <1>4. QED
    BY <1>2, <1>3, PassAging

\* readFromMaster in SYNC_START_STATE.
LEMMA HeaderAging ==
  ASSUME TypeOK, OneChunk, NEW k \in Keys, Aging(k), ReadSyncHeader
  PROVE  Aging(k)'
  <1>1. /\ m2p \in Seq(Commands) /\ m2p # << >> /\ InOrder(m2p, k) /\ chunk = << >>
        /\ UNCHANGED << store, sdb, mdb, clock >>
    BY DEF TypeOK, LinkType, ReadSyncHeader, CanReadMaster, OneChunk, Aging, StreamsInOrder
  <1>3. CASE ForwardFails(<< m2p[1] >>)
    BY <1>1, <1>3, FirstOfLink, BreakAging
  <1>4. CASE Exit /\ p2s' = p2s \o << m2p[1] >>
    <2>1. m2p' = << >> /\ answers' = << >> /\ chunk' = << >>
      BY <1>4, LinkLost
    <2>2. /\ InStream(m2p', k) = {} /\ InOrder(m2p', k)
          /\ Upto(InStream(<< m2p[1] >>, k), InStream(m2p', k))
      BY <2>1, EmptyStreams DEF Upto
    <2>3. QED
      BY <1>1, <1>4, <2>1, <2>2, FirstOfLink, AgingForward
  <1>5. CASE \E n \in {1, 2} :
               LET taken == SubSeq(m2p, 1, n)
               IN  /\ n = 2 => Len(m2p) > 1
                   /\ m2p' = SubSeq(m2p, n + 1, Len(m2p))
                   /\ Forward(taken)
                   /\ UNCHANGED << queryVars, scanVars >>
    <2>1. PICK n \in {1, 2} : /\ n = 2 => Len(m2p) > 1
                              /\ m2p' = SubSeq(m2p, n + 1, Len(m2p))
                              /\ Forward(SubSeq(m2p, 1, n))
                              /\ UNCHANGED << queryVars, scanVars >>
      BY <1>5
    <2>2. Len(m2p) \in Nat /\ Len(m2p) >= 1
      BY <1>1
    <2>3. n \in 0 .. Len(m2p)
      BY <2>1, <2>2
    <2>4. QED
      BY <1>1, <2>1, <2>3, ReadAging DEF queryVars, scanVars
  <1>6. QED
    BY <1>3, <1>4, <1>5 DEF ReadSyncHeader

\* readFromMaster in SYNC_STATE.
LEMMA PayloadAging ==
  ASSUME TypeOK, OneChunk, NEW k \in Keys, Aging(k), ReadSyncPayload
  PROVE  Aging(k)'
  <1>1. chunk = << >> /\ UNCHANGED << store, sdb, mdb, clock >>
    BY DEF ReadSyncPayload, CanReadMaster, OneChunk
  <1>2. CASE m2p # << >> /\ ForwardFails(<< m2p[1] >>)
    BY <1>1, <1>2, FirstOfLink, BreakAging
  <1>3. CASE /\ m2p # << >> /\ m2p' = Tail(m2p) /\ Forward(<< m2p[1] >>)
             /\ UNCHANGED << queryVars, scanVars >>
    BY <1>1, <1>3, FirstOfLink, PassAging DEF queryVars, scanVars
  <1>4. CASE UNCHANGED << linkVars, queryVars, scanVars, p2s >>
    BY <1>1, <1>4, AgingLoses DEF linkVars, queryVars, scanVars
  <1>5. QED
    BY <1>2, <1>3, <1>4 DEF ReadSyncPayload

\* readFromMaster in START_STATE.
LEMMA BeforeSyncAging ==
  ASSUME TypeOK, OneChunk, NEW k \in Keys, Aging(k), ReadBeforeSync
  PROVE  Aging(k)'
  <1>1. /\ m2p \in Seq(Commands) /\ InOrder(m2p, k) /\ chunk = << >>
        /\ UNCHANGED << store, sdb, mdb, clock >>
    BY DEF TypeOK, LinkType, ReadBeforeSync, CanReadMaster, OneChunk, Aging, StreamsInOrder
  <1>2. PICK n \in 1 .. Len(m2p) :
          \/ /\ m2p' = SubSeq(m2p, n + 1, Len(m2p)) /\ Forward(SubSeq(m2p, 1, n))
             /\ UNCHANGED << queryVars, scanVars >>
          \/ ForwardFails(SubSeq(m2p, 1, n))
    BY DEF ReadBeforeSync
  <1>3. n \in 0 .. Len(m2p)
    BY <1>1
  <1>4. CASE ForwardFails(SubSeq(m2p, 1, n))
    BY <1>1, <1>3, <1>4, PrefixOfStream, BreakAging
  <1>5. CASE /\ m2p' = SubSeq(m2p, n + 1, Len(m2p)) /\ Forward(SubSeq(m2p, 1, n))
             /\ UNCHANGED << queryVars, scanVars >>
    BY <1>1, <1>3, <1>5, ReadAging DEF queryVars, scanVars
  <1>6. QED
    BY <1>2, <1>4, <1>5

\* readFromMaster in RUNNING_STATE takes a chunk.
LEMMA CommandsAging ==
  ASSUME TypeOK, NEW k \in Keys, Aging(k), ReadCommands
  PROVE  Aging(k)'
  <1> DEFINE X == InStream(chunk', k)
  <1>1. /\ m2p \in Seq(Commands) /\ InOrder(m2p, k)
        /\ UNCHANGED << store, sdb, mdb, clock, answers, p2s >>
    BY DEF TypeOK, LinkType, ReadCommands, Aging, StreamsInOrder, masterVars, queryVars
  <1>2. PICK n \in 1 .. Len(m2p) : /\ chunk' = SubSeq(m2p, 1, n)
                                   /\ m2p' = SubSeq(m2p, n + 1, Len(m2p))
    BY DEF ReadCommands
  <1>3. n \in 0 .. Len(m2p) /\ n \in 0 .. n
    BY <1>1
  <1>4. /\ X \subseteq InStream(m2p, k) /\ InOrder(chunk', k)
        /\ InStream(m2p', k) \subseteq InStream(m2p, k) /\ InOrder(m2p', k)
        /\ Upto(X, InStream(m2p', k))
    BY <1>1, <1>2, <1>3, CutStream
  <1>5. /\ \A i \in Stages \ {5} : Pipe(k)'[i] \subseteq Pipe(k)[i]
        /\ Pipe(k)'[5] \subseteq Pipe(k)[5] \union X
        /\ 5 \in Stages /\ 6 \in Stages /\ X \subseteq Pipe(k)[6] /\ Upto(X, Pipe(k)'[6])
        /\ Pipe(k)'[7] = Pipe(k)[7]
    <2>1. OnFile(k)' = OnFile(k)
      BY <1>1 DEF OnFile
    <2>2. /\ Pipe(k)'[1] = Pipe(k)[1] /\ Pipe(k)'[2] = Pipe(k)[2] /\ Pipe(k)'[3] = Pipe(k)[3]
          /\ Pipe(k)'[4] = Pipe(k)[4] /\ Pipe(k)'[7] = Pipe(k)[7]
      BY <1>1, <2>1, PipeStages, PipeStagesNext
    <2>3. /\ Pipe(k)'[5] = X /\ Pipe(k)'[6] \subseteq Pipe(k)[6]
          /\ X \subseteq Pipe(k)[6] /\ Upto(X, Pipe(k)'[6])
      BY <1>4, PipeStages, PipeStagesNext
    <2> HIDE DEF X
    <2>4. QED
      BY <2>2, <2>3, StageNumbers
  <1>6. StreamsInOrder(k)'
    BY <1>1, <1>4 DEF Aging, StreamsInOrder
  <1> HIDE DEF X
  <1>7. /\ \A i \in Stages : i < 6 => Upto(Pipe(k)[i], X)
        /\ \A i \in Stages : 6 < i => Upto(X, Pipe(k)[i])
        /\ Upto(X, {clock})
    BY <1>5 DEF Aging, Ordered, Bounded, Upto
  <1>8. \A i \in Stages : /\ i < 5 => Upto(Pipe(k)[i], X)
                          /\ 5 < i => Upto(X, Pipe(k)'[i])
    BY <1>5, <1>7 DEF Stages
  <1>9. QED
    BY <1>1, <1>5, <1>6, <1>7, <1>8, AgingFlow

\* The end of readFromMaster: the chunk is passed on.
LEMMA ChunkAging ==
  ASSUME TypeOK, NEW k \in Keys, Aging(k), ForwardChunk
  PROVE  Aging(k)'
  <1>1. /\ chunk \in Seq(Commands) /\ InOrder(chunk, k) /\ InOrder(m2p, k)
        /\ UNCHANGED << store, sdb, mdb, clock >>
    BY DEF TypeOK, HandlerType, ForwardChunk, Aging, StreamsInOrder
  <1>2. Upto(InStream(chunk, k), InStream(m2p, k))
    <2>1. 5 \in Stages /\ 6 \in Stages /\ 5 < 6
      BY DEF Stages
    <2>2. QED
      BY <2>1, PipeStages DEF Aging, Ordered
  <1>3. CASE ForwardFails(chunk)
    BY <1>1, <1>3, BreakAging
  <1>4. CASE Exit /\ UNCHANGED p2s
    BY <1>1, <1>4, LinkLost, AgingLoses
  <1>5. CASE Forward(chunk) /\ chunk' = << >> /\ UNCHANGED << linkVars, queryVars >>
    BY <1>1, <1>2, <1>5, PassAging DEF linkVars, queryVars
  <1>6. QED
    BY <1>3, <1>4, <1>5 DEF ForwardChunk

\* Nothing overtakes the chunk.
LEMMA NextOneChunk ==
  ASSUME OneChunk, [Next]_vars
  PROVE  OneChunk'
  <1>1. CASE WriteFails \/ Exit
    BY <1>1, LinkLost DEF OneChunk
  <1>2. CASE ~WriteFails /\ ~Exit
    <2>1. CASE Environment \/ UNCHANGED vars
      BY <2>1
      DEF Environment, MasterWrite, MasterDel, MasterSync, SlaveApply, SlaveAnswer, vars, scanVars,
          OneChunk
    <2>2. CASE timeEvent \/ acceptTcpHandler \/ readDataFails \/ readFromSlave
      BY <1>2, <2>2 DEF timeEvent, acceptTcpHandler, readDataFails, readFromSlave, scanVars, OneChunk
    <2>3. CASE ReadSyncHeader \/ ReadSyncPayload \/ ReadBeforeSync
      BY <1>2, <2>3
      DEF ReadSyncHeader, ReadSyncPayload, ReadBeforeSync, ForwardFails, scanVars, OneChunk
    <2>4. CASE ReadCommands
      BY <2>4 DEF ReadCommands, OneChunk
    <2>5. CASE ScanDel
      BY <1>2, <2>5 DEF ScanDel, queryKey, OneChunk
    <2>6. CASE ScanSkip
      BY <2>6 DEF ScanSkip, OneChunk
    <2>7. CASE ForwardChunk
      BY <1>2, <2>7 DEF ForwardChunk, ForwardFails, OneChunk
    <2>8. CASE readDelValue \/ ParseArray \/ ParseSimple \/ ParseIncomplete
      BY <2>8
      DEF readDelValue, ParseArray, ParseSimple, ParseIncomplete, InReply, Resume, scanVars, OneChunk
    <2>9. CASE PopOnEmpty
      BY <1>2, <2>9 DEF PopOnEmpty
    <2>10. CASE UnexpectedData \/ Discard \/ ParseBulkString
      BY <1>2, <2>10
      DEF UnexpectedData, Discard, ParseBulkString, MidReply, Resume, scanVars, OneChunk
    <2>11. QED
      BY <2>1, <2>2, <2>3, <2>4, <2>5, <2>6, <2>7, <2>8, <2>9, <2>10
      DEF Next, Handler, Continue
  <1>3. QED
    BY <1>1, <1>2

\* A step that writes no file.
LEMMA ForthFrame ==
  ASSUME TypeOK, NEW k \in Keys, UNCHANGED store
  PROVE  Forth(k)
  <1> SUFFICES ASSUME NEW r \in Replicas, store[r][k] # NULL
               PROVE  store'[r][k].ver >= store[r][k].ver
    BY DEF Forth
  <1>1. store[r][k] \in Archives
    BY DEF TypeOK, StoreType
  <1>2. store[r][k].ver \in 0 .. MaxVer
    BY <1>1 DEF Archives
  <1>3. QED
    BY <1>2, ProxyAssumption

\* Every step keeps the versions sorted, and no file goes back.
LEMMA NextAging ==
  ASSUME TypeOK, TypeOK', InStep, OneChunk, NEW k \in Keys, Aging(k), [Next]_vars
  PROVE  Aging(k)' /\ Forth(k)
  <1>1. CASE ParseArray
    BY <1>1, ArrayAging
  <1>2. CASE ~ParseArray
    <2>0. pc # "discard" /\ off = 0
      BY DEF InStep, QueueMatchesAnswers
    <2>1. UNCHANGED store
      BY <1>2
      DEF Next, Environment, Handler, Continue, MasterWrite, MasterDel, MasterSync, SlaveApply,
          SlaveAnswer, timeEvent, acceptTcpHandler, readDataFails, readFromSlave, ReadSyncHeader,
          ReadSyncPayload, ReadBeforeSync, ReadCommands, readDelValue, ScanDel, ScanSkip,
          ForwardChunk, PopOnEmpty, ParseSimple, ParseIncomplete, UnexpectedData, Discard,
          ParseBulkString, vars
    <2> SUFFICES Aging(k)'
      BY <2>1, ForthFrame
    <2>2. CASE \E x \in Keys : MasterWrite(x) \/ MasterDel(x)
      BY <2>2, WriteAging, DelAging
    <2>3. CASE MasterSync \/ SlaveApply \/ SlaveAnswer
      BY <2>3, SyncAging, ApplyAging, AnswerAging
    <2>4. CASE ReadSyncHeader \/ ReadSyncPayload \/ ReadBeforeSync \/ ReadCommands \/ ForwardChunk
      BY <2>4, HeaderAging, PayloadAging, BeforeSyncAging, CommandsAging, ChunkAging
    <2>5. CASE ParseSimple
      BY <2>5, SimpleAging
    <2>6. CASE \/ timeEvent \/ acceptTcpHandler \/ readDataFails \/ readFromSlave
               \/ PopOnEmpty
      <3>1. UNCHANGED << sdb, mdb, clock >> /\ (p2s' = p2s \/ p2s' = << >>)
        <4>1. CASE timeEvent \/ readDataFails \/ readFromSlave \/ PopOnEmpty
          <5>1. UNCHANGED << sdb, mdb, clock, p2s >>
            BY <4>1 DEF timeEvent, readDataFails, readFromSlave, PopOnEmpty, masterVars
          <5>2. QED
            BY <5>1
        <4>2. CASE acceptTcpHandler
          BY <4>2 DEF acceptTcpHandler
        <4>3. QED
          BY <2>6, <4>1, <4>2
      <3>2. CASE WriteFails \/ Exit
        BY <2>1, <3>1, <3>2, LinkLost, AgingLoses
      <3>3. CASE ~WriteFails /\ ~Exit
        <4>1. chunk' = chunk
          BY <2>6, <3>3
          DEF timeEvent, acceptTcpHandler, readDataFails, readFromSlave, PopOnEmpty, scanVars
        <4>2. (\E f : closeFd(f)) \/ (m2p' = m2p /\ answers' = answers)
          BY <2>6, <3>3
          DEF timeEvent, acceptTcpHandler, readDataFails, readFromSlave, PopOnEmpty, linkVars,
              queryVars
        <4>3. QED
          BY <2>1, <3>1, <4>1, <4>2, LinkLost, AgingLoses
      <3>4. QED
        BY <3>2, <3>3
    <2>7. CASE ScanDel
      <3>1. UNCHANGED << sdb, mdb, clock, p2s >>
        BY <2>7 DEF ScanDel
      <3>2. CASE Exit
        BY <2>1, <3>1, <3>2, LinkLost, AgingLoses
      <3>3. CASE ~Exit
        <4>1. chunk' = chunk /\ ((\E f : closeFd(f)) \/ (m2p' = m2p /\ answers' = answers))
          BY <2>7, <3>3 DEF ScanDel, queryKey, linkVars, queryVars
        <4>2. QED
          BY <2>1, <3>1, <4>1, LinkLost, AgingLoses
      <3>4. QED
        BY <3>2, <3>3
    <2>8. CASE ScanSkip \/ readDelValue \/ ParseIncomplete \/ UNCHANGED vars
      <3>1. UNCHANGED << sdb, mdb, clock, p2s, chunk, m2p, answers >>
        BY <2>8
        DEF ScanSkip, readDelValue, ParseIncomplete, vars, masterVars, linkVars, queryVars, scanVars
      <3>2. QED
        BY <2>1, <3>1, AgingLoses
    <2>9. CASE UnexpectedData \/ Discard \/ ParseBulkString
      BY <2>0, <2>9 DEF UnexpectedData, Discard, ParseBulkString, MidReply
    <2>10. QED
      BY <1>2, <2>2, <2>3, <2>4, <2>5, <2>6, <2>7, <2>8, <2>9
      DEF Next, Environment, Handler, Continue
  <1>3. QED
    BY <1>1, <1>2

\* The initial state has no version anywhere.
LEMMA InitAging ==
  ASSUME Init, NEW k \in Keys
  PROVE  Aging(k)
  <1>1. /\ answers = << >> /\ p2s = << >> /\ chunk = << >> /\ m2p = << >>
        /\ sdb[k] = 0 /\ mdb[k] = 0 /\ \A r \in Replicas : store[r][k] = NULL
    BY DEF Init
  <1>2. StreamsInOrder(k)
    BY <1>1, EmptyStreams DEF StreamsInOrder
  <1>3. OnFile(k) = {} /\ Kept(sdb, k) = {} /\ Kept(mdb, k) = {}
    BY <1>1 DEF OnFile, Kept
  <1>4. /\ Pipe(k)[1] = {} /\ Pipe(k)[2] = {} /\ Pipe(k)[3] = {} /\ Pipe(k)[4] = {}
        /\ Pipe(k)[5] = {} /\ Pipe(k)[6] = {} /\ Pipe(k)[7] = {}
    BY <1>1, <1>3, EmptyStreams, PipeStages
  <1>5. \A n \in Stages : Pipe(k)[n] = {}
    BY <1>4, StageNumbers
  <1>6. QED
    BY <1>2, <1>5 DEF Aging, Ordered, Bounded, Upto

AllAging == OneChunk /\ \A k \in Keys : Aging(k)

\* As long as no reply exceeds one read, a file is never overwritten with an
\* older value of its key, whatever the order in which the slave serves its two
\* connections and wherever a connection breaks (popHandle, saveValue).
THEOREM FilesNeverGoBack == AnswersFit => (Spec => ArchiveNeverGoesBack)
  <1> SUFFICES ASSUME AnswersFit
               PROVE  Spec => ArchiveNeverGoesBack
    OBVIOUS
  <1>1. Init => InStep /\ AllAging
    <2>1. Init => OneChunk
      BY DEF Init, OneChunk
    <2>2. Init => InStep
      BY DEF Init, InStep, QueueMatchesAnswers, ArchivedUnderOwnKey
    <2>3. Init => \A k \in Keys : Aging(k)
      BY InitAging
    <2>4. QED
      BY <2>1, <2>2, <2>3 DEF AllAging
  <1>2. TypeOK /\ InStep /\ [Next]_vars => InStep'
    BY NextInStep
  <1>3. TypeOK /\ TypeOK' /\ InStep /\ AllAging /\ [Next]_vars =>
          AllAging' /\ \A k \in Keys : Forth(k)
    BY NextAging, NextOneChunk DEF AllAging
  <1>4. (\A k \in Keys : Forth(k)) =>
          [\A r \in Replicas, k \in Keys :
             store[r][k] # NULL /\ store'[r][k].ver # 0
               => store'[r][k].ver >= store[r][k].ver]_vars
    BY DEF Forth
  <1>5. QED
    BY <1>1, <1>2, <1>3, <1>4, TypeCorrect, PTL DEF Spec, ArchiveNeverGoesBack

-----------------------------------------------------------------------------
(* The proxy is transparent.                                               *)

\* The master feeds the proxy only at the request of a slave that is there:
\* client_fd is -1 again only after a reset, which ends the feeding.
FeedsSlave == feeding \/ p2m # "none" => fd["client"] # "closed"

\* What is on its way to the slave.
Stream == p2s \o chunk \o m2p

\* A command that fixes the version of k does so whatever was there before;
\* any other leaves it alone.
LEMMA SetsFixes ==
  ASSUME NEW d \in DB, NEW e \in DB, NEW c \in Commands, NEW k \in Keys
  PROVE  /\ Sets(c, k) => Apply(d, c)[k] = Apply(e, c)[k]
         /\ ~Sets(c, k) => Apply(d, c)[k] = d[k]
  <1>1. CASE c.op = "HSET" \/ c.op = "DEL"
    BY <1>1, WriteFields DEF Sets, Apply, DB
  <1>2. CASE c.op = "RDB"
    BY <1>2 DEF Sets, Apply
  <1>3. CASE c.op \notin {"HSET", "DEL", "RDB"}
    BY <1>3 DEF Sets, Apply
  <1>4. QED
    BY <1>1, <1>2, <1>3

\* A stream cut in two, and one put behind another that grows.
LEMMA CutInTwo ==
  ASSUME NEW S, NEW s \in Seq(S), NEW n \in 0 .. Len(s)
  PROVE  SubSeq(s, 1, n) \o SubSeq(s, n + 1, Len(s)) = s
  <1> DEFINE a == SubSeq(s, 1, n)
             b == SubSeq(s, n + 1, Len(s))
  <1>1. /\ a \in Seq(S) /\ Len(a) = n /\ \A i \in 1 .. n : a[i] = s[i]
        /\ b \in Seq(S) /\ Len(b) = Len(s) - n /\ \A i \in 1 .. Len(s) - n : b[i] = s[n + i]
    OBVIOUS
  <1> HIDE DEF a, b
  <1>0. Len(s) \in Nat /\ n \in Nat
    OBVIOUS
  <1>2. /\ a \o b \in Seq(S) /\ Len(a \o b) = Len(s)
        /\ \A i \in 1 .. Len(s) : (a \o b)[i] = IF i <= n THEN a[i] ELSE b[i - n]
    BY <1>1, ConcatProperties
  <1>3. ASSUME NEW i \in 1 .. Len(s) PROVE (a \o b)[i] = s[i]
    <2>1. CASE i <= n
      BY <1>1, <1>2, <2>1
    <2>2. CASE i > n
      <3>1. i - n \in 1 .. Len(s) - n /\ n + (i - n) = i /\ ~(i <= n)
        BY <2>2
      <3>2. b[i - n] = s[n + (i - n)]
        BY <1>1, <3>1
      <3>3. QED
        BY <1>2, <3>1, <3>2
    <2>3. i <= n \/ i > n
      BY <1>0
    <2>4. QED
      BY <2>1, <2>2, <2>3
  <1>4. a \o b = s
    BY <1>2, <1>3, SeqEqual
  <1>5. QED
    BY <1>4 DEF a, b

\* The first element taken off is a stream cut after it.
LEMMA FirstOff ==
  ASSUME NEW S, NEW s \in Seq(S), s # << >>
  PROVE  /\ 1 \in 0 .. Len(s)
         /\ SubSeq(s, 1, 1) = << s[1] >>
         /\ SubSeq(s, 1 + 1, Len(s)) = Tail(s)
  <1>1. Len(s) \in Nat /\ Len(s) # 0
    OBVIOUS
  <1>2. 1 \in 0 .. Len(s)
    BY <1>1
  <1>3. SubSeq(s, 1, 1) = << s[1] >>
    <2> DEFINE a == SubSeq(s, 1, 1)
               b == << s[1] >>
    <2>1. a \in Seq(S) /\ Len(a) = 1 /\ a[1] = s[1]
      BY <1>1, <1>2
    <2>2. b \in Seq(S) /\ Len(b) = 1 /\ b[1] = s[1]
      BY <1>1, <1>2
    <2> HIDE DEF a, b
    <2>3. a = b
      BY <2>1, <2>2, SeqEqual
    <2>4. QED
      BY <2>3 DEF a, b
  <1>4. SubSeq(s, 1 + 1, Len(s)) = Tail(s)
    BY <1>1
  <1>5. QED
    BY <1>2, <1>3, <1>4

\* Three streams, one behind the other.
LEMMA ThreeJoined ==
  ASSUME NEW S, NEW s \in Seq(S), NEW t \in Seq(S), NEW u \in Seq(S)
  PROVE  (s \o t) \o u = s \o (t \o u)
  <1>1. s \in Seq(S) /\ t \in Seq(S) /\ u \in Seq(S)
    OBVIOUS
  <1>2. QED
    BY ONLY <1>1, ConcatAssociative

Joined(s, t, u) == s \o t \o u
Prefixed(c, s) == << c >> \o s
Behind(s, t) == s \o t

LEMMA BehindIn ==
  ASSUME NEW S, NEW s \in Seq(S), NEW t \in Seq(S), NEW u \in Seq(S)
  PROVE  /\ Behind(s, t) \in Seq(S)
         /\ Behind(Behind(s, t), u) = Behind(s, Behind(t, u))
  <1>1. s \o t \in Seq(S)
    BY ConcatIn
  <1>2. (s \o t) \o u = s \o (t \o u)
    BY ThreeJoined
  <1>3. QED
    BY <1>1, <1>2, Zenon DEF Behind

LEMMA ConcatLater ==
  ASSUME NEW S, NEW h \in Seq(S), NEW s \in Seq(S), NEW t \in Seq(S), NEW u \in Seq(S)
  PROVE  ((h \o s) \o t) \o u = h \o ((s \o t) \o u)
  <1>1. Behind(Behind(h, s), t) = Behind(h, Behind(s, t)) /\ Behind(s, t) \in Seq(S)
    BY BehindIn
  <1>2. Behind(Behind(h, Behind(s, t)), u) = Behind(h, Behind(Behind(s, t), u))
    BY <1>1, BehindIn
  <1>3. Behind(Behind(Behind(h, s), t), u) = Behind(h, Behind(Behind(s, t), u))
    BY <1>1, <1>2
  <1>4. QED
    BY <1>3, Zenon DEF Behind

LEMMA JoinedHead ==
  ASSUME NEW S, NEW c \in S, NEW s \in Seq(S), NEW t \in Seq(S), NEW u \in Seq(S)
  PROVE  /\ Joined(Prefixed(c, s), t, u) = Prefixed(c, Joined(s, t, u))
         /\ Joined(s, t, u) \in Seq(S)
  <1>1. << c >> \in Seq(S) /\ s \in Seq(S) /\ t \in Seq(S) /\ u \in Seq(S)
    OBVIOUS
  <1>2. ((<< c >> \o s) \o t) \o u = << c >> \o ((s \o t) \o u)
    BY ONLY <1>1, ConcatLater, SMTT(30)
  <1>3. s \o t \in Seq(S)
    BY ConcatIn
  <1>4. (s \o t) \o u \in Seq(S)
    BY <1>3, ConcatIn
  <1>5. QED
    BY <1>2, <1>4, Zenon DEF Joined, Prefixed

LEMMA ConsParts ==
  ASSUME NEW S, NEW c \in S, NEW s \in Seq(S)
  PROVE  Prefixed(c, s) # << >> /\ Head(Prefixed(c, s)) = c /\ Tail(Prefixed(c, s)) = s
  BY DEF Prefixed

LEMMA ConsWhole ==
  ASSUME NEW S, NEW s \in Seq(S), s # << >>
  PROVE  Head(s) \in S /\ Tail(s) \in Seq(S) /\ s = Prefixed(Head(s), Tail(s))
  BY DEF Prefixed

LEMMA ConcatAppend ==
  ASSUME NEW S, NEW s \in Seq(S), NEW t \in Seq(S), NEW c \in S
  PROVE  s \o Append(t, c) = Append(s \o t, c)
  <1>1. Append(t, c) = t \o << c >> /\ << c >> \in Seq(S)
    OBVIOUS
  <1>2. s \o (t \o << c >>) = (s \o t) \o << c >>
    BY <1>1, ConcatAssociative
  <1>3. s \o t \in Seq(S)
    BY ConcatProperties
  <1>4. (s \o t) \o << c >> = Append(s \o t, c)
    BY <1>3
  <1>5. QED
    BY <1>1, <1>2, <1>4

\* A stream that grows by a command the master has applied.
LEMMA LeavesAppend ==
  ASSUME NEW d \in DB, NEW e \in DB, NEW s \in Seq(Commands), NEW c \in Commands, NEW k \in Keys,
         Leaves(d, s, k, e[k])
  PROVE  Leaves(d, Append(s, c), k, Apply(e, c)[k])
  <1> DEFINE t == Append(s, c)
  <1>1. /\ Len(t) = Len(s) + 1 /\ Len(s) \in Nat /\ t[Len(t)] = c
        /\ \A i \in 1 .. Len(s) : t[i] = s[i]
    OBVIOUS
  <1> HIDE DEF t
  <1>2. CASE Sets(c, k)
    <2>1. Apply(e, c)[k] = Apply(d, c)[k]
      BY <1>2, SetsFixes
    <2>2. Len(t) \in 1 .. Len(t) /\ (Len(t) + 1) .. Len(t) = {}
      BY <1>1
    <2>3. Leaves(d, t, k, Apply(e, c)[k])
      BY <1>1, <1>2, <2>1, <2>2 DEF Leaves
    <2>4. QED
      BY <2>3 DEF t
  <1>3. CASE ~Sets(c, k)
    <2>1. Apply(e, c)[k] = e[k]
      BY <1>3, SetsFixes
    <2>2. CASE (\A i \in 1 .. Len(s) : ~Sets(s[i], k)) /\ e[k] = d[k]
      <3>1. \A i \in 1 .. Len(t) : ~Sets(t[i], k)
        BY <1>1, <1>3, <2>2
      <3>2. Leaves(d, t, k, e[k])
        BY <2>2, <3>1 DEF Leaves
      <3>3. QED
        BY <2>1, <3>2 DEF t
    <2>3. CASE \E i \in 1 .. Len(s) :
                 /\ Sets(s[i], k)
                 /\ \A j \in (i + 1) .. Len(s) : ~Sets(s[j], k)
                 /\ e[k] = Apply(d, s[i])[k]
      <3>1. PICK i \in 1 .. Len(s) : /\ Sets(s[i], k)
                                     /\ \A j \in (i + 1) .. Len(s) : ~Sets(s[j], k)
                                     /\ e[k] = Apply(d, s[i])[k]
        BY <2>3
      <3>2. i \in 1 .. Len(t) /\ t[i] = s[i]
        BY <1>1
      <3>3. ASSUME NEW j \in (i + 1) .. Len(t) PROVE ~Sets(t[j], k)
        <4>1. j = Len(t) \/ (j \in (i + 1) .. Len(s) /\ j \in 1 .. Len(s))
          BY <1>1
        <4>2. QED
          BY <1>1, <1>3, <3>1, <4>1
      <3>4. Leaves(d, t, k, e[k])
        BY <3>1, <3>2, <3>3 DEF Leaves
      <3>5. QED
        BY <2>1, <3>4 DEF t
    <2>4. QED
      BY <2>2, <2>3 DEF Leaves
  <1>4. QED
    BY <1>2, <1>3

\* A stream that ends with a snapshot leaves the data set of the snapshot.
LEMMA LeavesSnapshot ==
  ASSUME NEW d, NEW e \in DB, NEW s \in Seq(Commands), NEW k \in Keys
  PROVE  Leaves(d, Append(s, [op |-> "RDB", db |-> e]), k, e[k])
  <1> DEFINE c == [op |-> "RDB", db |-> e]
             t == Append(s, c)
  <1>1. Len(t) = Len(s) + 1 /\ Len(s) \in Nat /\ t[Len(t)] = c
    OBVIOUS
  <1>2. Sets(c, k) /\ Apply(d, c) = e
    BY DEF Sets, Apply
  <1> HIDE DEF c, t
  <1>3. Len(t) \in 1 .. Len(t) /\ (Len(t) + 1) .. Len(t) = {}
    BY <1>1
  <1>4. Leaves(d, t, k, e[k])
    BY <1>1, <1>2, <1>3 DEF Leaves
  <1>5. QED
    BY <1>4 DEF c, t

\* A stream of which the slave has applied the first command.
LEMMA LeavesApplied ==
  ASSUME NEW d \in DB, NEW s \in Seq(Commands), s # << >>, NEW k \in Keys, NEW v,
         Leaves(d, s, k, v)
  PROVE  Leaves(Apply(d, Head(s)), Tail(s), k, v)
  <1> DEFINE c == Head(s)
             t == Tail(s)
             e == Apply(d, c)
  <1>1. /\ Len(s) = Len(t) + 1 /\ Len(t) \in Nat /\ s[1] = c
        /\ \A i \in 1 .. Len(t) : t[i] = s[i + 1]
        /\ c \in Commands /\ t \in Seq(Commands)
    BY ElementOfSeq
  <1>2. e \in DB
    BY <1>1, ApplyType
  <1> HIDE DEF c, t, e
  <1>3. ASSUME \A i \in 2 .. Len(s) : ~Sets(s[i], k)
        PROVE  \A i \in 1 .. Len(t) : ~Sets(t[i], k)
    BY <1>1, <1>3
  <1>4. CASE (\A i \in 1 .. Len(s) : ~Sets(s[i], k)) /\ v = d[k]
    <2>1. ~Sets(c, k) /\ \A i \in 1 .. Len(t) : ~Sets(t[i], k)
      BY <1>1, <1>3, <1>4
    <2>2. e[k] = d[k]
      BY <1>1, <2>1, SetsFixes DEF e
    <2>3. QED
      BY <1>4, <2>1, <2>2 DEF Leaves, c, t, e
  <1>5. CASE \E i \in 1 .. Len(s) :
               /\ Sets(s[i], k)
               /\ \A j \in (i + 1) .. Len(s) : ~Sets(s[j], k)
               /\ v = Apply(d, s[i])[k]
    <2>1. PICK i \in 1 .. Len(s) : /\ Sets(s[i], k)
                                   /\ \A j \in (i + 1) .. Len(s) : ~Sets(s[j], k)
                                   /\ v = Apply(d, s[i])[k]
      BY <1>5
    <2>2. CASE i = 1
      <3>1. \A j \in 1 .. Len(t) : ~Sets(t[j], k)
        BY <1>3, <2>1, <2>2
      <3>2. v = e[k]
        BY <1>1, <2>1, <2>2 DEF e
      <3>3. QED
        BY <3>1, <3>2 DEF Leaves, c, t, e
    <2>3. CASE i # 1
      <3>1. i - 1 \in 1 .. Len(t) /\ t[i - 1] = s[i]
        BY <1>1, <2>3
      <3>2. ASSUME NEW j \in ((i - 1) + 1) .. Len(t) PROVE ~Sets(t[j], k)
        <4>1. j + 1 \in (i + 1) .. Len(s) /\ j \in 1 .. Len(t)
          BY <1>1
        <4>2. QED
          BY <1>1, <2>1, <4>1
      <3>3. s[i] \in Commands
        BY ElementOfSeq
      <3>4. v = Apply(e, t[i - 1])[k]
        BY <1>2, <2>1, <3>1, <3>3, SetsFixes
      <3>5. QED
        BY <2>1, <3>1, <3>2, <3>4 DEF Leaves, c, t, e
    <2>4. QED
      BY <2>2, <2>3
  <1>6. QED
    BY <1>4, <1>5 DEF Leaves

\* What every reset and the end of the process do to the link.
LEMMA LinkGone ==
  ASSUME WriteFails \/ Exit \/ \E f : closeFd(f)
  PROVE  ~feeding' /\ p2m' = "none"
  BY DEF WriteFails, Exit, closeFd, LoseSockets

\* Reconnecting to the master leaves the slave's socket alone.
LEMMA ReconnectKeeps ==
  ASSUME fd \in [Fds -> FdStates]
  PROVE  /\ connectToMaster["client"] = fd["client"]
         /\ Reconnect => fd'["client"] = fd["client"]
  BY DEF connectToMaster, Reconnect, Fds

\* Steps of the proxy's handlers: the link is lost, or the slave's socket, or a
\* slave comes that was not there; otherwise nothing on the way is touched.
Quiet ==
  \/ ~feeding' /\ p2m' = "none"
  \/ /\ fd["client"] # "open" /\ fd'["client"] = "open"
     /\ fd["client"] = "closed" /\ (feeding' => feeding) /\ p2m' = p2m
  \/ fd'["client"] = "stale"
  \/ /\ (feeding' => feeding) /\ fd'["client"] = fd["client"]
     /\ p2m' = p2m \/ fd["client"] = "open"
     /\ fd["client"] = "open" => Stream' = Stream

LEMMA QuietSynced ==
  ASSUME FeedsSlave, Transparent, Quiet, UNCHANGED << sdb, mdb >>
  PROVE  FeedsSlave' /\ Transparent'
  <1>1. FeedsSlave'
    BY DEF FeedsSlave, Quiet
  <1>2. Transparent'
    <2>1. CASE ~feeding' \/ fd'["client"] # "open"
      BY <2>1 DEF Transparent
    <2>2. CASE feeding' /\ fd'["client"] = "open"
      <3>1. feeding /\ fd["client"] = "open" /\ Stream' = Stream
        BY <2>2 DEF FeedsSlave, Quiet
      <3>2. QED
        BY <3>1 DEF Transparent, Stream
    <2>3. QED
      BY <2>1, <2>2
  <1>3. QED
    BY <1>1, <1>2

\* Data moved from the master's link to the slave's is still on its way.
LEMMA MovedOn ==
  ASSUME TypeOK, OneChunk, pc # "scan", NEW n \in 0 .. Len(m2p),
         m2p' = SubSeq(m2p, n + 1, Len(m2p)), chunk' = chunk,
         Forward(SubSeq(m2p, 1, n)), fd["client"] = "open"
  PROVE  Stream' = Stream
  <1> DEFINE a == SubSeq(m2p, 1, n)
             b == SubSeq(m2p, n + 1, Len(m2p))
  <1>1. m2p \in Seq(Commands) /\ p2s \in Seq(Commands) /\ chunk = << >>
    BY DEF TypeOK, LinkType, StoreType, OneChunk
  <1>2. a \o b = m2p
    BY <1>1, CutInTwo
  <1>3. a \in Seq(Commands) /\ b \in Seq(Commands)
    BY <1>1
  <1>4. p2s' = p2s \o a
    BY DEF Forward
  <1> HIDE DEF a, b
  <1>5. (p2s \o a) \o b = p2s \o (a \o b)
    BY <1>1, <1>3, ConcatAssociative, SMTT(30)
  <1>6. Stream = p2s \o m2p /\ Stream' = (p2s \o a) \o b
    BY <1>1, <1>3, <1>4 DEF Stream, b
  <1>7. QED
    BY <1>2, <1>5, <1>6

\* Writes at the master, which it feeds down the link.
LEMMA FedOn ==
  ASSUME TypeOK, NEW c \in Commands, mdb' = Apply(mdb, c), Feed(c),
         UNCHANGED << feeding, p2s, chunk, sdb, fd >>, Transparent
  PROVE  Transparent'
  <1> SUFFICES ASSUME feeding, fd["client"] = "open", NEW k \in Keys
               PROVE  Leaves(sdb, Stream', k, mdb'[k])
    BY DEF Transparent, Stream
  <1>1. /\ m2p \in Seq(Commands) /\ p2s \in Seq(Commands) /\ chunk \in Seq(Commands)
        /\ mdb \in DB /\ sdb \in DB
    BY DEF TypeOK, LinkType, StoreType, HandlerType
  <1>2. Stream \in Seq(Commands)
    BY <1>1, ConcatIn DEF Stream
  <1>3. Stream' = Append(Stream, c)
    <2>1. m2p' = Append(m2p, c)
      BY DEF Feed
    <2>2. p2s \o chunk \in Seq(Commands)
      BY <1>1, ConcatIn
    <2>3. (p2s \o chunk) \o Append(m2p, c) = Append((p2s \o chunk) \o m2p, c)
      BY <1>1, <2>2
    <2>4. QED
      BY <2>1, <2>3 DEF Stream
  <1>4. Leaves(sdb, Stream, k, mdb[k])
    BY DEF Transparent, Stream
  <1>5. QED
    BY <1>1, <1>2, <1>3, <1>4, LeavesAppend

LEMMA WriteSynced ==
  ASSUME TypeOK, FeedsSlave, Transparent, NEW x \in Keys, MasterWrite(x) \/ MasterDel(x)
  PROVE  FeedsSlave' /\ Transparent'
  <1>1. FeedsSlave'
    BY DEF MasterWrite, MasterDel, FeedsSlave
  <1>2. CASE MasterWrite(x)
    <2> DEFINE c == [op |-> "HSET", key |-> x, ver |-> clock']
    <2>1. clock' \in 0 .. MaxVer
      BY <1>2, ProxyAssumption DEF MasterWrite, TypeOK, StoreType
    <2>2. c \in Commands
      BY <2>1, CommandTypes
    <2>3. mdb' = Apply(mdb, c)
      BY <1>2 DEF MasterWrite, Apply
    <2>4. QED
      BY <1>1, <1>2, <2>2, <2>3, FedOn DEF MasterWrite, scanVars
  <1>3. CASE MasterDel(x)
    <2> DEFINE c == [op |-> "DEL", key |-> x, ver |-> mdb[x]]
    <2>1. mdb[x] \in 0 .. MaxVer
      BY DEF TypeOK, StoreType, DB
    <2>2. c \in Commands
      BY <2>1, CommandTypes
    <2>3. mdb' = Apply(mdb, c)
      BY <1>3 DEF MasterDel, Apply
    <2>4. QED
      BY <1>1, <1>3, <2>2, <2>3, FedOn DEF MasterDel, scanVars
  <1>4. QED
    BY <1>2, <1>3

\* The master starts to feed the proxy with a snapshot, or refuses to.
LEMMA SyncSynced ==
  ASSUME TypeOK, FeedsSlave, Transparent, MasterSync
  PROVE  FeedsSlave' /\ Transparent'
  <1>1. FeedsSlave'
    BY DEF MasterSync, FeedsSlave
  <1>2. /\ m2p \in Seq(Commands) /\ p2s \in Seq(Commands) /\ chunk \in Seq(Commands)
        /\ mdb \in DB /\ sdb \in DB
    BY DEF TypeOK, LinkType, StoreType, HandlerType
  <1>3. p2s \o chunk \in Seq(Commands)
    BY <1>2, ConcatIn
  <1>4. CASE m2p' = Append(m2p, [op |-> "ERR"]) /\ UNCHANGED feeding
    <2> SUFFICES ASSUME feeding, fd["client"] = "open", NEW k \in Keys
                 PROVE  Leaves(sdb, Stream', k, mdb[k])
      BY <1>1, <1>4 DEF Transparent, Stream, MasterSync
    <2> DEFINE c == [op |-> "ERR"]
    <2>1. c \in Commands
      BY CommandTypes DEF Lines
    <2>2. Apply(mdb, c) = mdb
      BY DEF Apply
    <2>3. Stream' = Append(Stream, c)
      <3>1. (p2s \o chunk) \o Append(m2p, c) = Append((p2s \o chunk) \o m2p, c)
        BY <1>2, <1>3, <2>1
      <3>2. QED
        BY <1>4, <3>1 DEF Stream, MasterSync, scanVars
    <2>4. Leaves(sdb, Stream, k, mdb[k]) /\ Stream \in Seq(Commands)
      BY <1>2, <1>3, ConcatIn DEF Transparent, Stream
    <2> HIDE DEF c
    <2>5. QED
      BY <1>2, <2>1, <2>2, <2>3, <2>4, LeavesAppend
  <1>5. CASE \E prologue \in {<< >>, << [op |-> "FULLRESYNC"] >>} :
               m2p' = m2p \o prologue \o << [op |-> "HEADER"], [op |-> "RDB", db |-> mdb] >>
    <2> SUFFICES ASSUME NEW k \in Keys
                 PROVE  Leaves(sdb, Stream', k, mdb[k])
      BY <1>1 DEF Transparent, Stream, MasterSync
    <2>1. PICK prologue \in {<< >>, << [op |-> "FULLRESYNC"] >>} :
                 m2p' = m2p \o prologue \o << [op |-> "HEADER"], [op |-> "RDB", db |-> mdb] >>
      BY <1>5
    <2> DEFINE h == [op |-> "HEADER"]
               c == [op |-> "RDB", db |-> mdb]
               s == (m2p \o prologue) \o << h >>
    <2>2. prologue \in Seq(Commands)
      <3>1. [op |-> "FULLRESYNC"] \in Commands
        BY CommandTypes DEF Lines
      <3>2. << [op |-> "FULLRESYNC"] >> \in Seq(Commands)
        BY <3>1
      <3>3. << >> \in Seq(Commands)
        OBVIOUS
      <3>4. QED
        BY <3>2, <3>3, Zenon
    <2>3. h \in Commands /\ c \in Commands
      BY <1>2, CommandTypes DEF Lines
    <2>4. m2p \o prologue \in Seq(Commands)
      BY <1>2, <2>2, ConcatIn
    <2> HIDE DEF h, c
    <2>5. (m2p \o prologue) \o << h, c >> = Append(s, c) /\ s \in Seq(Commands)
      <3>1. << h >> \in Seq(Commands) /\ << h, c >> = Append(<< h >>, c)
        BY <2>3
      <3>2. QED
        BY <2>3, <2>4, <3>1, ConcatAppend, ConcatIn
    <2> HIDE DEF s
    <2>6. Stream' = Append((p2s \o chunk) \o s, c)
      <3>1. (p2s \o chunk) \o Append(s, c) = Append((p2s \o chunk) \o s, c)
        BY <1>3, <2>3, <2>5, ConcatAppend
      <3>2. m2p' = Append(s, c)
        BY <2>1, <2>5 DEF h, c
      <3>3. QED
        BY <3>1, <3>2 DEF Stream, MasterSync, scanVars
    <2>7. (p2s \o chunk) \o s \in Seq(Commands)
      BY <1>3, <2>5, ConcatIn
    <2>8. QED
      BY <1>2, <2>6, <2>7, LeavesSnapshot DEF c
  <1>6. QED
    BY <1>4, <1>5 DEF MasterSync

\* The slave applies the first command.
LEMMA ApplySynced ==
  ASSUME TypeOK, FeedsSlave, Transparent, SlaveApply
  PROVE  FeedsSlave' /\ Transparent'
  <1>1. FeedsSlave'
    BY DEF SlaveApply, FeedsSlave, masterVars, linkVars
  <1> SUFFICES ASSUME feeding, fd["client"] = "open", NEW k \in Keys
               PROVE  Leaves(sdb', Stream', k, mdb[k])
    BY <1>1 DEF Transparent, Stream, SlaveApply, masterVars
  <1>2. /\ m2p \in Seq(Commands) /\ p2s \in Seq(Commands) /\ chunk \in Seq(Commands)
        /\ mdb \in DB /\ sdb \in DB
    BY DEF TypeOK, LinkType, StoreType, HandlerType
  <1>3. p2s # << >> /\ sdb' = Apply(sdb, Head(p2s)) /\ p2s' = Tail(p2s)
    BY DEF SlaveApply
  <1>4. Head(p2s) \in Commands /\ p2s' \in Seq(Commands) /\ p2s = Prefixed(Head(p2s), p2s')
    BY <1>2, <1>3, ConsWhole
  <1>5. Stream = Joined(p2s, chunk, m2p) /\ Stream' = Joined(p2s', chunk, m2p)
    BY DEF SlaveApply, Stream, Joined, scanVars, linkVars
  <1>6. Stream = Prefixed(Head(p2s), Stream') /\ Stream' \in Seq(Commands)
    BY <1>2, <1>4, <1>5, JoinedHead
  <1>7. Stream # << >> /\ Head(Stream) = Head(p2s) /\ Tail(Stream) = Stream'
    BY <1>4, <1>6, ConsParts
  <1>8. Leaves(sdb, Stream, k, mdb[k]) /\ Stream \in Seq(Commands)
    BY <1>2, <1>4, <1>5, JoinedHead DEF Transparent, Stream
  <1>9. Leaves(Apply(sdb, Head(Stream)), Tail(Stream), k, mdb[k])
    BY <1>2, <1>7, <1>8, LeavesApplied
  <1>10. QED
    BY <1>3, <1>7, <1>9

\* A socket of the slave that is there stays, or the link is lost with it.
LEMMA AcceptQuiet ==
  ASSUME TypeOK, acceptTcpHandler
  PROVE  Quiet
  <1>1. fd \in [Fds -> FdStates] /\ "client" \in Fds
    BY DEF TypeOK, LinkType, Fds
  <1>2. CASE \E f : closeFd(f)
    BY <1>2, LinkGone DEF Quiet
  <1>3. CASE /\ fd["client"] = "closed"
             /\ fd' = [fd EXCEPT !["client"] = "open", !["read"] = "open"]
             /\ UNCHANGED << feeding, p2m >>
    <2>1. fd'["client"] = "open"
      BY <1>1, <1>3
    <2>2. QED
      BY <1>3, <2>1 DEF Quiet
  <1>4. CASE fd' = [fd EXCEPT !["client"] = "stale"]
    BY <1>1, <1>4 DEF Quiet
  <1>5. QED
    BY <1>2, <1>3, <1>4 DEF acceptTcpHandler

LEMMA HandlersQuiet ==
  ASSUME TypeOK, timeEvent \/ readDataFails \/ readFromSlave
  PROVE  Quiet
  <1>1. CASE WriteFails \/ Exit \/ \E f : closeFd(f)
    BY <1>1, LinkGone DEF Quiet
  <1>2. CASE timeEvent /\ ~Exit
    BY <1>2, ReconnectKeeps
    DEF timeEvent, TypeOK, LinkType, Quiet, Stream, masterVars, linkVars, scanVars
  <1>3. CASE readFromSlave /\ ~WriteFails
    BY <1>3 DEF readFromSlave, Quiet, Stream, scanVars
  <1>4. QED
    BY <1>1, <1>2, <1>3 DEF readDataFails

\* readFromMaster before the synchronisation is over: what is read is passed on.
LEMMA ReadQuiet ==
  ASSUME TypeOK, OneChunk, ReadSyncHeader \/ ReadSyncPayload \/ ReadBeforeSync
  PROVE  Quiet
  <1>1. CASE WriteFails \/ Exit
    BY <1>1, LinkGone DEF Quiet
  <1>2. CASE /\ \E n \in 0 .. Len(m2p) :
                  m2p' = SubSeq(m2p, n + 1, Len(m2p)) /\ Forward(SubSeq(m2p, 1, n))
             /\ pc = "idle" /\ UNCHANGED << feeding, p2m, fd, chunk >>
    <2>1. fd["client"] = "open" => Stream' = Stream
      BY <1>2, MovedOn
    <2>2. QED
      BY <1>2, <2>1 DEF Quiet
  <1>3. CASE UNCHANGED << feeding, p2m, fd, chunk, m2p, p2s >>
    BY <1>3 DEF Quiet, Stream
  <1>4. CASE ReadSyncHeader /\ ~WriteFails /\ ~Exit
    <2>1. PICK n \in {1, 2} : /\ m2p # << >> /\ (n = 2 => Len(m2p) > 1)
                              /\ m2p' = SubSeq(m2p, n + 1, Len(m2p))
                              /\ Forward(SubSeq(m2p, 1, n))
                              /\ UNCHANGED << feeding, p2m, fd, scanVars >>
      BY <1>4 DEF ReadSyncHeader, ForwardFails
    <2>2. Len(m2p) \in Nat /\ Len(m2p) >= 1
      BY <2>1 DEF TypeOK, LinkType
    <2>3. n \in 0 .. Len(m2p)
      BY <2>1, <2>2
    <2>4. QED
      BY <1>2, <1>4, <2>1, <2>3 DEF ReadSyncHeader, CanReadMaster, scanVars
  <1>5. CASE ReadSyncPayload /\ ~WriteFails
    <2>1. CASE bulk = 0
      BY <1>3, <1>5, <2>1 DEF ReadSyncPayload, linkVars, scanVars
    <2>2. CASE bulk # 0
      <3>1. /\ m2p # << >> /\ m2p' = Tail(m2p) /\ Forward(<< m2p[1] >>)
            /\ UNCHANGED << feeding, p2m, fd, scanVars >>
        BY <1>5, <2>2 DEF ReadSyncPayload, ForwardFails
      <3>2. m2p \in Seq(Commands)
        BY DEF TypeOK, LinkType
      <3>3. /\ SubSeq(m2p, 1, 1) = << m2p[1] >> /\ SubSeq(m2p, 1 + 1, Len(m2p)) = Tail(m2p)
            /\ 1 \in 0 .. Len(m2p)
        BY <3>1, <3>2, FirstOff
      <3>4. QED
        BY <1>2, <1>5, <3>1, <3>3 DEF ReadSyncPayload, CanReadMaster, scanVars
    <2>3. QED
      BY <2>1, <2>2
  <1>6. CASE ReadBeforeSync /\ ~WriteFails
    <2>1. PICK n \in 1 .. Len(m2p) :
                 /\ m2p' = SubSeq(m2p, n + 1, Len(m2p)) /\ Forward(SubSeq(m2p, 1, n))
                 /\ UNCHANGED << feeding, p2m, fd, scanVars >>
      BY <1>6 DEF ReadBeforeSync, ForwardFails
    <2>2. n \in 0 .. Len(m2p)
      OBVIOUS
    <2>3. QED
      BY <1>2, <1>6, <2>1, <2>2 DEF ReadBeforeSync, CanReadMaster, scanVars
  <1>7. QED
    BY <1>1, <1>4, <1>5, <1>6

\* A chunk that is taken from the link, and passed on when it is scanned.
LEMMA ChunkQuiet ==
  ASSUME TypeOK, OneChunk, ReadCommands \/ ForwardChunk
  PROVE  Quiet
  <1>1. /\ m2p \in Seq(Commands) /\ p2s \in Seq(Commands) /\ chunk \in Seq(Commands)
        /\ fd \in [Fds -> FdStates]
    BY DEF TypeOK, LinkType, StoreType, HandlerType
  <1>2. CASE ReadCommands
    <2>1. PICK n \in 1 .. Len(m2p) : /\ chunk' = SubSeq(m2p, 1, n)
                                     /\ m2p' = SubSeq(m2p, n + 1, Len(m2p))
      BY <1>2 DEF ReadCommands
    <2>2. chunk = << >> /\ UNCHANGED << feeding, fd, p2m, p2s >>
      BY <1>2 DEF ReadCommands, CanReadMaster, OneChunk, masterVars
    <2>3. m2p = chunk' \o m2p' /\ chunk' \in Seq(Commands) /\ m2p' \in Seq(Commands)
      BY <1>1, <2>1, CutInTwo
    <2>4. Stream = p2s \o m2p
      BY <1>1, <2>2 DEF Stream
    <2>5. Stream' = (p2s \o chunk') \o m2p'
      BY <2>2 DEF Stream
    <2>6. (p2s \o chunk') \o m2p' = p2s \o (chunk' \o m2p')
      BY ONLY <1>1, <2>3, ThreeJoined, SMTT(30)
    <2>7. Stream' = Stream
      BY ONLY <2>3, <2>4, <2>5, <2>6
    <2>8. QED
      BY <2>2, <2>7 DEF Quiet
  <1>3. CASE ForwardChunk
    <2>1. CASE WriteFails \/ Exit
      BY <2>1, LinkGone DEF Quiet
    <2>2. CASE ~WriteFails /\ ~Exit
      <3>1. /\ Forward(chunk) /\ Reconnect /\ chunk' = << >>
            /\ UNCHANGED << feeding, p2m, m2p >>
        BY <1>3, <2>2 DEF ForwardChunk, ForwardFails, linkVars
      <3>2. fd'["client"] = fd["client"]
        BY <1>1, <3>1, ReconnectKeeps
      <3>3. ASSUME fd["client"] = "open" PROVE Stream' = Stream
        <4>1. p2s' = p2s \o chunk
          BY <3>1, <3>3 DEF Forward
        <4>2. (p2s \o chunk) \o << >> = p2s \o chunk
          BY <1>1, ConcatIn
        <4>3. QED
          BY <3>1, <4>1, <4>2 DEF Stream
      <3>4. QED
        BY <3>1, <3>2, <3>3 DEF Quiet
    <2>3. QED
      BY <2>1, <2>2
  <1>4. QED
    BY <1>2, <1>3

\* Scanning and parsing move nothing on its way to the slave.
LEMMA OthersQuiet ==
  ASSUME TypeOK,
         \/ ScanDel \/ ScanSkip \/ readDelValue \/ ParseArray \/ PopOnEmpty \/ ParseSimple
         \/ ParseIncomplete \/ UnexpectedData \/ Discard \/ ParseBulkString
         \/ SlaveAnswer \/ UNCHANGED vars
  PROVE  Quiet
  <1>1. CASE Exit \/ \E f : closeFd(f)
    BY <1>1, LinkGone DEF Quiet
  <1>2. CASE UNCHANGED << feeding, p2m, fd, m2p, p2s, chunk >>
    BY <1>2 DEF Quiet, Stream
  <1>3. CASE ScanDel /\ ~Exit /\ ~\E f : closeFd(f)
    <2>1. /\ UNCHANGED << feeding, linkVars, chunk >> /\ UNCHANGED p2s
          /\ UNCHANGED fd \/ Reconnect
      BY <1>3 DEF ScanDel, queryKey
    <2>2. fd'["client"] = fd["client"]
      BY <2>1, ReconnectKeeps DEF TypeOK, LinkType
    <2>3. QED
      BY <2>1, <2>2 DEF Quiet, Stream, linkVars
  <1>4. CASE ScanSkip \/ readDelValue \/ ParseArray \/ ParseSimple \/ ParseIncomplete
             \/ UnexpectedData \/ Discard \/ SlaveAnswer \/ UNCHANGED vars
    BY <1>2, <1>4
    DEF ScanSkip, readDelValue, ParseArray, ParseSimple, ParseIncomplete, UnexpectedData,
        Discard, SlaveAnswer, vars, masterVars, linkVars, scanVars
  <1>5. CASE PopOnEmpty \/ ParseBulkString
    BY <1>1, <1>2, <1>5 DEF PopOnEmpty, ParseBulkString, linkVars, scanVars
  <1>6. QED
    BY <1>1, <1>3, <1>4, <1>5

LEMMA NextSynced ==
  ASSUME TypeOK, OneChunk, FeedsSlave, Transparent, [Next]_vars
  PROVE  FeedsSlave' /\ Transparent'
  <1>1. CASE \E x \in Keys : MasterWrite(x) \/ MasterDel(x)
    BY <1>1, WriteSynced
  <1>2. CASE MasterSync \/ SlaveApply
    BY <1>2, SyncSynced, ApplySynced
  <1>3. CASE \/ acceptTcpHandler \/ timeEvent \/ readDataFails \/ readFromSlave
             \/ ReadSyncHeader \/ ReadSyncPayload \/ ReadBeforeSync \/ ReadCommands
             \/ ForwardChunk
    <2>1. Quiet
      BY <1>3, AcceptQuiet, HandlersQuiet, ReadQuiet, ChunkQuiet
    <2>2. UNCHANGED << sdb, mdb >>
      BY <1>3
      DEF acceptTcpHandler, timeEvent, readDataFails, readFromSlave, ReadSyncHeader,
          ReadSyncPayload, ReadBeforeSync, ReadCommands, ForwardChunk, Exit, masterVars
    <2>3. QED
      BY <2>1, <2>2, QuietSynced
  <1>4. CASE \/ ScanDel \/ ScanSkip \/ readDelValue \/ ParseArray \/ PopOnEmpty \/ ParseSimple
             \/ ParseIncomplete \/ UnexpectedData \/ Discard \/ ParseBulkString
             \/ SlaveAnswer \/ UNCHANGED vars
    <2>1. Quiet
      BY <1>4, OthersQuiet
    <2>2. UNCHANGED << sdb, mdb >>
      BY <1>4
      DEF ScanDel, ScanSkip, readDelValue, ParseArray, PopOnEmpty, ParseSimple, ParseIncomplete,
          UnexpectedData, Discard, ParseBulkString, SlaveAnswer, vars, masterVars
    <2>3. QED
      BY <2>1, <2>2, QuietSynced
  <1>5. QED
    BY <1>1, <1>2, <1>3, <1>4 DEF Next, Environment, Handler, Continue

\* What the slave has and what is on its way adds up to the master's data, whatever
\* is scanned, asked or given up on the way, for every number of keys, versions and
\* resets and whatever the sizes of the replies (readFromMaster, processInputBuffer).
THEOREM AlwaysTransparent == Spec => []Transparent
  <1>1. Init => FeedsSlave /\ OneChunk /\ Transparent
    BY DEF Init, FeedsSlave, OneChunk, Transparent
  <1>2. TypeOK /\ OneChunk /\ FeedsSlave /\ Transparent /\ [Next]_vars =>
          FeedsSlave' /\ OneChunk' /\ Transparent'
    BY NextOneChunk, NextSynced
  <1>3. QED
    BY <1>1, <1>2, TypeCorrect, PTL DEF Spec

-----------------------------------------------------------------------------
(* The units of the replies.                                               *)

\* f[i] units are in the first i replies of s.
Sums(f, s) ==
  /\ f \in [0 .. Len(s) -> Nat]
  /\ f[0] = 0
  /\ \A i \in 1 .. Len(s) : f[i] = f[i - 1] + s[i].size

\* The units of the replies that the proxy has not parsed to the end.
Total == unread + have + avail + off

Accounted == \E f \in [0 .. Len(answers) -> Nat] :
               Sums(f, answers) /\ f[Len(answers)] = Total

\* The parser has data before it only while it runs, and then the buffer is
\* empty; what is gone from the first reply is not all of it.
InParser ==
  /\ avail > 0 => pc \in {"parse", "discard"}
  /\ pc \in {"parse", "discard"} => have = 0 /\ avail > 0
  /\ IF answers = << >> THEN off = 0 ELSE off < answers[1].size

\* The recursion of Units has no other solution than the sums.
LEMMA UnitsAreSums ==
  ASSUME NEW f, answers \in Seq(Answers), Sums(f, answers)
  PROVE  Units = f[Len(answers)]
  <1> DEFINE n == Len(answers)
             Step(u) == [i \in 0 .. n |-> IF i = 0 THEN 0 ELSE u[i - 1] + answers[i].size]
             upto == CHOOSE u : u = Step(u)
  <1>1. n \in Nat
    OBVIOUS
  <1>2. f = Step(f)
    <2> HIDE DEF n
    <2>1. f \in [0 .. n -> Nat] /\ f[0] = 0 /\ \A i \in 1 .. n : f[i] = f[i - 1] + answers[i].size
      BY DEF Sums, n
    <2>2. \A i \in 0 .. n : i # 0 => i \in 1 .. n
      BY <1>1
    <2>3. \A i \in 0 .. n : f[i] = IF i = 0 THEN 0 ELSE f[i - 1] + answers[i].size
      BY <2>1, <2>2
    <2>4. QED
      BY <2>1, <2>3
  <1>3. upto = Step(upto)
    BY <1>2
  <1> DEFINE S == {i \in 0 .. n : upto[i] = f[i]}
  <1>4. 0 .. n \subseteq S
    <2> HIDE DEF n
    <2> HIDE DEF upto
    <2>1. /\ upto[0] = 0
          /\ \A i \in 0 .. n : i # 0 => upto[i] = upto[i - 1] + answers[i].size
      BY <1>1, <1>3
    <2>2. f[0] = 0 /\ \A i \in 1 .. n : f[i] = f[i - 1] + answers[i].size
      BY DEF Sums, n
    <2>3. 0 \in S
      BY <1>1, <2>1, <2>2
    <2>4. ASSUME NEW i \in 0 .. n, i # n, i \in S PROVE i + 1 \in S
      <3>1. i + 1 \in 0 .. n /\ i + 1 \in 1 .. n /\ i + 1 # 0 /\ i + 1 - 1 = i
        BY <1>1, <2>4
      <3>2. QED
        BY <2>1, <2>2, <2>4, <3>1
    <2> HIDE DEF S
    <2>5. QED
      BY <1>1, <2>3, <2>4, StepByStep
  <1>5. n \in S
    BY <1>1, <1>4
  <1>6. upto[n] = f[n]
    BY <1>5
  <1>7. Units = upto[n]
    BY DEF Units
  <1>8. QED
    BY <1>6, <1>7

LEMMA TotalKept ==
  ASSUME Accounted, answers' = answers, Total' = Total
  PROVE  Accounted'
  BY DEF Accounted, Sums

LEMMA NothingLeft ==
  ASSUME answers' = << >>, Total' = 0
  PROVE  Accounted'
  <1> DEFINE f == [i \in 0 .. 0 |-> 0]
  <1>1. f \in [0 .. Len(answers') -> Nat] /\ Sums(f, answers') /\ f[Len(answers')] = 0
    BY DEF Sums
  <1>2. QED
    BY <1>1 DEF Accounted

LEMMA AnotherAnswer ==
  ASSUME Accounted, answers \in Seq(Answers), NEW a \in Answers,
         answers' = Append(answers, a), Total' = Total + a.size, Total \in Nat
  PROVE  Accounted'
  <1> DEFINE n == Len(answers)
  <1>1. PICK f \in [0 .. n -> Nat] : Sums(f, answers) /\ f[n] = Total
    BY DEF Accounted
  <1> DEFINE g == [i \in 0 .. n + 1 |-> IF i = n + 1 THEN f[n] + a.size ELSE f[i]]
  <1>2. /\ n \in Nat /\ Len(answers') = n + 1 /\ a.size \in Nat
        /\ \A i \in 1 .. n + 1 : answers'[i] = IF i = n + 1 THEN a ELSE answers[i]
    BY DEF Answers
  <1> HIDE DEF n
  <1>3. g \in [0 .. n + 1 -> Nat]
    BY <1>1, <1>2
  <1>4. g[0] = 0 /\ g[n + 1] = f[n] + a.size
    BY <1>1, <1>2 DEF Sums
  <1>5. ASSUME NEW i \in 1 .. n + 1 PROVE g[i] = g[i - 1] + answers'[i].size
    <2>1. CASE i = n + 1
      <3>1. g[i] = f[n] + a.size /\ g[i - 1] = f[n] /\ answers'[i] = a
        BY <1>2, <2>1
      <3>2. QED
        BY <3>1
    <2>2. CASE i # n + 1
      <3>1. i \in 1 .. n /\ i \in 0 .. n + 1 /\ i - 1 \in 0 .. n + 1 /\ i - 1 # n + 1
        BY <1>2, <2>2
      <3>2. g[i] = f[i] /\ g[i - 1] = f[i - 1] /\ answers'[i] = answers[i]
        BY <1>2, <2>2, <3>1
      <3>3. f[i] = f[i - 1] + answers[i].size
        BY <1>1, <3>1 DEF Sums, n
      <3>4. QED
        BY <3>2, <3>3
    <2>3. QED
      BY <2>1, <2>2
  <1> HIDE DEF g
  <1>6. Sums(g, answers') /\ g[Len(answers')] = Total'
    BY <1>1, <1>2, <1>3, <1>4, <1>5 DEF Sums
  <1>7. QED
    BY <1>2, <1>3, <1>6 DEF Accounted

LEMMA AnswerDone ==
  ASSUME Accounted, answers \in Seq(Answers), answers # << >>,
         answers' = Tail(answers), Total' = Total - answers[1].size, Total \in Nat
  PROVE  Accounted'
  <1> DEFINE n == Len(answers)
             s == answers[1].size
  <1>1. PICK f \in [0 .. n -> Nat] : Sums(f, answers) /\ f[n] = Total
    BY DEF Accounted
  <1> DEFINE g == [i \in 0 .. n - 1 |-> f[i + 1] - s]
  <1>2. /\ n \in Nat \ {0} /\ Len(answers') = n - 1
        /\ \A i \in 1 .. n - 1 : answers'[i] = answers[i + 1]
        /\ \A i \in 1 .. n : answers[i].size \in Nat
        /\ answers' \in Seq(Answers)
    <2>1. \A i \in 1 .. n : answers[i] \in Answers
      BY ElementOfSeq
    <2>2. \A i \in 1 .. n : answers[i].size \in Nat
      BY <2>1 DEF Answers
    <2>3. /\ n \in Nat \ {0} /\ Len(answers') = n - 1 /\ answers' \in Seq(Answers)
          /\ \A i \in 1 .. n - 1 : answers'[i] = answers[i + 1]
      BY HeadTailProperties
    <2>4. QED
      BY <2>2, <2>3
  <1> HIDE DEF n
  <1>3. f[0] = 0 /\ f[1] = s /\ s \in Nat
    BY <1>1, <1>2 DEF Sums, n
  <1>4. \A i \in 1 .. n : f[i] >= s
    <2> DEFINE S == {i \in 0 .. n - 1 : f[i + 1] >= s}
    <2>1. 0 \in S
      BY <1>2, <1>3
    <2>2. ASSUME NEW i \in 0 .. n - 1, i # n - 1, i \in S PROVE i + 1 \in S
      <3>1. i + 1 \in 0 .. n - 1 /\ i + 1 + 1 \in 1 .. n /\ i + 1 \in 1 .. n
        BY <1>2, <2>2
      <3>2. f[i + 1 + 1] = f[i + 1] + answers[i + 1 + 1].size
        BY <1>1, <1>2, <3>1 DEF Sums, n
      <3>3. QED
        BY <1>1, <1>2, <1>3, <2>2, <3>1, <3>2
    <2> HIDE DEF S
    <2>3. n - 1 \in Nat
      BY <1>2
    <2>4. 0 .. n - 1 \subseteq S
      BY <2>1, <2>2, <2>3, StepByStep
    <2>5. ASSUME NEW i \in 1 .. n PROVE f[i] >= s
      <3>1. i - 1 \in 0 .. n - 1 /\ i - 1 + 1 = i
        BY <1>2
      <3>2. QED
        BY <2>4, <3>1 DEF S
    <2>6. QED
      BY <2>5
  <1>5. g \in [0 .. n - 1 -> Nat]
    <2>1. ASSUME NEW i \in 0 .. n - 1 PROVE f[i + 1] - s \in Nat
      <3>1. i + 1 \in 1 .. n /\ i + 1 \in 0 .. n
        BY <1>2
      <3>2. QED
        BY <1>1, <1>3, <1>4, <3>1
    <2>2. QED
      BY <2>1
  <1>6. g[0] = 0 /\ g[n - 1] = f[n] - s
    BY <1>2, <1>3
  <1>7. ASSUME NEW i \in 1 .. n - 1 PROVE g[i] = g[i - 1] + answers'[i].size
    <2>1. i + 1 \in 1 .. n /\ i \in 0 .. n /\ i + 1 \in 0 .. n /\ i \in 0 .. n - 1 /\ i - 1 \in 0 .. n - 1
          /\ i - 1 + 1 = i /\ i + 1 - 1 = i
      BY <1>2
    <2>2. g[i] = f[i + 1] - s /\ g[i - 1] = f[i] - s
      BY <2>1
    <2>3. f[i + 1] = f[i] + answers[i + 1].size
      BY <1>1, <2>1, SMTT(30) DEF Sums, n
    <2>4. f[i] \in Nat /\ f[i + 1] \in Nat /\ answers[i + 1].size \in Nat
      BY <1>1, <1>2, <2>1
    <2> HIDE DEF g
    <2>5. s \in Nat
      BY <1>2, <1>3
    <2>6. answers'[i] = answers[i + 1]
      BY <1>2, <1>3, <2>1
    <2> HIDE DEF s
    <2>7. g[i] = g[i - 1] + answers[i + 1].size
      BY <2>2, <2>3, <2>4, <2>5, SMTT(30)
    <2>8. QED
      BY <2>6, <2>7
  <1> HIDE DEF g
  <1>8. Sums(g, answers') /\ g[Len(answers')] = Total'
    BY <1>1, <1>2, <1>3, <1>5, <1>6, <1>7 DEF Sums
  <1>9. QED
    BY <1>2, <1>5, <1>8 DEF Accounted

\* A step that loses the sockets, outside the parser, leaves no units.
LEMMA SocketsLost ==
  ASSUME LoseSockets, have' = 0, avail' = 0, pc' \notin {"parse", "discard"}
  PROVE  InParser' /\ Accounted'
  <1>1. answers' = << >> /\ unread' = 0 /\ off' = 0
    BY DEF LoseSockets
  <1>2. Total' = 0
    BY <1>1 DEF Total
  <1>3. QED
    BY <1>1, <1>2, NothingLeft DEF InParser

\* Where the parser does not run it has no data before it.
LEMMA NoneBefore ==
  ASSUME TypeOK, InParser, pc \notin {"parse", "discard"}
  PROVE  avail = 0
  BY DEF TypeOK, HandlerType, InParser

\* Steps outside the parser that touch no reply.
LEMMA OutsideFrame ==
  ASSUME TypeOK, InParser, Accounted, pc \notin {"parse", "discard"},
         UNCHANGED << answers, unread, off, have, avail >>,
         pc' \notin {"parse", "discard"}
  PROVE  InParser' /\ Accounted'
  <1>1. Total' = Total
    BY DEF Total
  <1>2. QED
    BY <1>1, NoneBefore, TotalKept DEF InParser

LEMMA WriteFailsAccounted ==
  ASSUME TypeOK, InParser, pc \notin {"parse", "discard"}, WriteFails
  PROVE  InParser' /\ Accounted'
  BY NoneBefore, SocketsLost DEF WriteFails, closeFd, Exit

\* The master, the slave and the handlers that do not parse.
LEMMA OutsideAccounted ==
  ASSUME TypeOK, InParser, Accounted,
         \/ \E k \in Keys : MasterWrite(k) \/ MasterDel(k)
         \/ MasterSync \/ SlaveApply \/ UNCHANGED vars \/ UnexpectedData
  PROVE  InParser' /\ Accounted'
  <1>1. UNCHANGED << answers, unread, off, have, avail >>
    BY DEF MasterWrite, MasterDel, MasterSync, SlaveApply, UnexpectedData, vars, queryVars,
           parseVars
  <1>2. Total' = Total
    BY <1>1 DEF Total
  <1>3. pc' = pc \/ (pc = "parse" /\ pc' = "discard")
    BY DEF MasterWrite, MasterDel, MasterSync, SlaveApply, UnexpectedData, MidReply, vars
  <1>4. QED
    BY <1>1, <1>2, <1>3, TotalKept DEF InParser

LEMMA HandlersAccounted ==
  ASSUME TypeOK, InParser, Accounted,
         \/ timeEvent \/ acceptTcpHandler \/ readDataFails \/ readFromSlave
         \/ ReadSyncHeader \/ ReadSyncPayload \/ ReadBeforeSync \/ ReadCommands
         \/ ScanDel \/ ScanSkip \/ ForwardChunk
  PROVE  InParser' /\ Accounted'
  <1>1. pc \in {"idle", "scan"} /\ avail = 0
    <2>1. pc \in {"idle", "scan"}
      BY DEF timeEvent, acceptTcpHandler, readDataFails, readFromSlave, ReadSyncHeader,
             ReadSyncPayload, ReadBeforeSync, ReadCommands, ScanDel, ScanSkip, ForwardChunk,
             CanReadMaster
    <2>2. QED
      BY <2>1, NoneBefore
  <1>2. ASSUME Exit PROVE InParser' /\ Accounted'
    BY <1>2, SocketsLost DEF Exit
  <1>3. ASSUME WriteFails PROVE InParser' /\ Accounted'
    BY <1>1, <1>3, WriteFailsAccounted
  <1>4. ASSUME NEW f, closeFd(f), avail' = avail, pc' = pc PROVE InParser' /\ Accounted'
    BY <1>1, <1>4, SocketsLost DEF closeFd
  <1>5. ASSUME UNCHANGED << answers, unread, off, have, avail >>, pc' \in {"idle", "scan"}
        PROVE  InParser' /\ Accounted'
    BY <1>1, <1>5, OutsideFrame
  <1>6. CASE timeEvent
    BY <1>1, <1>2, <1>5, <1>6 DEF timeEvent, queryVars, parseVars
  <1>7. CASE acceptTcpHandler
    BY <1>1, <1>4, <1>5, <1>7 DEF acceptTcpHandler, queryVars
  <1>8. CASE readDataFails
    BY <1>1, <1>4, <1>8 DEF readDataFails
  <1>9. CASE readFromSlave
    BY <1>1, <1>3, <1>5, <1>9 DEF readFromSlave, queryVars, parseVars
  <1>10. CASE ReadSyncHeader
    BY <1>1, <1>2, <1>3, <1>5, <1>10 DEF ReadSyncHeader, ForwardFails, queryVars, parseVars
  <1>11. CASE ReadSyncPayload
    BY <1>1, <1>3, <1>5, <1>11 DEF ReadSyncPayload, ForwardFails, queryVars, parseVars
  <1>12. CASE ReadBeforeSync
    BY <1>1, <1>3, <1>5, <1>12 DEF ReadBeforeSync, ForwardFails, queryVars, parseVars
  <1>13. CASE ReadCommands
    BY <1>1, <1>5, <1>13 DEF ReadCommands, queryVars, parseVars
  <1>14. CASE ScanDel
    BY <1>1, <1>2, <1>4, <1>5, <1>14 DEF ScanDel, queryKey, queryVars
  <1>15. CASE ScanSkip
    BY <1>1, <1>5, <1>15 DEF ScanSkip, queryVars, parseVars
  <1>16. CASE ForwardChunk
    BY <1>1, <1>2, <1>3, <1>5, <1>16 DEF ForwardChunk, ForwardFails, queryVars, parseVars
  <1>17. QED
    BY <1>6, <1>7, <1>8, <1>9, <1>10, <1>11, <1>12, <1>13, <1>14, <1>15, <1>16

\* A reply that the slave sends.
LEMMA AnswerAccounted ==
  ASSUME TypeOK, InParser, Accounted, SlaveAnswer
  PROVE  InParser' /\ Accounted'
  <1>1. /\ answers \in Seq(Answers) /\ queries \in Seq(Queries) /\ queries # << >>
        /\ unread \in Nat /\ off \in Nat /\ have \in Nat /\ avail \in Nat
    BY DEF TypeOK, LinkType, HandlerType, SlaveAnswer
  <1>2. PICK err \in BOOLEAN, s \in Sizes \union {1} :
          /\ answers' = Append(answers,
                          [key |-> Head(queries).key, del |-> Head(queries).del,
                           ver |-> IF err THEN 0 ELSE sdb[Head(queries).key],
                           err |-> err, size |-> s])
          /\ unread' = unread + s
    BY DEF SlaveAnswer
  <1> DEFINE a == [key |-> Head(queries).key, del |-> Head(queries).del,
                   ver |-> IF err THEN 0 ELSE sdb[Head(queries).key],
                   err |-> err, size |-> s]
  <1>3. a \in Answers /\ a.size = s /\ s \in Nat \ {0}
    <2>1. Head(queries) \in Queries /\ sdb \in DB /\ s \in Nat \ {0}
      BY <1>1, ProxyAssumption DEF TypeOK, StoreType
    <2>2. QED
      BY <2>1, ProxyAssumption DEF Queries, Answers, DB
  <1>4. UNCHANGED << off, pc, have, avail >>
    BY DEF SlaveAnswer, parseVars
  <1> HIDE DEF a
  <1>5. answers' = Append(answers, a)
    BY <1>2 DEF a
  <1>6. Total' = Total + a.size /\ Total \in Nat
    BY <1>1, <1>2, <1>3, <1>4 DEF Total
  <1>7. Accounted'
    BY <1>1, <1>3, <1>5, <1>6, AnotherAnswer
  <1>8. answers' # << >> /\ IF answers = << >> THEN answers'[1] = a ELSE answers'[1] = answers[1]
    BY <1>1, <1>3, <1>5
  <1>9. off' < answers'[1].size
    BY <1>1, <1>3, <1>4, <1>8 DEF InParser
  <1>10. QED
    BY <1>4, <1>7, <1>8, <1>9 DEF InParser

\* n units taken off the first reply.
LEMMA ConsumeAccounted ==
  ASSUME TypeOK, InParser, Accounted, pc \in {"parse", "discard"}, answers # << >>,
         NEW n \in Nat, n <= avail, n <= Rest, Consume(n),
         NEW next \in {"parse", "discard"}, Resume(next), UNCHANGED << unread, have >>
  PROVE  InParser' /\ Accounted'
  <1>1. /\ answers \in Seq(Answers) /\ answers[1] \in Answers
        /\ unread \in Nat /\ off \in Nat /\ have \in Nat /\ avail \in Nat
    BY ElementOfSeq DEF TypeOK, LinkType, HandlerType
  <1>2. answers[1].size \in Nat /\ off < answers[1].size /\ have = 0
    BY <1>1 DEF Answers, InParser
  <1>3. avail' = avail - n /\ avail' \in Nat
    BY <1>1 DEF Consume
  <1>4. CASE n = Rest
    <2>1. answers' = Tail(answers) /\ off' = 0
      BY <1>4 DEF Consume
    <2>2. Total' = Total - answers[1].size /\ Total \in Nat
      <3>1. n = answers[1].size - off /\ have' = have /\ unread' = unread /\ off' = 0
        BY <1>4, <2>1 DEF Rest
      <3>2. Total' = unread + have + (avail - n)
        BY <1>1, <1>3, <3>1 DEF Total
      <3>3. QED
        BY <1>1, <1>2, <3>1, <3>2, SMTT(30) DEF Total
    <2>3. Accounted'
      BY <1>1, <2>1, <2>2, AnswerDone
    <2>4. answers' # << >> => answers'[1] \in Answers
      <3>1. answers' \in Seq(Answers)
        BY <1>1, <2>1, HeadTailProperties
      <3>2. answers' # << >> => 1 \in 1 .. Len(answers')
        BY <3>1
      <3>3. QED
        BY <3>1, <3>2, ElementOfSeq
    <2>5. QED
      BY <1>2, <1>3, <2>1, <2>3, <2>4 DEF InParser, Resume, Answers
  <1>5. CASE n # Rest
    <2>1. answers' = answers /\ off' = off + n
      BY <1>5 DEF Consume
    <2>2. Total' = Total
      BY <1>1, <1>3, <2>1 DEF Total
    <2>3. off' < answers'[1].size
      BY <1>1, <1>2, <1>5, <2>1 DEF Rest
    <2>4. QED
      BY <1>2, <1>3, <2>1, <2>2, <2>3, TotalKept DEF InParser, Resume
  <1>6. QED
    BY <1>4, <1>5

\* The steps of the reply parser.
LEMMA ParserAccounted ==
  ASSUME TypeOK, InParser, Accounted,
         \/ readDelValue \/ ParseArray \/ PopOnEmpty \/ ParseSimple \/ ParseIncomplete
         \/ Discard \/ ParseBulkString
  PROVE  InParser' /\ Accounted'
  <1>1. /\ answers \in Seq(Answers)
        /\ unread \in Nat /\ off \in Nat /\ have \in Nat /\ avail \in Nat
    BY DEF TypeOK, LinkType, HandlerType
  <1>2. answers # << >> => answers[1].size \in Nat /\ Rest \in Nat
    <2>1. answers # << >> => answers[1] \in Answers
      BY <1>1
    <2>2. QED
      BY <1>1, <2>1 DEF Answers, InParser, Rest
  <1>3. CASE readDelValue
    <2>1. /\ avail = 0 /\ avail' > 0 /\ have' = 0 /\ pc' = "parse"
          /\ UNCHANGED << answers, off >>
      BY <1>1, <1>3, NoneBefore DEF readDelValue
    <2>2. Total' = Total
      BY <1>1, <1>3, <2>1 DEF readDelValue, Total
    <2>3. QED
      BY <2>1, <2>2, TotalKept DEF InParser
  <1>4. CASE ParseArray \/ ParseSimple
    <2>1. /\ pc = "parse" /\ answers # << >> /\ off = 0 /\ answers[1].size <= avail
          /\ Consume(answers[1].size) /\ Resume("parse") /\ UNCHANGED << unread, have >>
      BY <1>4 DEF ParseArray, ParseSimple, InReply
    <2>2. answers[1].size <= Rest
      BY <1>1, <1>2, <2>1 DEF Rest
    <2>3. QED
      BY <1>2, <2>1, <2>2, ConsumeAccounted
  <1>5. CASE PopOnEmpty
    BY <1>5, SocketsLost DEF PopOnEmpty, Exit
  <1>6. CASE ParseIncomplete
    <2>1. /\ pc = "parse" /\ answers # << >> /\ avail > 0 /\ avail < Rest /\ avail' = 0
          /\ pc' = "idle" /\ UNCHANGED << answers, unread >> /\ have = 0
          /\ \/ have' = avail /\ off' = off
             \/ have' = 0 /\ off' = off + avail
      BY <1>6 DEF ParseIncomplete, saveToBuf, InParser
    <2>2. Total' = Total
      BY <1>1, <2>1 DEF Total
    <2>3. off' < answers'[1].size
      BY <1>1, <1>2, <2>1 DEF Rest, InParser
    <2>4. QED
      BY <2>1, <2>2, <2>3, TotalKept DEF InParser
  <1>7. CASE Discard
    <2> DEFINE n == IF avail < Rest THEN avail ELSE Rest
    <2>1. /\ pc = "discard" /\ answers # << >> /\ Consume(n) /\ Resume("discard")
          /\ UNCHANGED << unread, have >>
      BY <1>7 DEF Discard
    <2>2. n \in Nat /\ n <= avail /\ n <= Rest
      BY <1>1, <1>2, <2>1
    <2> HIDE DEF n
    <2>3. QED
      BY <2>1, <2>2, ConsumeAccounted
  <1>8. CASE ParseBulkString
    <2>1. CASE Exit
      BY <2>1, SocketsLost DEF Exit
    <2>2. CASE ~Exit
      <3>1. PICK n \in 1 .. MAX_READ : /\ n <= avail /\ n <= Rest /\ Consume(n)
                                       /\ Resume("parse") /\ UNCHANGED << unread, have >>
        BY <1>8, <2>2 DEF ParseBulkString
      <3>2. pc = "parse" /\ answers # << >> /\ n \in Nat
        BY <1>8, ProxyAssumption DEF ParseBulkString, MidReply
      <3>3. QED
        BY <3>1, <3>2, ConsumeAccounted
    <2>3. QED
      BY <2>1, <2>2
  <1>9. QED
    BY <1>3, <1>4, <1>5, <1>6, <1>7, <1>8

LEMMA NextAccounted ==
  ASSUME TypeOK, InParser, Accounted, [Next]_vars
  PROVE  InParser' /\ Accounted'
  BY OutsideAccounted, HandlersAccounted, AnswerAccounted, ParserAccounted
  DEF Next, Environment, Handler, Continue

\* Every unit of a reply is in the socket, in buf_slave_answer, before the parser or
\* gone from the front of the first reply, for every buffer size and every reply size:
\* buf_slave_answer is never put before a reply it is not the beginning of
\* (readDelValue, saveToBuf, closeFd).
THEOREM UnitsAddUp == Spec => []UnitsAccounted
  <1>1. Init => InParser /\ Accounted
    <2>1. ASSUME Init PROVE Accounted
      <3> DEFINE f == [i \in 0 .. 0 |-> 0]
      <3>1. f \in [0 .. Len(answers) -> Nat] /\ Sums(f, answers) /\ f[Len(answers)] = 0
        BY <2>1 DEF Init, Sums
      <3>2. Total = 0
        BY <2>1 DEF Init, Total
      <3>3. QED
        BY <3>1, <3>2 DEF Accounted
    <2>2. ASSUME Init PROVE InParser
      BY <2>2 DEF Init, InParser
    <2>3. QED
      BY <2>1, <2>2
  <1>2. TypeOK /\ InParser /\ Accounted /\ [Next]_vars => InParser' /\ Accounted'
    BY NextAccounted
  <1>3. TypeOK /\ Accounted => UnitsAccounted
    <2>1. SUFFICES ASSUME TypeOK, NEW f, Sums(f, answers), f[Len(answers)] = Total
                   PROVE  UnitsAccounted
      BY DEF Accounted
    <2>2. answers \in Seq(Answers)
      BY <2>1 DEF TypeOK, LinkType
    <2>3. Units = Total
      BY <2>1, <2>2, UnitsAreSums
    <2>4. QED
      BY <2>3, Zenon DEF UnitsAccounted, Total
  <1>4. QED
    BY <1>1, <1>2, <1>3, TypeCorrect, PTL DEF Spec
=============================================================================
