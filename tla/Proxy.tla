------------------------------- MODULE Proxy --------------------------------
(***************************************************************************)
(* The proxy between a redis master and its slave: the event handlers of   *)
(* proxy/event.c and read_handler.c, the DEL scanner of lrued_query.c, the *)
(* reply parser of parser.c, the archive writer of store.c and the reset   *)
(* of io.c, with the master, the slave and the sockets between them.       *)
(*                                                                         *)
(* The proxy has four sockets: master_fd (the replication link), listen_fd,*)
(* client_fd (the slave's replication connection) and read_fd (the proxy's *)
(* own connection to the slave, for hgetall).  It is one thread: handlers  *)
(* never interleave with each other, but the master, the slave and the     *)
(* network act between any two system calls of a handler, so a handler is  *)
(* cut into the steps between which they can be noticed.                   *)
(*                                                                         *)
(* Abstractions.  The value of a hash is a version number, 0 when the key  *)
(* is absent.  A command belongs to the chunk that completes it.  A reply  *)
(* to hgetall is a number of units of which one read returns MAX_READ at   *)
(* most, so a reply can be cut anywhere by a read.  The failure of a read  *)
(* or write that errno reports is a choice; a failing write may also kill  *)
(* the process, which does not handle SIGPIPE.                             *)
(***************************************************************************)
EXTENDS QueueOps, Integers

CONSTANTS
  Keys,        \* the keys of the redis data set
  Replicas,    \* the file servers that hold a key: a master and its backup
  MAX_READ,    \* units one read returns at most; 10240 bytes in basic.h
  Sizes,       \* the sizes a reply to hgetall of a non-empty hash can have
  MaxVer,      \* bound: hash updates the master's clients make
  MaxResets    \* bound: calls of closeFd

ASSUME ProxyAssumption ==
  /\ NULL \notin Keys
  /\ MAX_READ \in Nat \ {0}
  /\ Sizes \subseteq Nat \ {0}
  /\ MaxVer \in Nat
  /\ MaxResets \in Nat

VARIABLES
  \* the redis master
  mdb,        \* version of every key
  clock,      \* versions handed out
  feeding,    \* the master sends its write commands down the link
  \* sockets
  m2p,        \* master to proxy: replication stream
  p2m,        \* proxy to master: a sync request
  s2p,        \* slave to proxy: a sync request
  p2s,        \* proxy to slave: replication stream
  queries,    \* proxy to slave on read_fd: hgetall commands
  answers,    \* slave to proxy on read_fd: replies not yet parsed to the end
  unread,     \* units of them the proxy has not read yet
  \* the slave and the file servers
  sdb,        \* version of every key at the slave
  store,      \* what each replica has on file for each key, or NULL
  \* the proxy
  state,      \* the global variable state
  fd,         \* the four sockets
  queue,      \* q: the keys whose replies are awaited
  pc,         \* what the running handler is about to do
  chunk,      \* data of the running readFromMaster
  todo,       \* the part of it processInputBuffer has not scanned yet
  bulk,       \* bulk_size: 1 while the snapshot it announces is to come
  have,       \* units in buf_slave_answer
  avail,      \* units parseReadData still has in front of it
  off,        \* units at the start of the first reply that are gone
  resets      \* calls of closeFd so far

masterVars == << mdb, clock, feeding >>
linkVars == << m2p, p2m, s2p >>
queryVars == << queries, answers, unread, off >>
parseVars == << have, avail >>
scanVars == << chunk, todo >>
vars == << masterVars, linkVars, p2s, queryVars, sdb, store, state, fd, queue,
           pc, scanVars, bulk, parseVars, resets >>

-----------------------------------------------------------------------------
Fds == {"master", "listen", "client", "read"}

\* "stale": the variable is -1 but ae still has the file event registered.
FdStates == {"closed", "open", "stale"}

DB == [Keys -> 0 .. MaxVer]

Lines == {"FULLRESYNC", "HEADER", "ERR"}

\* What travels on the replication link.  A DEL carries, for the properties,
\* the version it removes at the master.
Commands ==
  [op : {"HSET", "DEL"}, key : Keys, ver : 0 .. MaxVer]
    \union [op : Lines]
    \union [op : {"RDB"}, db : DB]

Queries == [key : Keys, del : 0 .. MaxVer]

Answers ==
  [key : Keys, del : 0 .. MaxVer, ver : 0 .. MaxVer, err : BOOLEAN, size : Nat \ {0}]

Archives == [key : Keys, del : 0 .. MaxVer, ver : 0 .. MaxVer]

Requests == {"none", "SYNC", "PSYNC"}

\* main: the proxy enters its event loop connected to the master.
Init ==
  /\ mdb = [k \in Keys |-> 0]
  /\ sdb = mdb
  /\ clock = 0
  /\ feeding = FALSE
  /\ m2p = << >> /\ p2m = "none" /\ s2p = "none" /\ p2s = << >>
  /\ queries = << >> /\ answers = << >> /\ unread = 0 /\ off = 0
  /\ store = [r \in Replicas |-> [k \in Keys |-> NULL]]
  /\ state = "START"
  /\ fd = [f \in Fds |-> IF f \in {"master", "listen"} THEN "open" ELSE "closed"]
  /\ queue = << >>
  /\ pc = "idle"
  /\ chunk = << >> /\ todo = << >> /\ bulk = 0
  /\ have = 0 /\ avail = 0
  /\ resets = 0

-----------------------------------------------------------------------------
(* The redis master and the redis slave, from how the proxy uses them.     *)

Feed(c) == m2p' = IF feeding THEN Append(m2p, c) ELSE m2p

\* A client of the master writes a hash.
MasterWrite(k) ==
  /\ clock < MaxVer
  /\ clock' = clock + 1
  /\ mdb' = [mdb EXCEPT ![k] = clock']
  /\ Feed([op |-> "HSET", key |-> k, ver |-> clock'])
  /\ UNCHANGED << feeding, p2m, s2p, p2s, queryVars, sdb, store, state, fd, queue,
                  pc, scanVars, bulk, parseVars, resets >>

\* The master evicts a key, or a client deletes it: the same DEL either way.
MasterDel(k) ==
  /\ mdb[k] # 0
  /\ mdb' = [mdb EXCEPT ![k] = 0]
  /\ Feed([op |-> "DEL", key |-> k, ver |-> mdb[k]])
  /\ UNCHANGED << clock, feeding, p2m, s2p, p2s, queryVars, sdb, store, state, fd,
                  queue, pc, scanVars, bulk, parseVars, resets >>

\* The master refuses a sync request, or answers it with its snapshot and
\* from then on with every write command.
MasterSync ==
  /\ p2m # "none"
  /\ p2m' = "none"
  /\ LET prologue == IF p2m = "PSYNC" THEN << [op |-> "FULLRESYNC"] >> ELSE << >>
         snapshot == << [op |-> "HEADER"], [op |-> "RDB", db |-> mdb] >>
     IN \/ /\ m2p' = Append(m2p, [op |-> "ERR"])
           /\ UNCHANGED feeding
        \/ /\ m2p' = m2p \o prologue \o snapshot
           /\ feeding' = TRUE
  /\ UNCHANGED << mdb, clock, s2p, p2s, queryVars, sdb, store, state, fd, queue,
                  pc, scanVars, bulk, parseVars, resets >>

\* The data set of the slave after one element of the replication stream.
Apply(db, c) ==
  CASE c.op = "HSET" -> [db EXCEPT ![c.key] = c.ver]
    [] c.op = "DEL"  -> [db EXCEPT ![c.key] = 0]
    [] c.op = "RDB"  -> c.db
    [] OTHER         -> db

SlaveApply ==
  /\ p2s # << >>
  /\ sdb' = Apply(sdb, Head(p2s))
  /\ p2s' = Tail(p2s)
  /\ UNCHANGED << masterVars, linkVars, queryVars, store, state, fd, queue, pc,
                  scanVars, bulk, parseVars, resets >>

\* The slave answers the oldest hgetall with the hash, an empty array or an
\* error (the key is not a hash, the slave is loading its snapshot).
SlaveAnswer ==
  /\ queries # << >>
  /\ LET asked == Head(queries)
     IN \E err \in BOOLEAN, s \in Sizes \union {1} :
          /\ (err \/ sdb[asked.key] = 0) => s = 1
          /\ ~err /\ sdb[asked.key] # 0 => s \in Sizes
          /\ answers' = Append(answers,
                          [key |-> asked.key, del |-> asked.del,
                           ver |-> IF err THEN 0 ELSE sdb[asked.key],
                           err |-> err, size |-> s])
          /\ unread' = unread + s
  /\ queries' = Tail(queries)
  /\ UNCHANGED << masterVars, linkVars, p2s, off, sdb, store, state, fd, queue,
                  pc, scanVars, bulk, parseVars, resets >>

-----------------------------------------------------------------------------
(* closeFd, exit and connectToMaster.                                      *)

\* What is in flight to and from the proxy is lost with its sockets; what it
\* has written to the slave can still arrive.
LoseSockets ==
  /\ m2p' = << >> /\ p2m' = "none" /\ s2p' = "none"
  /\ feeding' = FALSE
  /\ queries' = << >> /\ answers' = << >> /\ unread' = 0 /\ off' = 0

\* The reset keeps the keys queued.
SlipCloseFdQueue(f) ==
  /\ resets < MaxResets
  /\ resets' = resets + 1
  /\ fd' = [x \in Fds |-> IF f[x] = "stale" THEN "stale" ELSE "closed"]
  /\ state' = "START"
  /\ have' = 0
  /\ UNCHANGED queue
  /\ LoseSockets

\* The reset keeps the half reply in buf_slave_answer.
SlipCloseFdBuffer(f) ==
  /\ resets < MaxResets
  /\ resets' = resets + 1
  /\ fd' = [x \in Fds |-> IF f[x] = "stale" THEN "stale" ELSE "closed"]
  /\ state' = "START"
  /\ queue' = << >>
  /\ UNCHANGED have
  /\ LoseSockets

\* closeFd, called when the sockets are as f says: every socket that is not
\* -1 is closed and its event deleted, and all state of the link is reset.
closeFd(f) ==
  /\ resets < MaxResets
  /\ resets' = resets + 1
  /\ fd' = [x \in Fds |-> IF f[x] = "stale" THEN "stale" ELSE "closed"]
  /\ state' = "START"
  /\ queue' = << >>
  /\ have' = 0
  /\ LoseSockets

\* exit(1), or the death of the process: nothing restarts it.
Exit ==
  /\ pc' = "exited"
  /\ fd' = [x \in Fds |-> "closed"]
  /\ state' = "START"
  /\ queue' = << >>
  /\ have' = 0 /\ avail' = 0
  /\ chunk' = << >> /\ todo' = << >>
  /\ LoseSockets
  /\ UNCHANGED resets

\* writeData that fails for good, as far as its caller goes on.
WriteFails ==
  \/ closeFd(fd) /\ pc' = "idle" /\ avail' = avail /\ chunk' = << >> /\ todo' = << >>
  \/ Exit

\* connectToMaster: the sockets after it.  A failing listenToPort is an Exit.
connectToMaster == [fd EXCEPT !["master"] = "open", !["listen"] = "open"]

\* The reconnection at the start of readData and writeData.
Reconnect ==
  fd' \in IF fd["master"] = "closed" THEN {fd, connectToMaster} ELSE {fd}

\* The timer looks at client_fd instead of master_fd.
SlipTimeEvent ==
  /\ pc = "idle"
  /\ fd["client"] = "closed" /\ fd["read"] = "open"
  /\ fd' = connectToMaster
  /\ UNCHANGED << masterVars, linkVars, queryVars, state, queue, pc, scanVars,
                  parseVars, resets, p2s, sdb, store, bulk >>

\* timeEvent, when run_with_period lets it look at master_fd.
timeEvent ==
  /\ pc = "idle"
  /\ fd["master"] = "closed"
  /\ \/ /\ fd' = connectToMaster
        /\ UNCHANGED << masterVars, linkVars, queryVars, state, queue, pc, scanVars,
                        parseVars, resets >>
     \/ Exit /\ UNCHANGED << mdb, clock >>
  /\ UNCHANGED << p2s, sdb, store, bulk >>

\* acceptTcpHandler with readDataFromSlave.  The event of a client_fd that
\* acceptTcpHandler itself closes stays registered, the next connection gets
\* the same descriptor, and registering it fails: closeFd.
acceptTcpHandler ==
  /\ pc = "idle"
  /\ fd["listen"] = "open" /\ fd["master"] = "open"
  /\ \/ /\ fd["client"] = "closed"                      \* both connections made
        /\ fd' = [fd EXCEPT !["client"] = "open", !["read"] = "open"]
        /\ s2p' \in {"SYNC", "PSYNC"}
        /\ p2s' = << >>
        /\ UNCHANGED << feeding, m2p, p2m, queryVars, state, queue, have, resets >>
     \/ /\ fd["client"] = "closed" /\ fd["read"] = "closed"  \* read_fd refused
        /\ closeFd([fd EXCEPT !["client"] = "open"])
        /\ p2s' = << >>
     \/ /\ fd["client"] # "closed"                      \* event registered before
        /\ closeFd([fd EXCEPT !["client"] = "open"])
        /\ p2s' = << >>
     \/ /\ fd["client"] = "open"                        \* accept itself fails
        /\ fd' = [fd EXCEPT !["client"] = "stale"]
        /\ s2p' = "none"
        /\ UNCHANGED << feeding, m2p, p2m, queryVars, state, queue, have, resets, p2s >>
  /\ UNCHANGED << mdb, clock, sdb, store, pc, scanVars, bulk, avail >>

\* readData that finds a connection closed or broken, in any of the handlers.
readDataFails ==
  /\ pc = "idle"
  /\ \E f \in {"master", "client", "read"} : fd[f] = "open"
  /\ closeFd(fd)
  /\ UNCHANGED << mdb, clock, sdb, store, p2s, pc, scanVars, bulk, avail >>

\* readFromSlave: a SYNC that arrives alone starts the synchronisation.
readFromSlave ==
  /\ pc = "idle"
  /\ fd["client"] = "open"
  /\ s2p # "none"
  /\ \/ /\ s2p' = "none"
        /\ p2m' = s2p
        /\ state' = IF s2p = "SYNC" THEN "SYNC_START" ELSE state
        /\ UNCHANGED << feeding, m2p, queryVars, fd, queue, pc, scanVars, parseVars,
                        resets >>
     \/ WriteFails
  /\ UNCHANGED << mdb, clock, sdb, store, p2s, bulk >>

-----------------------------------------------------------------------------
(* readFromMaster.                                                         *)

CanReadMaster == pc = "idle" /\ fd["master"] = "open"

\* Data written to client_fd, which may be -1: then it is gone.
Forward(data) == p2s' = IF fd["client"] = "open" THEN p2s \o data ELSE p2s

\* A write to client_fd that breaks off: a prefix of the data may arrive.
ForwardFails(data) ==
  /\ fd["client"] = "open"
  /\ WriteFails
  /\ \E n \in 0 .. Len(data) : p2s' = p2s \o SubSeq(data, 1, n)

\* SYNC_START_STATE: the first line decides.  Where it is not the header of
\* the snapshot, because the header was read together with +FULLRESYNC, the
\* loop takes bytes up to the next newline, somewhere in the snapshot or in
\* the command after it, for the header and reads 0 or a few bytes from it.
ReadSyncHeader ==
  /\ CanReadMaster
  /\ state = "SYNC_START"
  /\ m2p # << >>
  /\ \/ \E n \in {1, 2} :
          LET taken == SubSeq(m2p, 1, n)
          IN /\ n = 2 => Len(m2p) > 1 /\ m2p[1].op = "RDB"
             /\ m2p[1].op = "ERR" => fd["client"] # "open"
             /\ m2p' = SubSeq(m2p, n + 1, Len(m2p))
             /\ Forward(taken)
             /\ IF fd["client"] = "open"
                THEN state' = "SYNC" /\ bulk' = IF m2p[1].op = "HEADER" THEN 1 ELSE 0
                ELSE UNCHANGED << state, bulk >>
             /\ UNCHANGED << feeding, p2m, s2p, queryVars, fd, queue, pc, scanVars,
                             parseVars, resets >>
     \/ /\ m2p[1].op = "ERR" /\ fd["client"] = "open"
        /\ Exit
        /\ p2s' = p2s \o << m2p[1] >>
        /\ UNCHANGED bulk
     \/ ForwardFails(<< m2p[1] >>) /\ UNCHANGED bulk
  /\ UNCHANGED << mdb, clock, sdb, store >>

\* SYNC_STATE: the snapshot, of bulk_size bytes.
ReadSyncPayload ==
  /\ CanReadMaster
  /\ state = "SYNC"
  /\ \/ /\ bulk = 1 /\ m2p # << >>
        /\ \/ /\ m2p' = Tail(m2p)
              /\ Forward(<< m2p[1] >>)
              /\ IF fd["client"] = "open"
                 THEN state' = "RUNNING" /\ bulk' = 0
                 ELSE UNCHANGED << state, bulk >>
              /\ UNCHANGED << feeding, p2m, s2p, queryVars, fd, queue, pc, scanVars,
                              parseVars, resets >>
           \/ ForwardFails(<< m2p[1] >>) /\ UNCHANGED bulk
     \/ /\ bulk = 0
        /\ state' = "RUNNING"
        /\ UNCHANGED << feeding, linkVars, queryVars, fd, queue, pc, scanVars,
                        parseVars, resets, p2s, bulk >>
  /\ UNCHANGED << mdb, clock, sdb, store >>

\* START_STATE: everything is passed on.  +FULLRESYNC at the start of a read
\* of less than 100 bytes starts the synchronisation: alone or with the
\* header it is that short, together with a snapshot it may or may not be.
ReadBeforeSync ==
  /\ CanReadMaster
  /\ state = "START"
  /\ \E n \in 1 .. Len(m2p) :
       LET data == SubSeq(m2p, 1, n)
       IN \/ /\ m2p' = SubSeq(m2p, n + 1, Len(m2p))
             /\ Forward(data)
             /\ \/ data[1].op = "FULLRESYNC" /\ state' = "SYNC_START"
                \/ (data[1].op = "FULLRESYNC" => n > 2) /\ UNCHANGED state
             /\ UNCHANGED << feeding, p2m, s2p, queryVars, fd, queue, pc, scanVars,
                             parseVars, resets >>
          \/ ForwardFails(data)
  /\ UNCHANGED << mdb, clock, sdb, store, bulk >>

\* RUNNING_STATE: a chunk is read, to be scanned and then passed on.
ReadCommands ==
  /\ CanReadMaster
  /\ state = "RUNNING"
  /\ \E n \in 1 .. Len(m2p) :
       /\ chunk' = SubSeq(m2p, 1, n)
       /\ m2p' = SubSeq(m2p, n + 1, Len(m2p))
  /\ todo' = chunk'
  /\ pc' = "scan"
  /\ UNCHANGED << masterVars, p2m, s2p, p2s, queryVars, sdb, store, state, fd,
                  queue, bulk, parseVars, resets >>

-----------------------------------------------------------------------------
(* processInputBuffer, delParser and queryKey.                             *)

\* The query is written before the queue is asked whether it has room.
SlipQueryKey(c) ==
  \/ /\ fd["read"] = "open"
     /\ queries' = Append(queries, [key |-> c.key, del |-> c.ver])
     /\ queue' = PushQ(queue, c.key)
     /\ UNCHANGED << feeding, linkVars, answers, unread, off, state, fd, have, resets,
                     pc, chunk, avail >>
     /\ todo' = Tail(todo)

\* queryKey for the key of the DEL command c, in the middle of a scan.
queryKey(c) ==
  \/ /\ ~IsFullQ(queue)                                   \* query sent
     /\ fd["read"] = "open"
     /\ queries' = Append(queries, [key |-> c.key, del |-> c.ver])
     /\ queue' = PushQ(queue, c.key)
     /\ todo' = Tail(todo)
     /\ UNCHANGED << feeding, linkVars, answers, unread, off, state, fd, have, resets,
                     pc, chunk, avail >>
  \/ /\ ~IsFullQ(queue)                                   \* write fails
     /\ fd["read"] = "open"
     /\ \/ closeFd(fd) /\ todo' = Tail(todo) /\ UNCHANGED << pc, chunk, avail >>
        \/ Exit
  \/ /\ ~IsFullQ(queue)                                   \* read_fd is -1
     /\ fd["read"] # "open"
     /\ \/ /\ Reconnect
           /\ todo' = Tail(todo)
           /\ UNCHANGED << feeding, linkVars, queryVars, state, queue, have, resets,
                           pc, chunk, avail >>
        \/ fd["master"] = "closed" /\ Exit
  \/ /\ IsFullQ(queue)                                    \* key given up
     /\ todo' = Tail(todo)
     /\ UNCHANGED << feeding, linkVars, queryVars, state, fd, queue, have, resets,
                     pc, chunk, avail >>

ScanDel ==
  /\ pc = "scan"
  /\ todo # << >>
  /\ Head(todo).op = "DEL"
  /\ queryKey(Head(todo))
  /\ UNCHANGED << mdb, clock, sdb, store, p2s, bulk >>

\* Everything that is not a DEL is skipped; so is a DEL whose header was cut
\* by the end of a read, or jumped over by the 14 bytes a mismatch skips.
ScanSkip ==
  /\ pc = "scan"
  /\ todo # << >>
  /\ todo' = Tail(todo)
  /\ UNCHANGED << masterVars, linkVars, p2s, queryVars, sdb, store, state, fd, queue,
                  pc, chunk, bulk, parseVars, resets >>

\* The chunk is passed on only as long as no DEL in it found the queue full.
SlipForwardChunk ==
  /\ pc = "scan"
  /\ todo = << >>
  /\ pc' = "idle"
  /\ p2s' = IF IsFullQ(queue) THEN p2s ELSE p2s \o chunk
  /\ chunk' = << >>
  /\ UNCHANGED << masterVars, linkVars, queryVars, sdb, store, state, fd, queue,
                  todo, bulk, parseVars, resets >>

\* The write at the end of readFromMaster.  After a closeFd during the scan
\* client_fd is -1, and the chunk is dropped.
ForwardChunk ==
  /\ pc = "scan"
  /\ todo = << >>
  /\ \/ /\ Forward(chunk)
        /\ Reconnect
        /\ pc' = "idle"
        /\ chunk' = << >>
        /\ UNCHANGED << feeding, linkVars, queryVars, state, queue, todo, parseVars,
                        resets >>
     \/ ForwardFails(chunk)
     \/ fd["master"] = "closed" /\ Exit /\ UNCHANGED p2s
  /\ UNCHANGED << mdb, clock, sdb, store, bulk >>

-----------------------------------------------------------------------------
(* readDelValue and parseReadData.                                         *)

\* A read appended to what buf_slave_answer kept.  The two always fit the
\* 2 * MAX_READ bytes the code allows: have < MAX_READ.
readDelValue ==
  /\ pc = "idle"
  /\ fd["read"] = "open"
  /\ \E n \in 1 .. MAX_READ :
       /\ n <= unread
       /\ unread' = unread - n
       /\ avail' = have + n
  /\ have' = 0
  /\ pc' = "parse"
  /\ UNCHANGED << masterVars, linkVars, p2s, queries, answers, off, sdb, store, state,
                  fd, queue, scanVars, bulk, resets >>

\* The rest of the first reply.
Rest == answers[1].size - off

\* n units parsed or thrown away, no more than the first reply has.
Consume(n) ==
  /\ avail' = avail - n
  /\ IF n = Rest THEN answers' = Tail(answers) /\ off' = 0
                 ELSE off' = off + n /\ UNCHANGED answers

\* parseReadData returns when it has nothing left.
Resume(next) == pc' = IF avail' = 0 THEN "idle" ELSE next

\* sendToHost: the write to one replica fails without the other noticing.
saveValue(k, a) ==
  \E ok \in SUBSET Replicas :
    store' = [r \in Replicas |->
                IF r \in ok
                THEN [store[r] EXCEPT ![k] = [key |-> a.key, del |-> a.del, ver |-> a.ver]]
                ELSE store[r]]

InReply == pc = "parse" /\ avail > 0 /\ off = 0 /\ answers # << >>

\* popHandle for a complete reply, with a key to match it.
popHandle(a) ==
  /\ ~IsEmptyQ(queue)
  /\ saveValue(FirstQ(queue), a)
  /\ queue' = PopQ(queue)

\* parseArray on a complete reply.
ParseArray ==
  /\ InReply
  /\ answers[1].size <= avail
  /\ ~answers[1].err
  /\ popHandle(answers[1])
  /\ Consume(answers[1].size)
  /\ Resume("parse")
  /\ UNCHANGED << masterVars, linkVars, p2s, queries, unread, sdb, state, fd,
                  scanVars, bulk, have, resets >>

\* popHandle with no key to match the reply: exit(1).
PopOnEmpty ==
  /\ InReply
  /\ answers[1].size <= avail
  /\ ~answers[1].err
  /\ IsEmptyQ(queue)
  /\ Exit
  /\ UNCHANGED << mdb, clock, p2s, sdb, store, bulk >>

\* An error reply is logged and its key stays queued.
SlipParseSimple ==
  /\ InReply
  /\ answers[1].size <= avail
  /\ answers[1].err
  /\ UNCHANGED queue
  /\ Consume(answers[1].size)
  /\ Resume("parse")
  /\ UNCHANGED << masterVars, linkVars, p2s, queries, unread, sdb, store, state, fd,
                  scanVars, bulk, have, resets >>

\* parseSimple on a complete error reply, which is longer than 5 bytes: the
\* key is popped and nothing is stored.
ParseSimple ==
  /\ InReply
  /\ answers[1].size <= avail
  /\ answers[1].err
  /\ queue' = PopQ(queue)
  /\ Consume(answers[1].size)
  /\ Resume("parse")
  /\ UNCHANGED << masterVars, linkVars, p2s, queries, unread, sdb, store, state, fd,
                  scanVars, bulk, have, resets >>

\* MAX_READ units are kept where the buffer has room for one less.
SlipSaveToBuf ==
  /\ IF avail <= MAX_READ
     THEN have' = avail /\ UNCHANGED off
     ELSE have' = 0 /\ off' = off + avail
  /\ avail' = 0

\* saveToBuf: the rest is kept for the next read, unless it fills the buffer.
saveToBuf ==
  /\ IF avail < MAX_READ
     THEN have' = avail /\ UNCHANGED off
     ELSE have' = 0 /\ off' = off + avail
  /\ avail' = 0

\* A reply, or an item in the middle of one, that goes on after the end of
\* the read.
ParseIncomplete ==
  /\ pc = "parse"
  /\ answers # << >>
  /\ avail > 0 /\ avail < Rest
  /\ saveToBuf
  /\ pc' = "idle"
  /\ UNCHANGED << masterVars, linkVars, p2s, queries, answers, unread, sdb, store,
                  state, fd, queue, scanVars, bulk, resets >>

\* The parser stands in the middle of a reply whose start was dropped.
MidReply == pc = "parse" /\ avail > 0 /\ off > 0 /\ answers # << >>

\* A byte that starts no reply: the rest of the read is given up ...
UnexpectedData ==
  /\ MidReply
  /\ pc' = "discard"
  /\ UNCHANGED << masterVars, linkVars, p2s, queryVars, sdb, store, state, fd, queue,
                  scanVars, bulk, parseVars, resets >>

\* ... to its end, through however many replies it holds.
Discard ==
  /\ pc = "discard"
  /\ answers # << >>
  /\ Consume(IF avail < Rest THEN avail ELSE Rest)
  /\ Resume("discard")
  /\ UNCHANGED << masterVars, linkVars, p2s, queries, unread, sdb, store, state, fd,
                  queue, scanVars, bulk, have, resets >>

\* A '$' that is an item of the dropped reply: parseBulkString passes a
\* string to popHandle, which takes it for a JSON object.  The key is popped
\* and json_dumps finds nothing to store, or the process dies.
ParseBulkString ==
  /\ MidReply
  /\ \/ \E n \in 1 .. MAX_READ :
          /\ n <= avail /\ n <= Rest
          /\ ~IsEmptyQ(queue)
          /\ queue' = PopQ(queue)
          /\ Consume(n)
          /\ Resume("parse")
          /\ UNCHANGED << feeding, linkVars, queries, unread, state, fd, scanVars,
                          have, resets >>
     \/ Exit
  /\ UNCHANGED << mdb, clock, p2s, sdb, store, bulk >>

-----------------------------------------------------------------------------
\* The master, the slave and their clients.
Environment ==
  \/ \E k \in Keys : MasterWrite(k) \/ MasterDel(k)
  \/ MasterSync
  \/ SlaveApply
  \/ SlaveAnswer

\* The event loop picks a handler.
Handler ==
  \/ timeEvent
  \/ acceptTcpHandler
  \/ readDataFails
  \/ readFromSlave
  \/ ReadSyncHeader
  \/ ReadSyncPayload
  \/ ReadBeforeSync
  \/ ReadCommands
  \/ readDelValue

\* The running handler goes on.
Continue ==
  \/ ScanDel
  \/ ScanSkip
  \/ ForwardChunk
  \/ ParseArray
  \/ PopOnEmpty
  \/ ParseSimple
  \/ ParseIncomplete
  \/ UnexpectedData
  \/ Discard
  \/ ParseBulkString

Next == Environment \/ Handler \/ Continue

Spec == Init /\ [][Next]_vars

\* The proxy keeps running its handler and reads what has arrived, the timer
\* fires, and the slave answers what it is asked.
FairSpec ==
  /\ Spec
  /\ WF_vars(Continue)
  /\ WF_vars(readDelValue)
  /\ WF_vars(timeEvent)
  /\ WF_vars(SlaveAnswer)

-----------------------------------------------------------------------------
\* What closeFd resets.
LinkType ==
  /\ feeding \in BOOLEAN
  /\ m2p \in Seq(Commands)
  /\ p2m \in Requests /\ s2p \in Requests
  /\ queries \in Seq(Queries) /\ answers \in Seq(Answers)
  /\ unread \in Nat /\ off \in Nat
  /\ have \in 0 .. MAX_READ - 1
  /\ state \in {"START", "SYNC_START", "SYNC", "RUNNING"}
  /\ fd \in [Fds -> FdStates]
  /\ queue \in Seq(Keys)
  /\ resets \in 0 .. MaxResets

\* What belongs to the running handler.
HandlerType ==
  /\ pc \in {"idle", "scan", "parse", "discard", "exited"}
  /\ chunk \in Seq(Commands) /\ todo \in Seq(Commands)
  /\ avail \in Nat

\* The data sets, what is on its way to the slave, and the files.
StoreType ==
  /\ mdb \in DB /\ sdb \in DB
  /\ clock \in 0 .. MaxVer
  /\ p2s \in Seq(Commands)
  /\ store \in [Replicas -> [Keys -> Archives \union {NULL}]]
  /\ bulk \in {0, 1}

\* Types, with one bound the code relies on: buf_slave_answer never holds
\* MAX_READ units, so what is in it and one more read fit 2 * MAX_READ.
TypeOK == LinkType /\ HandlerType /\ StoreType

\* No reply is larger than one read.
AnswersFit == \A s \in Sizes : s <= MAX_READ

\* The keys in q are, in order, those of the replies on their way and of the
\* queries the slave has not answered: popHandle has nothing but this order
\* to match a reply with its key.
QueueMatchesAnswers ==
  /\ off = 0
  /\ Len(queue) = Len(answers) + Len(queries)
  /\ \A i \in 1 .. Len(answers) : queue[i] = answers[i].key
  /\ \A i \in 1 .. Len(queries) : queue[Len(answers) + i] = queries[i].key

\* A file is never written with the value of another key.
ArchivedUnderOwnKey ==
  \A r \in Replicas, k \in Keys : store[r][k] # NULL => store[r][k].key = k

\* A file is never overwritten with an older value of its key: replies are
\* stored in the order the slave gave them, also across a reset.
ArchiveNeverGoesBack ==
  [][\A r \in Replicas, k \in Keys :
       store[r][k] # NULL /\ store'[r][k].ver # 0
         => store'[r][k].ver >= store[r][k].ver]_vars

\* Applying c fixes the version of k.
Sets(c, k) == c.op = "RDB" \/ (c.op \in {"HSET", "DEL"} /\ c.key = k)

\* Applied to db, stream leaves version v of k: that of the last command that
\* sets k, or the one db has.
Leaves(db, stream, k, v) ==
  \/ /\ \A i \in 1 .. Len(stream) : ~Sets(stream[i], k)
     /\ v = db[k]
  \/ \E i \in 1 .. Len(stream) :
       /\ Sets(stream[i], k)
       /\ \A j \in (i + 1) .. Len(stream) : ~Sets(stream[j], k)
       /\ v = Apply(db, stream[i])[k]

\* The proxy is transparent: once the master feeds it, what the slave has,
\* and what is still on its way through the proxy, add up to what the master
\* has.  Scanning, querying, full queues and lost replies never drop, repeat
\* or reorder a command on a link that stays up.
Transparent ==
  feeding /\ fd["client"] = "open" =>
    \A k \in Keys : Leaves(sdb, p2s \o chunk \o m2p, k, mdb[k])

\* The units of the replies that are not parsed to the end.
Units ==
  LET upto[i \in 0 .. Len(answers)] == IF i = 0 THEN 0 ELSE upto[i - 1] + answers[i].size
  IN  upto[Len(answers)]

\* Every unit of every reply is in the socket, in buf_slave_answer, in the
\* hands of the parser or gone from the front of the first reply: the buffer
\* is never merged with a reply it is not the beginning of.
UnitsAccounted == unread + have + avail + off = Units

\* Every key in the queue gets its reply, or the link is reset: a reply that
\* is cut by reads, or is an error, does not leave its key behind.
QueueDrains == queue # << >> ~> queue = << >>

\* The comment on timeEvent, "when connection with master fails, reconnect":
\* whatever closed the sockets, and in the middle of whichever handler, the
\* link to the master is set up again or the process has ended.
ReconnectsToMaster ==
  fd["master"] = "closed" ~> fd["master"] = "open" \/ pc = "exited"

\* The architecture section of the README: the proxy delays the commands to
\* the slave in order to query the deleted values and write them to the file
\* system.  So while the link is up, the value an unanswered query asks for
\* is at the slave or on its way there, not already deleted by the DEL that
\* follows the query on the other connection ...
Carries(c, q) ==
  \/ c.op = "HSET" /\ c.key = q.key /\ c.ver = q.del
  \/ c.op = "RDB" /\ c.db[q.key] = q.del

AskedValueNotYetDeleted ==
  fd["client"] = "open" => \A i \in 1 .. Len(queries) :
    \/ sdb[queries[i].key] = queries[i].del
    \/ \E j \in 1 .. Len(p2s) : Carries(p2s[j], queries[i])
    \/ \E j \in 1 .. Len(chunk) : Carries(chunk[j], queries[i])

\* ... and what is on file is not older than what the DEL has deleted.
ArchiveNotStale ==
  \A r \in Replicas, k \in Keys :
    store[r][k] # NULL /\ store[r][k].ver # 0
      => store[r][k].ver >= store[r][k].del
=============================================================================
