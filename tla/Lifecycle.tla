------------------------------ MODULE Lifecycle -----------------------------
(***************************************************************************)
(* The descriptors of the proxy from connect to close: event.c, io.c and   *)
(* the reading side of read_handler.c on top of the event loop of ae.c.    *)
(* Where Proxy follows the data, this module follows descriptor numbers,   *)
(* which the kernel reuses, and ae's table of events, which is indexed by  *)
(* them.  What is read and written is left out: a write succeeds, fails or *)
(* kills the process (SIGPIPE).  curl, called to archive a value, has a    *)
(* socket of its own among the same numbers.                               *)
(***************************************************************************)
EXTENDS EventLoop

VARIABLES s,    \* event loop and kernel, with the globals master_fd, listen_fd, client_fd
                \* and read_fd
          pc,   \* "idle", the handler that runs, "dead" after exit
          cur   \* the descriptor the running handler was called with

vars == <<s, pc, cur>>

Globals == {"master", "listen", "client", "read"}

Handler ==
  [master |-> "readFromMaster", listen |-> "acceptTcpHandler",
   client |-> "readFromSlave", read |-> "readDelValue"]

Handlers == {Handler[g] : g \in Globals}

ASSUME NoneAssumption == None \notin Globals \union Handlers \union {"curl"}

-----------------------------------------------------------------------------
(* event.c and io.c *)

Opened(t, g, n) == [Open(t, g, n) EXCEPT !.fd[g] = n]

\* listenToPort; {} where the process exits.
listenToPort(t) ==
  {aeCreateFileEvent(Opened(t, "listen", n), n, Handler["listen"]) :
     n \in {m \in Lowest(t) : Registers(t, m)}}

\* connectToMaster: the states it may leave, {} where the process exits.  When
\* the event cannot be created the socket is closed and master_fd keeps its
\* number.
connectToMaster(t) ==
  LET c == [t EXCEPT !.again = TRUE]
  IN  {t} \union UNION {LET opened == Opened(c, "master", n)
                        IN  IF Registers(t, n)
                            THEN listenToPort(aeCreateFileEvent(opened, n, Handler["master"]))
                            ELSE {Close(opened, n)} : n \in Lowest(t)}

SlipCloseGlobal(t, g) ==
  IF t.fd[g] = -1 THEN t ELSE [Close(t, t.fd[g]) EXCEPT !.fd[g] = -1]

CloseGlobal(t, g) ==
  IF t.fd[g] = -1 THEN t
  ELSE [Close(aeDeleteFileEvent(t, t.fd[g]), t.fd[g]) EXCEPT !.fd[g] = -1]

\* closeFd: all four sockets, whichever failed.
closeFd(t) ==
  LET c == CloseGlobal(t, "client")
      r == CloseGlobal(c, "read")
  IN  CloseGlobal(CloseGlobal(r, "master"), "listen")

SlipAccepted(t) ==
  {IF Registers(t, n)
   THEN aeCreateFileEvent(Opened(t, "client", n), n, Handler["client"])
   ELSE Opened(t, "client", n) : n \in Lowest(t)}

\* readDataFromSlave opens read_fd with the first slave; the connect may fail.
Asks(t) ==
  {closeFd(t)} \union {LET asking == Opened(t, "read", n)
                       IN  IF Registers(t, n) THEN aeCreateFileEvent(asking, n, Handler["read"])
                           ELSE closeFd(asking) : n \in Lowest(t)}

\* acceptTcpHandler with readDataFromSlave when a connection is there.
Accepted(t) ==
  UNION {LET opened == Opened(t, "client", n)
             watched == aeCreateFileEvent(opened, n, Handler["client"])
         IN  IF ~Registers(t, n) THEN {closeFd(opened)}
             ELSE IF t.fd["read"] # -1 THEN {watched}
             ELSE Asks(watched) : n \in Lowest(t)}

SlipDropClient(t) ==
  IF t.fd["client"] = -1 THEN t ELSE Close(aeDeleteFileEvent(t, t.fd["client"]), t.fd["client"])

\* client_fd is closed and its event stays in ae's table, so registering the
\* next connection, if it gets the same number, fails.
DropClient(t) == IF t.fd["client"] = -1 THEN t ELSE Close(t, t.fd["client"])

\* acceptTcpHandler; accept may fail, and client_fd is -1 then.
Accepts(t) ==
  LET dropped == [DropClient(t) EXCEPT !.fd["client"] = -1, !.readable[cur] = "no"]
  IN  IF t.fd["master"] = -1 THEN {t}
      ELSE {dropped} \union (IF t.readable[cur] = "data" THEN Accepted(dropped) ELSE {})

\* The sockets a handler writes to after it has read something.
Targets == [readFromMaster |-> {"client", "read"}, readFromSlave |-> {"master"},
            readDelValue |-> {}]

\* A writeData that fails.  The scanner in readFromMaster goes on with the next
\* command, whose writeData reconnects first.
WriteFails(t) ==
  IF \A g \in Targets[pc] : t.fd[g] = -1 THEN {}
  ELSE {closeFd(t)} \union (IF pc = "readFromMaster" /\ t.fd["read"] # -1
                            THEN connectToMaster(closeFd(t)) ELSE {})

\* curl opens a connection to a file server or closes the one it kept.
Curls(t) ==
  LET kept == {n \in FdNumbers : t.sock[n] = "curl"}
  IN  IF kept = {} THEN {Open(t, "curl", n) : n \in Lowest(t)} ELSE {Close(t, n) : n \in kept}

\* The rest of a handler after bytes have been read.
Passes(t) ==
  {t} \union WriteFails(t) \union (IF pc = "readDelValue" THEN Curls(t) ELSE {})

-----------------------------------------------------------------------------

\* main: connected to the master, or the process would have exited.
Init ==
  /\ pc = "idle"
  /\ cur = -1
  /\ s \in {t \in connectToMaster(EmptyLoop(Globals)) : t.fd["master"] # -1}

\* Data or the end of the stream arrives on a connection, a slave connects.
PeerActs(n) ==
  /\ s.sock[n] \in Globals
  /\ s.readable[n] = "no"
  /\ \/ s' = [s EXCEPT !.readable[n] = "data"]
     \/ s.sock[n] # "listen" /\ s' = [s EXCEPT !.readable[n] = "eof"]
  /\ UNCHANGED <<pc, cur>>

\* aeProcessEvents: epoll_wait.
Poll ==
  /\ pc = "idle"
  /\ s.fired = <<>>
  /\ Ready(s) # {}
  /\ s' \in {[t EXCEPT !.again = FALSE] : t \in Polls(s)}
  /\ UNCHANGED <<pc, cur>>

\* aeProcessEvents: the next fired event.  It is skipped when ae has no event
\* for the number any more.
Dispatch ==
  /\ pc = "idle"
  /\ s.fired # <<>>
  /\ LET n == Head(s.fired)
     IN  /\ s' = [s EXCEPT !.fired = Tail(@)]
         /\ pc' = IF s.proc[n] = None THEN "idle" ELSE s.proc[n]
         /\ cur' = IF s.proc[n] = None THEN -1 ELSE n

\* timeEvent, in the call in which run_with_period lets it look at master_fd.
timeEvent ==
  /\ pc = "idle"
  /\ s.fired = <<>>
  /\ s.fd["master"] = -1
  /\ s' \in connectToMaster(s)
  /\ UNCHANGED <<pc, cur>>

\* The handler is done.
Return(t) == s' = t /\ pc' = "idle" /\ cur' = -1

acceptTcpHandler ==
  /\ pc = "acceptTcpHandler"
  /\ \E t \in Accepts(s) : Return(t)

Readers == Handlers \ {"acceptTcpHandler"}

\* exit(1) or SIGPIPE, also when timeEvent has connected and cannot listen.
Exit ==
  /\ pc \in Readers \/ (pc = "idle" /\ s.fired = <<>> /\ s.fd["master"] = -1)
  /\ pc' = "dead"
  /\ cur' = -1
  /\ UNCHANGED s

\* readData returns bytes.  Where there is nothing to read the process waits;
\* that this does not happen to master_fd, which does not block, is a part of
\* NeverBlocks.
ReadBytes ==
  /\ pc \in Readers
  /\ s.readable[cur] = "data"
  /\ \E t \in Passes([s EXCEPT !.readable[cur] = "no"]) : Return(t)

\* The end of the stream.  With EAGAIN left in errno it is taken for no data.
ReadEnd ==
  /\ pc \in Readers
  /\ s.readable[cur] = "eof"
  /\ Return(closeFd(s)) \/ Return(s)

\* readFromSlave for the event acceptTcpHandler has left behind: the descriptor
\* is closed, or curl has it by now.  readData connects first if need be.
ReadStale ==
  /\ pc \in Readers
  /\ s.sock[cur] \in {None, "curl"}
  /\ \E t \in IF s.fd["master"] = -1 THEN connectToMaster(s) ELSE {s} :
       \/ Return(closeFd(t))
       \/ /\ t.sock[cur] # None
          /\ \E u \in Passes(t) : Return(u)

Next ==
  \/ \E n \in FdNumbers : PeerActs(n)
  \/ Poll \/ Dispatch \/ timeEvent
  \/ acceptTcpHandler \/ ReadBytes \/ ReadEnd
  \/ ReadStale \/ Exit

Spec == Init /\ [][Next]_vars

-----------------------------------------------------------------------------
(* Properties *)

TypeOK ==
  /\ s.sock \in [FdNumbers -> Globals \union {"curl", None}]
  /\ s.epoll \subseteq FdNumbers
  /\ s.proc \in [FdNumbers -> Handlers \union {None}]
  /\ s.fd \in [Globals -> FdNumbers \union {-1}]
  /\ pc \in Handlers \union {"idle", "dead"}

\* Whatever is closed and reopened between epoll_wait and the call, a handler is
\* called with the descriptor its global variable holds.  The one exception is
\* readFromSlave after a failed accept: acceptTcpHandler has closed client_fd and
\* left its event behind.
CallsMatchSockets ==
  \A g \in Globals :
    pc = Handler[g] => \/ s.fd[g] = cur /\ s.sock[cur] = g
                       \/ g = "client" /\ s.fd[g] = -1

\* readFromSlave and readDelValue read from blocking sockets: they are only called
\* when there is something to read, also for an event that was reported for a
\* connection that has been closed since.  That a reset and the next connection
\* to the master, and a slave, fall between one epoll_wait and the event is
\* excepted: aeProcessEvents cannot tell the new socket from the old.  The new
\* connection to the master itself is never reached by an old event.
NeverBlocks ==
  pc \in Readers /\ s.sock[cur] \in Globals /\ (s.again => pc = "readFromMaster")
    => s.readable[cur] # "no"

\* No descriptor is lost: every open socket is held by the global variable for
\* it, and is watched, so that the loop will hear of its end (closeFd and the
\* error paths of event.c).
NoLeak ==
  \A n \in FdNumbers : s.sock[n] \in Globals => s.fd[s.sock[n]] = n /\ n \in s.epoll

\* Without a connection to the master master_fd is -1, which is what timeEvent
\* looks at to reconnect.
RetryArmed == s.fd["master"] # -1 => s.sock[s.fd["master"]] = "master"
=============================================================================
