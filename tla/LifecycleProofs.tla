--------------------------- MODULE LifecycleProofs --------------------------
(***************************************************************************)
(* Proofs about the descriptors of the proxy, for every set of descriptor  *)
(* numbers, also one that runs out.                                        *)
(***************************************************************************)
EXTENDS Lifecycle, NatSets, FiniteSetTheorems

-----------------------------------------------------------------------------
(* The inductive invariant *)

\* The two lowest descriptor numbers: those of the master and of the listener.
FirstFd == Min(FdNumbers)
SecondFd == Min(FdNumbers \ {FirstFd})
Reserved == {FirstFd, SecondFd}

\* Types of the fields; nothing depends on maxfd.
IsLoop(t) ==
  t \in [sock : [FdNumbers -> Globals \union {"curl", None}],
         readable : [FdNumbers -> {"no", "data", "eof"}],
         epoll : SUBSET FdNumbers,
         proc : [FdNumbers -> Handlers \union {None}],
         maxfd : {t.maxfd},
         fired : Seq(FdNumbers),
         fd : [Globals -> FdNumbers \union {-1}],
         again : BOOLEAN]

Up(t) == t.fd["master"] # -1

\* acceptTcpHandler has closed the descriptor and left its event behind.
Stale(t, n) == t.proc[n] = "readFromSlave" /\ n \notin t.epoll

\* The global variables and the sockets agree.
Held(t) ==
  /\ \A n \in FdNumbers : t.sock[n] \in Globals => t.fd[t.sock[n]] = n
  /\ \A g \in Globals : t.fd[g] # -1 => t.sock[t.fd[g]] = g

\* ae's table and the kernel's set agree with the sockets, but for stale events.
Watched(t) ==
  /\ \A n \in FdNumbers : t.sock[n] \in Globals => n \in t.epoll /\ t.proc[n] = Handler[t.sock[n]]
  /\ \A n \in t.epoll : t.sock[n] \in Globals

\* What is stale is an event of a slave, never at a reserved number, where curl
\* is not either; curl has one socket.
Marked(t) ==
  /\ \A n \in FdNumbers : t.proc[n] # None /\ n \notin t.epoll => t.proc[n] = "readFromSlave"
  /\ \A n \in Reserved \intersect FdNumbers : t.sock[n] # "curl" /\ ~Stale(t, n)
  /\ \A m, n \in FdNumbers : t.sock[m] = "curl" /\ t.sock[n] = "curl" => m = n

\* The master has the first number and the listener the second, or all is closed.
Placed(t) ==
  IF Up(t) THEN t.fd["master"] = FirstFd /\ t.fd["listen"] = SecondFd /\ SecondFd \in FdNumbers
  ELSE \A g \in Globals : t.fd[g] = -1

Other(t, n) == n \notin Reserved /\ n # t.fd["read"]

\* Below the slave's connection there are stale numbers only, so that the next
\* connection, which gets one of them or the same, cannot be registered.
BelowClient(t) ==
  t.fd["client"] # -1 =>
    \A n \in FdNumbers : n < t.fd["client"] /\ Other(t, n) => Stale(t, n)

\* After a failed accept the closed number is stale, with all below.
AfterDrop(t) ==
  t.fd["client"] = -1 /\ t.fd["read"] # -1 =>
    \E c \in FdNumbers : Stale(t, c) /\ \A n \in FdNumbers : n <= c /\ Other(t, n) => Stale(t, n)

\* curl has a stale number, or one above the slave's.
AboveClient(t) ==
  \A n \in FdNumbers : t.sock[n] = "curl" /\ ~Stale(t, n) =>
    \E c \in FdNumbers : c < n /\ Other(t, c) /\ t.sock[c] \in {None, "client"}

Shape(t) ==
  /\ IsLoop(t)
  /\ Held(t) /\ Watched(t) /\ Marked(t) /\ Placed(t)
  /\ BelowClient(t) /\ AfterDrop(t) /\ AboveClient(t)

\* What is left of the last epoll_wait.
Pending(t) == {t.fired[i] : i \in DOMAIN t.fired}

Once(t) == \A i, j \in DOMAIN t.fired : t.fired[i] = t.fired[j] => i = j

Batch(t) ==
  /\ Once(t)
  /\ \A n \in Pending(t) : Stale(t, n) => t.fd["client"] = -1 /\ SecondFd \notin Pending(t)
  /\ \A m, n \in Pending(t) : Stale(t, m) /\ Stale(t, n) => m = n
  /\ ~t.again /\ Up(t) => \A n \in Pending(t) : t.sock[n] \in Globals \/ Stale(t, n)
  /\ ~t.again => \A n \in Pending(t) : t.sock[n] \in Globals => t.readable[n] # "no"
  /\ t.again /\ Up(t) => FirstFd \notin Pending(t)
  /\ \A n \in Pending(t) : Stale(t, n) /\ t.sock[n] = "curl" =>
       /\ t.fd["read"] \notin Pending(t)
       /\ ~Up(t) => FirstFd \notin Pending(t)

NoStale(t) == \A n \in Pending(t) : ~Stale(t, n)
NoStaleCurl(t) == \A n \in Pending(t) : ~(Stale(t, n) /\ t.sock[n] = "curl")

Running ==
  /\ pc \in Handlers => cur \in FdNumbers /\ cur \notin Pending(s)
  /\ \A g \in Globals :
       pc = Handler[g] => \/ s.fd[g] = cur /\ s.sock[cur] = g
                          \/ g = "client" /\ s.fd[g] = -1 /\ Stale(s, cur)
  /\ pc = "readFromSlave" /\ Stale(s, cur) =>
       NoStale(s) /\ (s.sock[cur] = "curl" /\ ~Up(s) => FirstFd \notin Pending(s))
  /\ pc = "acceptTcpHandler" => NoStale(s)
  /\ pc = "readDelValue" => NoStaleCurl(s)

-----------------------------------------------------------------------------
(* What the operators of EventLoop do, field by field *)

\* Fields other than those named keep their values.
Keeps(t, u, changed) ==
  /\ "sock" \notin changed => u.sock = t.sock
  /\ "readable" \notin changed => u.readable = t.readable
  /\ "epoll" \notin changed => u.epoll = t.epoll
  /\ "proc" \notin changed => u.proc = t.proc
  /\ "fired" \notin changed => u.fired = t.fired
  /\ "fd" \notin changed => u.fd = t.fd
  /\ "again" \notin changed => u.again = t.again

LEMMA OpenFields ==
  ASSUME NEW t, IsLoop(t), NEW n \in FdNumbers, NEW k \in Globals \union {"curl"}
  PROVE  LET u == Open(t, k, n)
         IN  /\ IsLoop(u) /\ Keeps(t, u, {"sock", "readable"})
             /\ u.sock = [t.sock EXCEPT ![n] = k]
             /\ u.readable = [t.readable EXCEPT ![n] = "no"]
  BY DEF Open, IsLoop, Keeps

LEMMA OpenedFields ==
  ASSUME NEW t, IsLoop(t), NEW n \in FdNumbers, NEW g \in Globals
  PROVE  LET u == Opened(t, g, n)
         IN  /\ IsLoop(u) /\ Keeps(t, u, {"sock", "readable", "fd"})
             /\ u.sock = [t.sock EXCEPT ![n] = g]
             /\ u.readable = [t.readable EXCEPT ![n] = "no"]
             /\ u.fd = [t.fd EXCEPT ![g] = n]
  BY DEF Open, Opened, IsLoop, Keeps

LEMMA CreateFields ==
  ASSUME NEW t, IsLoop(t), NEW n \in FdNumbers, NEW h \in Handlers
  PROVE  LET u == aeCreateFileEvent(t, n, h)
         IN  /\ IsLoop(u) /\ Keeps(t, u, {"epoll", "proc"})
             /\ u.epoll = t.epoll \union {n}
             /\ u.proc = [t.proc EXCEPT ![n] = h]
  BY DEF aeCreateFileEvent, IsLoop, Keeps

LEMMA CloseFields ==
  ASSUME NEW t, IsLoop(t), NEW n \in FdNumbers
  PROVE  LET u == Close(t, n)
         IN  /\ IsLoop(u) /\ Keeps(t, u, {"sock", "readable", "epoll"})
             /\ u.sock = [t.sock EXCEPT ![n] = None]
             /\ u.readable = [t.readable EXCEPT ![n] = "no"]
             /\ u.epoll = t.epoll \ {n}
  BY DEF Close, IsLoop, Keeps

LEMMA DeleteFields ==
  ASSUME NEW t, IsLoop(t), NEW n \in FdNumbers
  PROVE  LET u == aeDeleteFileEvent(t, n)
         IN  /\ IsLoop(u) /\ Keeps(t, u, {"epoll", "proc"})
             /\ u.epoll \ {n} = t.epoll \ {n}
             /\ u.proc = [t.proc EXCEPT ![n] = None]
  BY DEF aeDeleteFileEvent, aeApiDelEvent, IsLoop, Keeps

\* A socket for a global is opened at n, and then registered.
OpenedAt(t, u, g, n) ==
  /\ IsLoop(u) /\ u.fired = t.fired /\ u.again = t.again
  /\ \A h \in Globals : u.fd[h] = IF h = g THEN n ELSE t.fd[h]
  /\ \A m \in FdNumbers :
       /\ u.sock[m] = IF m = n THEN g ELSE t.sock[m]
       /\ u.readable[m] = IF m = n THEN "no" ELSE t.readable[m]
       /\ u.proc[m] = t.proc[m]
       /\ m \in u.epoll <=> m \in t.epoll

RegisteredAt(t, u, g, n) ==
  /\ IsLoop(u) /\ u.fired = t.fired /\ u.again = t.again
  /\ \A h \in Globals : u.fd[h] = IF h = g THEN n ELSE t.fd[h]
  /\ \A m \in FdNumbers :
       /\ u.sock[m] = IF m = n THEN g ELSE t.sock[m]
       /\ u.readable[m] = IF m = n THEN "no" ELSE t.readable[m]
       /\ u.proc[m] = IF m = n THEN Handler[g] ELSE t.proc[m]
       /\ m \in u.epoll <=> m = n \/ m \in t.epoll

LEMMA OpenedSocket ==
  ASSUME NEW t, IsLoop(t), NEW n \in FdNumbers, NEW g \in Globals, NEW u, u = Opened(t, g, n)
  PROVE  OpenedAt(t, u, g, n)
  <1>1. /\ IsLoop(u) /\ Keeps(t, u, {"sock", "readable", "fd"})
        /\ u.sock = [t.sock EXCEPT ![n] = g]
        /\ u.readable = [t.readable EXCEPT ![n] = "no"]
        /\ u.fd = [t.fd EXCEPT ![g] = n]
    BY OpenedFields
  <1>2. QED
    BY <1>1 DEF IsLoop, Keeps, OpenedAt

LEMMA RegisterFields ==
  ASSUME NEW t, IsLoop(t), NEW n \in FdNumbers, NEW g \in Globals,
         NEW u, u = aeCreateFileEvent(Opened(t, g, n), n, Handler[g])
  PROVE  RegisteredAt(t, u, g, n)
  <1> DEFINE o == Opened(t, g, n)
  <1>1. OpenedAt(t, o, g, n)
    BY OpenedSocket
  <1>2. IsLoop(o) /\ Handler[g] \in Handlers
    BY <1>1 DEF OpenedAt, Handlers
  <1>3. /\ IsLoop(u) /\ Keeps(o, u, {"epoll", "proc"})
        /\ u.epoll = o.epoll \union {n}
        /\ u.proc = [o.proc EXCEPT ![n] = Handler[g]]
    BY <1>2, CreateFields
  <1> HIDE DEF o
  <1>4. QED
    BY <1>1, <1>2, <1>3 DEF IsLoop, Keeps, OpenedAt, RegisteredAt

-----------------------------------------------------------------------------
(* closeFd *)

\* The sockets of the globals in G are closed and their events deleted.
Closed(t, u, G) ==
  /\ IsLoop(u)
  /\ u.fired = t.fired /\ u.again = t.again
  /\ \A g \in Globals : u.fd[g] = IF g \in G THEN -1 ELSE t.fd[g]
  /\ \A n \in FdNumbers : t.sock[n] \in G =>
       u.sock[n] = None /\ u.proc[n] = None /\ n \notin u.epoll
  /\ \A n \in FdNumbers : t.sock[n] \notin G =>
       /\ u.sock[n] = t.sock[n] /\ u.proc[n] = t.proc[n] /\ u.readable[n] = t.readable[n]
       /\ n \in u.epoll <=> n \in t.epoll

\* The handlers of different globals differ.
LEMMA HandlerFacts ==
  /\ Handler = [g \in Globals |-> Handler[g]]
  /\ \A g \in Globals : Handler[g] \in Handlers
  /\ \A g, h \in Globals : Handler[g] = Handler[h] => g = h
  /\ Handler["master"] = "readFromMaster" /\ Handler["listen"] = "acceptTcpHandler"
  /\ Handler["client"] = "readFromSlave" /\ Handler["read"] = "readDelValue"
  BY DEF Handler, Handlers, Globals

LEMMA FdNotMinusOne == -1 \notin FdNumbers
  BY FdAssumption

LEMMA CloseGlobalFields ==
  ASSUME NEW t, IsLoop(t), Held(t), NEW g \in Globals
  PROVE  Closed(t, CloseGlobal(t, g), {g})
  <1>1. CASE t.fd[g] = -1
    <2>1. CloseGlobal(t, g) = t
      BY <1>1 DEF CloseGlobal
    <2>2. \A n \in FdNumbers : t.sock[n] # g
      BY <1>1, FdNotMinusOne DEF Held
    <2>3. QED
      BY <1>1, <2>1, <2>2 DEF Closed
  <1>2. CASE t.fd[g] # -1
    <2> DEFINE n == t.fd[g]
               d == aeDeleteFileEvent(t, n)
               c == Close(d, n)
               u == [c EXCEPT !.fd[g] = -1]
    <2>1. n \in FdNumbers /\ \A m \in FdNumbers : t.sock[m] = g <=> m = n
      BY <1>2 DEF IsLoop, Held
    <2>2. CloseGlobal(t, g) = u
      BY <1>2 DEF CloseGlobal
    <2>3. /\ IsLoop(d) /\ Keeps(t, d, {"epoll", "proc"})
          /\ d.epoll \ {n} = t.epoll \ {n}
          /\ d.proc = [t.proc EXCEPT ![n] = None]
      BY <2>1, DeleteFields
    <2>4. /\ IsLoop(c) /\ Keeps(d, c, {"sock", "readable", "epoll"})
          /\ c.sock = [d.sock EXCEPT ![n] = None]
          /\ c.readable = [d.readable EXCEPT ![n] = "no"]
          /\ c.epoll = d.epoll \ {n}
      BY <2>1, <2>3, CloseFields
    <2> HIDE DEF n, d, c
    <2>5. IsLoop(u) /\ Keeps(c, u, {"fd"}) /\ u.fd = [c.fd EXCEPT ![g] = -1]
      BY <2>4 DEF IsLoop, Keeps
    <2>6. /\ u.fired = t.fired /\ u.again = t.again /\ u.fd = [t.fd EXCEPT ![g] = -1]
          /\ u.sock = [t.sock EXCEPT ![n] = None] /\ u.readable = [t.readable EXCEPT ![n] = "no"]
          /\ u.epoll = t.epoll \ {n} /\ u.proc = [t.proc EXCEPT ![n] = None]
      BY <2>3, <2>4, <2>5 DEF Keeps
    <2>7. \A h \in Globals : u.fd[h] = IF h \in {g} THEN -1 ELSE t.fd[h]
      BY <2>6 DEF IsLoop
    <2>8. \A m \in FdNumbers : t.sock[m] \in {g} =>
            u.sock[m] = None /\ u.proc[m] = None /\ m \notin u.epoll
      BY <2>1, <2>6 DEF IsLoop
    <2>9. \A m \in FdNumbers : t.sock[m] \notin {g} =>
            /\ u.sock[m] = t.sock[m] /\ u.proc[m] = t.proc[m] /\ u.readable[m] = t.readable[m]
            /\ m \in u.epoll <=> m \in t.epoll
      BY <2>1, <2>6 DEF IsLoop
    <2> HIDE DEF u
    <2>10. QED
      BY <2>2, <2>5, <2>6, <2>7, <2>8, <2>9 DEF Closed
  <1>3. QED
    BY <1>1, <1>2

LEMMA ClosedHeld ==
  ASSUME NEW t, NEW u, IsLoop(t), Held(t), NEW G \in SUBSET Globals, Closed(t, u, G)
  PROVE  Held(u)
  BY NoneAssumption DEF Closed, Held, IsLoop

LEMMA CloseGlobalStep ==
  ASSUME NEW t, IsLoop(t), Held(t), NEW g \in Globals, NEW u, u = CloseGlobal(t, g)
  PROVE  Closed(t, u, {g}) /\ IsLoop(u) /\ Held(u)
  <1>1. Closed(t, u, {g})
    BY CloseGlobalFields
  <1>2. IsLoop(u)
    BY <1>1 DEF Closed
  <1>3. {g} \in SUBSET Globals
    OBVIOUS
  <1>4. Held(u)
    BY <1>1, <1>3, ClosedHeld
  <1>5. QED
    BY <1>1, <1>2, <1>4

LEMMA ClosedTwice ==
  ASSUME NEW t, NEW u, NEW v, NEW F \in SUBSET Globals, NEW G \in SUBSET Globals,
         IsLoop(t), Closed(t, u, F), Closed(u, v, G)
  PROVE  Closed(t, v, F \union G)
  BY NoneAssumption DEF Closed

\* closeFd closes whatever the globals hold.
LEMMA closeFdFields ==
  ASSUME NEW t, IsLoop(t), Held(t)
  PROVE  Closed(t, closeFd(t), Globals) /\ Held(closeFd(t))
  <1> DEFINE c == CloseGlobal(t, "client")
             r == CloseGlobal(c, "read")
             m == CloseGlobal(r, "master")
             l == CloseGlobal(m, "listen")
  <1>0. {"client", "read", "master", "listen"} = Globals
    BY DEF Globals
  <1>1. Closed(t, c, {"client"}) /\ IsLoop(c) /\ Held(c)
    BY <1>0, CloseGlobalStep
  <1>2. Closed(c, r, {"read"}) /\ IsLoop(r) /\ Held(r)
    <2> HIDE DEF c
    <2> QED
      BY <1>0, <1>1, CloseGlobalStep
  <1>3. Closed(r, m, {"master"}) /\ IsLoop(m) /\ Held(m)
    <2> HIDE DEF r
    <2> QED
      BY <1>0, <1>2, CloseGlobalStep
  <1>4. Closed(m, l, {"listen"}) /\ IsLoop(l) /\ Held(l)
    <2> HIDE DEF m
    <2> QED
      BY <1>0, <1>3, CloseGlobalStep
  <1>5. closeFd(t) = l
    BY DEF closeFd
  <1> HIDE DEF c, r, m, l
  <1>6. Closed(t, r, {"client", "read"})
    <2>1. Closed(t, r, {"client"} \union {"read"})
      BY <1>0, <1>1, <1>2, ClosedTwice
    <2>2. QED
      BY <2>1
  <1>7. Closed(t, m, {"client", "read", "master"})
    <2>1. Closed(t, m, {"client", "read"} \union {"master"})
      BY <1>0, <1>3, <1>6, ClosedTwice
    <2>2. QED
      BY <2>1
  <1>8. Closed(t, l, Globals)
    <2>1. Closed(t, l, {"client", "read", "master"} \union {"listen"})
      BY <1>0, <1>4, <1>7, ClosedTwice
    <2>2. QED
      BY <1>0, <2>1
  <1>9. QED
    BY <1>4, <1>5, <1>8

-----------------------------------------------------------------------------
(* closeFd and the invariant *)

\* What closeFd needs to find; an open socket need not be watched yet.
Closable(t) ==
  /\ IsLoop(t)
  /\ Held(t)
  /\ Marked(t)
  /\ \A n \in t.epoll : t.sock[n] \in Globals
  /\ \A n \in FdNumbers : t.sock[n] = "curl" /\ ~Stale(t, n) =>
       \E c \in FdNumbers : c < n /\ c \notin Reserved /\ t.sock[c] # "curl"

LEMMA ShapeClosable ==
  ASSUME NEW t, Shape(t)
  PROVE  Closable(t)
  BY NoneAssumption DEF Shape, Closable, AboveClient, Other, Watched, Globals

\* After closeFd: all is closed and no event is newly stale.
IsDown(t, u) ==
  /\ Shape(u) /\ ~Up(u)
  /\ u.fired = t.fired /\ u.again = t.again
  /\ \A g \in Globals : u.fd[g] = -1
  /\ \A n \in FdNumbers : /\ u.sock[n] \notin Globals
                          /\ Stale(u, n) => Stale(t, n)
                          /\ u.sock[n] = "curl" => t.sock[n] = "curl"

LEMMA closeFdDown ==
  ASSUME NEW t, Closable(t)
  PROVE  IsDown(t, closeFd(t))
  <1> DEFINE u == closeFd(t)
  <1>1. IsLoop(t) /\ Closed(t, u, Globals) /\ Held(u) /\ IsLoop(u)
    BY closeFdFields DEF Closable, Closed
  <1> HIDE DEF u
  <1>2. \A g \in Globals : u.fd[g] = -1
    BY <1>1 DEF Closed
  <1>3. \A n \in FdNumbers : /\ u.sock[n] \notin Globals
                             /\ Stale(u, n) => Stale(t, n)
                             /\ u.sock[n] = "curl" => t.sock[n] = "curl"
    BY <1>1, NoneAssumption, HandlerFacts DEF Closed, Stale, Globals, Handlers
  <1>4. ~Up(u) /\ Placed(u) /\ BelowClient(u) /\ AfterDrop(u)
    BY <1>2 DEF Up, Placed, BelowClient, AfterDrop, Globals
  <1>5. Watched(u)
    BY <1>1, <1>3 DEF Watched, Closed, Closable, IsLoop
  <1>6. Marked(u)
    BY <1>1, <1>3, NoneAssumption DEF Marked, Closed, Closable, Stale
  <1>7. AboveClient(u)
    <2> SUFFICES ASSUME NEW n \in FdNumbers, u.sock[n] = "curl", ~Stale(u, n)
                 PROVE  \E c \in FdNumbers : c < n /\ Other(u, c) /\ u.sock[c] \in {None, "client"}
      BY DEF AboveClient
    <2>1. t.sock[n] = "curl" /\ ~Stale(t, n)
      BY <1>1, <1>3 DEF Closed, Stale, Globals
    <2>2. PICK c \in FdNumbers : c < n /\ c \notin Reserved /\ t.sock[c] # "curl"
      BY <2>1 DEF Closable
    <2>3. u.sock[c] = None
      BY <1>1, <2>2 DEF Closed, IsLoop
    <2>4. Other(u, c)
      BY <1>2, <2>2, FdNotMinusOne DEF Other, Globals
    <2>5. QED
      BY <2>2, <2>3, <2>4
  <1>8. Shape(u)
    BY <1>1, <1>4, <1>5, <1>6, <1>7 DEF Shape
  <1>9. QED
    BY <1>1, <1>2, <1>3, <1>4, <1>8 DEF IsDown, Closed, u

\* What is pending keeps its order when all is closed.
LEMMA BatchDown ==
  ASSUME NEW t, NEW u, IsLoop(t), Batch(t), IsDown(t, u),
         NoStaleCurl(t) \/ FirstFd \notin Pending(t)
  PROVE  Batch(u)
  <1>1. Pending(u) = Pending(t) /\ Pending(t) \subseteq FdNumbers /\ (Once(t) => Once(u))
    BY DEF IsDown, Pending, IsLoop, Once
  <1>2. \A g \in Globals : u.fd[g] = -1
    BY DEF IsDown
  <1>3. \A n \in Pending(u) : /\ u.sock[n] \notin Globals
                              /\ Stale(u, n) => Stale(t, n)
                              /\ u.sock[n] = "curl" => t.sock[n] = "curl"
    BY <1>1 DEF IsDown
  <1>4. "client" \in Globals /\ "read" \in Globals /\ -1 \notin Pending(t)
    BY <1>1, FdNotMinusOne DEF Globals
  <1>5. QED
    BY <1>1, <1>2, <1>3, <1>4 DEF Batch, NoStaleCurl, IsDown

-----------------------------------------------------------------------------
(* connectToMaster *)

\* The numbers of the master and of the listener are the two lowest.
LEMMA FirstFdIsLowest ==
  ASSUME NEW m \in FdNumbers
  PROVE  FirstFd \in FdNumbers /\ FirstFd <= m /\ FirstFd \in Nat /\ m \in Nat
  BY FdAssumption, MinOfNats DEF FirstFd

LEMMA SecondFdIsNext ==
  ASSUME NEW m \in FdNumbers, m # FirstFd
  PROVE  SecondFd \in FdNumbers /\ SecondFd # FirstFd /\ SecondFd <= m /\ SecondFd \in Nat
  <1>1. FdNumbers \ {FirstFd} \subseteq Nat /\ FdNumbers \ {FirstFd} # {}
    BY FdAssumption
  <1>2. QED
    BY <1>1, MinOfNats, FdAssumption DEF SecondFd

\* The event of a number that is neither stale nor in use can be registered.
LEMMA NotStaleRegisters ==
  ASSUME NEW t, IsLoop(t), Marked(t), NEW n \in FdNumbers
  PROVE  Registers(t, n) <=> ~Stale(t, n)
  BY NoneAssumption, HandlerFacts DEF Marked, Registers, Stale, Handlers, Globals

\* After a connect: the master and the listener have the reserved numbers.
IsConnected(t, u) ==
  /\ Shape(u) /\ Up(u) /\ u.again = TRUE /\ u.fired = t.fired
  /\ u.fd["client"] = -1 /\ u.fd["read"] = -1
  /\ \A n \in FdNumbers \ Reserved :
       /\ u.sock[n] = t.sock[n] /\ u.proc[n] = t.proc[n]
       /\ n \in u.epoll <=> n \in t.epoll

\* The first socket, before the listener is opened.
LEMMA ConnectFirst ==
  ASSUME NEW t, Shape(t), ~Up(t), NEW n \in Lowest(t)
  PROVE  /\ n = FirstFd /\ n \in FdNumbers /\ Registers(t, n)
         /\ \A m \in FdNumbers : t.sock[m] \in {None, "curl"}
  <1>1. \A g \in Globals : t.fd[g] = -1
    BY DEF Shape, Placed
  <1>2. \A m \in FdNumbers : t.sock[m] \in {None, "curl"}
    BY <1>1, FdNotMinusOne DEF Shape, Held, IsLoop
  <1>3. n \in FdNumbers /\ t.sock[n] = None /\ \A m \in FdNumbers : m < n => t.sock[m] # None
    BY DEF Lowest
  <1>4. FirstFd \in FdNumbers /\ FirstFd <= n /\ FirstFd \in Nat /\ n \in Nat
    BY <1>3, FirstFdIsLowest
  <1>5. t.sock[FirstFd] = None /\ ~Stale(t, FirstFd)
    BY <1>2, <1>4 DEF Shape, Marked, Reserved
  <1>6. n = FirstFd
    BY <1>3, <1>4, <1>5
  <1>7. QED
    BY <1>2, <1>3, <1>5, <1>6, NotStaleRegisters DEF Shape

LEMMA ConnectSecond ==
  ASSUME NEW t, Shape(t), ~Up(t), FirstFd \in FdNumbers,
         \A m \in FdNumbers : t.sock[m] \in {None, "curl"},
         NEW u, IsLoop(u), NEW n \in Lowest(u), u.sock[FirstFd] = "master",
         \A m \in FdNumbers : m # FirstFd => u.sock[m] = t.sock[m]
  PROVE  n = SecondFd /\ n \in FdNumbers /\ n # FirstFd
  <1>3. n \in FdNumbers /\ u.sock[n] = None /\ \A m \in FdNumbers : m < n => u.sock[m] # None
    BY DEF Lowest
  <1>4. n # FirstFd
    BY <1>3, NoneAssumption DEF Shape, IsLoop, Globals
  <1>5. SecondFd \in FdNumbers /\ SecondFd # FirstFd /\ SecondFd <= n /\ SecondFd \in Nat
    BY <1>3, <1>4, SecondFdIsNext
  <1>6. u.sock[SecondFd] = None
    BY <1>5 DEF Shape, Marked, Reserved, IsLoop
  <1>7. n \in Nat
    BY <1>3, FdAssumption
  <1>8. QED
    BY <1>3, <1>4, <1>5, <1>6, <1>7

LEMMA ConnectShape ==
  ASSUME NEW t, Shape(t), ~Up(t), NEW u \in connectToMaster(t)
  PROVE  u = t \/ IsConnected(t, u)
  <1> SUFFICES ASSUME u # t PROVE IsConnected(t, u)
    OBVIOUS
  <1> DEFINE c == [t EXCEPT !.again = TRUE]
             opened(n) == Opened(c, "master", n)
  <1>1. PICK n \in Lowest(t) :
          u \in IF Registers(t, n)
                THEN listenToPort(aeCreateFileEvent(opened(n), n, Handler["master"]))
                ELSE {Close(opened(n), n)}
    BY DEF connectToMaster
  <1>2. /\ n = FirstFd /\ n \in FdNumbers /\ Registers(t, n)
        /\ \A m \in FdNumbers : t.sock[m] \in {None, "curl"}
    BY ConnectFirst
  <1> DEFINE m == aeCreateFileEvent(Opened(c, "master", n), n, Handler["master"])
  <1>3. "master" \in Globals /\ "listen" \in Globals /\ IsLoop(t)
    BY DEF Globals, Shape
  <1>4. IsLoop(c) /\ Keeps(t, c, {"again"}) /\ c.again = TRUE
    BY <1>3 DEF IsLoop, Keeps
  <1> HIDE DEF c
  <1>5. RegisteredAt(c, m, "master", n)
    BY <1>2, <1>3, <1>4, RegisterFields
  <1>6. u \in listenToPort(m)
    BY <1>1, <1>2
  <1> HIDE DEF m
  <1>7. PICK k \in Lowest(m) : u = aeCreateFileEvent(Opened(m, "listen", k), k, Handler["listen"])
    BY <1>6 DEF listenToPort
  <1>8. /\ IsLoop(m) /\ m.sock[FirstFd] = "master"
        /\ \A j \in FdNumbers : j # FirstFd => m.sock[j] = t.sock[j]
    BY <1>2, <1>4, <1>5 DEF Keeps, RegisteredAt
  <1>9. k = SecondFd /\ k \in FdNumbers /\ k # FirstFd
    BY <1>2, <1>8, ConnectSecond
  <1>10. RegisteredAt(m, u, "listen", k)
    BY <1>3, <1>7, <1>8, <1>9, RegisterFields
  <1>11. /\ IsLoop(u) /\ u.fired = t.fired /\ u.again = TRUE
         /\ \A g \in Globals : u.fd[g] = IF g = "master" THEN FirstFd
                                       ELSE IF g = "listen" THEN SecondFd ELSE t.fd[g]
         /\ u.sock[FirstFd] = "master" /\ u.sock[SecondFd] = "listen"
         /\ u.proc[FirstFd] = Handler["master"] /\ u.proc[SecondFd] = Handler["listen"]
         /\ FirstFd \in u.epoll /\ SecondFd \in u.epoll
         /\ \A j \in FdNumbers \ Reserved :
              /\ u.sock[j] = t.sock[j] /\ u.proc[j] = t.proc[j]
              /\ j \in u.epoll <=> j \in t.epoll
    BY <1>2, <1>4, <1>5, <1>9, <1>10 DEF RegisteredAt, Keeps, Reserved
  <1>12. FirstFd \in FdNumbers /\ SecondFd \in FdNumbers /\ FirstFd # SecondFd
    BY <1>2, <1>9
  <1>13. \A g \in Globals : t.fd[g] = -1
    BY DEF Shape, Placed
  <1>14. \A j \in FdNumbers : Stale(u, j) <=> j \notin Reserved /\ Stale(t, j)
    BY <1>11, <1>12 DEF Stale, Reserved
  <1>15. Up(u) /\ u.fd["client"] = -1 /\ u.fd["read"] = -1
    BY <1>11, <1>12, <1>13, FdNotMinusOne DEF Up, Globals
  <1>16. \A j \in FdNumbers : u.sock[j] \in Globals => j \in Reserved
    BY <1>2, <1>11, NoneAssumption DEF Globals
  <1>17. Held(u)
    BY <1>11, <1>12, <1>13, <1>16 DEF Held, Reserved
  <1>18. Watched(u)
    <2>1. \A j \in FdNumbers : u.sock[j] \in Globals =>
            j \in u.epoll /\ u.proc[j] = Handler[u.sock[j]]
      BY <1>11, <1>16 DEF Reserved
    <2>2. \A j \in t.epoll : t.sock[j] \in Globals
      BY DEF Shape, Watched
    <2>3. \A j \in u.epoll : j \in FdNumbers
      BY <1>11 DEF IsLoop
    <2>4. \A j \in u.epoll : u.sock[j] \in Globals
      BY <1>3, <1>11, <1>12, <2>2, <2>3 DEF Reserved
    <2>5. QED
      BY <2>1, <2>4 DEF Watched
  <1>19. Marked(u)
    <2>1. \A j \in FdNumbers : u.proc[j] # None /\ j \notin u.epoll => u.proc[j] = "readFromSlave"
      BY <1>11 DEF Shape, Marked, Reserved
    <2>2. \A j \in Reserved \intersect FdNumbers : u.sock[j] # "curl" /\ ~Stale(u, j)
      BY <1>11, <1>14 DEF Reserved
    <2>3. \A j, i \in FdNumbers : u.sock[j] = "curl" /\ u.sock[i] = "curl" => j = i
      BY <1>11 DEF Shape, Marked, Reserved
    <2>4. QED
      BY <2>1, <2>2, <2>3 DEF Marked
  <1>20. Placed(u) /\ BelowClient(u) /\ AfterDrop(u)
    BY <1>3, <1>11, <1>12, <1>15 DEF Placed, BelowClient, AfterDrop
  <1>21. AboveClient(u)
    <2> SUFFICES ASSUME NEW j \in FdNumbers, u.sock[j] = "curl", ~Stale(u, j)
                 PROVE  \E i \in FdNumbers : i < j /\ Other(u, i) /\ u.sock[i] \in {None, "client"}
      BY DEF AboveClient
    <2>1. j \notin Reserved /\ t.sock[j] = "curl" /\ ~Stale(t, j)
      BY <1>11, <1>14 DEF Reserved
    <2>2. PICK i \in FdNumbers : i < j /\ Other(t, i) /\ t.sock[i] \in {None, "client"}
      BY <2>1 DEF Shape, AboveClient
    <2>3. Other(u, i) /\ u.sock[i] = t.sock[i]
      BY <1>11, <1>15, <2>2, FdNotMinusOne DEF Other
    <2>4. QED
      BY <2>2, <2>3
  <1>22. Shape(u)
    BY <1>11, <1>17, <1>18, <1>19, <1>20, <1>21 DEF Shape
  <1>23. QED
    BY <1>11, <1>15, <1>22 DEF IsConnected

\* A new connection to the master is not reached by an event of the old one.
LEMMA BatchConnected ==
  ASSUME NEW t, NEW u, IsLoop(t), Batch(t), IsConnected(t, u), FirstFd \notin Pending(t)
  PROVE  Batch(u)
  <1>1. Pending(u) = Pending(t) /\ Pending(t) \subseteq FdNumbers /\ (Once(t) => Once(u))
    BY DEF IsConnected, Pending, IsLoop, Once
  <1>2. \A n \in Pending(u) : Stale(u, n) => n \notin Reserved
    BY <1>1 DEF IsConnected, Shape, Marked
  <1>3. \A n \in Pending(u) : Stale(u, n) => Stale(t, n)
    BY <1>1, <1>2 DEF IsConnected, Stale
  <1>4. -1 \notin Pending(t)
    BY <1>1, FdNotMinusOne
  <1>5. QED
    BY <1>1, <1>3, <1>4 DEF Batch, IsConnected

-----------------------------------------------------------------------------
(* acceptTcpHandler *)

\* Facts about a state with a connection to the master.
LEMMA UpFacts ==
  ASSUME NEW t, Shape(t), Up(t)
  PROVE  /\ FirstFd \in FdNumbers /\ t.sock[FirstFd] = "master" /\ t.fd["master"] = FirstFd
         /\ SecondFd \in FdNumbers /\ t.sock[SecondFd] = "listen" /\ t.fd["listen"] = SecondFd
         /\ \A n \in FdNumbers : t.sock[n] = None => Other(t, n)
         /\ \A n \in FdNumbers : t.sock[n] = "client" => Other(t, n)
         /\ \A n \in FdNumbers : t.sock[n] = "curl" => Other(t, n)
         /\ \A n \in FdNumbers : Other(t, n) => t.sock[n] \in {None, "client", "curl"}
  <1>1. t.fd["master"] = FirstFd /\ t.fd["listen"] = SecondFd /\ SecondFd \in FdNumbers
    BY DEF Shape, Placed
  <1>2. \A g \in Globals : t.fd[g] \in FdNumbers \union {-1}
    BY DEF Shape, IsLoop
  <1>3. /\ "master" \in Globals /\ "listen" \in Globals /\ "read" \in Globals
        /\ Globals = {"master", "listen", "client", "read"}
    BY DEF Globals
  <1>4. FirstFd \in FdNumbers /\ t.sock[FirstFd] = "master"
    BY <1>1, <1>2, <1>3 DEF Up, Shape, Held
  <1>5. t.sock[SecondFd] = "listen"
    BY <1>1, <1>2, <1>3, FdNotMinusOne DEF Shape, Held
  <1>6. t.fd["read"] # -1 => t.sock[t.fd["read"]] = "read"
    BY <1>3 DEF Shape, Held
  <1>7. \A n \in FdNumbers : t.sock[n] \in {None, "client", "curl"} => Other(t, n)
    BY <1>2, <1>3, <1>4, <1>5, <1>6, NoneAssumption, FdNotMinusOne DEF Other, Reserved
  <1>8. \A n \in FdNumbers : Other(t, n) => t.sock[n] \in {None, "client", "curl"}
    <2> SUFFICES ASSUME NEW n \in FdNumbers, Other(t, n), t.sock[n] \in Globals
                 PROVE  t.sock[n] = "client"
      BY DEF Shape, IsLoop
    <2>1. t.fd[t.sock[n]] = n
      BY DEF Shape, Held
    <2>2. QED
      BY <1>1, <1>3, <2>1 DEF Other, Reserved
  <1>9. QED
    BY <1>1, <1>4, <1>5, <1>7, <1>8

\* client_fd is closed; its event stays.
DroppedAt(t, d, k) ==
  /\ IsLoop(d) /\ d.fired = t.fired /\ d.again = t.again
  /\ \A h \in Globals : d.fd[h] = IF h = "client" THEN -1 ELSE t.fd[h]
  /\ \A m \in FdNumbers :
       /\ d.sock[m] = IF t.sock[m] = "client" THEN None ELSE t.sock[m]
       /\ d.proc[m] = t.proc[m]
       /\ m \in d.epoll <=> m \in t.epoll /\ t.sock[m] # "client"
       /\ m # k /\ t.sock[m] # "client" => d.readable[m] = t.readable[m]

LEMMA MuteFields ==
  ASSUME NEW t, IsLoop(t), NEW k \in FdNumbers
  PROVE  LET u == [t EXCEPT !.readable[k] = "no"]
         IN  /\ IsLoop(u) /\ Keeps(t, u, {"readable"})
             /\ u.readable = [t.readable EXCEPT ![k] = "no"]
  BY DEF IsLoop, Keeps

LEMMA DropFields ==
  ASSUME NEW t, IsLoop(t), Held(t), NEW k \in FdNumbers
  PROVE  DroppedAt(t, [DropClient(t) EXCEPT !.fd["client"] = -1, !.readable[k] = "no"], k)
  <1> DEFINE x == DropClient(t)
             y == [x EXCEPT !.fd["client"] = -1]
             d == [y EXCEPT !.readable[k] = "no"]
  <1>0. "client" \in Globals
    BY DEF Globals
  <1>1. /\ IsLoop(x) /\ x.fired = t.fired /\ x.again = t.again /\ x.fd = t.fd /\ x.proc = t.proc
        /\ \A m \in FdNumbers :
             /\ x.sock[m] = IF t.sock[m] = "client" THEN None ELSE t.sock[m]
             /\ m \in x.epoll <=> m \in t.epoll /\ t.sock[m] # "client"
             /\ t.sock[m] # "client" => x.readable[m] = t.readable[m]
    <2>1. CASE t.fd["client"] = -1
      <3>1. x = t
        BY <2>1 DEF DropClient
      <3>2. \A m \in FdNumbers : t.sock[m] # "client"
        BY <1>0, <2>1, FdNotMinusOne DEF Held
      <3>3. QED
        BY <3>1, <3>2
    <2>2. CASE t.fd["client"] # -1
      <3> DEFINE n == t.fd["client"]
      <3>1. n \in FdNumbers /\ \A m \in FdNumbers : t.sock[m] = "client" <=> m = n
        BY <1>0, <2>2 DEF IsLoop, Held
      <3>2. x = Close(t, n)
        BY <2>2 DEF DropClient
      <3>3. /\ IsLoop(x) /\ Keeps(t, x, {"sock", "readable", "epoll"})
            /\ x.sock = [t.sock EXCEPT ![n] = None]
            /\ x.readable = [t.readable EXCEPT ![n] = "no"]
            /\ x.epoll = t.epoll \ {n}
        BY <3>1, <3>2, CloseFields
      <3> HIDE DEF n, x
      <3>4. QED
        BY <3>1, <3>3 DEF Keeps, IsLoop
    <2>3. QED
      BY <2>1, <2>2
  <1>2. d = [DropClient(t) EXCEPT !.fd["client"] = -1, !.readable[k] = "no"]
    OBVIOUS
  <1> HIDE DEF x
  <1>3. /\ IsLoop(d) /\ Keeps(x, d, {"fd", "readable"})
        /\ d.fd = [x.fd EXCEPT !["client"] = -1]
        /\ d.readable = [x.readable EXCEPT ![k] = "no"]
    <2>1. IsLoop(x)
      BY <1>1
    <2>2. IsLoop(y) /\ Keeps(x, y, {"fd"}) /\ y.fd = [x.fd EXCEPT !["client"] = -1]
      BY <1>0, <2>1 DEF IsLoop, Keeps
    <2> HIDE DEF y
    <2>3. IsLoop(d) /\ Keeps(y, d, {"readable"}) /\ d.readable = [y.readable EXCEPT ![k] = "no"]
      BY <2>2, MuteFields
    <2> HIDE DEF d
    <2>4. QED
      BY <2>2, <2>3 DEF Keeps
  <1> HIDE DEF y, d
  <1>4. /\ d.fired = t.fired /\ d.again = t.again /\ d.proc = t.proc /\ d.sock = x.sock
        /\ d.epoll = x.epoll /\ d.fd = [t.fd EXCEPT !["client"] = -1]
    BY <1>1, <1>3 DEF Keeps
  <1>5. \A h \in Globals : d.fd[h] = IF h = "client" THEN -1 ELSE t.fd[h]
    BY <1>4 DEF IsLoop
  <1>6. \A m \in FdNumbers : m # k => d.readable[m] = x.readable[m]
    BY <1>1, <1>3 DEF IsLoop
  <1>7. DroppedAt(t, d, k)
    BY <1>1, <1>3, <1>4, <1>5, <1>6 DEF DroppedAt
  <1>8. QED
    BY <1>2, <1>7

LEMMA DropShape ==
  ASSUME NEW t, Shape(t), Up(t), NEW k, NEW d, DroppedAt(t, d, k)
  PROVE  /\ Shape(d) /\ Up(d)
         /\ \A m \in FdNumbers : Stale(d, m) <=> Stale(t, m) \/ t.sock[m] = "client"
  <1>0. /\ IsLoop(t) /\ IsLoop(d) /\ d.fired = t.fired /\ d.again = t.again
        /\ Globals = {"master", "listen", "client", "read"}
        /\ d.fd["client"] = -1 /\ d.fd["master"] = t.fd["master"]
        /\ d.fd["listen"] = t.fd["listen"] /\ d.fd["read"] = t.fd["read"]
    BY DEF DroppedAt, Shape, Globals
  <1>1. \A m \in FdNumbers : /\ d.sock[m] = IF t.sock[m] = "client" THEN None ELSE t.sock[m]
                             /\ d.proc[m] = t.proc[m]
                             /\ m \in d.epoll <=> m \in t.epoll /\ t.sock[m] # "client"
    BY DEF DroppedAt
  <1>2. \A m \in FdNumbers : t.sock[m] = "client" =>
          t.proc[m] = "readFromSlave" /\ m \in t.epoll /\ t.fd["client"] = m
    BY <1>0, HandlerFacts DEF Shape, Watched, Held
  <1>3. \A m \in FdNumbers : Stale(d, m) <=> Stale(t, m) \/ t.sock[m] = "client"
    BY <1>1, <1>2 DEF Stale
  <1>4. Held(d)
    BY <1>0, <1>1, NoneAssumption DEF Held, Shape, IsLoop
  <1>5. Watched(d)
    BY <1>0, <1>1, NoneAssumption DEF Watched, Shape, IsLoop
  <1>6. Marked(d)
    <2>1. \A n \in FdNumbers : d.proc[n] # None /\ n \notin d.epoll => d.proc[n] = "readFromSlave"
      BY <1>1, <1>2 DEF Shape, Marked
    <2>2. \A n \in Reserved \intersect FdNumbers : d.sock[n] # "curl" /\ ~Stale(d, n)
      BY <1>1, <1>3, UpFacts, NoneAssumption DEF Shape, Marked, Reserved
    <2>3. \A m, n \in FdNumbers : d.sock[m] = "curl" /\ d.sock[n] = "curl" => m = n
      BY <1>1, NoneAssumption DEF Shape, Marked
    <2>4. QED
      BY <2>1, <2>2, <2>3 DEF Marked
  <1>7. Placed(d) /\ Up(d) /\ BelowClient(d)
    BY <1>0 DEF Shape, Placed, Up, BelowClient
  <1>8. \A n : Other(d, n) <=> Other(t, n)
    BY <1>0 DEF Other
  <1>9. AfterDrop(d)
    <2> SUFFICES ASSUME d.fd["read"] # -1
                 PROVE  \E c \in FdNumbers :
                          Stale(d, c) /\ \A n \in FdNumbers : n <= c /\ Other(d, n) => Stale(d, n)
      BY DEF AfterDrop
    <2>1. CASE t.fd["client"] = -1
      BY <1>0, <1>3, <1>8, <2>1 DEF Shape, AfterDrop
    <2>2. CASE t.fd["client"] # -1
      <3>1. t.fd["client"] \in FdNumbers /\ t.sock[t.fd["client"]] = "client"
        BY <1>0, <2>2 DEF Shape, Held, IsLoop
      <3>2. \A n \in FdNumbers : n < t.fd["client"] /\ Other(t, n) => Stale(t, n)
        BY <2>2 DEF Shape, BelowClient
      <3>3. \A n \in FdNumbers : n \in Nat
        BY FdAssumption
      <3>4. \A n \in FdNumbers : n <= t.fd["client"] => n < t.fd["client"] \/ n = t.fd["client"]
        BY <3>1, <3>3
      <3>5. QED
        BY <1>3, <1>8, <3>1, <3>2, <3>4
    <2>3. QED
      BY <2>1, <2>2
  <1>10. AboveClient(d)
    BY <1>1, <1>3, <1>8, NoneAssumption DEF Shape, AboveClient
  <1>11. QED
    BY <1>0, <1>3, <1>4, <1>5, <1>6, <1>7, <1>9, <1>10 DEF Shape

\* The event left behind is the only stale one among those that are pending.
LEMMA BatchDropped ==
  ASSUME NEW t, Shape(t), Up(t), Batch(t), NoStale(t),
         NEW k, k \notin Pending(t), SecondFd \notin Pending(t), NEW d, DroppedAt(t, d, k)
  PROVE  /\ Batch(d) /\ NoStaleCurl(d)
         /\ t.fd["client"] = -1 => NoStale(d)
  <1>1. Pending(d) = Pending(t) /\ Pending(t) \subseteq FdNumbers /\ (Once(t) => Once(d))
    BY DEF DroppedAt, Shape, Pending, IsLoop, Once
  <1>2. \A n \in Pending(t) : Stale(d, n) <=> t.sock[n] = "client"
    BY <1>1, DropShape DEF NoStale
  <1>3. \A n \in Pending(t) : t.sock[n] = "client" => t.fd["client"] = n
    BY <1>1 DEF Shape, Held, Globals
  <1>4. /\ "client" \in Globals /\ "master" \in Globals
        /\ d.fd["client"] = -1 /\ (Up(d) <=> Up(t)) /\ d.again = t.again
    BY DEF DroppedAt, Globals, Up
  <1>5. \A n \in Pending(t) : d.sock[n] = IF t.sock[n] = "client" THEN None ELSE t.sock[n]
    BY <1>1 DEF DroppedAt
  <1>6. \A n \in Pending(t) : t.sock[n] # "client" => d.readable[n] = t.readable[n]
    BY <1>1 DEF DroppedAt
  <1>7. NoStaleCurl(d)
    BY <1>1, <1>2, <1>5, NoneAssumption DEF NoStaleCurl
  <1>8. t.fd["client"] = -1 => NoStale(d)
    BY <1>1, <1>2, <1>3, FdNotMinusOne DEF NoStale
  <1>9. ~d.again => \A n \in Pending(d) : d.sock[n] \in Globals => d.readable[n] # "no"
    BY <1>1, <1>4, <1>5, <1>6, NoneAssumption DEF Batch
  <1>10. ~d.again /\ Up(d) => \A n \in Pending(d) : d.sock[n] \in Globals \/ Stale(d, n)
    BY <1>1, <1>2, <1>4, <1>5 DEF Batch, NoStale
  <1>11. Batch(d)
    BY <1>1, <1>2, <1>3, <1>4, <1>7, <1>9, <1>10 DEF Batch, NoStaleCurl
  <1>12. QED
    BY <1>7, <1>8, <1>11

\* The global variables and the sockets still agree after the global is set.
LEMMA OpenedHeld ==
  ASSUME NEW t, IsLoop(t), Held(t), NEW n \in FdNumbers, t.sock[n] = None,
         NEW g \in Globals, t.fd[g] = -1, NEW u,
         \A h \in Globals : u.fd[h] = IF h = g THEN n ELSE t.fd[h],
         \A m \in FdNumbers : u.sock[m] = IF m = n THEN g ELSE t.sock[m]
  PROVE  Held(u)
  <1>1. \A m \in FdNumbers : t.sock[m] # g
    BY FdNotMinusOne DEF Held
  <1>2. \A m \in FdNumbers : u.sock[m] \in Globals => u.fd[u.sock[m]] = m
    BY <1>1 DEF Held
  <1>3. \A h \in Globals : t.fd[h] # -1 => t.fd[h] \in FdNumbers /\ t.sock[t.fd[h]] = h
    BY DEF Held, IsLoop
  <1>4. \A h \in Globals : t.fd[h] # -1 => t.fd[h] # n
    BY <1>3, NoneAssumption
  <1>5. \A h \in Globals : u.fd[h] # -1 => u.sock[u.fd[h]] = h
    BY <1>3, <1>4
  <1>6. QED
    BY <1>2, <1>5 DEF Held

\* A new socket that cannot be registered: closeFd follows.
LEMMA OpenedClosable ==
  ASSUME NEW t, Shape(t), Up(t), NEW n \in Lowest(t), NEW g \in {"client", "read"},
         t.fd[g] = -1, NEW u, u = Opened(t, g, n)
  PROVE  /\ Closable(u) /\ u.fired = t.fired /\ u.again = t.again
         /\ \A m \in FdNumbers : /\ Stale(u, m) <=> Stale(t, m)
                                 /\ u.sock[m] = "curl" => t.sock[m] = "curl"
  <1>0. /\ IsLoop(t) /\ n \in FdNumbers /\ t.sock[n] = None /\ g \in Globals
        /\ "curl" \notin Globals /\ None # "curl" /\ None # "client"
    BY NoneAssumption DEF Shape, Lowest, Globals
  <1>1. OpenedAt(t, u, g, n)
    BY <1>0, OpenedSocket
  <1>2. /\ IsLoop(u) /\ u.fired = t.fired /\ u.again = t.again
        /\ \A h \in Globals : u.fd[h] = IF h = g THEN n ELSE t.fd[h]
        /\ \A m \in FdNumbers : /\ u.sock[m] = IF m = n THEN g ELSE t.sock[m]
                                /\ u.proc[m] = t.proc[m]
                                /\ m \in u.epoll <=> m \in t.epoll
    BY <1>1 DEF OpenedAt
  <1>3. \A m \in FdNumbers : Stale(u, m) <=> Stale(t, m)
    BY <1>2 DEF Stale
  <1>4. \A m \in FdNumbers : u.sock[m] = "curl" <=> t.sock[m] = "curl"
    BY <1>0, <1>2
  <1>5. Held(u)
    <2>1. Held(t)
      BY DEF Shape
    <2>2. QED
      BY <1>0, <1>2, <2>1, OpenedHeld
  <1>6. Marked(u)
    BY <1>2, <1>3, <1>4 DEF Shape, Marked
  <1>7. \A m \in u.epoll : u.sock[m] \in Globals
    BY <1>0, <1>2 DEF Shape, Watched, IsLoop
  <1>8. \A m \in FdNumbers : u.sock[m] = "curl" /\ ~Stale(u, m) =>
          \E c \in FdNumbers : c < m /\ c \notin Reserved /\ u.sock[c] # "curl"
    BY <1>0, <1>3, <1>4 DEF Shape, AboveClient, Other
  <1>9. QED
    BY <1>2, <1>3, <1>4, <1>5, <1>6, <1>7, <1>8 DEF Closable

\* After the accept: new sockets only, and no new stale events.
IsAccepted(t, u) ==
  /\ Shape(u) /\ Up(u) /\ u.fd["client"] # -1
  /\ u.fired = t.fired /\ u.again = t.again
  /\ \A m \in FdNumbers :
       /\ Stale(u, m) <=> Stale(t, m)
       /\ u.sock[m] = "curl" => t.sock[m] = "curl"
       /\ t.sock[m] # None => u.sock[m] = t.sock[m] /\ u.readable[m] = t.readable[m]

\* A new socket at a number without an event is registered.
LEMMA RegisteredShape ==
  ASSUME NEW t, Shape(t), Up(t), NEW n \in Lowest(t), ~Stale(t, n),
         NEW g \in {"client", "read"}, t.fd[g] = -1, g = "read" => t.fd["client"] # -1,
         NEW u, RegisteredAt(t, u, g, n)
  PROVE  IsAccepted(t, u)
  <1>0. /\ IsLoop(t) /\ n \in FdNumbers /\ t.sock[n] = None /\ g \in Globals
        /\ \A m \in FdNumbers : m < n => t.sock[m] # None
        /\ "curl" \notin Globals /\ None # "curl" /\ None # "client"
        /\ Globals = {"master", "listen", "client", "read"}
        /\ n \in Nat /\ n # -1 /\ FdNumbers \subseteq Nat
    BY NoneAssumption, FdAssumption DEF Shape, Lowest, Globals
  <1>2. /\ IsLoop(u) /\ u.fired = t.fired /\ u.again = t.again
        /\ \A h \in Globals : u.fd[h] = IF h = g THEN n ELSE t.fd[h]
        /\ \A m \in FdNumbers : /\ u.sock[m] = IF m = n THEN g ELSE t.sock[m]
                                /\ u.readable[m] = IF m = n THEN "no" ELSE t.readable[m]
                                /\ u.proc[m] = IF m = n THEN Handler[g] ELSE t.proc[m]
                                /\ m \in u.epoll <=> m = n \/ m \in t.epoll
    BY DEF RegisteredAt
  <1>3. \A m \in FdNumbers : Stale(u, m) <=> Stale(t, m)
    BY <1>2 DEF Stale
  <1>4. \A m \in FdNumbers : u.sock[m] = "curl" <=> t.sock[m] = "curl"
    BY <1>0, <1>2
  <1>5. Held(u)
    <2>1. Held(t)
      BY DEF Shape
    <2>2. QED
      BY <1>0, <1>2, <2>1, OpenedHeld
  <1>6. Watched(u)
    BY <1>0, <1>2 DEF Shape, Watched, IsLoop
  <1>7. Marked(u)
    BY <1>2, <1>3, <1>4 DEF Shape, Marked
  <1>8. Placed(u) /\ Up(u) /\ AfterDrop(u) /\ u.fd["client"] # -1
    BY <1>0, <1>2 DEF Shape, Placed, Up, AfterDrop
  <1>9. BelowClient(u)
    <2> SUFFICES ASSUME NEW m \in FdNumbers, m < u.fd["client"], Other(u, m)
                 PROVE  Stale(u, m)
      BY DEF BelowClient
    <2>1. Other(t, m) /\ m # n
      BY <1>0, <1>2 DEF Other
    <2>2. CASE g = "client"
      <3>1. m < n /\ t.sock[m] # None
        BY <1>0, <1>2, <2>2
      <3>2. \A c \in FdNumbers : t.sock[c] # "client"
        BY <1>0, <2>2, FdNotMinusOne DEF Shape, Held
      <3>3. t.sock[m] = "curl"
        BY <2>1, <3>1, <3>2, UpFacts
      <3>4. SUFFICES ASSUME ~Stale(t, m) PROVE FALSE
        BY <1>3
      <3>5. PICK c \in FdNumbers : c < m /\ Other(t, c) /\ t.sock[c] \in {None, "client"}
        BY <3>3, <3>4 DEF Shape, AboveClient
      <3>6. c < n
        BY <1>0, <3>1, <3>5
      <3>7. QED
        BY <1>0, <3>2, <3>5, <3>6
    <2>3. CASE g = "read"
      <3>1. t.fd["client"] # -1 /\ u.fd["client"] = t.fd["client"]
        BY <1>0, <1>2, <2>3
      <3>2. QED
        BY <1>3, <2>1, <3>1 DEF Shape, BelowClient
    <2>4. QED
      BY <2>2, <2>3
  <1>10. AboveClient(u)
    <2> SUFFICES ASSUME NEW m \in FdNumbers, u.sock[m] = "curl", ~Stale(u, m)
                 PROVE  \E c \in FdNumbers : c < m /\ Other(u, c) /\ u.sock[c] \in {None, "client"}
      BY DEF AboveClient
    <2>1. t.sock[m] = "curl" /\ ~Stale(t, m)
      BY <1>3, <1>4
    <2>2. CASE g = "client"
      <3>1. PICK c \in FdNumbers : c < m /\ Other(t, c) /\ t.sock[c] \in {None, "client"}
        BY <2>1 DEF Shape, AboveClient
      <3>2. Other(u, c) /\ u.sock[c] \in {None, "client"}
        BY <1>0, <1>2, <2>2, <3>1 DEF Other
      <3>3. QED
        BY <3>1, <3>2
    <2>3. CASE g = "read"
      <3> DEFINE c == t.fd["client"]
      <3>1. c \in FdNumbers /\ t.sock[c] = "client" /\ c # n
        BY <1>0, <2>3 DEF Shape, Held, IsLoop
      <3>2. Other(t, c) /\ Other(t, m)
        BY <2>1, <3>1, UpFacts
      <3>3. ~(m < c)
        BY <2>1, <3>1, <3>2, FdNotMinusOne DEF Shape, BelowClient
      <3>4. c < m
        <4>1. c # m
          BY <2>1, <3>1
        <4>2. c \in Nat /\ m \in Nat
          BY <3>1, FdAssumption
        <4> HIDE DEF c
        <4>3. QED
          BY <3>3, <4>1, <4>2
      <3>5. Other(u, c) /\ u.sock[c] = "client"
        BY <1>0, <1>2, <2>3, <3>1, <3>2 DEF Other
      <3>6. QED
        BY <3>1, <3>4, <3>5
    <2>4. QED
      BY <2>2, <2>3
  <1>11. Shape(u)
    BY <1>2, <1>5, <1>6, <1>7, <1>8, <1>9, <1>10 DEF Shape
  <1>12. QED
    BY <1>0, <1>2, <1>3, <1>4, <1>8, <1>11 DEF IsAccepted

\* closeFd after steps that have opened sockets.
LEMMA DownAfter ==
  ASSUME NEW t, NEW u, Closable(u), u.fired = t.fired, u.again = t.again,
         \A m \in FdNumbers : /\ Stale(u, m) => Stale(t, m)
                              /\ u.sock[m] = "curl" => t.sock[m] = "curl"
  PROVE  IsDown(t, closeFd(u))
  <1>1. IsDown(u, closeFd(u))
    BY closeFdDown
  <1>2. QED
    BY <1>1 DEF IsDown

\* readDataFromSlave.
LEMMA AsksShape ==
  ASSUME NEW t, Shape(t), Up(t), t.fd["client"] # -1, t.fd["read"] = -1, NEW u \in Asks(t)
  PROVE  IsDown(t, u) \/ IsAccepted(t, u)
  <1>1. CASE u = closeFd(t)
    BY <1>1, ShapeClosable, closeFdDown
  <1>2. CASE u # closeFd(t)
    <2>1. PICK n \in Lowest(t) :
            u = IF Registers(t, n) THEN aeCreateFileEvent(Opened(t, "read", n), n, Handler["read"])
                ELSE closeFd(Opened(t, "read", n))
      BY <1>2 DEF Asks
    <2>2. n \in FdNumbers /\ IsLoop(t) /\ "read" \in Globals /\ (Registers(t, n) <=> ~Stale(t, n))
      BY NotStaleRegisters DEF Lowest, Shape, Globals
    <2>3. CASE Stale(t, n)
      <3> DEFINE o == Opened(t, "read", n)
      <3>1. u = closeFd(o)
        BY <2>1, <2>2, <2>3
      <3>2. /\ Closable(o) /\ o.fired = t.fired /\ o.again = t.again
            /\ \A m \in FdNumbers : /\ Stale(o, m) <=> Stale(t, m)
                                    /\ o.sock[m] = "curl" => t.sock[m] = "curl"
        BY OpenedClosable
      <3> HIDE DEF o
      <3>3. QED
        BY <3>1, <3>2, DownAfter
    <2>4. CASE ~Stale(t, n)
      <3>1. RegisteredAt(t, u, "read", n)
        BY <2>1, <2>2, <2>4, RegisterFields
      <3>2. QED
        BY <2>4, <3>1, RegisteredShape
    <2>5. QED
      BY <2>3, <2>4
  <1>3. QED
    BY <1>1, <1>2

\* The rest of acceptTcpHandler after an accept that succeeds.
LEMMA AcceptedShape ==
  ASSUME NEW t, Shape(t), Up(t), t.fd["client"] = -1, NEW u \in Accepted(t)
  PROVE  IsDown(t, u) \/ (IsAccepted(t, u) /\ \E n \in Lowest(t) : ~Stale(t, n))
  <1> DEFINE opened(n) == Opened(t, "client", n)
             watched(n) == aeCreateFileEvent(opened(n), n, Handler["client"])
  <1>1. PICK n \in Lowest(t) :
          u \in IF ~Registers(t, n) THEN {closeFd(opened(n))}
                ELSE IF t.fd["read"] # -1 THEN {watched(n)} ELSE Asks(watched(n))
    BY DEF Accepted
  <1>2. n \in FdNumbers /\ IsLoop(t) /\ "client" \in Globals /\ (Registers(t, n) <=> ~Stale(t, n))
    BY NotStaleRegisters DEF Lowest, Shape, Globals
  <1>3. CASE Stale(t, n)
    <2> DEFINE o == Opened(t, "client", n)
    <2>1. u = closeFd(o)
      BY <1>1, <1>2, <1>3
    <2>2. /\ Closable(o) /\ o.fired = t.fired /\ o.again = t.again
          /\ \A m \in FdNumbers : /\ Stale(o, m) <=> Stale(t, m)
                                  /\ o.sock[m] = "curl" => t.sock[m] = "curl"
      BY OpenedClosable
    <2> HIDE DEF o
    <2>3. QED
      BY <2>1, <2>2, DownAfter
  <1>4. CASE ~Stale(t, n)
    <2> DEFINE w == watched(n)
    <2>1. RegisteredAt(t, w, "client", n)
      BY <1>2, RegisterFields
    <2>2. u \in IF t.fd["read"] # -1 THEN {w} ELSE Asks(w)
      BY <1>1, <1>2, <1>4
    <2> HIDE DEF w
    <2>3. IsAccepted(t, w)
      BY <1>4, <2>1, RegisteredShape
    <2>4. CASE t.fd["read"] # -1
      BY <1>4, <2>2, <2>3, <2>4
    <2>5. CASE t.fd["read"] = -1
      <3>1. u \in Asks(w) /\ w.fd["read"] = -1
        BY <2>1, <2>2, <2>5 DEF RegisteredAt, Globals
      <3>2. Shape(w) /\ Up(w) /\ w.fd["client"] # -1
        BY <2>3 DEF IsAccepted
      <3>3. IsDown(w, u) \/ IsAccepted(w, u)
        BY <3>1, <3>2, AsksShape
      <3>4. IsDown(w, u) => IsDown(t, u)
        BY <2>3 DEF IsDown, IsAccepted
      <3>5. IsAccepted(w, u) => IsAccepted(t, u)
        BY <2>3 DEF IsAccepted
      <3>6. QED
        BY <1>4, <3>3, <3>4, <3>5
    <2>6. QED
      BY <2>4, <2>5
  <1>5. QED
    BY <1>3, <1>4

LEMMA BatchAccepted ==
  ASSUME NEW t, NEW u, Shape(t), Up(t), Batch(t), NoStale(t), IsAccepted(t, u)
  PROVE  Batch(u)
  <1>1. Pending(u) = Pending(t) /\ Pending(t) \subseteq FdNumbers /\ (Once(t) => Once(u))
    BY DEF IsAccepted, Shape, Pending, IsLoop, Once
  <1>2. \A n \in Pending(t) : ~Stale(u, n)
    BY <1>1 DEF IsAccepted, NoStale
  <1>3. ~u.again => \A n \in Pending(t) :
                      t.sock[n] \in Globals /\ t.sock[n] # None /\ t.readable[n] # "no"
    BY NoneAssumption DEF IsAccepted, Batch, NoStale
  <1>4. ~u.again => \A n \in Pending(t) : u.sock[n] \in Globals /\ u.readable[n] # "no"
    BY <1>1, <1>3 DEF IsAccepted
  <1>5. QED
    BY <1>1, <1>2, <1>4 DEF Batch, IsAccepted

\* acceptTcpHandler keeps the invariant.
LEMMA AcceptsKeep ==
  ASSUME Shape(s), Batch(s), NoStale(s), cur \in FdNumbers, s.fd["listen"] = cur,
         cur \notin Pending(s), NEW u \in Accepts(s)
  PROVE  Shape(u) /\ Batch(u)
  <1> DEFINE d == [DropClient(s) EXCEPT !.fd["client"] = -1, !.readable[cur] = "no"]
  <1>1. Up(s) /\ cur = SecondFd
    BY FdNotMinusOne DEF Shape, Placed, Globals
  <1>2. u = d \/ u \in Accepted(d)
    BY <1>1 DEF Accepts, Up
  <1>3. DroppedAt(s, d, cur)
    BY DropFields DEF Shape
  <1> HIDE DEF d
  <1>4. /\ Shape(d) /\ Up(d)
        /\ \A m \in FdNumbers : Stale(d, m) <=> Stale(s, m) \/ s.sock[m] = "client"
    BY <1>1, <1>3, DropShape
  <1>5. /\ Batch(d) /\ NoStaleCurl(d)
        /\ s.fd["client"] = -1 => NoStale(d)
    BY <1>1, <1>3, BatchDropped
  <1>6. CASE u \in Accepted(d)
    <2>1. d.fd["client"] = -1 /\ IsLoop(d)
      BY <1>3, <1>4 DEF DroppedAt, Globals, Shape
    <2>2. IsDown(d, u) \/ (IsAccepted(d, u) /\ \E n \in Lowest(d) : ~Stale(d, n))
      BY <1>4, <1>6, <2>1, AcceptedShape
    <2>3. CASE IsDown(d, u)
      BY <1>5, <2>1, <2>3, BatchDown DEF IsDown
    <2>4. CASE IsAccepted(d, u) /\ \E n \in Lowest(d) : ~Stale(d, n)
      <3>1. PICK n \in Lowest(d) : ~Stale(d, n)
        BY <2>4
      <3>2. n \in FdNumbers /\ d.sock[n] = None /\ \A m \in FdNumbers : m < n => d.sock[m] # None
        BY DEF Lowest
      <3>3. s.fd["client"] = -1
        <4> SUFFICES ASSUME s.fd["client"] # -1 PROVE FALSE
          OBVIOUS
        <4> DEFINE c == s.fd["client"]
        <4>1. c \in FdNumbers /\ s.sock[c] = "client"
          BY DEF Shape, Held, IsLoop, Globals
        <4>2. d.sock[c] = None /\ Stale(d, c)
          BY <1>3, <1>4, <4>1 DEF DroppedAt
        <4>3. Other(d, n) /\ Other(s, n)
          BY <1>3, <1>4, <3>2, UpFacts DEF DroppedAt, Other, Globals
        <4>4. n < c
          <5>1. n \in Nat /\ c \in Nat
            BY <3>2, <4>1, FdAssumption
          <5>2. n # c /\ ~(c < n)
            BY <3>1, <3>2, <4>1, <4>2
          <5>3. QED
            BY <5>1, <5>2
        <4>5. QED
          BY <1>4, <3>1, <3>2, <4>3, <4>4 DEF Shape, BelowClient
      <3>4. QED
        BY <1>4, <1>5, <2>4, <3>3, BatchAccepted DEF IsAccepted
    <2>5. QED
      BY <2>2, <2>3, <2>4
  <1>7. QED
    BY <1>2, <1>4, <1>5, <1>6

-----------------------------------------------------------------------------
(* curl *)

\* curl opens a socket while read_fd is connected.
LEMMA CurlOpens ==
  ASSUME NEW t, Shape(t), Batch(t), t.fd["read"] # -1, t.fd["read"] \notin Pending(t),
         \A n \in FdNumbers : t.sock[n] # "curl", NEW n \in Lowest(t), NEW u, u = Open(t, "curl", n)
  PROVE  Shape(u) /\ Batch(u)
  <1>0. /\ n \in FdNumbers /\ t.sock[n] = None /\ \A m \in FdNumbers : m < n => t.sock[m] # None
        /\ IsLoop(t) /\ "curl" \notin Globals /\ None \notin Globals /\ FdNumbers \subseteq Nat
        /\ "client" \in Globals
    BY NoneAssumption, FdAssumption DEF Lowest, Shape, Globals
  <1>1. Up(t)
    BY DEF Shape, Placed, Globals
  <1>2. /\ IsLoop(u) /\ Keeps(t, u, {"sock", "readable"})
        /\ u.sock = [t.sock EXCEPT ![n] = "curl"]
        /\ u.readable = [t.readable EXCEPT ![n] = "no"]
    BY <1>0, OpenFields
  <1>3. /\ u.epoll = t.epoll /\ u.proc = t.proc /\ u.fired = t.fired /\ u.fd = t.fd
        /\ u.again = t.again
        /\ \A m \in FdNumbers : /\ u.sock[m] = IF m = n THEN "curl" ELSE t.sock[m]
                                /\ m # n => u.readable[m] = t.readable[m]
    BY <1>0, <1>2 DEF Keeps, IsLoop
  <1>4. (\A m : Stale(u, m) <=> Stale(t, m)) /\ (\A m : Other(u, m) <=> Other(t, m)) /\ Up(u)
    BY <1>1, <1>3 DEF Stale, Other, Up
  <1>5. Held(u)
    <2>1. \A m \in FdNumbers : u.sock[m] \in Globals => u.sock[m] = t.sock[m]
      BY <1>0, <1>3
    <2>2. \A g \in Globals : t.fd[g] # -1 => t.fd[g] \in FdNumbers /\ t.sock[t.fd[g]] = g
      BY <1>0 DEF Shape, Held, IsLoop
    <2>3. \A g \in Globals : t.fd[g] # -1 => t.fd[g] # n
      BY <1>0, <2>2
    <2>4. \A g \in Globals : u.fd[g] # -1 => u.sock[u.fd[g]] = g
      BY <1>3, <2>2, <2>3
    <2>5. \A m \in FdNumbers : u.sock[m] \in Globals => u.fd[u.sock[m]] = m
      BY <1>3, <2>1 DEF Shape, Held
    <2>6. QED
      BY <2>4, <2>5 DEF Held
  <1>6. Watched(u)
    <2>1. \A m \in FdNumbers : u.sock[m] \in Globals => m # n /\ u.sock[m] = t.sock[m]
      BY <1>0, <1>3
    <2>2. \A m \in t.epoll : m \in FdNumbers /\ t.sock[m] \in Globals
      BY <1>0 DEF Shape, Watched, IsLoop
    <2>3. \A m \in t.epoll : m # n
      BY <1>0, <2>2
    <2>4. \A m \in u.epoll : u.sock[m] \in Globals
      BY <1>3, <2>2, <2>3
    <2>5. \A m \in FdNumbers : u.sock[m] \in Globals => m \in u.epoll /\ u.proc[m] = Handler[u.sock[m]]
      BY <1>3, <2>1 DEF Shape, Watched
    <2>6. QED
      BY <2>4, <2>5 DEF Watched
  <1>7. Other(t, n)
    BY <1>0, <1>1, UpFacts
  <1>8. Marked(u)
    <2>1. \A m \in FdNumbers : u.proc[m] # None /\ m \notin u.epoll => u.proc[m] = "readFromSlave"
      BY <1>3 DEF Shape, Marked
    <2>2. \A m \in Reserved \intersect FdNumbers : u.sock[m] # "curl" /\ ~Stale(u, m)
      BY <1>3, <1>4, <1>7 DEF Shape, Marked, Other
    <2>3. \A m \in FdNumbers : u.sock[m] = "curl" => m = n
      BY <1>3
    <2>4. QED
      BY <2>1, <2>2, <2>3 DEF Marked
  <1>9. Placed(u) /\ BelowClient(u) /\ AfterDrop(u)
    BY <1>3, <1>4 DEF Shape, Placed, BelowClient, AfterDrop, Up
  <1>10. AboveClient(u)
    <2> SUFFICES ASSUME ~Stale(t, n)
                 PROVE  \E c \in FdNumbers : c < n /\ Other(u, c) /\ u.sock[c] \in {None, "client"}
      BY <1>0, <1>3, <1>4 DEF AboveClient
    <2>1. CASE t.fd["client"] # -1
      <3> DEFINE c == t.fd["client"]
      <3>1. c \in FdNumbers /\ t.sock[c] = "client"
        BY <1>0, <2>1 DEF Shape, Held, IsLoop
      <3>2. Other(t, c) /\ c # n
        BY <1>0, <1>1, <3>1, UpFacts
      <3>3. ~(n < c)
        BY <1>0, <1>7, <2>1 DEF Shape, BelowClient
      <3>4. c < n
        <4>1. c \in Nat /\ n \in Nat
          BY <1>0, <3>1
        <4> HIDE DEF c
        <4>2. QED
          BY <3>2, <3>3, <4>1
      <3>5. QED
        BY <1>3, <1>4, <3>1, <3>2, <3>4
    <2>2. CASE t.fd["client"] = -1
      <3>1. PICK c \in FdNumbers :
              Stale(t, c) /\ \A m \in FdNumbers : m <= c /\ Other(t, m) => Stale(t, m)
        BY <2>2 DEF Shape, AfterDrop
      <3>2. ~(n <= c)
        BY <1>0, <1>7, <3>1
      <3>3. c < n /\ t.sock[c] # None
        BY <1>0, <3>1, <3>2
      <3>4. t.sock[c] \in Globals
        BY <1>0, <3>1, <3>3 DEF IsLoop
      <3>5. FALSE
        BY <3>1, <3>4 DEF Shape, Watched, Stale
      <3>6. QED
        BY <3>5
    <2>3. QED
      BY <2>1, <2>2
  <1>11. Shape(u)
    BY <1>2, <1>5, <1>6, <1>8, <1>9, <1>10 DEF Shape
  <1>12. Pending(u) = Pending(t) /\ Pending(t) \subseteq FdNumbers /\ (Once(t) => Once(u))
    BY <1>0, <1>3 DEF Pending, IsLoop, Once
  <1>13. \A m \in Pending(u) : u.sock[m] \in Globals <=> t.sock[m] \in Globals
    BY <1>0, <1>3, <1>12
  <1>14. \A m \in Pending(u) : u.sock[m] \in Globals => u.readable[m] = t.readable[m]
    BY <1>0, <1>3, <1>12
  <1>15. Batch(u)
    BY <1>1, <1>3, <1>4, <1>12, <1>13, <1>14 DEF Batch
  <1>16. QED
    BY <1>11, <1>15

LEMMA CurlCloses ==
  ASSUME NEW t, Shape(t), Batch(t), NEW n \in FdNumbers, t.sock[n] = "curl",
         NEW u, u = Close(t, n)
  PROVE  Shape(u) /\ Batch(u)
  <1>0. /\ IsLoop(t) /\ "curl" \notin Globals /\ None \notin Globals /\ None # "curl"
        /\ \A m \in FdNumbers : t.sock[m] = "curl" => m = n
    BY NoneAssumption DEF Shape, Globals, Marked
  <1>1. n \notin t.epoll
    BY <1>0 DEF Shape, Watched
  <1>2. /\ IsLoop(u) /\ Keeps(t, u, {"sock", "readable", "epoll"})
        /\ u.sock = [t.sock EXCEPT ![n] = None]
        /\ u.readable = [t.readable EXCEPT ![n] = "no"]
        /\ u.epoll = t.epoll \ {n}
    BY <1>0, CloseFields
  <1>3. /\ u.epoll = t.epoll /\ u.proc = t.proc /\ u.fired = t.fired /\ u.fd = t.fd
        /\ u.again = t.again
        /\ \A m \in FdNumbers : /\ u.sock[m] = IF m = n THEN None ELSE t.sock[m]
                                /\ m # n => u.readable[m] = t.readable[m]
    BY <1>0, <1>1, <1>2 DEF Keeps, IsLoop
  <1>4. /\ \A m : Stale(u, m) <=> Stale(t, m)
        /\ \A m : Other(u, m) <=> Other(t, m)
        /\ Up(u) <=> Up(t)
    BY <1>3 DEF Stale, Other, Up
  <1>5. Held(u)
    BY <1>0, <1>3, NoneAssumption DEF Shape, Held, IsLoop
  <1>6. Watched(u)
    BY <1>0, <1>3 DEF Shape, Watched, IsLoop
  <1>7. \A m \in FdNumbers : u.sock[m] # "curl"
    BY <1>0, <1>3
  <1>8. Marked(u) /\ AboveClient(u)
    BY <1>3, <1>4, <1>7 DEF Shape, Marked, AboveClient
  <1>9. Placed(u) /\ BelowClient(u) /\ AfterDrop(u)
    BY <1>3, <1>4 DEF Shape, Placed, BelowClient, AfterDrop, Up
  <1>11. Shape(u)
    BY <1>2, <1>5, <1>6, <1>8, <1>9 DEF Shape
  <1>12. Pending(u) = Pending(t) /\ Pending(t) \subseteq FdNumbers /\ (Once(t) => Once(u))
    BY <1>0, <1>3 DEF Pending, IsLoop, Once
  <1>13. \A m \in Pending(u) : u.sock[m] \in Globals <=> t.sock[m] \in Globals
    BY <1>0, <1>3, <1>12
  <1>14. \A m \in Pending(u) : u.sock[m] \in Globals => u.readable[m] = t.readable[m]
    BY <1>0, <1>3, <1>12
  <1>15. Batch(u)
    BY <1>3, <1>4, <1>7, <1>12, <1>13, <1>14 DEF Batch
  <1>16. QED
    BY <1>11, <1>15

-----------------------------------------------------------------------------
(* The steps *)

\* What a socket has to read, what is pending and whether the process has
\* reconnected do not matter to the shape.
LEMMA SameShape ==
  ASSUME NEW t, Shape(t), NEW u, IsLoop(u), Keeps(t, u, {"readable", "fired", "again"})
  PROVE  /\ Shape(u) /\ (Up(u) <=> Up(t))
         /\ \A n : Stale(u, n) <=> Stale(t, n)
  <1>1. /\ u.sock = t.sock /\ u.epoll = t.epoll /\ u.proc = t.proc /\ u.fd = t.fd
    BY DEF Keeps
  <1>2. /\ \A n : Stale(u, n) <=> Stale(t, n)
        /\ \A n : Other(u, n) <=> Other(t, n)
        /\ Up(u) <=> Up(t)
    BY <1>1 DEF Stale, Other, Up
  <1>3. Held(u) /\ Watched(u)
    BY <1>1 DEF Shape, Held, Watched
  <1>4. Marked(u)
    BY <1>1, <1>2 DEF Shape, Marked
  <1>5. Placed(u) /\ BelowClient(u) /\ AfterDrop(u) /\ AboveClient(u)
    BY <1>1, <1>2 DEF Shape, Placed, BelowClient, AfterDrop, AboveClient
  <1>6. QED
    BY <1>2, <1>3, <1>4, <1>5 DEF Shape

\* Data that arrives, or that is read from a socket whose event is not pending.
LEMMA SameBatch ==
  ASSUME NEW t, Shape(t), Batch(t), NEW u, IsLoop(u), Keeps(t, u, {"readable"}),
         \A n \in Pending(t) : t.readable[n] # "no" => u.readable[n] # "no"
  PROVE  Shape(u) /\ Batch(u)
  <1>1. /\ u.sock = t.sock /\ u.epoll = t.epoll /\ u.proc = t.proc /\ u.fd = t.fd
        /\ u.fired = t.fired /\ u.again = t.again /\ Keeps(t, u, {"readable", "fired", "again"})
    BY DEF Keeps
  <1>2. /\ Shape(u) /\ (Up(u) <=> Up(t))
        /\ \A n : Stale(u, n) <=> Stale(t, n)
    BY <1>1, SameShape
  <1>3. Pending(u) = Pending(t) /\ (Once(t) => Once(u))
    BY <1>1 DEF Pending, Once
  <1>4. QED
    BY <1>1, <1>2, <1>3 DEF Batch

\* The invariant, without the running handler.
Quiet(t) == Shape(t) /\ Batch(t)

LEMMA ReadBytesMute ==
  ASSUME Quiet(s), cur \in FdNumbers, cur \notin Pending(s),
         NEW u, u = [s EXCEPT !.readable[cur] = "no"]
  PROVE  Quiet(u) /\ Keeps(s, u, {"readable"})
  <1>1. /\ IsLoop(u) /\ Keeps(s, u, {"readable"})
        /\ u.readable = [s.readable EXCEPT ![cur] = "no"]
    BY MuteFields DEF Quiet, Shape
  <1>2. \A n \in Pending(s) : n \in FdNumbers /\ n # cur
    BY DEF Quiet, Shape, IsLoop, Pending
  <1>3. \A n \in Pending(s) : u.readable[n] = s.readable[n]
    BY <1>1, <1>2 DEF Quiet, Shape, IsLoop
  <1>4. QED
    BY <1>1, <1>3, SameBatch DEF Quiet

\* closeFd in a handler.
LEMMA CloseKeeps ==
  ASSUME NEW t, Quiet(t), NoStaleCurl(t) \/ FirstFd \notin Pending(t)
  PROVE  IsDown(t, closeFd(t)) /\ Quiet(closeFd(t))
  <1>1. IsDown(t, closeFd(t))
    BY ShapeClosable, closeFdDown DEF Quiet
  <1>2. QED
    BY <1>1, BatchDown DEF IsDown, Quiet, Shape

\* connectToMaster when no event of the old connection is pending.
LEMMA ConnectKeeps ==
  ASSUME NEW t, Quiet(t), ~Up(t), FirstFd \notin Pending(t), NEW u \in connectToMaster(t)
  PROVE  Quiet(u)
  <1>1. u = t \/ IsConnected(t, u)
    BY ConnectShape DEF Quiet
  <1>2. QED
    BY <1>1, BatchConnected DEF IsConnected, Quiet, Shape

\* The rest of a handler.  None is called for a connection whose close would
\* mix up the events that are still pending.
LEMMA PassesKeep ==
  ASSUME NEW t, Quiet(t), NEW u \in Passes(t), pc \in Readers,
         NoStaleCurl(t) \/ FirstFd \notin Pending(t),
         pc = "readFromMaster" => FirstFd \notin Pending(t),
         pc = "readDelValue" => t.fd["read"] # -1 /\ t.fd["read"] \notin Pending(t)
  PROVE  Quiet(u)
  <1>1. u = t \/ u \in WriteFails(t) \/ (pc = "readDelValue" /\ u \in Curls(t))
    BY DEF Passes
  <1>2. CASE u \in WriteFails(t)
    <2>1. \/ u = closeFd(t)
          \/ pc = "readFromMaster" /\ u \in connectToMaster(closeFd(t))
      BY <1>2 DEF WriteFails
    <2>2. IsDown(t, closeFd(t)) /\ Quiet(closeFd(t))
      BY CloseKeeps
    <2>3. ~Up(closeFd(t)) /\ Pending(closeFd(t)) = Pending(t)
      BY <2>2 DEF IsDown, Pending
    <2>4. QED
      BY <2>1, <2>2, <2>3, ConnectKeeps
  <1>3. CASE pc = "readDelValue" /\ u \in Curls(t)
    <2> DEFINE kept == {n \in FdNumbers : t.sock[n] = "curl"}
    <2>1. CASE kept = {}
      <3>1. PICK n \in Lowest(t) : u = Open(t, "curl", n)
        BY <1>3, <2>1 DEF Curls
      <3>2. \A n_1 \in FdNumbers : t.sock[n_1] # "curl"
        BY <2>1
      <3>3. QED
        BY <1>3, <3>1, <3>2, CurlOpens DEF Quiet
    <2>2. CASE kept # {}
      <3>1. PICK n \in kept : u = Close(t, n)
        BY <1>3, <2>2 DEF Curls
      <3>2. QED
        BY <3>1, CurlCloses DEF Quiet
    <2>3. QED
      BY <2>1, <2>2
  <1>4. QED
    BY <1>1, <1>2, <1>3

\* The inductive invariant.
Inv ==
  /\ pc \in Handlers \union {"idle", "dead"}
  /\ Quiet(s) /\ Running /\ NeverBlocks

\* No handler runs after the step.
LEMMA RestInv ==
  ASSUME Quiet(s)', pc' \in {"idle", "dead"}
  PROVE  Inv'
  <1>1. pc' \notin Handlers /\ \A g \in Globals : pc' # Handler[g]
    BY HandlerFacts DEF Handlers, Handler, Globals
  <1>2. Running' /\ NeverBlocks'
    BY <1>1, HandlerFacts DEF Running, NeverBlocks, Readers, Handlers, Globals
  <1>3. QED
    BY <1>2 DEF Inv

LEMMA InitInv == Init => Inv
  <1> SUFFICES ASSUME Init PROVE Inv
    OBVIOUS
  <1> DEFINE t == EmptyLoop(Globals)
  <1>1. s \in connectToMaster(t) /\ s.fd["master"] # -1 /\ pc = "idle"
    BY DEF Init
  <1>2. /\ IsLoop(t) /\ t.fired = <<>>
        /\ \A n \in FdNumbers : t.sock[n] = None /\ t.proc[n] = None
        /\ t.epoll = {}
        /\ \A g \in Globals : t.fd[g] = -1
    <2>1. t.fired \in Seq(FdNumbers)
      BY DEF EmptyLoop
    <2>2. QED
      BY <2>1 DEF EmptyLoop, IsLoop
  <1> HIDE DEF t
  <1>3. \A n \in FdNumbers : ~Stale(t, n)
    BY <1>2, NoneAssumption DEF Stale, Handlers, Handler, Globals
  <1>4. Shape(t) /\ ~Up(t)
    <2>1. ~Up(t) /\ Placed(t) /\ BelowClient(t) /\ AfterDrop(t)
      BY <1>2 DEF Up, Placed, BelowClient, AfterDrop, Globals
    <2>2. Held(t) /\ Watched(t) /\ AboveClient(t)
      BY <1>2, NoneAssumption DEF Held, Watched, AboveClient
    <2>3. Marked(t)
      BY <1>2, <1>3, NoneAssumption DEF Marked
    <2>4. QED
      BY <1>2, <2>1, <2>2, <2>3 DEF Shape
  <1>5. Pending(t) = {} /\ Batch(t)
    BY <1>2 DEF Pending, Batch, Once
  <1>6. Quiet(s)
    BY <1>1, <1>4, <1>5, ConnectKeeps DEF Quiet
  <1>7. pc \notin Handlers /\ \A g \in Globals : pc # Handler[g]
    BY <1>1, HandlerFacts DEF Handlers, Handler, Globals
  <1>8. Running /\ NeverBlocks
    BY <1>7, HandlerFacts DEF Running, NeverBlocks, Readers, Handlers, Globals
  <1>9. QED
    BY <1>1, <1>6, <1>8 DEF Inv

\* A peer writes, closes or connects.
LEMMA PeerActsInv ==
  ASSUME Inv, NEW n \in FdNumbers, PeerActs(n)
  PROVE  Inv'
  <1>0. IsLoop(s) /\ Quiet(s) /\ pc' = pc /\ cur' = cur
    BY DEF Inv, Quiet, Shape, PeerActs
  <1>1. PICK x \in {"data", "eof"} : s' = [s EXCEPT !.readable[n] = x]
    BY DEF PeerActs
  <1>2. /\ IsLoop(s') /\ Keeps(s, s', {"readable"})
        /\ s'.readable = [s.readable EXCEPT ![n] = x]
    BY <1>0, <1>1 DEF IsLoop, Keeps
  <1>3. \A m \in FdNumbers : s.readable[m] # "no" => s'.readable[m] # "no"
    BY <1>0, <1>2 DEF IsLoop
  <1>4. Pending(s) \subseteq FdNumbers
    BY <1>0 DEF Pending, IsLoop
  <1>5. Shape(s') /\ Batch(s')
    BY <1>0, <1>2, <1>3, <1>4, SameBatch DEF Quiet
  <1>6. /\ s'.sock = s.sock /\ s'.epoll = s.epoll /\ s'.proc = s.proc /\ s'.fd = s.fd
        /\ s'.fired = s.fired /\ s'.again = s.again
    BY <1>2 DEF Keeps
  <1>7. Running'
    BY <1>0, <1>6 DEF Inv, Running, Pending, Stale, NoStale, NoStaleCurl, Up
  <1>8. NeverBlocks'
    <2>1. pc \in Handlers => cur \in FdNumbers
      BY DEF Inv, Running
    <2>2. QED
      BY <1>0, <1>3, <1>6, <2>1 DEF Inv, NeverBlocks, Readers
  <1>9. QED
    BY <1>0, <1>5, <1>7, <1>8 DEF Inv, Quiet

\* epoll_wait reports every number once, and only sockets that are open.
LEMMA PollInv ==
  ASSUME Inv, Poll
  PROVE  Inv'
  <1>0. IsLoop(s) /\ Shape(s) /\ pc' = "idle"
    BY DEF Inv, Quiet, Shape, Poll
  <1>p. PICK t \in Polls(s) : s' = [t EXCEPT !.again = FALSE]
    BY Zenon DEF Poll
  <1>1. PICK order \in SetToSeqs(Ready(s)) : t = [s EXCEPT !.fired = order]
    BY Zenon DEF Polls
  <1>2. Ready(s) \subseteq FdNumbers /\ IsFiniteSet(Ready(s))
    <2>1. Ready(s) \subseteq FdNumbers
      BY <1>0 DEF Ready, IsLoop
    <2>2. QED
      BY <2>1, FS_Subset, FdAssumption
  <1>3. Cardinality(Ready(s)) \in Nat
    BY <1>2, FS_CardinalityType
  <1> DEFINE D == 1..Cardinality(Ready(s))
  <1>4. order \in [D -> Ready(s)] /\ \A i, j \in D : i # j => order[i] # order[j]
    BY DEF SetToSeqs
  <1>5. order \in Seq(FdNumbers) /\ DOMAIN order = D
    BY <1>2, <1>3, <1>4
  <1>6. IsLoop(s') /\ Keeps(s, s', {"fired", "again"}) /\ s'.fired = order /\ s'.again = FALSE
    <2>1. IsLoop(t) /\ Keeps(s, t, {"fired"}) /\ t.fired = order
      BY <1>0, <1>1, <1>5 DEF IsLoop, Keeps
    <2>2. IsLoop(s') /\ Keeps(t, s', {"again"}) /\ s'.again = FALSE
      BY <1>p, <2>1 DEF IsLoop, Keeps
    <2>3. QED
      BY <2>1, <2>2 DEF Keeps
  <1>7. Keeps(s, s', {"readable", "fired", "again"}) /\ s'.readable = s.readable /\ s'.sock = s.sock
    BY <1>6 DEF Keeps
  <1>8. /\ Shape(s')
        /\ \A n : Stale(s', n) <=> Stale(s, n)
    BY <1>0, <1>6, <1>7, SameShape
  <1>9. Pending(s') \subseteq Ready(s) /\ Once(s')
    BY <1>4, <1>5, <1>6 DEF Pending, Once
  <1>10. \A n \in Ready(s) : ~Stale(s, n) /\ s.sock[n] \in Globals /\ s.readable[n] # "no"
    BY <1>0 DEF Ready, Stale, Shape, Watched
  <1>11. Batch(s')
    BY <1>6, <1>7, <1>8, <1>9, <1>10 DEF Batch
  <1>12. QED
    BY <1>0, <1>8, <1>11, RestInv DEF Quiet

LEMMA timeEventInv ==
  ASSUME Inv, timeEvent
  PROVE  Inv'
  <1>1. FirstFd \notin Pending(s)
    BY DEF timeEvent, Pending
  <1>2. Quiet(s')
    BY <1>1, ConnectKeeps DEF timeEvent, Up, Inv
  <1>3. QED
    BY <1>2, RestInv DEF timeEvent

LEMMA acceptTcpHandlerInv ==
  ASSUME Inv, acceptTcpHandler
  PROVE  Inv'
  <1>1. PICK t \in Accepts(s) : s' = t /\ pc' = "idle"
    BY DEF acceptTcpHandler, Return
  <1>2. "listen" \in Globals /\ Handler["listen"] = "acceptTcpHandler" /\ pc \in Handlers
    BY HandlerFacts DEF Globals, acceptTcpHandler
  <1>3. s.fd["listen"] = cur /\ cur \in FdNumbers /\ cur \notin Pending(s) /\ NoStale(s)
    BY <1>2 DEF Inv, Running, acceptTcpHandler
  <1>4. Shape(t) /\ Batch(t)
    BY <1>3, AcceptsKeep DEF Inv, Quiet
  <1>5. QED
    BY <1>1, <1>4, RestInv DEF Quiet

LEMMA ExitInv ==
  ASSUME Inv, Exit
  PROVE  Inv'
  BY RestInv DEF Inv, Exit, Quiet

\* What is left of the batch after its first event.
LEMMA TailPending ==
  ASSUME NEW f \in Seq(FdNumbers), f # <<>>, \A i, j \in DOMAIN f : f[i] = f[j] => i = j
  PROVE  /\ Head(f) \in FdNumbers /\ Head(f) \in {f[i] : i \in DOMAIN f}
         /\ Tail(f) \in Seq(FdNumbers)
         /\ \A i \in DOMAIN Tail(f) : Tail(f)[i] \in {f[j] : j \in DOMAIN f} /\ Tail(f)[i] # Head(f)
         /\ \A i, j \in DOMAIN Tail(f) : Tail(f)[i] = Tail(f)[j] => i = j
  <1>1. Len(f) \in Nat /\ Len(f) > 0 /\ DOMAIN f = 1..Len(f) /\ Head(f) = f[1]
    OBVIOUS
  <1>2. Tail(f) \in Seq(FdNumbers) /\ DOMAIN Tail(f) = 1..(Len(f) - 1)
    BY <1>1
  <1>3. \A i \in DOMAIN Tail(f) : Tail(f)[i] = f[i + 1] /\ i + 1 \in DOMAIN f /\ i \in Nat /\ i > 0
    BY <1>1, <1>2
  <1>4. 1 \in DOMAIN f
    BY <1>1
  <1>5. \A i \in DOMAIN Tail(f) : Tail(f)[i] # f[1]
    BY <1>3, <1>4
  <1>6. \A i, j \in DOMAIN Tail(f) : Tail(f)[i] = Tail(f)[j] => i = j
    BY <1>3
  <1>7. QED
    BY <1>1, <1>2, <1>3, <1>4, <1>5, <1>6

\* Whoever is called, is called for a socket of its own that has something to
\* read, or for the one stale event of the batch.
LEMMA DispatchInv ==
  ASSUME Inv, Dispatch
  PROVE  Inv'
  <1> DEFINE n == Head(s.fired)
  <1>0. /\ IsLoop(s) /\ Shape(s) /\ Batch(s) /\ s.fired \in Seq(FdNumbers) /\ s.fired # <<>>
        /\ s' = [s EXCEPT !.fired = Tail(s.fired)]
        /\ pc' = IF s.proc[n] = None THEN "idle" ELSE s.proc[n]
        /\ cur' = IF s.proc[n] = None THEN -1 ELSE n
    BY DEF Inv, Quiet, Shape, Dispatch, IsLoop
  <1>1. /\ n \in FdNumbers /\ n \in Pending(s) /\ Tail(s.fired) \in Seq(FdNumbers)
        /\ \A i \in DOMAIN Tail(s.fired) : Tail(s.fired)[i] \in Pending(s) /\ Tail(s.fired)[i] # n
        /\ \A i, j \in DOMAIN Tail(s.fired) : Tail(s.fired)[i] = Tail(s.fired)[j] => i = j
    BY <1>0, TailPending DEF Batch, Once, Pending
  <1>2. IsLoop(s') /\ Keeps(s, s', {"fired"}) /\ s'.fired = Tail(s.fired)
    BY <1>0, <1>1 DEF IsLoop, Keeps
  <1> HIDE DEF n
  <1>3. /\ s'.sock = s.sock /\ s'.readable = s.readable /\ s'.epoll = s.epoll
        /\ s'.proc = s.proc /\ s'.fd = s.fd /\ s'.again = s.again
        /\ Keeps(s, s', {"readable", "fired", "again"})
    BY <1>2 DEF Keeps
  <1>4. /\ Shape(s') /\ (Up(s') <=> Up(s))
        /\ \A m : Stale(s', m) <=> Stale(s, m)
    BY <1>0, <1>2, <1>3, SameShape
  <1>5. Pending(s') \subseteq Pending(s) /\ n \notin Pending(s') /\ Once(s')
    BY <1>1, <1>2 DEF Pending, Once
  <1>6. Batch(s')
    BY <1>0, <1>3, <1>4, <1>5 DEF Batch
  <1>7. CASE s.proc[n] = None
    BY <1>0, <1>4, <1>6, <1>7, RestInv DEF Quiet
  <1>8. CASE s.proc[n] # None
    <2>1. pc' = s.proc[n] /\ cur' = n /\ pc' \in Handlers
      BY <1>0, <1>1, <1>8 DEF IsLoop
    <2>2. CASE Stale(s, n)
      <3>1. pc' = "readFromSlave" /\ s.fd["client"] = -1
        BY <1>0, <1>1, <2>1, <2>2 DEF Stale, Batch
      <3>2. NoStale(s')
        BY <1>0, <1>1, <1>4, <1>5, <2>2 DEF Batch, NoStale
      <3>3. s.sock[n] = "curl" /\ ~Up(s) => FirstFd \notin Pending(s')
        BY <1>0, <1>1, <1>5, <2>2 DEF Batch
      <3>4. \A g \in Globals : pc' = Handler[g] => g = "client"
        BY <3>1, HandlerFacts DEF Globals
      <3>5. Running'
        BY <1>1, <1>3, <1>4, <1>5, <2>1, <2>2, <3>1, <3>2, <3>3, <3>4 DEF Running
      <3>6. s'.sock[cur'] \notin Globals
        BY <1>0, <1>1, <1>3, <2>1, <2>2 DEF Shape, Watched, Stale
      <3>7. NeverBlocks'
        BY <3>6 DEF NeverBlocks
      <3>8. QED
        BY <1>4, <1>6, <2>1, <3>5, <3>7 DEF Inv, Quiet
    <2>3. CASE ~Stale(s, n)
      <3>1. n \in s.epoll
        BY <1>0, <1>1, <1>8, <2>3 DEF Shape, Marked, Stale
      <3> DEFINE g == s.sock[n]
      <3>2. g \in Globals /\ s.proc[n] = Handler[g] /\ s.fd[g] = n
        BY <1>0, <1>1, <3>1 DEF Shape, Watched, Held
      <3> HIDE DEF g
      <3>3. \A h \in Globals : pc' = Handler[h] => h = g
        BY <2>1, <3>2, HandlerFacts
      <3>4. Up(s) /\ (g = "master" => n = FirstFd) /\ (g = "listen" => n = SecondFd)
        BY <1>0, <1>1, <3>2, FdNotMinusOne DEF Shape, Placed
      <3>5. pc' = "acceptTcpHandler" => NoStale(s')
        <4> SUFFICES ASSUME pc' = "acceptTcpHandler" PROVE NoStale(s')
          OBVIOUS
        <4>1. SecondFd \in Pending(s)
          BY <1>1, <3>3, <3>4, HandlerFacts DEF Globals
        <4>2. QED
          BY <1>0, <1>4, <1>5, <4>1 DEF Batch, NoStale
      <3>6. pc' = "readDelValue" => NoStaleCurl(s')
        <4> SUFFICES ASSUME pc' = "readDelValue" PROVE NoStaleCurl(s')
          OBVIOUS
        <4>1. s.fd["read"] \in Pending(s)
          BY <1>1, <3>2, <3>3, HandlerFacts DEF Globals
        <4>2. QED
          BY <1>0, <1>3, <1>4, <1>5, <4>1 DEF Batch, NoStaleCurl
      <3>7. Running'
        BY <1>1, <1>3, <1>4, <1>5, <2>1, <2>3, <3>2, <3>3, <3>5, <3>6 DEF Running, g
      <3>8. NeverBlocks'
        <4> SUFFICES ASSUME s'.again => pc' = "readFromMaster"
                     PROVE  s'.readable[n] # "no"
          BY <2>1 DEF NeverBlocks
        <4>1. CASE ~s.again
          BY <1>0, <1>1, <1>3, <3>2, <4>1 DEF Batch, g
        <4>2. CASE s.again
          <5>1. n = FirstFd
            BY <1>3, <3>3, <3>4, <4>2, HandlerFacts DEF Globals
          <5>2. QED
            BY <1>0, <1>1, <3>4, <4>2, <5>1 DEF Batch
        <4>3. QED
          BY <4>1, <4>2
      <3>9. QED
        BY <1>4, <1>6, <2>1, <3>7, <3>8 DEF Inv, Quiet
    <2>4. QED
      BY <2>2, <2>3
  <1>9. QED
    BY <1>7, <1>8

\* What a reader may rely on when it closes or writes.
LEMMA ReaderFacts ==
  ASSUME Inv, pc \in Readers
  PROVE  /\ pc \in {"readFromMaster", "readFromSlave", "readDelValue"}
         /\ Quiet(s) /\ cur \in FdNumbers /\ cur \notin Pending(s)
         /\ NoStaleCurl(s) \/ FirstFd \notin Pending(s)
         /\ pc = "readFromMaster" => FirstFd \notin Pending(s)
         /\ pc = "readDelValue" => s.fd["read"] # -1 /\ s.fd["read"] \notin Pending(s)
         /\ pc # "readFromSlave" \/ s.fd["client"] # -1 => s.sock[cur] \in Globals
         /\ s.sock[cur] \notin Globals =>
              /\ pc = "readFromSlave" /\ Stale(s, cur) /\ NoStale(s)
              /\ s.sock[cur] = "curl" /\ ~Up(s) => FirstFd \notin Pending(s)
  <1>1. pc \in {"readFromMaster", "readFromSlave", "readDelValue"} /\ pc \in Handlers
    BY DEF Readers, Handlers, Handler, Globals
  <1>2. Quiet(s) /\ cur \in FdNumbers /\ cur \notin Pending(s) /\ Shape(s) /\ Batch(s)
    BY <1>1 DEF Inv, Running, Quiet
  <1>3. Globals = {"master", "listen", "client", "read"}
    BY DEF Globals
  <1>4. CASE pc = "readFromMaster"
    <2>1. s.fd["master"] = cur /\ s.sock[cur] = "master"
      BY <1>3, <1>4, HandlerFacts DEF Inv, Running
    <2>2. cur = FirstFd
      BY <1>2, <1>3, <2>1, FdNotMinusOne DEF Shape, Placed, Up
    <2>3. QED
      BY <1>1, <1>2, <1>3, <1>4, <2>1, <2>2
  <1>5. CASE pc = "readDelValue"
    <2>1. s.fd["read"] = cur /\ s.sock[cur] = "read" /\ NoStaleCurl(s)
      BY <1>3, <1>5, HandlerFacts DEF Inv, Running
    <2>2. QED
      BY <1>1, <1>2, <1>3, <1>5, <2>1, FdNotMinusOne
  <1>6. CASE pc = "readFromSlave"
    <2>1. \/ s.fd["client"] = cur /\ s.sock[cur] = "client"
          \/ s.fd["client"] = -1 /\ Stale(s, cur)
      BY <1>3, <1>6, HandlerFacts DEF Inv, Running
    <2>2. CASE s.fd["client"] = cur /\ s.sock[cur] = "client"
      <3>1. NoStale(s)
        BY <1>2, <2>2, FdNotMinusOne DEF Batch, NoStale
      <3>2. QED
        BY <1>1, <1>2, <1>3, <1>6, <2>2, <3>1 DEF NoStale, NoStaleCurl
    <2>3. CASE s.fd["client"] = -1 /\ Stale(s, cur)
      <3>1. NoStale(s) /\ (s.sock[cur] = "curl" /\ ~Up(s) => FirstFd \notin Pending(s))
        BY <1>6, <2>3 DEF Inv, Running
      <3>2. QED
        BY <1>1, <1>2, <1>6, <2>3, <3>1 DEF NoStale, NoStaleCurl
    <2>4. QED
      BY <2>1, <2>2, <2>3
  <1>7. QED
    BY <1>1, <1>4, <1>5, <1>6

LEMMA ReadBytesInv ==
  ASSUME Inv, ReadBytes
  PROVE  Inv'
  <1> DEFINE t == [s EXCEPT !.readable[cur] = "no"]
  <1>0. pc \in Readers
    BY DEF ReadBytes
  <1>1. PICK u \in Passes(t) : s' = u /\ pc' = "idle"
    BY DEF ReadBytes, Return
  <1>2. Quiet(t) /\ Keeps(s, t, {"readable"})
    BY <1>0, ReaderFacts, ReadBytesMute
  <1> HIDE DEF t
  <1>3. /\ Pending(t) = Pending(s) /\ t.fd = s.fd /\ (NoStaleCurl(s) => NoStaleCurl(t))
    BY <1>2 DEF Keeps, Pending, NoStaleCurl, Stale
  <1>4. Quiet(u)
    BY <1>0, <1>2, <1>3, ReaderFacts, PassesKeep
  <1>5. QED
    BY <1>1, <1>4, RestInv

LEMMA ReadEndInv ==
  ASSUME Inv, ReadEnd
  PROVE  Inv'
  <1>1. pc \in Readers /\ (s' = closeFd(s) \/ s' = s) /\ pc' = "idle"
    BY DEF ReadEnd, Return
  <1>2. Quiet(s) /\ Quiet(closeFd(s))
    BY <1>1, ReaderFacts, CloseKeeps
  <1>3. QED
    BY <1>1, <1>2, RestInv

\* closeFd right after a connect: the events of the old connection are ignored.
LEMMA BatchReclosed ==
  ASSUME NEW t, NEW c, NEW u, Quiet(t), NoStale(t), IsConnected(t, c), IsDown(c, u)
  PROVE  Quiet(u)
  <1>1. Pending(u) = Pending(t) /\ Pending(t) \subseteq FdNumbers /\ (Once(t) => Once(u))
    BY DEF IsConnected, IsDown, Pending, Quiet, Shape, IsLoop, Once
  <1>2. \A n \in Pending(u) : Stale(c, n) => n \notin Reserved
    BY <1>1 DEF IsConnected, Shape, Marked
  <1>3. \A n \in Pending(u) : ~Stale(u, n)
    BY <1>1, <1>2 DEF IsConnected, IsDown, Stale, NoStale
  <1>4. u.again = TRUE /\ ~Up(u) /\ Shape(u)
    BY DEF IsDown, IsConnected
  <1>5. QED
    BY <1>1, <1>3, <1>4 DEF Quiet, Batch

LEMMA ReadStaleInv ==
  ASSUME Inv, ReadStale
  PROVE  Inv'
  <1>0. pc \in Readers /\ s.sock[cur] \in {None, "curl"} /\ s.sock[cur] \notin Globals
    BY NoneAssumption DEF ReadStale, Globals
  <1>1. /\ pc = "readFromSlave" /\ Stale(s, cur) /\ NoStale(s) /\ Quiet(s) /\ cur \in FdNumbers
        /\ s.sock[cur] = "curl" /\ ~Up(s) => FirstFd \notin Pending(s)
    BY <1>0, ReaderFacts
  <1>2. PICK t \in IF s.fd["master"] = -1 THEN connectToMaster(s) ELSE {s} :
          \/ Return(closeFd(t))
          \/ t.sock[cur] # None /\ \E u \in Passes(t) : Return(u)
    BY DEF ReadStale
  <1>3. pc' = "idle"
    BY <1>2 DEF Return
  <1>4. t = s \/ (~Up(s) /\ t \in connectToMaster(s))
    BY <1>2 DEF Up
  <1>5. t = s \/ (~Up(s) /\ IsConnected(s, t))
    BY <1>1, <1>4, ConnectShape DEF Quiet
  <1>6. CASE t = s
    <2>1. NoStaleCurl(s) /\ pc # "readFromMaster" /\ pc # "readDelValue"
      BY <1>1 DEF NoStale, NoStaleCurl
    <2>2. Quiet(closeFd(s))
      BY <1>1, <2>1, CloseKeeps
    <2>3. \A u \in Passes(s) : Quiet(u)
      BY <1>0, <1>1, <2>1, PassesKeep
    <2>4. Quiet(s')
      BY <1>2, <1>6, <2>2, <2>3 DEF Return
    <2>5. QED
      BY <1>3, <2>4, RestInv
  <1>7. CASE ~Up(s) /\ IsConnected(s, t)
    <2>1. CASE s' = closeFd(t)
      <3>1. Shape(t)
        BY <1>7 DEF IsConnected
      <3>2. IsDown(t, closeFd(t))
        BY <3>1, ShapeClosable, closeFdDown
      <3>3. Quiet(s')
        BY <1>1, <1>7, <2>1, <3>2, BatchReclosed
      <3>4. QED
        BY <1>3, <3>3, RestInv
    <2>2. CASE t.sock[cur] # None /\ \E u \in Passes(t) : Return(u)
      <3>1. cur \notin Reserved
        BY <1>1 DEF Quiet, Shape, Marked
      <3>2. t.sock[cur] = s.sock[cur]
        BY <1>1, <1>7, <3>1 DEF IsConnected
      <3>3. FirstFd \notin Pending(s) /\ Pending(t) = Pending(s)
        BY <1>0, <1>1, <1>7, <2>2, <3>2 DEF IsConnected, Pending
      <3>4. Quiet(t)
        BY <1>1, <1>7, <3>3, BatchConnected DEF Quiet, Shape, IsConnected
      <3>5. pc # "readFromMaster" /\ pc # "readDelValue"
        BY <1>1
      <3>6. \A u \in Passes(t) : Quiet(u)
        BY <1>0, <3>3, <3>4, <3>5, PassesKeep
      <3>7. Quiet(s')
        BY <2>2, <3>6 DEF Return
      <3>8. QED
        BY <1>3, <3>7, RestInv
    <2>3. QED
      BY <1>2, <2>1, <2>2 DEF Return
  <1>8. QED
    BY <1>5, <1>6, <1>7

-----------------------------------------------------------------------------
(* The theorems *)

LEMMA NextInv == Inv /\ [Next]_vars => Inv'
  <1> SUFFICES ASSUME Inv, [Next]_vars PROVE Inv'
    OBVIOUS
  <1>1. CASE \E n \in FdNumbers : PeerActs(n)
    BY <1>1, PeerActsInv
  <1>2. CASE Poll
    BY <1>2, PollInv
  <1>3. CASE Dispatch
    BY <1>3, DispatchInv
  <1>4. CASE timeEvent
    BY <1>4, timeEventInv
  <1>5. CASE acceptTcpHandler
    BY <1>5, acceptTcpHandlerInv
  <1>6. CASE ReadBytes
    BY <1>6, ReadBytesInv
  <1>7. CASE ReadEnd
    BY <1>7, ReadEndInv
  <1>8. CASE ReadStale
    BY <1>8, ReadStaleInv
  <1>9. CASE Exit
    BY <1>9, ExitInv
  <1>10. CASE UNCHANGED vars
    BY <1>10 DEF vars, Inv, Quiet, Running, NeverBlocks, Shape, Batch, IsLoop, Held, Watched,
                 Marked, Placed, BelowClient, AfterDrop, AboveClient, Other, Stale, Up, Pending,
                 Once, NoStale, NoStaleCurl
  <1>11. QED
    BY <1>1, <1>2, <1>3, <1>4, <1>5, <1>6, <1>7, <1>8, <1>9, <1>10 DEF Next

\* The invariant holds for every set of descriptor numbers, also when they run
\* out: the sockets, the globals, epoll's set and ae's table agree but for the
\* events acceptTcpHandler leaves behind, and of a batch of fired events at most
\* one is such an event (event.c, ae.c: aeProcessEvents).
THEOREM LoopInvariant == Spec => []Inv
  BY InitInv, NextInv, PTL DEF Spec

LEMMA InvTypeOK == Inv => TypeOK
  BY DEF Inv, Quiet, Shape, IsLoop, TypeOK

LEMMA InvCalls == Inv => CallsMatchSockets
  BY DEF Inv, Running, CallsMatchSockets

LEMMA InvNeverBlocks == Inv => NeverBlocks
  BY DEF Inv

LEMMA InvNoLeak == Inv => NoLeak
  BY DEF Inv, Quiet, Shape, Held, Watched, NoLeak

LEMMA InvRetryArmed == Inv => RetryArmed
  BY DEF Inv, Quiet, Shape, Held, Globals, RetryArmed

\* Type correctness of the descriptors, the table of events and the globals.
THEOREM LifecycleTypes == Spec => []TypeOK
  BY LoopInvariant, InvTypeOK, PTL

\* aeProcessEvents calls a handler with the descriptor its global holds, whatever
\* was closed and reopened in the same batch; readFromSlave after a failed accept
\* is the one exception.
THEOREM CallsAlwaysMatchSockets == Spec => []CallsMatchSockets
  BY LoopInvariant, InvCalls, PTL

\* readFromSlave and readDelValue do not wait in read, and readFromMaster never
\* reads a new connection for an event of the old one.
THEOREM NeverBlocksInRead == Spec => []NeverBlocks
  BY LoopInvariant, InvNeverBlocks, PTL

\* Every open socket is held by its global and watched, after every error path
\* of event.c, for every set of descriptor numbers.
THEOREM NoDescriptorLeaks == Spec => []NoLeak
  BY LoopInvariant, InvNoLeak, PTL

\* master_fd is -1 or the number of an open connection to the master, so
\* timeEvent reconnects whenever there is none.
THEOREM RetryAlwaysArmed == Spec => []RetryArmed
  BY LoopInvariant, InvRetryArmed, PTL
=============================================================================
