------------------------------ MODULE EventLoop -----------------------------
(***************************************************************************)
(* The file events of src/proxy/ae.c and its epoll backend, as operators   *)
(* on the state s of the process and of the kernel:                        *)
(*   sock      the socket behind every descriptor number, None when free   *)
(*   readable  what a read of it would find: "no", "data" or "eof"         *)
(*   epoll     the descriptors in the kernel's epoll set                   *)
(*   proc      eventLoop->events: the handler, None when mask is AE_NONE   *)
(*   maxfd     eventLoop->maxfd                                            *)
(*   fired     what is left of eventLoop->fired                            *)
(*   fd        the process's own variables that hold descriptors           *)
(*   again     whether the process has reconnected since epoll_wait        *)
(* The proxy watches sockets for AE_READABLE only.                         *)
(***************************************************************************)
EXTENDS Integers, Sequences, FiniteSets, SequencesExt, FiniteSetsExt

CONSTANTS FdNumbers,  \* descriptor numbers the kernel hands out
          None

ASSUME FdAssumption == FdNumbers \subseteq Nat /\ IsFiniteSet(FdNumbers)

\* aeCreateEventLoop, while none of the process's globals holds a descriptor.
EmptyLoop(globals) ==
  [sock     |-> [n \in FdNumbers |-> None],
   readable |-> [n \in FdNumbers |-> "no"],
   epoll    |-> {},
   proc     |-> [n \in FdNumbers |-> None],
   maxfd    |-> -1,
   fired    |-> <<>>,
   fd       |-> [g \in globals |-> -1],
   again    |-> FALSE]

\* The number the kernel gives a new socket: the lowest free one, {} when all
\* are in use.
Lowest(s) ==
  {n \in FdNumbers : s.sock[n] = None /\ \A m \in FdNumbers : m < n => s.sock[m] # None}

Open(s, kind, n) == [s EXCEPT !.sock[n] = kind, !.readable[n] = "no"]

\* close() takes the descriptor out of the epoll set; ae does not know.
Close(s, n) ==
  [s EXCEPT !.sock[n] = None, !.readable[n] = "no", !.epoll = @ \ {n}]

\* aeApiAddEvent: EPOLL_CTL_ADD, or EPOLL_CTL_MOD where ae believes that the
\* descriptor is watched already; the kernel refuses to modify what it has not.
Registers(s, n) == s.proc[n] = None \/ n \in s.epoll

\* aeCreateFileEvent when it succeeds.
aeCreateFileEvent(s, n, handler) ==
  [s EXCEPT !.epoll = @ \union {n}, !.proc[n] = handler,
            !.maxfd = IF n > @ THEN n ELSE @]

\* EPOLL_CTL_DEL; its result is not looked at.
aeApiDelEvent(s, n) == [s EXCEPT !.epoll = @ \ {n}]

\* aeDeleteFileEvent with the search for the new maxfd.
aeDeleteFileEvent(s, n) ==
  IF s.proc[n] = None THEN s
  ELSE [aeApiDelEvent(s, n) EXCEPT
          !.proc[n] = None,
          !.maxfd = IF n = @
                    THEN Max({-1} \union {m \in FdNumbers : m < n /\ s.proc[m] # None})
                    ELSE @]

\* aeApiPoll: what is readable and watched, in the order of the kernel's list.
Ready(s) == {n \in s.epoll : s.readable[n] # "no"}

Polls(s) ==
  {[s EXCEPT !.fired = order] : order \in SetToSeqs(Ready(s))}
=============================================================================
