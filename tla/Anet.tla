-------------------------------- MODULE Anet --------------------------------
(***************************************************************************)
(* Opening sockets in src/proxy/anet.c: anetTcpGenericConnect with its     *)
(* loop over addresses and its retry without a source address,             *)
(* _anetTcpServer with anetListen, and anetTcpAccept.  One step is one     *)
(* system call, or a run of calls of which the first that fails decides.   *)
(* The callers are those of event.c, and the other wrappers of anet.c,     *)
(* which differ in their flags.                                            *)
(***************************************************************************)
EXTENDS Integers, FiniteSets, FiniteSetsExt

CONSTANTS Fds,       \* descriptor numbers
          MaxAddrs   \* bound: addresses getaddrinfo returns

ASSUME FdsAssumption == Fds \subseteq Nat
ASSUME AddrsAssumption == MaxAddrs \in Nat

ANET_ERR == -1

VARIABLES open,   \* open descriptors
          held,   \* those the callers know of
          call,   \* the call that runs: kind and flags
          apc,     \* its next system call, "idle" between calls, "exit"
          addrs,  \* addresses left in servinfo
          sock       \* its local variable

anetVars == <<open, held, call, apc, addrs, sock>>

Calls == [kind : {"connect"}, nonblock : BOOLEAN, source : BOOLEAN, best : BOOLEAN]
           \union [kind : {"server", "accept"}, nonblock : {FALSE}, source : {FALSE},
                   best : {FALSE}]

NoCall == [kind |-> "none", nonblock |-> FALSE, source |-> FALSE, best |-> FALSE]

AnetInit ==
  /\ open = {} /\ held = {} /\ call = NoCall /\ apc = "idle" /\ addrs = 0 /\ sock = ANET_ERR

Free == Fds \ open

Call(c) ==
  /\ apc = "idle"
  /\ call' = c
  /\ apc' = IF c.kind = "accept" THEN "accept" ELSE "resolve"
  /\ sock' = ANET_ERR
  /\ UNCHANGED <<open, held, addrs>>

\* The caller closes a socket it was given.
CloseHeld(n) ==
  /\ apc = "idle"
  /\ n \in held
  /\ open' = open \ {n}
  /\ held' = held \ {n}
  /\ UNCHANGED <<call, apc, addrs, sock>>

\* The call returns.  Without a listening socket the proxy exits (event.c).
Returns(r) ==
  /\ held' = IF r = ANET_ERR THEN held ELSE held \union {r}
  /\ apc' = IF call.kind = "server" /\ r = ANET_ERR THEN "exit" ELSE "idle"

\* getaddrinfo of the address to connect to or to bind.
Resolve ==
  /\ apc = "resolve"
  /\ \/ addrs' \in 1..MaxAddrs /\ apc' = "socket" /\ UNCHANGED held
     \/ Returns(ANET_ERR) /\ addrs' = 0
  /\ UNCHANGED <<open, call, sock>>

\* The head of the loop: the next address and a socket for it, or none left.
Socket ==
  /\ apc = "socket"
  /\ \/ addrs = 0 /\ apc' = "error" /\ UNCHANGED <<open, addrs, sock>>
     \/ /\ addrs > 0
        /\ addrs' = addrs - 1
        /\ \/ sock' = ANET_ERR /\ UNCHANGED <<open, apc>>
           \/ /\ Free # {}
              /\ sock' = Min(Free)
              /\ open' = open \union {sock'}
              /\ apc' = "options"
  /\ UNCHANGED <<held, call>>

\* SO_REUSEADDR, O_NONBLOCK, and for a source address its resolution and bind.
Options ==
  /\ apc = "options"
  /\ apc' \in {"error", IF call.kind = "server" THEN "listen" ELSE "connect"}
  /\ UNCHANGED <<open, held, call, addrs, sock>>

SlipConnect ==
  /\ apc = "connect"
  /\ \/ apc' = "end" /\ UNCHANGED <<open, sock>>
     \/ apc' = "socket" /\ sock' = ANET_ERR /\ UNCHANGED open
  /\ UNCHANGED <<held, call, addrs>>

\* connect: done, or in progress on a non-blocking socket; otherwise the socket
\* is closed and the next address is tried.
Connect ==
  /\ apc = "connect"
  /\ \/ apc' = "end" /\ UNCHANGED <<open, sock>>
     \/ apc' = "socket" /\ open' = open \ {sock} /\ sock' = ANET_ERR
  /\ UNCHANGED <<held, call, addrs>>

\* anetListen: bind and listen; it closes the socket when one fails.
anetListen ==
  /\ apc = "listen"
  /\ \/ apc' = "end" /\ UNCHANGED <<open, sock>>
     \/ apc' = "error" /\ open' = open \ {sock} /\ UNCHANGED sock
  /\ UNCHANGED <<held, call, addrs>>

\* The label error: _anetTcpServer only forgets the socket, which it has not
\* closed if SO_REUSEADDR was refused.
Error ==
  /\ apc = "error"
  /\ open' = IF call.kind = "connect" THEN open \ {sock} ELSE open
  /\ sock' = ANET_ERR
  /\ apc' = "end"
  /\ UNCHANGED <<held, call, addrs>>

\* The label end: best effort binding tries again without a source address.
End ==
  /\ apc = "end"
  /\ IF sock = ANET_ERR /\ call.source /\ call.best
     THEN call' = [call EXCEPT !.source = FALSE] /\ apc' = "resolve" /\ UNCHANGED held
     ELSE Returns(sock) /\ UNCHANGED call
  /\ UNCHANGED <<open, addrs, sock>>

\* anetTcpAccept: accept again after EINTR.
Accept ==
  /\ apc = "accept"
  /\ \/ UNCHANGED anetVars
     \/ Returns(ANET_ERR) /\ UNCHANGED <<open, call, addrs, sock>>
     \/ /\ Free # {}
        /\ sock' = Min(Free)
        /\ open' = open \union {sock'}
        /\ Returns(sock')
        /\ UNCHANGED <<call, addrs>>

AnetNext ==
  \/ \E c \in Calls : Call(c)
  \/ \E n \in Fds : CloseHeld(n)
  \/ Resolve \/ Socket \/ Options \/ Connect \/ anetListen \/ Error \/ End \/ Accept

AnetSpec == AnetInit /\ [][AnetNext]_anetVars

-----------------------------------------------------------------------------
(* Properties *)

\* Whatever system call fails and however many addresses are tried, when a call
\* has returned the open sockets are those its callers were given: none is lost
\* and none was closed under them (the labels error and end of anet.c).
NoStraySocket == apc = "idle" => open = held
=============================================================================
