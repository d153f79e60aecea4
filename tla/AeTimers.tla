------------------------------ MODULE AeTimers ------------------------------
(***************************************************************************)
(* The time events of src/proxy/ae.c as the proxy uses them: timeEvent     *)
(* calls itself back every tenth of a second and tries to connect to the   *)
(* master in every tenth call, closeFd replaces the timer.  Times are in   *)
(* ticks; the clock is the system's, which can be set back, while          *)
(* epoll_wait measures its timeout by a clock that cannot.                 *)
(***************************************************************************)
EXTENDS Integers, Sequences, FiniteSets, SequencesExt

CONSTANTS Second,        \* ticks in a second (1000)
          Period,        \* ticks from one call of timeEvent to the next (100)
          MaxClock,      \* bound: last value of the clock
          HandlerTicks,  \* bound: ticks a handler, or a connect, takes
          MaxSetbacks,   \* bound: times the clock is set back
          MaxCloses,     \* bound: calls of closeFd
          InWindow,      \* what may happen between the time events and epoll_wait
          MaxLost        \* bound: ticks lost in that window

ASSUME TimerAssumption ==
  /\ Period \in Nat \ {0} /\ Second \in Nat /\ Second > Period /\ Second % Period = 0
  /\ MaxClock \in Nat /\ HandlerTicks \in Nat /\ MaxSetbacks \in Nat /\ MaxCloses \in Nat
  /\ MaxLost \in Nat
  /\ InWindow \subseteq {"tick", "setback"}

VARIABLES
  clock,          \* gettimeofday
  timers,         \* the list at timeEventHead
  nextId,         \* timeEventNextId
  lastTime,       \* seconds, of the last pass
  time_event_id,  \* the proxy's
  cronloops,      \* modulo the calls in a second
  down,           \* master_fd = -1
  tpc,             \* "loop", "sleeping", "handler", "pass", "timers"
  left,           \* ticks until epoll_wait times out, or left to the handler
  maxId,          \* of the pass
  since,          \* ticks the link has been down without an attempt
  setbacks, lost  \* counters for the bounds

timerVars == <<clock, timers, nextId, lastTime, time_event_id, cronloops, down, tpc, left,
          maxId, since, setbacks, lost>>

Sec(t) == t \div Second
Ms(t) == t % Second

-----------------------------------------------------------------------------
(* ae.c *)

\* aeAddMillisecondsToNow: the carry is at most one second.
aeAddMillisecondsToNow(now, n) ==
  LET sec == Sec(now) + (n \div Second)
      ms == Ms(now) + (n % Second)
  IN  IF ms >= Second THEN [sec |-> sec + 1, ms |-> ms - Second] ELSE [sec |-> sec, ms |-> ms]

\* aeCreateTimeEvent puts the new event at the head.
aeCreateTimeEvent(list, id, now, n) ==
  <<[id |-> id, when |-> aeAddMillisecondsToNow(now, n)]>> \o list

\* aeDeleteTimeEvent unlinks the first event with the number, if there is one.
aeDeleteTimeEvent(list, id) ==
  LET at == {i \in DOMAIN list : list[i].id = id}
  IN  IF at = {} THEN list ELSE RemoveAt(list, CHOOSE i \in at : \A j \in at : i <= j)

Before(w, v) == w.sec < v.sec \/ (w.sec = v.sec /\ w.ms < v.ms)

\* aeSearchNearestTimer: the first of the earliest.
aeSearchNearestTimer(list) ==
  list[CHOOSE i \in DOMAIN list :
         \A j \in DOMAIN list : /\ ~Before(list[j].when, list[i].when)
                                /\ j < i => Before(list[i].when, list[j].when)]

\* aeProcessEvents: the timeout for epoll_wait, seconds and the rest each cut
\* off at 0.
Timeout(when, now) ==
  LET borrow == when.ms < Ms(now)
      sec == when.sec - Sec(now) - (IF borrow THEN 1 ELSE 0)
      ms == when.ms - Ms(now) + (IF borrow THEN Second ELSE 0)
  IN  (IF sec < 0 THEN 0 ELSE sec) * Second + ms

IsDue(when, now) == Sec(now) > when.sec \/ (Sec(now) = when.sec /\ Ms(now) >= when.ms)

SlipForceAll(list, now) == list

\* processTimeEvents: all timers are made due when the clock was set back.
ForceAll(list, now) ==
  IF Sec(now) < lastTime
  THEN [i \in DOMAIN list |-> [list[i] EXCEPT !.when.sec = 0]] ELSE list

-----------------------------------------------------------------------------

\* main, at a time with enough past to set the clock back.
TimerInit ==
  /\ clock = 2 * Second
  /\ timers = aeCreateTimeEvent(<<>>, 0, clock, 1)
  /\ nextId = 1 /\ time_event_id = 0 /\ lastTime = 2
  /\ cronloops = 0 /\ down = FALSE /\ tpc = "loop" /\ left = 0 /\ maxId = 0
  /\ since = 0 /\ setbacks = 0 /\ lost = 0

listVars == <<timers, nextId, time_event_id, cronloops>>

\* One tick passes: in epoll_wait, in a handler, or by preemption in the window.
Tick ==
  /\ clock < MaxClock
  /\ \/ tpc \in {"sleeping", "handler"} /\ left > 0 /\ left' = left - 1 /\ UNCHANGED lost
     \/ tpc = "loop" /\ "tick" \in InWindow /\ lost < MaxLost /\ lost' = lost + 1
        /\ UNCHANGED left
  /\ clock' = clock + 1
  /\ since' = IF down THEN since + 1 ELSE 0
  /\ UNCHANGED <<listVars, lastTime, down, tpc, maxId, setbacks>>

\* The clock is set back, to within the second after the epoch at the earliest.
SetBack ==
  /\ setbacks < MaxSetbacks
  /\ tpc \in {"sleeping", "handler"} \/ (tpc = "loop" /\ "setback" \in InWindow)
  /\ clock' \in Second..(clock - 1)
  /\ setbacks' = setbacks + 1
  /\ UNCHANGED <<listVars, lastTime, down, tpc, left, maxId, since, lost>>

\* aeProcessEvents until epoll_wait.
Sleep ==
  /\ tpc = "loop"
  /\ tpc' = "sleeping"
  /\ left' = Timeout(aeSearchNearestTimer(timers).when, clock)
  /\ UNCHANGED <<clock, listVars, lastTime, down, maxId, since, setbacks, lost>>

\* epoll_wait returns with an event; there is none without a connection.
Wake ==
  /\ tpc = "sleeping"
  /\ ~down
  /\ tpc' = "handler"
  /\ left' = HandlerTicks
  /\ UNCHANGED <<clock, listVars, lastTime, down, maxId, since, setbacks, lost>>

\* epoll_wait returns without one.
TimedOut ==
  /\ tpc = "sleeping"
  /\ left = 0
  /\ tpc' = "pass"
  /\ UNCHANGED <<clock, listVars, lastTime, down, left, maxId, since, setbacks, lost>>

\* A file event handler is done.
Handled ==
  /\ tpc = "handler"
  /\ tpc' = "pass"
  /\ UNCHANGED <<clock, listVars, lastTime, down, left, maxId, since, setbacks, lost>>

SlipReset ==
  /\ tpc = "handler"
  /\ timers' = aeCreateTimeEvent(timers, nextId, clock, 1)
  /\ time_event_id' = nextId
  /\ nextId' = nextId + 1
  /\ down' = TRUE
  /\ UNCHANGED <<clock, cronloops, lastTime, tpc, left, maxId, since, setbacks, lost>>

\* closeFd, in the middle of a handler, possibly more than once.
closeFdTimer ==
  /\ tpc = "handler"
  /\ nextId <= MaxCloses
  /\ timers' = aeCreateTimeEvent(aeDeleteTimeEvent(timers, time_event_id), nextId, clock, 1)
  /\ time_event_id' = nextId
  /\ nextId' = nextId + 1
  /\ down' = TRUE
  /\ UNCHANGED <<clock, cronloops, lastTime, tpc, left, maxId, since, setbacks, lost>>

\* processTimeEvents until its loop.
PassBegins ==
  /\ tpc = "pass"
  /\ timers' = ForceAll(timers, clock)
  /\ lastTime' = Sec(clock)
  /\ maxId' = nextId - 1
  /\ tpc' = "timers"
  /\ UNCHANGED <<clock, nextId, time_event_id, cronloops, down, left, since, setbacks, lost>>

DueTimers == {i \in DOMAIN timers : timers[i].id <= maxId /\ IsDue(timers[i].when, clock)}

\* run_with_period(1000) of event.h.
Attempts == down /\ cronloops % (Second \div Period) = 0

SlipReturned == Second

\* What timeEvent returns: when it wants to be called again.
Returned == Period

\* The loop of processTimeEvents calls timeEvent and starts again at the head.
\* A connect takes its time and succeeds or not.
timeEventCall ==
  /\ tpc = "timers"
  /\ DueTimers # {}
  /\ LET i == CHOOSE j \in DueTimers : \A k \in DueTimers : j <= k
     IN  \E d \in IF Attempts THEN 0..HandlerTicks ELSE {0} :
           /\ clock + d <= MaxClock
           /\ clock' = clock + d
           /\ timers' = [timers EXCEPT ![i].when = aeAddMillisecondsToNow(clock', Returned)]
  /\ down' \in IF Attempts THEN BOOLEAN ELSE {down}
  /\ since' = IF Attempts THEN 0 ELSE since
  /\ cronloops' = (cronloops + 1) % (Second \div Period)
  /\ UNCHANGED <<nextId, time_event_id, lastTime, tpc, left, maxId, setbacks, lost>>

PassEnds ==
  /\ tpc = "timers"
  /\ DueTimers = {}
  /\ tpc' = "loop"
  /\ UNCHANGED <<clock, listVars, lastTime, down, left, maxId, since, setbacks, lost>>

TimerNext ==
  \/ Tick \/ SetBack \/ Sleep \/ Wake \/ TimedOut \/ Handled \/ closeFdTimer
  \/ PassBegins \/ timeEventCall \/ PassEnds

TimerSpec == TimerInit /\ [][TimerNext]_timerVars

-----------------------------------------------------------------------------
(* Properties *)

\* Whatever the handlers do, the proxy has one timer and time_event_id names it
\* (closeFd deletes by number and creates; timeEvent re-arms).
OneTimer == Len(timers) = 1 /\ timers[1].id = time_event_id

\* However far and often the clock was set back while the process slept or ran a
\* handler, epoll_wait is not asked to sleep longer than two seconds, two handlers and
\* the ticks lost on the way to it: the second that processTimeEvents cannot see,
\* because it compares seconds with those of the last pass, a second of sleep, because
\* Timeout takes a timer that is overdue by less than one for one that is due within
\* the next, the connect in timeEvent, and the handler whose closeFd set the timer.
SleepBounded == tpc = "sleeping" => left < 2 * Second + 2 * HandlerTicks + lost

\* Without a link, timeEvent tries to connect within a second of the end of the
\* handler that lost it; a lost tick can cost another second
\* (event.c: reconnect every 1 second).
AttemptEverySecond == setbacks = 0 => since <= Second * (1 + lost) + HandlerTicks
=============================================================================
