---------------------------- MODULE EventsProofs ----------------------------
(***************************************************************************)
(* Proofs about what the event loop drives: the timers of ae.c, the        *)
(* replication stream, the search for DELs in it and the sockets of        *)
(* anet.c.  They share no state.                                           *)
(***************************************************************************)
EXTENDS AeTimers, ReplSync, DelScanner, Anet, NatSets, SequenceTheorems

-----------------------------------------------------------------------------
(* The time events of ae.c, for every clock, period and number of closeFd  *)
(* calls: there is one timer, it bounds every sleep, and it brings an      *)
(* attempt to connect every second.  Times are compared in ticks, At,      *)
(* instead of the seconds and milliseconds of the code.                    *)

\* The list holds one event, with the number the proxy remembers.
OneEvent == \E w : timers = <<[id |-> time_event_id, when |-> w]>>

\* Creating an event in an empty list (main, and closeFd after the deletion).
LEMMA CreateInEmpty ==
  ASSUME NEW id, NEW now, NEW n
  PROVE  aeCreateTimeEvent(<<>>, id, now, n)
           = <<[id |-> id, when |-> aeAddMillisecondsToNow(now, n)]>>
  BY DEF aeCreateTimeEvent

\* aeDeleteTimeEvent finds the only event by its number.
LEMMA DeleteOnly ==
  ASSUME NEW id, NEW w
  PROVE  aeDeleteTimeEvent(<<[id |-> id, when |-> w]>>, id) = <<>>
  <1> DEFINE list == <<[id |-> id, when |-> w]>>
             at == {i \in DOMAIN list : list[i].id = id}
  <1>1. at = {1}
    OBVIOUS
  <1>2. (CHOOSE i \in at : \A j \in at : i <= j) = 1
    BY <1>1
  <1>3. RemoveAt(list, 1) = <<>>
    BY DEF RemoveAt
  <1>4. QED
    BY <1>1, <1>2, <1>3 DEF aeDeleteTimeEvent

LEMMA OneEventInit == TimerInit => OneEvent
  BY CreateInEmpty DEF TimerInit, OneEvent

\* Only closeFd, processTimeEvents and timeEvent touch the list.
LEMMA OneEventNext == OneEvent /\ [TimerNext]_timerVars => OneEvent'
  <1> SUFFICES ASSUME OneEvent, [TimerNext]_timerVars
               PROVE  OneEvent'
    OBVIOUS
  <1>0. PICK w : timers = <<[id |-> time_event_id, when |-> w]>>
    BY DEF OneEvent
  <1>1. CASE closeFdTimer
    <2>1. timers' = aeCreateTimeEvent(<<>>, nextId, clock, 1) /\ time_event_id' = nextId
      BY <1>0, <1>1, DeleteOnly DEF closeFdTimer
    <2>2. QED
      BY <2>1, CreateInEmpty DEF OneEvent
  <1>2. CASE PassBegins
    <2>1. time_event_id' = time_event_id /\ timers' = ForceAll(timers, clock)
      BY <1>2 DEF PassBegins
    <2>2. CASE Sec(clock) < lastTime
      <3>1. timers' = [i \in DOMAIN timers |-> [timers[i] EXCEPT !.when.sec = 0]]
        BY <2>1, <2>2 DEF ForceAll
      <3>2. timers' = <<[id |-> time_event_id, when |-> [w EXCEPT !.sec = 0]]>>
        BY <1>0, <3>1
      <3>3. QED
        BY <2>1, <3>2 DEF OneEvent
    <2>3. CASE ~(Sec(clock) < lastTime)
      BY <1>0, <2>1, <2>3 DEF ForceAll, OneEvent
    <2>4. QED
      BY <2>2, <2>3
  <1>3. CASE timeEventCall
    <2> DEFINE i == CHOOSE j \in DueTimers : \A k \in DueTimers : j <= k
               v == aeAddMillisecondsToNow(clock', Returned)
    <2>1. /\ DueTimers # {} /\ time_event_id' = time_event_id
          /\ timers' = [timers EXCEPT ![i].when = v]
      BY <1>3 DEF timeEventCall
    <2>2. DueTimers = {1}
      BY <1>0, <2>1 DEF DueTimers
    <2>3. i = 1
      BY <2>2
    <2>4. timers' = <<[id |-> time_event_id, when |-> v]>>
      <3> HIDE DEF i, v
      <3> QED
        BY <1>0, <2>1, <2>3
    <2>5. QED
      BY <2>1, <2>4 DEF OneEvent
  <1>4. CASE Tick \/ SetBack \/ Sleep \/ Wake \/ TimedOut \/ Handled \/ PassEnds
             \/ UNCHANGED timerVars
    <2>1. UNCHANGED <<timers, time_event_id>>
      BY <1>4 DEF Tick, SetBack, Sleep, Wake, TimedOut, Handled, PassEnds, timerVars, listVars
    <2>2. QED
      BY <2>1 DEF OneEvent
  <1>5. QED
    BY <1>1, <1>2, <1>3, <1>4 DEF TimerNext

\* The proxy always has one timer and time_event_id names it: closeFd deletes
\* the right one, however often it is called before the next pass.
THEOREM AlwaysOneTimer == TimerSpec => []OneTimer
  <1>1. TimerSpec => []OneEvent
    BY OneEventInit, OneEventNext, PTL DEF TimerSpec
  <1>2. OneEvent => OneTimer
    BY DEF OneEvent, OneTimer
  <1>3. QED
    BY <1>1, <1>2, PTL

\* A time as ae.c keeps it, in ticks.
At(w) == Second * w.sec + w.ms
WhenType(w) == w \in [sec : Nat, ms : 0 .. Second - 1]

\* The time of the only event, and the second of the last pass, in ticks.
Next1 == timers[1].when
Due == At(Next1)
LastPass == Second * lastTime

\* CallsASecond of timeEvent in a second, and what is left of the second before the one
\* that may connect.
CallsASecond == Second \div Period
Pending == IF cronloops = 0 THEN 0 ELSE Second - Period * cronloops

\* The other variables: what they hold, and that a pass calls every timer.
Counters ==
  /\ time_event_id = nextId - 1 /\ nextId \in Nat \ {0}
  /\ clock \in Nat /\ clock >= Second /\ lastTime \in Nat
  /\ left \in Nat /\ lost \in Nat /\ since \in Nat /\ setbacks \in Nat
  /\ down \in BOOLEAN
  /\ cronloops \in 0 .. CallsASecond - 1
  /\ tpc \in {"loop", "sleeping", "handler", "pass", "timers"}
  /\ tpc = "timers" => maxId = nextId - 1

\* The type invariant: one event, whose time is a time.
TimerType == OneEvent /\ WhenType(Next1) /\ Counters

\* What the timer, the clock and the end of the sleep may be ahead of the second
\* of the last pass, the only time processTimeEvents can compare the clock with.
\* With a link up nothing but timeEvent set the timer, at a clock that had been
\* compared; a handler can sleep and then set the timer by a clock that was not.
AheadBounded ==
  /\ Due - LastPass < 2 * Second + 2 * HandlerTicks + lost
  /\ ~down => Due - LastPass <= 2 * Second - 2 + HandlerTicks
  /\ tpc = "loop" => /\ LastPass <= clock
                     /\ clock - LastPass <= Second - 1 + HandlerTicks + lost
  /\ tpc = "sleeping" => left < 2 * Second + 2 * HandlerTicks + lost
  /\ tpc = "sleeping" /\ ~down =>
       clock - LastPass + left <= 2 * Second - 2 + HandlerTicks + lost
  /\ tpc = "handler" => clock - LastPass + left <= 2 * Second - 2 + 2 * HandlerTicks + lost
  /\ tpc = "timers" =>
       /\ LastPass <= clock
       /\ clock - LastPass <= Second - 1 + (IF Due <= clock THEN 0 ELSE HandlerTicks)

\* The longest the clock can go on before timeEvent is called: a timer overdue by
\* less than a second still sleeps for up to a second, because aeProcessEvents
\* borrows a second from 0.
Wait ==
  CASE tpc = "sleeping" -> left
    [] tpc = "loop" /\ Due < clock -> Second - 1
    [] OTHER -> IF Due < clock THEN 0 ELSE Due - clock

\* The time without an attempt, what may pass until the next call and what the
\* calls after it need to reach the one that connects, add up to a second; a tick
\* lost in the window can cost one more.
AttemptDue ==
  /\ ~down => since = 0
  /\ tpc = "handler" => since + left <= HandlerTicks
  /\ tpc = "sleeping" => Due <= clock + left
  /\ down /\ tpc = "handler" => Due <= clock + 1
  /\ down /\ tpc # "handler" => since + Wait + Pending <= Second + HandlerTicks + Second * lost

AttemptInv == setbacks = 0 => AttemptDue


\* The clock's seconds and the rest.
LEMMA InSeconds ==
  ASSUME NEW t \in Nat
  PROVE  Sec(t) \in Nat /\ Ms(t) \in 0 .. Second - 1 /\ t = Second * Sec(t) + Ms(t)
  <1>1. Second \in Nat \ {0}
    BY TimerAssumption
  <1>2. QED
    BY <1>1 DEF Sec, Ms

\* A second more is a second's worth of ticks more.
LEMMA MulMono ==
  ASSUME NEW a \in Int, NEW b \in Int, NEW s \in Nat, a < b
  PROVE  s * a + s <= s * b
  OBVIOUS

\* processTimeEvents compares seconds, then the rest: it compares ticks.
LEMMA IsDueWhen ==
  ASSUME NEW w, WhenType(w), NEW now \in Nat
  PROVE  IsDue(w, now) <=> At(w) <= now
  <1> DEFINE sec == Sec(now)
             ms == Ms(now)
  <1>1. /\ sec \in Nat /\ ms \in 0 .. Second - 1 /\ now = Second * sec + ms
        /\ w.sec \in Nat /\ w.ms \in 0 .. Second - 1 /\ Second \in Nat
    BY InSeconds, TimerAssumption DEF WhenType
  <1>2. sec > w.sec => Second * w.sec + Second <= Second * sec
    BY <1>1, MulMono
  <1>3. sec < w.sec => Second * sec + Second <= Second * w.sec
    BY <1>1, MulMono
  <1>4. sec = w.sec => Second * sec = Second * w.sec
    OBVIOUS
  <1> HIDE DEF sec, ms
  <1> DEFINE x == Second * sec
             y == Second * w.sec
  <1>5. x \in Int /\ y \in Int /\ now = x + ms /\ At(w) = y + w.ms
    BY <1>1 DEF At
  <1>6. (sec > w.sec => y + Second <= x) /\ (sec < w.sec => x + Second <= y) /\ (sec = w.sec => x = y)
    BY <1>2, <1>3, <1>4
  <1>7. IsDue(w, now) <=> sec > w.sec \/ (sec = w.sec /\ ms >= w.ms)
    BY DEF IsDue, sec, ms
  <1> HIDE DEF x, y
  <1>8. QED
    BY <1>1, <1>5, <1>6, <1>7

\* An event is set n ticks ahead, the carry being at most one second.
\* aeAddMillisecondsToNow adds, with its carry.
LEMMA AddedTicks ==
  ASSUME NEW now \in Nat, NEW n \in Nat, n < Second
  PROVE  /\ WhenType(aeAddMillisecondsToNow(now, n))
         /\ At(aeAddMillisecondsToNow(now, n)) = now + n
  <1>1. PICK q \in Nat, r \in 0 .. Second - 1 :
               q = Sec(now) /\ r = Ms(now) /\ now = Second * q + r
    BY InSeconds
  <1>2. n \div Second = 0 /\ n % Second = n /\ Second \in Nat \ {0}
    BY TimerAssumption
  <1>3. Second * (q + 1) = Second * q + Second
    BY <1>2
  <1>4. Sec(now) + (n \div Second) = q /\ Ms(now) + (n % Second) = r + n
    BY <1>1, <1>2
  <1> DEFINE x == Second * q
             w == aeAddMillisecondsToNow(now, n)
  <1>5. x \in Nat /\ now = x + r
    BY <1>1, <1>2
  <1>6. CASE r + n >= Second
    <2>1. w = [sec |-> q + 1, ms |-> (r + n) - Second]
      BY <1>4, <1>6 DEF aeAddMillisecondsToNow
    <2>2. w.sec = q + 1 /\ w.ms = (r + n) - Second
      BY <2>1
    <2>0. WhenType(w)
      BY <1>1, <1>2, <1>6, <2>1 DEF WhenType
    <2> HIDE DEF w, x
    <2>3. At(w) = x + Second + ((r + n) - Second)
      BY <1>3, <2>2 DEF At, x
    <2>4. QED
      BY <1>2, <1>5, <1>6, <2>0, <2>3 DEF w
  <1>7. CASE ~(r + n >= Second)
    <2>1. w = [sec |-> q, ms |-> r + n]
      BY <1>4, <1>7 DEF aeAddMillisecondsToNow
    <2>2. w.sec = q /\ w.ms = r + n
      BY <2>1
    <2>0. WhenType(w)
      BY <1>1, <1>2, <1>7, <2>1 DEF WhenType
    <2> HIDE DEF w, x
    <2>3. At(w) = x + (r + n)
      BY <2>2 DEF At, x
    <2>4. QED
      BY <1>2, <1>5, <1>7, <2>0, <2>3 DEF w
  <1>8. QED
    BY <1>6, <1>7

\* The timeout is exact for an event to come, and less than a second for one that
\* is overdue.
\* The timeout of aeProcessEvents is what is left, or less than a second when the
\* timer is overdue.
LEMMA TimeoutWhen ==
  ASSUME NEW w, WhenType(w), NEW now \in Nat
  PROVE  /\ Timeout(w, now) \in Nat
         /\ now <= At(w) => Timeout(w, now) = At(w) - now
         /\ At(w) < now => Timeout(w, now) < Second
  <1> DEFINE sec == Sec(now)
             ms == Ms(now)
             d == w.sec - sec - (IF w.ms < ms THEN 1 ELSE 0)
             r == w.ms - ms + (IF w.ms < ms THEN Second ELSE 0)
             x == Second * sec
             y == Second * w.sec
  <1>1. /\ sec \in Nat /\ ms \in 0 .. Second - 1 /\ now = x + ms
        /\ w.sec \in Nat /\ w.ms \in 0 .. Second - 1 /\ Second \in Nat
    BY InSeconds, TimerAssumption DEF WhenType
  <1>2. d \in Int /\ r \in 0 .. Second - 1 /\ x \in Nat /\ y \in Nat
    BY <1>1
  <1>3. Second * d = y - x - (IF w.ms < ms THEN Second ELSE 0)
    <2> HIDE DEF sec, ms
    <2>1. CASE w.ms < ms
      <3>1. d = w.sec - sec - 1
        BY <1>1, <2>1
      <3>2. Second * (w.sec - sec - 1) = Second * w.sec - Second * sec - Second
        BY <1>1
      <3>3. QED
        BY <2>1, <3>1, <3>2
    <2>2. CASE ~(w.ms < ms)
      <3>1. d = w.sec - sec
        BY <1>1, <2>2
      <3>2. Second * (w.sec - sec) = Second * w.sec - Second * sec
        BY <1>1
      <3>3. QED
        BY <1>2, <2>2, <3>1, <3>2
    <2>3. QED
      BY <2>1, <2>2
  <1>4. Second * d + r = At(w) - now
    <2>1. At(w) = y + w.ms
      BY DEF At
    <2> HIDE DEF x, y, sec, ms, d
    <2>2. QED
      BY <1>1, <1>2, <1>3, <2>1
  <1>5. Timeout(w, now) = (IF d < 0 THEN 0 ELSE d) * Second + r
    BY DEF Timeout
  <1> DEFINE z == Second * d
  <1>6. d < 0 => z + Second <= 0
    <2> HIDE DEF d
    <2> QED
      BY <1>1, <1>2, MulMono
  <1>7. d >= 0 => z >= 0 /\ d * Second = z
    <2> HIDE DEF d
    <2> QED
      BY <1>1, <1>2
  <1>8. z \in Int /\ At(w) \in Int
    <2> HIDE DEF d
    <2> QED
      BY <1>1, <1>2 DEF At
  <1> HIDE DEF d, r, x, y, sec, ms, z
  <1>9. CASE d < 0
    <2>1. Timeout(w, now) = r
      BY <1>1, <1>2, <1>5, <1>9
    <2>2. At(w) < now
      BY <1>1, <1>2, <1>4, <1>6, <1>8, <1>9 DEF z
    <2>3. QED
      BY <1>1, <1>2, <1>8, <2>1, <2>2
  <1>10. CASE d >= 0
    <2>1. Timeout(w, now) = z + r
      BY <1>2, <1>5, <1>7, <1>10
    <2>2. z + r = At(w) - now /\ z >= 0
      BY <1>4, <1>7, <1>10 DEF z
    <2>3. QED
      BY <1>1, <1>2, <1>8, <2>1, <2>2
  <1>11. QED
    BY <1>2, <1>9, <1>10


\* The calls in a second.
LEMMA CallsInSecond ==
  /\ CallsASecond \in Nat /\ CallsASecond >= 2 /\ Period * CallsASecond = Second
  /\ Second \in Nat /\ Second >= 2 /\ Period \in Nat \ {0} /\ Period < Second
  /\ HandlerTicks \in Nat
  <1>1. /\ Period \in Nat \ {0} /\ Second \in Nat /\ Second > Period /\ Second % Period = 0
        /\ HandlerTicks \in Nat
    BY TimerAssumption
  <1>2. CallsASecond \in Nat /\ Second = Period * CallsASecond
    BY <1>1 DEF CallsASecond
  <1>3. CallsASecond # 0 /\ CallsASecond # 1
    <2>1. ASSUME CallsASecond = 0 PROVE FALSE
      <3>1. Period * CallsASecond = 0
        BY <1>1, <2>1
      <3>2. QED
        BY <1>1, <1>2, <3>1
    <2>2. ASSUME CallsASecond = 1 PROVE FALSE
      <3>1. Period * CallsASecond = Period
        BY <1>1, <2>2
      <3>2. QED
        BY <1>1, <1>2, <3>1
    <2>3. QED
      BY <2>1, <2>2
  <1>4. QED
    BY <1>1, <1>2, <1>3

\* What is pending of the second, from one call to the next.
\* A call takes a period off what is left of the second.
LEMMA PendingStep ==
  ASSUME cronloops \in 0 .. CallsASecond - 1, cronloops' = (cronloops + 1) % CallsASecond
  PROVE  /\ cronloops' \in 0 .. CallsASecond - 1
         /\ Pending \in 0 .. Second - Period /\ Pending' \in 0 .. Second - Period
         /\ cronloops # 0 => Pending' = Pending - Period
  <1>1. ASSUME NEW c \in 1 .. CallsASecond - 1 PROVE Second - Period * c \in Period .. Second - Period
    <2>1. Period * 1 <= Period * c /\ Period * c + Period <= Period * CallsASecond
      <3>1. c = 1 \/ 1 < c
        OBVIOUS
      <3>2. Period \in Nat /\ c < CallsASecond /\ CallsASecond \in Int
        BY CallsInSecond
      <3>3. 1 < c => Period * 1 + Period <= Period * c
        BY <3>2, MulMono
      <3>4. Period * c + Period <= Period * CallsASecond
        BY <3>2, MulMono
      <3>5. Period * 1 \in Nat /\ Period * c \in Nat
        BY <3>2
      <3>6. QED
        BY <3>1, <3>2, <3>3, <3>4, <3>5
    <2> DEFINE z == Period * c
    <2>2. z \in Nat /\ Period * 1 = Period
      BY CallsInSecond
    <2> HIDE DEF z
    <2>3. QED
      BY <2>1, <2>2, CallsInSecond DEF z
  <1>2. cronloops' = IF cronloops = CallsASecond - 1 THEN 0 ELSE cronloops + 1
    BY CallsInSecond
  <1>3. cronloops' \in 0 .. CallsASecond - 1
    BY <1>2, CallsInSecond
  <1>4. /\ cronloops # 0 => cronloops \in 1 .. CallsASecond - 1
        /\ cronloops' # 0 => cronloops' \in 1 .. CallsASecond - 1
    BY <1>3, CallsInSecond
  <1>5. Pending \in 0 .. Second - Period /\ Pending' \in 0 .. Second - Period
    <2>1. Pending \in 0 .. Second - Period
      BY <1>1, <1>4, CallsInSecond DEF Pending
    <2>2. Pending' \in 0 .. Second - Period
      BY <1>1, <1>4, CallsInSecond DEF Pending
    <2>3. QED
      BY <2>1, <2>2
  <1>6. ASSUME cronloops # 0 PROVE Pending' = Pending - Period
    <2> DEFINE z == Period * cronloops
    <2>1. Pending = Second - z /\ z \in Nat
      BY <1>6, CallsInSecond DEF Pending
    <2>2. CASE cronloops = CallsASecond - 1
      <3>1. z = Period * CallsASecond - Period
        BY <2>2, CallsInSecond
      <3>2. Pending' = 0
        BY <1>2, <2>2 DEF Pending
      <3> HIDE DEF z
      <3>3. QED
        BY <2>1, <3>1, <3>2, CallsInSecond
    <2>3. CASE cronloops # CallsASecond - 1
      <3>1. cronloops' = cronloops + 1
        BY <1>2, <2>3
      <3>2. Period * (cronloops + 1) = z + Period
        BY CallsInSecond
      <3>3. Pending' = Second - (z + Period)
        BY <3>1, <3>2, <1>6 DEF Pending
      <3> HIDE DEF z
      <3>4. QED
        BY <2>1, <3>3, CallsInSecond
    <2>4. QED
      BY <2>2, <2>3
  <1>7. QED
    BY <1>3, <1>5, <1>6

\* With one event the nearest timer is that event.
\* aeSearchNearestTimer finds the only timer.
LEMMA NearestOnly ==
  ASSUME OneEvent, WhenType(Next1)
  PROVE  aeSearchNearestTimer(timers).when = Next1
  <1> DEFINE First(i) == \A j \in DOMAIN timers :
                           /\ ~Before(timers[j].when, timers[i].when)
                           /\ j < i => Before(timers[i].when, timers[j].when)
  <1>1. DOMAIN timers = {1}
    BY DEF OneEvent
  <1>2. ~Before(Next1, Next1)
    BY DEF Before, WhenType
  <1>3. First(1)
    BY <1>1, <1>2 DEF Next1
  <1>4. (CHOOSE i \in DOMAIN timers : First(i)) = 1
    <2> HIDE DEF First
    <2> QED
      BY <1>1, <1>3
  <1>5. aeSearchNearestTimer(timers) = timers[CHOOSE i \in DOMAIN timers : First(i)]
    BY DEF aeSearchNearestTimer
  <1>6. QED
    BY <1>4, <1>5 DEF Next1

\* What closeFd leaves in the list.
\* closeFd replaces the timer by one that is due in a tick.
LEMMA ClosedTimer ==
  ASSUME TimerType, closeFdTimer
  PROVE  /\ OneEvent' /\ WhenType(Next1)' /\ Due' = clock + 1
         /\ time_event_id' = nextId' - 1 /\ nextId' = nextId + 1
         /\ UNCHANGED <<clock, cronloops, lastTime, tpc, left, maxId, since, setbacks, lost>>
         /\ tpc = "handler" /\ down' = TRUE
  <1>1. PICK w : timers = <<[id |-> time_event_id, when |-> w]>>
    BY DEF TimerType, OneEvent
  <1>2. timers' = <<[id |-> nextId, when |-> aeAddMillisecondsToNow(clock, 1)]>>
        /\ time_event_id' = nextId
    BY <1>1, DeleteOnly, CreateInEmpty DEF closeFdTimer
  <1>3. Next1' = aeAddMillisecondsToNow(clock, 1)
    BY <1>2 DEF Next1
  <1>4. 1 \in Nat /\ 1 < Second /\ clock \in Nat
    BY CallsInSecond DEF TimerType, Counters
  <1>5. WhenType(Next1)' /\ Due' = clock + 1
    BY <1>3, <1>4, AddedTicks DEF Due, WhenType, At
  <1>6. nextId' = nextId + 1 /\ nextId \in Nat
    BY DEF closeFdTimer, TimerType, Counters
  <1>7. QED
    BY <1>2, <1>5, <1>6 DEF OneEvent, closeFdTimer

\* A pass makes the timer due when it finds the clock set back by a second.
\* A pass starts from a clock less than a second after the second it notes, and
\* makes the timer due when that second is behind the one of the last pass.
LEMMA PassTimer ==
  ASSUME TimerType, PassBegins
  PROVE  /\ OneEvent' /\ WhenType(Next1)'
         /\ lastTime' \in Nat /\ LastPass' <= clock /\ clock - LastPass' < Second
         /\ LastPass' >= Second /\ LastPass' \in Nat
         /\ \/ Due' < Second
            \/ Due' = Due /\ LastPass' >= LastPass
         /\ tpc = "pass" /\ tpc' = "timers" /\ maxId' = nextId - 1
         /\ UNCHANGED <<clock, nextId, time_event_id, cronloops, down, left, since, setbacks, lost>>
  <1>1. PICK w : timers = <<[id |-> time_event_id, when |-> w]>>
    BY DEF TimerType, OneEvent
  <1>2. Next1 = w /\ WhenType(w)
    BY <1>1 DEF Next1, TimerType
  <1>3. clock \in Nat /\ clock >= Second /\ Second \in Nat /\ Second >= 2 /\ lastTime \in Nat
    BY CallsInSecond DEF TimerType, Counters
  <1>4. PICK q \in Nat, r \in 0 .. Second - 1 :
               q = Sec(clock) /\ r = Ms(clock) /\ clock = Second * q + r
    BY <1>3, InSeconds
  <1>5. lastTime' = q /\ LastPass' = Second * q
    BY <1>4 DEF PassBegins, LastPass
  <1>6. Second * q >= Second
    <2>1. q = 0 => clock < Second
      <3>1. q = 0 => Second * q = 0
        BY <1>3
      <3>2. QED
        BY <1>3, <1>4, <3>1
    <2>2. q # 0 => Second * 0 + Second <= Second * q
      BY <1>3, MulMono
    <2>3. Second * 0 = 0 /\ Second * q \in Nat
      BY <1>3
    <2>4. QED
      BY <1>3, <2>1, <2>2, <2>3
  <1>7. ASSUME Sec(clock) < lastTime
        PROVE  OneEvent' /\ WhenType(Next1)' /\ Due' < Second
    <2>1. timers' = [i \in DOMAIN timers |-> [timers[i] EXCEPT !.when.sec = 0]]
      BY <1>7 DEF PassBegins, ForceAll
    <2>2. timers' = <<[id |-> time_event_id, when |-> [w EXCEPT !.sec = 0]]>>
      BY <1>1, <2>1
    <2>3. Next1' = [w EXCEPT !.sec = 0]
      BY <2>2 DEF Next1
    <2>4. WhenType(Next1)' /\ Due' = w.ms
      <3>1. [w EXCEPT !.sec = 0].ms = w.ms /\ [w EXCEPT !.sec = 0].sec = 0
        BY <1>2 DEF WhenType
      <3>2. Second * 0 = 0
        BY <1>3
      <3>3. QED
        BY <1>2, <1>3, <2>3, <3>1, <3>2 DEF Due, At, WhenType
    <2>5. w.ms < Second
      BY <1>2, <1>3 DEF WhenType
    <2>6. time_event_id' = time_event_id
      BY DEF PassBegins
    <2>7. OneEvent'
      BY <2>2, <2>6 DEF OneEvent
    <2>8. QED
      BY <2>4, <2>5, <2>7
  <1>8. ASSUME ~(Sec(clock) < lastTime)
        PROVE  OneEvent' /\ WhenType(Next1)' /\ Due' = Due /\ LastPass' >= LastPass
    <2>1. timers' = timers /\ time_event_id' = time_event_id
      BY <1>8 DEF PassBegins, ForceAll
    <2>2. Next1' = Next1 /\ Due' = Due
      BY <2>1 DEF Next1, Due, At
    <2>3. LastPass <= LastPass'
      <3>1. lastTime = q \/ lastTime < q
        BY <1>3, <1>4, <1>8
      <3>2. lastTime < q => Second * lastTime + Second <= Second * q
        BY <1>3, MulMono
      <3>3. Second * lastTime \in Nat /\ Second * q \in Nat
        BY <1>3
      <3>4. QED
        BY <1>3, <1>5, <3>1, <3>2, <3>3 DEF LastPass
    <2>4. QED
      BY <1>1, <1>2, <2>1, <2>2, <2>3 DEF OneEvent
  <1>9. LastPass' \in Nat /\ LastPass' <= clock /\ clock - LastPass' < Second
    <2> DEFINE x == Second * q
    <2>1. x \in Nat /\ clock = x + r
      BY <1>3, <1>4
    <2>2. LastPass' = x
      BY <1>5
    <2> HIDE DEF x
    <2>3. QED
      BY <1>3, <2>1, <2>2
  <1>10. QED
    BY <1>5, <1>6, <1>7, <1>8, <1>9 DEF PassBegins


\* In a pass the timer is called when it is due.
LEMMA DueInPass ==
  ASSUME TimerType, tpc = "timers"
  PROVE  DueTimers = IF Due <= clock THEN {1} ELSE {}
  <1>1. PICK w : timers = <<[id |-> time_event_id, when |-> w]>>
    BY DEF TimerType, OneEvent
  <1>2. DOMAIN timers = {1} /\ timers[1].id <= maxId /\ timers[1].when = Next1
    BY <1>1 DEF TimerType, Counters, Next1
  <1>3. IsDue(Next1, clock) <=> Due <= clock
    BY IsDueWhen DEF TimerType, Counters, Due
  <1>4. QED
    BY <1>2, <1>3 DEF DueTimers

\* A call of timeEvent sets the timer a period ahead of its end.
LEMMA CallTimer ==
  ASSUME TimerType, timeEventCall
  PROVE  /\ Due <= clock /\ tpc = "timers"
         /\ OneEvent' /\ WhenType(Next1)' /\ Due' = clock' + Period
         /\ cronloops' = (cronloops + 1) % CallsASecond
         /\ clock' \in Nat /\ clock <= clock' /\ clock' <= clock + HandlerTicks
         /\ \/ down /\ cronloops = 0 /\ down' \in BOOLEAN /\ since' = 0
            \/ ~(down /\ cronloops = 0) /\ UNCHANGED <<clock, down, since>>
         /\ UNCHANGED <<nextId, time_event_id, lastTime, tpc, left, maxId, setbacks, lost>>
  <1>1. PICK w : timers = <<[id |-> time_event_id, when |-> w]>>
    BY DEF TimerType, OneEvent
  <1>2. tpc = "timers" /\ DueTimers # {}
    BY DEF timeEventCall
  <1>3. Due <= clock /\ DueTimers = {1}
    BY <1>2, DueInPass
  <1>4. (CHOOSE j \in DueTimers : \A k \in DueTimers : j <= k) = 1
    BY <1>3
  <1>5. PICK d \in IF Attempts THEN 0..HandlerTicks ELSE {0} :
          /\ clock' = clock + d
          /\ timers' = [timers EXCEPT ![1].when = aeAddMillisecondsToNow(clock', Returned)]
    BY <1>4 DEF timeEventCall
  <1>6. Attempts <=> down /\ cronloops = 0
    <2>1. cronloops % CallsASecond = cronloops
      BY CallsInSecond DEF TimerType, Counters
    <2>2. QED
      BY <2>1 DEF Attempts, CallsASecond
  <1>7. d \in 0 .. HandlerTicks /\ (~Attempts => d = 0) /\ HandlerTicks \in Nat /\ clock \in Nat
    BY <1>5, CallsInSecond DEF TimerType, Counters
  <1>8. clock' \in Nat /\ clock <= clock' /\ clock' <= clock + HandlerTicks
    BY <1>5, <1>7
  <1> DEFINE v == aeAddMillisecondsToNow(clock', Returned)
  <1>9. WhenType(v) /\ At(v) = clock' + Period
    BY <1>8, AddedTicks, CallsInSecond DEF Returned
  <1> HIDE DEF v
  <1>10. timers' = <<[id |-> time_event_id, when |-> v]>>
    BY <1>1, <1>5 DEF v
  <1>11. time_event_id' = time_event_id
    BY DEF timeEventCall
  <1>12. Next1' = v /\ OneEvent'
    BY <1>10, <1>11 DEF Next1, OneEvent
  <1>13. WhenType(Next1)' /\ Due' = clock' + Period
    BY <1>9, <1>12 DEF WhenType, Due, At
  <1>14. /\ \/ down /\ cronloops = 0 /\ down' \in BOOLEAN /\ since' = 0
            \/ ~(down /\ cronloops = 0) /\ UNCHANGED <<clock, down, since>>
    BY <1>5, <1>6, <1>7 DEF timeEventCall
  <1>15. QED
    BY <1>2, <1>3, <1>8, <1>12, <1>13, <1>14 DEF timeEventCall, CallsASecond

\* The steps that leave the list alone.
\* What every other step leaves alone.
Unlisted == UNCHANGED <<timers, nextId, time_event_id, cronloops>>

LEMMA ListKept ==
  ASSUME TimerType, Unlisted
  PROVE  OneEvent' /\ WhenType(Next1)' /\ Due' = Due
  BY DEF Unlisted, TimerType, OneEvent, WhenType, Next1, Due, At

\* closeFd, processTimeEvents and timeEvent keep the one timer well formed.
LEMMA TimerTypeNext ==
  ASSUME TimerType, [TimerNext]_timerVars
  PROVE  TimerType'
  <1>0. Counters
    BY DEF TimerType
  <1>1. CASE closeFdTimer
    <2>1. Counters'
      BY <1>0, <1>1, ClosedTimer DEF Counters
    <2>2. QED
      BY <1>1, <2>1, ClosedTimer DEF TimerType
  <1>2. CASE PassBegins
    <2>1. Counters'
      BY <1>0, <1>2, PassTimer DEF Counters
    <2>2. QED
      BY <1>2, <2>1, PassTimer DEF TimerType
  <1>3. CASE timeEventCall
    <2>1. cronloops' \in 0 .. CallsASecond - 1
      BY <1>0, <1>3, CallTimer, PendingStep DEF Counters
    <2>2. down' \in BOOLEAN /\ since' \in Nat /\ clock' \in Nat /\ clock' >= Second
      BY <1>0, <1>3, CallTimer, CallsInSecond DEF Counters
    <2>3. Counters'
      BY <1>0, <1>3, <2>1, <2>2, CallTimer DEF Counters
    <2>4. QED
      BY <1>3, <2>3, CallTimer DEF TimerType
  <1>4. CASE Tick \/ SetBack \/ Sleep \/ Wake \/ TimedOut \/ Handled \/ PassEnds
             \/ UNCHANGED timerVars
    <2>1. Unlisted
      BY <1>4 DEF Tick, SetBack, Sleep, Wake, TimedOut, Handled, PassEnds, timerVars, listVars,
                  Unlisted
    <2>2. OneEvent' /\ WhenType(Next1)'
      BY <2>1, ListKept
    <2>3. ASSUME Tick PROVE Counters'
      <3>1. /\ clock' = clock + 1 /\ (since' = since + 1 \/ since' = 0)
            /\ \/ left > 0 /\ left' = left - 1 /\ lost' = lost
               \/ left' = left /\ lost' = lost + 1
        BY <2>3 DEF Tick
      <3>2. /\ clock' \in Nat /\ clock' >= Second
        <4>1. clock + 1 \in Nat /\ clock + 1 >= Second
          BY <1>0, CallsInSecond DEF Counters
        <4>2. QED
          BY <3>1, <4>1
      <3>3. since' \in Nat /\ left' \in Nat /\ lost' \in Nat
        BY <1>0, <3>1 DEF Counters
      <3>4. QED
        BY <1>0, <2>1, <2>3, <3>2, <3>3 DEF Tick, Counters, Unlisted
    <2>4. ASSUME SetBack PROVE Counters'
      <3>1. clock' \in Nat /\ clock' >= Second
        BY <1>0, <2>4, CallsInSecond DEF SetBack, Counters
      <3>2. QED
        BY <1>0, <2>1, <2>4, <3>1 DEF SetBack, Counters, Unlisted
    <2>5. ASSUME Sleep PROVE Counters'
      <3>1. Timeout(Next1, clock) \in Nat
        BY <1>0, TimeoutWhen DEF TimerType, Counters
      <3>2. left' \in Nat
        BY <2>5, <3>1, NearestOnly DEF Sleep, TimerType
      <3>3. QED
        BY <1>0, <2>1, <2>5, <3>2 DEF Sleep, Counters, Unlisted
    <2>6. ASSUME Wake \/ TimedOut \/ Handled \/ PassEnds PROVE Counters'
      BY <1>0, <2>1, <2>6, CallsInSecond DEF Wake, TimedOut, Handled, PassEnds, Counters, Unlisted
    <2>7. ASSUME UNCHANGED timerVars PROVE Counters'
      BY <1>0, <2>1, <2>7 DEF timerVars, Counters, Unlisted
    <2>8. QED
      BY <1>4, <2>2, <2>3, <2>4, <2>5, <2>6, <2>7 DEF TimerType
  <1>5. QED
    BY <1>1, <1>2, <1>3, <1>4 DEF TimerNext

\* Due, LastPass and what they are compared with are numbers.
\* Times in ticks are numbers.
LEMMA TimerNumbers ==
  ASSUME NEW w, WhenType(w), NEW s \in Nat
  PROVE  At(w) \in Nat /\ Second * s \in Nat
  <1>1. Second \in Nat /\ w.sec \in Nat /\ w.ms \in Nat
    BY CallsInSecond DEF WhenType
  <1>2. Second * w.sec \in Nat /\ Second * s \in Nat
    BY <1>1
  <1>3. QED
    BY <1>1, <1>2 DEF At

\* The numbers of a state, in pairs: the SMT backend cannot add to a primed variable
\* that a fact says is a number by itself.
Numbers ==
  /\ <<Due, LastPass>> \in Nat \X Nat /\ <<clock, left>> \in Nat \X Nat
  /\ <<lost, since>> \in Nat \X Nat
  /\ Second \in Nat /\ Second >= 2 /\ HandlerTicks \in Nat
  /\ Period \in Nat /\ Period < Second /\ Period > 0

LEMMA AllNumbers == ASSUME TimerType PROVE Numbers
  BY TimerNumbers, CallsInSecond DEF TimerType, Counters, Numbers, Due, LastPass

\* No step takes the timer, the clock or the end of the sleep further ahead: the
\* clock is set back only while the process sleeps or runs a handler.
LEMMA AheadNext ==
  ASSUME TimerType, Numbers, Numbers', AheadBounded, [TimerNext]_timerVars,
         "setback" \notin InWindow
  PROVE  AheadBounded'
  <1>1. CASE closeFdTimer
    <2>1. /\ LastPass' = LastPass /\ Due' = clock + 1 /\ tpc = "handler" /\ down' = TRUE
          /\ UNCHANGED <<clock, tpc, left, lost>>
      BY <1>1, ClosedTimer DEF LastPass
    <2>2. Due' - LastPass' < 2 * Second + 2 * HandlerTicks + lost'
      BY <2>1 DEF AheadBounded, Numbers
    <2>3. QED
      BY <2>1, <2>2 DEF AheadBounded
  <1>2. CASE PassBegins
    <2>1. /\ tpc' = "timers" /\ UNCHANGED <<clock, down, left, lost>>
          /\ LastPass' <= clock /\ clock - LastPass' < Second /\ LastPass' >= Second
          /\ \/ Due' < Second
             \/ Due' = Due /\ LastPass' >= LastPass
      BY <1>2, PassTimer
    <2>2. QED
      BY <2>1 DEF AheadBounded, Numbers
  <1>3. CASE timeEventCall
    <2>1. /\ LastPass' = LastPass /\ Due <= clock /\ tpc = "timers" /\ tpc' = "timers"
          /\ Due' = clock' + Period /\ clock' <= clock + HandlerTicks /\ clock <= clock'
          /\ lost' = lost
      BY <1>3, CallTimer DEF LastPass
    <2>2. clock - LastPass <= Second - 1 /\ LastPass <= clock
      BY <2>1 DEF AheadBounded, Numbers
    <2>3. Due' - LastPass' <= 2 * Second - 2 + HandlerTicks
      BY <2>1, <2>2 DEF Numbers
    <2>4. ~(Due' <= clock') /\ LastPass' <= clock'
          /\ clock' - LastPass' <= Second - 1 + HandlerTicks
      BY <2>1, <2>2 DEF Numbers
    <2>5. QED
      BY <2>1, <2>3, <2>4 DEF AheadBounded, Numbers
  <1>4. CASE Tick \/ SetBack \/ Wake \/ TimedOut \/ Handled \/ PassEnds \/ UNCHANGED timerVars
    <2>1. Unlisted /\ lastTime' = lastTime /\ (down' <=> down)
      BY <1>4 DEF Tick, SetBack, Sleep, Wake, TimedOut, Handled, PassEnds, timerVars, listVars,
                  Unlisted
    <2>2. Due' = Due /\ LastPass' = LastPass
      BY <2>1, ListKept DEF LastPass
    <2>3. CASE Tick
      <3>1. CASE tpc = "loop"
        <4>1. tpc' = "loop" /\ clock' = clock + 1 /\ lost' = lost + 1 /\ left' = left
          BY <2>3, <3>1 DEF Tick
        <4>2. QED
          BY <2>1, <2>2, <3>1, <4>1 DEF AheadBounded, Numbers
      <3>2. CASE tpc # "loop"
        <4>1. /\ tpc \in {"sleeping", "handler"} /\ tpc' = tpc /\ clock' = clock + 1
              /\ lost' = lost /\ left' = left - 1
          BY <2>3, <3>2 DEF Tick
        <4>2. QED
          BY <2>1, <2>2, <4>1 DEF AheadBounded, Numbers
      <3>3. QED
        BY <3>1, <3>2
    <2>4. CASE SetBack
      <3>1. clock' < clock /\ tpc' = tpc /\ tpc \in {"sleeping", "handler"} /\ UNCHANGED <<left, lost>>
        <4>1. clock' \in Second .. clock - 1
          BY <2>4 DEF SetBack
        <4>2. QED
          BY <2>4, <4>1 DEF SetBack, Numbers
      <3>2. QED
        BY <2>1, <2>2, <3>1 DEF AheadBounded, Numbers
    <2>5. CASE Wake
      <3>1. /\ tpc = "sleeping" /\ ~down /\ tpc' = "handler" /\ left' = HandlerTicks
            /\ UNCHANGED <<clock, lost>>
        BY <2>5 DEF Wake
      <3>2. QED
        BY <2>1, <2>2, <3>1 DEF AheadBounded, Numbers
    <2>6. CASE TimedOut \/ Handled
      <3>1. tpc' = "pass" /\ lost' = lost
        BY <2>6 DEF TimedOut, Handled
      <3>2. QED
        BY <2>1, <2>2, <3>1 DEF AheadBounded, Numbers
    <2>7. CASE PassEnds
      <3>1. tpc = "timers" /\ tpc' = "loop" /\ UNCHANGED <<lost, clock>>
        BY <2>7 DEF PassEnds
      <3>2. clock - LastPass <= Second - 1 + HandlerTicks
        BY <3>1 DEF AheadBounded, Numbers
      <3>3. QED
        BY <2>1, <2>2, <3>1, <3>2 DEF AheadBounded, Numbers
    <2>8. CASE UNCHANGED timerVars
      BY <2>1, <2>2, <2>8 DEF timerVars, AheadBounded
    <2>9. QED
      BY <1>4, <2>3, <2>4, <2>5, <2>6, <2>7, <2>8
  <1>5. CASE Sleep
    <2>1. /\ Unlisted /\ UNCHANGED <<clock, lastTime, down, lost>>
          /\ tpc = "loop" /\ tpc' = "sleeping"
      BY <1>5 DEF Sleep, listVars, Unlisted
    <2>2. Due' = Due /\ LastPass' = LastPass
      BY <2>1, ListKept DEF LastPass
    <2>3. left' = Timeout(Next1, clock)
      BY <1>5, NearestOnly DEF Sleep, TimerType
    <2>4. (clock <= Due => left' = Due - clock) /\ (Due < clock => left' < Second)
      BY <2>3, TimeoutWhen DEF TimerType, Counters, Due
    <2>5. left' < 2 * Second + 2 * HandlerTicks + lost
      BY <2>1, <2>4 DEF AheadBounded, Numbers
    <2>6. ~down => clock - LastPass + left' <= 2 * Second - 2 + HandlerTicks + lost
      BY <2>1, <2>4 DEF AheadBounded, Numbers
    <2>7. QED
      BY <2>1, <2>2, <2>5, <2>6 DEF AheadBounded
  <1>6. QED
    BY <1>1, <1>2, <1>3, <1>4, <1>5 DEF TimerNext


\* What is left of the second is a number of periods.
LEMMA PendingBounds ==
  ASSUME cronloops \in 0 .. CallsASecond - 1
  PROVE  <<Pending, Second * lost>> \in (0 .. Second - Period) \X {Second * lost}
  <1>1. CASE cronloops = 0
    BY <1>1, CallsInSecond DEF Pending
  <1>2. CASE cronloops # 0
    <2>1. cronloops < CallsASecond /\ 0 < cronloops /\ cronloops \in Nat
      BY <1>2, CallsInSecond
    <2>2. /\ Period * cronloops + Period <= Period * CallsASecond
          /\ Period * 0 + Period <= Period * cronloops
      BY <2>1, MulMono, CallsInSecond
    <2> DEFINE z == Period * cronloops
    <2>3. z \in Nat /\ Period * 0 = 0
      BY <2>1, CallsInSecond
    <2> HIDE DEF z
    <2>4. Second - z \in 0 .. Second - Period
      BY <2>2, <2>3, CallsInSecond DEF z
    <2>5. QED
      BY <1>2, <2>4 DEF Pending, z
  <1>3. QED
    BY <1>1, <1>2

\* Ticks, for the lost ones a second each.
\* More numbers: the seconds that lost ticks can cost, what is left of a second.
LostSeconds == Second * lost
More == <<Pending, LostSeconds>> \in Nat \X Nat /\ Pending <= Second - Period

LEMMA MoreNumbers == ASSUME TimerType PROVE More
  <1>1. Pending \in 0 .. Second - Period
    BY PendingBounds DEF TimerType, Counters
  <1>2. Second * lost \in Nat
    BY CallsInSecond DEF TimerType, Counters
  <1>3. QED
    BY <1>1, <1>2, CallsInSecond DEF More, LostSeconds

\* A step that does not set the clock back.
LEMMA AttemptNext ==
  ASSUME TimerType, Numbers, Numbers', More, More', AttemptDue, [TimerNext]_timerVars, ~SetBack
  PROVE  AttemptDue'
  <1>0. /\ down => since + Wait + Pending <= Second + HandlerTicks + LostSeconds \/ tpc = "handler"
        /\ tpc \in {"loop", "sleeping", "handler", "pass", "timers"} /\ down \in BOOLEAN
    BY DEF AttemptDue, LostSeconds, TimerType, Counters
  <1>a. SUFFICES
          /\ ~down' => since' = 0
          /\ tpc' = "handler" => since' + left' <= HandlerTicks
          /\ tpc' = "sleeping" => Due' <= clock' + left'
          /\ down' /\ tpc' = "handler" => Due' <= clock' + 1
          /\ down' /\ tpc' # "handler" =>
               since' + Wait' + Pending' <= Second + HandlerTicks + LostSeconds'
    BY DEF AttemptDue, LostSeconds
  <1>1. CASE closeFdTimer
    <2>1. /\ Due' = clock + 1 /\ tpc = "handler" /\ UNCHANGED <<clock, tpc, left, lost, since>>
          /\ down' = TRUE
      BY <1>1, ClosedTimer
    <2>2. QED
      BY <2>1 DEF AttemptDue, Numbers
  <1>2. CASE PassBegins
    <2>1. /\ tpc = "pass" /\ tpc' = "timers" /\ (down' <=> down)
          /\ UNCHANGED <<clock, cronloops, left, lost, since>>
          /\ LastPass' <= clock /\ clock - LastPass' < Second /\ LastPass' >= Second
          /\ \/ Due' < Second
             \/ Due' = Due /\ LastPass' >= LastPass
      BY <1>2, PassTimer
    <2>2. Pending' = Pending /\ LostSeconds' = LostSeconds
      BY <2>1 DEF Pending, LostSeconds
    <2>3. Wait = (IF Due < clock THEN 0 ELSE Due - clock) /\ Wait' = IF Due' < clock THEN 0 ELSE Due' - clock
      BY <2>1 DEF Wait
    <2>4. Wait' <= Wait
      BY <2>1, <2>3 DEF Numbers
    <2>5. <<Wait, Wait'>> \in Nat \X Nat
      BY <2>1, <2>3 DEF Numbers
    <2>6. QED
      BY <1>0, <2>1, <2>2, <2>4, <2>5 DEF AttemptDue, Numbers, More
  <1>3. CASE timeEventCall
    <2>1. /\ Due <= clock /\ tpc = "timers" /\ tpc' = "timers" /\ Due' = clock' + Period
          /\ UNCHANGED lost
          /\ \/ down /\ cronloops = 0 /\ since' = 0
             \/ ~(down /\ cronloops = 0) /\ UNCHANGED <<clock, since>> /\ (down' <=> down)
      BY <1>3, CallTimer
    <2>2. LostSeconds' = LostSeconds
      BY <2>1 DEF LostSeconds
    <2>3. cronloops # 0 => Pending' = Pending - Period
      BY <1>3, CallTimer, PendingStep DEF TimerType, Counters
    <2>4. Wait = (IF Due < clock THEN 0 ELSE Due - clock) /\ Wait' = IF Due' < clock' THEN 0 ELSE Due' - clock'
      BY <2>1 DEF Wait
    <2>5. Wait = 0 /\ Wait' = Period
      BY <2>1, <2>4 DEF Numbers
    <2>6. CASE down /\ cronloops = 0 /\ since' = 0
      BY <2>1, <2>2, <2>5, <2>6 DEF Numbers, More
    <2>7. CASE ~(down /\ cronloops = 0) /\ UNCHANGED <<clock, since>> /\ (down' <=> down)
      BY <1>0, <2>1, <2>2, <2>3, <2>5, <2>7 DEF AttemptDue, Numbers, More
    <2>8. QED
      BY <2>1, <2>6, <2>7
  <1>4. CASE Tick \/ Wake \/ TimedOut \/ Handled \/ PassEnds \/ Sleep \/ UNCHANGED timerVars
    <2>1. Unlisted /\ (down' <=> down)
      BY <1>4 DEF Tick, Sleep, Wake, TimedOut, Handled, PassEnds, timerVars, listVars, Unlisted
    <2>2. Due' = Due /\ Pending' = Pending
      BY <2>1, ListKept DEF Unlisted, Pending
    <2>3. CASE Tick
      <3>1. since' = (IF down THEN since + 1 ELSE 0) /\ clock' = clock + 1 /\ tpc' = tpc
        BY <2>3 DEF Tick
      <3>2. CASE tpc = "loop"
        <4>1. lost' = lost + 1 /\ left' = left
          BY <2>3, <3>2 DEF Tick
        <4>2. LostSeconds' = LostSeconds + Second
          BY <4>1 DEF LostSeconds, Numbers
        <4>3. /\ Wait = (IF Due < clock THEN Second - 1 ELSE Due - clock)
              /\ Wait' = IF Due' < clock' THEN Second - 1 ELSE Due' - clock'
          BY <3>1, <3>2 DEF Wait
        <4>4. Wait' + 1 <= Wait + Second /\ <<Wait, Wait'>> \in Nat \X Nat
          BY <2>2, <3>1, <4>3 DEF Numbers
        <4>5. QED
          BY <1>0, <2>1, <2>2, <3>1, <3>2, <4>2, <4>4 DEF AttemptDue, Numbers, More
      <3>3. CASE tpc # "loop"
        <4>1. lost' = lost /\ left > 0 /\ left' = left - 1 /\ tpc \in {"sleeping", "handler"}
          BY <2>3, <3>3 DEF Tick
        <4>2. LostSeconds' = LostSeconds
          BY <4>1 DEF LostSeconds
        <4>3. tpc = "sleeping" => Wait = left /\ Wait' = left'
          BY <3>1 DEF Wait
        <4>4. CASE tpc = "sleeping"
          BY <1>0, <2>1, <2>2, <3>1, <4>1, <4>2, <4>3, <4>4 DEF AttemptDue, Numbers, More
        <4>5. CASE tpc = "handler"
          BY <2>1, <2>2, <3>1, <4>1, <4>5 DEF AttemptDue, Numbers
        <4>6. QED
          BY <4>1, <4>4, <4>5
      <3>4. QED
        BY <3>2, <3>3
    <2>4. CASE Sleep
      <3>1. tpc = "loop" /\ tpc' = "sleeping" /\ UNCHANGED <<clock, since, lost>>
        BY <2>4 DEF Sleep
      <3>2. left' = Timeout(Next1, clock)
        BY <2>4, NearestOnly DEF Sleep, TimerType
      <3>3. (clock <= Due => left' = Due - clock) /\ (Due < clock => left' < Second)
        BY <3>2, TimeoutWhen DEF TimerType, Counters, Due
      <3>4. Wait = (IF Due < clock THEN Second - 1 ELSE Due - clock) /\ Wait' = left'
        BY <3>1 DEF Wait
      <3>5. Wait' <= Wait /\ <<Wait, Wait'>> \in Nat \X Nat /\ Due <= clock + left'
        BY <3>3, <3>4 DEF Numbers
      <3>6. LostSeconds' = LostSeconds
        BY <3>1 DEF LostSeconds
      <3>7. QED
        BY <1>0, <2>1, <2>2, <3>1, <3>5, <3>6 DEF AttemptDue, Numbers, More
    <2>5. CASE Wake
      <3>1. tpc' = "handler" /\ ~down /\ left' = HandlerTicks /\ since' = since
        BY <2>5 DEF Wake
      <3>2. QED
        BY <2>1, <3>1 DEF AttemptDue, Numbers
    <2>6. CASE TimedOut
      <3>1. tpc = "sleeping" /\ tpc' = "pass" /\ left = 0 /\ UNCHANGED <<clock, since, lost>>
        BY <2>6 DEF TimedOut
      <3>2. Wait = 0 /\ Wait' = IF Due' < clock' THEN 0 ELSE Due' - clock'
        BY <3>1 DEF Wait
      <3>3. Wait' = 0
        BY <2>2, <3>1, <3>2 DEF AttemptDue, Numbers
      <3>4. LostSeconds' = LostSeconds
        BY <3>1 DEF LostSeconds
      <3>5. QED
        BY <1>0, <2>1, <2>2, <3>1, <3>2, <3>3, <3>4 DEF AttemptDue, Numbers, More
    <2>7. CASE Handled
      <3>1. tpc = "handler" /\ tpc' = "pass" /\ UNCHANGED <<clock, since, lost>>
        BY <2>7 DEF Handled
      <3>2. Wait' = IF Due' < clock' THEN 0 ELSE Due' - clock'
        BY <3>1 DEF Wait
      <3>3. down => Wait' <= 1
        BY <2>2, <3>1, <3>2 DEF AttemptDue, Numbers
      <3>4. <<Wait', Wait'>> \in Nat \X Nat
        BY <3>2 DEF Numbers
      <3>5. since <= HandlerTicks
        BY <3>1 DEF AttemptDue, Numbers
      <3>6. QED
        BY <2>1, <2>2, <3>1, <3>3, <3>4, <3>5 DEF AttemptDue, Numbers, More
    <2>8. CASE PassEnds
      <3>1. /\ tpc = "timers" /\ tpc' = "loop" /\ UNCHANGED <<clock, since, lost>>
            /\ DueTimers = {}
        BY <2>8 DEF PassEnds
      <3>2. ~(Due <= clock)
        BY <3>1, DueInPass
      <3>3. /\ Wait = (IF Due < clock THEN 0 ELSE Due - clock)
            /\ Wait' = IF Due' < clock' THEN Second - 1 ELSE Due' - clock'
        BY <3>1 DEF Wait
      <3>4. Wait' = Wait /\ <<Wait, Wait'>> \in Nat \X Nat
        BY <2>2, <3>1, <3>2, <3>3 DEF Numbers
      <3>5. LostSeconds' = LostSeconds
        BY <3>1 DEF LostSeconds
      <3>6. QED
        BY <1>0, <2>1, <2>2, <3>1, <3>4, <3>5 DEF AttemptDue
    <2>9. CASE UNCHANGED timerVars
      <3>1. UNCHANGED <<clock, since, lost, tpc, left, down>>
        BY <2>9 DEF timerVars
      <3>2. Wait' = Wait /\ LostSeconds' = LostSeconds
        BY <2>2, <3>1 DEF Wait, LostSeconds
      <3>3. QED
        BY <1>0, <2>2, <3>1, <3>2 DEF AttemptDue
    <2>10. QED
      BY <1>4, <2>3, <2>4, <2>5, <2>6, <2>7, <2>8, <2>9
  <1>5. QED
    BY <1>1, <1>2, <1>3, <1>4 DEF TimerNext

-----------------------------------------------------------------------------
(* The theorems *)

\* main creates the timer a tick ahead.
LEMMA TimerStarts == TimerInit => TimerType /\ Due = 2 * Second + 1 /\ LastPass = 2 * Second
  <1> SUFFICES ASSUME TimerInit
               PROVE  TimerType /\ Due = 2 * Second + 1 /\ LastPass = 2 * Second
    OBVIOUS
  <1>1. 2 * Second \in Nat /\ 1 \in Nat /\ 1 < Second
    BY CallsInSecond
  <1>2. PICK first : first = aeAddMillisecondsToNow(2 * Second, 1)
    OBVIOUS
  <1>3. WhenType(first) /\ At(first) = 2 * Second + 1
    BY <1>1, <1>2, AddedTicks
  <1>4. timers = <<[id |-> 0, when |-> first]>> /\ time_event_id = 0
    BY <1>2, CreateInEmpty DEF TimerInit
  <1>5. OneEvent /\ Next1 = first
    BY <1>4 DEF OneEvent, Next1
  <1>6. Counters
    <2>1. clock = 2 * Second /\ clock \in Nat /\ clock >= Second /\ 0 \in 0 .. CallsASecond - 1
      BY CallsInSecond DEF TimerInit
    <2>2. /\ nextId = 1 /\ time_event_id = 0 /\ lastTime = 2 /\ left = 0 /\ lost = 0 /\ since = 0
          /\ setbacks = 0 /\ cronloops = 0 /\ tpc = "loop" /\ down \in BOOLEAN
      BY Zenon DEF TimerInit
    <2>3. QED
      BY <2>1, <2>2 DEF Counters
  <1>7. LastPass = 2 * Second
    BY CallsInSecond DEF LastPass, TimerInit
  <1>8. QED
    BY <1>3, <1>5, <1>6, <1>7 DEF TimerType, Due

\* There is always one timer and its time is well formed: seconds, and less than a
\* second of milliseconds (aeAddMillisecondsToNow's carry, processTimeEvents'
\* when_sec = 0).
THEOREM TimersTyped == TimerSpec => []TimerType
  <1>1. TimerInit => TimerType
    BY TimerStarts
  <1>2. QED
    BY <1>1, TimerTypeNext, PTL DEF TimerSpec

\* However often and far the clock is set back while the process sleeps or runs a
\* handler, aeProcessEvents never asks epoll_wait for a sleep of more than two
\* seconds, two handlers and the ticks lost before the call.  (Between the time
\* events and epoll_wait a clock set back is not noticed by anybody.)
THEOREM SleepsBounded ==
  ASSUME "setback" \notin InWindow
  PROVE  TimerSpec => []SleepBounded
  <1>1. TimerInit => AheadBounded
    BY TimerStarts, CallsInSecond DEF AheadBounded, TimerInit
  <1>2. TimerType => Numbers
    BY AllNumbers
  <1>3. TimerType /\ Numbers /\ Numbers' /\ AheadBounded /\ [TimerNext]_timerVars => AheadBounded'
    BY AheadNext
  <1>4. AheadBounded => SleepBounded
    BY DEF AheadBounded, SleepBounded
  <1>5. QED
    BY TimersTyped, <1>1, <1>2, <1>3, <1>4, PTL DEF TimerSpec

\* As long as the clock was never set back, timeEvent tries to connect within a
\* second of the end of the handler that lost the link, and again within a second
\* of each failed attempt, plus a second for each tick lost in the window.
THEOREM AttemptsEverySecond == TimerSpec => []AttemptEverySecond
  <1>1. TimerInit => AttemptInv
    BY CallsInSecond DEF AttemptInv, AttemptDue, TimerInit
  <1>2. TimerType => Numbers /\ More
    BY AllNumbers, MoreNumbers
  <1>3. TimerType /\ Numbers /\ Numbers' /\ More /\ More' /\ AttemptInv
           /\ [TimerNext]_timerVars => AttemptInv'
    <2> SUFFICES ASSUME TimerType, Numbers, Numbers', More, More', AttemptInv,
                        [TimerNext]_timerVars, setbacks' = 0
                 PROVE  AttemptDue'
      BY DEF AttemptInv
    <2>1. setbacks \in Nat
      BY DEF TimerType, Counters
    <2>2. setbacks' = setbacks + 1 \/ setbacks' = setbacks
      BY DEF TimerNext, timerVars, Tick, SetBack, Sleep, Wake, TimedOut, Handled, closeFdTimer,
             PassBegins, timeEventCall, PassEnds
    <2>3. ~SetBack /\ setbacks = 0
      BY <2>1, <2>2 DEF SetBack
    <2>4. QED
      BY <2>3, AttemptNext DEF AttemptInv
  <1>4. TimerType /\ Numbers /\ More /\ AttemptInv => AttemptEverySecond
    <2> SUFFICES ASSUME TimerType, Numbers, More, AttemptDue
                 PROVE  since <= Second * (1 + lost) + HandlerTicks
      BY DEF AttemptInv, AttemptEverySecond
    <2>1. Second * (1 + lost) = Second + LostSeconds
      BY CallsInSecond DEF LostSeconds, TimerType, Counters
    <2>2. down \in BOOLEAN /\ since \in Nat /\ left \in Nat /\ LostSeconds \in Nat
          /\ Pending \in Nat /\ Second \in Nat /\ HandlerTicks \in Nat
      BY CallsInSecond DEF TimerType, Counters, More
    <2>3. Wait \in Int /\ Wait >= 0
      BY CallsInSecond DEF Wait, Numbers
    <2>4. CASE ~down
      BY <2>1, <2>2, <2>4 DEF AttemptDue
    <2>5. CASE tpc = "handler"
      BY <2>1, <2>2, <2>5 DEF AttemptDue
    <2>6. CASE down /\ tpc # "handler"
      BY <2>1, <2>2, <2>3, <2>6 DEF AttemptDue, LostSeconds
    <2>7. QED
      BY <2>2, <2>4, <2>5, <2>6
  <1>5. QED
    BY TimersTyped, <1>1, <1>2, <1>3, <1>4, PTL DEF TimerSpec

-----------------------------------------------------------------------------
(* The replication stream, for every size of the snapshot and every number *)
(* of commands.                                                            *)

-----------------------------------------------------------------------------
(* The inductive invariant: what the master has sent on this connection is *)
(* an answer and the commands after it, the scanner's input is the end of   *)
(* what was passed on, and if the line that starts the synchronisation was *)
(* read alone, then how far the proxy has got is what its state and        *)
(* bulk_size say.                                                          *)

Answers == {"none", "ERR", "SNAP", "FULL", "CONT"}

\* Pieces of the answer before the commands.
AnswerLen(a) ==
  CASE a = "none" -> 0 [] a = "ERR" -> 1 [] a = "CONT" -> 2
    [] a = "SNAP" -> Blocks + 1 [] OTHER -> Blocks + 3

\* The j-th piece of the commands.
InCommands(p, j) ==
  \E m \in 1..j : \/ j = 3 * m - 2 /\ p = Piece("line", m)
                  \/ j = 3 * m - 1 /\ p = Piece("name", m)
                  \/ j = 3 * m /\ p = Piece("key", m)

InSnapshot(p, i) == IF i = 1 THEN p = Piece("HDR", Blocks) ELSE p.kind = "RDB"

\* p may be the i-th piece after the answer a.
Fits(a, p, i) ==
  IF i > AnswerLen(a) THEN a # "none" /\ InCommands(p, i - AnswerLen(a))
  ELSE CASE a = "ERR" -> p = Piece("ERR", 0)
         [] a = "SNAP" -> InSnapshot(p, i)
         [] OTHER -> CASE i = 1 -> p = Piece(a, 0)
                       [] i = 2 -> p = Piece("rest", 0)
                       [] OTHER -> InSnapshot(p, i - 2)

Transcript(a) ==
  /\ \A i \in 1..Len(forwarded) : Fits(a, forwarded[i], i)
  /\ \A i \in 1..Len(stream) : Fits(a, stream[i], Len(forwarded) + i)
  /\ \A i \in 1..Len(coming) : Fits(a, coming[i], Len(forwarded) + Len(stream) + i)
  /\ ~end => Len(forwarded) + Len(stream) + Len(coming) = AnswerLen(a) + 3 * sent

\* The pieces before the header of the snapshot, and before RUNNING_STATE.
LineLen(a) == IF a \in {"FULL", "CONT"} THEN 2 ELSE 0
Skipped(a) == IF a = "CONT" THEN 4 ELSE AnswerLen(a)

Asked(a) ==
  /\ answered <=> a # "none"
  /\ a # "none" => asked = IF a \in {"ERR", "SNAP"} THEN "SYNC" ELSE "PSYNC"
  /\ a = "none" => sent = 0
  /\ rpc = "down" => asked = "none"
  /\ asked = "none" => state = "START" /\ rpc \in {"idle", "down"}

\* The position in each state, after a line that was read alone.
InStep(a) ==
  /\ state # "START"
  /\ state = "SYNC_START" =>
       \/ rpc \in {"idle", "header"} /\ Len(forwarded) = LineLen(a)
            /\ (a = "none" => asked = "SYNC")
       \/ rpc = "dead" /\ a = "ERR" /\ Len(forwarded) = 1
  /\ state = "SYNC" => /\ a \in {"SNAP", "FULL", "CONT"} /\ rpc \in {"idle", "payload"}
                       /\ Len(forwarded) + bulk = Skipped(a) /\ Len(forwarded) > LineLen(a)
  /\ state = "RUNNING" => a \in {"SNAP", "FULL", "CONT"} /\ Len(forwarded) = Skipped(a) + Len(scanned)

Position(a) ==
  /\ state = "RUNNING" => rpc = "idle"
  /\ state # "RUNNING" => Len(scanned) = 0
  /\ alone => InStep(a)

Follows == \E a \in Answers : Asked(a) /\ Transcript(a) /\ Position(a)

SyncInv == SyncTypeOK /\ Follows /\ ScannedToTheEnd

-----------------------------------------------------------------------------
(* Lemmas about the operators *)

LEMMA AnswerLenFacts ==
  ASSUME NEW a \in Answers
  PROVE  /\ AnswerLen(a) \in Nat /\ Skipped(a) \in Nat /\ LineLen(a) \in Nat
         /\ Skipped(a) >= AnswerLen(a)
         /\ a = "none" => AnswerLen(a) = 0
         /\ a = "ERR" => AnswerLen(a) = 1
         /\ a = "CONT" => AnswerLen(a) = 2
         /\ a = "SNAP" => AnswerLen(a) = Blocks + 1
         /\ a = "FULL" => AnswerLen(a) = Blocks + 3
  BY BoundsAssumption DEF Answers, AnswerLen, Skipped, LineLen

\* What was scanned stays at the end while nothing is passed on.
LEMMA EndKept ==
  ASSUME ScannedToTheEnd, UNCHANGED <<forwarded, scanned>>
  PROVE  ScannedToTheEnd'
  BY DEF ScannedToTheEnd

LEMMA NothingScanned ==
  ASSUME SyncTypeOK, Len(scanned) = 0
  PROVE  ScannedToTheEnd
  <1>1. DOMAIN scanned = 1..Len(scanned) /\ Len(forwarded) \in Nat /\ 1..0 = {}
    BY DEF SyncTypeOK
  <1>2. QED
    BY <1>1 DEF ScannedToTheEnd

LEMMA Concatenation ==
  ASSUME NEW p \in Seq(Pieces), NEW q \in Seq(Pieces)
  PROVE  /\ p \o q \in Seq(Pieces) /\ Len(p \o q) = Len(p) + Len(q)
         /\ \A i \in 1..Len(p) : (p \o q)[i] = p[i]
         /\ \A i \in 1..Len(q) : (p \o q)[Len(p) + i] = q[i]
  <1>1. p \o q \in Seq(Pieces) /\ Len(p \o q) = Len(p) + Len(q) /\ Len(p) \in Nat /\ Len(q) \in Nat
    OBVIOUS
  <1>2. \A i \in 1..Len(p) + Len(q) : (p \o q)[i] = IF i <= Len(p) THEN p[i] ELSE q[i - Len(p)]
    OBVIOUS
  <1>3. \A i \in 1..Len(q) : /\ Len(p) + i \in 1..Len(p) + Len(q) /\ ~(Len(p) + i <= Len(p))
                            /\ (Len(p) + i) - Len(p) = i
    BY <1>1
  <1>4. \A i \in 1..Len(q) : (p \o q)[Len(p) + i] = q[(Len(p) + i) - Len(p)]
    BY <1>2, <1>3
  <1>5. \A i \in 1..Len(q) : (p \o q)[Len(p) + i] = q[i]
    BY <1>3, <1>4
  <1>6. QED
    BY <1>1, <1>2, <1>5

\* n pieces go from the stream to the slave.
LEMMA PassMoves ==
  ASSUME SyncTypeOK, NEW n \in 1..Len(stream), Pass(n)
  PROVE  /\ forwarded' \in Seq(Pieces) /\ stream' \in Seq(Pieces) /\ errno' \in {"EAGAIN", "other"}
         /\ Len(forwarded') = Len(forwarded) + n /\ Len(stream') = Len(stream) - n
         /\ \A i \in 1..Len(forwarded) : forwarded'[i] = forwarded[i]
         /\ \A i \in 1..n : forwarded'[Len(forwarded) + i] = stream[i]
         /\ \A i \in 1..(Len(stream) - n) : stream'[i] = stream[n + i]
  <1>1. /\ forwarded \in Seq(Pieces) /\ stream \in Seq(Pieces)
        /\ Len(forwarded) \in Nat /\ Len(stream) \in Nat
    BY DEF SyncTypeOK
  <1> DEFINE h == SubSeq(stream, 1, n)
  <1>2. h \in Seq(Pieces) /\ Len(h) = n /\ \A i \in 1..n : h[i] = stream[i]
    BY <1>1
  <1>3. /\ stream' \in Seq(Pieces) /\ Len(stream') = Len(stream) - n
        /\ \A i \in 1..(Len(stream) - n) : stream'[i] = stream[n + i]
    BY <1>1 DEF Pass
  <1>4. forwarded' = forwarded \o h
    BY DEF Pass
  <1> HIDE DEF h
  <1>5. /\ forwarded' \in Seq(Pieces) /\ Len(forwarded') = Len(forwarded) + n
        /\ \A i \in 1..Len(forwarded) : forwarded'[i] = forwarded[i]
        /\ \A i \in 1..n : forwarded'[Len(forwarded) + i] = stream[i]
    BY <1>1, <1>2, <1>4, Concatenation
  <1>6. QED
    BY <1>3, <1>5 DEF Pass, SyncTypeOK

LEMMA PassTranscript ==
  ASSUME SyncTypeOK, NEW n \in 1..Len(stream), Pass(n), UNCHANGED masterVars,
         NEW a \in Answers, Transcript(a)
  PROVE  Transcript(a)'
  <1>1. /\ Len(forwarded') = Len(forwarded) + n /\ Len(stream') = Len(stream) - n
        /\ \A i \in 1..Len(forwarded) : forwarded'[i] = forwarded[i]
        /\ \A i \in 1..n : forwarded'[Len(forwarded) + i] = stream[i]
        /\ \A i \in 1..(Len(stream) - n) : stream'[i] = stream[n + i]
    BY PassMoves
  <1>2. coming' = coming /\ end' = end /\ sent' = sent
    BY DEF masterVars
  <1>3. Len(forwarded) \in Nat /\ Len(stream) \in Nat /\ Len(coming) \in Nat /\ n \in Nat
    BY DEF SyncTypeOK
  <1>4. \A i \in 1..Len(forwarded') : Fits(a, forwarded'[i], i)
    <2> SUFFICES ASSUME NEW i \in 1..Len(forwarded') PROVE Fits(a, forwarded'[i], i)
      OBVIOUS
    <2>1. CASE i <= Len(forwarded)
      BY <1>1, <1>3, <2>1 DEF Transcript
    <2>2. CASE i > Len(forwarded)
      <3>1. /\ i - Len(forwarded) \in 1..n /\ i - Len(forwarded) \in 1..Len(stream)
            /\ Len(forwarded) + (i - Len(forwarded)) = i
        BY <1>1, <1>3, <2>2
      <3>2. forwarded'[i] = stream[i - Len(forwarded)]
        BY <1>1, <3>1
      <3>3. QED
        BY <3>1, <3>2 DEF Transcript
    <2>3. QED
      BY <1>1, <1>3, <2>1, <2>2
  <1>5. \A i \in 1..Len(stream') : Fits(a, stream'[i], Len(forwarded') + i)
    <2> SUFFICES ASSUME NEW i \in 1..Len(stream') PROVE Fits(a, stream'[i], Len(forwarded') + i)
      OBVIOUS
    <2>1. n + i \in 1..Len(stream) /\ Len(forwarded') + i = Len(forwarded) + (n + i)
      BY <1>1, <1>3
    <2>2. stream'[i] = stream[n + i]
      BY <1>1
    <2>3. QED
      BY <2>1, <2>2 DEF Transcript
  <1>6. Len(forwarded') + Len(stream') = Len(forwarded) + Len(stream)
    BY <1>1, <1>3
  <1>7. QED
    BY <1>2, <1>4, <1>5, <1>6 DEF Transcript

\* The first piece that arrived is the one the answer has at this place.
LEMMA NextPiece ==
  ASSUME SyncTypeOK, NEW a \in Answers, Transcript(a), stream # <<>>
  PROVE  /\ 1 \in 1..Len(stream) /\ Head(stream) = stream[1] /\ Head(stream) \in Pieces
         /\ Fits(a, Head(stream), Len(forwarded) + 1)
         /\ a # "none"
  <1>1. stream \in Seq(Pieces) /\ Len(stream) \in Nat /\ Len(stream) > 0 /\ Len(forwarded) \in Nat
    BY DEF SyncTypeOK
  <1>2. 1 \in 1..Len(stream) /\ Head(stream) = stream[1] /\ Head(stream) \in Pieces
    BY <1>1
  <1>3. Fits(a, Head(stream), Len(forwarded) + 1)
    BY <1>2 DEF Transcript
  <1>4. a = "none" => AnswerLen(a) = 0
    BY AnswerLenFacts
  <1>5. QED
    BY <1>1, <1>2, <1>3, <1>4 DEF Fits

\* A sequence is continued.
LEMMA SentTranscript ==
  ASSUME SyncTypeOK, NEW a \in Answers, NEW b \in Answers, Transcript(a), ~end,
         \A p : \A i \in 1..AnswerLen(a) + 3 * sent : Fits(a, p, i) => Fits(b, p, i),
         NEW q \in Seq(Pieces), coming' = coming \o q, UNCHANGED <<stream, forwarded, end>>,
         AnswerLen(b) + 3 * sent' = AnswerLen(a) + 3 * sent + Len(q),
         \A i \in 1..Len(q) : Fits(b, q[i], AnswerLen(a) + 3 * sent + i)
  PROVE  Transcript(b)' /\ coming' \in Seq(Pieces)
  <1>0. AnswerLen(a) \in Nat
    BY AnswerLenFacts
  <1>1. /\ coming \in Seq(Pieces) /\ Len(coming) \in Nat /\ Len(stream) \in Nat
        /\ Len(forwarded) \in Nat /\ sent \in Nat /\ AnswerLen(a) \in Nat
    <2>1. /\ coming \in Seq(Pieces) /\ stream \in Seq(Pieces) /\ forwarded \in Seq(Pieces)
          /\ sent \in Nat
      BY BoundsAssumption DEF SyncTypeOK
    <2>2. QED
      BY <1>0, <2>1
  <1>2. Len(forwarded) + Len(stream) + Len(coming) = AnswerLen(a) + 3 * sent
    BY DEF Transcript
  <1>3. /\ coming' \in Seq(Pieces) /\ Len(coming') = Len(coming) + Len(q) /\ Len(q) \in Nat
        /\ \A i \in 1..Len(coming) : coming'[i] = coming[i]
        /\ \A i \in 1..Len(q) : coming'[Len(coming) + i] = q[i]
    BY <1>1, Concatenation
  <1>4. \A i \in 1..Len(forwarded) : Fits(b, forwarded[i], i)
    BY <1>1, <1>2 DEF Transcript
  <1>5. \A i \in 1..Len(stream) : Fits(b, stream[i], Len(forwarded) + i)
    <2> SUFFICES ASSUME NEW i \in 1..Len(stream) PROVE Fits(b, stream[i], Len(forwarded) + i)
      OBVIOUS
    <2>1. Len(forwarded) + i \in 1..AnswerLen(a) + 3 * sent
      BY <1>1, <1>2
    <2>2. QED
      BY <2>1 DEF Transcript
  <1>6. \A i \in 1..Len(coming') : Fits(b, coming'[i], Len(forwarded) + Len(stream) + i)
    <2> SUFFICES ASSUME NEW i \in 1..Len(coming')
                 PROVE  Fits(b, coming'[i], Len(forwarded) + Len(stream) + i)
      OBVIOUS
    <2>1. CASE i <= Len(coming)
      <3>1. /\ i \in 1..Len(coming) /\ coming'[i] = coming[i]
            /\ Len(forwarded) + Len(stream) + i \in 1..AnswerLen(a) + 3 * sent
        BY <1>1, <1>2, <1>3, <2>1
      <3>2. QED
        BY <3>1 DEF Transcript
    <2>2. CASE i > Len(coming)
      <3>1. /\ i - Len(coming) \in 1..Len(q) /\ Len(coming) + (i - Len(coming)) = i
            /\ Len(forwarded) + Len(stream) + i = AnswerLen(a) + 3 * sent + (i - Len(coming))
        BY <1>1, <1>2, <1>3, <2>2
      <3>2. coming'[i] = q[i - Len(coming)]
        BY <1>3, <3>1
      <3>3. QED
        BY <3>1, <3>2
    <2>3. QED
      BY <1>1, <1>3, <2>1, <2>2
  <1>7. Len(forwarded) + Len(stream) + Len(coming') = AnswerLen(b) + 3 * sent'
    BY <1>1, <1>2, <1>3
  <1>8. QED
    BY <1>3, <1>4, <1>5, <1>6, <1>7 DEF Transcript

-----------------------------------------------------------------------------
(* The master's steps *)

LEMMA PiecesFacts ==
  /\ \A n \in Nat : \A k \in {"HDR", "RDB", "line", "name", "key", "FULL", "CONT", "rest", "ERR"} :
       Piece(k, n) \in Pieces /\ Piece(k, n).kind = k /\ Piece(k, n).n = n
  /\ <<>> \in Seq(Pieces) /\ Len(<<>>) = 0
  BY DEF Piece, Pieces

LEMMA Prepended ==
  ASSUME NEW x \in Pieces, NEW q \in Seq(Pieces)
  PROVE  /\ <<x>> \o q \in Seq(Pieces) /\ Len(<<x>> \o q) = 1 + Len(q) /\ (<<x>> \o q)[1] = x
         /\ \A i \in 1..Len(q) : (<<x>> \o q)[1 + i] = q[i]
  <1> DEFINE h == <<x>>
  <1>1. h \in Seq(Pieces) /\ Len(h) = 1 /\ h[1] = x
    OBVIOUS
  <1> HIDE DEF h
  <1>2. /\ h \o q \in Seq(Pieces) /\ Len(h \o q) = Len(h) + Len(q)
        /\ \A i \in 1..Len(h) : (h \o q)[i] = h[i]
        /\ \A i \in 1..Len(q) : (h \o q)[Len(h) + i] = q[i]
    BY <1>1, Concatenation
  <1>3. (h \o q)[1] = x
    BY <1>1, <1>2
  <1>4. QED
    BY <1>1, <1>2, <1>3 DEF h

LEMMA SnapshotFacts ==
  /\ Snapshot \in Seq(Pieces) /\ Len(Snapshot) = Blocks + 1
  /\ \A i \in 1..Blocks + 1 : InSnapshot(Snapshot[i], i)
  <1> DEFINE b == [i \in 1..Blocks |-> Piece("RDB", i)]
             h == Piece("HDR", Blocks)
  <1>1. h \in Pieces /\ Blocks \in Nat
    BY PiecesFacts, BoundsAssumption
  <1>2. \A i \in 1..Blocks : Piece("RDB", i) \in Pieces /\ Piece("RDB", i).kind = "RDB"
    BY PiecesFacts, BoundsAssumption
  <1>3. b \in Seq(Pieces) /\ Len(b) = Blocks /\ \A i \in 1..Blocks : b[i].kind = "RDB"
    BY <1>2, BoundsAssumption
  <1>4. Snapshot = <<h>> \o b
    BY DEF Snapshot
  <1> HIDE DEF b, h
  <1>5. /\ Snapshot \in Seq(Pieces) /\ Len(Snapshot) = Blocks + 1 /\ Snapshot[1] = h
        /\ \A i \in 1..Blocks : Snapshot[1 + i] = b[i]
    <2>1. /\ Snapshot \in Seq(Pieces) /\ Len(Snapshot) = 1 + Len(b) /\ Snapshot[1] = h
          /\ \A i \in 1..Len(b) : Snapshot[1 + i] = b[i]
      BY <1>1, <1>3, <1>4, Prepended
    <2>2. QED
      BY <1>1, <1>3, <2>1
  <1>6. \A i \in 1..Blocks + 1 : i # 1 => i - 1 \in 1..Blocks /\ 1 + (i - 1) = i
    BY BoundsAssumption
  <1>7. \A i \in 1..Blocks + 1 : i # 1 => Snapshot[i].kind = "RDB"
    BY <1>3, <1>5, <1>6
  <1>8. QED
    BY <1>5, <1>7 DEF InSnapshot, h

\* A line of the handshake, and what the master sends after it.
LEMMA HandshakeFacts ==
  ASSUME NEW k \in {"CONT", "FULL"}, NEW q \in Seq(Pieces)
  PROVE  /\ Handshake(k) \in Seq(Pieces) /\ Len(Handshake(k)) = 2
         /\ Handshake(k)[1] = Piece(k, 0) /\ Handshake(k)[2] = Piece("rest", 0)
         /\ Handshake(k) \o q \in Seq(Pieces) /\ Len(Handshake(k) \o q) = 2 + Len(q)
         /\ (Handshake(k) \o q)[1] = Piece(k, 0) /\ (Handshake(k) \o q)[2] = Piece("rest", 0)
         /\ \A i \in 1..Len(q) : (Handshake(k) \o q)[2 + i] = q[i]
  <1> DEFINE h == Handshake(k)
  <1>1. Piece(k, 0) \in Pieces /\ Piece("rest", 0) \in Pieces
    BY PiecesFacts
  <1>2. h \in Seq(Pieces) /\ Len(h) = 2 /\ h[1] = Piece(k, 0) /\ h[2] = Piece("rest", 0)
    BY <1>1 DEF Handshake
  <1> HIDE DEF h
  <1>3. /\ h \o q \in Seq(Pieces) /\ Len(h \o q) = Len(h) + Len(q)
        /\ \A i \in 1..Len(h) : (h \o q)[i] = h[i]
        /\ \A i \in 1..Len(q) : (h \o q)[Len(h) + i] = q[i]
    BY <1>2, Concatenation
  <1>4. 1 \in 1..Len(h) /\ 2 \in 1..Len(h)
    BY <1>2
  <1>5. QED
    BY <1>2, <1>3, <1>4 DEF h

\* The answers, and the pieces that fit them.
LEMMA AnswerFits ==
  /\ <<Piece("ERR", 0)>> \in Seq(Pieces) /\ Len(<<Piece("ERR", 0)>>) = AnswerLen("ERR")
  /\ \A i \in 1..AnswerLen("ERR") : Fits("ERR", <<Piece("ERR", 0)>>[i], i)
  /\ Handshake("CONT") \in Seq(Pieces) /\ Len(Handshake("CONT")) = AnswerLen("CONT")
  /\ \A i \in 1..AnswerLen("CONT") : Fits("CONT", Handshake("CONT")[i], i)
  /\ Snapshot \in Seq(Pieces) /\ Len(Snapshot) = AnswerLen("SNAP")
  /\ \A i \in 1..AnswerLen("SNAP") : Fits("SNAP", Snapshot[i], i)
  /\ Handshake("FULL") \o Snapshot \in Seq(Pieces)
  /\ Len(Handshake("FULL") \o Snapshot) = AnswerLen("FULL")
  /\ \A i \in 1..AnswerLen("FULL") : Fits("FULL", (Handshake("FULL") \o Snapshot)[i], i)
  <1>1. /\ AnswerLen("ERR") = 1 /\ AnswerLen("CONT") = 2 /\ AnswerLen("SNAP") = Blocks + 1
        /\ AnswerLen("FULL") = Blocks + 3 /\ Blocks \in Nat
    BY BoundsAssumption DEF AnswerLen
  <1>2. /\ <<Piece("ERR", 0)>> \in Seq(Pieces) /\ Len(<<Piece("ERR", 0)>>) = 1
        /\ <<Piece("ERR", 0)>>[1] = Piece("ERR", 0)
    BY PiecesFacts
  <1>3. \A i \in 1..1 : i = 1 /\ ~(i > 1)
    OBVIOUS
  <1>4. \A i \in 1..AnswerLen("ERR") : Fits("ERR", <<Piece("ERR", 0)>>[i], i)
    BY <1>1, <1>2, <1>3 DEF Fits
  <1>5. \A i \in 1..AnswerLen("SNAP") : Fits("SNAP", Snapshot[i], i)
    BY <1>1, SnapshotFacts DEF Fits
  <1>6. \A i \in 1..AnswerLen("CONT") : Fits("CONT", Handshake("CONT")[i], i)
    <2>1. \A i \in 1..2 : i \in {1, 2} /\ ~(i > 2)
      OBVIOUS
    <2>2. Handshake("CONT")[1] = Piece("CONT", 0) /\ Handshake("CONT")[2] = Piece("rest", 0)
      BY HandshakeFacts, PiecesFacts
    <2>3. QED
      BY <1>1, <2>1, <2>2 DEF Fits
  <1> DEFINE q == Handshake("FULL") \o Snapshot
  <1>7. /\ q \in Seq(Pieces) /\ Len(q) = 2 + Len(Snapshot)
        /\ q[1] = Piece("FULL", 0) /\ q[2] = Piece("rest", 0)
        /\ \A i \in 1..Len(Snapshot) : q[2 + i] = Snapshot[i]
    BY SnapshotFacts, HandshakeFacts
  <1> HIDE DEF q
  <1>8. \A i \in 1..Blocks + 3 : Fits("FULL", q[i], i)
    <2> SUFFICES ASSUME NEW i \in 1..Blocks + 3 PROVE Fits("FULL", q[i], i)
      OBVIOUS
    <2>0. ~(i > AnswerLen("FULL"))
      BY <1>1
    <2>1. CASE i = 1
      BY <1>7, <2>0, <2>1 DEF Fits
    <2>2. CASE i = 2
      BY <1>7, <2>0, <2>2 DEF Fits
    <2>3. CASE i # 1 /\ i # 2
      <3>1. i - 2 \in 1..Blocks + 1 /\ 2 + (i - 2) = i
        BY <1>1, <2>3
      <3>2. InSnapshot(q[i], i - 2)
        BY <1>7, <3>1, SnapshotFacts
      <3>3. QED
        BY <2>0, <2>3, <3>2 DEF Fits
    <2>4. QED
      BY <2>1, <2>2, <2>3
  <1>9. Len(q) = AnswerLen("FULL")
    BY <1>1, <1>7, SnapshotFacts
  <1>10. Handshake("CONT") \in Seq(Pieces) /\ Len(Handshake("CONT")) = 2
    BY HandshakeFacts, PiecesFacts
  <1>11. QED
    BY <1>1, <1>2, <1>4, <1>5, <1>6, <1>7, <1>8, <1>9, <1>10, SnapshotFacts DEF q

LEMMA MasterAnswersInv ==
  ASSUME SyncInv, MasterAnswers
  PROVE  SyncInv'
  <1>0. SyncTypeOK /\ ~end /\ answered' = TRUE /\ asked \in {"SYNC", "PSYNC"} /\ ~answered
    BY DEF SyncInv, SyncTypeOK, MasterAnswers
  <1>1. PICK a \in Answers : Asked(a) /\ Transcript(a) /\ Position(a)
    BY DEF SyncInv, Follows
  <1>2. a = "none" /\ sent = 0 /\ AnswerLen("none") = 0
    BY <1>0, <1>1 DEF Asked, AnswerLen
  <1>3. PICK b \in {"ERR", "SNAP", "FULL", "CONT"}, q \in Seq(Pieces) :
          /\ coming' = coming \o q /\ Len(q) = AnswerLen(b)
          /\ asked = IF b \in {"ERR", "SNAP"} THEN "SYNC" ELSE "PSYNC"
          /\ \A i \in 1..Len(q) : Fits(b, q[i], i)
    <2>1. CASE asked = "SYNC"
      <3>1. coming' = coming \o Snapshot \/ coming' = coming \o <<Piece("ERR", 0)>>
        BY <2>1 DEF MasterAnswers
      <3>2. QED
        BY <2>1, <3>1, AnswerFits
    <2>2. CASE asked = "PSYNC"
      <3>1. \/ coming' = coming \o (Handshake("FULL") \o Snapshot)
            \/ coming' = coming \o Handshake("CONT")
        BY <2>2 DEF MasterAnswers
      <3>2. QED
        BY <2>2, <3>1, AnswerFits
    <2>3. QED
      BY <1>0, <2>1, <2>2
  <1>4. UNCHANGED <<stream, asked, sent, end, state, bulk, rpc, errno, forwarded, scanned, alone>>
    BY DEF MasterAnswers
  <1>5. Transcript(b)' /\ coming' \in Seq(Pieces)
    <2>1. b \in Answers /\ "none" \in Answers /\ AnswerLen(b) \in Nat
      BY <1>3, AnswerLenFacts DEF Answers
    <2>2. \A i \in 1..Len(q) : Fits(b, q[i], AnswerLen("none") + 3 * sent + i)
      BY <1>2, <1>3
    <2>3. \A p : \A i \in 1..AnswerLen("none") + 3 * sent : Fits("none", p, i) => Fits(b, p, i)
      BY <1>2
    <2>4. AnswerLen(b) + 3 * sent' = AnswerLen("none") + 3 * sent + Len(q)
      BY <1>2, <1>3, <1>4, <2>1
    <2>5. QED
      BY <1>0, <1>1, <1>2, <1>3, <1>4, <2>1, <2>2, <2>3, <2>4, SentTranscript, Zenon
  <1>6. SyncTypeOK'
    BY <1>0, <1>4, <1>5 DEF SyncTypeOK
  <1>7. Asked(b)'
    BY <1>0, <1>1, <1>2, <1>3, <1>4 DEF Asked
  <1>8. Position(b)'
    BY <1>0, <1>1, <1>2, <1>3, <1>4 DEF Position, InStep, LineLen, Asked, SyncTypeOK
  <1>9. ScannedToTheEnd'
    BY <1>4, EndKept DEF SyncInv
  <1>10. QED
    BY <1>3, <1>5, <1>6, <1>7, <1>8, <1>9 DEF SyncInv, Follows, Answers

LEMMA MasterSendsInv ==
  ASSUME SyncInv, MasterSends
  PROVE  SyncInv'
  <1>0. /\ SyncTypeOK /\ ~end /\ answered /\ sent \in Nat /\ sent' = sent + 1 /\ sent' \in 0..MaxCommands
        /\ coming' = coming \o Command(sent + 1)
        /\ UNCHANGED <<stream, asked, answered, end, state, bulk, rpc, errno, forwarded, scanned, alone>>
    BY BoundsAssumption DEF SyncInv, SyncTypeOK, MasterSends
  <1>1. PICK a \in Answers : Asked(a) /\ Transcript(a) /\ Position(a)
    BY DEF SyncInv, Follows
  <1>2. a # "none" /\ AnswerLen(a) \in Nat
    BY <1>0, <1>1, AnswerLenFacts DEF Asked
  <1> DEFINE q == Command(sent + 1)
             m == sent + 1
  <1>3. /\ q \in Seq(Pieces) /\ Len(q) = 3
        /\ q[1] = Piece("line", m) /\ q[2] = Piece("name", m) /\ q[3] = Piece("key", m)
    BY <1>0, PiecesFacts DEF Command
  <1>4. \A i \in 1..3 : InCommands(q[i], 3 * sent + i)
    <2>1. InCommands(q[1], 3 * sent + 1)
      BY <1>0, <1>3 DEF InCommands
    <2>2. InCommands(q[2], 3 * sent + 2)
      BY <1>0, <1>3 DEF InCommands
    <2>3. InCommands(q[3], 3 * sent + 3)
      BY <1>0, <1>3 DEF InCommands
    <2>4. QED
      BY <2>1, <2>2, <2>3
  <1> HIDE DEF q
  <1>5. \A i \in 1..Len(q) : Fits(a, q[i], AnswerLen(a) + 3 * sent + i)
    <2> SUFFICES ASSUME NEW i \in 1..3 PROVE Fits(a, q[i], AnswerLen(a) + 3 * sent + i)
      BY <1>3
    <2>1. /\ AnswerLen(a) + 3 * sent + i > AnswerLen(a)
          /\ (AnswerLen(a) + 3 * sent + i) - AnswerLen(a) = 3 * sent + i
      BY <1>0, <1>2
    <2>2. QED
      BY <1>2, <1>4, <2>1 DEF Fits
  <1>6. AnswerLen(a) + 3 * sent' = AnswerLen(a) + 3 * sent + Len(q)
    BY <1>0, <1>2, <1>3
  <1>7. Transcript(a)' /\ coming' \in Seq(Pieces)
    BY <1>0, <1>1, <1>3, <1>5, <1>6, SentTranscript DEF q
  <1>8. SyncTypeOK'
    BY <1>0, <1>7 DEF SyncTypeOK
  <1>9. Asked(a)' /\ Position(a)'
    BY <1>0, <1>1, <1>2 DEF Asked, Position, InStep
  <1>10. ScannedToTheEnd'
    BY <1>0, EndKept DEF SyncInv
  <1>11. QED
    BY <1>7, <1>8, <1>9, <1>10 DEF SyncInv, Follows

\* Before the answer nothing is passed on.
LEMMA NothingYet ==
  ASSUME SyncTypeOK, Transcript("none")
  PROVE  Len(forwarded) = 0 /\ Len(stream) = 0
  <1>1. Len(forwarded) \in Nat /\ Len(stream) \in Nat /\ AnswerLen("none") = 0
    BY DEF SyncTypeOK, AnswerLen
  <1>2. ~Fits("none", forwarded[1], 1) /\ ~Fits("none", stream[1], Len(forwarded) + 1)
    BY <1>1 DEF Fits
  <1>3. QED
    BY <1>1, <1>2 DEF Transcript

LEMMA SlaveAsksInv ==
  ASSUME SyncInv, SlaveAsks
  PROVE  SyncInv'
  <1>0. /\ SyncTypeOK /\ rpc = "idle" /\ asked = "none" /\ asked' \in {"SYNC", "PSYNC"}
        /\ alone' => asked' = "SYNC"
        /\ state' = IF alone' THEN "SYNC_START" ELSE state
        /\ UNCHANGED <<coming, stream, answered, sent, end, bulk, rpc, errno, forwarded, scanned>>
    BY DEF SyncInv, SlaveAsks
  <1>1. PICK a \in Answers : Asked(a) /\ Transcript(a) /\ Position(a)
    BY DEF SyncInv, Follows
  <1>2. a = "none" /\ state = "START"
    BY <1>0, <1>1 DEF Asked
  <1>3. SyncTypeOK'
    <2>1. state' \in {"START", "SYNC_START"}
      <3>1. alone' => state' = "SYNC_START"
        BY <1>0, Zenon
      <3>2. ~alone' => state' = "START"
        BY <1>0, <1>2, Zenon
      <3>3. QED
        BY <3>1, <3>2, Zenon
    <2>2. /\ SyncTypeOK /\ asked' \in {"none", "SYNC", "PSYNC"}
          /\ state' \in {"START", "SYNC_START", "SYNC", "RUNNING"}
          /\ UNCHANGED <<coming, stream, answered, sent, end, bulk, rpc, errno, forwarded, scanned>>
      BY <1>0, <2>1
    <2>3. alone' \in BOOLEAN
      BY Zenon DEF SlaveAsks
    <2>4. QED
      BY <2>2, <2>3 DEF SyncTypeOK
  <1>4. Transcript(a)'
    BY <1>0, <1>1 DEF Transcript
  <1>5. Asked(a)' /\ Position(a)'
    BY <1>0, <1>1, <1>2, NothingYet DEF Asked, Position, InStep, LineLen
  <1>6. ScannedToTheEnd'
    BY <1>0, EndKept DEF SyncInv
  <1>7. QED
    BY <1>3, <1>4, <1>5, <1>6 DEF SyncInv, Follows

LEMMA ArriveInv ==
  ASSUME SyncInv, Arrive
  PROVE  SyncInv'
  <1>0. /\ SyncTypeOK /\ coming # <<>> /\ coming' = Tail(coming)
        /\ stream' = Append(stream, Head(coming))
        /\ UNCHANGED <<asked, answered, sent, end, state, bulk, rpc, errno, forwarded, scanned, alone>>
    BY DEF SyncInv, Arrive
  <1>1. PICK a \in Answers : Asked(a) /\ Transcript(a) /\ Position(a)
    BY DEF SyncInv, Follows
  <1>2. /\ coming \in Seq(Pieces) /\ stream \in Seq(Pieces) /\ forwarded \in Seq(Pieces)
        /\ Len(coming) \in Nat /\ Len(coming) > 0 /\ Len(stream) \in Nat /\ Len(forwarded) \in Nat
    BY <1>0 DEF SyncTypeOK
  <1>3. /\ coming' \in Seq(Pieces) /\ stream' \in Seq(Pieces)
        /\ Len(coming') = Len(coming) - 1 /\ Len(stream') = Len(stream) + 1
        /\ \A i \in 1..Len(coming') : coming'[i] = coming[i + 1]
        /\ \A i \in 1..Len(stream) : stream'[i] = stream[i]
        /\ stream'[Len(stream) + 1] = coming[1]
    BY <1>0, <1>2
  <1>4. \A i \in 1..Len(stream') : Fits(a, stream'[i], Len(forwarded) + i)
    <2> SUFFICES ASSUME NEW i \in 1..Len(stream') PROVE Fits(a, stream'[i], Len(forwarded) + i)
      OBVIOUS
    <2>1. CASE i <= Len(stream)
      BY <1>1, <1>2, <1>3, <2>1 DEF Transcript
    <2>2. CASE i = Len(stream) + 1
      <3>1. 1 \in 1..Len(coming) /\ Len(forwarded) + Len(stream) + 1 = Len(forwarded) + i
        BY <1>2, <2>2
      <3>2. QED
        BY <1>1, <1>3, <2>2, <3>1 DEF Transcript
    <2>3. QED
      BY <1>2, <1>3, <2>1, <2>2
  <1>5. \A i \in 1..Len(coming') : Fits(a, coming'[i], Len(forwarded) + Len(stream') + i)
    <2> SUFFICES ASSUME NEW i \in 1..Len(coming')
                 PROVE  Fits(a, coming'[i], Len(forwarded) + Len(stream') + i)
      OBVIOUS
    <2>1. /\ i + 1 \in 1..Len(coming)
          /\ Len(forwarded) + Len(stream') + i = Len(forwarded) + Len(stream) + (i + 1)
      BY <1>2, <1>3
    <2>2. QED
      BY <1>1, <1>3, <2>1 DEF Transcript
  <1>6. Len(stream') + Len(coming') = Len(stream) + Len(coming)
    BY <1>2, <1>3
  <1>7. Len(forwarded) + Len(stream') + Len(coming') = Len(forwarded) + Len(stream) + Len(coming)
    BY <1>2, <1>3
  <1>8. Transcript(a)'
    BY <1>0, <1>1, <1>4, <1>5, <1>7 DEF Transcript
  <1>9. SyncTypeOK'
    BY <1>0, <1>3 DEF SyncTypeOK
  <1>10. Asked(a)' /\ Position(a)'
    BY <1>0, <1>1 DEF Asked, Position, InStep
  <1>11. ScannedToTheEnd'
    BY <1>0, EndKept DEF SyncInv
  <1>12. QED
    BY <1>8, <1>9, <1>10, <1>11 DEF SyncInv, Follows

LEMMA MasterEndsInv ==
  ASSUME SyncInv, MasterEnds
  PROVE  SyncInv'
  <1>0. /\ SyncTypeOK /\ end' = TRUE /\ coming' \in {coming, <<>>}
        /\ UNCHANGED <<stream, asked, answered, sent, state, bulk, rpc, errno, forwarded, scanned, alone>>
    BY DEF SyncInv, MasterEnds
  <1>1. PICK a \in Answers : Asked(a) /\ Transcript(a) /\ Position(a)
    BY DEF SyncInv, Follows
  <1>2. Len(<<>>) = 0 /\ 1..0 = {} /\ <<>> \in Seq(Pieces)
    OBVIOUS
  <1>3. Transcript(a)'
    BY <1>0, <1>1, <1>2 DEF Transcript
  <1>4. SyncTypeOK'
    BY <1>0, <1>2 DEF SyncTypeOK
  <1>5. Asked(a)' /\ Position(a)'
    BY <1>0, <1>1 DEF Asked, Position, InStep
  <1>6. ScannedToTheEnd'
    BY <1>0, EndKept DEF SyncInv
  <1>7. QED
    BY <1>3, <1>4, <1>5, <1>6 DEF SyncInv, Follows

-----------------------------------------------------------------------------
(* readFromMaster *)

\* closeFd begins a new connection: nothing is known of an answer.
LEMMA ResetInv ==
  ASSUME SyncInv, Reset
  PROVE  SyncInv'
  <1>0. /\ SyncTypeOK /\ coming' = <<>> /\ stream' = <<>> /\ asked' = "none" /\ answered' = FALSE
        /\ sent' = 0 /\ end' = FALSE /\ state' = "START" /\ forwarded' = <<>> /\ scanned' = <<>>
        /\ alone' = FALSE /\ rpc' = "down" /\ bulk' = bulk /\ errno' = errno
    BY DEF SyncInv, Reset
  <1>2. Len(<<>>) = 0 /\ 1..0 = {} /\ <<>> \in Seq(Pieces) /\ "none" \in Answers
    BY DEF Answers
  <1>3. Transcript("none")'
    <2>1. AnswerLen("none") = 0
      BY DEF AnswerLen
    <2>2. Len(forwarded') = 0 /\ Len(stream') = 0 /\ Len(coming') = 0 /\ sent' = 0
      BY <1>0, <1>2
    <2>3. QED
      BY <2>1, <2>2 DEF Transcript
  <1>4. SyncTypeOK'
    <2>1. sent' \in 0..MaxCommands
      BY <1>0, BoundsAssumption
    <2>2. answered' \in BOOLEAN /\ end' \in BOOLEAN /\ alone' \in BOOLEAN
      BY <1>0
    <2>3. /\ coming' \in Seq(Pieces) /\ stream' \in Seq(Pieces)
          /\ forwarded' \in Seq(Pieces) /\ scanned' \in Seq(Pieces)
      BY <1>0, <1>2
    <2>4. bulk' \in Nat /\ errno' \in {"EAGAIN", "other"}
      BY <1>0 DEF SyncTypeOK
    <2>5. QED
      BY <1>0, <2>1, <2>2, <2>3, <2>4 DEF SyncTypeOK
  <1>5. Asked("none")' /\ Position("none")'
    BY <1>0, <1>2 DEF Asked, Position
  <1>6. ScannedToTheEnd'
    <2>1. DOMAIN scanned' = {} /\ Len(scanned') = 0 /\ Len(forwarded') = 0
      BY <1>0, <1>2
    <2>2. QED
      BY <2>1 DEF ScannedToTheEnd
  <1>7. QED
    BY <1>2, <1>3, <1>4, <1>5, <1>6 DEF SyncInv, Follows

LEMMA CalledInv ==
  ASSUME SyncInv, Called
  PROVE  SyncInv'
  <1>0. /\ SyncTypeOK /\ rpc = "idle" /\ state \in {"SYNC_START", "SYNC"}
        /\ rpc' = IF state = "SYNC_START" THEN "header" ELSE "payload"
        /\ UNCHANGED <<stream, coming, asked, answered, sent, end, state, bulk, errno, forwarded, scanned, alone>>
    BY DEF SyncInv, Called, masterVars
  <1>1. PICK a \in Answers : Asked(a) /\ Transcript(a) /\ Position(a)
    BY DEF SyncInv, Follows
  <1>3. Transcript(a)' /\ SyncTypeOK'
    BY <1>0, <1>1 DEF Transcript, SyncTypeOK
  <1>5. Asked(a)' /\ Position(a)'
    BY <1>0, <1>1 DEF Asked, Position, InStep
  <1>6. ScannedToTheEnd'
    BY <1>0, EndKept DEF SyncInv
  <1>7. QED
    BY <1>3, <1>5, <1>6 DEF SyncInv, Follows

\* The handler reads one piece, and scans nothing, in SYNC_START_STATE and
\* SYNC_STATE.
LEMMA OnePiece ==
  ASSUME SyncInv, state # "RUNNING", state' # "RUNNING", stream # <<>>, Pass(1),
         UNCHANGED <<masterVars, scanned, alone>>,
         bulk' \in Nat, state' \in {"START", "SYNC_START", "SYNC"},
         rpc' \in {"idle", "header", "line", "payload", "dead"},
         NEW a \in Answers, Asked(a), Transcript(a), Position(a),
         asked # "none", alone => InStep(a)'
  PROVE  SyncInv'
  <1>1. SyncTypeOK /\ UNCHANGED <<coming, asked, answered, sent, end>> /\ Len(scanned) = 0
    BY DEF SyncInv, masterVars, Position
  <1>2. 1 \in 1..Len(stream)
    BY <1>1, NextPiece
  <1>3. forwarded' \in Seq(Pieces) /\ stream' \in Seq(Pieces) /\ errno' \in {"EAGAIN", "other"}
    BY <1>1, <1>2, PassMoves
  <1>4. SyncTypeOK'
    BY <1>1, <1>3 DEF SyncTypeOK
  <1>5. Transcript(a)'
    BY <1>1, <1>2, PassTranscript
  <1>6. Asked(a)'
    BY <1>1 DEF Asked
  <1>7. Position(a)'
    BY <1>1 DEF Position
  <1>8. ScannedToTheEnd'
    <2>1. SyncTypeOK => (Len(scanned) = 0 => ScannedToTheEnd)
      BY NothingScanned
    <2>2. DOMAIN scanned' = 1..Len(scanned') /\ Len(scanned') = 0 /\ Len(forwarded') \in Nat /\ 1..0 = {}
      BY <1>1, <1>3 DEF SyncTypeOK
    <2>3. QED
      BY <2>2 DEF ScannedToTheEnd
  <1>9. QED
    BY <1>4, <1>5, <1>6, <1>7, <1>8 DEF SyncInv, Follows

\* In its loops the handler is not in RUNNING_STATE, and something was asked.
LEMMA LoopFacts ==
  ASSUME SyncInv, rpc \in {"header", "line", "payload"}, stream # <<>>,
         NEW a \in Answers, Asked(a), Transcript(a), Position(a)
  PROVE  /\ state \in {"START", "SYNC_START", "SYNC"} /\ asked # "none" /\ a # "none"
         /\ Head(stream) \in Pieces /\ 1 \in 1..Len(stream)
         /\ Fits(a, Head(stream), Len(forwarded) + 1)
  <1>1. SyncTypeOK
    BY DEF SyncInv
  <1>2. /\ a # "none" /\ Head(stream) \in Pieces /\ 1 \in 1..Len(stream)
        /\ Fits(a, Head(stream), Len(forwarded) + 1)
    BY <1>1, NextPiece
  <1>3. QED
    BY <1>1, <1>2 DEF SyncTypeOK, Position, Asked

LEMMA BulkSizesNat ==
  ASSUME NEW p \in Pieces
  PROVE  BulkSizes(p) \subseteq Nat
  BY BoundsAssumption DEF BulkSizes, Pieces

\* The header gives bulk_size: the blocks of the snapshot, or after +CONTINUE
\* what is left of the first command's name.
LEMMA ReadHeaderInv ==
  ASSUME SyncInv, ReadHeader
  PROVE  SyncInv'
  <1>0. /\ SyncTypeOK /\ rpc = "header" /\ stream # <<>> /\ Pass(1)
        /\ UNCHANGED <<masterVars, scanned, alone>>
        /\ UNCHANGED <<coming, asked, answered, sent, end>>
    BY DEF SyncInv, ReadHeader, masterVars
  <1>1. PICK a \in Answers : Asked(a) /\ Transcript(a) /\ Position(a)
    BY DEF SyncInv, Follows
  <1> DEFINE p == Head(stream)
  <1>2. /\ state \in {"START", "SYNC_START", "SYNC"} /\ asked # "none" /\ a # "none"
        /\ p \in Pieces /\ 1 \in 1..Len(stream) /\ Fits(a, p, Len(forwarded) + 1)
    BY <1>0, <1>1, LoopFacts
  <1>3. \/ p.kind \in {"ERR", "RDB"} /\ rpc' = "dead" /\ UNCHANGED <<state, bulk>>
        \/ p.kind # "ERR" /\ bulk' \in BulkSizes(p) /\ state' = "SYNC" /\ rpc' = "idle"
        \/ p.kind \in {"RDB", "rest"} /\ rpc' \in {"line", rpc} /\ UNCHANGED <<state, bulk>>
    BY DEF ReadHeader
  <1> HIDE DEF p
  <1>4. /\ bulk' \in Nat /\ state' \in {"START", "SYNC_START", "SYNC"}
        /\ rpc' \in {"idle", "header", "line", "payload", "dead"}
    BY <1>0, <1>2, <1>3, BulkSizesNat DEF SyncTypeOK
  <1>5. ASSUME alone PROVE InStep(a)'
    <2>1. state = "SYNC_START" /\ Len(forwarded) = LineLen(a)
      BY <1>0, <1>1, <1>5 DEF Position, InStep, SyncTypeOK
    <2>2. Len(forwarded') = LineLen(a) + 1
      BY <1>0, <1>2, <2>1, PassMoves
    <2>3. \/ a = "ERR" /\ p = Piece("ERR", 0)
          \/ a \in {"SNAP", "FULL"} /\ p = Piece("HDR", Blocks)
          \/ a = "CONT" /\ p = Piece("line", 1)
      <3>0. Fits(a, p, LineLen(a) + 1)
        BY <1>2, <2>1
      <3>1. CASE a = "ERR"
        BY <3>0, <3>1 DEF Fits, LineLen, AnswerLen
      <3>2. CASE a = "SNAP"
        BY <3>0, <3>2, BoundsAssumption DEF Fits, LineLen, AnswerLen, InSnapshot
      <3>3. CASE a = "FULL"
        BY <3>0, <3>3, BoundsAssumption DEF Fits, LineLen, AnswerLen, InSnapshot
      <3>4. CASE a = "CONT"
        BY <3>0, <3>4 DEF Fits, LineLen, AnswerLen, InCommands
      <3>5. QED
        BY <1>2, <3>1, <3>2, <3>3, <3>4 DEF Answers
    <2>4. CASE a = "ERR"
      <3>1. rpc' = "dead" /\ state' = "SYNC_START" /\ Len(forwarded') = 1
        BY <1>3, <2>1, <2>2, <2>3, <2>4 DEF Piece, LineLen
      <3>2. QED
        BY <2>4, <3>1 DEF InStep
    <2>5. CASE a # "ERR"
      <3>1. /\ state' = "SYNC" /\ rpc' = "idle"
            /\ bulk' = IF a = "CONT" THEN 1 ELSE Blocks
        BY <1>3, <2>3, <2>5 DEF Piece, BulkSizes
      <3>2. Len(forwarded') + bulk' = Skipped(a) /\ Len(forwarded') > LineLen(a)
        BY <2>2, <2>3, <2>5, <3>1, BoundsAssumption DEF Skipped, LineLen, AnswerLen
      <3>3. QED
        BY <2>3, <2>5, <3>1, <3>2 DEF InStep
    <2>6. QED
      BY <2>4, <2>5
  <1>6. QED
    BY <1>0, <1>1, <1>2, <1>4, <1>5, OnePiece

\* A line that goes on in a block: the proxy is not in step.
LEMMA ReadLineInv ==
  ASSUME SyncInv, ReadLine
  PROVE  SyncInv'
  <1>0. /\ SyncTypeOK /\ rpc = "line" /\ stream # <<>> /\ Pass(1)
        /\ UNCHANGED <<masterVars, scanned, alone>>
        /\ \/ rpc' = "dead" /\ UNCHANGED <<state, bulk>>
           \/ bulk' \in 0..MaxBulk /\ state' = "SYNC" /\ rpc' = "idle"
           \/ UNCHANGED <<state, bulk, rpc>>
    BY DEF SyncInv, ReadLine
  <1>1. PICK a \in Answers : Asked(a) /\ Transcript(a) /\ Position(a)
    BY DEF SyncInv, Follows
  <1>2. state \in {"START", "SYNC_START", "SYNC"} /\ asked # "none"
    BY <1>0, <1>1, LoopFacts
  <1>3. ~alone
    BY <1>0, <1>1, <1>2 DEF Position, InStep
  <1>4. /\ bulk' \in Nat /\ state' \in {"START", "SYNC_START", "SYNC"}
        /\ rpc' \in {"idle", "header", "line", "payload", "dead"}
    BY <1>0, <1>2, BoundsAssumption DEF SyncTypeOK
  <1>5. QED
    BY <1>0, <1>1, <1>2, <1>3, <1>4, OnePiece

LEMMA ReadPayloadInv ==
  ASSUME SyncInv, ReadPayload
  PROVE  SyncInv'
  <1>0. /\ SyncTypeOK /\ rpc = "payload" /\ bulk > 0 /\ stream # <<>> /\ Pass(1) /\ bulk' = bulk - 1
        /\ UNCHANGED <<masterVars, scanned, alone>> /\ UNCHANGED <<state, rpc>>
    BY DEF SyncInv, ReadPayload
  <1>1. PICK a \in Answers : Asked(a) /\ Transcript(a) /\ Position(a)
    BY DEF SyncInv, Follows
  <1>2. /\ state \in {"START", "SYNC_START", "SYNC"} /\ asked # "none" /\ a # "none"
        /\ 1 \in 1..Len(stream)
    BY <1>0, <1>1, LoopFacts
  <1>3. Len(forwarded) \in Nat /\ bulk \in Nat /\ LineLen(a) \in Nat /\ Len(forwarded') = Len(forwarded) + 1
    BY <1>0, <1>2, AnswerLenFacts, PassMoves DEF SyncTypeOK
  <1>4. /\ Len(forwarded') + bulk' = Len(forwarded) + bulk /\ bulk' \in Nat
        /\ Len(forwarded) > LineLen(a) => Len(forwarded') > LineLen(a)
    BY <1>0, <1>3
  <1>5. ASSUME alone PROVE InStep(a)'
    BY <1>0, <1>1, <1>2, <1>4, <1>5 DEF Position, InStep
  <1>6. QED
    BY <1>0, <1>1, <1>2, <1>4, <1>5, OnePiece

\* When bulk_size is 0 the stream is exactly at the first command, or after
\* +CONTINUE at the third piece of it.
LEMMA PayloadDoneInv ==
  ASSUME SyncInv, PayloadDone
  PROVE  SyncInv'
  <1>0. /\ SyncTypeOK /\ rpc = "payload" /\ bulk = 0 /\ state' = "RUNNING" /\ rpc' = "idle"
        /\ UNCHANGED <<stream, coming, asked, answered, sent, end, bulk, errno, forwarded, scanned, alone>>
    BY DEF SyncInv, PayloadDone, masterVars
  <1>1. PICK a \in Answers : Asked(a) /\ Transcript(a) /\ Position(a)
    BY DEF SyncInv, Follows
  <1>2. Len(forwarded) \in Nat /\ state # "RUNNING" /\ Len(scanned) = 0
    BY <1>0, <1>1 DEF Position, SyncTypeOK
  <1>3. Transcript(a)'
    BY <1>0, <1>1 DEF Transcript
  <1>4. SyncTypeOK'
    BY <1>0 DEF SyncTypeOK
  <1>5. asked # "none"
    BY <1>0, <1>1 DEF Asked
  <1>6. Asked(a)'
    BY <1>0, <1>1, <1>5 DEF Asked
  <1>7. alone => a \in {"SNAP", "FULL", "CONT"} /\ Len(forwarded) = Skipped(a)
    BY <1>0, <1>1, <1>2 DEF Position, InStep, SyncTypeOK
  <1>8. Position(a)'
    BY <1>0, <1>2, <1>7 DEF Position, InStep
  <1>9. ScannedToTheEnd'
    BY <1>0, EndKept DEF SyncInv
  <1>10. QED
    BY <1>3, <1>4, <1>6, <1>8, <1>9 DEF SyncInv, Follows

\* The scanner gets what the slave gets.
LEMMA ReadRunningInv ==
  ASSUME SyncInv, ReadRunning
  PROVE  SyncInv'
  <1>0. /\ SyncTypeOK /\ rpc = "idle" /\ state = "RUNNING" /\ UNCHANGED masterVars
        /\ UNCHANGED <<coming, asked, answered, sent, end, state, bulk, rpc, alone>>
    BY DEF SyncInv, ReadRunning, masterVars
  <1>1. PICK a \in Answers : Asked(a) /\ Transcript(a) /\ Position(a)
    BY DEF SyncInv, Follows
  <1>2. PICK n \in 1..Len(stream) : Pass(n) /\ scanned' = scanned \o SubSeq(stream, 1, n)
    BY DEF ReadRunning
  <1>3. /\ forwarded' \in Seq(Pieces) /\ stream' \in Seq(Pieces) /\ errno' \in {"EAGAIN", "other"}
        /\ Len(forwarded') = Len(forwarded) + n
        /\ \A i \in 1..Len(forwarded) : forwarded'[i] = forwarded[i]
        /\ \A i \in 1..n : forwarded'[Len(forwarded) + i] = stream[i]
    BY <1>0, <1>2, PassMoves
  <1>4. /\ Len(forwarded) \in Nat /\ Len(scanned) \in Nat /\ Len(stream) \in Nat /\ n \in Nat
        /\ stream \in Seq(Pieces) /\ scanned \in Seq(Pieces) /\ Skipped(a) \in Nat
    BY <1>0, AnswerLenFacts DEF SyncTypeOK
  <1> DEFINE h == SubSeq(stream, 1, n)
             before == Len(forwarded) - Len(scanned)
  <1>5. h \in Seq(Pieces) /\ Len(h) = n /\ \A i \in 1..n : h[i] = stream[i]
    BY <1>4
  <1>6. scanned' = scanned \o h
    BY <1>2
  <1> HIDE DEF h
  <1>7. /\ scanned' \in Seq(Pieces) /\ Len(scanned') = Len(scanned) + n
        /\ \A i \in 1..Len(scanned) : scanned'[i] = scanned[i]
        /\ \A i \in 1..n : scanned'[Len(scanned) + i] = stream[i]
    BY <1>4, <1>5, <1>6, Concatenation
  <1>8. /\ before \in Nat /\ Len(forwarded) = before + Len(scanned)
        /\ \A i \in 1..Len(scanned) : scanned[i] = forwarded[before + i]
    <2>1. DOMAIN scanned = 1..Len(scanned)
      BY <1>4
    <2>2. QED
      BY <1>4, <2>1 DEF SyncInv, ScannedToTheEnd
  <1>9. Len(forwarded') - Len(scanned') = before
    BY <1>3, <1>4, <1>7
  <1> HIDE DEF before
  <1>10. \A i \in 1..Len(scanned') : scanned'[i] = forwarded'[before + i]
    <2> SUFFICES ASSUME NEW i \in 1..Len(scanned') PROVE scanned'[i] = forwarded'[before + i]
      OBVIOUS
    <2>1. CASE i <= Len(scanned)
      <3>1. i \in 1..Len(scanned) /\ before + i \in 1..Len(forwarded)
        BY <1>4, <1>8, <2>1
      <3>2. QED
        BY <1>3, <1>7, <1>8, <3>1
    <2>2. CASE i > Len(scanned)
      <3>1. /\ i - Len(scanned) \in 1..n /\ Len(scanned) + (i - Len(scanned)) = i
            /\ Len(forwarded) + (i - Len(scanned)) = before + i
        BY <1>4, <1>7, <1>8, <2>2
      <3>2. scanned'[i] = stream[i - Len(scanned)]
        BY <1>7, <3>1
      <3>3. forwarded'[before + i] = stream[i - Len(scanned)]
        BY <1>3, <3>1
      <3>4. QED
        BY <3>2, <3>3
    <2>3. QED
      BY <1>4, <1>7, <2>1, <2>2
  <1>11. ScannedToTheEnd'
    <2>1. DOMAIN scanned' = 1..Len(scanned') /\ Len(scanned') <= Len(forwarded')
      BY <1>3, <1>4, <1>7, <1>8
    <2>2. QED
      BY <1>9, <1>10, <2>1 DEF ScannedToTheEnd
  <1>12. Transcript(a)'
    BY <1>0, <1>1, <1>2, PassTranscript
  <1>13. SyncTypeOK'
    BY <1>0, <1>3, <1>7 DEF SyncTypeOK
  <1>14. Asked(a)'
    BY <1>0, <1>1 DEF Asked
  <1>15. Position(a)'
    <2>1. ASSUME alone' PROVE InStep(a)'
      <3>1. a \in {"SNAP", "FULL", "CONT"} /\ Len(forwarded) = Skipped(a) + Len(scanned)
        BY <1>0, <1>1, <2>1 DEF Position, InStep
      <3>2. Len(forwarded') = Skipped(a) + Len(scanned')
        BY <1>3, <1>4, <1>7, <3>1
      <3>3. QED
        BY <1>0, <3>1, <3>2 DEF InStep
    <2>2. QED
      BY <1>0, <2>1 DEF Position
  <1>16. QED
    BY <1>11, <1>12, <1>13, <1>14, <1>15 DEF SyncInv, Follows

\* A line of the handshake is the first that is passed on.
LEMMA HandshakeFirst ==
  ASSUME SyncTypeOK, NEW a \in Answers, Transcript(a), stream # <<>>,
         Head(stream).kind \in {"CONT", "FULL"}
  PROVE  a \in {"CONT", "FULL"} /\ Len(forwarded) = 0
  <1> DEFINE p == Head(stream)
             i == Len(forwarded) + 1
  <1>1. p \in Pieces /\ Fits(a, p, i) /\ a # "none"
    BY NextPiece
  <1>2. i \in Nat /\ i >= 1 /\ AnswerLen(a) \in Nat
    BY AnswerLenFacts DEF SyncTypeOK
  <1>3. p.kind \in {"CONT", "FULL"}
    OBVIOUS
  <1> HIDE DEF p, i
  <1>4. ~(i > AnswerLen(a))
    <2> SUFFICES ASSUME i > AnswerLen(a) PROVE FALSE
      OBVIOUS
    <2>1. InCommands(p, i - AnswerLen(a))
      BY <1>1 DEF Fits
    <2>2. QED
      BY <1>3, <2>1 DEF InCommands, Piece
  <1>5. a # "ERR" /\ a # "SNAP"
    BY <1>1, <1>3, <1>4 DEF Fits, Piece, InSnapshot
  <1>6. a \in {"CONT", "FULL"}
    BY <1>1, <1>5 DEF Answers
  <1>7. i = 1
    BY <1>1, <1>2, <1>3, <1>4, <1>6 DEF Fits, Piece, InSnapshot
  <1>8. QED
    BY <1>6, <1>7 DEF i, SyncTypeOK

LEMMA ReadStartInv ==
  ASSUME SyncInv, ReadStart
  PROVE  SyncInv'
  <1>0. /\ SyncTypeOK /\ rpc = "idle" /\ state = "START" /\ UNCHANGED masterVars
        /\ UNCHANGED <<coming, asked, answered, sent, end, bulk, rpc, scanned>>
    BY DEF SyncInv, ReadStart, masterVars
  <1>1. PICK a \in Answers : Asked(a) /\ Transcript(a) /\ Position(a)
    BY DEF SyncInv, Follows
  <1>2. ~alone /\ Len(scanned) = 0
    BY <1>0, <1>1 DEF Position, InStep
  <1>3. PICK n \in 1..Len(stream) :
          /\ Pass(n) /\ alone' = (alone \/ (AtHandshake /\ n = 2))
          /\ state' \in CASE AtHandshake /\ n = 2 -> {"SYNC_START"}
                         [] AtHandshake /\ n # 2 -> {"START", "SYNC_START"}
                         [] OTHER                -> {"START"}
    BY <1>0 DEF ReadStart
  <1>4. stream # <<>> /\ n \in Nat /\ Len(forwarded) \in Nat
    BY <1>0 DEF SyncTypeOK
  <1>5. /\ forwarded' \in Seq(Pieces) /\ stream' \in Seq(Pieces) /\ errno' \in {"EAGAIN", "other"}
        /\ Len(forwarded') = Len(forwarded) + n
    BY <1>0, <1>3, PassMoves
  <1>6. state' \in {"START", "SYNC_START"} /\ alone' \in BOOLEAN
    BY <1>2, <1>3
  <1>7. SyncTypeOK'
    BY <1>0, <1>5, <1>6 DEF SyncTypeOK
  <1>8. Transcript(a)'
    BY <1>0, <1>1, <1>3, PassTranscript
  <1>9. Asked(a)'
    <2>1. a # "none"
      BY <1>0, <1>1, <1>4, NextPiece
    <2>2. QED
      BY <1>0, <1>1, <2>1 DEF Asked
  <1>10. ASSUME alone' PROVE InStep(a)'
    <2>1. AtHandshake /\ n = 2
      BY <1>2, <1>3, <1>10
    <2>2. a \in {"CONT", "FULL"} /\ Len(forwarded) = 0
      BY <1>0, <1>1, <1>4, <2>1, HandshakeFirst DEF AtHandshake
    <2>3. state' = "SYNC_START" /\ rpc' = "idle" /\ Len(forwarded') = LineLen(a)
      BY <1>0, <1>3, <1>5, <2>1, <2>2 DEF LineLen
    <2>4. QED
      BY <2>2, <2>3 DEF InStep
  <1>11. Position(a)'
    BY <1>0, <1>2, <1>6, <1>10 DEF Position
  <1>12. ScannedToTheEnd'
    <2>1. DOMAIN scanned' = {} /\ Len(scanned') = 0 /\ Len(forwarded') \in Nat
      BY <1>0, <1>2, <1>5 DEF SyncTypeOK
    <2>2. QED
      BY <2>1 DEF ScannedToTheEnd
  <1>13. QED
    BY <1>7, <1>8, <1>9, <1>11, <1>12 DEF SyncInv, Follows

LEMMA UnchangedInv ==
  ASSUME SyncInv, UNCHANGED syncVars
  PROVE  SyncInv'
  <1>1. UNCHANGED <<stream, coming, asked, answered, sent, end, state, bulk, rpc, errno, forwarded, scanned, alone>>
    BY DEF syncVars, masterVars
  <1>2. QED
    BY <1>1, SMTT(30) DEF SyncInv, SyncTypeOK, Follows, Asked, Transcript, Position, InStep,
                          ScannedToTheEnd

LEMMA NoBytesInv ==
  ASSUME SyncInv, NoBytes
  PROVE  SyncInv'
  <1>1. CASE Reset
    BY <1>1, ResetInv
  <1>2. CASE UNCHANGED syncVars
    BY <1>2, UnchangedInv
  <1>3. CASE WouldBlock
    <2>1. /\ UNCHANGED <<stream, coming, asked, answered, sent, end, state, bulk, rpc, forwarded, scanned, alone>>
          /\ errno' = "EAGAIN"
      BY <1>3 DEF WouldBlock, masterVars
    <2>2. SyncTypeOK'
      BY <2>1 DEF SyncInv, SyncTypeOK
    <2>3. Follows'
      BY <2>1 DEF SyncInv, Follows, Asked, Transcript, Position, InStep
    <2>4. ScannedToTheEnd'
      BY <2>1, EndKept DEF SyncInv
    <2>5. QED
      BY <2>2, <2>3, <2>4 DEF SyncInv
  <1>4. QED
    BY <1>1, <1>2, <1>3 DEF NoBytes, EndOfStream

LEMMA ReconnectInv ==
  ASSUME SyncInv, Reconnect
  PROVE  SyncInv'
  <1>0. /\ SyncTypeOK /\ rpc = "down" /\ rpc' = "idle" /\ errno' = "other"
        /\ UNCHANGED <<stream, coming, asked, answered, sent, end, state, bulk, forwarded, scanned, alone>>
    BY DEF SyncInv, Reconnect, masterVars
  <1>1. PICK a \in Answers : Asked(a) /\ Transcript(a) /\ Position(a)
    BY DEF SyncInv, Follows
  <1>2. state = "START"
    BY <1>0, <1>1 DEF Asked
  <1>3. Transcript(a)'
    BY <1>0, <1>1 DEF Transcript
  <1>4. SyncTypeOK'
    BY <1>0 DEF SyncTypeOK
  <1>5. Asked(a)' /\ Position(a)'
    BY <1>0, <1>1, <1>2 DEF Asked, Position, InStep
  <1>6. ScannedToTheEnd'
    BY <1>0, EndKept DEF SyncInv
  <1>7. QED
    BY <1>3, <1>4, <1>5, <1>6 DEF SyncInv, Follows

-----------------------------------------------------------------------------
(* The theorems *)

LEMMA SyncInitInv == SyncInit => SyncInv
  <1> SUFFICES ASSUME SyncInit PROVE SyncInv
    OBVIOUS
  <1>0. /\ coming = <<>> /\ stream = <<>> /\ asked = "none" /\ answered = FALSE /\ sent = 0
        /\ end = FALSE /\ state = "START" /\ bulk = 0 /\ rpc = "idle" /\ errno = "other"
        /\ forwarded = <<>> /\ scanned = <<>> /\ alone = FALSE
    BY DEF SyncInit
  <1>1. Len(<<>>) = 0 /\ 1..0 = {} /\ <<>> \in Seq(Pieces) /\ "none" \in Answers
    BY DEF Answers
  <1>2. SyncTypeOK
    <2>1. sent \in 0..MaxCommands /\ bulk \in Nat
      BY <1>0, BoundsAssumption
    <2>2. answered \in BOOLEAN /\ end \in BOOLEAN /\ alone \in BOOLEAN
      BY <1>0
    <2>3. QED
      BY <1>0, <1>1, <2>1, <2>2 DEF SyncTypeOK
  <1>3. Transcript("none")
    <2>1. AnswerLen("none") = 0
      BY DEF AnswerLen
    <2>2. Len(forwarded) = 0 /\ Len(stream) = 0 /\ Len(coming) = 0 /\ sent = 0
      BY <1>0, <1>1
    <2>3. QED
      BY <2>1, <2>2 DEF Transcript
  <1>4. Asked("none") /\ Position("none")
    BY <1>0, <1>1 DEF Asked, Position
  <1>5. ScannedToTheEnd
    BY <1>0, <1>1, <1>2, NothingScanned
  <1>6. QED
    BY <1>1, <1>2, <1>3, <1>4, <1>5 DEF SyncInv, Follows

LEMMA SyncNextInv == SyncInv /\ [SyncNext]_syncVars => SyncInv'
  <1> SUFFICES ASSUME SyncInv, [SyncNext]_syncVars PROVE SyncInv'
    OBVIOUS
  <1>1. CASE Master
    BY <1>1, SlaveAsksInv, MasterAnswersInv, MasterSendsInv, ArriveInv, MasterEndsInv DEF Master
  <1>2. CASE SyncHandler
    BY <1>2, CalledInv, ReadHeaderInv, ReadLineInv, ReadPayloadInv, PayloadDoneInv, ReadRunningInv,
       ReadStartInv, NoBytesInv DEF SyncHandler
  <1>3. CASE Reconnect
    BY <1>3, ReconnectInv
  <1>4. CASE UNCHANGED syncVars
    BY <1>4, UnchangedInv
  <1>5. QED
    BY <1>1, <1>2, <1>3, <1>4 DEF SyncNext

\* The invariant holds for every size of the snapshot, number of commands and
\* cut of the stream into reads: while a line that starts the synchronisation and
\* was read alone is behind it, readFromMaster is where its state and bulk_size
\* say, and whatever it read, what the scanner got is the end of what the slave
\* got (read_handler.c).
THEOREM SyncInvariant == SyncSpec => []SyncInv
  BY SyncInitInv, SyncNextInv, PTL DEF SyncSpec

LEMMA InvSnapshotNotScanned == SyncInv => SnapshotNotScanned
  <1> SUFFICES ASSUME SyncInv, alone, NEW i \in DOMAIN scanned
               PROVE  scanned[i].kind \in {"line", "name", "key"}
    BY DEF SnapshotNotScanned
  <1>1. PICK a \in Answers : Asked(a) /\ Transcript(a) /\ Position(a)
    BY DEF SyncInv, Follows
  <1>2. /\ i \in 1..Len(scanned) /\ Len(scanned) \in Nat /\ i \in Nat /\ Len(scanned) # 0
        /\ Len(forwarded) \in Nat /\ Skipped(a) \in Nat /\ AnswerLen(a) \in Nat
        /\ Skipped(a) >= AnswerLen(a)
    BY AnswerLenFacts DEF SyncInv, SyncTypeOK
  <1>3. state = "RUNNING"
    BY <1>1, <1>2 DEF Position
  <1>4. scanned[i] = forwarded[Skipped(a) + i] /\ Len(forwarded) = Skipped(a) + Len(scanned)
    <2>1. Len(forwarded) = Skipped(a) + Len(scanned)
      BY <1>1, <1>3 DEF Position, InStep
    <2>2. Len(forwarded) - Len(scanned) = Skipped(a)
      BY <1>2, <2>1
    <2>3. QED
      BY <2>1, <2>2 DEF SyncInv, ScannedToTheEnd
  <1>5. Skipped(a) + i \in 1..Len(forwarded) /\ Skipped(a) + i > AnswerLen(a)
    BY <1>2, <1>4
  <1>6. Fits(a, scanned[i], Skipped(a) + i)
    BY <1>1, <1>4, <1>5 DEF Transcript
  <1>7. PICK j : InCommands(scanned[i], j)
    BY <1>5, <1>6 DEF Fits
  <1>8. QED
    BY <1>7 DEF InCommands, Piece

LEMMA InvCommandsScanned == SyncInv => CommandsScanned
  <1> SUFFICES ASSUME SyncInv, alone, NEW i \in DOMAIN forwarded, forwarded[i].kind = "line",
                      Continued => forwarded[i].n > 1
               PROVE  In(forwarded[i], scanned)
    BY DEF CommandsScanned, AllScanned, SyncInv
  <1>1. PICK a \in Answers : Asked(a) /\ Transcript(a) /\ Position(a)
    BY DEF SyncInv, Follows
  <1>2. /\ DOMAIN forwarded = 1..Len(forwarded) /\ DOMAIN scanned = 1..Len(scanned)
        /\ i \in 1..Len(forwarded) /\ Len(scanned) \in Nat /\ i \in Nat /\ i > 0
        /\ Len(forwarded) \in Nat /\ Skipped(a) \in Nat /\ AnswerLen(a) \in Nat
        /\ Skipped(a) >= AnswerLen(a) /\ bulk \in Nat
    BY AnswerLenFacts DEF SyncInv, SyncTypeOK
  <1>3. Fits(a, forwarded[i], i)
    BY <1>1, <1>2 DEF Transcript
  <1>4. i > Skipped(a)
    <2> SUFFICES ASSUME i <= Skipped(a) PROVE FALSE
      BY <1>2
    <2>1. CASE a = "CONT"
      <3>1. AnswerLen(a) = 2 /\ Skipped(a) = 4
        BY <2>1 DEF AnswerLen, Skipped
      <3>2. 1 \in 1..Len(forwarded) /\ ~(1 > AnswerLen(a))
        BY <1>2, <3>1
      <3>3. Fits(a, forwarded[1], 1)
        BY <1>1, <3>2 DEF Transcript
      <3>4. forwarded[1] = Piece("CONT", 0)
        BY <2>1, <3>2, <3>3 DEF Fits
      <3>5. Continued
        BY <1>2, <3>2, <3>4 DEF Continued, In
      <3>6. i # 1 /\ i # 2
        <4>1. i # 1
          BY <3>4 DEF Piece
        <4>2. i = 2 => forwarded[i] = Piece("rest", 0)
          BY <1>3, <2>1, <3>1 DEF Fits
        <4>3. QED
          BY <4>1, <4>2 DEF Piece
      <3>7. i > AnswerLen(a) /\ i - AnswerLen(a) \in {1, 2}
        BY <1>2, <3>1, <3>6
      <3>8. InCommands(forwarded[i], i - AnswerLen(a))
        BY <1>3, <3>7 DEF Fits
      <3>9. PICK m \in 1..(i - AnswerLen(a)) :
              \/ i - AnswerLen(a) = 3 * m - 2 /\ forwarded[i] = Piece("line", m)
              \/ i - AnswerLen(a) = 3 * m - 1 /\ forwarded[i] = Piece("name", m)
              \/ i - AnswerLen(a) = 3 * m /\ forwarded[i] = Piece("key", m)
        BY <3>8 DEF InCommands
      <3>10. forwarded[i] = Piece("line", m) /\ m = 1
        BY <1>2, <3>7, <3>9 DEF Piece
      <3>11. QED
        BY <3>5, <3>10 DEF Piece
    <2>2. CASE a # "CONT"
      <3>1. i <= AnswerLen(a) /\ ~(i > AnswerLen(a))
        BY <1>2, <2>2 DEF Skipped
      <3>2. a # "none"
        BY <1>2, <3>1, AnswerLenFacts
      <3>3. CASE a = "ERR"
        BY <1>3, <3>1, <3>3 DEF Fits, Piece
      <3>4. CASE a = "SNAP"
        BY <1>3, <3>1, <3>4 DEF Fits, InSnapshot, Piece
      <3>5. CASE a = "FULL"
        BY <1>3, <3>1, <3>5 DEF Fits, InSnapshot, Piece
      <3>6. QED
        BY <2>2, <3>2, <3>3, <3>4, <3>5 DEF Answers
    <2>3. QED
      BY <2>1, <2>2
  <1>5. state = "RUNNING"
    <2> SUFFICES ASSUME state # "RUNNING" PROVE Len(forwarded) <= Skipped(a)
      BY <1>2, <1>4
    <2>1. LineLen(a) <= Skipped(a)
      BY BoundsAssumption DEF LineLen, Skipped, AnswerLen, Answers
    <2>2. a = "ERR" => Skipped(a) = 1
      BY DEF Skipped, AnswerLen
    <2>3. QED
      BY <1>1, <1>2, <2>1, <2>2, SMTT(30) DEF Position, InStep, SyncInv, SyncTypeOK
  <1>6. /\ Len(forwarded) = Skipped(a) + Len(scanned)
        /\ \A k \in 1..Len(scanned) : scanned[k] = forwarded[Skipped(a) + k]
    <2>1. Len(forwarded) = Skipped(a) + Len(scanned)
      BY <1>1, <1>5 DEF Position, InStep
    <2>2. Len(forwarded) - Len(scanned) = Skipped(a)
      BY <1>2, <2>1
    <2>3. QED
      BY <1>2, <2>1, <2>2 DEF SyncInv, ScannedToTheEnd
  <1>7. i - Skipped(a) \in 1..Len(scanned) /\ Skipped(a) + (i - Skipped(a)) = i
    BY <1>2, <1>4, <1>6
  <1>8. scanned[i - Skipped(a)] = forwarded[i]
    BY <1>6, <1>7
  <1>9. QED
    BY <1>2, <1>7, <1>8 DEF In

\* Types of the parser and of the stream.
THEOREM SyncTypes == SyncSpec => []SyncTypeOK
  <1>1. SyncInv => SyncTypeOK
    BY DEF SyncInv
  <1>2. QED
    BY <1>1, SyncInvariant, PTL

\* When the line that announces a snapshot was read alone, then whatever its size
\* and however its blocks arrive, nothing of it is taken for a command: bulk_size
\* counts it exactly.
THEOREM SnapshotNeverScanned == SyncSpec => []SnapshotNotScanned
  BY SyncInvariant, InvSnapshotNotScanned, PTL

\* What processInputBuffer has seen is always the end of what was passed on to
\* the slave; and when the line that starts the synchronisation was read alone,
\* it has seen every command from its first line, but for the first one after
\* +CONTINUE.
THEOREM CommandsAlwaysScanned == SyncSpec => []CommandsScanned
  BY SyncInvariant, InvCommandsScanned, PTL

-----------------------------------------------------------------------------
(* anet.c loses no socket, for every set of descriptor numbers and every   *)
(* number of addresses.  The invariant says for every system call what the *)
(* running function still has to close: nothing, or the one socket in its  *)
(* local variable, which no caller knows of yet.                           *)

AnetTypeOK ==
  /\ open \subseteq Fds
  /\ held \subseteq Fds
  /\ call \in Calls \union {NoCall}
  /\ apc \in {"idle", "accept", "resolve", "socket", "options", "connect", "listen", "error",
              "end", "exit"}
  /\ addrs \in Nat
  /\ sock \in Fds \union {ANET_ERR}

\* The local variable holds the only open socket no caller was given.
InFlight == sock \in Fds /\ sock \notin held /\ open = held \union {sock}

\* What the running call is, by its next system call.
CallAgrees ==
  /\ apc = "accept" => call.kind = "accept"
  /\ apc = "connect" => call.kind = "connect"
  /\ apc = "listen" => call.kind = "server"
  /\ apc \in {"resolve", "socket", "options", "error", "end"} => call.kind \in {"connect", "server"}

\* What is open, by the next system call.
OpenAgrees ==
  /\ apc \in {"idle", "accept", "resolve", "socket"} => open = held
  /\ apc \in {"resolve", "socket"} => sock = ANET_ERR
  /\ apc \in {"options", "connect", "listen"} => InFlight
  /\ apc = "error" /\ call.kind = "connect" => sock \notin held /\ open \ {sock} = held
  /\ apc = "end" /\ sock # ANET_ERR => InFlight
  /\ apc = "end" /\ sock = ANET_ERR /\ call.kind = "connect" => open = held

AnetInv == AnetTypeOK /\ CallAgrees /\ OpenAgrees

\* The kernel's choice of a number for a new socket (socket and accept).
LEMMA LowestFree ==
  ASSUME Free # {}
  PROVE  Min(Free) \in Fds \ open
  <1>1. Free \subseteq Nat
    BY FdsAssumption DEF Free
  <1>2. QED
    BY <1>1, MinOfNats DEF Free

\* ANET_ERR is no descriptor.
LEMMA ErrNotFd == ANET_ERR \notin Fds
  BY FdsAssumption DEF ANET_ERR

LEMMA AnetInitInv == AnetInit => AnetInv
  BY DEF AnetInit, AnetInv, AnetTypeOK, CallAgrees, OpenAgrees, InFlight

\* One step per system call of anet.c.
LEMMA AnetNextInv == AnetInv /\ [AnetNext]_anetVars => AnetInv'
  <1> SUFFICES ASSUME AnetInv, [AnetNext]_anetVars
               PROVE  AnetInv'
    OBVIOUS
  <1> USE ErrNotFd DEF AnetInv, AnetTypeOK, CallAgrees, OpenAgrees, InFlight
  <1>1. ASSUME NEW c \in Calls, Call(c) PROVE AnetInv'
    BY <1>1 DEF Call, Calls
  <1>2. ASSUME NEW n \in Fds, CloseHeld(n) PROVE AnetInv'
    BY <1>2 DEF CloseHeld
  <1>3. CASE Resolve
    BY <1>3, AddrsAssumption DEF Resolve, Returns
  <1>4. CASE Socket
    <2>1. CASE addrs = 0
      BY <1>4, <2>1 DEF Socket
    <2>2. CASE addrs > 0
      BY <1>4, <2>2, LowestFree DEF Socket
    <2>3. QED
      BY <2>1, <2>2
  <1>5. CASE Options
    BY <1>5 DEF Options
  <1>6. CASE Connect
    BY <1>6 DEF Connect
  <1>7. CASE anetListen
    BY <1>7 DEF anetListen
  <1>8. CASE Error
    BY <1>8 DEF Error
  <1>9. CASE End
    <2>1. CASE sock = ANET_ERR /\ call.source /\ call.best
      <3>0. call.source # FALSE
        BY <2>1
      <3>1. call \in [kind : {"connect"}, nonblock : BOOLEAN, source : BOOLEAN, best : BOOLEAN]
        <4>1. call # NoCall
          BY <1>9 DEF End, NoCall
        <4>2. call \notin [kind : {"server", "accept"}, nonblock : {FALSE}, source : {FALSE},
                           best : {FALSE}]
          BY <3>0
        <4>3. QED
          BY <4>1, <4>2, Zenon DEF Calls
      <3>2. call' \in Calls /\ call'.kind = "connect"
        BY <1>9, <2>1, <3>1 DEF End, Calls
      <3>3. QED
        BY <1>9, <2>1, <3>1, <3>2 DEF End
    <2>2. CASE ~(sock = ANET_ERR /\ call.source /\ call.best)
      BY <1>9, <2>2 DEF End, Returns
    <2>3. QED
      BY <2>1, <2>2
  <1>10. CASE Accept
    BY <1>10, LowestFree DEF Accept, Returns, anetVars
  <1>11. CASE UNCHANGED anetVars
    BY <1>11 DEF anetVars
  <1>12. QED
    BY <1>1, <1>2, <1>3, <1>4, <1>5, <1>6, <1>7, <1>8, <1>9, <1>10, <1>11 DEF AnetNext

\* What each system call of anet.c may find open.
THEOREM AnetInvariant == AnetSpec => []AnetInv
  BY AnetInitInv, AnetNextInv, PTL DEF AnetSpec

\* When a call of anet.c has returned, the open sockets are those the callers
\* were given, whatever system calls failed on the way.
THEOREM NoSocketLost == AnetSpec => []NoStraySocket
  <1>1. AnetInv => NoStraySocket
    BY DEF AnetInv, OpenAgrees, NoStraySocket
  <1>2. QED
    BY <1>1, AnetInvariant, PTL
-----------------------------------------------------------------------------
(* The search for DEL commands in lrued_query.c, for every stream, every    *)
(* size of a read and every place where reads end.  Laid says where the     *)
(* commands are in the stream; everything after that is about numbers of    *)
(* symbols.                                                                 *)

Char == {"*", "D", "$", "len", "k", "e", "S", "x", "nul", "other"} \X Nat

\* The symbols of command n, the first m commands, the streams.
Length(kind) == IF kind = "DEL" THEN 7 ELSE IF kind = "DelSET" THEN 10 ELSE 5
Size(n) == Length(kinds[n])
Pre(m) == FlattenSeq([i \in 1..m |-> Text(kinds[i], i)])
Chosen == kinds \in [1..StreamLength -> Kinds]

\* One sequence behind the other.
IsJoin(e, q, w) ==
  /\ Len(e) = Len(q) + Len(w)
  /\ \A j \in 1 .. Len(q) : e[j] = q[j]
  /\ \A j \in 1 .. Len(w) : e[Len(q) + j] = w[j]

LEMMA Lengthened ==
  ASSUME NEW T, NEW q \in Seq(T), NEW w \in Seq(T), NEW e, e = q \o w
  PROVE  e \in Seq(T) /\ Len(q) \in Nat /\ Len(w) \in Nat /\ IsJoin(e, q, w)
  <1>1. Len(q) \in Nat /\ Len(w) \in Nat
    OBVIOUS
  <1>2. e \in Seq(T) /\ Len(e) = Len(q) + Len(w)
    OBVIOUS
  <1>3. \A j \in 1 .. Len(q) : e[j] = q[j]
    BY <1>1
  <1>4. \A j \in 1 .. Len(w) : e[Len(q) + j] = w[j]
    BY <1>1
  <1>5. QED
    BY <1>1, <1>2, <1>3, <1>4 DEF IsJoin

\* Sequences of five and of seven.
LEMMA FiveIn ==
  ASSUME NEW T, NEW a \in T, NEW b \in T, NEW c \in T, NEW d \in T, NEW e \in T,
         NEW t, t = <<a, b, c, d, e>>
  PROVE  /\ t \in Seq(T) /\ Len(t) = 5
         /\ t[1] = a /\ t[2] = b /\ t[3] = c /\ t[4] = d /\ t[5] = e
  OBVIOUS

LEMMA SevenIn ==
  ASSUME NEW T, NEW a \in T, NEW b \in T, NEW c \in T, NEW d \in T, NEW e \in T, NEW f \in T,
         NEW g \in T, NEW t, t = <<a, b, c, d, e, f, g>>
  PROVE  /\ t \in Seq(T) /\ Len(t) = 7
         /\ t[1] = a /\ t[2] = b /\ t[3] = c /\ t[4] = d /\ t[5] = e /\ t[6] = f /\ t[7] = g
  OBVIOUS

\* Where the bytes of a DEL begin in a text.
Shift(kind) == IF kind = "DelSET" THEN 3 ELSE 0
HasDel == {"DEL", "DelSET"}

\* Zeros and old bytes.
Junk(c) == c \in {Nul, Other}

LEMMA JunkIn ==
  ASSUME NEW c, Junk(c)
  PROVE  c \in Char /\ c[1] \in {"nul", "other"}
  BY DEF Junk, Nul, Other, Char

LEMMA NulIs == Nul \in Char /\ Junk(Nul) /\ Junk(Other)
  BY DEF Junk, Nul, Char

\* The bytes of a DEL from the symbol behind o on.
IsDelText(t, o, n) ==
  /\ t[o + 1][1] = "*" /\ t[o + 2][1] = "D" /\ t[o + 3][1] = "$" /\ t[o + 5][2] = n
  /\ ~Junk(t[o + 4]) /\ ~Junk(t[o + 5])

\* A command's symbols: "*" is the first one, but for the one in a value, and
\* only in the bytes of a DEL it is followed by "D".
IsText(t, kind, n) ==
  /\ t \in Seq(Char)
  /\ Len(t) = Length(kind)
  /\ t[1][1] = "*"
  /\ t[2][1] = "D" <=> kind = "DEL"
  /\ \A i \in 1 .. Length(kind) : t[i][1] = "*" => i = 1 \/ (i = 4 /\ kind \in {"StarSET", "DelSET"})
  /\ kind = "StarSET" => t[5][1] # "D"
  /\ kind \in HasDel => IsDelText(t, Shift(kind), n)

LEMMA DelTextIs ==
  ASSUME NEW n \in Nat
  PROVE  /\ DEL(n) \in Seq(Char) /\ Len(DEL(n)) = 7
         /\ DEL(n)[1] = <<"*", n>> /\ DEL(n)[2] = <<"D", n>> /\ DEL(n)[3] = <<"$", n>>
         /\ DEL(n)[4] = <<"len", n>> /\ DEL(n)[5] = <<"k", n>> /\ DEL(n)[6] = <<"k", n>>
         /\ DEL(n)[7] = <<"e", n>>
  <1>1. PICK a, b, c, d, e, f, g : a = <<"*", n>> /\ b = <<"D", n>> /\ c = <<"$", n>>
          /\ d = <<"len", n>> /\ e = <<"k", n>> /\ f = <<"k", n>> /\ g = <<"e", n>>
    OBVIOUS
  <1>2. a \in Char /\ b \in Char /\ c \in Char /\ d \in Char /\ e \in Char /\ f \in Char /\ g \in Char
    BY <1>1 DEF Char
  <1>3. PICK t : t = DEL(n)
    OBVIOUS
  <1>4. t = <<a, b, c, d, e, f, g>>
    BY <1>1, <1>3 DEF DEL
  <1>5. QED
    BY <1>1, <1>2, <1>3, <1>4, SevenIn

\* The texts of five symbols begin like a SET.
LEMMA SetTextIs ==
  ASSUME NEW n \in Nat, NEW y \in Char, NEW t, t = << <<"*", n>>, <<"S", n>>, <<"x", n>>, y, <<"e", n>> >>,
         NEW kind \in Kinds, kind \notin HasDel, y[1] = "*" => kind = "StarSET"
  PROVE  IsText(t, kind, n)
  <1>1. PICK a, b, c, e : a = <<"*", n>> /\ b = <<"S", n>> /\ c = <<"x", n>> /\ e = <<"e", n>>
    OBVIOUS
  <1>2. a \in Char /\ b \in Char /\ c \in Char /\ e \in Char
    BY <1>1 DEF Char
  <1>3. PICK u : u = <<a, b, c, y, e>>
    OBVIOUS
  <1>4. /\ t \in Seq(Char) /\ Len(t) = 5
        /\ t[1] = a /\ t[2] = b /\ t[3] = c /\ t[4] = y /\ t[5] = e
    <2>1. /\ u \in Seq(Char) /\ Len(u) = 5
          /\ u[1] = a /\ u[2] = b /\ u[3] = c /\ u[4] = y /\ u[5] = e
      BY <1>2, <1>3, FiveIn
    <2>2. t = u
      BY <1>1, <1>3
    <2>3. QED
      BY <2>1, <2>2
  <1>5. a[1] = "*" /\ b[1] = "S" /\ c[1] = "x" /\ e[1] = "e"
    BY <1>1
  <1>6. Length(kind) = 5 /\ kind # "DEL" /\ kind # "DelSET"
    BY DEF Length, HasDel
  <1>7. ASSUME NEW i \in 1 .. 5, t[i][1] = "*" PROVE i = 1 \/ (i = 4 /\ kind = "StarSET")
    <2>1. i = 1 \/ i = 2 \/ i = 3 \/ i = 4 \/ i = 5
      OBVIOUS
    <2>2. QED
      BY <1>4, <1>5, <1>7, <2>1
  <1>8. QED
    BY <1>4, <1>5, <1>6, <1>7 DEF IsText, HasDel

LEMMA TextIs ==
  ASSUME NEW kind \in Kinds, NEW n \in Nat
  PROVE  IsText(Text(kind, n), kind, n)
  <1>1. CASE kind = "DEL"
    <2>1. PICK t : t = DEL(n)
      OBVIOUS
    <2>2. Text(kind, n) = t /\ Length(kind) = 7 /\ Shift(kind) = 0
      BY <1>1, <2>1 DEF Text, Length, Shift
    <2>3. /\ t \in Seq(Char) /\ Len(t) = 7
          /\ t[1] = <<"*", n>> /\ t[2] = <<"D", n>> /\ t[3] = <<"$", n>> /\ t[4] = <<"len", n>>
          /\ t[5] = <<"k", n>> /\ t[6] = <<"k", n>> /\ t[7] = <<"e", n>>
      BY <2>1, DelTextIs
    <2>4. ASSUME NEW i \in 1 .. 7, t[i][1] = "*" PROVE i = 1
      <3>1. i = 1 \/ i = 2 \/ i = 3 \/ i = 4 \/ i = 5 \/ i = 6 \/ i = 7
        OBVIOUS
      <3>2. QED
        BY <2>3, <2>4, <3>1
    <2>5. ~Junk(t[4]) /\ ~Junk(t[5])
      BY <2>3, JunkIn
    <2>6. IsDelText(t, 0, n)
      <3>1. 0 + 1 = 1 /\ 0 + 2 = 2 /\ 0 + 3 = 3 /\ 0 + 4 = 4 /\ 0 + 5 = 5
        OBVIOUS
      <3>2. t[1][1] = "*" /\ t[2][1] = "D" /\ t[3][1] = "$" /\ t[5][2] = n
        BY <2>3
      <3>3. QED
        BY <2>5, <3>1, <3>2, Zenon DEF IsDelText
    <2>7. t[1][1] = "*" /\ t[2][1] = "D" /\ kind # "StarSET"
      BY <1>1, <2>3
    <2>8. IsText(t, "DEL", n)
      BY <1>1, <2>2, <2>3, <2>4, <2>6, <2>7 DEF IsText
    <2>9. QED
      BY <1>1, <2>2, <2>8
  <1>2. CASE kind = "SET"
    <2>1. <<"x", n>> \in Char
      BY DEF Char
    <2>2. Text(kind, n) = << <<"*", n>>, <<"S", n>>, <<"x", n>>, <<"x", n>>, <<"e", n>> >>
      BY <1>2 DEF Text, SET
    <2>3. kind \notin HasDel /\ <<"x", n>>[1] = "x"
      BY <1>2 DEF HasDel
    <2>4. QED
      BY <2>1, <2>2, <2>3, SetTextIs
  <1>3. CASE kind = "StarSET"
    <2>1. <<"*", n>> \in Char
      BY DEF Char
    <2>2. Text(kind, n) = << <<"*", n>>, <<"S", n>>, <<"x", n>>, <<"*", n>>, <<"e", n>> >>
      BY <1>3 DEF Text, StarSET
    <2>3. kind \notin HasDel
      BY <1>3 DEF HasDel
    <2>4. QED
      BY <1>3, <2>1, <2>2, <2>3, SetTextIs
  <1>4. CASE kind = "NulSET"
    <2>1. Nul \in Char /\ Nul[1] = "nul"
      BY NulIs DEF Nul
    <2>2. Text(kind, n) = << <<"*", n>>, <<"S", n>>, <<"x", n>>, Nul, <<"e", n>> >>
      BY <1>4 DEF Text, NulSET
    <2>3. kind \notin HasDel
      BY <1>4 DEF HasDel
    <2>4. QED
      BY <2>1, <2>2, <2>3, SetTextIs
  <1>5. CASE kind = "DelSET"
    <2>1. PICK a, b, c, q, w, t : /\ a = <<"*", n>> /\ b = <<"S", n>> /\ c = <<"x", n>>
                                 /\ q = <<a, b, c>> /\ w = DEL(n) /\ t = q \o w
      OBVIOUS
    <2>2. a \in Char /\ b \in Char /\ c \in Char
      BY <2>1 DEF Char
    <2>3. q \in Seq(Char) /\ Len(q) = 3 /\ q[1] = a /\ q[2] = b /\ q[3] = c
      BY <2>1, <2>2
    <2>4. /\ w \in Seq(Char) /\ Len(w) = 7
          /\ w[1] = <<"*", n>> /\ w[2] = <<"D", n>> /\ w[3] = <<"$", n>> /\ w[4] = <<"len", n>>
          /\ w[5] = <<"k", n>> /\ w[6] = <<"k", n>> /\ w[7] = <<"e", n>>
      BY <2>1, DelTextIs
    <2>5. t \in Seq(Char) /\ IsJoin(t, q, w)
      BY <2>1, <2>3, <2>4, Lengthened
    <2>6. /\ t \in Seq(Char) /\ Len(t) = 10 /\ t[1] = a /\ t[2] = b /\ t[3] = c
          /\ \A j \in 1 .. 7 : t[3 + j] = w[j]
      <3>1. 1 \in 1 .. 3 /\ 2 \in 1 .. 3 /\ 3 \in 1 .. 3
        OBVIOUS
      <3>2. QED
        BY <2>3, <2>4, <2>5, <3>1 DEF IsJoin
    <2>7. /\ t[4] = w[1] /\ t[5] = w[2] /\ t[6] = w[3] /\ t[7] = w[4] /\ t[8] = w[5]
          /\ t[9] = w[6] /\ t[10] = w[7]
      <3>1. /\ 1 \in 1 .. 7 /\ 2 \in 1 .. 7 /\ 3 \in 1 .. 7 /\ 4 \in 1 .. 7 /\ 5 \in 1 .. 7
            /\ 6 \in 1 .. 7 /\ 7 \in 1 .. 7
            /\ 3 + 1 = 4 /\ 3 + 2 = 5 /\ 3 + 3 = 6 /\ 3 + 4 = 7 /\ 3 + 5 = 8 /\ 3 + 6 = 9 /\ 3 + 7 = 10
        OBVIOUS
      <3>2. QED
        BY <2>6, <3>1
    <2>8. /\ t[1][1] = "*" /\ t[2][1] = "S" /\ t[3][1] = "x" /\ t[4][1] = "*" /\ t[5][1] = "D"
          /\ t[6][1] = "$" /\ t[7][1] = "len" /\ t[8] = <<"k", n>> /\ t[9][1] = "k" /\ t[10][1] = "e"
      BY <2>1, <2>4, <2>6, <2>7
    <2>9. ASSUME NEW i \in 1 .. 10, t[i][1] = "*" PROVE i = 1 \/ i = 4
      <3>1. \/ i = 1 \/ i = 2 \/ i = 3 \/ i = 4 \/ i = 5 \/ i = 6 \/ i = 7 \/ i = 8 \/ i = 9
            \/ i = 10
        OBVIOUS
      <3>2. t[8][1] = "k"
        BY <2>8
      <3>3. QED
        BY <2>8, <2>9, <3>1, <3>2
    <2>10. ~Junk(t[7]) /\ ~Junk(t[8])
      BY <2>8, JunkIn
    <2>11. IsDelText(t, 3, n)
      BY <2>8, <2>10 DEF IsDelText
    <2>12. Text(kind, n) = t
      BY <1>5, <2>1 DEF Text, DelSET
    <2>13. Length(kind) = 10 /\ Shift(kind) = 3
      BY <1>5 DEF Length, Shift
    <2>14. QED
      BY <1>5, <2>6, <2>8, <2>9, <2>11, <2>12, <2>13 DEF IsText
  <1>6. QED
    BY <1>1, <1>2, <1>3, <1>4, <1>5 DEF Kinds

\* One command more is put behind those before.
LEMMA PreNext ==
  ASSUME NEW m \in Nat
  PROVE  /\ Pre(0) = <<>>
         /\ Pre(m + 1) = IF m = 0 THEN Text(kinds[1], 1)
                         ELSE Pre(m) \o Text(kinds[m + 1], m + 1)
  <1> DEFINE seqs == [i \in 1..m |-> Text(kinds[i], i)]
             more == [i \in 1..(m + 1) |-> Text(kinds[i], i)]
  <1>1. Len(seqs) = m /\ Len(more) = m + 1
    OBVIOUS
  <1>2. Alike(seqs, more, m)
    BY DEF Alike
  <1>3. more[m + 1] = Text(kinds[m + 1], m + 1) /\ (m = 0 => more[1] = Text(kinds[1], 1))
    OBVIOUS
  <1> HIDE DEF seqs, more
  <1>4. FlattenSeq(more) = IF m = 0 THEN more[1] ELSE FlattenSeq(seqs) \o more[m + 1]
    BY <1>1, <1>2, FlattenNext
  <1>5. Pre(0) = <<>>
    <2>1. PICK none : none = [i \in 1..0 |-> Text(kinds[i], i)]
      OBVIOUS
    <2>2. none = <<>> /\ Len(none) = 0
      BY <2>1
    <2>3. FlattenSeq(none) = none
      BY <2>2, Zenon DEF FlattenSeq
    <2>4. QED
      BY <2>1, <2>2, <2>3 DEF Pre
  <1>6. QED
    BY <1>3, <1>4, <1>5, Zenon DEF Pre, seqs, more

LEMMA StartIs ==
  ASSUME NEW n \in Nat \ {0}
  PROVE  Start(n) = Len(Pre(n - 1))
  BY DEF Start, Pre

LEMMA PreMore ==
  ASSUME NEW m \in Nat, kinds[m + 1] \in Kinds, Pre(m) \in Seq(Char)
  PROVE  /\ Pre(m + 1) \in Seq(Char)
         /\ Len(Pre(m + 1)) = Len(Pre(m)) + Size(m + 1)
         /\ \A x \in 1 .. Len(Pre(m)) : Pre(m + 1)[x] = Pre(m)[x]
         /\ \A i \in 1 .. Size(m + 1) : Pre(m + 1)[Len(Pre(m)) + i] = Text(kinds[m + 1], m + 1)[i]
  <1>1. PICK t : t = Text(kinds[m + 1], m + 1)
    OBVIOUS
  <1>2. t \in Seq(Char) /\ Len(t) = Size(m + 1)
    <2>1. m + 1 \in Nat
      OBVIOUS
    <2>2. IsText(t, kinds[m + 1], m + 1)
      BY <1>1, <2>1, TextIs
    <2>3. QED
      BY <2>2 DEF Size, IsText
  <1>3. CASE m = 0
    <2>1. Pre(m) = <<>> /\ Pre(m + 1) = t
      BY <1>1, <1>3, PreNext
    <2>2. Len(Pre(m)) = 0
      BY <2>1
    <2>3. QED
      BY <1>1, <1>2, <2>1, <2>2
  <1>4. CASE m # 0
    <2>1. PICK s : s = Pre(m)
      OBVIOUS
    <2>2. Pre(m + 1) = s \o t
      BY <1>1, <1>4, <2>1, PreNext
    <2>3. s \in Seq(Char)
      BY <2>1
    <2>4. PICK w : w = s \o t
      OBVIOUS
    <2>5. w \in Seq(Char) /\ IsJoin(w, s, t)
      BY <1>2, <2>3, <2>4, Lengthened
    <2>6. QED
      BY <1>1, <1>2, <2>1, <2>2, <2>4, <2>5 DEF IsJoin
  <1>5. QED
    BY <1>3, <1>4

\* Where the first m commands are.
Spells(n, s) == \A i \in 1 .. Size(n) : s[Start(n) + i] = Text(kinds[n], n)[i]
Within(x, n) == Start(n) < x /\ x <= Start(n) + Size(n)
Precedes(l, n) == Start(l) + Size(l) <= Start(n)
Placed(s, m) ==
  /\ s \in Seq(Char)
  /\ \A n \in 1 .. m : Start(n) \in Nat /\ Start(n) + Size(n) <= Len(s) /\ Spells(n, s)
  /\ \A x \in 1 .. Len(s) : \E n \in 1 .. m : Within(x, n)
  /\ \A l, n \in 1 .. m : l < n => Precedes(l, n)

LEMMA PlacedNext ==
  ASSUME NEW m \in Nat, kinds[m + 1] \in Kinds, Placed(Pre(m), m)
  PROVE  Placed(Pre(m + 1), m + 1)
  <1> DEFINE s == Pre(m)
             t == Pre(m + 1)
             L == Len(Pre(m))
  <1>1. /\ t \in Seq(Char) /\ Len(t) = L + Size(m + 1)
        /\ \A x \in 1 .. L : t[x] = s[x]
        /\ \A i \in 1 .. Size(m + 1) : t[L + i] = Text(kinds[m + 1], m + 1)[i]
    BY PreMore DEF Placed
  <1>2. L \in Nat /\ L = Len(s)
    BY LenProperties DEF Placed
  <1>3. Start(m + 1) = L
    <2>1. m + 1 \in Nat \ {0} /\ m + 1 - 1 = m
      OBVIOUS
    <2>2. QED
      BY <2>1, StartIs
  <1>4. \A n \in 1 .. m + 1 : n \in 1 .. m \/ n = m + 1
    OBVIOUS
  <1>5. \A n \in Nat : Size(n) \in 5 .. 10
    BY DEF Size, Length
  <1> HIDE DEF s, t, L
  <1>6. Placed(s, m)
    BY DEF s
  <1>7. ASSUME NEW n \in 1 .. m + 1
        PROVE  Start(n) \in Nat /\ Start(n) + Size(n) <= Len(t) /\ Spells(n, t)
    <2>1. CASE n = m + 1
      <3>1. Start(n) \in Nat /\ Start(n) + Size(n) <= Len(t)
        BY <1>1, <1>2, <1>3, <1>5, <2>1
      <3>2. \A i \in 1 .. Size(n) : t[Start(n) + i] = Text(kinds[n], n)[i]
        BY <1>1, <1>3, <2>1
      <3>3. QED
        BY <3>1, <3>2 DEF Spells
    <2>2. CASE n \in 1 .. m
      <3>1. Start(n) \in Nat /\ Start(n) + Size(n) <= L /\ Spells(n, s)
        BY <1>2, <1>6, <2>2 DEF Placed
      <3>2. ASSUME NEW i \in 1 .. Size(n) PROVE t[Start(n) + i] = s[Start(n) + i]
        <4>1. Start(n) + i \in 1 .. L
          BY <1>2, <1>5, <3>1
        <4>2. QED
          BY <1>1, <4>1
      <3>3. Spells(n, t)
        BY <3>1, <3>2 DEF Spells
      <3>4. QED
        BY <1>1, <1>2, <1>5, <3>1, <3>3, SMTT(30)
    <2>3. QED
      BY <1>4, <2>1, <2>2
  <1>8. ASSUME NEW x \in 1 .. Len(t) PROVE \E n \in 1 .. m + 1 : Within(x, n)
    <2>1. CASE x <= L
      <3>1. x \in 1 .. Len(s)
        BY <1>1, <1>2, <2>1
      <3>2. PICK n \in 1 .. m : Within(x, n)
        BY <1>6, <3>1 DEF Placed
      <3>3. n \in 1 .. m + 1
        OBVIOUS
      <3>4. QED
        BY <3>2, <3>3
    <2>2. CASE ~(x <= L)
      <3>1. Within(x, m + 1)
        BY <1>1, <1>2, <1>3, <1>5, <2>2 DEF Within
      <3>2. m + 1 \in 1 .. m + 1
        OBVIOUS
      <3>3. QED
        BY <3>1, <3>2
    <2>3. QED
      BY <2>1, <2>2
  <1>9. ASSUME NEW l \in 1 .. m + 1, NEW n \in 1 .. m + 1, l < n PROVE Precedes(l, n)
    <2>1. l \in 1 .. m
      BY <1>9
    <2>2. CASE n = m + 1
      <3>1. Start(l) + Size(l) <= L
        BY <1>2, <1>6, <2>1 DEF Placed
      <3>2. QED
        BY <1>3, <2>2, <3>1 DEF Precedes
    <2>3. CASE n \in 1 .. m
      BY <1>6, <1>9, <2>1, <2>3 DEF Placed
    <2>4. QED
      BY <1>4, <2>2, <2>3
  <1>10. Placed(t, m + 1)
    BY <1>1, <1>7, <1>8, <1>9 DEF Placed
  <1>11. QED
    BY <1>10 DEF t

LEMMA EmptyIn ==
  ASSUME NEW T, NEW e, e = <<>>
  PROVE  e \in Seq(T) /\ Len(e) = 0
  OBVIOUS

\* The commands are in the stream one behind the other.
Laid == Placed(symbols, StreamLength)

LEMMA StreamLaid ==
  ASSUME StreamLength \in Nat, Chosen, symbols = Pre(StreamLength)
  PROVE  Laid
  <1> DEFINE S == {m \in 0 .. StreamLength : Placed(Pre(m), m)}
  <1>1. 0 \in S
    <2>1. Pre(0) = <<>>
      <3>1. 0 \in Nat
        OBVIOUS
      <3>2. QED
        BY <3>1, PreNext
    <2>2. PICK e : e = Pre(0)
      OBVIOUS
    <2>3. e \in Seq(Char) /\ Len(e) = 0
      BY <2>1, <2>2, EmptyIn
    <2>4. Placed(e, 0)
      <3>1. (\A n \in 1 .. 0 : FALSE) /\ (\A x \in 1 .. Len(e) : FALSE)
        BY <2>3
      <3>2. \A n \in 1 .. 0 : Start(n) \in Nat /\ Start(n) + Size(n) <= Len(e) /\ Spells(n, e)
        BY <3>1, Zenon
      <3>3. \A x \in 1 .. Len(e) : \E n \in 1 .. 0 : Within(x, n)
        BY <3>1, Zenon
      <3>4. \A l, n \in 1 .. 0 : l < n => Precedes(l, n)
        BY <3>1, Zenon
      <3>5. QED
        BY <2>3, <3>2, <3>3, <3>4, Zenon DEF Placed
    <2>5. QED
      BY <2>2, <2>4
  <1>2. ASSUME NEW m \in 0 .. StreamLength, m # StreamLength, m \in S PROVE m + 1 \in S
    <2>1. m \in Nat /\ m + 1 \in 0 .. StreamLength /\ m + 1 \in 1 .. StreamLength
      BY <1>2
    <2>2. kinds[m + 1] \in Kinds
      BY <2>1 DEF Chosen
    <2>3. Placed(Pre(m), m)
      BY <1>2
    <2>4. Placed(Pre(m + 1), m + 1)
      BY <2>1, <2>2, <2>3, PlacedNext
    <2>5. QED
      BY <2>1, <2>4
  <1> HIDE DEF S
  <1>3. 0 .. StreamLength \subseteq S
    BY <1>1, <1>2, StepByStep
  <1>4. QED
    BY <1>3 DEF S, Laid

\* The symbols of a DEL; a "*" begins a command, unless it is in a value, and
\* only with the bytes of a DEL "D" comes behind it.
LEMMA DelStartIs ==
  ASSUME NEW n
  PROVE  DelStart(n) = Start(n) + Shift(kinds[n])
  BY DEF DelStart, Shift

LEMMA DelAt ==
  ASSUME Chosen, Laid, NEW n \in 1 .. StreamLength, kinds[n] \in HasDel
  PROVE  /\ symbols[DelStart(n) + 1][1] = "*" /\ symbols[DelStart(n) + 2][1] = "D"
         /\ symbols[DelStart(n) + 3][1] = "$" /\ symbols[DelStart(n) + 5][2] = n
         /\ \A i \in 1 .. 5 : ~Junk(symbols[DelStart(n) + i])
  <1>1. PICK t, o : t = Text(kinds[n], n) /\ o = Shift(kinds[n])
    OBVIOUS
  <1>2. IsDelText(t, o, n)
    <2>1. n \in Nat /\ kinds[n] \in Kinds
      BY DEF Chosen
    <2>2. IsText(t, kinds[n], n)
      BY <1>1, <2>1, TextIs
    <2>3. QED
      BY <1>1, <2>2 DEF IsText
  <1>3. \A i \in 1 .. Size(n) : symbols[Start(n) + i] = t[i]
    BY <1>1 DEF Laid, Placed, Spells
  <1>4. Start(n) \in Nat /\ o \in Nat /\ o + 5 <= Size(n) /\ Size(n) \in Nat
    BY <1>1 DEF Laid, Placed, Shift, HasDel, Size, Length
  <1>5. ASSUME NEW i \in 1 .. 5 PROVE symbols[DelStart(n) + i] = t[o + i]
    <2>1. DelStart(n) + i = Start(n) + (o + i) /\ o + i \in 1 .. Size(n)
      BY <1>1, <1>4, DelStartIs
    <2>2. QED
      BY <1>3, <2>1
  <1>6. 1 \in 1 .. 5 /\ 2 \in 1 .. 5 /\ 3 \in 1 .. 5 /\ 4 \in 1 .. 5 /\ 5 \in 1 .. 5
    OBVIOUS
  <1>7. /\ symbols[DelStart(n) + 1] = t[o + 1] /\ symbols[DelStart(n) + 2] = t[o + 2]
        /\ symbols[DelStart(n) + 3] = t[o + 3] /\ symbols[DelStart(n) + 4] = t[o + 4]
        /\ symbols[DelStart(n) + 5] = t[o + 5]
    BY <1>5, <1>6
  <1>8. ~Junk(t[o + 1]) /\ ~Junk(t[o + 2]) /\ ~Junk(t[o + 3]) /\ ~Junk(t[o + 4]) /\ ~Junk(t[o + 5])
    BY <1>2, JunkIn DEF IsDelText
  <1>9. ASSUME NEW i \in 1 .. 5 PROVE ~Junk(symbols[DelStart(n) + i])
    <2>1. i = 1 \/ i = 2 \/ i = 3 \/ i = 4 \/ i = 5
      OBVIOUS
    <2>2. QED
      BY <1>7, <1>8, <2>1
  <1>10. QED
    BY <1>2, <1>7, <1>9 DEF IsDelText

\* A DEL that is a command.
LEMMA PlainDel ==
  ASSUME NEW n, kinds[n] = "DEL"
  PROVE  DelStart(n) = Start(n) + 0 /\ kinds[n] \in HasDel
  BY DEF DelStart, HasDel

LEMMA DelCommand ==
  ASSUME Chosen, Laid, NEW n \in 1 .. StreamLength, kinds[n] = "DEL"
  PROVE  /\ symbols[Start(n) + 1][1] = "*" /\ symbols[Start(n) + 2][1] = "D"
         /\ symbols[Start(n) + 3][1] = "$"
         /\ \A i \in 1 .. 5 : ~Junk(symbols[Start(n) + i])
  <1>1. Start(n) \in Nat
    BY DEF Laid, Placed
  <1>2. DelStart(n) = Start(n) /\ kinds[n] \in HasDel
    BY <1>1, PlainDel
  <1>3. QED
    BY <1>2, DelAt

LEMMA SecondIs ==
  ASSUME Chosen, Laid, NEW n \in 1 .. StreamLength, symbols[Start(n) + 2][1] = "D"
  PROVE  kinds[n] = "DEL"
  <1>1. PICK t : t = Text(kinds[n], n)
    OBVIOUS
  <1>2. t[2][1] = "D" <=> kinds[n] = "DEL"
    <2>1. n \in Nat /\ kinds[n] \in Kinds
      BY DEF Chosen
    <2>2. IsText(t, kinds[n], n)
      BY <1>1, <2>1, TextIs
    <2>3. QED
      BY <2>2 DEF IsText
  <1>3. 2 \in 1 .. Size(n)
    BY DEF Size, Length
  <1>4. symbols[Start(n) + 2] = t[2]
    BY <1>1, <1>3 DEF Laid, Placed, Spells
  <1>5. QED
    BY <1>2, <1>4

\* The command of a symbol, and its place there.
LEMMA SymbolAt ==
  ASSUME Chosen, Laid, NEW x \in 1 .. Len(symbols)
  PROVE  \E n \in 1 .. StreamLength : \E i \in 1 .. Size(n) :
           /\ x = Start(n) + i
           /\ \A j \in 1 .. Size(n) : symbols[Start(n) + j] = Text(kinds[n], n)[j]
           /\ Start(n) \in Nat
  <1>1. PICK n \in 1 .. StreamLength : Within(x, n)
    BY DEF Laid, Placed
  <1>2. Start(n) \in Nat /\ Size(n) \in 5 .. 10
    BY DEF Laid, Placed, Size, Length
  <1>3. x - Start(n) \in 1 .. Size(n) /\ x = Start(n) + (x - Start(n))
    BY <1>1, <1>2 DEF Within
  <1>4. \A j \in 1 .. Size(n) : symbols[Start(n) + j] = Text(kinds[n], n)[j]
    BY DEF Laid, Placed, Spells
  <1>5. QED
    BY <1>2, <1>3, <1>4

LEMMA StarAt ==
  ASSUME Chosen, Laid, NEW x \in 1 .. Len(symbols), symbols[x][1] = "*"
  PROVE  \E n \in 1 .. StreamLength :
           /\ x = Start(n) + 1 \/ kinds[n] \in {"StarSET", "DelSET"}
           /\ symbols[x + 1][1] = "D" => x = DelStart(n) + 1 /\ kinds[n] \in HasDel
  <1>0. PICK n \in 1 .. StreamLength : \E i \in 1 .. Size(n) :
          /\ x = Start(n) + i
          /\ \A j \in 1 .. Size(n) : symbols[Start(n) + j] = Text(kinds[n], n)[j]
          /\ Start(n) \in Nat
    BY SymbolAt
  <1>1. PICK i \in 1 .. Size(n) :
          /\ x = Start(n) + i
          /\ \A j \in 1 .. Size(n) : symbols[Start(n) + j] = Text(kinds[n], n)[j]
          /\ Start(n) \in Nat
    BY <1>0
  <1>2. PICK t : t = Text(kinds[n], n)
    OBVIOUS
  <1>3. n \in Nat /\ kinds[n] \in Kinds
    BY DEF Chosen
  <1>4. /\ t[2][1] = "D" <=> kinds[n] = "DEL"
        /\ kinds[n] = "StarSET" => t[5][1] # "D"
        /\ \A j \in 1 .. Size(n) : t[j][1] = "*" => j = 1 \/ (j = 4 /\ kinds[n] \in {"StarSET", "DelSET"})
    <2>1. IsText(t, kinds[n], n)
      BY <1>2, <1>3, TextIs
    <2>2. QED
      BY <2>1 DEF Size, IsText
  <1>5. Size(n) \in 5 .. 10
    BY DEF Size, Length
  <1>6. symbols[x] = t[i]
    BY <1>1, <1>2
  <1>7. i = 1 \/ (i = 4 /\ kinds[n] \in {"StarSET", "DelSET"})
    BY <1>4, <1>6
  <1>8. CASE i = 1
    <2>1. 2 \in 1 .. Size(n) /\ x + 1 = Start(n) + 2
      BY <1>1, <1>5, <1>8
    <2>2. symbols[x + 1] = t[2]
      BY <1>1, <1>2, <2>1
    <2>3. symbols[x + 1][1] = "D" => x = DelStart(n) + 1 /\ kinds[n] \in HasDel
      BY <1>1, <1>4, <1>8, <2>2, PlainDel
    <2>4. QED
      BY <1>1, <1>8, <2>3
  <1>9. CASE i = 4 /\ kinds[n] = "StarSET"
    <2>1. 5 \in 1 .. Size(n) /\ x + 1 = Start(n) + 5
      BY <1>1, <1>5, <1>9
    <2>2. symbols[x + 1] = t[5]
      BY <1>1, <1>2, <2>1
    <2>3. QED
      BY <1>4, <1>9, <2>2
  <1>10. CASE i = 4 /\ kinds[n] = "DelSET"
    <2>1. DelStart(n) = Start(n) + 3 /\ kinds[n] \in HasDel
      BY <1>10 DEF DelStart, HasDel
    <2>2. x = DelStart(n) + 1
      BY <1>1, <1>10, <2>1
    <2>3. QED
      BY <1>10, <2>1, <2>2
  <1>11. QED
    BY <1>7, <1>8, <1>9, <1>10

\* What a buffer holds when p symbols were read: the last symbols read, all of
\* them behind the l-th, or zeros and old bytes in their places; what is behind a
\* symbol that was kept was kept, too, up to the next zero of the stream.
Real(d, p, l, i) == p - Len(d) + i > l /\ d[i] = symbols[p - Len(d) + i]
Linked(d, p, i) == ~Junk(d[i]) /\ ~Junk(symbols[p - Len(d) + i + 1]) => ~Junk(d[i + 1])
Shape(d, p, l) ==
  /\ d \in Seq(Char)
  /\ \A i \in 1 .. Len(d) : Real(d, p, l, i) \/ Junk(d[i])
  /\ \A i \in 1 .. Len(d) - 1 : Linked(d, p, i)

\* A symbol that is no zero and not old is the stream's.
LEMMA ShapeReal ==
  ASSUME NEW d, NEW p, NEW l, Shape(d, p, l), NEW i \in 1 .. Len(d), ~Junk(d[i])
  PROVE  d[i] = symbols[p - Len(d) + i] /\ p - Len(d) + i > l
  BY DEF Shape, Real

LEMMA ShapeEmpty ==
  ASSUME NEW p, NEW l, NEW e, e = <<>>
  PROVE  Shape(e, p, l)
  <1>1. e \in Seq(Char) /\ Len(e) = 0
    BY EmptyIn
  <1>2. (\A i \in 1 .. Len(e) : FALSE) /\ (\A i \in 1 .. Len(e) - 1 : FALSE)
    BY <1>1
  <1>3. \A i \in 1 .. Len(e) : Real(e, p, l, i) \/ Junk(e[i])
    BY <1>2, Zenon
  <1>4. \A i \in 1 .. Len(e) - 1 : Linked(e, p, i)
    BY <1>2, Zenon
  <1>5. QED
    BY <1>1, <1>3, <1>4, Zenon DEF Shape

\* The end of a sequence.
LEMMA EndIs ==
  ASSUME NEW T, NEW d \in Seq(T), NEW s \in 1 .. Len(d) + 1, NEW e, e = SubSeq(d, s, Len(d))
  PROVE  /\ e \in Seq(T) /\ Len(e) = Len(d) - s + 1
         /\ \A i \in 1 .. Len(e) : e[i] = d[s - 1 + i]
  <1>1. Len(d) \in Nat
    OBVIOUS
  <1>2. e \in Seq(T)
    OBVIOUS
  <1>3. Len(e) = IF s <= Len(d) THEN Len(d) - s + 1 ELSE 0
    OBVIOUS
  <1>4. \A i \in 1 .. Len(e) : e[i] = d[s - 1 + i]
    BY <1>1, <1>3
  <1>5. QED
    BY <1>1, <1>2, <1>3, <1>4

\* What is in the buffer from the s-th place on was behind the m-th symbol.
Behind(m, l, d, p, s) == m <= l \/ m <= p - Len(d) + s - 1

LEMMA ShapeFrom ==
  ASSUME NEW d, NEW p \in Nat, NEW l \in Int, NEW m \in Int, Shape(d, p, l),
         NEW s \in 1 .. Len(d) + 1, Behind(m, l, d, p, s),
         NEW e, e = SubSeq(d, s, Len(d))
  PROVE  Shape(e, p, m) /\ Len(e) = Len(d) - s + 1
  <1>1. d \in Seq(Char) /\ Len(d) \in Nat
    BY LenProperties DEF Shape
  <1>2. /\ e \in Seq(Char) /\ Len(e) = Len(d) - s + 1
        /\ \A i \in 1 .. Len(e) : e[i] = d[s - 1 + i]
    BY <1>1, EndIs
  <1>3. ASSUME NEW i \in 1 .. Len(e) PROVE Real(e, p, m, i) \/ Junk(e[i])
    <2>1. s - 1 + i \in 1 .. Len(d) /\ e[i] = d[s - 1 + i]
      BY <1>1, <1>2
    <2>2. CASE Real(d, p, l, s - 1 + i)
      <3>1. p - Len(e) + i = p - Len(d) + (s - 1 + i)
        BY <1>1, <1>2
      <3>2. p - Len(d) + (s - 1 + i) > l /\ e[i] = symbols[p - Len(d) + (s - 1 + i)]
        BY <2>1, <2>2 DEF Real
      <3>3. p - Len(e) + i > m
        BY <1>1, <1>2, <3>1, <3>2, SMTT(30) DEF Behind
      <3>4. e[i] = symbols[p - Len(e) + i]
        BY <3>1, <3>2
      <3>5. QED
        BY <3>3, <3>4 DEF Real
    <2>3. CASE Junk(d[s - 1 + i])
      BY <2>1, <2>3
    <2>4. QED
      BY <2>1, <2>2, <2>3 DEF Shape
  <1>4. ASSUME NEW i \in 1 .. Len(e) - 1 PROVE Linked(e, p, i)
    <2>1. /\ s - 1 + i \in 1 .. Len(d) - 1 /\ i \in 1 .. Len(e) /\ i + 1 \in 1 .. Len(e)
          /\ s - 1 + (i + 1) = s - 1 + i + 1
      BY <1>1, <1>2
    <2>2. e[i] = d[s - 1 + i] /\ e[i + 1] = d[s - 1 + i + 1]
      BY <1>2, <2>1
    <2>3. p - Len(e) + i + 1 = p - Len(d) + (s - 1 + i) + 1
      BY <1>1, <1>2
    <2>4. Linked(d, p, s - 1 + i)
      BY <2>1 DEF Shape
    <2>5. QED
      BY <2>2, <2>3, <2>4 DEF Linked
  <1>5. QED
    BY <1>2, <1>3, <1>4 DEF Shape

\* strncpy.
LEMMA CopyIs ==
  ASSUME NEW d \in Seq(Char), NEW e, e = strncpy(d)
  PROVE  /\ e \in Seq(Char) /\ Len(e) = Len(d)
         /\ \A i \in 1 .. Len(d) : e[i] = IF \E j \in 1 .. i : d[j] = Nul THEN Nul ELSE d[i]
  <1>1. e = [i \in 1 .. Len(d) |-> IF \E j \in 1 .. i : d[j] = Nul THEN Nul ELSE d[i]]
    BY DEF strncpy
  <1>2. \A i \in 1 .. Len(d) : (IF \E j \in 1 .. i : d[j] = Nul THEN Nul ELSE d[i]) \in Char
    BY NulIs
  <1>3. QED
    BY <1>1, <1>2

LEMMA ShapeCopy ==
  ASSUME NEW d, NEW p, NEW l, Shape(d, p, l), NEW e, e = strncpy(d)
  PROVE  Shape(e, p, l) /\ Len(e) = Len(d)
  <1>1. d \in Seq(Char) /\ Len(d) \in Nat
    BY LenProperties DEF Shape
  <1>2. /\ e \in Seq(Char) /\ Len(e) = Len(d)
        /\ \A i \in 1 .. Len(d) : e[i] = IF \E j \in 1 .. i : d[j] = Nul THEN Nul ELSE d[i]
    BY <1>1, CopyIs
  <1>3. ASSUME NEW i \in 1 .. Len(d)
        PROVE  Real(e, p, l, i) \/ Junk(e[i])
    <2>1. e[i] = Nul \/ e[i] = d[i]
      BY <1>2
    <2>2. Real(d, p, l, i) \/ Junk(d[i])
      BY DEF Shape
    <2>3. QED
      BY <1>2, <2>1, <2>2, NulIs DEF Real
  <1>4. ASSUME NEW i \in 1 .. Len(d) - 1, ~Junk(e[i]), ~Junk(symbols[p - Len(d) + i + 1])
        PROVE  ~Junk(e[i + 1])
    <2>1. i \in 1 .. Len(d) /\ i + 1 \in 1 .. Len(d) /\ i \in 1 .. i
      BY <1>1
    <2>2. (\A j \in 1 .. i : d[j] # Nul) /\ e[i] = d[i]
      <3>1. e[i] = IF \E j \in 1 .. i : d[j] = Nul THEN Nul ELSE d[i]
        BY <1>2, <2>1
      <3>2. e[i] # Nul
        BY <1>4, NulIs
      <3>3. QED
        BY <3>1, <3>2
    <2>3. ~Junk(d[i + 1])
      <3>1. Linked(d, p, i)
        BY DEF Shape
      <3>2. QED
        BY <1>4, <2>2, <3>1 DEF Linked
    <2>4. \A j \in 1 .. i + 1 : d[j] # Nul
      <3>1. \A j \in 1 .. i + 1 : j \in 1 .. i \/ j = i + 1
        BY <2>1
      <3>2. QED
        BY <2>2, <2>3, <3>1, NulIs
    <2>5. e[i + 1] = d[i + 1]
      BY <1>2, <2>1, <2>4
    <2>6. QED
      BY <2>3, <2>5
  <1>5. \A i \in 1 .. Len(e) - 1 : Linked(e, p, i)
    BY <1>2, <1>4 DEF Linked
  <1>6. QED
    BY <1>2, <1>3, <1>5 DEF Shape

\* With a byte that is no symbol of the stream in front.
LEMMA ShapeFront ==
  ASSUME NEW d, NEW p \in Int, NEW l \in Int, Shape(d, p, l), NEW b, Junk(b),
         NEW e, e = <<b>> \o d
  PROVE  Shape(e, p, l)
  <1>1. d \in Seq(Char) /\ Len(d) \in Nat
    BY LenProperties DEF Shape
  <1>2. /\ e \in Seq(Char) /\ Len(e) = Len(d) + 1
        /\ e[1] = b /\ \A i \in 1 .. Len(d) : e[1 + i] = d[i]
    <2>1. PICK f : f = <<b>>
      OBVIOUS
    <2>2. f \in Seq(Char) /\ Len(f) = 1 /\ f[1] = b
      BY <2>1, JunkIn
    <2>3. e = f \o d
      BY <2>1
    <2>4. e \in Seq(Char) /\ IsJoin(e, f, d)
      BY <1>1, <2>2, <2>3, Lengthened
    <2>5. 1 \in 1 .. Len(f)
      BY <2>2
    <2>6. QED
      BY <1>1, <2>2, <2>4, <2>5 DEF IsJoin
  <1>3. ASSUME NEW i \in 1 .. Len(e)
        PROVE  Real(e, p, l, i) \/ Junk(e[i])
    <2>1. CASE i = 1
      BY <1>2, <2>1
    <2>2. CASE i # 1
      <3>1. i - 1 \in 1 .. Len(d) /\ i = 1 + (i - 1)
        BY <1>1, <1>2, <2>2
      <3>2. e[i] = d[i - 1]
        BY <1>2, <3>1
      <3>3. p - Len(e) + i = p - Len(d) + (i - 1)
        BY <1>1, <1>2
      <3>4. Real(d, p, l, i - 1) \/ Junk(d[i - 1])
        BY <3>1 DEF Shape
      <3>5. QED
        BY <3>2, <3>3, <3>4 DEF Real
    <2>3. QED
      BY <2>1, <2>2
  <1>4. ASSUME NEW i \in 1 .. Len(e) - 1 PROVE Linked(e, p, i)
    <2>1. CASE i = 1
      BY <1>2, <2>1 DEF Linked
    <2>2. CASE i # 1
      <3>1. i - 1 \in 1 .. Len(d) - 1 /\ i - 1 \in 1 .. Len(d) /\ i \in 1 .. Len(d)
            /\ 1 + (i - 1) = i /\ 1 + i = i + 1 /\ i - 1 + 1 = i
        BY <1>1, <1>2, <2>2
      <3>2. e[i] = d[i - 1] /\ e[i + 1] = d[i]
        BY <1>2, <3>1
      <3>3. p - Len(e) + i + 1 = p - Len(d) + (i - 1) + 1
        BY <1>1, <1>2
      <3>4. Linked(d, p, i - 1)
        BY <3>1 DEF Shape
      <3>5. QED
        BY <3>1, <3>2, <3>3, <3>4 DEF Linked
    <2>3. QED
      BY <2>1, <2>2
  <1>5. QED
    BY <1>2, <1>3, <1>4 DEF Shape

\* saveToBuf.
LEMMA ShapeSave ==
  ASSUME NEW d, NEW p \in Nat, NEW l \in Int, NEW m \in Int, Shape(d, p, l),
         NEW start \in -1 .. Len(d), NEW before, Junk(before),
         Behind(m, l, d, p, start + 1),
         NEW e, e = saveToBuf(d, start, before)
  PROVE  Shape(e, p, m)
  <1>1. d \in Seq(Char) /\ Len(d) \in Nat
    BY LenProperties DEF Shape
  <1>2. PICK s : s = IF start = -1 THEN <<before>> \o d ELSE SubSeq(d, start + 1, Len(d))
    OBVIOUS
  <1>3. Shape(s, p, m)
    <2>1. CASE start = -1
      <3>1. PICK w : w = SubSeq(d, 1, Len(d))
        OBVIOUS
      <3>2. Behind(m, l, d, p, 1)
        BY <1>1, <2>1 DEF Behind
      <3>3. 1 \in 1 .. Len(d) + 1
        BY <1>1
      <3>4. Shape(w, p, m)
        BY <3>1, <3>2, <3>3, ShapeFrom
      <3>5. w = d
        BY <1>1, <3>1
      <3>6. Shape(d, p, m) /\ p \in Int
        BY <3>4, <3>5
      <3>7. s = <<before>> \o d
        BY <1>2, <2>1
      <3>8. QED
        BY <3>6, <3>7, ShapeFront
    <2>2. CASE start # -1
      <3>1. start + 1 \in 1 .. Len(d) + 1
        BY <1>1, <2>2
      <3>2. Behind(m, l, d, p, start + 1)
        BY <1>1, <2>2 DEF Behind
      <3>3. s = SubSeq(d, start + 1, Len(d))
        BY <1>2, <2>2
      <3>4. QED
        BY <3>1, <3>2, <3>3, ShapeFrom
    <2>3. QED
      BY <2>1, <2>2
  <1>4. e = IF Len(s) < MAX_READ THEN strncpy(s) ELSE <<>>
    BY <1>2 DEF saveToBuf
  <1>5. CASE Len(s) < MAX_READ
    BY <1>3, <1>4, <1>5, ShapeCopy
  <1>6. CASE ~(Len(s) < MAX_READ)
    <2>1. e = <<>>
      BY <1>4, <1>6
    <2>2. QED
      BY <2>1, ShapeEmpty
  <1>7. QED
    BY <1>5, <1>6

\* What a read returned; a buffer that holds nothing but symbols of the stream,
\* and one that holds the last of them.
IsRead(new, p, size) == new = SubSeq(symbols, p + 1, p + size)
Clean(d) == \A i \in 1 .. Len(d) : ~Junk(d[i])
Exact(d, p) == \A i \in 1 .. Len(d) : d[i] = symbols[p - Len(d) + i] /\ p - Len(d) + i > 0

LEMMA ReadIs ==
  ASSUME Laid, NEW p \in Nat, NEW size \in Nat, p + size <= Len(symbols),
         NEW new, IsRead(new, p, size)
  PROVE  /\ new \in Seq(Char) /\ Len(new) = size
         /\ \A i \in 1 .. size : new[i] = symbols[p + i]
  <1>1. symbols \in Seq(Char) /\ Len(symbols) \in Nat
    BY LenProperties DEF Laid, Placed
  <1>2. \A i \in p + 1 .. p + size : symbols[i] \in Char
    BY <1>1
  <1>3. p + 1 \in Int /\ p + size \in Int
    OBVIOUS
  <1>4. /\ SubSeq(symbols, p + 1, p + size) \in Seq(Char)
        /\ Len(SubSeq(symbols, p + 1, p + size))
             = IF p + 1 <= p + size THEN (p + size) - (p + 1) + 1 ELSE 0
        /\ \A i \in 1 .. (p + size) - (p + 1) + 1 :
             SubSeq(symbols, p + 1, p + size)[i] = symbols[(p + 1) + i - 1]
    BY <1>2, <1>3, SubSeqProperties, SMTT(30)
  <1>5. (p + size) - (p + 1) + 1 = size
    OBVIOUS
  <1>6. ASSUME NEW i \in 1 .. size PROVE new[i] = symbols[p + i]
    <2>1. (p + 1) + i - 1 = p + i
      OBVIOUS
    <2>2. QED
      BY <1>4, <1>5, <2>1 DEF IsRead
  <1>7. new = SubSeq(symbols, p + 1, p + size)
    BY DEF IsRead
  <1>8. QED
    BY <1>4, <1>5, <1>6, <1>7

LEMMA ShapeRead ==
  ASSUME Laid, NEW p \in Nat, NEW l \in 0 .. p,
         NEW size \in Nat, p + size <= Len(symbols), NEW new, IsRead(new, p, size)
  PROVE  Shape(new, p + size, l) /\ Exact(new, p + size) /\ Len(new) = size
  <1>1. /\ new \in Seq(Char) /\ Len(new) = size
        /\ \A i \in 1 .. size : new[i] = symbols[p + i]
    BY ReadIs
  <1>2. ASSUME NEW i \in 1 .. Len(new)
        PROVE  new[i] = symbols[(p + size) - Len(new) + i] /\ (p + size) - Len(new) + i > l
    <2>1. (p + size) - Len(new) + i = p + i /\ p + i > l /\ i \in 1 .. size
      BY <1>1
    <2>2. QED
      BY <1>1, <2>1
  <1>3. ASSUME NEW i \in 1 .. Len(new) - 1 PROVE Linked(new, p + size, i)
    <2>1. i + 1 \in 1 .. Len(new) /\ (p + size) - Len(new) + (i + 1) = (p + size) - Len(new) + i + 1
      BY <1>1
    <2>2. new[i + 1] = symbols[(p + size) - Len(new) + i + 1]
      BY <1>2, <2>1
    <2>3. QED
      BY <2>2 DEF Linked
  <1>4. Shape(new, p + size, l)
    BY <1>1, <1>2, <1>3 DEF Shape, Real
  <1>5. Exact(new, p + size)
    <2>1. \A i \in 1 .. Len(new) : (p + size) - Len(new) + i > 0
      BY <1>1
    <2>2. QED
      BY <1>2, <2>1 DEF Exact
  <1>6. QED
    BY <1>1, <1>4, <1>5

\* What was kept, and behind it a read whose first symbol is as it was read.
LEMMA ShapeJoin ==
  ASSUME NEW b, NEW p \in Nat, NEW l \in 0 .. p, Shape(b, p, l), NEW size \in Nat,
         NEW new, Shape(new, p + size, l), Len(new) = size, size > 0 => new[1] = symbols[p + 1],
         NEW w, w = b \o new
  PROVE  Shape(w, p + size, l) /\ IsJoin(w, b, new)
  <1>1. b \in Seq(Char) /\ Len(b) \in Nat /\ new \in Seq(Char)
    BY LenProperties DEF Shape
  <1>2. w \in Seq(Char) /\ IsJoin(w, b, new)
    BY <1>1, Lengthened
  <1>3. /\ Len(w) = Len(b) + size
        /\ \A i \in 1 .. Len(b) : w[i] = b[i]
        /\ \A i \in 1 .. size : w[Len(b) + i] = new[i]
    BY <1>2 DEF IsJoin
  <1>4. (p + size) - Len(w) = p - Len(b) /\ (p + size) - Len(new) = p
    BY <1>1, <1>3
  <1>5. ASSUME NEW i \in 1 .. Len(w)
        PROVE  Real(w, p + size, l, i) \/ Junk(w[i])
    <2>1. CASE i <= Len(b)
      <3>1. i \in 1 .. Len(b) /\ w[i] = b[i]
        BY <1>1, <1>3, <2>1
      <3>2. Real(b, p, l, i) \/ Junk(b[i])
        BY <3>1 DEF Shape
      <3>3. QED
        BY <1>4, <3>1, <3>2 DEF Real
    <2>2. CASE ~(i <= Len(b))
      <3>1. i - Len(b) \in 1 .. size /\ i = Len(b) + (i - Len(b))
        BY <1>1, <1>3, <2>2
      <3>2. w[i] = new[i - Len(b)]
        BY <1>3, <3>1
      <3>3. Real(new, p + size, l, i - Len(b)) \/ Junk(new[i - Len(b)])
        BY <3>1 DEF Shape
      <3>4. (p + size) - Len(w) + i = (p + size) - Len(new) + (i - Len(b))
        BY <1>1, <1>3
      <3>5. QED
        BY <3>2, <3>3, <3>4 DEF Real
    <2>3. QED
      BY <2>1, <2>2
  <1>6. ASSUME NEW i \in 1 .. Len(w) - 1 PROVE Linked(w, p + size, i)
    <2>1. CASE i < Len(b)
      <3>1. i \in 1 .. Len(b) /\ i + 1 \in 1 .. Len(b) /\ i \in 1 .. Len(b) - 1
        BY <1>1, <2>1
      <3>2. w[i] = b[i] /\ w[i + 1] = b[i + 1] /\ Linked(b, p, i)
        BY <1>3, <3>1 DEF Shape
      <3>3. QED
        BY <1>4, <3>2 DEF Linked
    <2>2. CASE i = Len(b)
      <3>1. 1 \in 1 .. size /\ size > 0 /\ i + 1 = Len(b) + 1
        BY <1>1, <1>3, <2>2
      <3>2. w[i + 1] = symbols[p + 1]
        BY <1>3, <3>1
      <3>3. (p + size) - Len(w) + i + 1 = p + 1
        BY <1>1, <1>3, <2>2
      <3>4. QED
        BY <3>2, <3>3 DEF Linked
    <2>3. CASE i > Len(b)
      <3>0. Len(b) \in Nat /\ i \in Nat /\ Len(b) < i /\ i + 1 <= Len(b) + size
        <4>1. Len(b) \in Nat /\ Len(w) = Len(b) + size
          BY <1>1, <1>3
        <4>2. QED
          BY <2>3, <4>1
      <3>1. /\ i - Len(b) \in 1 .. size /\ i - Len(b) + 1 \in 1 .. size
            /\ i - Len(b) \in 1 .. Len(new) - 1
            /\ i = Len(b) + (i - Len(b)) /\ i + 1 = Len(b) + (i - Len(b) + 1)
        <4>1. i - Len(b) \in 1 .. size - 1 /\ i - Len(b) \in 1 .. size
          BY <3>0
        <4>2. i - Len(b) + 1 \in 1 .. size
          BY <3>0
        <4>3. i = Len(b) + (i - Len(b)) /\ i + 1 = Len(b) + (i - Len(b) + 1)
          BY <3>0
        <4>4. QED
          BY <4>1, <4>2, <4>3
      <3>2. w[i] = new[i - Len(b)] /\ w[i + 1] = new[i - Len(b) + 1]
        BY <1>3, <3>1
      <3>3. Linked(new, p + size, i - Len(b))
        BY <3>1 DEF Shape
      <3>4. (p + size) - Len(w) + i + 1 = (p + size) - Len(new) + (i - Len(b)) + 1
        BY <1>1, <1>3
      <3>5. QED
        BY <3>2, <3>3, <3>4 DEF Linked
    <2>4. QED
      BY <1>1, <2>1, <2>2, <2>3
  <1>7. QED
    BY <1>2, <1>5, <1>6 DEF Shape

\* Without a zero, strncpy copies all.
LEMMA WholeCopy ==
  ASSUME NEW d \in Seq(Char), \A i \in 1 .. Len(d) : d[i] # Nul, NEW e, e = strncpy(d)
  PROVE  Len(e) = Len(d) /\ \A i \in 1 .. Len(d) : e[i] = d[i]
  <1>1. /\ e \in Seq(Char) /\ Len(e) = Len(d)
        /\ \A i \in 1 .. Len(d) : e[i] = IF \E j \in 1 .. i : d[j] = Nul THEN Nul ELSE d[i]
    BY CopyIs
  <1>2. ASSUME NEW i \in 1 .. Len(d) PROVE e[i] = d[i]
    <2>1. ASSUME NEW j \in 1 .. i PROVE d[j] # Nul
      <3>1. j \in 1 .. Len(d)
        OBVIOUS
      <3>2. QED
        BY <3>1
    <2>2. QED
      BY <1>1, <2>1
  <1>3. QED
    BY <1>1, <1>2

LEMMA CleanCopy ==
  ASSUME NEW d \in Seq(Char), Clean(d), NEW e, e = strncpy(d)
  PROVE  Clean(e) /\ Len(e) = Len(d)
  <1>1. \A i \in 1 .. Len(d) : d[i] # Nul
    BY NulIs DEF Clean
  <1>2. Len(e) = Len(d) /\ \A i \in 1 .. Len(d) : e[i] = d[i]
    BY <1>1, WholeCopy
  <1>3. QED
    BY <1>2 DEF Clean

LEMMA CleanSave ==
  ASSUME NEW d \in Seq(Char), NEW start \in 0 .. Len(d), Len(d) - start < MAX_READ,
         \A i \in start + 1 .. Len(d) : ~Junk(d[i]), NEW before, NEW e, e = saveToBuf(d, start, before)
  PROVE  Clean(e) /\ Len(e) = Len(d) - start
  <1>1. PICK s : s = SubSeq(d, start + 1, Len(d))
    OBVIOUS
  <1>2. /\ s \in Seq(Char) /\ Len(s) = Len(d) - (start + 1) + 1
        /\ \A i \in 1 .. Len(s) : s[i] = d[start + 1 - 1 + i]
    <2>1. start + 1 \in 1 .. Len(d) + 1
      OBVIOUS
    <2>2. QED
      BY <1>1, <2>1, EndIs
  <1>3. Len(s) = Len(d) - start /\ Len(s) < MAX_READ
    BY <1>2
  <1>4. ASSUME NEW i \in 1 .. Len(s) PROVE ~Junk(s[i])
    <2>1. start + 1 - 1 + i \in start + 1 .. Len(d)
      BY <1>2
    <2>2. QED
      BY <1>2, <2>1
  <1>5. Clean(s)
    BY <1>4 DEF Clean
  <1>6. start # -1
    OBVIOUS
  <1>7. e = strncpy(s)
    BY <1>1, <1>3, <1>6 DEF saveToBuf
  <1>8. QED
    BY <1>2, <1>3, <1>5, <1>7, CleanCopy

\* One step of the loop of processInputBuffer, with what the rest of it gives.
Turn(d, before, stale, F, index) ==
  LET p == delParser(d, index)
      rest == F[p.index]
  IN  IF index >= Len(d) THEN [kept |-> <<>>, asked |-> <<>>]
      ELSE IF d[index + 1][1] # "*" THEN F[index + 1]
      ELSE IF Len(d) <= Header
           THEN [kept |-> saveToBuf(d, index - 1, before), asked |-> <<>>]
      ELSE IF ~IsDel(d, index, stale) THEN F[index + Header]
      ELSE IF p.index = -1 THEN p
      ELSE [kept |-> p.kept \o rest.kept, asked |-> p.asked \o rest.asked]

Loop(d, before, stale, F) ==
  F = [index \in 0..(Len(d) + Header + KeyLen + 2) |-> Turn(d, before, stale, F, index)]

\* Its cases.
AtStar(d, index) == index < Len(d) /\ d[index + 1][1] = "*"
AtDel(d, index, stale) == AtStar(d, index) /\ Len(d) > Header /\ IsDel(d, index, stale)

Cases(d, before, stale, F, index, r) ==
  /\ index >= Len(d) => r.kept = <<>> /\ r.asked = <<>>
  /\ index < Len(d) /\ ~AtStar(d, index) => r = F[index + 1]
  /\ AtStar(d, index) /\ Len(d) <= Header =>
       r.kept = saveToBuf(d, index - 1, before) /\ r.asked = <<>>
  /\ AtStar(d, index) /\ Len(d) > Header /\ ~IsDel(d, index, stale) => r = F[index + 3]
  /\ AtDel(d, index, stale) /\ index + 4 >= Len(d) =>
       r.kept = saveToBuf(d, index, Nul) /\ r.asked = <<>>
  /\ AtDel(d, index, stale) /\ index + 6 <= Len(d) =>
       /\ r.kept = <<>> \o F[index + 7].kept
       /\ r.asked = <<d[index + 5][2]>> \o F[index + 7].asked
  /\ AtDel(d, index, stale) /\ index + 5 = Len(d) =>
       /\ r.kept = saveToBuf(d, index, Nul) \o F[index + 7].kept
       /\ r.asked = <<>> \o F[index + 7].asked

LEMMA ParserIs ==
  ASSUME NEW d, Len(d) \in Nat, NEW start \in Nat, NEW p, p = delParser(d, start)
  PROVE  /\ start + 4 >= Len(d) =>
              p.index = -1 /\ p.kept = saveToBuf(d, start, Nul) /\ p.asked = <<>>
         /\ start + 6 <= Len(d) =>
              p.index = start + 7 /\ p.kept = <<>> /\ p.asked = <<d[start + 5][2]>>
         /\ start + 5 = Len(d) =>
              p.index = start + 7 /\ p.kept = saveToBuf(d, start, Nul) /\ p.asked = <<>>
  <1>1. start + Header + 1 = start + 4 /\ start + 4 + KeyLen = start + 6
        /\ start + 4 + KeyLen + 1 = start + 7 /\ start + 4 + 1 = start + 5
    BY DEF Header, KeyLen
  <1>2. p = IF start + 4 >= Len(d) THEN [index |-> -1, kept |-> saveToBuf(d, start, Nul), asked |-> <<>>]
            ELSE IF start + 6 <= Len(d)
            THEN [index |-> start + 7, kept |-> <<>>, asked |-> <<d[start + 5][2]>>]
            ELSE [index |-> start + 7, kept |-> saveToBuf(d, start, Nul), asked |-> <<>>]
    BY <1>1, Zenon DEF delParser
  <1>3. CASE start + 4 >= Len(d)
    <2>1. ~(start + 6 <= Len(d)) /\ start + 5 # Len(d)
      BY <1>3
    <2>2. QED
      BY <1>2, <1>3, <2>1
  <1>4. CASE start + 6 <= Len(d)
    <2>1. ~(start + 4 >= Len(d)) /\ start + 5 # Len(d)
      BY <1>4
    <2>2. QED
      BY <1>2, <1>4, <2>1
  <1>5. CASE start + 5 = Len(d)
    <2>1. ~(start + 4 >= Len(d)) /\ ~(start + 6 <= Len(d))
      BY <1>5
    <2>2. QED
      BY <1>2, <1>5, <2>1
  <1>6. QED
    BY <1>3, <1>4, <1>5

LEMMA TwoFields ==
  ASSUME NEW a, NEW b, NEW r, r = [kept |-> a, asked |-> b]
  PROVE  r.kept = a /\ r.asked = b
  OBVIOUS

LEMMA PassCases ==
  ASSUME NEW d, Len(d) \in Nat, NEW before, NEW stale, NEW F, NEW index \in Nat,
         NEW r, r = Turn(d, before, stale, F, index)
  PROVE  Cases(d, before, stale, F, index, r)
  <1>1. PICK p : p = delParser(d, index)
    OBVIOUS
  <1>2. r = IF index >= Len(d) THEN [kept |-> <<>>, asked |-> <<>>]
            ELSE IF d[index + 1][1] # "*" THEN F[index + 1]
            ELSE IF Len(d) <= 3
                 THEN [kept |-> saveToBuf(d, index - 1, before), asked |-> <<>>]
            ELSE IF ~IsDel(d, index, stale) THEN F[index + 3]
            ELSE IF p.index = -1 THEN p
            ELSE [kept |-> p.kept \o F[p.index].kept, asked |-> p.asked \o F[p.index].asked]
    BY <1>1, Zenon DEF Turn, Header
  <1>3. index >= Len(d) => r.kept = <<>> /\ r.asked = <<>>
    BY <1>2
  <1>4. index < Len(d) /\ ~AtStar(d, index) => r = F[index + 1]
    BY <1>2 DEF AtStar
  <1>5. AtStar(d, index) /\ Len(d) <= Header => r.kept = saveToBuf(d, index - 1, before) /\ r.asked = <<>>
    BY <1>2 DEF AtStar, Header
  <1>6. AtStar(d, index) /\ Len(d) > Header /\ ~IsDel(d, index, stale) => r = F[index + 3]
    BY <1>2 DEF AtStar, Header
  <1>7. AtDel(d, index, stale) =>
          r = IF p.index = -1 THEN p
              ELSE [kept |-> p.kept \o F[p.index].kept, asked |-> p.asked \o F[p.index].asked]
    BY <1>2 DEF AtDel, AtStar, Header
  <1>8. /\ index + 4 >= Len(d) => p.index = -1 /\ p.kept = saveToBuf(d, index, Nul) /\ p.asked = <<>>
        /\ index + 6 <= Len(d) => p.index = index + 7 /\ p.kept = <<>> /\ p.asked = <<d[index + 5][2]>>
        /\ index + 5 = Len(d) => p.index = index + 7 /\ p.kept = saveToBuf(d, index, Nul) /\ p.asked = <<>>
    BY <1>1, ParserIs
  <1>9. index + 7 # -1
    OBVIOUS
  <1>10. AtDel(d, index, stale) /\ index + 4 >= Len(d) => r.kept = saveToBuf(d, index, Nul) /\ r.asked = <<>>
    BY <1>7, <1>8
  <1>11. AtDel(d, index, stale) /\ p.index = index + 7 =>
           r.kept = p.kept \o F[index + 7].kept /\ r.asked = p.asked \o F[index + 7].asked
    <2>1. SUFFICES ASSUME AtDel(d, index, stale), p.index = index + 7
                   PROVE  r.kept = p.kept \o F[index + 7].kept /\ r.asked = p.asked \o F[index + 7].asked
      OBVIOUS
    <2>2. PICK rest : rest = F[index + 7]
      OBVIOUS
    <2>3. r = [kept |-> p.kept \o rest.kept, asked |-> p.asked \o rest.asked]
      <3>1. p.index # -1
        BY <1>9, <2>1
      <3>2. F[p.index] = rest
        BY <2>1, <2>2
      <3>3. r = [kept |-> p.kept \o F[p.index].kept, asked |-> p.asked \o F[p.index].asked]
        BY <1>7, <2>1, <3>1
      <3>4. QED
        BY <3>2, <3>3
    <2>4. r.kept = p.kept \o rest.kept /\ r.asked = p.asked \o rest.asked
      <3>1. PICK a, b : a = p.kept \o rest.kept /\ b = p.asked \o rest.asked
        OBVIOUS
      <3>2. r = [kept |-> a, asked |-> b]
        BY <2>3, <3>1
      <3>3. r.kept = a /\ r.asked = b
        BY <3>2, TwoFields
      <3>4. QED
        BY <3>1, <3>3
    <2>5. QED
      BY <2>2, <2>4, Zenon
  <1>12. AtDel(d, index, stale) /\ index + 6 <= Len(d) =>
           /\ r.kept = <<>> \o F[index + 7].kept
           /\ r.asked = <<d[index + 5][2]>> \o F[index + 7].asked
    BY <1>8, <1>11
  <1>13. AtDel(d, index, stale) /\ index + 5 = Len(d) =>
           /\ r.kept = saveToBuf(d, index, Nul) \o F[index + 7].kept
           /\ r.asked = <<>> \o F[index + 7].asked
    BY <1>8, <1>11
  <1>14. QED
    BY <1>3, <1>4, <1>5, <1>6, <1>10, <1>12, <1>13 DEF Cases

\* It asks the rest of the loop only from a place behind it, and within the data.
LEMMA PassBehind ==
  ASSUME NEW d, Len(d) \in Nat, NEW before, NEW stale, NEW F, NEW G, NEW index \in Nat,
         \A i \in index + 1 .. Len(d) + 7 : G[i] = F[i]
  PROVE  Turn(d, before, stale, G, index) = Turn(d, before, stale, F, index)
  <1>1. PICK p : p = delParser(d, index)
    OBVIOUS
  <1>2. ASSUME NEW H
        PROVE  Turn(d, before, stale, H, index) =
                 IF index >= Len(d) THEN [kept |-> <<>>, asked |-> <<>>]
                 ELSE IF d[index + 1][1] # "*" THEN H[index + 1]
                 ELSE IF Len(d) <= 3
                      THEN [kept |-> saveToBuf(d, index - 1, before), asked |-> <<>>]
                 ELSE IF ~IsDel(d, index, stale) THEN H[index + 3]
                 ELSE IF p.index = -1 THEN p
                 ELSE [kept |-> p.kept \o H[p.index].kept, asked |-> p.asked \o H[p.index].asked]
    BY <1>1, Zenon DEF Turn, Header
  <1>3. CASE index >= Len(d)
    BY <1>2, <1>3
  <1>4. CASE index < Len(d)
    <2>1. index + 1 \in index + 1 .. Len(d) + 7 /\ index + 3 \in index + 1 .. Len(d) + 7
          /\ index + 7 \in index + 1 .. Len(d) + 7
      BY <1>4
    <2>2. G[index + 1] = F[index + 1] /\ G[index + 3] = F[index + 3] /\ G[index + 7] = F[index + 7]
      BY <2>1
    <2>3. p.index = -1 \/ p.index = index + 7
      <3>1. index + 4 >= Len(d) \/ index + 6 <= Len(d) \/ index + 5 = Len(d)
        OBVIOUS
      <3>2. QED
        BY <1>1, <3>1, ParserIs
    <2>4. p.index # -1 => G[p.index] = F[p.index]
      BY <2>2, <2>3
    <2>5. QED
      BY <1>2, <2>2, <2>4, Zenon
  <1>5. QED
    BY <1>3, <1>4

LEMMA LoopExists ==
  ASSUME NEW d, Len(d) \in Nat, NEW before, NEW stale
  PROVE  \E F : Loop(d, before, stale, F)
  <1>1. PICK n \in Nat : n = Len(d) + 7
    OBVIOUS
  <1> DEFINE Part(F, k) == \A i \in n - k .. n : F[i] = Turn(d, before, stale, F, i)
             S == {k \in 0 .. n : \E F : Part(F, k)}
  <1>2. ASSUME NEW F, NEW i \in 0 .. n, NEW E,
               E = [j \in 0 .. n |-> IF j = i THEN Turn(d, before, stale, F, i) ELSE F[j]],
               \A j \in i + 1 .. n : F[j] = Turn(d, before, stale, F, j)
        PROVE  \A j \in i .. n : E[j] = Turn(d, before, stale, E, j)
    <2>1. E[i] = Turn(d, before, stale, F, i) /\ \A j \in i + 1 .. n : E[j] = F[j]
      BY <1>2
    <2>2. ASSUME NEW j \in i .. n PROVE Turn(d, before, stale, E, j) = Turn(d, before, stale, F, j)
      <3>1. \A k \in j + 1 .. Len(d) + 7 : E[k] = F[k]
        BY <1>1, <2>1
      <3>2. j \in Nat
        OBVIOUS
      <3>3. QED
        BY <3>1, <3>2, PassBehind
    <2>3. ASSUME NEW j \in i .. n PROVE E[j] = Turn(d, before, stale, E, j)
      <3>1. CASE j = i
        BY <2>1, <2>2, <3>1
      <3>2. CASE j # i
        <4>1. j \in i + 1 .. n
          BY <3>2
        <4>2. QED
          BY <1>2, <2>1, <2>2, <4>1
      <3>3. QED
        BY <3>1, <3>2
    <2>4. QED
      BY <2>3
  <1>3. 0 \in S
    <2>1. PICK F : F = [j \in 0 .. n |-> 0]
      OBVIOUS
    <2>2. PICK E : E = [j \in 0 .. n |-> IF j = n THEN Turn(d, before, stale, F, n) ELSE F[j]]
      OBVIOUS
    <2>3. n \in 0 .. n /\ \A j \in n + 1 .. n : F[j] = Turn(d, before, stale, F, j)
      BY <1>1
    <2>4. \A j \in n .. n : E[j] = Turn(d, before, stale, E, j)
      BY <1>2, <2>2, <2>3
    <2>5. n - 0 = n /\ 0 \in 0 .. n
      BY <1>1
    <2>6. Part(E, 0)
      BY <2>4, <2>5
    <2> HIDE DEF Part
    <2>7. QED
      BY <2>5, <2>6
  <1>4. ASSUME NEW k \in 0 .. n, k # n, k \in S PROVE k + 1 \in S
    <2>1. PICK F : Part(F, k)
      BY <1>4
    <2>2. PICK i \in 0 .. n : i = n - (k + 1)
      <3>1. k # n
        BY <1>4
      <3>2. n - (k + 1) \in 0 .. n
        BY <1>1, <3>1
      <3>3. QED
        BY <3>2
    <2>3. PICK E : E = [j \in 0 .. n |-> IF j = i THEN Turn(d, before, stale, F, i) ELSE F[j]]
      OBVIOUS
    <2>4. i + 1 = n - k
      BY <1>1, <2>2
    <2>5. \A j \in i + 1 .. n : F[j] = Turn(d, before, stale, F, j)
      BY <2>1, <2>4
    <2>6. \A j \in i .. n : E[j] = Turn(d, before, stale, E, j)
      BY <1>2, <2>3, <2>5
    <2>7. Part(E, k + 1)
      BY <2>2, <2>6
    <2>8. k + 1 \in 0 .. n
      BY <1>1, <1>4
    <2> HIDE DEF Part
    <2>9. QED
      BY <2>7, <2>8
  <1> HIDE DEF S
  <1>5. n \in S
    <2>1. 0 .. n \subseteq S
      BY <1>1, <1>3, <1>4, StepByStep
    <2>2. QED
      BY <1>1, <2>1
  <1>6. PICK F : Part(F, n)
    BY <1>5 DEF S
  <1>7. PICK E : E = [i \in 0 .. n |-> F[i]]
    OBVIOUS
  <1>8. ASSUME NEW i \in 0 .. n PROVE E[i] = Turn(d, before, stale, E, i)
    <2>1. \A k \in i + 1 .. Len(d) + 7 : E[k] = F[k]
      BY <1>1, <1>7
    <2>2. i \in Nat
      BY <1>1
    <2>3. Turn(d, before, stale, E, i) = Turn(d, before, stale, F, i)
      BY <2>1, <2>2, PassBehind
    <2>4. i \in n - n .. n
      BY <1>1
    <2>5. F[i] = Turn(d, before, stale, F, i)
      BY <1>6, <2>4
    <2>6. E[i] = F[i]
      BY <1>7
    <2>7. QED
      BY <2>3, <2>5, <2>6
  <1>9. E = [i \in 0 .. n |-> E[i]]
    BY <1>7
  <1>10. E = [i \in 0 .. n |-> Turn(d, before, stale, E, i)]
    BY <1>8, <1>9
  <1>11. n = Len(d) + Header + KeyLen + 2
    BY <1>1 DEF Header, KeyLen
  <1>12. QED
    BY <1>10, <1>11 DEF Loop

\* What processInputBuffer gives: the first of the results of a loop that goes
\* by its cases everywhere.
LEMMA BufferLoop ==
  ASSUME NEW d, Len(d) \in Nat, NEW before, NEW stale
  PROVE  \E F : /\ processInputBuffer(d, before, stale) = F[0]
                /\ \A i \in 0 .. Len(d) + 7 : Cases(d, before, stale, F, i, F[i])
  <1> DEFINE Body(F) == [index \in 0..(Len(d) + Header + KeyLen + 2) |-> Turn(d, before, stale, F, index)]
  <1>1. processInputBuffer(d, before, stale) = (CHOOSE F : F = Body(F))[0]
    BY Zenon DEF processInputBuffer, Turn
  <1>2. ASSUME NEW F PROVE Loop(d, before, stale, F) <=> F = Body(F)
    BY DEF Loop
  <1>3. \E F : F = Body(F)
    BY <1>2, LoopExists
  <1>4. PICK F : F = (CHOOSE E : E = Body(E))
    OBVIOUS
  <1>5. F = Body(F)
    BY <1>3, <1>4
  <1>6. processInputBuffer(d, before, stale) = F[0]
    BY <1>1, <1>4, Zenon
  <1>7. ASSUME NEW i \in 0 .. Len(d) + 7 PROVE Cases(d, before, stale, F, i, F[i])
    <2>1. i \in 0 .. (Len(d) + Header + KeyLen + 2) /\ i \in Nat
      BY DEF Header, KeyLen
    <2>2. F[i] = Turn(d, before, stale, F, i)
      BY <1>5, <2>1
    <2>3. QED
      BY <2>1, <2>2, PassCases
  <1>8. QED
    BY <1>6, <1>7

\* Commands asked for: the bytes of a DEL are behind the l-th symbol and the key
\* ends before the h-th; in the order of the stream and once each.
Asks(q, l, h) ==
  /\ q \in Seq(1 .. StreamLength)
  /\ \A i \in 1 .. Len(q) : kinds[q[i]] \in HasDel /\ l <= DelStart(q[i]) /\ DelStart(q[i]) + 6 <= h
  /\ \A i, j \in 1 .. Len(q) : i < j => q[i] < q[j]

LEMMA AsksNone ==
  ASSUME NEW l, NEW h, NEW q, q = <<>>
  PROVE  Asks(q, l, h)
  <1>1. q \in Seq(1 .. StreamLength) /\ Len(q) = 0
    BY EmptyIn
  <1>2. \A i \in 1 .. Len(q) : FALSE
    BY <1>1
  <1>3. \A i \in 1 .. Len(q) : kinds[q[i]] \in HasDel /\ l <= DelStart(q[i]) /\ DelStart(q[i]) + 6 <= h
    BY <1>2, Zenon
  <1>4. \A i, j \in 1 .. Len(q) : i < j => q[i] < q[j]
    BY <1>2, Zenon
  <1>5. QED
    BY <1>1, <1>3, <1>4, Zenon DEF Asks

LEMMA AsksOne ==
  ASSUME NEW l, NEW h, NEW n \in 1 .. StreamLength, kinds[n] \in HasDel, l <= DelStart(n),
         DelStart(n) + 6 <= h, NEW q, q = <<n>>
  PROVE  Asks(q, l, h)
  <1>1. q \in Seq(1 .. StreamLength) /\ Len(q) = 1 /\ q[1] = n
    OBVIOUS
  <1>2. \A i \in 1 .. Len(q) : i = 1
    BY <1>1
  <1>3. \A i \in 1 .. Len(q) : kinds[q[i]] \in HasDel /\ l <= DelStart(q[i]) /\ DelStart(q[i]) + 6 <= h
    BY <1>1, <1>2
  <1>4. \A i, j \in 1 .. Len(q) : ~(i < j)
    BY <1>2
  <1>5. QED
    BY <1>1, <1>3, <1>4 DEF Asks

\* Commands one behind the other in the stream.
LEMMA InOrder ==
  ASSUME Laid, NEW l \in 1 .. StreamLength, NEW n \in 1 .. StreamLength
  PROVE  /\ Start(l) \in Nat /\ Start(n) \in Nat
         /\ Start(l) + 1 <= Start(n) => l < n
         /\ l < n => Start(l) + Size(l) <= Start(n)
         /\ Start(l) = Start(n) => l = n
  <1>1. Start(l) \in Nat /\ Start(n) \in Nat /\ Size(l) \in 5 .. 10 /\ Size(n) \in 5 .. 10
    BY DEF Laid, Placed, Size, Length
  <1>2. (l < n => Start(l) + Size(l) <= Start(n)) /\ (n < l => Start(n) + Size(n) <= Start(l))
    BY DEF Laid, Placed, Precedes
  <1>3. l < n \/ n < l \/ l = n
    OBVIOUS
  <1>4. QED
    BY <1>1, <1>2, <1>3

\* The bytes of a DEL are within their command, too.
LEMMA DelInside ==
  ASSUME Laid, NEW n \in 1 .. StreamLength
  PROVE  /\ DelStart(n) \in Nat /\ Start(n) \in Nat /\ Start(n) <= DelStart(n)
         /\ kinds[n] \in HasDel => DelStart(n) + 7 <= Start(n) + Size(n)
  <1>1. Start(n) \in Nat
    BY InOrder
  <1>2. DelStart(n) = Start(n) + Shift(kinds[n]) /\ Shift(kinds[n]) \in {0, 3}
    BY DelStartIs DEF Shift
  <1>3. kinds[n] \in HasDel => Shift(kinds[n]) + 7 = Size(n)
    BY DEF HasDel, Shift, Size, Length
  <1>4. Size(n) \in Nat
    BY DEF Size, Length
  <1>5. QED
    BY <1>1, <1>2, <1>3, <1>4

LEMMA DelInOrder ==
  ASSUME Laid, NEW l \in 1 .. StreamLength, NEW n \in 1 .. StreamLength,
         kinds[l] \in HasDel, kinds[n] \in HasDel, DelStart(l) + 1 <= DelStart(n)
  PROVE  l < n
  <1>1. /\ DelStart(l) \in Nat /\ Start(l) \in Nat /\ Start(l) <= DelStart(l)
        /\ DelStart(n) \in Nat /\ DelStart(n) + 7 <= Start(n) + Size(n)
    BY DelInside
  <1>2. n < l => Start(n) + Size(n) <= Start(l)
    BY InOrder
  <1>3. Start(n) \in Nat /\ Size(n) \in Nat
    BY DelInside DEF Size, Length
  <1>4. ~(n < l)
    BY <1>1, <1>2, <1>3
  <1>5. l # n
    BY <1>1
  <1>6. QED
    BY <1>4, <1>5

LEMMA AsksJoin ==
  ASSUME Laid, NEW l \in Int, NEW h \in Int, NEW m \in Int, l <= h, h <= m,
         NEW q, Asks(q, l, h), NEW w, Asks(w, h, m), NEW e, e = q \o w
  PROVE  Asks(e, l, m)
  <1>1. /\ q \in Seq(1 .. StreamLength) /\ Len(q) \in Nat
        /\ w \in Seq(1 .. StreamLength) /\ Len(w) \in Nat
    BY LenProperties DEF Asks
  <1>2. /\ e \in Seq(1 .. StreamLength) /\ Len(e) = Len(q) + Len(w)
        /\ \A i \in 1 .. Len(q) : e[i] = q[i]
        /\ \A i \in 1 .. Len(w) : e[Len(q) + i] = w[i]
    <2>1. e \in Seq(1 .. StreamLength) /\ IsJoin(e, q, w)
      BY <1>1, Lengthened
    <2>2. QED
      BY <2>1 DEF IsJoin
  <1>3. ASSUME NEW i \in 1 .. Len(e)
        PROVE  \/ i \in 1 .. Len(q) /\ e[i] = q[i] /\ q[i] \in 1 .. StreamLength
               \/ /\ i - Len(q) \in 1 .. Len(w) /\ e[i] = w[i - Len(q)]
                  /\ w[i - Len(q)] \in 1 .. StreamLength
    <2>1. CASE i <= Len(q)
      <3>1. i \in 1 .. Len(q)
        BY <1>1, <2>1
      <3>2. q[i] \in 1 .. StreamLength
        BY <1>1, <3>1, ElementOfSeq
      <3>3. QED
        BY <1>2, <3>1, <3>2
    <2>2. CASE ~(i <= Len(q))
      <3>1. i - Len(q) \in 1 .. Len(w) /\ i = Len(q) + (i - Len(q))
        BY <1>1, <1>2, <2>2
      <3>2. e[i] = w[i - Len(q)]
        BY <1>2, <3>1
      <3>3. w[i - Len(q)] \in 1 .. StreamLength
        BY <1>1, <3>1, ElementOfSeq
      <3>4. QED
        BY <3>1, <3>2, <3>3
    <2>3. QED
      BY <2>1, <2>2
  <1>4. ASSUME NEW i \in 1 .. Len(q)
        PROVE  q[i] \in 1 .. StreamLength /\ kinds[q[i]] \in HasDel /\ l <= DelStart(q[i]) /\ DelStart(q[i]) + 6 <= h
               /\ DelStart(q[i]) \in Nat
    <2>1. q[i] \in 1 .. StreamLength
      BY <1>1, ElementOfSeq
    <2>2. DelStart(q[i]) \in Nat
      BY <2>1, DelInside
    <2>3. QED
      BY <2>1, <2>2 DEF Asks
  <1>5. ASSUME NEW i \in 1 .. Len(w)
        PROVE  w[i] \in 1 .. StreamLength /\ kinds[w[i]] \in HasDel /\ h <= DelStart(w[i]) /\ DelStart(w[i]) + 6 <= m
               /\ DelStart(w[i]) \in Nat
    <2>1. w[i] \in 1 .. StreamLength
      BY <1>1, ElementOfSeq
    <2>2. DelStart(w[i]) \in Nat
      BY <2>1, DelInside
    <2>3. QED
      BY <2>1, <2>2 DEF Asks
  <1>6. ASSUME NEW i \in 1 .. Len(e)
        PROVE  kinds[e[i]] \in HasDel /\ l <= DelStart(e[i]) /\ DelStart(e[i]) + 6 <= m
    <2>1. CASE i \in 1 .. Len(q) /\ e[i] = q[i]
      BY <1>4, <2>1
    <2>2. CASE i - Len(q) \in 1 .. Len(w) /\ e[i] = w[i - Len(q)]
      BY <1>5, <2>2
    <2>3. QED
      BY <1>3, <2>1, <2>2
  <1>7. ASSUME NEW i \in 1 .. Len(e), NEW j \in 1 .. Len(e), i < j PROVE e[i] < e[j]
    <2>1. CASE j \in 1 .. Len(q) /\ e[j] = q[j]
      <3>1. i \in 1 .. Len(q)
        BY <1>1, <1>7, <2>1
      <3>2. e[i] = q[i] /\ q[i] < q[j]
        BY <1>2, <1>7, <2>1, <3>1 DEF Asks
      <3>3. QED
        BY <2>1, <3>2
    <2>2. CASE j - Len(q) \in 1 .. Len(w) /\ e[j] = w[j - Len(q)]
      <3>1. CASE i \in 1 .. Len(q) /\ e[i] = q[i]
        <4>1. /\ q[i] \in 1 .. StreamLength /\ DelStart(q[i]) + 6 <= h /\ DelStart(q[i]) \in Nat
              /\ w[j - Len(q)] \in 1 .. StreamLength /\ h <= DelStart(w[j - Len(q)])
              /\ DelStart(w[j - Len(q)]) \in Nat
          BY <1>4, <1>5, <2>2, <3>1
        <4>2. DelStart(q[i]) + 1 <= DelStart(w[j - Len(q)])
          BY <4>1
        <4>3. q[i] < w[j - Len(q)]
          <5>1. kinds[q[i]] \in HasDel /\ kinds[w[j - Len(q)]] \in HasDel
            BY <1>4, <1>5, <2>2, <3>1
          <5>2. QED
            BY <4>1, <4>2, <5>1, DelInOrder
        <4>4. QED
          BY <2>2, <3>1, <4>3
      <3>2. CASE i - Len(q) \in 1 .. Len(w) /\ e[i] = w[i - Len(q)]
        <4>1. i - Len(q) < j - Len(q)
          BY <1>1, <1>7
        <4>2. w[i - Len(q)] < w[j - Len(q)]
          BY <2>2, <3>2, <4>1 DEF Asks
        <4>3. QED
          BY <2>2, <3>2, <4>2
      <3>3. QED
        BY <1>3, <3>1, <3>2
    <2>3. QED
      BY <1>3, <2>1, <2>2
  <1>8. QED
    BY <1>2, <1>6, <1>7 DEF Asks

\* A header that is found in the data is that of a DEL in the stream, as a command
\* or in a value.
LEMMA DelFound ==
  ASSUME Chosen, Laid, NEW p \in Nat, p <= Len(symbols), NEW l \in Nat, NEW d, Shape(d, p, l),
         NEW index \in Nat, NEW stale, AtDel(d, index, stale), index + 3 <= Len(d)
  PROVE  \E n \in 1 .. StreamLength :
           /\ kinds[n] \in HasDel /\ DelStart(n) = p - Len(d) + index /\ l <= DelStart(n)
           /\ index + 6 <= Len(d) => d[index + 5][2] = n
  <1>1. d \in Seq(Char) /\ Len(d) \in Nat
    BY LenProperties DEF Shape
  <1>2. /\ d[index + 1][1] = "*" /\ d[index + 2][1] = "D" /\ d[index + 3][1] = "$"
        /\ index + 1 \in 1 .. Len(d) /\ index + 2 \in 1 .. Len(d) /\ index + 3 \in 1 .. Len(d)
    <2>1. \A i \in 1 .. 3 : index + i <= Len(d) => d[index + i][1] = <<"*", "D", "$">>[i]
      BY DEF AtDel, IsDel, Header
    <2>2. 2 \in 1 .. 3 /\ index + 2 <= Len(d) /\ <<"*", "D", "$">>[2] = "D"
      BY <1>1
    <2>3. 3 \in 1 .. 3 /\ index + 3 <= Len(d) /\ <<"*", "D", "$">>[3] = "$"
      BY <1>1
    <2>4. d[index + 2][1] = "D" /\ d[index + 3][1] = "$"
      BY <2>1, <2>2, <2>3
    <2>5. QED
      BY <1>1, <2>4 DEF AtDel, AtStar
  <1>3. ~Junk(d[index + 1]) /\ ~Junk(d[index + 2]) /\ ~Junk(d[index + 3])
    BY <1>2, JunkIn
  <1>4. ASSUME NEW j \in index + 1 .. Len(d), ~Junk(d[j])
        PROVE  d[j] = symbols[p - Len(d) + j] /\ p - Len(d) + j > l
    <2>1. j \in 1 .. Len(d)
      BY <1>1
    <2>2. QED
      BY <1>4, <2>1, ShapeReal
  <1>5. PICK x : x = p - Len(d) + (index + 1)
    OBVIOUS
  <1>6. /\ x \in 1 .. Len(symbols) /\ x > l
        /\ symbols[x][1] = "*" /\ symbols[x + 1][1] = "D"
    <2>1. index + 1 \in index + 1 .. Len(d) /\ index + 2 \in index + 1 .. Len(d)
      BY <1>1, <1>2
    <2>2. d[index + 1] = symbols[x] /\ x > l
      BY <1>3, <1>4, <1>5, <2>1
    <2>3. d[index + 2] = symbols[p - Len(d) + (index + 2)] /\ p - Len(d) + (index + 2) = x + 1
      BY <1>1, <1>3, <1>4, <1>5, <2>1
    <2>4. x \in Int /\ x <= p
      BY <1>1, <1>2, <1>5
    <2>5. x \in 1 .. Len(symbols)
      <3>1. symbols \in Seq(Char) /\ Len(symbols) \in Nat
        BY LenProperties DEF Laid, Placed
      <3>2. QED
        BY <2>2, <2>4, <3>1
    <2>6. QED
      BY <1>2, <2>2, <2>3, <2>5
  <1>7. PICK n \in 1 .. StreamLength : x = DelStart(n) + 1 /\ kinds[n] \in HasDel
    BY <1>6, StarAt
  <1>8. DelStart(n) = p - Len(d) + index /\ l <= DelStart(n) /\ DelStart(n) \in Nat
    <2>1. DelStart(n) \in Nat
      BY DelInside
    <2>2. x > l /\ x \in Int
      BY <1>6
    <2>3. DelStart(n) = x - 1
      BY <1>7, <2>1
    <2>4. QED
      BY <1>1, <1>5, <2>1, <2>2, <2>3
  <1>9. ASSUME index + 6 <= Len(d) PROVE d[index + 5][2] = n
    <2>1. \A i \in 1 .. 5 : ~Junk(symbols[DelStart(n) + i])
      BY <1>7, DelAt
    <2>2. ASSUME NEW j \in 3 .. 4, ~Junk(d[index + j]) PROVE ~Junk(d[index + (j + 1)])
      <3>1. index + j \in 1 .. Len(d) - 1 /\ j + 1 \in 1 .. 5 /\ index + (j + 1) = index + j + 1
        BY <1>1, <1>9
      <3>2. Linked(d, p, index + j)
        BY <3>1 DEF Shape
      <3>3. p - Len(d) + (index + j) + 1 = DelStart(n) + (j + 1)
        BY <1>1, <1>8
      <3>4. ~Junk(symbols[DelStart(n) + (j + 1)])
        BY <2>1, <3>1
      <3>5. QED
        BY <2>2, <3>1, <3>2, <3>3, <3>4 DEF Linked
    <2>3. ~Junk(d[index + 5])
      <3>1. 3 \in 3 .. 4 /\ 4 \in 3 .. 4 /\ 3 + 1 = 4 /\ 4 + 1 = 5
        OBVIOUS
      <3>2. QED
        BY <1>3, <2>2, <3>1
    <2>4. index + 5 \in index + 1 .. Len(d) /\ p - Len(d) + (index + 5) = DelStart(n) + 5
      BY <1>1, <1>8, <1>9
    <2>5. d[index + 5] = symbols[DelStart(n) + 5]
      BY <1>4, <2>3, <2>4
    <2>6. symbols[DelStart(n) + 5][2] = n
      BY <1>7, DelAt
    <2>7. QED
      BY <2>5, <2>6
  <1>10. QED
    BY <1>7, <1>8, <1>9

\* What the rest of the loop gives is sound behind the l-th symbol: the commands
\* it asks for come in order, and what it keeps begins behind their keys.
Sound(r, p, l) == \E h \in l .. p : Shape(r.kept, p, h) /\ Asks(r.asked, l, h)
SoundFrom(F, d, p, lo, i) == \A l \in 0 .. p : Behind(l, lo, d, p, i) => Sound(F[i], p, l)

LEMMA SoundKept ==
  ASSUME NEW p, NEW l \in Int, l <= p, p \in Int, NEW r, Shape(r.kept, p, l), r.asked = <<>>
  PROVE  Sound(r, p, l)
  <1>1. Asks(r.asked, l, l)
    BY AsksNone
  <1>2. l \in l .. p
    OBVIOUS
  <1>3. QED
    BY <1>1, <1>2 DEF Sound

LEMMA SoundStep ==
  ASSUME Chosen, Laid, NEW p \in Nat, p <= Len(symbols), NEW lo \in 0 .. p,
         NEW d, Shape(d, p, lo), NEW before, Junk(before), NEW stale, NEW F,
         NEW i \in 0 .. Len(d) + 7,
         \A j \in i .. Len(d) + 7 : Cases(d, before, stale, F, j, F[j]),
         \A j \in i + 1 .. Len(d) + 7 : SoundFrom(F, d, p, lo, j)
  PROVE  SoundFrom(F, d, p, lo, i)
  <1>1. SUFFICES ASSUME NEW l \in 0 .. p, Behind(l, lo, d, p, i) PROVE Sound(F[i], p, l)
    BY DEF SoundFrom
  <1>2. d \in Seq(Char) /\ Len(d) \in Nat
    BY LenProperties DEF Shape
  <1>3. ASSUME NEW j \in i .. Len(d) + 7 PROVE Behind(l, lo, d, p, j)
    BY <1>1, <1>2 DEF Behind
  <1>4. ASSUME NEW j \in i + 1 .. Len(d) + 7 PROVE Sound(F[j], p, l)
    <2>1. Behind(l, lo, d, p, j)
      BY <1>3
    <2>2. QED
      BY <2>1 DEF SoundFrom
  <1>5. Cases(d, before, stale, F, i, F[i])
    <2>1. i \in i .. Len(d) + 7
      OBVIOUS
    <2>2. QED
      BY <2>1
  <1>6. l \in Int /\ p \in Int /\ l <= p /\ lo \in Int
    OBVIOUS
  <1>7. CASE i >= Len(d)
    <2>1. F[i].kept = <<>> /\ F[i].asked = <<>>
      BY <1>5, <1>7 DEF Cases
    <2>2. Shape(F[i].kept, p, l)
      BY <2>1, ShapeEmpty
    <2>3. QED
      BY <1>6, <2>1, <2>2, SoundKept
  <1>8. CASE i < Len(d) /\ ~AtStar(d, i)
    <2>1. F[i] = F[i + 1]
      BY <1>5, <1>8 DEF Cases
    <2>2. i + 1 \in i + 1 .. Len(d) + 7
      BY <1>2, <1>8
    <2>3. QED
      BY <1>4, <2>1, <2>2
  <1>9. CASE AtStar(d, i) /\ Len(d) <= Header
    <2>1. F[i].kept = saveToBuf(d, i - 1, before) /\ F[i].asked = <<>>
      BY <1>5, <1>9 DEF Cases
    <2>2. i - 1 \in -1 .. Len(d) /\ i - 1 + 1 = i
      BY <1>2, <1>9 DEF AtStar
    <2>3. Behind(l, lo, d, p, i - 1 + 1)
      BY <1>1, <2>2
    <2>4. Shape(F[i].kept, p, l)
      BY <1>6, <2>1, <2>2, <2>3, ShapeSave
    <2>5. QED
      BY <1>6, <2>1, <2>4, SoundKept
  <1>10. CASE AtStar(d, i) /\ Len(d) > Header /\ ~IsDel(d, i, stale)
    <2>1. F[i] = F[i + 3]
      BY <1>5, <1>10 DEF Cases
    <2>2. i + 3 \in i + 1 .. Len(d) + 7
      BY <1>2, <1>10 DEF AtStar
    <2>3. QED
      BY <1>4, <2>1, <2>2
  <1>11. ASSUME AtDel(d, i, stale), NEW e, e = saveToBuf(d, i, Nul) PROVE Shape(e, p, l)
    <2>1. i \in -1 .. Len(d) /\ i + 1 \in i .. Len(d) + 7
      BY <1>2, <1>11 DEF AtDel, AtStar
    <2>2. Behind(l, lo, d, p, i + 1)
      BY <1>3, <2>1
    <2>3. QED
      BY <1>6, <1>11, <2>1, <2>2, NulIs, ShapeSave
  <1>12. CASE AtDel(d, i, stale) /\ i + 4 >= Len(d)
    <2>1. F[i].kept = saveToBuf(d, i, Nul) /\ F[i].asked = <<>>
      BY <1>5, <1>12 DEF Cases
    <2>2. Shape(F[i].kept, p, l)
      BY <1>11, <1>12, <2>1
    <2>3. QED
      BY <1>6, <2>1, <2>2, SoundKept
  <1>13. CASE AtDel(d, i, stale) /\ i + 6 <= Len(d)
    <2>1. F[i].kept = <<>> \o F[i + 7].kept /\ F[i].asked = <<d[i + 5][2]>> \o F[i + 7].asked
      BY <1>5, <1>13 DEF Cases
    <2>2. PICK n \in 1 .. StreamLength : kinds[n] \in HasDel /\ DelStart(n) = p - Len(d) + i
                                         /\ lo <= DelStart(n) /\ d[i + 5][2] = n
      <3>1. i + 3 <= Len(d) /\ lo \in Nat /\ i \in Nat
        BY <1>2, <1>13
      <3>2. PICK n \in 1 .. StreamLength :
              /\ kinds[n] \in HasDel /\ DelStart(n) = p - Len(d) + i /\ lo <= DelStart(n)
              /\ i + 6 <= Len(d) => d[i + 5][2] = n
        BY <1>13, <3>1, DelFound
      <3>3. QED
        BY <1>13, <3>2
    <2>3. PICK m : m = DelStart(n) + 6
      OBVIOUS
    <2>4. /\ m \in 0 .. p /\ l <= DelStart(n) /\ l <= m /\ m \in Int
          /\ Behind(m, lo, d, p, i + 7) /\ i + 7 \in i + 1 .. Len(d) + 7
      <3>1. DelStart(n) \in Nat
        BY DelInside
      <3>2. m \in 0 .. p /\ m \in Int
        BY <1>2, <1>13, <2>2, <2>3, <3>1
      <3>3. l <= DelStart(n)
        BY <1>1, <1>2, <2>2, <3>1 DEF Behind
      <3>4. l <= m
        BY <2>3, <3>1, <3>3
      <3>5. m <= p - Len(d) + (i + 7) - 1
        BY <1>2, <2>2, <2>3, <3>1
      <3>6. i + 7 \in i + 1 .. Len(d) + 7
        BY <1>2, <1>13
      <3>7. QED
        BY <3>2, <3>3, <3>4, <3>5, <3>6 DEF Behind
    <2>5. Sound(F[i + 7], p, m)
      <3>1. SoundFrom(F, d, p, lo, i + 7)
        BY <2>4
      <3>2. QED
        BY <2>4, <3>1 DEF SoundFrom
    <2>6. PICK h \in m .. p : Shape(F[i + 7].kept, p, h) /\ Asks(F[i + 7].asked, m, h)
      BY <2>5 DEF Sound
    <2>7. Shape(F[i].kept, p, h)
      <3>1. F[i + 7].kept \in Seq(Char)
        BY <2>6 DEF Shape
      <3>2. <<>> \o F[i + 7].kept = F[i + 7].kept
        BY <3>1, ConcatEmptySeq
      <3>3. QED
        BY <2>1, <2>6, <3>2
    <2>8. Asks(F[i].asked, l, h)
      <3>1. PICK q : q = <<n>>
        OBVIOUS
      <3>2. DelStart(n) + 6 <= m
        <4>1. DelStart(n) \in Nat
          BY DelInside
        <4>2. QED
          BY <2>3, <4>1
      <3>3. Asks(q, l, m)
        BY <2>2, <2>4, <3>1, <3>2, AsksOne
      <3>4. F[i].asked = q \o F[i + 7].asked
        BY <2>1, <2>2, <3>1
      <3>5. l <= m /\ m <= h /\ h \in Int /\ m \in Int
        BY <2>4
      <3>6. QED
        BY <1>6, <2>6, <3>3, <3>4, <3>5, AsksJoin
    <2>9. h \in l .. p
      BY <1>6, <2>4
    <2>10. QED
      BY <2>7, <2>8, <2>9 DEF Sound
  <1>14. CASE AtDel(d, i, stale) /\ i + 5 = Len(d)
    <2>1. /\ F[i].kept = saveToBuf(d, i, Nul) \o F[i + 7].kept
          /\ F[i].asked = <<>> \o F[i + 7].asked
      BY <1>5, <1>14 DEF Cases
    <2>2. F[i + 7].kept = <<>> /\ F[i + 7].asked = <<>>
      <3>1. i + 7 \in i .. Len(d) + 7 /\ i + 7 >= Len(d)
        BY <1>2, <1>14
      <3>2. Cases(d, before, stale, F, i + 7, F[i + 7])
        BY <3>1
      <3>3. QED
        BY <3>1, <3>2 DEF Cases
    <2>3. F[i].asked = <<>>
      <3>1. PICK e : e = <<>>
        OBVIOUS
      <3>2. e \in Seq(Char) /\ e \o <<>> = e
        BY <3>1, EmptyIn, ConcatEmptySeq
      <3>3. QED
        BY <2>1, <2>2, <3>1, <3>2
    <2>4. PICK e : e = saveToBuf(d, i, Nul)
      OBVIOUS
    <2>5. Shape(e, p, l)
      BY <1>11, <1>14, <2>4
    <2>6. e \o <<>> = e
      BY <2>5, ConcatEmptySeq DEF Shape
    <2>7. F[i].kept = e
      BY <2>1, <2>2, <2>4, <2>6
    <2>8. QED
      BY <1>6, <2>3, <2>5, <2>7, SoundKept
  <1>15. \/ i >= Len(d) \/ (i < Len(d) /\ ~AtStar(d, i))
         \/ (AtStar(d, i) /\ Len(d) <= Header)
         \/ (AtStar(d, i) /\ Len(d) > Header /\ ~IsDel(d, i, stale))
         \/ AtDel(d, i, stale)
    BY <1>2 DEF AtDel, AtStar, Header
  <1>16. i + 4 >= Len(d) \/ i + 6 <= Len(d) \/ i + 5 = Len(d)
    BY <1>2
  <1>17. QED
    BY <1>7, <1>8, <1>9, <1>10, <1>12, <1>13, <1>14, <1>15, <1>16

LEMMA LoopSound ==
  ASSUME Chosen, Laid, NEW p \in Nat, p <= Len(symbols), NEW lo \in 0 .. p,
         NEW d, Shape(d, p, lo), NEW before, Junk(before), NEW stale, NEW F,
         \A i \in 0 .. Len(d) + 7 : Cases(d, before, stale, F, i, F[i])
  PROVE  Sound(F[0], p, lo)
  <1>1. d \in Seq(Char) /\ Len(d) \in Nat
    BY LenProperties DEF Shape
  <1>2. PICK n \in Nat : n = Len(d) + 7
    BY <1>1
  <1> DEFINE S == {k \in 0 .. n : \A i \in n - k .. n : SoundFrom(F, d, p, lo, i)}
  <1>3. ASSUME NEW i \in 0 .. n, \A j \in i + 1 .. n : SoundFrom(F, d, p, lo, j)
        PROVE  SoundFrom(F, d, p, lo, i)
    <2>1. \A j \in i .. Len(d) + 7 : Cases(d, before, stale, F, j, F[j])
      BY <1>1, <1>2
    <2>2. i \in 0 .. Len(d) + 7 /\ \A j \in i + 1 .. Len(d) + 7 : SoundFrom(F, d, p, lo, j)
      BY <1>2, <1>3
    <2>3. QED
      BY <2>1, <2>2, SoundStep
  <1>4. 0 \in S
    <2>1. n \in 0 .. n /\ \A j \in n + 1 .. n : SoundFrom(F, d, p, lo, j)
      OBVIOUS
    <2>2. SoundFrom(F, d, p, lo, n)
      BY <1>3, <2>1
    <2>3. \A i \in n - 0 .. n : i = n
      OBVIOUS
    <2>4. QED
      BY <2>2, <2>3
  <1>5. ASSUME NEW k \in 0 .. n, k # n, k \in S PROVE k + 1 \in S
    <2>1. \A i \in n - k .. n : SoundFrom(F, d, p, lo, i)
      BY <1>5
    <2>2. n - (k + 1) \in 0 .. n /\ n - (k + 1) + 1 = n - k /\ k + 1 \in 0 .. n
      BY <1>5
    <2>3. SoundFrom(F, d, p, lo, n - (k + 1))
      BY <1>3, <2>1, <2>2
    <2>4. \A i \in n - (k + 1) .. n : i = n - (k + 1) \/ i \in n - k .. n
      OBVIOUS
    <2>5. QED
      BY <2>1, <2>2, <2>3, <2>4
  <1> HIDE DEF S
  <1>6. n \in S
    <2>1. 0 .. n \subseteq S
      BY <1>4, <1>5, StepByStep
    <2>2. QED
      BY <2>1
  <1>7. SoundFrom(F, d, p, lo, 0)
    <2>1. 0 \in n - n .. n
      OBVIOUS
    <2>2. QED
      BY <1>6, <2>1 DEF S
  <1>8. lo \in 0 .. p /\ Behind(lo, lo, d, p, 0)
    BY DEF Behind
  <1>9. QED
    BY <1>7, <1>8 DEF SoundFrom

\* The rest of the loop misses nothing from the b-th symbol on: every DEL whose
\* header was read is asked for, or it is what is kept.
Plain == \A m \in 1 .. StreamLength : kinds[m] \notin {"StarSET", "DelSET"}
Met(r, p, n) == (\E j \in 1 .. Len(r.asked) : r.asked[j] = n) \/ Len(r.kept) = p - Start(n)
Full(r, p, b) ==
  /\ r.kept \in Seq(Char) /\ Clean(r.kept) /\ Len(r.kept) <= 5
  /\ r.asked \in Seq(1 .. StreamLength)
  /\ \A n \in 1 .. StreamLength :
       kinds[n] = "DEL" /\ Start(n) >= b /\ Start(n) + 3 <= p => Met(r, p, n)

\* Without a "*" in a value, a "*" is where a command begins.
LEMMA StarBegins ==
  ASSUME Chosen, Laid, Plain, NEW p \in Nat, p <= Len(symbols), NEW d, Shape(d, p, 0), Exact(d, p),
         NEW i \in Nat, AtStar(d, i)
  PROVE  \E m \in 1 .. StreamLength :
           /\ Start(m) = p - Len(d) + i
           /\ \A n \in 1 .. StreamLength :
                Start(n) >= p - Len(d) + i => n = m \/ Start(n) >= p - Len(d) + i + Size(m)
  <1>1. d \in Seq(Char) /\ Len(d) \in Nat /\ i + 1 \in 1 .. Len(d)
    BY LenProperties DEF Shape, AtStar
  <1>2. PICK x : x = p - Len(d) + (i + 1)
    OBVIOUS
  <1>3. x \in 1 .. Len(symbols) /\ symbols[x][1] = "*"
    <2>1. d[i + 1] = symbols[x] /\ x > 0
      BY <1>1, <1>2 DEF Exact
    <2>2. symbols \in Seq(Char) /\ Len(symbols) \in Nat
      BY LenProperties DEF Laid, Placed
    <2>3. x \in 1 .. Len(symbols)
      BY <1>1, <1>2, <2>1, <2>2
    <2>4. QED
      BY <2>1, <2>3 DEF AtStar
  <1>4. PICK m \in 1 .. StreamLength : x = Start(m) + 1
    BY <1>3, StarAt DEF Plain
  <1>5. Start(m) \in Nat
    BY InOrder
  <1>6. Start(m) = p - Len(d) + i
    BY <1>1, <1>2, <1>4, <1>5
  <1>7. Size(m) \in 5 .. 10
    BY DEF Size, Length
  <1>8. ASSUME NEW n \in 1 .. StreamLength, Start(n) >= p - Len(d) + i
        PROVE  n = m \/ Start(n) >= p - Len(d) + i + Size(m)
    <2>1. /\ Start(n) \in Nat /\ (Start(m) + 1 <= Start(n) => m < n)
          /\ (m < n => Start(m) + Size(m) <= Start(n)) /\ (Start(m) = Start(n) => m = n)
      BY InOrder
    <2>2. Start(n) = Start(m) \/ Start(m) + 1 <= Start(n)
      BY <1>5, <1>6, <1>8, <2>1
    <2>3. QED
      BY <1>5, <1>6, <1>7, <2>1, <2>2
  <1>9. QED
    BY <1>6, <1>8

\* A header that was read is found.
LEMMA HeaderSeen ==
  ASSUME Chosen, Laid, Terminated, NEW p \in Nat, NEW d, Shape(d, p, 0), Exact(d, p),
         NEW i \in Nat, NEW stale, NEW n \in 1 .. StreamLength, kinds[n] = "DEL",
         Start(n) = p - Len(d) + i, Start(n) + 3 <= p
  PROVE  IsDel(d, i, stale)
  <1>1. d \in Seq(Char) /\ Len(d) \in Nat
    BY LenProperties DEF Shape
  <1>2. i + 3 <= Len(d)
    BY <1>1
  <1>3. ASSUME NEW j \in 1 .. 3 PROVE d[i + j] = symbols[Start(n) + j]
    <2>1. i + j \in 1 .. Len(d) /\ p - Len(d) + (i + j) = Start(n) + j
      BY <1>1, <1>2
    <2>2. QED
      BY <2>1 DEF Exact
  <1>4. symbols[Start(n) + 1][1] = "*" /\ symbols[Start(n) + 2][1] = "D" /\ symbols[Start(n) + 3][1] = "$"
    BY DelCommand
  <1>5. ASSUME NEW j \in 1 .. 3 PROVE d[i + j][1] = <<"*", "D", "$">>[j]
    <2>1. j = 1 \/ j = 2 \/ j = 3
      OBVIOUS
    <2>2. CASE j = 1
      BY <1>3, <1>4, <2>2
    <2>3. CASE j = 2
      BY <1>3, <1>4, <2>3
    <2>4. CASE j = 3
      BY <1>3, <1>4, <2>4
    <2>5. QED
      BY <2>1, <2>2, <2>3, <2>4
  <1>6. QED
    BY <1>2, <1>5 DEF IsDel, Header

LEMMA FullNone ==
  ASSUME NEW p, NEW b, NEW r, r.kept = <<>>, r.asked = <<>>,
         \A n \in 1 .. StreamLength : ~(kinds[n] = "DEL" /\ Start(n) >= b /\ Start(n) + 3 <= p)
  PROVE  Full(r, p, b)
  <1>1. r.kept \in Seq(Char) /\ Len(r.kept) = 0 /\ r.asked \in Seq(1 .. StreamLength)
    BY EmptyIn
  <1>2. Clean(r.kept) /\ Len(r.kept) <= 5
    <2>1. \A j \in 1 .. Len(r.kept) : FALSE
      BY <1>1
    <2>2. Clean(r.kept)
      BY <2>1, Zenon DEF Clean
    <2>3. QED
      BY <1>1, <2>2
  <1>3. QED
    BY <1>1, <1>2 DEF Full

LEMMA FullLater ==
  ASSUME NEW p, NEW b, NEW c, NEW r, Full(r, p, c),
         \A n \in 1 .. StreamLength :
           kinds[n] = "DEL" /\ Start(n) >= b /\ Start(n) + 3 <= p => Start(n) >= c
  PROVE  Full(r, p, b)
  BY DEF Full

\* What is kept from index i on, when nothing was asked for.
LEMMA FullKept ==
  ASSUME NEW p \in Nat, NEW d, Shape(d, p, 0), NEW i \in 0 .. Len(d), Len(d) - i <= 5,
         \A j \in i + 1 .. Len(d) : ~Junk(d[j]),
         MAX_READ \in Nat, MAX_READ > 5, NEW r, r.kept = saveToBuf(d, i, Nul), r.asked = <<>>,
         NEW m, \A n \in 1 .. StreamLength :
           kinds[n] = "DEL" /\ Start(n) >= p - Len(d) + i /\ Start(n) + 3 <= p => n = m,
         Start(m) = p - Len(d) + i
  PROVE  Full(r, p, p - Len(d) + i)
  <1>1. d \in Seq(Char) /\ Len(d) \in Nat
    BY LenProperties DEF Shape
  <1>2. PICK e : e = saveToBuf(d, i, Nul)
    OBVIOUS
  <1>3. Clean(e) /\ Len(e) = Len(d) - i
    <2>1. Len(d) - i < MAX_READ
      BY <1>1
    <2>2. QED
      BY <1>1, <1>2, <2>1, CleanSave
  <1>4. e \in Seq(Char)
    <2>1. PICK l : l = -Len(d) - 1
      OBVIOUS
    <2>2. l \in Int /\ Behind(l, 0, d, p, i + 1) /\ i \in -1 .. Len(d) /\ 0 \in Int
      BY <1>1, <2>1 DEF Behind
    <2>3. Shape(e, p, l)
      BY <1>2, <2>2, NulIs, ShapeSave
    <2>4. QED
      BY <2>3 DEF Shape
  <1>5. r.asked \in Seq(1 .. StreamLength)
    BY EmptyIn
  <1>6. Len(r.kept) <= 5 /\ Len(r.kept) = p - Start(m)
    BY <1>1, <1>2, <1>3
  <1>7. ASSUME NEW n \in 1 .. StreamLength, kinds[n] = "DEL", Start(n) >= p - Len(d) + i,
               Start(n) + 3 <= p
        PROVE  Met(r, p, n)
    <2>1. n = m
      BY <1>7
    <2>2. QED
      BY <1>6, <2>1 DEF Met
  <1>8. QED
    BY <1>2, <1>3, <1>4, <1>5, <1>6, <1>7 DEF Full

\* What is kept of a DEL has no zero in it: its header, or the part of it that
\* was read, and the length are not zero, and nothing more is kept.
LEMMA KeptClean ==
  ASSUME Chosen, Laid, Plain, NEW p \in Nat, p <= Len(symbols), NEW d, Shape(d, p, 0), Exact(d, p),
         NEW i \in Nat, NEW stale, AtDel(d, i, stale), Len(d) - i <= 5,
         NEW m \in 1 .. StreamLength, Start(m) = p - Len(d) + i
  PROVE  \A j \in i + 1 .. Len(d) : ~Junk(d[j])
  <1>1. d \in Seq(Char) /\ Len(d) \in Nat /\ i < Len(d) /\ d[i + 1][1] = "*"
    BY LenProperties DEF Shape, AtDel, AtStar
  <1>2. ASSUME NEW j \in 1 .. 5, i + j <= Len(d) PROVE d[i + j] = symbols[Start(m) + j]
    <2>1. i + j \in 1 .. Len(d) /\ p - Len(d) + (i + j) = Start(m) + j
      BY <1>1, <1>2
    <2>2. QED
      BY <2>1 DEF Exact
  <1>3. CASE i + 2 <= Len(d)
    <2>1. \A k \in 1 .. 3 : i + k <= Len(d) => d[i + k][1] = <<"*", "D", "$">>[k]
      BY DEF AtDel, IsDel, Header
    <2>2. 2 \in 1 .. 3 /\ <<"*", "D", "$">>[2] = "D" /\ 2 \in 1 .. 5
      OBVIOUS
    <2>3. d[i + 2][1] = "D"
      BY <1>3, <2>1, <2>2
    <2>4. symbols[Start(m) + 2][1] = "D"
      BY <1>2, <1>3, <2>2, <2>3
    <2>5. kinds[m] = "DEL"
      BY <2>4, SecondIs
    <2>6. \A k \in 1 .. 5 : ~Junk(symbols[Start(m) + k])
      BY <2>5, DelCommand
    <2>7. ASSUME NEW j \in i + 1 .. Len(d) PROVE ~Junk(d[j])
      <3>1. j - i \in 1 .. 5 /\ i + (j - i) = j /\ i + (j - i) <= Len(d)
        <4>1. Len(d) \in Nat /\ j \in Int /\ i < j /\ j <= Len(d) /\ j <= i + 5
          BY <1>1
        <4>2. j - i \in 1 .. 5
          BY <4>1
        <4>3. i + (j - i) = j
          BY <4>1
        <4>4. QED
          BY <4>1, <4>2, <4>3
      <3>2. QED
        BY <1>2, <2>6, <3>1
    <2>8. QED
      BY <2>7
  <1>4. CASE ~(i + 2 <= Len(d))
    <2>1. \A j \in i + 1 .. Len(d) : j = i + 1
      BY <1>1, <1>4
    <2>2. ~Junk(d[i + 1])
      BY <1>1, JunkIn
    <2>3. QED
      BY <2>1, <2>2
  <1>5. QED
    BY <1>3, <1>4

LEMMA FullStep ==
  ASSUME Chosen, Laid, Plain, Terminated, MAX_READ \in Nat, MAX_READ > 5,
         NEW p \in Nat, p <= Len(symbols), NEW d, Shape(d, p, 0), Exact(d, p), Len(d) > Header,
         NEW before, NEW stale, NEW F, NEW i \in 0 .. Len(d) + 7,
         \A j \in i .. Len(d) + 7 : Cases(d, before, stale, F, j, F[j]),
         \A j \in i + 1 .. Len(d) + 7 : Full(F[j], p, p - Len(d) + j)
  PROVE  Full(F[i], p, p - Len(d) + i)
  <1>1. d \in Seq(Char) /\ Len(d) \in Nat /\ i \in Nat
    BY LenProperties DEF Shape
  <1>2. PICK b \in Int : b = p - Len(d) + i
    <2>1. p - Len(d) + i \in Int
      BY <1>1
    <2>2. QED
      BY <2>1
  <1>3. SUFFICES Full(F[i], p, b)
    BY <1>2
  <1>4. \A n \in 1 .. StreamLength : Start(n) \in Nat
    BY InOrder
  <1>5. Cases(d, before, stale, F, i, F[i])
    <2>1. i \in i .. Len(d) + 7
      OBVIOUS
    <2>2. QED
      BY <2>1
  <1>6. ASSUME NEW k \in 1 .. 7, i < Len(d) PROVE Full(F[i + k], p, b + k)
    <2>1. i + k \in i + 1 .. Len(d) + 7 /\ p - Len(d) + (i + k) = b + k
      BY <1>1, <1>2, <1>6
    <2>2. Full(F[i + k], p, p - Len(d) + (i + k))
      BY <2>1
    <2>3. QED
      BY <2>1, <2>2
  <1>7. CASE i >= Len(d)
    <2>1. F[i].kept = <<>> /\ F[i].asked = <<>>
      BY <1>5, <1>7 DEF Cases
    <2>2. \A n \in 1 .. StreamLength : ~(kinds[n] = "DEL" /\ Start(n) >= b /\ Start(n) + 3 <= p)
      BY <1>1, <1>2, <1>4, <1>7
    <2>3. QED
      BY <2>1, <2>2, FullNone
  <1>8. CASE i < Len(d) /\ ~AtStar(d, i)
    <2>1. F[i] = F[i + 1]
      BY <1>5, <1>8 DEF Cases
    <2>2. Full(F[i], p, b + 1)
      BY <1>6, <1>8, <2>1
    <2>3. ASSUME NEW n \in 1 .. StreamLength, kinds[n] = "DEL", Start(n) >= b PROVE Start(n) >= b + 1
      <3>1. CASE Start(n) = b
        <4>1. i + 1 \in 1 .. Len(d) /\ p - Len(d) + (i + 1) = Start(n) + 1
          BY <1>1, <1>2, <1>8, <3>1
        <4>2. d[i + 1] = symbols[Start(n) + 1]
          BY <4>1 DEF Exact
        <4>3. d[i + 1][1] = "*"
          BY <2>3, <4>2, DelCommand
        <4>4. QED
          BY <1>8, <4>3 DEF AtStar
      <3>2. CASE Start(n) # b
        BY <1>4, <2>3, <3>2
      <3>3. QED
        BY <3>1, <3>2
    <2>4. QED
      BY <2>2, <2>3, FullLater
  <1>9. CASE AtStar(d, i)
    <2>1. i < Len(d)
      BY <1>9 DEF AtStar
    <2>2. PICK m \in 1 .. StreamLength :
            /\ Start(m) = b
            /\ \A n \in 1 .. StreamLength : Start(n) >= b => n = m \/ Start(n) >= b + Size(m)
      BY <1>1, <1>2, <1>9, StarBegins
    <2>3. Size(m) \in 5 .. 10 /\ (kinds[m] = "DEL" => Size(m) = 7)
      BY DEF Size, Length
    <2>4. CASE ~IsDel(d, i, stale)
      <3>1. F[i] = F[i + 3]
        BY <1>5, <1>9, <2>4 DEF Cases
      <3>2. Full(F[i], p, b + 3)
        BY <1>6, <2>1, <3>1
      <3>3. ASSUME NEW n \in 1 .. StreamLength, kinds[n] = "DEL", Start(n) >= b, Start(n) + 3 <= p
            PROVE  Start(n) >= b + 3
        <4>1. n # m
          <5>1. SUFFICES ASSUME n = m PROVE FALSE
            OBVIOUS
          <5>2. Start(n) = p - Len(d) + i
            BY <1>2, <2>2, <5>1
          <5>3. IsDel(d, i, stale)
            BY <1>1, <3>3, <5>2, HeaderSeen
          <5>4. QED
            BY <2>4, <5>3
        <4>2. Start(n) >= b + Size(m)
          BY <2>2, <3>3, <4>1
        <4>3. QED
          BY <1>4, <2>3, <4>2
      <3>4. QED
        BY <3>2, <3>3, FullLater
    <2>5. CASE IsDel(d, i, stale)
      <3>1. AtDel(d, i, stale)
        BY <1>9, <2>5 DEF AtDel
      <3>2. ASSUME i + 5 >= Len(d), NEW n \in 1 .. StreamLength, kinds[n] = "DEL", Start(n) >= b,
                   Start(n) + 3 <= p
            PROVE  n = m
        <4>1. n = m \/ Start(n) >= b + Size(m)
          BY <2>2, <3>2
        <4>2. ~(Start(n) >= b + Size(m))
          <5>1. SUFFICES ASSUME Start(n) >= b + Size(m) PROVE FALSE
            OBVIOUS
          <5>2. PICK x, y : x = Start(n) /\ y = Size(m)
            OBVIOUS
          <5>3. x \in Nat /\ y \in 5 .. 10
            BY <1>4, <2>3, <5>2
          <5>4. x >= b + y /\ x + 3 <= p
            BY <3>2, <5>1, <5>2
          <5>5. p <= b + 5
            BY <1>1, <1>2, <3>2
          <5>6. QED
            BY <5>3, <5>4, <5>5
        <4>3. QED
          BY <4>1, <4>2
      <3>3. ASSUME i + 5 >= Len(d), F[i].kept = saveToBuf(d, i, Nul), F[i].asked = <<>>
            PROVE  Full(F[i], p, b)
        <4>1. i \in 0 .. Len(d) /\ Len(d) - i <= 5
          BY <1>1, <2>1, <3>3
        <4>2. \A n \in 1 .. StreamLength :
                kinds[n] = "DEL" /\ Start(n) >= p - Len(d) + i /\ Start(n) + 3 <= p => n = m
          BY <1>2, <3>2, <3>3
        <4>3. Start(m) = p - Len(d) + i
          BY <1>2, <2>2
        <4>4. \A j \in i + 1 .. Len(d) : ~Junk(d[j])
          BY <1>1, <2>1, <3>1, <3>3, <4>1, <4>3, KeptClean
        <4>5. Full(F[i], p, p - Len(d) + i)
          BY <3>3, <4>1, <4>2, <4>3, <4>4, FullKept
        <4>6. QED
          BY <1>2, <4>5
      <3>4. CASE i + 4 >= Len(d)
        <4>1. F[i].kept = saveToBuf(d, i, Nul) /\ F[i].asked = <<>>
          BY <1>5, <3>1, <3>4 DEF Cases
        <4>2. i + 5 >= Len(d)
          BY <1>1, <3>4
        <4>3. QED
          BY <3>3, <4>1, <4>2
      <3>5. CASE i + 5 = Len(d)
        <4>1. /\ F[i].kept = saveToBuf(d, i, Nul) \o F[i + 7].kept
              /\ F[i].asked = <<>> \o F[i + 7].asked
          BY <1>5, <3>1, <3>5 DEF Cases
        <4>2. F[i + 7].kept = <<>> /\ F[i + 7].asked = <<>>
          <5>1. i + 7 \in i .. Len(d) + 7 /\ i + 7 >= Len(d)
            BY <1>1, <3>5
          <5>2. Cases(d, before, stale, F, i + 7, F[i + 7])
            BY <5>1
          <5>3. QED
            BY <5>1, <5>2 DEF Cases
        <4>3. F[i].asked = <<>>
          <5>1. PICK e : e = <<>>
            OBVIOUS
          <5>2. e \in Seq(Char) /\ e \o <<>> = e
            BY <5>1, EmptyIn, ConcatEmptySeq
          <5>3. QED
            BY <4>1, <4>2, <5>1, <5>2
        <4>4. PICK e : e = saveToBuf(d, i, Nul)
          OBVIOUS
        <4>5. e \in Seq(Char)
          <5>1. PICK l : l = -Len(d) - 1
            OBVIOUS
          <5>2. l \in Int /\ Behind(l, 0, d, p, i + 1) /\ i \in -1 .. Len(d) /\ 0 \in Int
            BY <1>1, <2>1, <5>1 DEF Behind
          <5>3. Shape(e, p, l)
            BY <4>4, <5>2, NulIs, ShapeSave
          <5>4. QED
            BY <5>3 DEF Shape
        <4>6. F[i].kept = e
          <5>1. e \o <<>> = e
            BY <4>5, ConcatEmptySeq
          <5>2. QED
            BY <4>1, <4>2, <4>4, <5>1
        <4>7. i + 5 >= Len(d)
          BY <1>1, <3>5
        <4>8. QED
          BY <3>3, <4>3, <4>4, <4>6, <4>7
      <3>6. CASE i + 6 <= Len(d)
        <4>1. F[i].kept = <<>> \o F[i + 7].kept /\ F[i].asked = <<d[i + 5][2]>> \o F[i + 7].asked
          BY <1>5, <3>1, <3>6 DEF Cases
        <4>2. Full(F[i + 7], p, b + 7)
          BY <1>6, <2>1
        <4>3. PICK c : c \in 1 .. StreamLength /\ kinds[c] = "DEL" /\ Start(c) = b /\ d[i + 5][2] = c
          <5>1. i + 3 <= Len(d) /\ 0 \in Nat
            BY <1>1, <3>6
          <5>2. PICK c \in 1 .. StreamLength :
                  /\ kinds[c] \in HasDel /\ DelStart(c) = p - Len(d) + i /\ 0 <= DelStart(c)
                  /\ i + 6 <= Len(d) => d[i + 5][2] = c
            BY <1>1, <3>1, <5>1, DelFound, SMTT(60)
          <5>3. kinds[c] = "DEL"
            BY <5>2 DEF Plain, HasDel
          <5>4. DelStart(c) = Start(c) + 0 /\ Start(c) \in Nat
            BY <1>4, <5>3, PlainDel
          <5>5. QED
            BY <1>2, <3>6, <5>2, <5>3, <5>4
        <4>4. c = m
          BY <2>2, <4>3, InOrder
        <4>5. PICK q, w : q = <<m>> /\ w = F[i + 7].asked
          OBVIOUS
        <4>6. /\ q \in Seq(1 .. StreamLength) /\ Len(q) = 1 /\ q[1] = m
              /\ w \in Seq(1 .. StreamLength) /\ Len(w) \in Nat
          <5>1. q \in Seq(1 .. StreamLength) /\ Len(q) = 1 /\ q[1] = m
            BY <4>5
          <5>2. w \in Seq(1 .. StreamLength)
            BY <4>2, <4>5 DEF Full
          <5>3. Len(w) \in Nat
            BY <5>2, LenProperties
          <5>4. QED
            BY <5>1, <5>2, <5>3
        <4>7. F[i].asked = q \o w
          BY <4>1, <4>3, <4>4, <4>5
        <4>8. /\ F[i].asked \in Seq(1 .. StreamLength) /\ Len(F[i].asked) = 1 + Len(w)
              /\ F[i].asked[1] = m
              /\ \A j \in 1 .. Len(w) : F[i].asked[1 + j] = w[j]
          <5>1. PICK e : e = q \o w
            OBVIOUS
          <5>2. e \in Seq(1 .. StreamLength) /\ IsJoin(e, q, w)
            BY <4>6, <5>1, Lengthened
          <5>3. 1 \in 1 .. Len(q)
            BY <4>6
          <5>4. QED
            BY <4>6, <4>7, <5>1, <5>2, <5>3 DEF IsJoin
        <4>9. F[i].kept = F[i + 7].kept
          <5>1. F[i + 7].kept \in Seq(Char)
            BY <4>2 DEF Full
          <5>2. <<>> \o F[i + 7].kept = F[i + 7].kept
            BY <5>1, ConcatEmptySeq
          <5>3. QED
            BY <4>1, <5>2
        <4>10. ASSUME NEW n \in 1 .. StreamLength, kinds[n] = "DEL", Start(n) >= b, Start(n) + 3 <= p
               PROVE  Met(F[i], p, n)
          <5>1. CASE n = m
            <6>1. 1 \in 1 .. Len(F[i].asked)
              BY <4>6, <4>8
            <6>2. QED
              BY <4>8, <5>1, <6>1 DEF Met
          <5>2. CASE n # m
            <6>1. Size(m) = 7
              BY <2>3, <4>3, <4>4
            <6>2. Start(n) >= b + 7
              BY <2>2, <4>10, <5>2, <6>1
            <6>3. Met(F[i + 7], p, n)
              BY <4>2, <4>10, <6>2 DEF Full
            <6>4. CASE \E j \in 1 .. Len(w) : w[j] = n
              <7>1. PICK j \in 1 .. Len(w) : w[j] = n
                BY <6>4
              <7>2. F[i].asked[1 + j] = n
                BY <4>8, <7>1
              <7>3. 1 + j \in 1 .. Len(F[i].asked)
                <8>1. Len(F[i].asked) = 1 + Len(w) /\ Len(w) \in Nat
                  BY <4>6, <4>8
                <8>2. QED
                  BY <8>1
              <7>4. QED
                BY <7>2, <7>3 DEF Met
            <6>5. CASE Len(F[i + 7].kept) = p - Start(n)
              BY <4>9, <6>5 DEF Met
            <6>6. QED
              BY <4>5, <6>3, <6>4, <6>5 DEF Met
          <5>3. QED
            BY <5>1, <5>2
        <4>11. QED
          BY <4>2, <4>8, <4>9, <4>10 DEF Full
      <3>7. i + 4 >= Len(d) \/ i + 5 = Len(d) \/ i + 6 <= Len(d)
        BY <1>1
      <3>8. QED
        BY <3>4, <3>5, <3>6, <3>7
    <2>6. QED
      BY <2>4, <2>5
  <1>10. QED
    BY <1>1, <1>7, <1>8, <1>9

LEMMA LoopFull ==
  ASSUME Chosen, Laid, Plain, Terminated, MAX_READ \in Nat, MAX_READ > 5,
         NEW p \in Nat, p <= Len(symbols), NEW d, Shape(d, p, 0), Exact(d, p), Len(d) > Header,
         NEW before, NEW stale, NEW F,
         \A i \in 0 .. Len(d) + 7 : Cases(d, before, stale, F, i, F[i])
  PROVE  Full(F[0], p, p - Len(d))
  <1>1. d \in Seq(Char) /\ Len(d) \in Nat
    BY LenProperties DEF Shape
  <1>2. PICK n \in Nat : n = Len(d) + 7
    BY <1>1
  <1> DEFINE Ok(i) == Full(F[i], p, p - Len(d) + i)
             S == {k \in 0 .. n : \A i \in n - k .. n : Ok(i)}
  <1>3. ASSUME NEW i \in 0 .. n, \A j \in i + 1 .. n : Ok(j)
        PROVE  Ok(i)
    <2>1. \A j \in i .. Len(d) + 7 : Cases(d, before, stale, F, j, F[j])
      BY <1>1, <1>2
    <2>2. i \in 0 .. Len(d) + 7 /\ \A j \in i + 1 .. Len(d) + 7 : Full(F[j], p, p - Len(d) + j)
      BY <1>2, <1>3
    <2>3. QED
      BY <2>1, <2>2, FullStep
  <1> HIDE DEF Ok
  <1>4. 0 \in S
    <2>1. n \in 0 .. n /\ \A j \in n + 1 .. n : Ok(j)
      OBVIOUS
    <2>2. Ok(n)
      BY <1>3, <2>1
    <2>3. \A i \in n - 0 .. n : i = n
      OBVIOUS
    <2>4. QED
      BY <2>2, <2>3
  <1>5. ASSUME NEW k \in 0 .. n, k # n, k \in S PROVE k + 1 \in S
    <2>1. \A i \in n - k .. n : Ok(i)
      BY <1>5
    <2>2. n - (k + 1) \in 0 .. n /\ n - (k + 1) + 1 = n - k /\ k + 1 \in 0 .. n
      BY <1>5
    <2>3. Ok(n - (k + 1))
      BY <1>3, <2>1, <2>2
    <2>4. \A i \in n - (k + 1) .. n : i = n - (k + 1) \/ i \in n - k .. n
      OBVIOUS
    <2>5. QED
      BY <2>1, <2>2, <2>3, <2>4
  <1> HIDE DEF S
  <1>6. n \in S
    <2>1. 0 .. n \subseteq S
      BY <1>4, <1>5, StepByStep
    <2>2. QED
      BY <2>1
  <1>7. Ok(0)
    <2>1. 0 \in n - n .. n
      OBVIOUS
    <2>2. QED
      BY <1>6, <2>1 DEF S
  <1>8. p - Len(d) + 0 = p - Len(d)
    BY <1>1
  <1>9. QED
    BY <1>7, <1>8 DEF Ok

-----------------------------------------------------------------------------
(* The steps of the scanner.                                                *)

\* What was read and searched so far: the commands asked for come in order, the
\* buffer begins behind their keys; and as long as nothing went wrong, every DEL
\* whose header was read is asked for, or it is what the buffer holds.
Good == Terminated /\ ~short /\ ~zeroed /\ Plain
Done(n) == (\E j \in 1 .. Len(queried) : queried[j] = n) \/ Len(buf) = pos - Start(n)
ScanHolds ==
  /\ Chosen /\ Laid
  /\ pos \in 0 .. Len(symbols)
  /\ \E l \in 0 .. pos : Shape(buf, pos, l) /\ Asks(queried, 0, l)
  /\ \A n \in 1 .. StreamLength : n \notin cut => ~(Start(n) < pos /\ pos < Start(n) + 3)
  /\ Good => Clean(buf) /\ Len(buf) <= 5
  /\ Good => \A n \in 1 .. StreamLength :
               n \notin cut /\ kinds[n] = "DEL" /\ Start(n) + 3 <= pos => Done(n)

LEMMA ScanHoldsInit == ScannerAssumption /\ ScanInit => ScanHolds
  <1>1. SUFFICES ASSUME ScannerAssumption, ScanInit PROVE ScanHolds
    OBVIOUS
  <1>2. StreamLength \in Nat /\ Chosen
    BY <1>1 DEF ScannerAssumption, ScanInit, Chosen
  <1>3. symbols = Pre(StreamLength)
    BY <1>1, Zenon DEF ScanInit, Pre
  <1>4. Laid
    BY <1>2, <1>3, StreamLaid
  <1>5. pos = 0 /\ cut = {} /\ buf = <<>> /\ queried = <<>>
    BY <1>1 DEF ScanInit
  <1>6. pos \in 0 .. Len(symbols)
    <2>1. symbols \in Seq(Char)
      BY <1>4 DEF Laid, Placed
    <2>2. Len(symbols) \in Nat
      BY <2>1, LenProperties
    <2>3. QED
      BY <1>5, <2>2
  <1>7. \E l \in 0 .. pos : Shape(buf, pos, l) /\ Asks(queried, 0, l)
    <2>1. Shape(buf, pos, 0)
      BY <1>5, ShapeEmpty
    <2>2. Asks(queried, 0, 0)
      BY <1>5, AsksNone
    <2>3. 0 \in 0 .. pos
      BY <1>5
    <2>4. QED
      BY <2>1, <2>2, <2>3
  <1>8. \A n \in 1 .. StreamLength : Start(n) \in Nat
    BY <1>4, InOrder
  <1>9. Clean(buf) /\ Len(buf) <= 5
    <2>1. buf \in Seq(Char) /\ Len(buf) = 0
      BY <1>5, EmptyIn
    <2>2. \A i \in 1 .. Len(buf) : FALSE
      BY <2>1
    <2>3. Clean(buf)
      BY <2>2, Zenon DEF Clean
    <2>4. QED
      BY <2>1, <2>3
  <1>10. \A n \in 1 .. StreamLength : ~(Start(n) < pos) /\ ~(Start(n) + 3 <= pos)
    BY <1>5, <1>8
  <1>11. QED
    BY <1>2, <1>4, <1>6, <1>7, <1>9, <1>10 DEF ScanHolds

\* The stream stays what it is.
LEMMA StreamStays ==
  ASSUME UNCHANGED <<kinds, symbols>>
  PROVE  /\ Chosen' <=> Chosen
         /\ Laid' <=> Laid
         /\ Plain' <=> Plain
         /\ \A n : Start(n)' = Start(n) /\ DelStart(n)' = DelStart(n)
  <1>1. kinds' = kinds /\ symbols' = symbols
    OBVIOUS
  <1> DEFINE First(k, n) == Len(FlattenSeq([m \in 1..(n - 1) |-> Text(k[m], m)]))
             Long(k, n) == Length(k[n])
             AllIn(k, s) ==
               /\ s \in Seq(Char)
               /\ \A n \in 1 .. StreamLength :
                    /\ First(k, n) \in Nat /\ First(k, n) + Long(k, n) <= Len(s)
                    /\ \A i \in 1 .. Long(k, n) : s[First(k, n) + i] = Text(k[n], n)[i]
               /\ \A x \in 1 .. Len(s) : \E n \in 1 .. StreamLength :
                    First(k, n) < x /\ x <= First(k, n) + Long(k, n)
               /\ \A l, n \in 1 .. StreamLength : l < n => First(k, l) + Long(k, l) <= First(k, n)
  <1>2. ASSUME NEW n PROVE Start(n) = First(kinds, n) /\ Start(n)' = First(kinds', n)
    BY DEF Start
  <1>3. Laid <=> AllIn(kinds, symbols)
    BY Zenon DEF Laid, Placed, Spells, Within, Precedes, Size, Start
  <1>4. Laid' <=> AllIn(kinds', symbols')
    BY Zenon DEF Laid, Placed, Spells, Within, Precedes, Size, Start
  <1> HIDE DEF First, Long, AllIn
  <1>5. \A n : Start(n)' = Start(n)
    BY <1>1, <1>2
  <1>6. Laid' <=> Laid
    BY <1>1, <1>3, <1>4
  <1>7. (Chosen' <=> Chosen) /\ (Plain' <=> Plain)
    BY <1>1 DEF Chosen, Plain
  <1>8. \A n : DelStart(n)' = DelStart(n)
    BY <1>1, <1>5 DEF DelStart
  <1>9. QED
    BY <1>5, <1>6, <1>7, <1>8

LEMMA ShapeWeak ==
  ASSUME NEW d, NEW p \in Int, NEW l \in Nat, Shape(d, p, l)
  PROVE  Shape(d, p, 0)
  <1>1. d \in Seq(Char) /\ Len(d) \in Nat
    BY LenProperties DEF Shape
  <1>2. ASSUME NEW i \in 1 .. Len(d), Real(d, p, l, i) PROVE Real(d, p, 0, i)
    BY <1>1, <1>2 DEF Real
  <1>3. \A i \in 1 .. Len(d) : Real(d, p, l, i) \/ Junk(d[i])
    BY DEF Shape
  <1>4. \A i \in 1 .. Len(d) : Real(d, p, 0, i) \/ Junk(d[i])
    BY <1>2, <1>3
  <1>5. QED
    BY <1>1, <1>4 DEF Shape

\* What is searched after a read.
Merging(size) == buf # <<>> /\ Len(buf) + size < 2 * MAX_READ
Merged(d, size) ==
  d = IF Merging(size) THEN strncpy(buf) \o strncpy(SubSeq(symbols, pos + 1, pos + size))
      ELSE SubSeq(symbols, pos + 1, pos + size)

LEMMA MergedShape ==
  ASSUME Laid, pos \in Nat, NEW size \in Nat, pos + size <= Len(symbols),
         NEW d, Merged(d, size), NEW l \in 0 .. pos, Shape(buf, pos, l)
  PROVE  Shape(d, pos + size, l) /\ Len(d) \in Nat
  <1>1. PICK new : IsRead(new, pos, size)
    BY DEF IsRead
  <1>2. PICK b, u, w : b = strncpy(buf) /\ u = strncpy(new) /\ w = b \o u
    OBVIOUS
  <1>3. d = IF Merging(size) THEN w ELSE new
    BY <1>1, <1>2, Zenon DEF Merged, IsRead
  <1>4. Shape(b, pos, l)
    BY <1>2, ShapeCopy
  <1>5. Shape(new, pos + size, l) /\ Len(new) = size
    BY <1>1, ShapeRead
  <1>6. Shape(u, pos + size, l) /\ Len(u) = size
    BY <1>2, <1>5, ShapeCopy
  <1>7. ASSUME size > 0 PROVE u[1] = symbols[pos + 1]
    <2>1. /\ new \in Seq(Char) /\ Len(new) = size
          /\ \A i \in 1 .. size : new[i] = symbols[pos + i]
      BY <1>1, ReadIs
    <2>2. 1 \in 1 .. Len(new) /\ 1 \in 1 .. size /\ \A j \in 1 .. 1 : j = 1
      BY <1>7, <2>1
    <2>3. u[1] = IF \E j \in 1 .. 1 : new[j] = Nul THEN Nul ELSE new[1]
      BY <1>2, <2>1, <2>2, CopyIs
    <2>4. u[1] = new[1]
      BY <2>2, <2>3
    <2>5. QED
      BY <2>1, <2>2, <2>4
  <1>8. Shape(w, pos + size, l)
    BY <1>2, <1>4, <1>6, <1>7, ShapeJoin
  <1>9. Shape(d, pos + size, l)
    BY <1>3, <1>5, <1>8
  <1>10. Len(d) \in Nat
    BY <1>9, LenProperties DEF Shape
  <1>11. QED
    BY <1>9, <1>10

\* The end of the stream behind the symbols before it.
LEMMA ExactJoin ==
  ASSUME NEW p \in Nat, NEW size \in Nat, NEW b, Exact(b, p), Len(b) \in Nat,
         NEW u, Exact(u, p + size), Len(u) = size, NEW d, IsJoin(d, b, u)
  PROVE  Exact(d, p + size)
  <1>1. Len(d) = Len(b) + size
    BY DEF IsJoin
  <1>2. ASSUME NEW i \in 1 .. Len(d)
        PROVE  d[i] = symbols[(p + size) - Len(d) + i] /\ (p + size) - Len(d) + i > 0
    <2>1. CASE i <= Len(b)
      <3>1. i \in 1 .. Len(b) /\ (p + size) - Len(d) + i = p - Len(b) + i
        BY <1>1, <2>1
      <3>2. d[i] = b[i] /\ b[i] = symbols[p - Len(b) + i] /\ p - Len(b) + i > 0
        BY <3>1 DEF Exact, IsJoin
      <3>3. QED
        BY <3>1, <3>2
    <2>2. CASE ~(i <= Len(b))
      <3>1. /\ i - Len(b) \in 1 .. Len(u) /\ i = Len(b) + (i - Len(b))
            /\ (p + size) - Len(d) + i = (p + size) - Len(u) + (i - Len(b))
        BY <1>1, <2>2
      <3>2. /\ d[i] = u[i - Len(b)] /\ u[i - Len(b)] = symbols[(p + size) - Len(u) + (i - Len(b))]
            /\ (p + size) - Len(u) + (i - Len(b)) > 0
        BY <3>1 DEF Exact, IsJoin
      <3>3. QED
        BY <3>1, <3>2
    <2>3. QED
      BY <2>1, <2>2
  <1>3. QED
    BY <1>2 DEF Exact

\* Without a zero in what was read, nothing is lost behind what was kept.
LEMMA MergedExact ==
  ASSUME Laid, pos \in Nat, NEW size \in Nat, pos + size <= Len(symbols),
         NEW d, Merged(d, size), NEW l \in 0 .. pos, Shape(buf, pos, l), Clean(buf),
         Len(buf) + size < 2 * MAX_READ,
         NEW new, IsRead(new, pos, size),
         ~(Merging(size) /\ \E i \in 1 .. size : new[i] = Nul)
  PROVE  Exact(d, pos + size) /\ Len(d) = Len(buf) + size
  <1>1. PICK b, u, w : b = strncpy(buf) /\ u = strncpy(new) /\ w = b \o u
    OBVIOUS
  <1>2. d = IF buf # <<>> THEN w ELSE new
    BY <1>1, Zenon DEF Merged, Merging, IsRead
  <1>3. buf \in Seq(Char) /\ Len(buf) \in Nat
    BY LenProperties DEF Shape
  <1>4. Exact(new, pos + size) /\ Len(new) = size /\ new \in Seq(Char)
    BY ShapeRead, ReadIs
  <1>5. CASE buf = <<>>
    <2>1. d = new /\ Len(buf) = 0
      BY <1>2, <1>5
    <2>2. QED
      BY <1>4, <2>1
  <1>6. CASE buf # <<>>
    <2>1. \A i \in 1 .. Len(new) : new[i] # Nul
      BY <1>4, <1>6 DEF Merging
    <2>2. Len(u) = size /\ \A i \in 1 .. size : u[i] = new[i]
      BY <1>1, <1>4, <2>1, WholeCopy
    <2>3. Exact(u, pos + size)
      BY <1>4, <2>2 DEF Exact
    <2>4. Len(b) = Len(buf) /\ \A i \in 1 .. Len(buf) : b[i] = buf[i]
      <3>1. \A i \in 1 .. Len(buf) : buf[i] # Nul
        BY NulIs DEF Clean
      <3>2. QED
        BY <1>1, <1>3, <3>1, WholeCopy
    <2>5. ASSUME NEW i \in 1 .. Len(buf) PROVE buf[i] = symbols[pos - Len(buf) + i] /\ pos - Len(buf) + i > 0
      <3>1. ~Junk(buf[i])
        BY DEF Clean
      <3>2. buf[i] = symbols[pos - Len(buf) + i] /\ pos - Len(buf) + i > l
        BY <3>1, ShapeReal
      <3>3. QED
        BY <1>3, <3>2
    <2>6. Exact(b, pos)
      BY <2>4, <2>5 DEF Exact
    <2>7. b \in Seq(Char) /\ u \in Seq(Char)
      BY <1>1, <1>3, <1>4, CopyIs
    <2>8. IsJoin(w, b, u)
      BY <1>1, <2>7, Lengthened
    <2>9. Exact(w, pos + size)
      BY <1>3, <2>2, <2>3, <2>4, <2>6, <2>8, ExactJoin
    <2>10. Len(w) = Len(buf) + size
      BY <2>2, <2>4, <2>8 DEF IsJoin
    <2>11. QED
      BY <1>2, <1>6, <2>9, <2>10
  <1>7. QED
    BY <1>5, <1>6

\* What a read leaves, from what is in the buffer and what was read.
LEMMA ReadSound ==
  ASSUME ScanHolds, NEW size \in Nat, pos + size <= Len(symbols), NEW d, Merged(d, size),
         NEW before, Junk(before), NEW stale, NEW F,
         \A i \in 0 .. Len(d) + 7 : Cases(d, before, stale, F, i, F[i]),
         NEW found, found = F[0].asked, NEW all, all = queried \o found
  PROVE  /\ \E l \in 0 .. pos + size : Shape(F[0].kept, pos + size, l) /\ Asks(all, 0, l)
         /\ queried \in Seq(1 .. StreamLength) /\ found \in Seq(1 .. StreamLength)
  <1>1. Chosen /\ Laid /\ pos \in Nat /\ pos + size \in Nat
    BY DEF ScanHolds
  <1>2. PICK l \in 0 .. pos : Shape(buf, pos, l) /\ Asks(queried, 0, l)
    BY DEF ScanHolds
  <1>3. Shape(d, pos + size, l)
    BY <1>1, <1>2, MergedShape
  <1>4. l \in 0 .. pos + size
    BY <1>1
  <1>5. Sound(F[0], pos + size, l)
    BY <1>1, <1>3, <1>4, LoopSound
  <1>6. PICK h \in l .. pos + size : Shape(F[0].kept, pos + size, h) /\ Asks(found, l, h)
    BY <1>5 DEF Sound
  <1>7. Asks(all, 0, h)
    <2>1. 0 \in Int /\ l \in Int /\ h \in Int /\ 0 <= l /\ l <= h
      BY <1>1
    <2>2. QED
      BY <1>1, <1>2, <1>6, <2>1, AsksJoin
  <1>8. h \in 0 .. pos + size
    BY <1>1
  <1>9. queried \in Seq(1 .. StreamLength) /\ found \in Seq(1 .. StreamLength)
    BY <1>2, <1>6 DEF Asks
  <1>10. QED
    BY <1>6, <1>7, <1>8, <1>9

LEMMA ReadFull ==
  ASSUME ScanHolds, Good, MAX_READ \in Nat, MAX_READ > 5, NEW size \in 1 .. MAX_READ,
         size > Header, pos + size <= Len(symbols), NEW d, Merged(d, size),
         NEW before, NEW stale, NEW F,
         \A i \in 0 .. Len(d) + 7 : Cases(d, before, stale, F, i, F[i]),
         NEW new, IsRead(new, pos, size),
         ~(Merging(size) /\ \E i \in 1 .. size : new[i] = Nul)
  PROVE  Full(F[0], pos + size, pos - Len(buf))
  <1>1. Chosen /\ Laid /\ pos \in Nat /\ size \in Nat /\ pos + size \in Nat /\ 0 \in 0 .. pos
    BY DEF ScanHolds
  <1>2. PICK l \in 0 .. pos : Shape(buf, pos, l)
    BY DEF ScanHolds
  <1>3. Len(buf) \in Nat /\ Clean(buf) /\ Len(buf) <= 5
    <2>1. Len(buf) \in Nat
      BY <1>2, LenProperties DEF Shape
    <2>2. QED
      BY <2>1 DEF ScanHolds
  <1>4. Len(buf) + size < 2 * MAX_READ
    BY <1>3
  <1>5. Shape(d, pos + size, 0)
    <2>1. Shape(d, pos + size, l)
      BY <1>1, <1>2, MergedShape
    <2>2. l \in Nat /\ pos + size \in Int
      BY <1>1
    <2>3. QED
      BY <2>1, <2>2, ShapeWeak
  <1>6. Exact(d, pos + size) /\ Len(d) = Len(buf) + size
    BY <1>1, <1>2, <1>3, <1>4, MergedExact
  <1>7. Len(d) > Header /\ (pos + size) - Len(d) = pos - Len(buf)
    BY <1>1, <1>3, <1>6 DEF Header
  <1>8. Full(F[0], pos + size, (pos + size) - Len(d))
    BY <1>1, <1>5, <1>6, <1>7, LoopFull DEF Good
  <1>9. QED
    BY <1>7, <1>8

LEMMA ScanHoldsRead ==
  ASSUME ScannerAssumption, ScanHolds, NEW size \in 1 .. MAX_READ, ScanRead(size)
  PROVE  ScanHolds'
  <1>1. MAX_READ \in Nat /\ MAX_READ > 5
    BY DEF ScannerAssumption, Header, KeyLen
  <1>2. Chosen /\ Laid /\ pos \in Nat /\ size \in Nat
    BY <1>1 DEF ScanHolds
  <1>3. /\ pos' = pos + size /\ pos + size <= Len(symbols)
        /\ cut' = cut \union {n \in DOMAIN kinds : Start(n) < pos' /\ pos' < Start(n) + Header}
        /\ short' = (short \/ size <= Header)
        /\ UNCHANGED <<kinds, symbols>>
    BY DEF ScanRead
  <1>4. PICK d : Merged(d, size)
    BY DEF Merged
  <1>4a. PICK new : IsRead(new, pos, size)
    BY DEF IsRead
  <1>4b. zeroed' = (zeroed \/ (Merging(size) /\ \E i \in DOMAIN new : new[i] = Nul))
    BY <1>4a, Zenon DEF ScanRead, IsRead, Merging
  <1>4c. DOMAIN new = 1 .. size
    <2>1. new \in Seq(Char) /\ Len(new) = size
      BY <1>2, <1>3, <1>4a, ReadIs
    <2>2. QED
      BY <2>1
  <1>5. PICK before \in {Nul, Other} : \E stale \in BOOLEAN :
          /\ buf' = processInputBuffer(d, before, stale).kept
          /\ queried' = queried \o processInputBuffer(d, before, stale).asked
    BY <1>4, Zenon DEF ScanRead, Merged, Merging
  <1>6. PICK stale \in BOOLEAN :
          /\ buf' = processInputBuffer(d, before, stale).kept
          /\ queried' = queried \o processInputBuffer(d, before, stale).asked
    BY <1>5
  <1>7. Junk(before)
    BY DEF Junk
  <1>8. Len(d) \in Nat
    <2>1. PICK l \in 0 .. pos : Shape(buf, pos, l)
      BY DEF ScanHolds
    <2>2. QED
      BY <1>2, <1>3, <1>4, <2>1, MergedShape
  <1>9. PICK F : /\ processInputBuffer(d, before, stale) = F[0]
                 /\ \A i \in 0 .. Len(d) + 7 : Cases(d, before, stale, F, i, F[i])
    BY <1>8, BufferLoop
  <1>10. PICK found : found = F[0].asked
    OBVIOUS
  <1>11. buf' = F[0].kept /\ queried' = queried \o found
    BY <1>6, <1>9, <1>10
  <1>12. /\ Chosen' /\ Laid' /\ (Plain' <=> Plain)
         /\ \A n : Start(n)' = Start(n) /\ DelStart(n)' = DelStart(n)
    BY <1>2, <1>3, StreamStays
  <1>13. \A n \in 1 .. StreamLength : Start(n) \in Nat
    BY <1>2, InOrder
  <1>14. pos' \in 0 .. Len(symbols')
    BY <1>2, <1>3
  <1>15. /\ \E l \in 0 .. pos' : Shape(F[0].kept, pos', l) /\ Asks(queried', 0, l)
         /\ queried \in Seq(1 .. StreamLength) /\ found \in Seq(1 .. StreamLength)
    <2>1. PICK all : all = queried \o found
      OBVIOUS
    <2>2. /\ \E l \in 0 .. pos + size : Shape(F[0].kept, pos + size, l) /\ Asks(all, 0, l)
          /\ queried \in Seq(1 .. StreamLength) /\ found \in Seq(1 .. StreamLength)
      BY <1>2, <1>3, <1>4, <1>7, <1>9, <1>10, <2>1, ReadSound
    <2>3. QED
      BY <1>3, <1>11, <2>1, <2>2
  <1>16. \E l \in 0 .. pos' : Shape(buf', pos', l) /\ Asks(queried', 0, l)
    BY <1>11, <1>15
  <1>17. ASSUME NEW h, Shape(buf', pos', h) PROVE Shape(buf, pos, h)'
    BY <1>3, <1>17 DEF Shape, Real, Linked
  <1>18. ASSUME NEW h, Asks(queried', 0, h) PROVE Asks(queried, 0, h)'
    <2>1. \A n : kinds'[n] = kinds[n]
      BY <1>3
    <2>2. QED
      BY <1>12, <1>18, <2>1 DEF Asks
  <1>19. (\E l \in 0 .. pos : Shape(buf, pos, l) /\ Asks(queried, 0, l))'
    BY <1>16, <1>17, <1>18
  <1>20. ASSUME NEW n \in 1 .. StreamLength, n \notin cut'
         PROVE  n \notin cut /\ ~(Start(n) < pos' /\ pos' < Start(n) + 3)
    <2>1. DOMAIN kinds = 1 .. StreamLength
      BY <1>2 DEF Chosen
    <2>2. QED
      BY <1>3, <1>20, <2>1 DEF Header
  <1>21. ASSUME Good'
         PROVE  /\ Good /\ size > Header
                /\ Full(F[0], pos + size, pos - Len(buf))
    <2>1. Good /\ size > Header /\ ~(Merging(size) /\ \E i \in 1 .. size : new[i] = Nul)
      <3>1. Terminated /\ ~short' /\ ~zeroed' /\ Plain'
        BY <1>21 DEF Good
      <3>2. ~short /\ ~(size <= Header)
        BY <1>3, <3>1
      <3>3. size > Header
        BY <1>2, <3>2 DEF Header
      <3>4. ~(zeroed \/ (Merging(size) /\ \E i \in 1 .. size : new[i] = Nul))
        BY <1>4b, <1>4c, <3>1
      <3>5. QED
        BY <1>12, <3>1, <3>2, <3>3, <3>4 DEF Good
    <2>2. Full(F[0], pos + size, pos - Len(buf))
      BY <1>1, <1>3, <1>4, <1>4a, <1>9, <2>1, ReadFull
    <2>3. QED
      BY <2>1, <2>2
  <1>22. Good' => Clean(buf)' /\ Len(buf') <= 5
    <2>1. SUFFICES ASSUME Good' PROVE Clean(buf)' /\ Len(buf') <= 5
      OBVIOUS
    <2>2. Clean(F[0].kept) /\ Len(F[0].kept) <= 5
      BY <1>21, <2>1 DEF Full
    <2>3. QED
      BY <1>11, <2>2 DEF Clean
  <1>23. ASSUME Good', NEW n \in 1 .. StreamLength, n \notin cut', kinds[n] = "DEL",
                Start(n) + 3 <= pos'
         PROVE  \/ \E j \in 1 .. Len(queried') : queried'[j] = n
                \/ Len(buf') = pos' - Start(n)
    <2>1. /\ Good /\ Full(F[0], pos', pos - Len(buf))
          /\ n \notin cut /\ ~(Start(n) < pos /\ pos < Start(n) + 3)
      <3>1. Good /\ Full(F[0], pos + size, pos - Len(buf))
        BY <1>21, <1>23
      <3>2. n \notin cut /\ ~(Start(n) < pos /\ pos < Start(n) + 3)
        BY <1>20, <1>23 DEF ScanHolds
      <3>3. QED
        BY <1>3, <3>1, <3>2
    <2>2. Len(buf) \in Nat
      <3>1. PICK l \in 0 .. pos : Shape(buf, pos, l)
        BY DEF ScanHolds
      <3>2. QED
        BY <3>1, LenProperties DEF Shape
    <2>3. /\ Len(queried) \in Nat /\ Len(found) \in Nat /\ Len(queried') = Len(queried) + Len(found)
          /\ \A j \in 1 .. Len(queried) : queried'[j] = queried[j]
          /\ \A j \in 1 .. Len(found) : queried'[Len(queried) + j] = found[j]
      BY <1>11, <1>15, Lengthened DEF IsJoin
    <2>4. ASSUME Start(n) >= pos - Len(buf)
          PROVE  (\E j \in 1 .. Len(queried') : queried'[j] = n) \/ Len(buf') = pos' - Start(n)
      <3>1. Met(F[0], pos', n)
        BY <1>23, <2>1, <2>4 DEF Full
      <3>2. CASE \E j \in 1 .. Len(found) : found[j] = n
        <4>1. PICK j \in 1 .. Len(found) : found[j] = n
          BY <3>2
        <4>2. Len(queried) + j \in 1 .. Len(queried') /\ queried'[Len(queried) + j] = n
          BY <2>3, <4>1
        <4>3. QED
          BY <4>2
      <3>3. CASE Len(F[0].kept) = pos' - Start(n)
        BY <1>11, <3>3
      <3>4. QED
        BY <1>10, <3>1, <3>2, <3>3 DEF Met
    <2>5. CASE Start(n) + 3 <= pos
      <3>1. Done(n)
        BY <1>23, <2>1, <2>5 DEF ScanHolds
      <3>2. CASE \E j \in 1 .. Len(queried) : queried[j] = n
        <4>1. PICK j \in 1 .. Len(queried) : queried[j] = n
          BY <3>2
        <4>2. j \in 1 .. Len(queried') /\ queried'[j] = n
          BY <2>3, <4>1
        <4>3. QED
          BY <4>2
      <3>3. CASE Len(buf) = pos - Start(n)
        <4>1. Start(n) \in Nat
          BY <1>13
        <4>2. Start(n) >= pos - Len(buf)
          BY <1>2, <2>2, <3>3, <4>1
        <4>3. QED
          BY <2>4, <4>2
      <3>4. QED
        BY <3>1, <3>2, <3>3 DEF Done
    <2>6. CASE ~(Start(n) + 3 <= pos)
      <3>1. Start(n) \in Nat
        BY <1>13
      <3>2. Start(n) >= pos - Len(buf)
        BY <1>2, <2>1, <2>2, <2>6, <3>1
      <3>3. QED
        BY <2>4, <3>2
    <2>7. QED
      BY <2>5, <2>6
  <1>24. Good' => \A n \in 1 .. StreamLength :
           n \notin cut' /\ kinds'[n] = "DEL" /\ Start(n)' + 3 <= pos' => Done(n)'
    <2>1. SUFFICES ASSUME Good', NEW n \in 1 .. StreamLength, n \notin cut', kinds'[n] = "DEL",
                          Start(n)' + 3 <= pos'
                   PROVE  Done(n)'
      OBVIOUS
    <2>2. Start(n)' = Start(n)
      BY <1>12
    <2>3. kinds[n] = "DEL" /\ Start(n) + 3 <= pos'
      BY <1>3, <2>1, <2>2
    <2>4. (\E j \in 1 .. Len(queried') : queried'[j] = n) \/ Len(buf') = pos' - Start(n)
      BY <1>23, <2>1, <2>3
    <2>5. QED
      BY <2>2, <2>4 DEF Done
  <1>25. \A n \in 1 .. StreamLength :
           n \notin cut' => ~(Start(n)' < pos' /\ pos' < Start(n)' + 3)
    BY <1>12, <1>20
  <1>26. QED
    BY <1>12, <1>14, <1>19, <1>22, <1>24, <1>25 DEF ScanHolds

LEMMA ScanHoldsNext == ScannerAssumption /\ ScanHolds /\ [ScanNext]_scanVars => ScanHolds'
  <1>1. SUFFICES ASSUME ScannerAssumption, ScanHolds, [ScanNext]_scanVars PROVE ScanHolds'
    OBVIOUS
  <1>2. CASE ScanNext
    BY <1>1, <1>2, ScanHoldsRead DEF ScanNext
  <1>3. CASE UNCHANGED scanVars
    <2>1. UNCHANGED <<kinds, symbols>> /\ UNCHANGED <<pos, cut, short, zeroed, buf, queried>>
      BY <1>3 DEF scanVars
    <2>2. /\ Chosen' <=> Chosen
          /\ Laid' <=> Laid
          /\ Plain' <=> Plain
          /\ \A n : Start(n)' = Start(n) /\ DelStart(n)' = DelStart(n)
      BY <2>1, StreamStays
    <2>3. (Good' <=> Good) /\ \A n : Done(n)' <=> Done(n)
      BY <2>1, <2>2 DEF Good, Done
    <2>4. \A h : Shape(buf, pos, h)' <=> Shape(buf, pos, h)
      BY <2>1 DEF Shape, Real, Linked
    <2>5. \A h : Asks(queried, 0, h)' <=> Asks(queried, 0, h)
      BY <2>1, <2>2 DEF Asks
    <2>6. Clean(buf)' <=> Clean(buf)
      BY <2>1 DEF Clean
    <2>7. pos' \in 0 .. Len(symbols')
      BY <1>1, <2>1 DEF ScanHolds
    <2>8. (\E l \in 0 .. pos : Shape(buf, pos, l) /\ Asks(queried, 0, l))'
      <3>1. PICK l \in 0 .. pos : Shape(buf, pos, l) /\ Asks(queried, 0, l)
        BY <1>1 DEF ScanHolds
      <3>2. l \in 0 .. pos' /\ Shape(buf, pos, l)' /\ Asks(queried, 0, l)'
        BY <2>1, <2>4, <2>5, <3>1
      <3>3. QED
        BY <3>2
    <2>9. \A n \in 1 .. StreamLength : n \notin cut' => ~(Start(n)' < pos' /\ pos' < Start(n)' + 3)
      BY <1>1, <2>1, <2>2 DEF ScanHolds
    <2>10. Good' => Clean(buf)' /\ Len(buf') <= 5
      BY <1>1, <2>1, <2>3, <2>6 DEF ScanHolds
    <2>11. Good' => \A n \in 1 .. StreamLength :
             n \notin cut' /\ kinds'[n] = "DEL" /\ Start(n)' + 3 <= pos' => Done(n)'
      BY <1>1, <2>1, <2>2, <2>3 DEF ScanHolds
    <2>12. QED
      BY <1>1, <2>2, <2>7, <2>8, <2>9, <2>10, <2>11 DEF ScanHolds
  <1>4. QED
    BY <1>1, <1>2, <1>3

LEMMA ScanHoldsFinds == ScanHolds => FindsUncutDels
  <1>1. SUFFICES ASSUME ScanHolds PROVE FindsUncutDels
    OBVIOUS
  <1>2. Chosen /\ Laid /\ pos \in Nat
    BY <1>1 DEF ScanHolds
  <1>3. DOMAIN kinds = 1 .. StreamLength
    BY <1>2 DEF Chosen
  <1>4. PICK l \in 0 .. pos : Shape(buf, pos, l) /\ Asks(queried, 0, l)
    BY <1>1 DEF ScanHolds
  <1>5. queried \in Seq(1 .. StreamLength) /\ DOMAIN queried = 1 .. Len(queried)
    BY <1>4, LenProperties DEF Asks
  <1>6. \A n \in 1 .. StreamLength : Start(n) \in Nat
    BY <1>2, InOrder
  <1>7. ASSUME NEW i \in DOMAIN queried
        PROVE  /\ kinds[queried[i]] \in HasDel
               /\ DelStart(queried[i]) + Header + 1 + KeyLen <= pos
    <2>1. i \in 1 .. Len(queried)
      BY <1>5
    <2>2. queried[i] \in 1 .. StreamLength
      BY <1>5, <2>1, ElementOfSeq
    <2>3. kinds[queried[i]] \in HasDel /\ DelStart(queried[i]) + 6 <= l
      BY <1>4, <2>1 DEF Asks
    <2>4. DelStart(queried[i]) \in Nat
      BY <1>2, <2>2, DelInside
    <2>5. DelStart(queried[i]) + Header + 1 + KeyLen <= pos
      BY <1>2, <2>3, <2>4 DEF Header, KeyLen
    <2>6. QED
      BY <2>3, <2>5
  <1>8. \A i, j \in DOMAIN queried : i < j => queried[i] < queried[j]
    BY <1>4, <1>5 DEF Asks
  <1>9. ASSUME Terminated, ~short, ~zeroed, \A m \in DOMAIN kinds : kinds[m] \notin {"StarSET", "DelSET"},
               NEW n \in DOMAIN kinds \ cut, kinds[n] = "DEL", Start(n) + Len(DEL(n)) <= pos
        PROVE  \E i \in DOMAIN queried : queried[i] = n
    <2>1. Good
      BY <1>3, <1>9 DEF Good, Plain
    <2>2. n \in 1 .. StreamLength /\ n \notin cut /\ Start(n) \in Nat
      BY <1>3, <1>6
    <2>3. Len(DEL(n)) = 7
      BY DEF DEL
    <2>4. Done(n)
      <3>1. Start(n) + 3 <= pos
        BY <1>2, <1>9, <2>2, <2>3
      <3>2. QED
        BY <1>1, <1>9, <2>1, <2>2, <3>1 DEF ScanHolds
    <2>5. Len(buf) <= 5
      BY <1>1, <2>1 DEF ScanHolds
    <2>6. Len(buf) # pos - Start(n)
      BY <1>2, <1>9, <2>2, <2>3, <2>5
    <2>7. QED
      BY <1>5, <2>4, <2>6 DEF Done
  <1>10. QED
    BY <1>7, <1>8, <1>9, Zenon DEF FindsUncutDels, HasDel

\* processInputBuffer asks for the key of a DEL only, as a command or as the bytes
\* of a value, in the order of the stream and once each.  It misses a DEL that is a
\* command only for one of the reasons FindsUncutDels names: a short read, a read
\* that ends in the header, a value with a "*", or a zero byte in a read that was
\* put behind what was kept.  For every stream of the five kinds of commands and
\* wherever the reads end.
THEOREM UncutDelsAlwaysFound ==
  ASSUME ScannerAssumption
  PROVE  ScanSpec => []FindsUncutDels
  <1>1. ScanInit => ScanHolds
    BY ScanHoldsInit
  <1>2. ScanHolds /\ [ScanNext]_scanVars => ScanHolds'
    BY ScanHoldsNext
  <1>3. ScanHolds => FindsUncutDels
    BY ScanHoldsFinds
  <1>4. QED
    BY <1>1, <1>2, <1>3, PTL DEF ScanSpec
=============================================================================
