---------------------------- MODULE TimersProof ----------------------------
(***************************************************************************)
(* What Timers promises, proved for any timers, periods, delays of commands *)
(* and every width of the tick count: first what                           *)
(* prvInsertTimerInActiveList of timers.c decides by comparing tick counts *)
(* that may have wrapped, then the daemon's two lists, its clock and what  *)
(* it owes at each of its steps.                                           *)
(***************************************************************************)
EXTENDS Timers, ListsProof

\* The difference of two tick counts is the time from one to the other, and a
\* period added to a count comes to the count that is so much later.
LEMMA TickArithmetic ==
  ASSUME NEW a \in Ticks, NEW b \in Ticks
  PROVE  /\ Plus(a, b) \in Ticks /\ Minus(a, b) \in Ticks
         /\ Minus(Plus(a, b), a) = b
         /\ Plus(a, Minus(b, a)) = b
  BY TickRangeAssumption DEF Plus, Minus, Ticks, portMAX_DELAY

\* For a period below 2^32, whatever the tick count was when the command was
\* sent and is when it is processed: the timer is processed at once exactly if
\* its period has gone by; otherwise it is listed with what is left of the
\* period to go, on the current list exactly if it expires before the count
\* wraps.
THEOREM PlacementIsExact ==
  ASSUME NEW xCommandTime \in Ticks, NEW xTimeNow \in Ticks, NEW period \in 1 .. portMAX_DELAY
  PROVE  LET next    == Plus(xCommandTime, period)
             elapsed == Minus(xTimeNow, xCommandTime)
             where   == Placement(period, next, xTimeNow, xCommandTime)
         IN  /\ where = "now" <=> elapsed >= period
             /\ where # "now" => Minus(next, xTimeNow) = period - elapsed
             /\ where = "current" <=> elapsed < period /\ xTimeNow + (period - elapsed) <= portMAX_DELAY
<1> DEFINE next    == Plus(xCommandTime, period)
           elapsed == Minus(xTimeNow, xCommandTime)
           where   == Placement(period, next, xTimeNow, xCommandTime)
<1>1. CASE xTimeNow >= xCommandTime
  \* The count has not wrapped since the command: next is behind the count
  \* only if it wraps itself.
  <2>1. elapsed = xTimeNow - xCommandTime
    BY <1>1, TickRangeAssumption DEF Minus, Ticks, portMAX_DELAY
  <2>2. next > xTimeNow <=> xCommandTime + period > xTimeNow /\ xCommandTime + period <= portMAX_DELAY
    BY <1>1, TickRangeAssumption DEF Plus, Ticks, portMAX_DELAY
  <2>3. where = IF elapsed >= period THEN "now" ELSE IF next > xTimeNow THEN "current" ELSE "overflow"
    BY <1>1, <2>1, <2>2, TickRangeAssumption DEF Placement, Plus, Ticks, portMAX_DELAY
  <2>4. elapsed < period => Minus(next, xTimeNow) = period - elapsed
    BY <1>1, <2>1, TickRangeAssumption DEF Plus, Minus, Ticks, portMAX_DELAY
  <2> QED
    BY <2>1, <2>2, <2>3, <2>4, TickRangeAssumption DEF Ticks, portMAX_DELAY
<1>2. CASE xTimeNow < xCommandTime
  \* The count has wrapped since: a next that has not is behind it.
  <2>1. elapsed = (xTimeNow - xCommandTime) + TickRange
    BY <1>2, TickRangeAssumption DEF Minus, Ticks, portMAX_DELAY
  <2>2. elapsed < period => /\ xCommandTime + period > portMAX_DELAY
                            /\ next > xTimeNow /\ next < xCommandTime
                            /\ Minus(next, xTimeNow) = period - elapsed
    BY <1>2, <2>1, TickRangeAssumption DEF Plus, Minus, Ticks, portMAX_DELAY
  <2>3. elapsed >= period => next <= xTimeNow \/ next >= xCommandTime
    BY <1>2, <2>1, TickRangeAssumption DEF Plus, Ticks, portMAX_DELAY
  <2>4. where = IF elapsed >= period THEN "now" ELSE "current"
    <3>1. CASE elapsed < period
      BY <1>2, <3>1, <2>1, <2>2, TickRangeAssumption DEF Placement, Plus, Ticks, portMAX_DELAY
    <3>2. CASE elapsed >= period
      BY <1>2, <3>2, <2>1, <2>3, TickRangeAssumption DEF Placement, Plus, Ticks, portMAX_DELAY
    <3> QED BY <3>1, <3>2, <2>1, TickRangeAssumption DEF Ticks, portMAX_DELAY
  <2>5. elapsed < period => xTimeNow + (period - elapsed) <= portMAX_DELAY
    BY <1>2, <2>1, <2>2, TickRangeAssumption DEF Ticks, portMAX_DELAY
  <2> QED BY <2>1, <2>2, <2>4, <2>5, TickRangeAssumption DEF Ticks, portMAX_DELAY
<1> QED BY <1>1, <1>2, TickRangeAssumption DEF Ticks, portMAX_DELAY

\* A tick count moves away from an earlier one until it has gone all the way
\* round.
LEMMA TickMovesOn ==
  ASSUME NEW a \in Ticks, NEW b \in Ticks, Minus(a, b) < portMAX_DELAY
  PROVE  Plus(a, 1) \in Ticks /\ Minus(Plus(a, 1), b) = Minus(a, b) + 1
BY TickRangeAssumption DEF Plus, Minus, Ticks, portMAX_DELAY

LEMMA MinusSelf == \A a \in Ticks : Minus(a, a) = 0
BY DEF Minus, Ticks

\* The differences of three counts of one turn, the middle one between the
\* others, add up.
LEMMA MinusAdds ==
  ASSUME NEW a \in Ticks, NEW b \in Ticks, NEW c \in Ticks, Minus(a, b) <= Minus(a, c)
  PROVE  Minus(b, c) = Minus(a, c) - Minus(a, b)
BY TickRangeAssumption DEF Minus, Ticks, portMAX_DELAY

\* What PlacementIsExact says, for the item: it holds the tick of the expiry,
\* counted from the one on which the time was sampled; an expiry that is past
\* is the beginning of the next period.
LEMMA PlacedExactly ==
  ASSUME NEW xCommandTime \in Ticks, NEW xTimeNow \in Ticks, NEW period \in 1 .. portMAX_DELAY
  PROVE  LET next    == Plus(xCommandTime, period)
             elapsed == Minus(xTimeNow, xCommandTime)
             where   == Placement(period, next, xTimeNow, xCommandTime)
         IN  /\ next \in Ticks
             /\ where \in {"now", "current", "overflow"}
             /\ where = "now" => elapsed >= period /\ Minus(xTimeNow, next) = elapsed - period
             /\ where # "now" => elapsed < period
             /\ where = "current" => next = xTimeNow + (period - elapsed)
             /\ where = "overflow" => next + TickRange = xTimeNow + (period - elapsed)
<1>. DEFINE next    == Plus(xCommandTime, period)
            elapsed == Minus(xTimeNow, xCommandTime)
            where   == Placement(period, next, xTimeNow, xCommandTime)
<1>1. /\ where = "now" <=> elapsed >= period
      /\ where # "now" => Minus(next, xTimeNow) = period - elapsed
      /\ where = "current" <=> elapsed < period /\ xTimeNow + (period - elapsed) <= portMAX_DELAY
  BY PlacementIsExact
<1>2. next \in Ticks /\ elapsed \in Ticks
  <2>1. period \in Ticks
    BY TickRangeAssumption DEF Ticks, portMAX_DELAY
  <2>. QED  BY <2>1, TickArithmetic
<1>3. where \in {"now", "current", "overflow"}
  BY DEF Placement
<1>4. where = "now" => Minus(xTimeNow, next) = elapsed - period
  BY <1>1, TickRangeAssumption DEF Plus, Minus, Ticks, portMAX_DELAY
<1>5. /\ elapsed < period /\ xTimeNow + (period - elapsed) <= portMAX_DELAY
           => next = xTimeNow + (period - elapsed)
      /\ elapsed < period /\ xTimeNow + (period - elapsed) > portMAX_DELAY
           => next + TickRange = xTimeNow + (period - elapsed)
  BY TickRangeAssumption DEF Plus, Minus, Ticks, portMAX_DELAY
<1>6. elapsed \in Int /\ period \in Int /\ xTimeNow \in Int /\ portMAX_DELAY \in Int
  BY <1>2, TickRangeAssumption DEF Ticks, portMAX_DELAY
<1>. HIDE DEF next, elapsed, where
<1>7. where = "current" => next = xTimeNow + (period - elapsed)
  BY <1>1, <1>5
<1>8. where = "overflow" => next + TickRange = xTimeNow + (period - elapsed)
  BY <1>1, <1>5, <1>6
<1>9. /\ where = "now" => elapsed >= period
      /\ where # "now" => elapsed < period
  BY <1>1, <1>6
<1>. QED  BY <1>2, <1>3, <1>4, <1>7, <1>8, <1>9 DEF next, elapsed, where

LEMMA DivisionAndRest ==
  ASSUME NEW p \in Nat, p > 0, NEW a \in Int
  PROVE  /\ a \div p \in Int /\ a % p \in 0 .. p - 1
         /\ a = p * (a \div p) + (a % p)
<1>1. a = (a \div p) * p + (a % p)
  OBVIOUS
<1>2. a \div p \in Int
  OBVIOUS
<1>3. a % p \in 0 .. p - 1
  OBVIOUS
<1>. QED  BY <1>1, <1>2, <1>3

\* The periods that have ended and what is left of the next make up the time.
LEMMA PeriodsMissed ==
  ASSUME NEW period \in Nat \ {0}, NEW age \in Nat
  PROVE  /\ Missed(period, age) \in Nat /\ Left(period, age) \in 1 .. period
         /\ Left(period, age) - Missed(period, age) * period = period - age
         /\ Missed(period, age) > 0 <=> age >= period
<1>1. /\ age \div period \in Int /\ age % period \in 0 .. period - 1
      /\ age = period * (age \div period) + (age % period)
  <2>1. period \in Nat /\ period > 0 /\ age \in Int
    OBVIOUS
  <2>. QED  BY <2>1, DivisionAndRest
<1>. DEFINE q == age \div period
            r == age % period
<1>2. q >= 0
  <2>. SUFFICES ASSUME q <= -1 PROVE FALSE
    BY <1>1
  <2>. HIDE DEF q, r
  <2>1. q \in Int /\ r \in 0 .. period - 1 /\ age = period * q + r
    BY <1>1 DEF q, r
  <2>2. period * q <= period * (-1)
    BY <2>1
  <2>. QED  BY <2>1, <2>2
<1>. HIDE DEF q, r
<1>3. q \in Nat /\ r \in 0 .. period - 1 /\ age = period * q + r
  BY <1>1, <1>2 DEF q, r
<1>4. q > 0 <=> age >= period
  <2>1. q = 0 => age < period
    BY <1>3
  <2>2. q >= 1 => period * q >= period
    BY <1>3
  <2>. QED  BY <1>3, <2>1, <2>2
<1>5. period - r \in 1 .. period /\ (period - r) - q * period = period - age
  BY <1>3
<1>. QED  BY <1>3, <1>4, <1>5 DEF Missed, Left, q, r

-----------------------------------------------------------------------------
(***************************************************************************)
(* The invariant.  A clock that does not wrap is laid over the tick count: *)
(* it agrees with it while the count has not wrapped since xLastTime.  On  *)
(* it the items of the current list stand for the ticks they say, those of *)
(* the overflow list for ticks a turn later, and the ghosts "remaining"    *)
(* and "owed" say how far away that tick is.                               *)
(***************************************************************************)
\* The daemon has seen that the count has wrapped and has not exchanged the
\* lists yet.
Switching == At("switch") \/ daemon.after = "switch"

\* The clock.
xNow == IF Switching THEN TickRange + daemon.xTimeNow + stall
                     ELSE xLastTime + Minus(xTickCount, xLastTime)

\* A timer that is on neither list for the time of a turn of prvReloadTimer,
\* and one whose callback is about to be called.
Reloading(t) == At("reload") /\ daemon.timer = t
Calling(t)   == At("callback") /\ daemon.timer = t

\* The expiries nothing was done about yet; how long until the first of them,
\* or since it.
Unhandled(t) == IF Calling(t) THEN owed[t] - 1 ELSE owed[t]
DueIn(t)     == remaining[t] - Unhandled(t) * xTimerPeriodInTicks[t]

InCurrent(t)  == t \in ToSet(pxCurrentTimerList)
InOverflow(t) == t \in ToSet(pxOverflowTimerList)
OnList(t)     == InCurrent(t) \/ InOverflow(t)
NoneListed    == pxCurrentTimerList = <<>> /\ pxOverflowTimerList = <<>>

\* When a listed timer expires.
ExpiresAt(t) == IF InCurrent(t) THEN xItemValue[t] ELSE xItemValue[t] + TickRange

TypeInv ==
  /\ xTickCount \in Ticks /\ xLastTime \in Ticks /\ stall \in 0 .. MaxStall
  /\ xItemValue \in [Timer -> Ticks] /\ xTimerPeriodInTicks \in [Timer -> Periods]
  /\ isActive \in [Timer -> BOOLEAN] /\ isAutoReload \in [Timer -> BOOLEAN]
  /\ exists \in [Timer -> BOOLEAN] /\ daemon \in Daemon
  /\ remaining \in [Timer -> Nat] /\ owed \in [Timer -> Nat]
  /\ \A t \in Timer : remaining[t] <= xTimerPeriodInTicks[t]

\* A command knows how long it has been under way, and nothing follows the
\* deletion of a timer.
Pending(m, now, there) ==
  /\ m \in Message
  /\ m.command = "start" => Minus(now, m.value) = m.age
  /\ m.command = "changePeriod" => m.value \in Periods
  /\ m.command = "delete" => ~there[m.timer]

Silent(t) == received.timer # t /\ \A i \in DOMAIN xTimerQueue : xTimerQueue[i].timer # t

QueueInv ==
  /\ xTimerQueue \in Seq(Message) /\ Len(xTimerQueue) <= QueueLength
  /\ \A i \in DOMAIN xTimerQueue : Pending(xTimerQueue[i], xTickCount, exists)
  /\ received # NoMessage => Pending(received, xTickCount, exists)
  /\ \A i, j \in DOMAIN xTimerQueue :
       i < j /\ xTimerQueue[i].command = "delete" => xTimerQueue[j].timer # xTimerQueue[i].timer
  /\ received.command = "delete" =>
       \A j \in DOMAIN xTimerQueue : xTimerQueue[j].timer # received.timer
  /\ \A t \in Timer : ~exists[t] =>
       \/ \E i \in DOMAIN xTimerQueue : xTimerQueue[i].timer = t /\ xTimerQueue[i].command = "delete"
       \/ received.timer = t /\ received.command = "delete"
       \/ Silent(t) /\ ~isActive[t]

\* What the locals of the daemon are at each of its steps.
DaemonInv ==
  /\ daemon.timer \in Timer <=> daemon.step \in {"reload", "callback"}
  /\ daemon.after = "switch" => daemon.step \in {"reload", "callback"}
  /\ received # NoMessage <=> daemon.caller = "command"
  /\ daemon.caller = "command" => Switching \/ At("sample") \/ At("apply")
  /\ At("apply") => daemon.caller = "command"
  /\ daemon.timer = received.timer => daemon.timer = NoTimer
  /\ At("decide") => daemon.suspended
  /\ (At("sample") /\ daemon.caller = "block") \/ At("decide") =>
       /\ daemon.xListWasEmpty = (pxCurrentTimerList = <<>>)
       /\ daemon.xNextExpireTime = IF pxCurrentTimerList = <<>> THEN 0
                                   ELSE xItemValue[Head(pxCurrentTimerList)]

\* Since the daemon sampled the time, at most MaxStall ticks have passed while
\* it could run, and no whole turn of the count if a timer is on a list.
ClockInv ==
  /\ Switching => Minus(xTickCount, daemon.xTimeNow) = stall
  /\ At("decide") => stall = 0
  /\ At("decide") \/ At("apply") => daemon.xTimeNow = xLastTime
  /\ received # NoMessage /\ ~At("sample") => received.age >= stall
  /\ (At("decide") \/ At("apply") \/ daemon.timer # NoTimer) /\ ~Switching =>
       Minus(xTickCount, xLastTime) = stall
  /\ ~NoneListed /\ ~Switching =>
       IF At("asleep") /\ daemon.wake > 0
         THEN Minus(xTickCount, xLastTime) + daemon.wake <= portMAX_DELAY - MaxStall
         ELSE Minus(xTickCount, xLastTime) <= portMAX_DELAY - MaxStall + stall

\* The lists are apart and sorted, and hold the timers that run.
Sorted(list, value) ==
  \A i, j \in DOMAIN list : i < j => value[list[i]] <= value[list[j]]

ListInv ==
  /\ pxCurrentTimerList \in Seq(Timer) /\ pxOverflowTimerList \in Seq(Timer)
  /\ IsInjective(pxCurrentTimerList) /\ IsInjective(pxOverflowTimerList)
  /\ ToSet(pxCurrentTimerList) \cap ToSet(pxOverflowTimerList) = {}
  /\ Sorted(pxCurrentTimerList, xItemValue) /\ Sorted(pxOverflowTimerList, xItemValue)
  /\ \A t \in Timer : OnList(t) => t # received.timer /\ ~Reloading(t)
  /\ \A t \in Timer : t # received.timer => (isActive[t] <=> OnList(t) \/ Reloading(t))

\* A listed timer expires when its item says; one that is reloaded expired
\* as long before the time up to which it is reloaded as xExpiredTime says; the
\* others owe nothing but a callback that is being called.
TimerDue(t) ==
  /\ OnList(t) => remaining[t] > 0 /\ ExpiresAt(t) = xNow + DueIn(t)
  /\ Reloading(t) =>
       /\ remaining[t] > 0
       /\ daemon.until = IF Switching THEN portMAX_DELAY ELSE xLastTime
       /\ xNow + DueIn(t) = daemon.until - Minus(daemon.until, daemon.xExpiredTime)
  /\ Calling(t) => owed[t] > 0
  /\ ~OnList(t) /\ ~Reloading(t) /\ t # received.timer =>
       remaining[t] = Dormant /\ Unhandled(t) = 0

DueInv == \A t \in Timer : TimerDue(t)

\* When the daemon sleeps it wakes no later than the first expiry.
SleepInv ==
  At("asleep") =>
    /\ NoneListed <=> daemon.wake = Forever
    /\ daemon.wake > 0 => \A t \in Timer : OnList(t) => xNow + daemon.wake <= ExpiresAt(t)

TimersInv == TypeInv /\ QueueInv /\ DaemonInv /\ ClockInv /\ ListInv /\ DueInv /\ SleepInv

-----------------------------------------------------------------------------
(* The lists stay sorted. *)

\* Only the values of its own timers order a list.
LEMMA SortedByOwn ==
  ASSUME NEW s \in Seq(Timer), NEW value, NEW other, Sorted(s, value),
         \A t \in ToSet(s) : other[t] = value[t]
  PROVE  Sorted(s, other)
BY DEF Sorted, ToSet

\* The first timer of a list is the first to expire.
LEMMA HeadExpiresFirst ==
  ASSUME NEW s \in Seq(Timer), NEW value \in [Timer -> Int], Sorted(s, value), s # <<>>
  PROVE  \A t \in ToSet(s) : value[Head(s)] <= value[t]
BY DEF Sorted, ToSet

LEMMA TailSorted ==
  ASSUME NEW s \in Seq(Timer), NEW value, Sorted(s, value), s # <<>>
  PROVE  Sorted(Tail(s), value)
BY DEF Sorted

LEMMA WithoutSorted ==
  ASSUME NEW s \in Seq(Timer), NEW value, NEW x, Sorted(s, value)
  PROVE  Sorted(Without(s, x), value)
<1>1. CASE ~Contains(s, x)
  BY <1>1 DEF Without
<1>2. CASE Contains(s, x)
  <2>. DEFINE r == Without(s, x)
              i == PositionIn(s, x)
  <2>1. i \in 1 .. Len(s) /\ r \in Seq(Timer) /\ Len(r) = Len(s) - 1
    BY <1>2, PositionHolds, WithoutType
  <2>2. \A j \in 1 .. Len(s) - 1 : r[j] = IF j < i THEN s[j] ELSE s[j + 1]
    BY <1>2, WithoutElements
  <2>. HIDE DEF r, i
  <2>3. ASSUME NEW j \in 1 .. Len(s) - 1, NEW k \in 1 .. Len(s) - 1, j < k
        PROVE  value[r[j]] <= value[r[k]]
    <3>1. PICK a \in 1 .. Len(s), b \in 1 .. Len(s) : a < b /\ r[j] = s[a] /\ r[k] = s[b]
      BY <2>1, <2>2, <2>3
    <3>. QED  BY <3>1 DEF Sorted
  <2>4. DOMAIN r = 1 .. Len(s) - 1
    BY <2>1
  <2>5. Sorted(r, value)
    BY <2>3, <2>4 DEF Sorted
  <2>. QED  BY <2>5 DEF r
<1>. QED  BY <1>1, <1>2

\* vListInsert keeps the order.
LEMMA InsertSorted ==
  ASSUME NEW s \in Seq(Timer), NEW x \in Timer, NEW value \in [Timer -> Int], Sorted(s, value)
  PROVE  Sorted(vListInsert(s, x, value), value)
<1>. DEFINE greater == {i \in DOMAIN s : value[s[i]] > value[x]}
            at == IF greater = {} THEN Len(s) + 1 ELSE Min(greater)
            r == InsertAt(s, at, x)
<1>1. greater \in SUBSET (1 .. Len(s)) /\ greater \in SUBSET Nat
  OBVIOUS
<1>2. greater # {} => Min(greater) \in greater /\ \A i \in greater : Min(greater) <= i
  BY <1>1, LeastNatural DEF Min
<1>3. at \in 1 .. Len(s) + 1
  BY <1>1, <1>2
<1>4. /\ \A i \in 1 .. Len(s) : i \in greater <=> value[s[i]] > value[x]
      /\ greater = {} => at = Len(s) + 1
      /\ greater # {} => at \in greater /\ \A i \in greater : at <= i
  BY <1>2
<1>. HIDE DEF greater, at
<1>e. value[x] \in Int /\ \A i \in 1 .. Len(s) : value[s[i]] \in Int
  BY ElementOfSeq
<1>s. \A i, m \in 1 .. Len(s) : i < m => value[s[i]] <= value[s[m]]
  BY DEF Sorted
<1>b. ASSUME NEW i \in 1 .. Len(s), i < at PROVE value[s[i]] <= value[x]
  <2>1. i \notin greater
    BY <1>1, <1>3, <1>4, <1>b
  <2>. QED  BY <1>4, <1>e, <2>1
<1>a. ASSUME NEW i \in 1 .. Len(s), i >= at PROVE value[x] <= value[s[i]]
  <2>1. at \in greater /\ at \in 1 .. Len(s)
    BY <1>1, <1>3, <1>4, <1>a
  <2>2. value[x] < value[s[at]]
    BY <1>4, <1>e, <2>1
  <2>3. i = at \/ value[s[at]] <= value[s[i]]
    BY <1>s, <1>a, <2>1
  <2>. QED  BY <1>e, <2>1, <2>2, <2>3
<1>5. r \in Seq(Timer) /\ Len(r) = Len(s) + 1
  BY <1>3, InsertAtType
<1>6. \A j \in 1 .. Len(s) + 1 : r[j] = IF j < at THEN s[j] ELSE IF j = at THEN x ELSE s[j - 1]
  BY <1>3, InsertAtElements
<1>7. Sorted(r, value)
  <2>. HIDE DEF r
  <2>. SUFFICES ASSUME NEW j \in 1 .. Len(s) + 1, NEW k \in 1 .. Len(s) + 1, j < k
                PROVE  value[r[j]] <= value[r[k]]
    BY <1>5 DEF Sorted
  <2>1. CASE k < at
    <3>1. j \in 1 .. Len(s) /\ k \in 1 .. Len(s) /\ r[j] = s[j] /\ r[k] = s[k]
      BY <1>3, <1>6, <2>1
    <3>. QED  BY <1>s, <3>1
  <2>2. CASE k = at
    <3>1. j \in 1 .. Len(s) /\ j < at /\ r[j] = s[j] /\ r[k] = x
      BY <1>3, <1>6, <2>2
    <3>. QED  BY <1>b, <3>1
  <2>3. CASE k > at
    <3>1. k - 1 \in 1 .. Len(s) /\ r[k] = s[k - 1] /\ k - 1 >= at
      BY <1>3, <1>6, <2>3
    <3>2. CASE j < at
      <4>1. j \in 1 .. Len(s) /\ r[j] = s[j] /\ j < k - 1
        BY <1>3, <1>6, <3>1, <3>2
      <4>. QED  BY <1>s, <3>1, <4>1
    <3>3. CASE j = at
      BY <1>a, <1>6, <3>1, <3>3
    <3>4. CASE j > at
      <4>1. j - 1 \in 1 .. Len(s) /\ r[j] = s[j - 1] /\ j - 1 < k - 1
        BY <1>3, <1>6, <3>1, <3>4
      <4>. QED  BY <1>s, <3>1, <4>1
    <3>. QED  BY <1>3, <3>2, <3>3, <3>4
  <2>. QED  BY <1>3, <2>1, <2>2, <2>3
<1>. QED  BY <1>7 DEF vListInsert, r, at, greater


-----------------------------------------------------------------------------
(* What the invariant says of a timer, of a message and of the clock. *)

LEMMA Widths ==
  /\ TickRange \in Nat \ {0} /\ portMAX_DELAY \in Nat /\ TickRange = portMAX_DELAY + 1
  /\ MaxStall \in Nat /\ MaxStall < portMAX_DELAY /\ Ticks = 0 .. portMAX_DELAY /\ Ticks \subseteq Int
  /\ \A p \in Periods : p \in 1 .. portMAX_DELAY - MaxStall
BY TickRangeAssumption, TimersAssumption DEF portMAX_DELAY, Ticks

LEMMA PeriodBounds ==
  ASSUME TypeInv, NEW t \in Timer
  PROVE  /\ xTimerPeriodInTicks[t] \in Periods
         /\ xTimerPeriodInTicks[t] \in 1 .. portMAX_DELAY - MaxStall
         /\ xTimerPeriodInTicks[t] \in 1 .. portMAX_DELAY
         /\ MaxStall < portMAX_DELAY
<1>1. xTimerPeriodInTicks[t] \in Periods
  BY DEF TypeInv
<1>. QED  BY <1>1, Widths

LEMMA Messages ==
  ASSUME TypeInv
  PROVE  /\ received \in Message \cup {NoMessage} /\ NoMessage \notin Message
         /\ received # NoMessage => received \in Message /\ received.timer \in Timer
         /\ received = NoMessage => received.timer = NoTimer /\ received.command = "stop"
                                    /\ received.age = 0
         /\ received.timer \in Timer <=> received # NoMessage
         /\ NoTimer \notin Timer
<1>1. received \in Message \cup {NoMessage}
  BY DEF TypeInv, Daemon, received
<1>2. NoTimer \notin Timer /\ NoMessage \notin Message
  BY TimersAssumption DEF NoMessage, Message
<1>. QED  BY <1>1, <1>2 DEF NoMessage, Message

\* The time from the last sample, and the clock, in their ranges.
LEMMA ClockTypes ==
  ASSUME TypeInv
  PROVE  /\ Minus(xTickCount, xLastTime) \in 0 .. portMAX_DELAY
         /\ Minus(xTickCount, daemon.xTimeNow) \in 0 .. portMAX_DELAY
         /\ xNow \in Nat /\ stall \in 0 .. MaxStall /\ daemon.xTimeNow \in Ticks
<1>1. daemon.xTimeNow \in Ticks
  BY DEF TypeInv, Daemon
<1>2. xTickCount \in Ticks /\ xLastTime \in Ticks /\ stall \in 0 .. MaxStall
  BY DEF TypeInv
<1>3. Minus(xTickCount, xLastTime) \in Ticks /\ Minus(xTickCount, daemon.xTimeNow) \in Ticks
  BY <1>1, <1>2, TickArithmetic
<1>4. \A a \in Ticks : a \in Nat
  BY Widths
<1>5. xNow \in Nat
  <2>1. \A a, b \in Nat : a + b \in Nat
    OBVIOUS
  <2>2. daemon.xTimeNow \in Nat /\ xLastTime \in Nat /\ Minus(xTickCount, xLastTime) \in Nat
        /\ stall \in Nat /\ TickRange \in Nat
    BY <1>1, <1>2, <1>3, <1>4, Widths
  <2>. QED  BY <2>1, <2>2 DEF xNow
<1>. QED  BY <1>1, <1>2, <1>3, <1>5, Widths

\* A timer whose next expiry is past owes a callback; one whose next expiry is
\* to come owes none, and has as long to go.
LEMMA DueTells ==
  ASSUME TypeInv, NEW t \in Timer, remaining[t] > 0, Unhandled(t) \in Int
  PROVE  /\ DueIn(t) \in Int
         /\ DueIn(t) <= 0 => Unhandled(t) > 0
         /\ DueIn(t) > 0 => Unhandled(t) <= 0
         /\ Unhandled(t) = 0 => DueIn(t) = remaining[t]
<1>. DEFINE n == Unhandled(t)
            p == xTimerPeriodInTicks[t]
            r == remaining[t]
<1>1. p \in Nat \ {0} /\ r \in Nat /\ r <= p /\ n \in Int /\ DueIn(t) = r - n * p /\ r > 0
  BY PeriodBounds, Widths DEF TypeInv, DueIn
<1>. HIDE DEF n, p, r
<1>2. n <= 0 => n * p <= 0
  BY <1>1
<1>3. n >= 1 => n * p >= p
  BY <1>1
<1>4. n = 0 => n * p = 0
  BY <1>1
<1>5. n * p \in Int
  BY <1>1
<1>6. /\ DueIn(t) \in Int
      /\ DueIn(t) <= 0 => n > 0
      /\ DueIn(t) > 0 => n <= 0
      /\ n = 0 => DueIn(t) = r
  <2>. DEFINE m == n * p
  <2>1. m \in Int /\ (n <= 0 => m <= 0) /\ (n >= 1 => m >= p) /\ (n = 0 => m = 0)
    BY <1>2, <1>3, <1>4, <1>5
  <2>2. DueIn(t) = r - m
    BY <1>1
  <2>. HIDE DEF m
  <2>. QED  BY <1>1, <2>1, <2>2
<1>. QED  BY <1>6 DEF n, r

-----------------------------------------------------------------------------
(* The steps that leave the daemon and the clock alone. *)

LEMMA TimersInit == Init => TimersInv
<1>. SUFFICES ASSUME Init PROVE TimersInv
  OBVIOUS
<1>. USE DEF Init, Fresh, At, received
<1>1. TypeInv
  BY Widths DEF TypeInv, Daemon, Steps, Dormant, Forever
<1>2. QueueInv
  BY TimersAssumption DEF QueueInv, Message
<1>3. DaemonInv
  BY TimersAssumption DEF DaemonInv, NoMessage
<1>4. ClockInv
  BY MinusSelf, Widths DEF ClockInv, NoneListed, Switching, NoMessage
<1>5. ListInv
  BY EmptySet DEF ListInv, OnList, InCurrent, InOverflow, Reloading, Sorted
<1>6. DueInv
  BY EmptySet DEF DueInv, TimerDue, OnList, InCurrent, InOverflow, Reloading, Calling, Unhandled
<1>7. SleepInv
  BY DEF SleepInv
<1>. QED  BY <1>1, <1>2, <1>3, <1>4, <1>5, <1>6, <1>7 DEF TimersInv

LEMMA StandStill ==
  ASSUME TimersInv, UNCHANGED clockVars, UNCHANGED listVars, UNCHANGED xTimerPeriodInTicks,
         UNCHANGED isActive, UNCHANGED xLastTime, UNCHANGED daemon
  PROVE  DaemonInv' /\ ClockInv' /\ ListInv' /\ DueInv' /\ SleepInv'
BY DEF TimersInv, clockVars, listVars, DaemonInv, ClockInv, ListInv, DueInv, TimerDue, SleepInv, Switching, At, received,
       NoneListed, OnList, InCurrent, InOverflow, Reloading, Calling, Unhandled, DueIn, ExpiresAt,
       xNow, Sorted

\* A command comes into the queue.
LEMMA CommandKeeps ==
  ASSUME TimersInv, NEW t \in Timer, NEW command \in Commands, NEW value \in Ticks,
         NEW age \in Ticks, Command(t, command, value, age),
         command = "start" => Minus(xTickCount, value) = age,
         command = "changePeriod" => value \in Periods
  PROVE  TimersInv'
<1>. USE DEF received
<1>. DEFINE m == [timer |-> t, command |-> command, value |-> value, age |-> age]
            q == xTimerQueue
            n == Len(q)
<1>0. TypeInv /\ QueueInv /\ DaemonInv /\ ClockInv /\ ListInv /\ DueInv /\ SleepInv
  BY DEF TimersInv
<1>1. /\ exists[t] /\ n < QueueLength
      /\ xTimerQueue' = Append(q, m)
      /\ exists' = [exists EXCEPT ![t] = command # "delete"]
      /\ UNCHANGED <<clockVars, listVars, xTimerPeriodInTicks, isActive, isAutoReload, xLastTime, daemon>>
  BY DEF Command
<1>2. /\ DaemonInv' /\ ClockInv' /\ ListInv' /\ DueInv' /\ SleepInv'
  BY <1>1, StandStill
<1>3. TypeInv'
  BY <1>0, <1>1 DEF TypeInv, clockVars, listVars
<1>4. QueueInv'
  <2>1. m \in Message /\ q \in Seq(Message) /\ n \in Nat
    BY <1>0 DEF Message, QueueInv
  <2>2. /\ xTimerQueue' \in Seq(Message) /\ Len(xTimerQueue') = n + 1
        /\ DOMAIN xTimerQueue' = 1 .. n + 1 /\ DOMAIN q = 1 .. n
        /\ \A i \in 1 .. n : xTimerQueue'[i] = q[i]
        /\ xTimerQueue'[n + 1] = m
    BY <1>1, <2>1
  <2>3. \A i \in 1 .. n : q[i].timer = t => q[i].command # "delete"
    BY <1>0, <1>1, <2>2 DEF QueueInv, Pending
  <2>4. received.timer = t => received.command # "delete"
    BY <1>0, <1>1, Messages DEF QueueInv, Pending
  <2>5. exists \in [Timer -> BOOLEAN] /\ \A u \in Timer : exists'[u] =
          IF u = t THEN command # "delete" ELSE exists[u]
    BY <1>0, <1>1 DEF TypeInv
  <2>6. xTickCount' = xTickCount /\ received' = received /\ isActive' = isActive
    BY <1>1 DEF clockVars
  <2>7. \A x : Pending(x, xTickCount, exists) /\ (x.timer = t => x.command # "delete")
               => Pending(x, xTickCount', exists')
    BY <2>5, <2>6 DEF Pending, Message
  <2>8. Pending(m, xTickCount', exists')
    BY <2>1, <2>5, <2>6 DEF Pending
  <2>9. \A i \in DOMAIN xTimerQueue' : Pending(xTimerQueue'[i], xTickCount', exists')
    <3>. SUFFICES ASSUME NEW i \in 1 .. n + 1 PROVE Pending(xTimerQueue'[i], xTickCount', exists')
      BY <2>2
    <3>1. CASE i = n + 1
      BY <2>2, <2>8, <3>1
    <3>2. CASE i # n + 1
      BY <1>0, <2>2, <2>3, <2>7, <3>2 DEF QueueInv
    <3>. QED  BY <3>1, <3>2
  <2>10. received' # NoMessage => Pending(received', xTickCount', exists')
    BY <1>0, <2>4, <2>6, <2>7 DEF QueueInv
  <2>11. \A i, j \in DOMAIN xTimerQueue' :
           i < j /\ xTimerQueue'[i].command = "delete" => xTimerQueue'[j].timer # xTimerQueue'[i].timer
    <3>. SUFFICES ASSUME NEW i \in 1 .. n + 1, NEW j \in 1 .. n + 1, i < j,
                         xTimerQueue'[i].command = "delete"
                  PROVE  xTimerQueue'[j].timer # xTimerQueue'[i].timer
      BY <2>2
    <3>1. i \in 1 .. n /\ xTimerQueue'[i] = q[i]
      BY <2>1, <2>2
    <3>2. CASE j = n + 1
      BY <2>2, <2>3, <3>1, <3>2
    <3>3. CASE j # n + 1
      <4>1. j \in 1 .. n /\ xTimerQueue'[j] = q[j]
        BY <2>1, <2>2, <3>3
      <4>2. i \in DOMAIN q /\ j \in DOMAIN q /\ q[i].command = "delete"
        BY <2>2, <3>1, <4>1
      <4>3. q[j].timer # q[i].timer
        BY <1>0, <4>2 DEF QueueInv
      <4>. QED  BY <3>1, <4>1, <4>3
    <3>. QED  BY <3>2, <3>3
  <2>12. received'.command = "delete" =>
           \A j \in DOMAIN xTimerQueue' : xTimerQueue'[j].timer # received'.timer
    BY <1>0, <2>1, <2>2, <2>4, <2>6 DEF QueueInv
  <2>13. ASSUME NEW u \in Timer, ~exists'[u]
         PROVE  \/ \E i \in DOMAIN xTimerQueue' :
                     xTimerQueue'[i].timer = u /\ xTimerQueue'[i].command = "delete"
                \/ received'.timer = u /\ received'.command = "delete"
                \/ Silent(u)' /\ ~isActive'[u]
    <3>1. CASE u = t
      <4>0. command = "delete"
        BY <2>5, <2>13, <3>1, Zenon
      <4>1. n + 1 \in DOMAIN xTimerQueue'
        BY <2>1, <2>2
      <4>2. xTimerQueue'[n + 1].timer = u /\ xTimerQueue'[n + 1].command = "delete"
        BY <2>2, <3>1, <4>0
      <4>. QED  BY <4>1, <4>2
    <3>2. CASE u # t
      <4>1. \/ \E i \in 1 .. n : q[i].timer = u /\ q[i].command = "delete"
            \/ received.timer = u /\ received.command = "delete"
            \/ Silent(u) /\ ~isActive[u]
        BY <1>0, <2>2, <2>5, <2>13, <3>2 DEF QueueInv
      <4>2. Silent(u) => Silent(u)'
        BY <2>1, <2>2, <2>6, <3>2 DEF Silent
      <4>. QED  BY <2>2, <2>6, <4>1, <4>2
    <3>. QED  BY <3>1, <3>2
  <2>14. Len(xTimerQueue') <= QueueLength
    BY <1>1, <2>1, <2>2, TimersAssumption
  <2>. QED  BY <2>2, <2>9, <2>10, <2>11, <2>12, <2>13, <2>14 DEF QueueInv
<1>. QED  BY <1>2, <1>3, <1>4 DEF TimersInv

\* A timer that is created is on no list, and no command for it is under way.
LEMMA CreateKeeps ==
  ASSUME TimersInv, NEW t \in Timer, NEW period \in Periods, NEW reload \in BOOLEAN,
         Create(t, period, reload)
  PROVE  TimersInv'
<1>. USE DEF received
<1>0. TypeInv /\ QueueInv /\ DaemonInv /\ ClockInv /\ ListInv /\ DueInv /\ SleepInv
  BY DEF TimersInv
<1>1. /\ ~exists[t] /\ Silent(t)
      /\ exists' = [exists EXCEPT ![t] = TRUE]
      /\ xTimerPeriodInTicks' = [xTimerPeriodInTicks EXCEPT ![t] = period]
      /\ isAutoReload' = [isAutoReload EXCEPT ![t] = reload]
      /\ xItemValue' = [xItemValue EXCEPT ![t] = 0]
      /\ UNCHANGED <<clockVars, pxCurrentTimerList, pxOverflowTimerList, isActive, xTimerQueue,
                     xLastTime, daemon>>
  BY DEF Create, Silent
<1>2. ~OnList(t) /\ ~Reloading(t)
  <2>1. received.timer # t /\ \A i \in DOMAIN xTimerQueue : xTimerQueue[i].timer # t
    BY <1>1 DEF Silent
  <2>2. ~isActive[t]
    BY <1>0, <1>1, <2>1 DEF QueueInv
  <2>. QED  BY <1>0, <2>1, <2>2 DEF ListInv
<1>3. remaining[t] = 0 /\ Unhandled(t) = 0
  BY <1>0, <1>1, <1>2 DEF DueInv, TimerDue, Silent, Dormant
<1>4. /\ \A u : /\ OnList(u)' = OnList(u) /\ InCurrent(u)' = InCurrent(u)
                /\ InOverflow(u)' = InOverflow(u)
                /\ Reloading(u)' = Reloading(u) /\ Calling(u)' = Calling(u)
                /\ Unhandled(u)' = Unhandled(u)
      /\ xNow' = xNow /\ Switching' = Switching
  BY <1>1 DEF OnList, InCurrent, InOverflow, Reloading, Calling, At, Unhandled, xNow, Switching,
              clockVars
<1>5. \A u \in Timer : u # t =>
        /\ xItemValue'[u] = xItemValue[u]
        /\ xTimerPeriodInTicks'[u] = xTimerPeriodInTicks[u]
        /\ ExpiresAt(u)' = ExpiresAt(u) /\ DueIn(u)' = DueIn(u)
  BY <1>0, <1>1, <1>4 DEF TypeInv, ExpiresAt, DueIn, clockVars
<1>6. TypeInv'
  <2>1. 0 \in Ticks
    BY Widths
  <2>2. \A u \in Timer : remaining'[u] <= xTimerPeriodInTicks'[u]
    BY <1>0, <1>1, <1>3, Widths DEF TypeInv, clockVars
  <2>. QED  BY <1>0, <1>1, <2>1, <2>2 DEF TypeInv, clockVars
<1>7. QueueInv'
  <2>1. \A x : Pending(x, xTickCount, exists) /\ x.timer # t => Pending(x, xTickCount', exists')
    BY <1>0, <1>1 DEF Pending, Message, TypeInv, clockVars
  <2>2. \A i \in DOMAIN xTimerQueue' : Pending(xTimerQueue'[i], xTickCount', exists')
    BY <1>0, <1>1, <2>1 DEF QueueInv, Silent
  <2>3. received' # NoMessage => Pending(received', xTickCount', exists')
    BY <1>0, <1>1, <2>1 DEF QueueInv, Silent
  <2>4. \A u \in Timer : ~exists'[u] => u # t /\ ~exists[u]
    BY <1>0, <1>1 DEF TypeInv
  <2>5. \A u : Silent(u)' = Silent(u)
    BY <1>1 DEF Silent
  <2>. QED  BY <1>0, <1>1, <2>2, <2>3, <2>4, <2>5 DEF QueueInv
<1>8. DaemonInv'
  <2>1. pxCurrentTimerList # <<>> => Head(pxCurrentTimerList) \in Timer /\ InCurrent(Head(pxCurrentTimerList))
    BY <1>0, HeadAndRest DEF ListInv, InCurrent
  <2>2. pxCurrentTimerList # <<>> =>
          xItemValue'[Head(pxCurrentTimerList)] = xItemValue[Head(pxCurrentTimerList)]
    BY <1>2, <1>5, <2>1 DEF OnList
  <2>. QED  BY <1>0, <1>1, <2>2 DEF DaemonInv, Switching, At
<1>9. ClockInv'
  BY <1>0, <1>1 DEF ClockInv, Switching, At, NoneListed, clockVars
<1>10. ListInv'
  <2>1. Sorted(pxCurrentTimerList, xItemValue')
    <3>1. \A u \in ToSet(pxCurrentTimerList) : u \in Timer /\ u # t
      BY <1>0, <1>2, Members DEF ListInv, OnList, InCurrent
    <3>2. \A u \in ToSet(pxCurrentTimerList) : xItemValue'[u] = xItemValue[u]
      BY <1>5, <3>1
    <3>. QED  BY <1>0, <3>2, SortedByOwn DEF ListInv
  <2>2. Sorted(pxOverflowTimerList, xItemValue')
    <3>1. \A u \in ToSet(pxOverflowTimerList) : u \in Timer /\ u # t
      BY <1>0, <1>2, Members DEF ListInv, OnList, InOverflow
    <3>2. \A u \in ToSet(pxOverflowTimerList) : xItemValue'[u] = xItemValue[u]
      BY <1>5, <3>1
    <3>. QED  BY <1>0, <3>2, SortedByOwn DEF ListInv
  <2>. QED  BY <1>0, <1>1, <1>4, <2>1, <2>2 DEF ListInv
<1>11. DueInv'
  <2>1. UNCHANGED <<remaining, owed, daemon, xLastTime>>
    BY <1>1 DEF clockVars
  <2>2. \A u \in Timer : (OnList(u) => remaining[u] > 0 /\ ExpiresAt(u) = xNow + DueIn(u))'
    BY <1>0, <1>2, <1>4, <1>5, <2>1 DEF DueInv, TimerDue
  <2>3. \A u \in Timer : (Reloading(u) =>
       /\ remaining[u] > 0
       /\ daemon.until = IF Switching THEN portMAX_DELAY ELSE xLastTime
       /\ xNow + DueIn(u) = daemon.until - Minus(daemon.until, daemon.xExpiredTime))'
    BY <1>0, <1>2, <1>4, <1>5, <2>1 DEF DueInv, TimerDue
  <2>. QED  BY <1>0, <1>4, <2>1, <2>2, <2>3 DEF DueInv, TimerDue
<1>12. SleepInv'
  BY <1>0, <1>1, <1>2, <1>4, <1>5 DEF SleepInv, NoneListed, At, Members
<1>. QED  BY <1>6, <1>7, <1>8, <1>9, <1>10, <1>11, <1>12 DEF TimersInv

\* The reload mode does not matter to the invariant.
LEMMA SetReloadModeKeeps ==
  ASSUME TimersInv, NEW t \in Timer, NEW reload \in BOOLEAN, vTimerSetReloadMode(t, reload)
  PROVE  TimersInv'
<1>1. /\ isAutoReload' = [isAutoReload EXCEPT ![t] = reload]
      /\ UNCHANGED <<clockVars, listVars, xTimerPeriodInTicks, isActive, exists, xTimerQueue,
                     xLastTime, daemon>>
  BY DEF vTimerSetReloadMode
<1>2. DaemonInv' /\ ClockInv' /\ ListInv' /\ DueInv' /\ SleepInv'
  BY <1>1, StandStill
<1>3. TypeInv'
  BY <1>1 DEF TimersInv, TypeInv, clockVars, listVars
<1>4. QueueInv'
  BY <1>1 DEF TimersInv, QueueInv, Pending, Silent, received, clockVars
<1>. QED  BY <1>2, <1>3, <1>4 DEF TimersInv

-----------------------------------------------------------------------------
(* The steps of the daemon that leave the timers alone. *)

\* While the clock goes on undisturbed, the timers' times are right as long as
\* no timer is put on a list or taken off one.
LEMMA TimersAlone ==
  ASSUME TimersInv, UNCHANGED listVars, UNCHANGED timerVars, UNCHANGED remaining, UNCHANGED owed,
         daemon.step \notin {"reload", "callback"}, daemon'.step \notin {"reload", "callback"},
         received'.timer = received.timer, xNow' = xNow
  PROVE  ListInv' /\ DueInv'
<1>. USE DEF timerVars, listVars, At, Reloading, Calling, OnList, InCurrent, InOverflow
<1>1. ListInv'
  BY DEF TimersInv, ListInv, Sorted
<1>2. \A t \in Timer : Unhandled(t)' = Unhandled(t) /\ DueIn(t)' = DueIn(t) /\ ExpiresAt(t)' = ExpiresAt(t)
  BY DEF Unhandled, DueIn, ExpiresAt
<1>. QED  BY <1>1, <1>2 DEF TimersInv, DueInv, TimerDue

\* No timer starts to run, and no command moves.
LEMMA CommandsAlone ==
  ASSUME TimersInv, UNCHANGED xTimerQueue, UNCHANGED xTickCount, UNCHANGED exists,
         received' = received, \A t \in Timer : isActive'[t] => isActive[t]
  PROVE  QueueInv'
BY DEF TimersInv, QueueInv, Pending, Silent

\* prvGetNextExpireTime
LEMMA GetNextExpireTimeKeeps ==
  ASSUME TimersInv, GetNextExpireTime
  PROVE  TimersInv'
<1>0. TypeInv /\ QueueInv /\ DaemonInv /\ ClockInv /\ ListInv /\ DueInv /\ SleepInv
  BY DEF TimersInv
<1>. DEFINE expires == IF pxCurrentTimerList = <<>> THEN 0 ELSE xItemValue[Head(pxCurrentTimerList)]
<1>1. /\ At("next")
      /\ daemon' = [Fresh("sample") EXCEPT !.xListWasEmpty = (pxCurrentTimerList = <<>>),
                                           !.xNextExpireTime = expires]
      /\ UNCHANGED <<clockVars, listVars, timerVars, xTimerQueue, xLastTime>>
  BY DEF GetNextExpireTime
<1>2. expires \in Ticks
  BY <1>0, HeadAndRest, Widths DEF TypeInv, ListInv
<1>. HIDE DEF expires
<1>3. daemon' = [step |-> "sample", xNextExpireTime |-> expires,
                 xListWasEmpty |-> (pxCurrentTimerList = <<>>), xTimeNow |-> 0,
                 caller |-> "block", suspended |-> FALSE, timer |-> NoTimer, xExpiredTime |-> 0,
                 until |-> 0, after |-> "commands", wake |-> 0, message |-> NoMessage]
  BY <1>1 DEF Fresh
<1>4. /\ daemon.step = "next" /\ daemon.timer \notin Timer /\ daemon.after # "switch"
      /\ received = NoMessage /\ ~Switching
  BY <1>0, <1>1 DEF At, DaemonInv, Switching
<1>a. /\ daemon'.step = "sample" /\ daemon'.caller = "block" /\ received' = NoMessage
      /\ daemon'.timer = NoTimer /\ daemon'.after = "commands" /\ ~Switching'
      /\ daemon'.xListWasEmpty = (pxCurrentTimerList = <<>>)
      /\ daemon'.xNextExpireTime = expires
  BY <1>3 DEF received, Switching, At
<1>5. TypeInv'
  <2>1. daemon' \in Daemon
    BY <1>2, <1>3, Widths DEF Daemon, Steps, Forever
  <2>. QED  BY <1>0, <1>1, <2>1 DEF TypeInv, clockVars, listVars, timerVars
<1>6. QueueInv'
  BY <1>1, <1>4, <1>a, CommandsAlone DEF clockVars, timerVars
<1>7. ListInv' /\ DueInv'
  <2>1. xNow' = xNow
    BY <1>1, <1>4, <1>a DEF xNow, clockVars
  <2>. QED  BY <1>1, <1>4, <1>a, <2>1, TimersAlone DEF clockVars
<1>8. DaemonInv'
  BY <1>1, <1>a, TimersAssumption DEF DaemonInv, At, received, NoMessage, listVars, expires
<1>9. ClockInv'
  BY <1>0, <1>1, <1>4, <1>a DEF ClockInv, At, clockVars, listVars, NoneListed
<1>10. SleepInv'
  BY <1>a DEF SleepInv, At
<1>. QED  BY <1>5, <1>6, <1>7, <1>8, <1>9, <1>10 DEF TimersInv

\* A step to prvProcessReceivedCommands, or from it to the next turn of the
\* loop.
LEMMA FreshKeeps ==
  ASSUME TimersInv, UNCHANGED clockVars, UNCHANGED listVars, UNCHANGED timerVars,
         UNCHANGED xTimerQueue, UNCHANGED xLastTime, NEW s \in {"commands", "next"},
         daemon' = Fresh(s), received = NoMessage, ~Switching,
         daemon.step \notin {"reload", "callback"}
  PROVE  TimersInv'
<1>0. TypeInv /\ QueueInv /\ DaemonInv /\ ClockInv /\ ListInv /\ DueInv /\ SleepInv
  BY DEF TimersInv
<1>1. daemon' \in Daemon
  BY Widths DEF Daemon, Steps, Forever, Fresh
<1>2. /\ daemon'.step = s /\ daemon'.caller = "block" /\ daemon'.message = NoMessage
      /\ daemon'.timer = NoTimer /\ daemon'.after = "commands" /\ ~Switching'
  BY DEF Fresh, Switching, At
<1>3. xNow' = xNow
  BY <1>2 DEF xNow, clockVars
<1>4. TypeInv'
  BY <1>0, <1>1 DEF TypeInv, clockVars, listVars, timerVars
<1>5. QueueInv'
  BY <1>2, CommandsAlone DEF clockVars, timerVars, received
<1>6. ListInv' /\ DueInv'
  BY <1>2, <1>3, TimersAlone DEF clockVars, received
<1>7. DaemonInv'
  BY <1>2, TimersAssumption DEF DaemonInv, At, received, NoMessage
<1>8. ClockInv'
  <2>1. ~NoneListed => Minus(xTickCount, xLastTime) <= portMAX_DELAY - MaxStall + stall
    BY <1>0, Widths, ClockTypes, SMTT(30) DEF ClockInv, TypeInv, Daemon
  <2>. QED  BY <1>2, <2>1 DEF ClockInv, At, received, clockVars, listVars, NoneListed
<1>9. SleepInv'
  BY <1>2 DEF SleepInv, At
<1>. QED  BY <1>4, <1>5, <1>6, <1>7, <1>8, <1>9 DEF TimersInv

LEMMA WakeUpKeeps ==
  ASSUME TimersInv, WakeUp \/ NoMoreCommands
  PROVE  TimersInv'
<1>1. \E s \in {"commands", "next"} : daemon' = Fresh(s)
  BY DEF WakeUp, NoMoreCommands
<1>2. /\ UNCHANGED clockVars /\ UNCHANGED listVars /\ UNCHANGED timerVars
      /\ UNCHANGED xTimerQueue /\ UNCHANGED xLastTime /\ daemon.step \in {"asleep", "commands"}
  BY DEF WakeUp, NoMoreCommands, At
<1>3. received = NoMessage /\ ~Switching
  BY <1>2 DEF TimersInv, DaemonInv, Switching, At
<1>. QED  BY <1>1, <1>2, <1>3, FreshKeeps

\* prvSampleTimeNow: the clock it reads is the one it leaves, whether the count
\* has wrapped or not.
LEMMA SampleTimeNowKeeps ==
  ASSUME TimersInv, SampleTimeNow
  PROVE  TimersInv'
<1>0. TypeInv /\ QueueInv /\ DaemonInv /\ ClockInv /\ ListInv /\ DueInv /\ SleepInv
  BY DEF TimersInv
<1>. DEFINE to == IF Wrapped THEN "switch" ELSE IF daemon.caller = "block" THEN "decide" ELSE "apply"
<1>1. /\ daemon.step = "sample" /\ stall' = 0
      /\ xLastTime' = IF Wrapped THEN xLastTime ELSE xTickCount
      /\ daemon' = [(IF to = "decide" THEN daemon ELSE Fresh(to)) EXCEPT
                      !.step = to, !.xTimeNow = xTickCount, !.suspended = (daemon.caller = "block"),
                      !.caller = daemon.caller, !.message = received]
      /\ UNCHANGED <<xTickCount, remaining, owed, listVars, timerVars, xTimerQueue>>
  BY DEF SampleTimeNow, At
<1>2. /\ to \in {"switch", "decide", "apply"}
      /\ to = "switch" <=> Wrapped
      /\ to = "decide" => daemon.caller = "block"
      /\ to = "apply" => daemon.caller = "command"
  BY <1>0 DEF TypeInv, Daemon
<1>. HIDE DEF to
<1>3. /\ daemon.timer = NoTimer /\ daemon.after = "commands" /\ ~Switching
      /\ received # NoMessage <=> daemon.caller = "command"
  BY <1>0, <1>1 DEF DaemonInv, TypeInv, Daemon, Switching, At
<1>4. daemon' \in Daemon
  <2>1. xTickCount \in Ticks /\ daemon \in Daemon /\ received \in Message \cup {NoMessage}
        /\ daemon.caller \in {"block", "command"}
    BY <1>0 DEF TypeInv, Daemon, received
  <2>2. CASE to = "decide"
    <3>1. daemon' = [daemon EXCEPT !.step = to, !.xTimeNow = xTickCount,
                       !.suspended = (daemon.caller = "block"),
                       !.caller = daemon.caller, !.message = received]
      BY <1>1, <2>2
    <3>2. to \in Steps /\ (daemon.caller = "block") \in BOOLEAN
      BY <2>2 DEF Steps
    <3>. QED  BY <2>1, <3>1, <3>2 DEF Daemon
  <2>3. CASE to # "decide"
    <3>1. daemon' = [Fresh(to) EXCEPT !.step = to, !.xTimeNow = xTickCount,
                       !.suspended = (daemon.caller = "block"),
                       !.caller = daemon.caller, !.message = received]
      BY <1>1, <2>3
    <3>2. Fresh(to) \in Daemon
      BY <1>2, Widths DEF Daemon, Steps, Forever, Fresh
    <3>3. to \in Steps /\ (daemon.caller = "block") \in BOOLEAN
      BY <1>2 DEF Steps
    <3>. QED  BY <2>1, <3>1, <3>2, <3>3 DEF Daemon
  <2>. QED  BY <2>2, <2>3
<1>a. /\ daemon'.step = to /\ daemon'.caller = daemon.caller /\ received' = received
      /\ daemon'.timer = NoTimer /\ daemon'.after = "commands" /\ daemon'.xTimeNow = xTickCount
      /\ daemon'.suspended = (daemon.caller = "block")
      /\ to = "decide" => /\ daemon'.xListWasEmpty = daemon.xListWasEmpty
                          /\ daemon'.xNextExpireTime = daemon.xNextExpireTime
  BY <1>0, <1>1, <1>2, <1>3 DEF Fresh, TypeInv, Daemon, received
<1>b. Switching' <=> to = "switch"
  BY <1>2, <1>a DEF Switching, At
<1>5. TypeInv'
  BY <1>0, <1>1, <1>4, Widths DEF TypeInv, listVars, timerVars
<1>6. QueueInv'
  BY <1>1, <1>a, CommandsAlone DEF timerVars
<1>7. ListInv' /\ DueInv'
  <2>1. xTickCount \in Ticks /\ xLastTime \in Ticks /\ TickRange \in Nat /\ Ticks \subseteq Int
    BY <1>0, Widths DEF TypeInv
  <2>2. xNow' = xNow
    <3>1. CASE Wrapped
      <4>1. xNow = xLastTime + (xTickCount - xLastTime + TickRange)
        BY <2>1, <1>3, <3>1 DEF xNow, Wrapped, Minus
      <4>2. xNow' = TickRange + xTickCount + 0
        BY <1>1, <1>2, <1>a, <1>b, <3>1 DEF xNow
      <4>. QED  BY <2>1, <4>1, <4>2
    <3>2. CASE ~Wrapped
      <4>1. xNow = xLastTime + (xTickCount - xLastTime)
        BY <2>1, <1>3, <3>2 DEF xNow, Wrapped, Minus
      <4>2. xNow' = xTickCount + Minus(xTickCount, xTickCount)
        BY <1>1, <1>2, <1>b, <3>2 DEF xNow
      <4>. QED  BY <2>1, <4>1, <4>2, MinusSelf
    <3>. QED  BY <3>1, <3>2
  <2>. QED  BY <1>1, <1>2, <1>a, <2>2, TimersAlone
<1>8. DaemonInv'
  <2>1. to = "decide" => /\ daemon.xListWasEmpty = (pxCurrentTimerList = <<>>)
                         /\ daemon.xNextExpireTime = IF pxCurrentTimerList = <<>> THEN 0
                                                     ELSE xItemValue[Head(pxCurrentTimerList)]
    BY <1>0, <1>1, <1>2 DEF DaemonInv, At
  <2>2. UNCHANGED listVars
    BY <1>1
  <2>3. daemon'.timer \notin Timer
    BY <1>a, TimersAssumption
  <2>. QED  BY <1>2, <1>3, <1>a, <1>b, <2>1, <2>2, <2>3 DEF DaemonInv, At, listVars
<1>9. ClockInv'
  <2>1. Minus(xTickCount, xTickCount) = 0
    BY <1>0, MinusSelf DEF TypeInv
  <2>5. ~NoneListed' => 0 <= portMAX_DELAY - MaxStall + 0
    <3>1. NoneListed' = NoneListed
      BY <1>1 DEF NoneListed, listVars
    <3>2. ~NoneListed => MaxStall < portMAX_DELAY
      BY <1>0, Widths
    <3>. QED  BY <3>1, <3>2, Widths
  <2>2. received # NoMessage => received.age >= 0
    BY <1>0, Messages, Widths DEF Message
  <2>3. to # "switch" => xLastTime' = xTickCount
    BY <1>1, <1>2
  <2>4. xTickCount' = xTickCount
    BY <1>1
  <2>. QED  BY <1>1, <1>2, <1>a, <1>b, <2>1, <2>2, <2>3, <2>4, <2>5 DEF ClockInv, At
<1>10. SleepInv'
  BY <1>2, <1>a DEF SleepInv, At
<1>. QED  BY <1>5, <1>6, <1>7, <1>8, <1>9, <1>10 DEF TimersInv

\* No listed timer is further away than its period.
LEMMA DueWithinPeriod ==
  ASSUME TypeInv, NEW t \in Timer, ~Calling(t)
  PROVE  DueIn(t) \in Int /\ DueIn(t) <= portMAX_DELAY - MaxStall
<1>. DEFINE m == owed[t] * xTimerPeriodInTicks[t]
<1>1. /\ owed[t] \in Nat /\ xTimerPeriodInTicks[t] \in Nat /\ remaining[t] \in Nat
      /\ remaining[t] <= portMAX_DELAY - MaxStall
  BY PeriodBounds, Widths DEF TypeInv
<1>2. m \in Int /\ m >= 0
  BY <1>1
<1>3. DueIn(t) = remaining[t] - m
  BY DEF DueIn, Unhandled
<1>. HIDE DEF m
<1>. QED  BY <1>1, <1>2, <1>3, Widths

\* The daemon goes to sleep until the head of the current list expires, or,
\* when that list is empty, until the count wraps.
LEMMA SleepKeeps ==
  ASSUME TimersInv, Sleep
  PROVE  TimersInv'
<1>0. TypeInv /\ QueueInv /\ DaemonInv /\ ClockInv /\ ListInv /\ DueInv /\ SleepInv
  BY DEF TimersInv
<1>1. /\ daemon.step = "decide" /\ ~Expired
      /\ UNCHANGED <<clockVars, listVars, timerVars, xTimerQueue, xLastTime>>
  BY DEF Sleep, At
<1>2. received = NoMessage /\ ~Switching /\ daemon.timer \notin Timer
  BY <1>0, <1>1 DEF DaemonInv, Switching, At
<1>3. CASE xTimerQueue # <<>>
  <2>1. daemon' = Fresh("commands")
    BY <1>3 DEF Sleep
  <2>. QED  BY <1>1, <1>2, <2>1, FreshKeeps
<1>4. CASE xTimerQueue = <<>>
  <2>. DEFINE wakes == IF WaitIndefinitely THEN Forever
                       ELSE Minus(daemon.xNextExpireTime, daemon.xTimeNow)
  <2>1. daemon' = [Fresh("asleep") EXCEPT !.wake = wakes]
    BY <1>4 DEF Sleep
  <2>2. /\ daemon.xListWasEmpty = (pxCurrentTimerList = <<>>)
        /\ daemon.xNextExpireTime = IF pxCurrentTimerList = <<>> THEN 0
                                    ELSE xItemValue[Head(pxCurrentTimerList)]
        /\ daemon.xTimeNow = xLastTime /\ Minus(xTickCount, xLastTime) = 0 /\ stall = 0
    BY <1>0, <1>1, <1>2 DEF DaemonInv, ClockInv, At
  <2>3. daemon.xNextExpireTime \in Ticks /\ xLastTime \in Ticks /\ daemon.xTimeNow \in Ticks
    BY <1>0 DEF TypeInv, Daemon
  <2>4. Minus(daemon.xNextExpireTime, daemon.xTimeNow) \in Ticks
    BY <2>3, TickArithmetic
  <2>5. WaitIndefinitely <=> NoneListed
    BY <2>2 DEF WaitIndefinitely, NoneListed
  <2>6. wakes \in 0 .. Forever /\ (NoneListed <=> wakes = Forever)
    BY <2>4, <2>5, Widths DEF Forever
  <2>7. xNow = xLastTime
    BY <1>2, <2>2, <2>3, Widths DEF xNow
  <2>8. ASSUME NEW t \in Timer, OnList(t) PROVE xNow + wakes <= ExpiresAt(t)
    <3>1. ~NoneListed /\ wakes = Minus(daemon.xNextExpireTime, daemon.xTimeNow)
      BY <1>0, <2>5, <2>8, EmptySet DEF OnList, InCurrent, InOverflow, NoneListed
    <3>2. xItemValue[t] \in Ticks
      BY <1>0 DEF TypeInv
    <3>3. CASE pxCurrentTimerList = <<>>
      <4>1. ~InCurrent(t) /\ daemon.xNextExpireTime = 0
        BY <2>2, <3>3, EmptySet DEF InCurrent
      <4>2. xNow + wakes <= TickRange
        <5>1. wakes = IF xLastTime <= 0 THEN 0 - xLastTime ELSE (0 - xLastTime) + TickRange
          BY <2>2, <3>1, <4>1 DEF Minus
        <5>. HIDE DEF wakes
        <5>. QED  BY <2>3, <2>7, <5>1, Widths
      <4>3. wakes \in Int /\ xNow \in Int
        BY <2>3, <2>4, <2>7, <3>1, Widths
      <4>. QED  BY <3>2, <4>1, <4>2, <4>3, Widths DEF ExpiresAt
    <3>4. CASE pxCurrentTimerList # <<>>
      <4>. DEFINE first == xItemValue[Head(pxCurrentTimerList)]
      <4>1. daemon.xNextExpireTime = first /\ first > xLastTime /\ first \in Ticks
        <5>1. daemon.xNextExpireTime = first
          BY <2>2, <3>4
        <5>2. ~daemon.xListWasEmpty
          BY <2>2, <3>4, Zenon
        <5>3. ~(daemon.xNextExpireTime <= daemon.xTimeNow)
          BY <1>1, <5>2 DEF Expired
        <5>. QED  BY <2>2, <2>3, <5>1, <5>3, Widths
      <4>. HIDE DEF first
      <4>2. xNow + wakes = first
        BY <2>2, <2>3, <2>7, <3>1, <4>1, Widths DEF Minus
      <4>3. InCurrent(t) => first <= xItemValue[t]
        <5>1. xItemValue \in [Timer -> Int] /\ pxCurrentTimerList \in Seq(Timer)
              /\ Sorted(pxCurrentTimerList, xItemValue)
          BY <1>0, Widths DEF TypeInv, ListInv
        <5>. QED  BY <5>1, <3>4, HeadExpiresFirst DEF InCurrent, first
      <4>4. first <= xItemValue[t] + TickRange
        BY <3>2, <4>1, Widths
      <4>. QED  BY <4>2, <4>3, <4>4 DEF ExpiresAt
    <3>. QED  BY <3>3, <3>4
  <2>. HIDE DEF wakes
  <2>a. /\ daemon'.step = "asleep" /\ daemon'.caller = "block" /\ received' = NoMessage
        /\ daemon'.timer = NoTimer /\ daemon'.after = "commands" /\ ~Switching'
        /\ daemon'.wake = wakes
    BY <2>1 DEF Fresh, received, Switching, At
  <2>9. TypeInv'
    <3>1. daemon' \in Daemon
      <4>. Fresh("asleep") \in Daemon
        BY Widths DEF Daemon, Steps, Forever, Fresh
      <4>. QED  BY <2>1, <2>6 DEF Daemon
    <3>. QED  BY <1>0, <1>1, <3>1 DEF TypeInv, clockVars, listVars, timerVars
  <2>10. QueueInv'
    BY <1>1, <1>2, <2>a, CommandsAlone DEF clockVars, timerVars
  <2>11. xNow' = xNow
    BY <1>1, <1>2, <2>a DEF xNow, clockVars
  <2>12. ListInv' /\ DueInv'
    BY <1>1, <1>2, <2>a, <2>11, TimersAlone DEF clockVars
  <2>13. DaemonInv'
    BY <2>a, TimersAssumption DEF DaemonInv, At
  <2>14. ClockInv'
    <3>1. ~NoneListed => wakes <= portMAX_DELAY - MaxStall
      <4>. SUFFICES ASSUME ~NoneListed PROVE wakes <= portMAX_DELAY - MaxStall
        OBVIOUS
      <4>1. PICK t \in Timer : OnList(t)
        BY <1>0, Members DEF NoneListed, ListInv, OnList, InCurrent, InOverflow
      <4>2. ExpiresAt(t) = xNow + DueIn(t)
        BY <1>0, <4>1 DEF DueInv, TimerDue
      <4>3. DueIn(t) \in Int /\ DueIn(t) <= portMAX_DELAY - MaxStall
        BY <1>0, <1>1, DueWithinPeriod DEF Calling, At
      <4>4. xNow + wakes <= ExpiresAt(t)
        BY <2>8, <4>1
      <4>. QED  BY <2>3, <2>6, <2>7, <4>2, <4>3, <4>4, Widths DEF Forever
    <3>2. NoneListed' = NoneListed /\ xTickCount' = xTickCount /\ xLastTime' = xLastTime
          /\ stall' = stall
      BY <1>1 DEF NoneListed, listVars, clockVars
    <3>3. 0 <= portMAX_DELAY - MaxStall + 0 \/ NoneListed
      <4>1. ~NoneListed => wakes >= 0
        BY <2>6
      <4>. QED  BY <2>6, <3>1, <4>1, Widths DEF Forever
    <3>. QED  BY <2>2, <2>6, <2>a, <3>1, <3>2, <3>3, Widths DEF ClockInv, At, Forever
  <2>15. SleepInv'
    <3>1. NoneListed' = NoneListed /\ \A t \in Timer : OnList(t)' = OnList(t) /\ ExpiresAt(t)' = ExpiresAt(t)
      BY <1>1 DEF NoneListed, OnList, InCurrent, InOverflow, ExpiresAt, listVars
    <3>. QED  BY <2>6, <2>8, <2>11, <2>a, <3>1 DEF SleepInv
  <2>. QED  BY <2>9, <2>10, <2>12, <2>13, <2>14, <2>15 DEF TimersInv
<1>. QED  BY <1>3, <1>4

-----------------------------------------------------------------------------
(* The steps that take one timer off its list, put it on one, or call its   *)
(* callback.                                                                *)

\* The other timers keep their times.
LEMMA OneTimerMoves ==
  ASSUME TimersInv, xNow' = xNow, NEW t \in Timer, TimerDue(t)',
         \A u \in Timer : u # t =>
           /\ InCurrent(u)' = InCurrent(u) /\ InOverflow(u)' = InOverflow(u)
           /\ ~Reloading(u) /\ ~Calling(u) /\ ~Reloading(u)' /\ ~Calling(u)'
           /\ xItemValue'[u] = xItemValue[u] /\ xTimerPeriodInTicks'[u] = xTimerPeriodInTicks[u]
           /\ remaining'[u] = remaining[u] /\ owed'[u] = owed[u]
           /\ u = received'.timer => u = received.timer
           /\ u = received.timer => u = received'.timer
  PROVE  DueInv'
<1>. SUFFICES ASSUME NEW u \in Timer, u # t PROVE TimerDue(u)'
  BY DEF DueInv
<1>1. /\ OnList(u)' = OnList(u) /\ Unhandled(u)' = Unhandled(u) /\ DueIn(u)' = DueIn(u)
      /\ ExpiresAt(u)' = ExpiresAt(u)
  BY DEF OnList, Unhandled, DueIn, ExpiresAt
<1>2. TimerDue(u)
  BY DEF TimersInv, DueInv
<1>. QED  BY <1>1, <1>2 DEF TimerDue

\* prvProcessExpiredTimer: the head of the current list expired by the time
\* "until", and is not listed any more.
LEMMA ExpiredKeeps ==
  ASSUME TimersInv, NEW expired, NEW until, NEW after \in {"switch", "commands"},
         pxCurrentTimerList # <<>>, expired = xItemValue[Head(pxCurrentTimerList)],
         after = "switch" => At("switch") /\ until = portMAX_DELAY,
         after = "commands" => At("decide") /\ until = xLastTime,
         expired <= until, DueIn(Head(pxCurrentTimerList)) <= 0,
         ProcessExpiredTimer(expired, until, after)
  PROVE  TimersInv'
<1>0. TypeInv /\ QueueInv /\ DaemonInv /\ ClockInv /\ ListInv /\ DueInv /\ SleepInv
  BY DEF TimersInv
<1>h. PICK t : t = Head(pxCurrentTimerList)
  OBVIOUS
<1>. DEFINE auto == isAutoReload[t]
<1>t. /\ t \in Timer /\ InCurrent(t) /\ ~InOverflow(t) /\ Tail(pxCurrentTimerList) \in Seq(Timer)
      /\ ToSet(Tail(pxCurrentTimerList)) = ToSet(pxCurrentTimerList) \ {t}
      /\ IsInjective(Tail(pxCurrentTimerList))
      /\ Sorted(Tail(pxCurrentTimerList), xItemValue)
  BY <1>0, <1>h, HeadAndRest, TailSorted DEF ListInv, InCurrent, InOverflow
<1>1. /\ pxCurrentTimerList' = Tail(pxCurrentTimerList)
      /\ daemon' = [(IF after = "switch" THEN daemon ELSE Fresh("callback")) EXCEPT
                       !.timer = t, !.xExpiredTime = expired, !.until = until, !.after = after,
                       !.step = IF auto THEN "reload" ELSE "callback"]
      /\ UNCHANGED <<xTickCount, stall, pxOverflowTimerList, xItemValue, xTimerPeriodInTicks,
                     isAutoReload, exists, xTimerQueue, xLastTime>>
      /\ auto => UNCHANGED <<isActive, remaining, owed>>
      /\ ~auto => /\ isActive' = [isActive EXCEPT ![t] = FALSE]
                  /\ remaining' = [remaining EXCEPT ![t] = 0]
                  /\ owed' = [owed EXCEPT ![t] = Min({owed[t], 1})]
  BY <1>h DEF ProcessExpiredTimer, Deactivated, Dormant
<1>2. daemon.step \in {"switch", "decide"} /\ (after = "switch" <=> At("switch"))
  BY DEF At
<1>3. /\ daemon.timer = NoTimer /\ ~Reloading(t) /\ ~Calling(t) /\ t # NoTimer /\ t # received.timer
      /\ Switching <=> after = "switch"
      /\ after = "commands" => received = NoMessage /\ daemon.caller = "block"
  BY <1>0, <1>2, <1>t, TimersAssumption
     DEF DaemonInv, ListInv, OnList, TypeInv, Daemon, Reloading, Calling, Switching, At
<1>4. /\ expired \in Ticks /\ until \in Ticks
  BY <1>0, <1>h, <1>t, Widths DEF TypeInv
<1>5. daemon' \in Daemon
  <2>1. daemon \in Daemon /\ Fresh("callback") \in Daemon
    BY <1>0, Widths DEF TypeInv, Daemon, Steps, Forever, Fresh
  <2>2. (IF auto THEN "reload" ELSE "callback") \in Steps
    BY DEF Steps
  <2>3. CASE after = "switch"
    BY <1>1, <1>t, <1>4, <2>1, <2>2, <2>3 DEF Daemon
  <2>4. CASE after # "switch"
    BY <1>1, <1>t, <1>4, <2>1, <2>2, <2>4 DEF Daemon
  <2>. QED  BY <2>3, <2>4
<1>a. /\ daemon'.step = IF auto THEN "reload" ELSE "callback"
      /\ daemon'.timer = t /\ daemon'.xExpiredTime = expired /\ daemon'.until = until
      /\ daemon'.after = after
      /\ received' = received /\ daemon'.caller = daemon.caller
      /\ after = "switch" => daemon'.xTimeNow = daemon.xTimeNow
  <2>1. CASE after = "switch"
    BY <1>0, <1>1, <2>1 DEF TypeInv, Daemon, received
  <2>2. CASE after # "switch"
    BY <1>0, <1>1, <1>3, <2>2 DEF Fresh, received
  <2>. QED  BY <2>1, <2>2
<1>b. /\ Switching' <=> after = "switch"
      /\ (Reloading(t)' <=> auto) /\ (Calling(t)' <=> ~auto)
  <2>1. /\ Switching' <=> after = "switch"
    BY <1>a DEF Switching, At
  <2>2. CASE auto
    BY <1>a, <2>1, <2>2 DEF Reloading, Calling, At
  <2>3. CASE ~auto
    BY <1>a, <2>1, <2>3 DEF Reloading, Calling, At
  <2>4. auto \in BOOLEAN
    BY <1>0, <1>t DEF TypeInv
  <2>. QED  BY <2>1, <2>2, <2>3, <2>4
<1>c. xNow' = xNow
  <2>1. xTickCount' = xTickCount /\ xLastTime' = xLastTime /\ stall' = stall
    BY <1>1
  <2>2. Switching' = Switching
    BY <1>3, <1>b DEF Switching
  <2>. QED  BY <1>3, <1>a, <1>b, <2>1, <2>2 DEF xNow
<1>6. /\ owed[t] \in Nat /\ owed[t] > 0 /\ remaining[t] > 0 /\ Min({owed[t], 1}) = 1
      /\ ExpiresAt(t) = expired /\ expired = xNow + DueIn(t)
  <2>1. remaining[t] > 0 /\ ExpiresAt(t) = xNow + DueIn(t)
    BY <1>0, <1>t DEF DueInv, TimerDue, OnList
  <2>2. Unhandled(t) = owed[t] /\ owed[t] \in Nat
    BY <1>0, <1>3, <1>t DEF Unhandled, TypeInv
  <2>3. owed[t] > 0
    BY <1>0, <1>h, <1>t, <2>1, <2>2, DueTells
  <2>4. Min({owed[t], 1}) = 1
    BY <2>2, <2>3 DEF Min
  <2>. QED  BY <1>h, <1>t, <2>1, <2>2, <2>3, <2>4 DEF ExpiresAt
<1>7. TypeInv'
  <2>1. /\ isActive' \in [Timer -> BOOLEAN] /\ remaining' \in [Timer -> Nat]
        /\ owed' \in [Timer -> Nat]
        /\ \A u \in Timer : remaining'[u] <= remaining[u]
    <3>1. CASE auto
      BY <1>0, <1>1, <3>1 DEF TypeInv
    <3>2. CASE ~auto
      <4>1. /\ isActive' = [isActive EXCEPT ![t] = FALSE] /\ remaining' = [remaining EXCEPT ![t] = 0]
            /\ owed' = [owed EXCEPT ![t] = 1]
        BY <1>1, <1>6, <3>2
      <4>2. /\ isActive \in [Timer -> BOOLEAN] /\ remaining \in [Timer -> Nat]
            /\ owed \in [Timer -> Nat]
        BY <1>0 DEF TypeInv
      <4>3. isActive' \in [Timer -> BOOLEAN]
        BY <4>1, <4>2
      <4>4. remaining' \in [Timer -> Nat] /\ owed' \in [Timer -> Nat]
        BY <4>1, <4>2
      <4>5. \A u \in Timer : remaining'[u] <= remaining[u]
        BY <4>1, <4>2
      <4>. QED  BY <4>3, <4>4, <4>5
    <3>. QED  BY <3>1, <3>2
  <2>2. \A u \in Timer : remaining'[u] <= xTimerPeriodInTicks'[u]
    <3>. SUFFICES ASSUME NEW u \in Timer PROVE remaining'[u] <= xTimerPeriodInTicks[u]
      BY <1>1
    <3>. QED  BY <1>0, <2>1, PeriodBounds, Widths DEF TypeInv
  <2>. QED  BY <1>0, <1>1, <1>5, <2>1, <2>2 DEF TypeInv
<1>8. QueueInv'
  <2>1. \A u \in Timer : isActive'[u] => isActive[u]
    <3>1. CASE auto
      BY <1>1, <3>1
    <3>2. CASE ~auto
      BY <1>0, <1>1, <3>2 DEF TypeInv
    <3>. QED  BY <3>1, <3>2
  <2>. QED  BY <1>1, <1>a, <2>1, CommandsAlone
<1>9. DaemonInv'
  <2>1. t # received'.timer
    BY <1>3, <1>a
  <2>2. daemon'.step \in {"reload", "callback"} /\ daemon'.timer \in Timer
    BY <1>t, <1>a
  <2>3. received' # NoMessage <=> daemon'.caller = "command"
    BY <1>0, <1>a DEF DaemonInv
  <2>4. daemon'.caller = "command" => Switching'
    BY <1>3, <1>a, <1>b, <1>2
  <2>. QED  BY <1>a, <2>1, <2>2, <2>3, <2>4 DEF DaemonInv, At
<1>10. ClockInv'
  <2>1. UNCHANGED <<xTickCount, xLastTime, stall>> /\ daemon'.step \in {"reload", "callback"}
    BY <1>1, <1>a
  <2>2. ~NoneListed
    BY DEF NoneListed
  <2>3. Switching => Minus(xTickCount, daemon.xTimeNow) = stall
    BY <1>0 DEF ClockInv
  <2>4. ~Switching => /\ Minus(xTickCount, xLastTime) = stall
                      /\ Minus(xTickCount, xLastTime) <= portMAX_DELAY - MaxStall + stall
    BY <1>0, <1>2, <1>3, <2>2 DEF ClockInv, At
  <2>5. received # NoMessage => received.age >= stall
    BY <1>0, <1>2 DEF ClockInv, At
  <2>6. Switching' <=> Switching
    BY <1>3, <1>b
  <2>. QED  BY <1>3, <1>a, <2>1, <2>3, <2>4, <2>5, <2>6 DEF ClockInv, At
<1>l. \A u : /\ InCurrent(u)' <=> InCurrent(u) /\ u # t
             /\ InOverflow(u)' <=> InOverflow(u)
  BY <1>1, <1>t DEF InCurrent, InOverflow
<1>u. ASSUME NEW u \in Timer, u # t
      PROVE  ~Reloading(u) /\ ~Calling(u) /\ ~Reloading(u)' /\ ~Calling(u)'
  BY <1>3, <1>a, <1>u, TimersAssumption DEF Reloading, Calling
<1>11. ListInv'
  <2>1. /\ pxCurrentTimerList' \in Seq(Timer) /\ pxOverflowTimerList' \in Seq(Timer)
        /\ IsInjective(pxCurrentTimerList') /\ IsInjective(pxOverflowTimerList')
        /\ ToSet(pxCurrentTimerList') \cap ToSet(pxOverflowTimerList') = {}
        /\ Sorted(pxCurrentTimerList', xItemValue') /\ Sorted(pxOverflowTimerList', xItemValue')
    BY <1>0, <1>1, <1>t DEF ListInv
  <2>2. \A u \in Timer : OnList(u)' => u # received'.timer /\ ~Reloading(u)'
    BY <1>0, <1>a, <1>l, <1>u, <1>t DEF ListInv, OnList
  <2>3. ASSUME NEW u \in Timer, u # received'.timer
        PROVE  isActive'[u] <=> OnList(u)' \/ Reloading(u)'
    <3>1. CASE u # t
      <4>1. isActive'[u] = isActive[u]
        BY <1>0, <1>1, <3>1 DEF TypeInv
      <4>2. isActive[u] <=> OnList(u) \/ Reloading(u)
        BY <1>0, <1>a, <2>3 DEF ListInv
      <4>. QED  BY <1>l, <1>u, <3>1, <4>1, <4>2 DEF OnList
    <3>2. CASE u = t
      <4>1. ~OnList(t)'
        BY <1>l, <1>t DEF OnList
      <4>2. isActive[t]
        BY <1>0, <1>3, <1>t DEF ListInv, OnList
      <4>3. isActive'[t] = auto
        <5>1. auto \in BOOLEAN
          BY <1>0, <1>t DEF TypeInv
        <5>2. CASE auto
          BY <1>0, <1>1, <1>t, <4>2, <5>1, <5>2 DEF TypeInv
        <5>3. CASE ~auto
          BY <1>0, <1>1, <1>t, <5>1, <5>3 DEF TypeInv
        <5>. QED  BY <5>1, <5>2, <5>3
      <4>. QED  BY <1>b, <3>2, <4>1, <4>3
    <3>. QED  BY <3>1, <3>2
  <2>. QED  BY <2>1, <2>2, <2>3 DEF ListInv
<1>12. DueInv'
  <2>1. ~OnList(t)'
    BY <1>l, <1>t DEF OnList
  <2>2. ASSUME auto PROVE TimerDue(t)'
    <3>1. Unhandled(t)' = Unhandled(t) /\ DueIn(t)' = DueIn(t) /\ remaining'[t] = remaining[t]
      BY <1>1, <1>3, <1>b, <2>2 DEF Unhandled, DueIn
    <3>2. until - Minus(until, expired) = expired
      BY <1>4, Widths DEF Minus
    <3>3. until = IF Switching' THEN portMAX_DELAY ELSE xLastTime'
      BY <1>1, <1>b
    <3>. QED  BY <1>6, <1>a, <1>b, <1>c, <2>1, <2>2, <3>1, <3>2, <3>3 DEF TimerDue
  <2>3. ASSUME ~auto PROVE TimerDue(t)'
    <3>1. remaining'[t] = 0 /\ owed'[t] = 1
      BY <1>0, <1>1, <1>6, <1>t, <2>3 DEF TypeInv
    <3>2. Unhandled(t)' = 0
      BY <1>b, <2>3, <3>1 DEF Unhandled
    <3>. QED  BY <1>b, <2>1, <2>3, <3>1, <3>2 DEF TimerDue, Dormant
  <2>4. TimerDue(t)'
    BY <2>2, <2>3, Zenon
  <2>5. \A u \in Timer : u # t =>
           /\ xItemValue'[u] = xItemValue[u] /\ xTimerPeriodInTicks'[u] = xTimerPeriodInTicks[u]
           /\ remaining'[u] = remaining[u] /\ owed'[u] = owed[u]
    <3>1. CASE auto
      BY <1>1, <3>1
    <3>2. CASE ~auto
      BY <1>0, <1>1, <3>2 DEF TypeInv
    <3>. QED  BY <3>1, <3>2
  <2>6. \A u \in Timer : u # t => InCurrent(u)' = InCurrent(u) /\ InOverflow(u)' = InOverflow(u)
    BY <1>l DEF InCurrent, InOverflow
  <2>. QED  BY <1>a, <1>c, <1>t, <1>u, <2>4, <2>5, <2>6, OneTimerMoves
<1>13. SleepInv'
  BY <1>a DEF SleepInv, At
<1>. QED  BY <1>7, <1>8, <1>9, <1>10, <1>11, <1>12, <1>13 DEF TimersInv

LEMMA SwitchExpiredKeeps ==
  ASSUME TimersInv, SwitchExpired
  PROVE  TimersInv'
<1>. DEFINE t == Head(pxCurrentTimerList)
<1>1. /\ At("switch") /\ pxCurrentTimerList # <<>>
      /\ ProcessExpiredTimer(xItemValue[t], portMAX_DELAY, "switch")
  BY DEF SwitchExpired, TimeBeforeWrap
<1>2. t \in Timer /\ InCurrent(t)
  BY <1>1, HeadAndRest DEF TimersInv, ListInv, InCurrent
<1>3. xItemValue[t] \in Ticks /\ daemon.xTimeNow \in Ticks /\ stall \in Nat /\ TypeInv
  <2>1. TypeInv
    BY DEF TimersInv
  <2>2. daemon.xTimeNow \in Ticks /\ stall \in 0 .. MaxStall
    BY <2>1, ClockTypes
  <2>3. stall \in Nat
    BY <2>2
  <2>. HIDE DEF t
  <2>4. xItemValue \in [Timer -> Ticks]
    BY <2>1 DEF TypeInv
  <2>5. xItemValue[t] \in Ticks
    BY <1>2, <2>4
  <2>. QED  BY <2>1, <2>2, <2>3, <2>5
<1>. HIDE DEF t
<1>4. xItemValue[t] = xNow + DueIn(t)
  BY <1>2 DEF TimersInv, DueInv, TimerDue, OnList, ExpiresAt
<1>5. xNow = TickRange + daemon.xTimeNow + stall
  BY <1>1 DEF xNow, Switching
<1>6. DueIn(t) \in Int
  BY <1>1, <1>2, <1>3, DueWithinPeriod DEF Calling, At
<1>7. DueIn(t) <= 0 /\ xItemValue[t] <= portMAX_DELAY
  BY <1>3, <1>4, <1>5, <1>6, Widths
<1>. QED  BY <1>1, <1>7, ExpiredKeeps DEF t

LEMMA ExpireNextKeeps ==
  ASSUME TimersInv, ExpireNext
  PROVE  TimersInv'
<1>. DEFINE t == Head(pxCurrentTimerList)
<1>1. /\ At("decide") /\ ~daemon.xListWasEmpty /\ daemon.xNextExpireTime <= daemon.xTimeNow
      /\ ProcessExpiredTimer(daemon.xNextExpireTime, daemon.xTimeNow, "commands")
  BY DEF ExpireNext, Expired
<1>2. /\ daemon.xListWasEmpty = (pxCurrentTimerList = <<>>)
      /\ daemon.xNextExpireTime = IF pxCurrentTimerList = <<>> THEN 0 ELSE xItemValue[t]
      /\ daemon.xTimeNow = xLastTime /\ Minus(xTickCount, xLastTime) = 0 /\ ~Switching
  BY <1>1 DEF TimersInv, DaemonInv, ClockInv, Switching, At
<1>3. pxCurrentTimerList # <<>> /\ daemon.xNextExpireTime = xItemValue[t]
  BY <1>1, <1>2
<1>4. t \in Timer /\ InCurrent(t)
  BY <1>3, HeadAndRest DEF TimersInv, ListInv, InCurrent
<1>5. xItemValue[t] \in Ticks /\ xLastTime \in Ticks /\ TypeInv
  BY <1>4 DEF TimersInv, TypeInv
<1>. HIDE DEF t
<1>6. xItemValue[t] = xNow + DueIn(t)
  BY <1>4 DEF TimersInv, DueInv, TimerDue, OnList, ExpiresAt
<1>7. xNow = xLastTime
  BY <1>2, <1>5, Widths DEF xNow
<1>8. DueIn(t) \in Int
  BY <1>1, <1>4, <1>5, DueWithinPeriod DEF Calling, At
<1>9. DueIn(t) <= 0 /\ xItemValue[t] <= xLastTime
  BY <1>1, <1>2, <1>3, <1>5, <1>6, <1>7, <1>8, Widths
<1>. QED  BY <1>1, <1>2, <1>3, <1>9, ExpiredKeeps DEF t

\* prvSwitchTimerLists, once everything on the current list has expired: the
\* clock and the items go back by one turn of the count together.
LEMMA SwitchTimerListsKeeps ==
  ASSUME TimersInv, SwitchTimerLists
  PROVE  TimersInv'
<1>0. TypeInv /\ QueueInv /\ DaemonInv /\ ClockInv /\ ListInv /\ DueInv /\ SleepInv
  BY DEF TimersInv
<1>1. /\ daemon.step = "switch" /\ pxCurrentTimerList = <<>>
      /\ pxCurrentTimerList' = pxOverflowTimerList /\ pxOverflowTimerList' = <<>>
      /\ xLastTime' = daemon.xTimeNow
      /\ daemon' = IF daemon.caller = "block" THEN Fresh("commands")
                   ELSE [Fresh("apply") EXCEPT !.xTimeNow = daemon.xTimeNow, !.caller = "command",
                                               !.message = received]
      /\ UNCHANGED <<clockVars, xItemValue, timerVars, xTimerQueue>>
  BY DEF SwitchTimerLists, At
<1>2. /\ Switching /\ daemon.timer = NoTimer /\ Minus(xTickCount, daemon.xTimeNow) = stall
      /\ received # NoMessage <=> daemon.caller = "command"
      /\ daemon.caller \in {"block", "command"} /\ daemon.xTimeNow \in Ticks
      /\ received # NoMessage => received.age >= stall
      /\ received \in Message \cup {NoMessage}
  BY <1>0, <1>1, Messages DEF DaemonInv, TypeInv, Daemon, Switching, At, ClockInv
<1>3. daemon' \in Daemon
  <2>1. Fresh("commands") \in Daemon /\ Fresh("apply") \in Daemon
    BY Widths DEF Daemon, Steps, Forever, Fresh
  <2>2. CASE daemon.caller = "block"
    BY <1>1, <2>1, <2>2
  <2>3. CASE daemon.caller # "block"
    BY <1>1, <1>2, <2>1, <2>3 DEF Daemon
  <2>. QED  BY <2>2, <2>3
<1>a. /\ daemon'.step = IF daemon.caller = "block" THEN "commands" ELSE "apply"
      /\ daemon'.caller = daemon.caller /\ received' = received
      /\ daemon'.timer = NoTimer /\ daemon'.after = "commands"
      /\ daemon.caller # "block" => daemon'.xTimeNow = daemon.xTimeNow
  <2>1. CASE daemon.caller = "block"
    BY <1>1, <1>2, <2>1 DEF Fresh, received
  <2>2. CASE daemon.caller # "block"
    BY <1>1, <1>2, <2>2 DEF Fresh, received
  <2>. QED  BY <2>1, <2>2
<1>b. daemon'.step \in {"commands", "apply"} /\ ~Switching'
  BY <1>a DEF Switching, At
<1>c. xNow \in Int /\ xNow' = xNow - TickRange
  <2>1. xNow = TickRange + daemon.xTimeNow + stall
    BY <1>2 DEF xNow
  <2>2. xNow' = daemon.xTimeNow + stall
    BY <1>1, <1>2, <1>b DEF xNow, clockVars
  <2>3. stall \in Int
    BY <1>0, Widths DEF TypeInv
  <2>. QED  BY <1>2, <2>1, <2>2, <2>3, Widths
<1>4. TypeInv'
  BY <1>0, <1>1, <1>2, <1>3 DEF TypeInv, clockVars, timerVars
<1>5. QueueInv'
  BY <1>1, <1>a, CommandsAlone DEF clockVars, timerVars
<1>6. DaemonInv'
  <2>1. daemon'.timer \notin Timer
    BY <1>a, TimersAssumption
  <2>. QED  BY <1>2, <1>a, <1>b, <2>1 DEF DaemonInv, At
<1>7. ClockInv'
  <2>1. Minus(xTickCount', xLastTime') = stall' /\ xTickCount' = xTickCount /\ stall' = stall
        /\ stall \in 0 .. MaxStall
    BY <1>0, <1>1, <1>2 DEF clockVars, TypeInv
  <2>2. ~NoneListed' => stall <= portMAX_DELAY - MaxStall + stall
    <3>1. ~NoneListed' => ~NoneListed
      BY <1>1 DEF NoneListed
    <3>. QED  BY <1>0, <2>1, <3>1, Widths
  <2>. QED  BY <1>1, <1>2, <1>a, <1>b, <2>1, <2>2 DEF ClockInv, At
<1>l. \A u : /\ ~InCurrent(u) /\ ~InOverflow(u)' /\ (InCurrent(u)' <=> InOverflow(u))
             /\ ~Reloading(u) /\ ~Calling(u) /\ ~Reloading(u)' /\ ~Calling(u)'
  BY <1>1, <1>b, EmptySet DEF InCurrent, InOverflow, Reloading, Calling, At
<1>8. ListInv'
  <2>1. pxOverflowTimerList' \in Seq(Timer) /\ Sorted(pxOverflowTimerList', xItemValue')
    BY <1>1 DEF Sorted
  <2>2. IsInjective(pxOverflowTimerList') /\ ToSet(pxOverflowTimerList') = {}
    BY <1>1, EmptySet
  <2>3. xItemValue' = xItemValue /\ isActive' = isActive
    BY <1>1 DEF timerVars
  <2>4. \A u : OnList(u)' <=> OnList(u)
    BY <1>l DEF OnList
  <2>. QED  BY <1>0, <1>1, <1>a, <1>l, <2>1, <2>2, <2>3, <2>4 DEF ListInv
<1>9. DueInv'
  <2>. SUFFICES ASSUME NEW u \in Timer PROVE TimerDue(u)'
    BY DEF DueInv
  <2>1. /\ UNCHANGED xItemValue /\ UNCHANGED remaining /\ UNCHANGED owed
        /\ UNCHANGED xTimerPeriodInTicks
    BY <1>1 DEF clockVars, timerVars
  <2>2. /\ OnList(u)' <=> OnList(u)
        /\ Unhandled(u)' = Unhandled(u) /\ DueIn(u)' = DueIn(u)
    BY <1>l, <2>1 DEF OnList, Unhandled, DueIn
  <2>3. OnList(u) => ExpiresAt(u)' = ExpiresAt(u) - TickRange
    <3>1. xItemValue[u] \in Int
      BY <1>0, Widths DEF TypeInv
    <3>. QED  BY <1>l, <2>1, <3>1, Widths DEF OnList, ExpiresAt
  <2>4. TimerDue(u) /\ DueIn(u) \in Int
    BY <1>0, <1>l, DueWithinPeriod DEF DueInv
  <2>5. OnList(u) => ExpiresAt(u)' = xNow' + DueIn(u)
    BY <1>c, <2>3, <2>4, Widths DEF TimerDue
  <2>. QED  BY <1>a, <1>l, <2>1, <2>2, <2>4, <2>5 DEF TimerDue
<1>10. SleepInv'
  BY <1>b DEF SleepInv, At
<1>. QED  BY <1>4, <1>5, <1>6, <1>7, <1>8, <1>9, <1>10 DEF TimersInv

\* The callback is called for the expiry that it was about to be called for.
LEMMA CallbackKeeps ==
  ASSUME TimersInv, Callback
  PROVE  TimersInv'
<1>0. TypeInv /\ QueueInv /\ DaemonInv /\ ClockInv /\ ListInv /\ DueInv /\ SleepInv
  BY DEF TimersInv
<1>h. PICK t : t = daemon.timer
  OBVIOUS
<1>1. /\ daemon.step = "callback"
      /\ owed' = [owed EXCEPT ![t] = @ - 1]
      /\ daemon' = IF daemon.after = "commands" THEN Fresh("commands")
                   ELSE [daemon EXCEPT !.step = "switch", !.timer = NoTimer, !.xExpiredTime = 0,
                                       !.until = 0, !.after = "commands"]
      /\ UNCHANGED <<xTickCount, remaining, stall, listVars, timerVars, xTimerQueue, xLastTime>>
  BY <1>h DEF Callback, At
<1>2. /\ t \in Timer /\ Calling(t) /\ ~Reloading(t) /\ daemon.after \in {"switch", "commands"}
      /\ owed[t] > 0 /\ daemon \in Daemon
      /\ Switching <=> daemon.after = "switch"
      /\ daemon.after = "commands" => received = NoMessage /\ daemon.caller = "block"
      /\ received # NoMessage <=> daemon.caller = "command"
  BY <1>0, <1>1, <1>h
     DEF DaemonInv, TypeInv, Daemon, Switching, At, Calling, Reloading, DueInv, TimerDue
<1>3. daemon' \in Daemon
  <2>1. Fresh("commands") \in Daemon
    BY Widths DEF Daemon, Steps, Forever, Fresh
  <2>2. CASE daemon.after = "commands"
    BY <1>1, <2>1, <2>2
  <2>3. CASE daemon.after # "commands"
    <3>1. daemon' = [daemon EXCEPT !.step = "switch", !.timer = NoTimer, !.xExpiredTime = 0,
                                   !.until = 0, !.after = "commands"]
      BY <1>1, <2>3
    <3>2. "switch" \in Steps /\ 0 \in Ticks /\ daemon \in Daemon
      BY <1>2, Widths DEF Steps
    <3>. QED  BY <3>1, <3>2 DEF Daemon
  <2>. QED  BY <2>2, <2>3
<1>a. /\ daemon'.step = IF daemon.after = "commands" THEN "commands" ELSE "switch"
      /\ daemon'.caller = daemon.caller /\ received' = received
      /\ daemon'.timer = NoTimer /\ daemon'.after = "commands"
      /\ daemon.after # "commands" => daemon'.xTimeNow = daemon.xTimeNow
  <2>1. CASE daemon.after = "commands"
    BY <1>1, <1>2, <2>1 DEF Fresh, received
  <2>2. CASE daemon.after # "commands"
    BY <1>1, <1>2, <2>2 DEF Daemon, received
  <2>. QED  BY <2>1, <2>2
<1>b. daemon'.step \in {"commands", "switch"} /\ (Switching' <=> Switching)
  BY <1>2, <1>a DEF Switching, At
<1>c. xNow' = xNow
  <2>1. xTickCount' = xTickCount /\ xLastTime' = xLastTime /\ stall' = stall
    BY <1>1
  <2>2. Switching => daemon'.xTimeNow = daemon.xTimeNow
    BY <1>2, <1>a
  <2>. QED  BY <1>b, <2>1, <2>2 DEF xNow
<1>4. TypeInv'
  <2>1. owed' \in [Timer -> Nat]
    BY <1>0, <1>1, <1>2 DEF TypeInv
  <2>. QED  BY <1>0, <1>1, <1>3, <2>1 DEF TypeInv, listVars, timerVars
<1>5. QueueInv'
  BY <1>1, <1>a, CommandsAlone DEF timerVars
<1>6. DaemonInv'
  <2>1. daemon'.timer \notin Timer
    BY <1>a, TimersAssumption
  <2>2. daemon'.caller = "command" => Switching'
    BY <1>2, <1>a, <1>b
  <2>. QED  BY <1>2, <1>a, <1>b, <2>1, <2>2 DEF DaemonInv, At
<1>7. ClockInv'
  <2>1. UNCHANGED <<xTickCount, xLastTime, stall>> /\ NoneListed' = NoneListed
    BY <1>1 DEF NoneListed, listVars
  <2>2. Switching => Minus(xTickCount, daemon.xTimeNow) = stall /\ daemon'.xTimeNow = daemon.xTimeNow
    BY <1>0, <1>2, <1>a DEF ClockInv
  <2>3. ~NoneListed /\ ~Switching => Minus(xTickCount, xLastTime) <= portMAX_DELAY - MaxStall + stall
    BY <1>0, <1>1 DEF ClockInv, At
  <2>4. received # NoMessage => received.age >= stall
    BY <1>0, <1>1 DEF ClockInv, At
  <2>. QED  BY <1>a, <1>b, <2>1, <2>2, <2>3, <2>4 DEF ClockInv, At
<1>u. \A u : ~Reloading(u) /\ ~Reloading(u)' /\ ~Calling(u)' /\ (u # t => ~Calling(u))
  BY <1>1, <1>b, <1>h DEF Reloading, Calling, At
<1>8. ListInv'
  BY <1>0, <1>1, <1>a, <1>u
     DEF ListInv, OnList, InCurrent, InOverflow, listVars, timerVars, Sorted
<1>9. DueInv'
  <2>1. UNCHANGED remaining /\ UNCHANGED listVars /\ UNCHANGED xTimerPeriodInTicks
    BY <1>1 DEF timerVars
  <2>2. \A u : /\ InCurrent(u)' = InCurrent(u) /\ InOverflow(u)' = InOverflow(u)
               /\ OnList(u)' = OnList(u) /\ ExpiresAt(u)' = ExpiresAt(u)
    BY <2>1 DEF InCurrent, InOverflow, OnList, ExpiresAt, listVars
  <2>3. Unhandled(t)' = Unhandled(t) /\ DueIn(t)' = DueIn(t)
    <3>1. owed'[t] = owed[t] - 1
      BY <1>0, <1>1, <1>2 DEF TypeInv
    <3>2. Unhandled(t) = owed[t] - 1 /\ Unhandled(t)' = owed'[t]
      BY <1>2, <1>u DEF Unhandled
    <3>. QED  BY <2>1, <3>1, <3>2 DEF DueIn
  <2>4. TimerDue(t)
    BY <1>0, <1>2 DEF DueInv
  <2>5. TimerDue(t)'
    BY <1>a, <1>c, <1>u, <2>1, <2>2, <2>3, <2>4 DEF TimerDue
  <2>6. \A u \in Timer : u # t => owed'[u] = owed[u]
    BY <1>0, <1>1 DEF TypeInv
  <2>. QED  BY <1>2, <1>a, <1>c, <1>u, <2>1, <2>2, <2>5, <2>6, OneTimerMoves DEF listVars
<1>10. SleepInv'
  BY <1>b DEF SleepInv, At
<1>. QED  BY <1>4, <1>5, <1>6, <1>7, <1>8, <1>9, <1>10 DEF TimersInv

-----------------------------------------------------------------------------
(* The commands. *)

\* vListInsert, of a timer that is on no list, on one of them or on none.
LEMMA InsertKeeps ==
  ASSUME TypeInv, ListInv, NEW t \in Timer, ~OnList(t), NEW next \in Ticks,
         NEW where \in {"now", "current", "overflow"}, Insert(t, next, where)
  PROVE  /\ xItemValue' \in [Timer -> Ticks] /\ xItemValue'[t] = next
         /\ \A u \in Timer : u # t => xItemValue'[u] = xItemValue[u]
         /\ pxCurrentTimerList' \in Seq(Timer) /\ pxOverflowTimerList' \in Seq(Timer)
         /\ IsInjective(pxCurrentTimerList') /\ IsInjective(pxOverflowTimerList')
         /\ ToSet(pxCurrentTimerList') \cap ToSet(pxOverflowTimerList') = {}
         /\ Sorted(pxCurrentTimerList', xItemValue') /\ Sorted(pxOverflowTimerList', xItemValue')
         /\ \A u \in Timer : /\ InCurrent(u)' <=> InCurrent(u) \/ (u = t /\ where = "current")
                             /\ InOverflow(u)' <=> InOverflow(u) \/ (u = t /\ where = "overflow")
<1>. DEFINE c == pxCurrentTimerList
            o == pxOverflowTimerList
            v == xItemValue'
<1>1. /\ v = [xItemValue EXCEPT ![t] = next]
      /\ pxCurrentTimerList' = IF where = "current" THEN vListInsert(c, t, v) ELSE c
      /\ pxOverflowTimerList' = IF where = "overflow" THEN vListInsert(o, t, v) ELSE o
  BY DEF Insert
<1>2. v \in [Timer -> Ticks] /\ v[t] = next /\ \A u \in Timer : u # t => v[u] = xItemValue[u]
  BY <1>1 DEF TypeInv
<1>3. v \in [Timer -> Int]
  BY <1>2, Widths
<1>4. /\ c \in Seq(Timer) /\ o \in Seq(Timer) /\ IsInjective(c) /\ IsInjective(o)
      /\ ToSet(c) \cap ToSet(o) = {} /\ t \notin ToSet(c) /\ t \notin ToSet(o)
      /\ Sorted(c, xItemValue) /\ Sorted(o, xItemValue)
  BY DEF ListInv, OnList, InCurrent, InOverflow
<1>5. Sorted(c, v) /\ Sorted(o, v)
  <2>1. \A u \in ToSet(c) : v[u] = xItemValue[u]
    BY <1>2, <1>4, Members
  <2>2. \A u \in ToSet(o) : v[u] = xItemValue[u]
    BY <1>2, <1>4, Members
  <2>. QED  BY <1>4, <2>1, <2>2, SortedByOwn
<1>. HIDE DEF c, o, v
<1>6. /\ vListInsert(c, t, v) \in Seq(Timer) /\ ToSet(vListInsert(c, t, v)) = ToSet(c) \cup {t}
      /\ IsInjective(vListInsert(c, t, v)) /\ Sorted(vListInsert(c, t, v), v)
  BY <1>3, <1>4, <1>5, InsertSet, InsertSorted
<1>7. /\ vListInsert(o, t, v) \in Seq(Timer) /\ ToSet(vListInsert(o, t, v)) = ToSet(o) \cup {t}
      /\ IsInjective(vListInsert(o, t, v)) /\ Sorted(vListInsert(o, t, v), v)
  BY <1>3, <1>4, <1>5, InsertSet, InsertSorted
<1>8. /\ pxCurrentTimerList' \in Seq(Timer) /\ IsInjective(pxCurrentTimerList')
      /\ Sorted(pxCurrentTimerList', v)
      /\ ToSet(pxCurrentTimerList') = IF where = "current" THEN ToSet(c) \cup {t} ELSE ToSet(c)
  BY <1>1, <1>4, <1>5, <1>6
<1>9. /\ pxOverflowTimerList' \in Seq(Timer) /\ IsInjective(pxOverflowTimerList')
      /\ Sorted(pxOverflowTimerList', v)
      /\ ToSet(pxOverflowTimerList') = IF where = "overflow" THEN ToSet(o) \cup {t} ELSE ToSet(o)
  BY <1>1, <1>4, <1>5, <1>7
<1>10. ToSet(pxCurrentTimerList') \cap ToSet(pxOverflowTimerList') = {}
  BY <1>4, <1>8, <1>9
<1>11. \A u \in Timer : /\ InCurrent(u)' <=> InCurrent(u) \/ (u = t /\ where = "current")
                        /\ InOverflow(u)' <=> InOverflow(u) \/ (u = t /\ where = "overflow")
  BY <1>8, <1>9 DEF InCurrent, InOverflow, c, o
<1>. QED  BY <1>2, <1>8, <1>9, <1>10, <1>11 DEF v

\* The command that is received takes its timer off its list; what the timer
\* owes is for the command to say.
LEMMA ReceiveCommandKeeps ==
  ASSUME TimersInv, ReceiveCommand
  PROVE  TimersInv'
<1>0. TypeInv /\ QueueInv /\ DaemonInv /\ ClockInv /\ ListInv /\ DueInv /\ SleepInv
  BY DEF TimersInv
<1>h. PICK m, t : m = Head(xTimerQueue) /\ t = m.timer
  OBVIOUS
<1>1. /\ daemon.step = "commands" /\ xTimerQueue # <<>>
      /\ pxCurrentTimerList' = Without(pxCurrentTimerList, t)
      /\ pxOverflowTimerList' = Without(pxOverflowTimerList, t)
      /\ daemon' = [Fresh("sample") EXCEPT !.caller = "command", !.message = m]
      /\ xTimerQueue' = Tail(xTimerQueue)
      /\ UNCHANGED <<clockVars, xItemValue, timerVars, xLastTime>>
  BY <1>h DEF ReceiveCommand, At, Unlisted
<1>2. ~Switching /\ received = NoMessage /\ daemon.timer \notin Timer /\ received.timer = NoTimer
      /\ NoTimer \notin Timer
  BY <1>0, <1>1, TimersAssumption DEF DaemonInv, Switching, At, NoMessage
<1>. DEFINE q == xTimerQueue
            n == Len(q)
<1>q. /\ m \in Message /\ t \in Timer /\ m = q[1] /\ n \in Nat /\ n > 0
      /\ xTimerQueue' \in Seq(Message) /\ Len(xTimerQueue') = n - 1
      /\ \A i \in 1 .. n - 1 : xTimerQueue'[i] = q[i + 1]
      /\ DOMAIN xTimerQueue' = 1 .. n - 1 /\ DOMAIN q = 1 .. n
      /\ m # NoMessage
  <2>1. q \in Seq(Message) /\ q # <<>>
    BY <1>0, <1>1 DEF QueueInv
  <2>2. m \in Message /\ m = q[1] /\ xTimerQueue' \in Seq(Message) /\ Len(xTimerQueue') = n - 1
        /\ n \in Nat /\ n > 0 /\ \A i \in 1 .. n - 1 : xTimerQueue'[i] = q[i + 1]
    BY <1>1, <1>h, <2>1, HeadTailProperties
  <2>3. t \in Timer /\ m # NoMessage
    BY <1>0, <1>h, <2>2, Messages DEF Message
  <2>. QED  BY <2>1, <2>2, <2>3
<1>a. /\ daemon'.step = "sample" /\ daemon'.caller = "command" /\ received' = m
      /\ daemon'.timer = NoTimer /\ daemon'.after = "commands" /\ ~Switching'
  BY <1>1 DEF Fresh, received, Switching, At
<1>c. xNow' = xNow
  BY <1>1, <1>2, <1>a DEF xNow, clockVars
<1>l. /\ pxCurrentTimerList' \in Seq(Timer) /\ pxOverflowTimerList' \in Seq(Timer)
      /\ IsInjective(pxCurrentTimerList') /\ IsInjective(pxOverflowTimerList')
      /\ ToSet(pxCurrentTimerList') = ToSet(pxCurrentTimerList) \ {t}
      /\ ToSet(pxOverflowTimerList') = ToSet(pxOverflowTimerList) \ {t}
      /\ Sorted(pxCurrentTimerList', xItemValue) /\ Sorted(pxOverflowTimerList', xItemValue)
  BY <1>0, <1>1, WithoutSet, WithoutSorted DEF ListInv
<1>m. \A u : /\ InCurrent(u)' <=> InCurrent(u) /\ u # t
             /\ InOverflow(u)' <=> InOverflow(u) /\ u # t
             /\ ~Reloading(u) /\ ~Calling(u) /\ ~Reloading(u)' /\ ~Calling(u)'
  BY <1>1, <1>a, <1>l DEF InCurrent, InOverflow, Reloading, Calling, At
<1>4. TypeInv'
  <2>1. daemon' \in Daemon
    <3>. Fresh("sample") \in Daemon
      BY Widths DEF Daemon, Steps, Forever, Fresh
    <3>. QED  BY <1>1, <1>q DEF Daemon
  <2>. QED  BY <1>0, <1>1, <2>1 DEF TypeInv, clockVars, timerVars
<1>5. QueueInv'
  <2>1. xTickCount' = xTickCount /\ exists' = exists /\ isActive' = isActive
    BY <1>1 DEF clockVars, timerVars
  <2>2. \A i \in 1 .. n : Pending(q[i], xTickCount, exists)
    BY <1>0, <1>q DEF QueueInv
  <2>3. \A i, j \in 1 .. n : i < j /\ q[i].command = "delete" => q[j].timer # q[i].timer
    BY <1>0, <1>q DEF QueueInv
  <2>4. \A i \in 1 .. n - 1 : i + 1 \in 1 .. n /\ xTimerQueue'[i] = q[i + 1] /\ 1 < i + 1 /\ 1 \in 1 .. n
    BY <1>q
  <2>5. \A i \in 1 .. n - 1 : Pending(xTimerQueue'[i], xTickCount', exists')
    BY <2>1, <2>2, <2>4
  <2>6. Pending(m, xTickCount', exists')
    BY <1>q, <2>1, <2>2
  <2>7. ASSUME NEW i \in 1 .. n - 1, NEW j \in 1 .. n - 1, i < j, xTimerQueue'[i].command = "delete"
        PROVE  xTimerQueue'[j].timer # xTimerQueue'[i].timer
    <3>1. i + 1 < j + 1
      BY <2>7
    <3>. QED  BY <2>3, <2>4, <2>7, <3>1
  <2>8. m.command = "delete" => \A j \in 1 .. n - 1 : xTimerQueue'[j].timer # m.timer
    BY <1>q, <2>3, <2>4
  <2>9. ASSUME NEW u \in Timer, ~exists[u]
        PROVE  \/ \E i \in 1 .. n - 1 : xTimerQueue'[i].timer = u /\ xTimerQueue'[i].command = "delete"
               \/ m.timer = u /\ m.command = "delete"
               \/ Silent(u)' /\ ~isActive[u]
    <3>1. \/ \E i \in 1 .. n : q[i].timer = u /\ q[i].command = "delete"
          \/ Silent(u) /\ ~isActive[u]
      BY <1>0, <1>2, <1>q, <2>9 DEF QueueInv
    <3>2. ASSUME NEW i \in 1 .. n, q[i].timer = u, q[i].command = "delete"
          PROVE  \/ \E k \in 1 .. n - 1 : xTimerQueue'[k].timer = u /\ xTimerQueue'[k].command = "delete"
                 \/ m.timer = u /\ m.command = "delete"
      <4>1. CASE i = 1
        BY <1>q, <3>2, <4>1
      <4>2. CASE i # 1
        <5>1. i - 1 \in 1 .. n - 1 /\ xTimerQueue'[i - 1] = q[i]
          BY <1>q, <4>2
        <5>. QED  BY <3>2, <5>1
      <4>. QED  BY <4>1, <4>2
    <3>3. Silent(u) => Silent(u)'
      <4>. SUFFICES ASSUME Silent(u) PROVE Silent(u)'
        OBVIOUS
      <4>1. \A i \in 1 .. n : q[i].timer # u
        BY <1>q DEF Silent
      <4>2. m.timer # u
        BY <1>q, <4>1
      <4>. QED  BY <1>a, <1>q, <2>4, <4>1, <4>2 DEF Silent
    <3>. QED  BY <3>1, <3>2, <3>3
  <2>10. Len(xTimerQueue') <= QueueLength
    BY <1>0, <1>q, TimersAssumption DEF QueueInv
  <2>. QED  BY <1>a, <1>q, <2>1, <2>5, <2>6, <2>7, <2>8, <2>9, <2>10 DEF QueueInv
<1>6. DaemonInv'
  BY <1>2, <1>a, <1>q DEF DaemonInv, At
<1>7. ClockInv'
  <2>1. xTickCount' = xTickCount /\ xLastTime' = xLastTime /\ stall' = stall
    BY <1>1 DEF clockVars
  <2>2. ~NoneListed' => ~NoneListed
    BY <1>0, <1>1, EmptySet, <1>l, Members DEF NoneListed, ListInv
  <2>3. ~NoneListed => Minus(xTickCount, xLastTime) <= portMAX_DELAY - MaxStall + stall
    BY <1>0, <1>1, <1>2 DEF ClockInv, At
  <2>. QED  BY <1>a, <2>1, <2>2, <2>3, TimersAssumption DEF ClockInv, At
<1>8. ListInv'
  <2>1. xItemValue' = xItemValue /\ isActive' = isActive
    BY <1>1 DEF timerVars
  <2>2. ToSet(pxCurrentTimerList') \cap ToSet(pxOverflowTimerList') = {}
    BY <1>0, <1>l DEF ListInv
  <2>3. \A u \in Timer : OnList(u)' => u # m.timer
    BY <1>h, <1>m DEF OnList
  <2>4. \A u \in Timer : u # t => (isActive[u] <=> OnList(u)' \/ Reloading(u)')
    BY <1>0, <1>2, <1>m DEF ListInv, OnList
  <2>. QED  BY <1>a, <1>h, <1>l, <1>m, <2>1, <2>2, <2>3, <2>4 DEF ListInv
<1>9. DueInv'
  <2>1. TimerDue(t)'
    BY <1>a, <1>h, <1>m DEF TimerDue, OnList
  <2>2. UNCHANGED xItemValue /\ UNCHANGED xTimerPeriodInTicks /\ UNCHANGED remaining /\ UNCHANGED owed
    BY <1>1 DEF clockVars, timerVars
  <2>3. \A u \in Timer : u # t => InCurrent(u)' = InCurrent(u) /\ InOverflow(u)' = InOverflow(u)
    BY <1>m DEF InCurrent, InOverflow
  <2>. QED  BY <1>2, <1>a, <1>c, <1>h, <1>m, <1>q, <2>1, <2>2, <2>3, OneTimerMoves
<1>10. SleepInv'
  BY <1>a DEF SleepInv, At
<1>. QED  BY <1>4, <1>5, <1>6, <1>7, <1>8, <1>9, <1>10 DEF TimersInv

\* What is known when a command is applied: its timer is on no list, and it was
\* sent before the time was sampled.
LEMMA Applying ==
  ASSUME TimersInv, At("apply")
  PROVE  /\ received \in Message /\ received # NoMessage /\ received.timer \in Timer
         /\ daemon.step = "apply" /\ daemon.timer = NoTimer /\ daemon.after = "commands"
         /\ NoTimer \notin Timer /\ ~Switching /\ daemon.xTimeNow = xLastTime
         /\ Minus(xTickCount, xLastTime) = stall /\ stall \in Nat /\ stall <= MaxStall
         /\ xLastTime \in Ticks /\ xTickCount \in Ticks
         /\ xNow = xLastTime + stall /\ xNow \in Int
         /\ ~OnList(received.timer)
         /\ \A u : ~Reloading(u) /\ ~Calling(u)
         /\ Pending(received, xTickCount, exists)
         /\ received.age >= stall /\ received.age \in Nat
<1>1. /\ received # NoMessage /\ daemon.timer = NoTimer /\ daemon.after = "commands" /\ ~Switching
      /\ daemon.xTimeNow = xLastTime /\ Minus(xTickCount, xLastTime) = stall
      /\ received.age >= stall
  BY DEF TimersInv, DaemonInv, TypeInv, Daemon, Switching, At, ClockInv
<1>2. received \in Message /\ received.timer \in Timer /\ NoTimer \notin Timer
  BY <1>1, Messages DEF TimersInv
<1>3. stall \in Nat /\ stall <= MaxStall /\ xLastTime \in Ticks /\ xTickCount \in Ticks
  BY Widths DEF TimersInv, TypeInv
<1>4. xNow = xLastTime + stall
  BY <1>1 DEF xNow
<1>5. ~OnList(received.timer) /\ Pending(received, xTickCount, exists)
  BY <1>1, <1>2 DEF TimersInv, ListInv, QueueInv
<1>6. received.age \in Nat
  BY <1>2, Widths DEF Message
<1>7. \A u : ~Reloading(u) /\ ~Calling(u)
  BY DEF Reloading, Calling, At
<1>8. xNow \in Int
  BY <1>3, <1>4, Widths
<1>. QED  BY <1>1, <1>2, <1>3, <1>4, <1>5, <1>6, <1>7, <1>8 DEF At

\* The command is done with: its timer runs as "isActive" says, and no other
\* is touched.
LEMMA AppliedKeeps ==
  ASSUME TimersInv, At("apply"),
         daemon' \in Daemon, received' = NoMessage, daemon'.caller = "block",
         daemon'.after = "commands", daemon'.step \in {"commands", "reload", "callback"},
         daemon'.timer = IF daemon'.step = "commands" THEN NoTimer ELSE received.timer,
         UNCHANGED xTickCount, UNCHANGED stall, UNCHANGED isAutoReload, UNCHANGED exists,
         UNCHANGED xTimerQueue, UNCHANGED xLastTime,
         xItemValue' \in [Timer -> Ticks], xTimerPeriodInTicks' \in [Timer -> Periods],
         isActive' \in [Timer -> BOOLEAN], remaining' \in [Timer -> Nat], owed' \in [Timer -> Nat],
         \A u \in Timer : u # received.timer =>
           /\ xItemValue'[u] = xItemValue[u] /\ xTimerPeriodInTicks'[u] = xTimerPeriodInTicks[u]
           /\ isActive'[u] = isActive[u] /\ remaining'[u] = remaining[u] /\ owed'[u] = owed[u]
           /\ InCurrent(u)' = InCurrent(u) /\ InOverflow(u)' = InOverflow(u),
         pxCurrentTimerList' \in Seq(Timer), pxOverflowTimerList' \in Seq(Timer),
         IsInjective(pxCurrentTimerList'), IsInjective(pxOverflowTimerList'),
         ToSet(pxCurrentTimerList') \cap ToSet(pxOverflowTimerList') = {},
         Sorted(pxCurrentTimerList', xItemValue'), Sorted(pxOverflowTimerList', xItemValue'),
         NEW t, t = received.timer,
         remaining'[t] <= xTimerPeriodInTicks'[t],
         isActive'[t] <=> OnList(t)' \/ Reloading(t)', OnList(t)' => ~Reloading(t)',
         received.command = "delete" => ~isActive'[t],
         TimerDue(t)'
  PROVE  TimersInv'
<1>0. TypeInv /\ QueueInv /\ DaemonInv /\ ClockInv /\ ListInv /\ DueInv /\ SleepInv
  BY DEF TimersInv
<1>1. /\ received # NoMessage /\ t \in Timer /\ ~Switching /\ NoTimer \notin Timer
      /\ Minus(xTickCount, xLastTime) = stall /\ ~OnList(t)
      /\ \A u : ~Reloading(u) /\ ~Calling(u)
  BY Applying
<1>2. ~Switching' /\ received'.timer = NoTimer /\ received'.command = "stop"
  BY DEF Switching, At, NoMessage
<1>3. xNow' = xNow
  BY <1>1, <1>2 DEF xNow
<1>4. \A u \in Timer : u # t => ~Reloading(u)' /\ ~Calling(u)'
  BY <1>1 DEF Reloading, Calling, At
<1>5. TypeInv'
  <2>1. \A u \in Timer : remaining'[u] <= xTimerPeriodInTicks'[u]
    BY <1>0 DEF TypeInv
  <2>. QED  BY <1>0, <2>1 DEF TypeInv
<1>6. QueueInv'
  <2>1. ASSUME NEW u \in Timer, ~exists[u]
        PROVE  \/ \E i \in DOMAIN xTimerQueue : xTimerQueue[i].timer = u /\ xTimerQueue[i].command = "delete"
               \/ Silent(u)' /\ ~isActive'[u]
    <3>1. \/ \E i \in DOMAIN xTimerQueue : xTimerQueue[i].timer = u /\ xTimerQueue[i].command = "delete"
          \/ received.timer = u /\ received.command = "delete"
          \/ Silent(u) /\ ~isActive[u]
      BY <1>0, <2>1 DEF QueueInv
    <3>2. ASSUME received.timer = u, received.command = "delete"
          PROVE  Silent(u)' /\ ~isActive'[u]
      <4>1. \A j \in DOMAIN xTimerQueue : xTimerQueue[j].timer # u
        BY <1>0, <3>2 DEF QueueInv
      <4>. QED  BY <1>1, <1>2, <3>2, <4>1 DEF Silent
    <3>3. ASSUME Silent(u), ~isActive[u]
          PROVE  Silent(u)' /\ ~isActive'[u]
      <4>1. u # t /\ \A j \in DOMAIN xTimerQueue : xTimerQueue[j].timer # u
        BY <3>3 DEF Silent
      <4>. QED  BY <1>1, <1>2, <3>3, <4>1 DEF Silent
    <3>. QED  BY <3>1, <3>2, <3>3
  <2>. QED  BY <1>0, <1>2, <2>1 DEF QueueInv
<1>7. DaemonInv'
  <2>1. daemon'.timer \in Timer <=> daemon'.step \in {"reload", "callback"}
    BY <1>1
  <2>2. daemon'.timer = received'.timer => daemon'.timer = NoTimer
    BY <1>2
  <2>. QED  BY <2>1, <2>2 DEF DaemonInv, At
<1>8. ClockInv'
  <2>1. ~NoneListed' => stall <= portMAX_DELAY - MaxStall + stall
    <3>1. TypeInv' /\ t \in Timer
      BY <1>1, <1>5
    <3>2. MaxStall < portMAX_DELAY
      BY <1>0, <1>1, PeriodBounds
    <3>. QED  BY <1>0, <3>2, Widths DEF TypeInv
  <2>. QED  BY <1>1, <1>2, <2>1 DEF ClockInv, At
<1>9. ListInv'
  <2>1. \A u \in Timer : u # t => (OnList(u)' <=> OnList(u))
    BY DEF OnList
  <2>2. \A u \in Timer : u # t => (isActive'[u] <=> OnList(u)' \/ Reloading(u)')
    BY <1>0, <1>1, <1>4, <2>1 DEF ListInv
  <2>. QED  BY <1>1, <1>2, <1>4, <2>2 DEF ListInv
<1>10. DueInv'
  BY <1>1, <1>2, <1>3, <1>4, OneTimerMoves
<1>11. SleepInv'
  BY DEF SleepInv, At
<1>. QED  BY <1>5, <1>6, <1>7, <1>8, <1>9, <1>10, <1>11 DEF TimersInv

\* A timer that is stopped owes nothing.
LEMMA ApplyStopKeeps ==
  ASSUME TimersInv, ApplyStop
  PROVE  TimersInv'
<1>0. TypeInv /\ QueueInv /\ DaemonInv /\ ClockInv /\ ListInv /\ DueInv /\ SleepInv
  BY DEF TimersInv
<1>h. PICK t : t = received.timer
  OBVIOUS
<1>1. /\ At("apply") /\ daemon' = Fresh("commands")
      /\ isActive' = [isActive EXCEPT ![t] = FALSE]
      /\ remaining' = [remaining EXCEPT ![t] = 0] /\ owed' = [owed EXCEPT ![t] = 0]
      /\ UNCHANGED <<xTickCount, stall, listVars, xTimerPeriodInTicks, isAutoReload, exists,
                     xTimerQueue, xLastTime>>
  BY <1>h DEF ApplyStop, Stopped, Dormant
<1>2. t \in Timer /\ ~OnList(t) /\ \A u : ~Reloading(u) /\ ~Calling(u)
  BY <1>1, <1>h, Applying
<1>a. /\ daemon' \in Daemon /\ daemon'.step = "commands" /\ daemon'.caller = "block"
      /\ received' = NoMessage /\ daemon'.timer = NoTimer /\ daemon'.after = "commands"
  BY <1>1, Widths DEF Fresh, Daemon, Steps, Forever, received
<1>l. \A u : InCurrent(u)' = InCurrent(u) /\ InOverflow(u)' = InOverflow(u) /\ OnList(u)' = OnList(u)
  BY <1>1 DEF InCurrent, InOverflow, OnList, listVars
<1>3. /\ isActive' \in [Timer -> BOOLEAN] /\ remaining' \in [Timer -> Nat] /\ owed' \in [Timer -> Nat]
      /\ ~isActive'[t] /\ remaining'[t] = 0 /\ owed'[t] = 0
      /\ \A u \in Timer : u # t =>
           isActive'[u] = isActive[u] /\ remaining'[u] = remaining[u] /\ owed'[u] = owed[u]
  BY <1>0, <1>1, <1>2 DEF TypeInv
<1>4. ~Reloading(t)' /\ ~Calling(t)'
  BY <1>a DEF Reloading, Calling, At
<1>5. TimerDue(t)'
  BY <1>2, <1>3, <1>4, <1>l DEF TimerDue, Unhandled, Dormant
<1>6. remaining'[t] <= xTimerPeriodInTicks'[t]
  BY <1>0, <1>1, <1>2, <1>3, PeriodBounds, Widths
<1>7. /\ xItemValue' \in [Timer -> Ticks] /\ xTimerPeriodInTicks' \in [Timer -> Periods]
      /\ xItemValue' = xItemValue /\ xTimerPeriodInTicks' = xTimerPeriodInTicks
  BY <1>0, <1>1 DEF TypeInv, listVars
<1>8. /\ pxCurrentTimerList' \in Seq(Timer) /\ pxOverflowTimerList' \in Seq(Timer)
      /\ IsInjective(pxCurrentTimerList') /\ IsInjective(pxOverflowTimerList')
      /\ ToSet(pxCurrentTimerList') \cap ToSet(pxOverflowTimerList') = {}
      /\ Sorted(pxCurrentTimerList', xItemValue') /\ Sorted(pxOverflowTimerList', xItemValue')
  BY <1>0, <1>1 DEF ListInv, listVars
<1>. QED  BY <1>1, <1>2, <1>a, <1>h, <1>l, <1>3, <1>4, <1>5, <1>6, <1>7, <1>8, AppliedKeeps

\* A timer that is started runs from the time the command was sent; what that
\* time is worth is known even when the count has wrapped since.
LEMMA ApplyStartKeeps ==
  ASSUME TimersInv, ApplyStart
  PROVE  TimersInv'
<1>0. TypeInv /\ QueueInv /\ DaemonInv /\ ClockInv /\ ListInv /\ DueInv /\ SleepInv
  BY DEF TimersInv
<1>h. PICK t, p, v, age, now, next, where :
         /\ t = received.timer /\ p = xTimerPeriodInTicks[t] /\ v = received.value
         /\ age = received.age /\ now = daemon.xTimeNow
         /\ next = Plus(v, p) /\ where = Placement(p, next, now, v)
  OBVIOUS
<1>. DEFINE oneShot == where = "now" /\ ~isAutoReload[t]
<1>1. /\ At("apply") /\ received.command = "start"
      /\ Insert(t, next, where)
      /\ isActive' = [isActive EXCEPT ![t] = ~oneShot]
      /\ remaining' = [remaining EXCEPT ![t] = IF oneShot THEN 0 ELSE Left(p, age)]
      /\ owed' = [owed EXCEPT ![t] = IF oneShot THEN Min({Missed(p, age), 1}) ELSE Missed(p, age)]
      /\ daemon' = IF where # "now" THEN Fresh("commands")
                   ELSE IF oneShot THEN [Fresh("callback") EXCEPT !.timer = t]
                   ELSE [Fresh("reload") EXCEPT !.timer = t, !.xExpiredTime = next, !.until = now]
      /\ UNCHANGED <<xTickCount, stall, xTimerPeriodInTicks, isAutoReload, exists, xTimerQueue,
                     xLastTime>>
  BY <1>h DEF ApplyStart, Dormant
<1>2. /\ t \in Timer /\ ~OnList(t) /\ \A u : ~Reloading(u) /\ ~Calling(u)
      /\ now = xLastTime /\ now \in Ticks /\ stall \in Nat /\ xNow = now + stall
      /\ age \in Nat /\ age >= stall /\ t # NoTimer
  BY <1>1, <1>h, Applying
<1>3. v \in Ticks /\ p \in 1 .. portMAX_DELAY /\ p \in Nat \ {0}
  BY <1>0, <1>1, <1>2, <1>h, Applying, PeriodBounds DEF Message
<1>4. Minus(now, v) = age - stall
  <2>1. /\ Minus(xTickCount, v) = age /\ Minus(xTickCount, xLastTime) = stall
        /\ xTickCount \in Ticks
    BY <1>1, <1>h, Applying DEF Pending
  <2>. QED  BY <1>2, <1>3, <2>1, MinusAdds
<1>5. /\ next \in Ticks
      /\ where \in {"now", "current", "overflow"}
      /\ where = "now" => Minus(now, v) >= p /\ Minus(now, next) = Minus(now, v) - p
      /\ where = "current" => next = now + (p - Minus(now, v))
      /\ where = "overflow" => next + TickRange = now + (p - Minus(now, v))
  BY <1>2, <1>3, <1>h, PlacedExactly
<1>6. /\ Missed(p, age) \in Nat /\ Left(p, age) \in 1 .. p
      /\ Left(p, age) - Missed(p, age) * p = p - age
      /\ Missed(p, age) > 0 <=> age >= p
  BY <1>2, <1>3, PeriodsMissed
<1>7. oneShot => Missed(p, age) > 0 /\ Min({Missed(p, age), 1}) = 1
  <2>. SUFFICES ASSUME oneShot PROVE Missed(p, age) > 0 /\ Min({Missed(p, age), 1}) = 1
    OBVIOUS
  <2>1. age >= p
    BY <1>2, <1>3, <1>4, <1>5
  <2>2. Missed(p, age) > 0
    BY <1>6, <2>1
  <2>. QED  BY <1>6, <2>2 DEF Min
<1>8. oneShot \in BOOLEAN /\ isAutoReload[t] \in BOOLEAN
  BY <1>0, <1>2 DEF TypeInv
<1>9. /\ isActive' \in [Timer -> BOOLEAN] /\ remaining' \in [Timer -> Nat] /\ owed' \in [Timer -> Nat]
      /\ isActive'[t] <=> ~oneShot
      /\ remaining'[t] = IF oneShot THEN 0 ELSE Left(p, age)
      /\ owed'[t] = IF oneShot THEN 1 ELSE Missed(p, age)
      /\ \A u \in Timer : u # t =>
           isActive'[u] = isActive[u] /\ remaining'[u] = remaining[u] /\ owed'[u] = owed[u]
  <2>. DEFINE left == IF oneShot THEN 0 ELSE Left(p, age)
              owes == IF oneShot THEN 1 ELSE Missed(p, age)
  <2>1. left \in Nat /\ owes \in Nat
    BY <1>6
  <2>2. /\ isActive' = [isActive EXCEPT ![t] = ~oneShot] /\ remaining' = [remaining EXCEPT ![t] = left]
        /\ owed' = [owed EXCEPT ![t] = owes]
    BY <1>1, <1>7
  <2>3. /\ isActive \in [Timer -> BOOLEAN] /\ remaining \in [Timer -> Nat] /\ owed \in [Timer -> Nat]
    BY <1>0 DEF TypeInv
  <2>. HIDE DEF left, owes, oneShot
  <2>4. /\ isActive' \in [Timer -> BOOLEAN]
        /\ isActive'[t] <=> ~oneShot
        /\ \A u \in Timer : u # t => isActive'[u] = isActive[u]
    BY <1>2, <1>8, <2>2, <2>3
  <2>5. /\ remaining' \in [Timer -> Nat] /\ remaining'[t] = left
        /\ \A u \in Timer : u # t => remaining'[u] = remaining[u]
    BY <1>2, <2>1, <2>2, <2>3
  <2>6. /\ owed' \in [Timer -> Nat] /\ owed'[t] = owes
        /\ \A u \in Timer : u # t => owed'[u] = owed[u]
    BY <1>2, <2>1, <2>2, <2>3
  <2>7. \A u \in Timer : u # t =>
           isActive'[u] = isActive[u] /\ remaining'[u] = remaining[u] /\ owed'[u] = owed[u]
    BY <2>4, <2>5, <2>6
  <2>8. /\ remaining'[t] = IF oneShot THEN 0 ELSE Left(p, age)
        /\ owed'[t] = IF oneShot THEN 1 ELSE Missed(p, age)
    BY <2>5, <2>6 DEF left, owes
  <2>. QED  BY <2>4, <2>5, <2>6, <2>7, <2>8
<1>a. /\ daemon' \in Daemon
      /\ daemon'.step = IF where # "now" THEN "commands" ELSE IF oneShot THEN "callback" ELSE "reload"
      /\ daemon'.caller = "block" /\ received' = NoMessage /\ daemon'.after = "commands"
      /\ daemon'.timer = IF where # "now" THEN NoTimer ELSE t
      /\ where = "now" /\ ~oneShot => daemon'.xExpiredTime = next /\ daemon'.until = now
  <2>1. \A s \in Steps : Fresh(s) \in Daemon
    BY Widths DEF Daemon, Steps, Forever, Fresh
  <2>2. CASE where # "now"
    BY <1>1, <2>1, <2>2 DEF Fresh, Steps, received
  <2>3. CASE where = "now" /\ oneShot
    <3>1. daemon' = [Fresh("callback") EXCEPT !.timer = t] /\ Fresh("callback") \in Daemon
      BY <1>1, <2>1, <2>3 DEF Steps
    <3>2. daemon' \in Daemon
      BY <1>2, <3>1 DEF Daemon
    <3>. QED  BY <2>3, <3>1, <3>2 DEF Fresh, received
  <2>4. CASE where = "now" /\ ~oneShot
    <3>1. /\ daemon' = [Fresh("reload") EXCEPT !.timer = t, !.xExpiredTime = next, !.until = now]
          /\ Fresh("reload") \in Daemon
      BY <1>1, <2>1, <2>4 DEF Steps
    <3>2. daemon' \in Daemon
      BY <1>2, <1>5, <3>1 DEF Daemon
    <3>. QED  BY <2>4, <3>1, <3>2 DEF Fresh, received
  <2>. QED  BY <2>2, <2>3, <2>4
<1>. HIDE DEF oneShot
<1>o. oneShot => where = "now"
  BY DEF oneShot
<1>b. /\ Reloading(t)' <=> where = "now" /\ ~oneShot
      /\ Calling(t)' <=> oneShot
      /\ ~Switching'
  BY <1>2, <1>a, <1>o DEF Reloading, Calling, Switching, At
<1>l. /\ xItemValue' \in [Timer -> Ticks] /\ xItemValue'[t] = next
      /\ \A u \in Timer : u # t => xItemValue'[u] = xItemValue[u]
      /\ pxCurrentTimerList' \in Seq(Timer) /\ pxOverflowTimerList' \in Seq(Timer)
      /\ IsInjective(pxCurrentTimerList') /\ IsInjective(pxOverflowTimerList')
      /\ ToSet(pxCurrentTimerList') \cap ToSet(pxOverflowTimerList') = {}
      /\ Sorted(pxCurrentTimerList', xItemValue') /\ Sorted(pxOverflowTimerList', xItemValue')
      /\ \A u \in Timer : /\ InCurrent(u)' <=> InCurrent(u) \/ (u = t /\ where = "current")
                          /\ InOverflow(u)' <=> InOverflow(u) \/ (u = t /\ where = "overflow")
  BY <1>0, <1>1, <1>2, <1>5, InsertKeeps
<1>m. /\ InCurrent(t)' <=> where = "current"
      /\ OnList(t)' <=> where # "now"
  BY <1>2, <1>5, <1>l DEF OnList
<1>n. \A u \in Timer : u # t => InCurrent(u)' = InCurrent(u) /\ InOverflow(u)' = InOverflow(u)
  BY <1>l DEF InCurrent, InOverflow
<1>10. xNow' = xNow /\ xNow = now + stall
  BY <1>1, <1>2, <1>b, Applying DEF xNow
<1>11. ~oneShot => DueIn(t)' = p - age
  <2>1. xTimerPeriodInTicks'[t] = p
    BY <1>1, <1>h
  <2>2. ~oneShot => Unhandled(t)' = Missed(p, age) /\ remaining'[t] = Left(p, age)
    BY <1>9, <1>b DEF Unhandled
  <2>. QED  BY <1>6, <2>1, <2>2 DEF DueIn
<1>12. TimerDue(t)'
  <2>1. CASE oneShot
    <3>1. remaining'[t] = 0 /\ owed'[t] = 1 /\ Unhandled(t)' = 0
      BY <1>9, <1>b, <2>1 DEF Unhandled
    <3>. QED  BY <1>b, <1>m, <1>o, <2>1, <3>1 DEF TimerDue, Dormant
  <2>2. CASE ~oneShot
    <3>1. remaining'[t] > 0 /\ DueIn(t)' = p - age
      BY <1>6, <1>9, <1>11, <2>2
    <3>2. CASE where = "now"
      <4>1. /\ daemon'.until = now /\ xLastTime' = now
            /\ Minus(daemon'.until, daemon'.xExpiredTime) = age - stall - p
        BY <1>1, <1>2, <1>3, <1>4, <1>5, <1>a, <2>2, <3>2
      <4>2. xNow' + (p - age) = now - (age - stall - p)
        BY <1>2, <1>3, <1>10, Widths
      <4>. QED  BY <1>b, <1>m, <2>2, <3>1, <3>2, <4>1, <4>2 DEF TimerDue
    <3>3. CASE where = "current"
      <4>1. ExpiresAt(t)' = next
        BY <1>l, <1>m, <3>3 DEF ExpiresAt
      <4>2. next = xNow' + (p - age)
        BY <1>2, <1>3, <1>4, <1>5, <1>10, <3>3, Widths
      <4>. QED  BY <1>b, <1>m, <2>2, <3>1, <3>3, <4>1, <4>2 DEF TimerDue
    <3>4. CASE where = "overflow"
      <4>1. ExpiresAt(t)' = next + TickRange
        BY <1>l, <1>m, <3>4 DEF ExpiresAt
      <4>2. next + TickRange = xNow' + (p - age)
        BY <1>2, <1>3, <1>4, <1>5, <1>10, <3>4, Widths
      <4>. QED  BY <1>b, <1>m, <2>2, <3>1, <3>4, <4>1, <4>2 DEF TimerDue
    <3>. QED  BY <1>5, <3>2, <3>3, <3>4
  <2>. QED  BY <2>1, <2>2
<1>13. remaining'[t] <= xTimerPeriodInTicks'[t]
  BY <1>1, <1>3, <1>6, <1>9, <1>h
<1>14. /\ isActive'[t] <=> OnList(t)' \/ Reloading(t)'
       /\ OnList(t)' => ~Reloading(t)'
  BY <1>9, <1>b, <1>m, <1>o
<1>15. xTimerPeriodInTicks' \in [Timer -> Periods] /\ xTimerPeriodInTicks' = xTimerPeriodInTicks
  BY <1>0, <1>1 DEF TypeInv
<1>16. /\ daemon'.step \in {"commands", "reload", "callback"}
       /\ daemon'.timer = IF daemon'.step = "commands" THEN NoTimer ELSE t
  BY <1>a
<1>. QED
  BY <1>1, <1>2, <1>a, <1>h, <1>l, <1>n, <1>9, <1>12, <1>13, <1>14, <1>15, <1>16, AppliedKeeps

\* A timer whose period is changed runs from when the time was sampled, a stall
\* ago.
LEMMA ApplyChangePeriodKeeps ==
  ASSUME TimersInv, ApplyChangePeriod
  PROVE  TimersInv'
<1>0. TypeInv /\ QueueInv /\ DaemonInv /\ ClockInv /\ ListInv /\ DueInv /\ SleepInv
  BY DEF TimersInv
<1>h. PICK t, p, late, now, next, where :
         /\ t = received.timer /\ p = received.value
         /\ now = daemon.xTimeNow /\ late = Minus(xTickCount, now)
         /\ next = Plus(now, p) /\ where = Placement(p, next, now, now)
  OBVIOUS
<1>1. /\ At("apply") /\ received.command = "changePeriod"
      /\ xTimerPeriodInTicks' = [xTimerPeriodInTicks EXCEPT ![t] = p]
      /\ isActive' = [isActive EXCEPT ![t] = TRUE]
      /\ Insert(t, next, where)
      /\ remaining' = [remaining EXCEPT ![t] = Left(p, late)]
      /\ owed' = [owed EXCEPT ![t] = Missed(p, late)]
      /\ daemon' = Fresh("commands")
      /\ UNCHANGED <<xTickCount, stall, isAutoReload, exists, xTimerQueue, xLastTime>>
  BY <1>h DEF ApplyChangePeriod, FromNow
<1>2. /\ t \in Timer /\ ~OnList(t) /\ \A u : ~Reloading(u) /\ ~Calling(u)
      /\ now = xLastTime /\ now \in Ticks /\ stall \in Nat /\ xNow = now + stall
      /\ late = stall
  BY <1>1, <1>h, Applying
<1>3. p \in Periods /\ p \in 1 .. portMAX_DELAY /\ p \in Nat \ {0}
  <2>1. p \in Periods
    BY <1>1, <1>h, Applying DEF Pending
  <2>. QED  BY <2>1, Widths
<1>5. /\ next \in Ticks /\ where \in {"current", "overflow"}
      /\ where = "current" => next = now + p
      /\ where = "overflow" => next + TickRange = now + p
  <2>1. Minus(now, now) = 0
    BY <1>2, MinusSelf
  <2>2. /\ next \in Ticks /\ where \in {"now", "current", "overflow"}
        /\ where = "now" => 0 >= p
        /\ where = "current" => next = now + (p - 0)
        /\ where = "overflow" => next + TickRange = now + (p - 0)
    BY <1>2, <1>3, <1>h, <2>1, PlacedExactly
  <2>. QED  BY <1>3, <2>2
<1>6. /\ Missed(p, late) \in Nat /\ Left(p, late) \in 1 .. p
      /\ Left(p, late) - Missed(p, late) * p = p - late
  BY <1>2, <1>3, PeriodsMissed
<1>9. /\ isActive' \in [Timer -> BOOLEAN] /\ remaining' \in [Timer -> Nat] /\ owed' \in [Timer -> Nat]
      /\ xTimerPeriodInTicks' \in [Timer -> Periods]
      /\ isActive'[t] /\ remaining'[t] = Left(p, late) /\ owed'[t] = Missed(p, late)
      /\ xTimerPeriodInTicks'[t] = p
      /\ \A u \in Timer : u # t =>
           /\ isActive'[u] = isActive[u] /\ remaining'[u] = remaining[u] /\ owed'[u] = owed[u]
           /\ xTimerPeriodInTicks'[u] = xTimerPeriodInTicks[u]
  <2>1. Left(p, late) \in Nat
    BY <1>6
  <2>. QED  BY <1>0, <1>1, <1>2, <1>3, <1>6, <2>1 DEF TypeInv
<1>a. /\ daemon' \in Daemon /\ daemon'.step = "commands" /\ daemon'.caller = "block"
      /\ received' = NoMessage /\ daemon'.timer = NoTimer /\ daemon'.after = "commands"
  BY <1>1, Widths DEF Fresh, Daemon, Steps, Forever, received
<1>b. ~Reloading(t)' /\ ~Calling(t)' /\ ~Switching'
  BY <1>a DEF Reloading, Calling, Switching, At
<1>l. /\ xItemValue' \in [Timer -> Ticks] /\ xItemValue'[t] = next
      /\ \A u \in Timer : u # t => xItemValue'[u] = xItemValue[u]
      /\ pxCurrentTimerList' \in Seq(Timer) /\ pxOverflowTimerList' \in Seq(Timer)
      /\ IsInjective(pxCurrentTimerList') /\ IsInjective(pxOverflowTimerList')
      /\ ToSet(pxCurrentTimerList') \cap ToSet(pxOverflowTimerList') = {}
      /\ Sorted(pxCurrentTimerList', xItemValue') /\ Sorted(pxOverflowTimerList', xItemValue')
      /\ \A u \in Timer : /\ InCurrent(u)' <=> InCurrent(u) \/ (u = t /\ where = "current")
                          /\ InOverflow(u)' <=> InOverflow(u) \/ (u = t /\ where = "overflow")
  BY <1>0, <1>1, <1>2, <1>5, InsertKeeps
<1>m. OnList(t)' /\ (InCurrent(t)' <=> where = "current")
  BY <1>2, <1>5, <1>l DEF OnList
<1>n. \A u \in Timer : u # t => InCurrent(u)' = InCurrent(u) /\ InOverflow(u)' = InOverflow(u)
  BY <1>l DEF InCurrent, InOverflow
<1>10. xNow' = xNow /\ xNow = now + stall
  BY <1>1, <1>2, <1>b, Applying DEF xNow
<1>11. DueIn(t)' = p - late /\ remaining'[t] > 0
  <2>1. Unhandled(t)' = Missed(p, late)
    BY <1>9, <1>b DEF Unhandled
  <2>. QED  BY <1>6, <1>9, <2>1 DEF DueIn
<1>12. TimerDue(t)'
  <2>1. ExpiresAt(t)' = now + p
    BY <1>5, <1>l, <1>m DEF ExpiresAt
  <2>2. now + p = xNow' + (p - late)
    BY <1>2, <1>3, <1>10, Widths
  <2>. QED  BY <1>b, <1>m, <1>11, <2>1, <2>2 DEF TimerDue
<1>13. remaining'[t] <= xTimerPeriodInTicks'[t]
  BY <1>3, <1>6, <1>9
<1>14. /\ isActive'[t] <=> OnList(t)' \/ Reloading(t)'
       /\ OnList(t)' => ~Reloading(t)'
  BY <1>9, <1>b, <1>m
<1>. QED
  BY <1>1, <1>2, <1>a, <1>h, <1>l, <1>n, <1>9, <1>12, <1>13, <1>14, AppliedKeeps

-----------------------------------------------------------------------------
(* prvReloadTimer, and the tick. *)

LEMMA OneLess ==
  ASSUME NEW r \in Int, NEW n \in Int, NEW p \in Int
  PROVE  /\ r - (n - 1) * p = (r - n * p) + p
         /\ r - (n + 1) * p = (r - n * p) - p
<1>. DEFINE m == n * p
<1>1. (n - 1) * p = m - p /\ (n + 1) * p = m + p /\ m \in Int
  OBVIOUS
<1>. QED  BY <1>1

\* A turn of prvReloadTimer handles one expiry: the callback is called for it
\* and the next one is as far in the past, or it is listed where it belongs.
LEMMA ReloadTimerKeeps ==
  ASSUME TimersInv, ReloadTimer
  PROVE  TimersInv'
<1>0. TypeInv /\ QueueInv /\ DaemonInv /\ ClockInv /\ ListInv /\ DueInv /\ SleepInv
  BY DEF TimersInv
<1>h. PICK t, p, from, until, next, where :
         /\ t = daemon.timer /\ p = xTimerPeriodInTicks[t]
         /\ from = daemon.xExpiredTime /\ until = daemon.until
         /\ next = Plus(from, p) /\ where = Placement(p, next, until, from)
  OBVIOUS
<1>1. /\ daemon.step = "reload"
      /\ Insert(t, next, where)
      /\ where = "now" => /\ owed' = [owed EXCEPT ![t] = owed[t] - 1]
                          /\ daemon' = [daemon EXCEPT !.xExpiredTime = next]
      /\ where # "now" =>
           /\ daemon' = [daemon EXCEPT !.step = "callback", !.xExpiredTime = 0, !.until = 0]
           /\ owed' = owed
      /\ UNCHANGED <<xTickCount, remaining, stall, timerVars, xTimerQueue, xLastTime>>
  BY <1>h DEF ReloadTimer, At
<1>2. /\ t \in Timer /\ Reloading(t) /\ ~Calling(t) /\ t # NoTimer /\ NoTimer \notin Timer
      /\ ~OnList(t) /\ t # received.timer
      /\ daemon.step = "reload" /\ daemon \in Daemon
  BY <1>0, <1>1, <1>h, TimersAssumption
     DEF DaemonInv, ListInv, Reloading, Calling, At, TypeInv
<1>3. /\ p \in 1 .. portMAX_DELAY /\ p \in Nat \ {0} /\ from \in Ticks /\ until \in Ticks
  BY <1>0, <1>2, <1>h, PeriodBounds DEF Daemon
<1>4. Minus(until, from) \in Ticks
  BY <1>3, TickArithmetic
<1>5. /\ next \in Ticks
      /\ where \in {"now", "current", "overflow"}
      /\ where = "now" => Minus(until, from) >= p /\ Minus(until, next) = Minus(until, from) - p
      /\ where = "current" => next = until + (p - Minus(until, from))
      /\ where = "overflow" => next + TickRange = until + (p - Minus(until, from))
  BY <1>3, <1>h, PlacedExactly
<1>6. /\ remaining[t] > 0 /\ remaining[t] \in Nat /\ owed[t] \in Nat /\ Unhandled(t) = owed[t]
      /\ until = IF Switching THEN portMAX_DELAY ELSE xLastTime
      /\ xNow + DueIn(t) = until - Minus(until, from)
      /\ DueIn(t) \in Int /\ xNow \in Int
  <2>1. TimerDue(t)
    BY <1>0, <1>2 DEF DueInv
  <2>2. remaining[t] \in Nat /\ owed[t] \in Nat
    BY <1>0, <1>2 DEF TypeInv
  <2>3. Unhandled(t) = owed[t]
    BY <1>2 DEF Unhandled
  <2>4. xNow \in Int
    BY <1>0, ClockTypes
  <2>5. DueIn(t) \in Int
    BY <1>0, <1>2, DueWithinPeriod
  <2>. QED  BY <1>2, <1>h, <2>1, <2>2, <2>3, <2>4, <2>5 DEF TimerDue
<1>7. owed[t] > 0
  <2>1. xNow >= until
    <3>1. stall \in Nat /\ daemon.xTimeNow \in Nat /\ xLastTime \in Nat
          /\ Minus(xTickCount, xLastTime) \in Nat
      BY <1>0, ClockTypes, Widths DEF TypeInv
    <3>2. CASE Switching
      <4>1. xNow = TickRange + daemon.xTimeNow + stall /\ until = portMAX_DELAY
        BY <1>6, <3>2 DEF xNow
      <4>. QED  BY <3>1, <4>1, Widths
    <3>3. CASE ~Switching
      <4>1. xNow = xLastTime + Minus(xTickCount, xLastTime) /\ until = xLastTime
        BY <1>6, <3>3 DEF xNow
      <4>. QED  BY <3>1, <4>1
    <3>. QED  BY <3>2, <3>3
  <2>2. DueIn(t) <= 0
    BY <1>3, <1>4, <1>6, <2>1, Widths
  <2>. QED  BY <1>0, <1>2, <1>6, <2>2, DueTells
<1>8. owed' \in [Timer -> Nat] /\ \A u \in Timer : u # t => owed'[u] = owed[u]
  <2>1. CASE where = "now"
    BY <1>0, <1>1, <1>2, <1>7, <2>1 DEF TypeInv
  <2>2. CASE where # "now"
    BY <1>0, <1>1, <2>2 DEF TypeInv
  <2>. QED  BY <2>1, <2>2
<1>a. /\ daemon' \in Daemon
      /\ daemon'.step = IF where = "now" THEN "reload" ELSE "callback"
      /\ daemon'.timer = t /\ daemon'.after = daemon.after /\ daemon'.caller = daemon.caller
      /\ received' = received /\ daemon'.xTimeNow = daemon.xTimeNow
      /\ where = "now" => daemon'.until = until /\ daemon'.xExpiredTime = next
  <2>1. CASE where = "now"
    <3>1. daemon' = [daemon EXCEPT !.xExpiredTime = next]
      BY <1>1, <2>1
    <3>2. daemon' \in Daemon
      BY <1>2, <1>5, <3>1 DEF Daemon
    <3>. QED  BY <1>2, <1>h, <2>1, <3>1, <3>2 DEF Daemon, received
  <2>2. CASE where # "now"
    <3>1. daemon' = [daemon EXCEPT !.step = "callback", !.xExpiredTime = 0, !.until = 0]
      BY <1>1, <2>2
    <3>2. daemon' \in Daemon
      <4>. "callback" \in Steps /\ 0 \in Ticks
        BY Widths DEF Steps
      <4>. QED  BY <1>2, <3>1 DEF Daemon
    <3>. QED  BY <1>2, <1>h, <2>2, <3>1, <3>2 DEF Daemon, received
  <2>. QED  BY <2>1, <2>2
<1>b. /\ Reloading(t)' <=> where = "now"
      /\ Calling(t)' <=> where # "now"
      /\ Switching' <=> Switching
  BY <1>2, <1>a DEF Reloading, Calling, Switching, At
<1>c. xNow' = xNow
  BY <1>1, <1>a, <1>b DEF xNow
<1>l. /\ xItemValue' \in [Timer -> Ticks] /\ xItemValue'[t] = next
      /\ \A u \in Timer : u # t => xItemValue'[u] = xItemValue[u]
      /\ pxCurrentTimerList' \in Seq(Timer) /\ pxOverflowTimerList' \in Seq(Timer)
      /\ IsInjective(pxCurrentTimerList') /\ IsInjective(pxOverflowTimerList')
      /\ ToSet(pxCurrentTimerList') \cap ToSet(pxOverflowTimerList') = {}
      /\ Sorted(pxCurrentTimerList', xItemValue') /\ Sorted(pxOverflowTimerList', xItemValue')
      /\ \A u \in Timer : /\ InCurrent(u)' <=> InCurrent(u) \/ (u = t /\ where = "current")
                          /\ InOverflow(u)' <=> InOverflow(u) \/ (u = t /\ where = "overflow")
  BY <1>0, <1>1, <1>2, <1>5, InsertKeeps
<1>m. /\ InCurrent(t)' <=> where = "current"
      /\ OnList(t)' <=> where # "now"
  BY <1>2, <1>5, <1>l DEF OnList
<1>n. \A u \in Timer : u # t => InCurrent(u)' = InCurrent(u) /\ InOverflow(u)' = InOverflow(u)
  BY <1>l DEF InCurrent, InOverflow
<1>u. \A u \in Timer : u # t => ~Reloading(u) /\ ~Calling(u) /\ ~Reloading(u)' /\ ~Calling(u)'
  BY <1>a, <1>h DEF Reloading, Calling, At
<1>9. UNCHANGED <<remaining, xTimerPeriodInTicks, isActive, isAutoReload, exists>>
  BY <1>1 DEF timerVars
<1>10. TypeInv'
  BY <1>0, <1>1, <1>8, <1>9, <1>a, <1>l DEF TypeInv
<1>11. QueueInv'
  BY <1>1, <1>9, <1>a, CommandsAlone
<1>12. DaemonInv'
  <2>1. daemon'.step \in {"reload", "callback"}
    BY <1>a
  <2>2. daemon'.caller = "command" => Switching'
    BY <1>0, <1>2, <1>a, <1>b DEF DaemonInv, At
  <2>3. received' # NoMessage <=> daemon'.caller = "command"
    BY <1>0, <1>a DEF DaemonInv
  <2>. QED  BY <1>2, <1>a, <2>1, <2>2, <2>3 DEF DaemonInv, At
<1>13. ClockInv'
  <2>1. UNCHANGED <<xTickCount, xLastTime, stall>> /\ daemon'.step \in {"reload", "callback"}
    BY <1>1, <1>a
  <2>2. Switching => Minus(xTickCount, daemon.xTimeNow) = stall
    BY <1>0 DEF ClockInv
  <2>3. ~Switching => Minus(xTickCount, xLastTime) = stall
    BY <1>0, <1>2, <1>h DEF ClockInv
  <2>4. received # NoMessage => received.age >= stall
    BY <1>0, <1>2 DEF ClockInv, At
  <2>5. stall <= portMAX_DELAY - MaxStall + stall
    BY <1>0, <1>2, PeriodBounds, Widths DEF TypeInv
  <2>. QED  BY <1>a, <1>b, <2>1, <2>2, <2>3, <2>4, <2>5 DEF ClockInv, At
<1>14. ListInv'
  <2>1. \A u \in Timer : u # t => (OnList(u)' <=> OnList(u))
    BY <1>n DEF OnList
  <2>2. isActive[t]
    BY <1>0, <1>2 DEF ListInv
  <2>3. \A u \in Timer : OnList(u)' => u # received'.timer /\ ~Reloading(u)'
    BY <1>0, <1>2, <1>a, <1>b, <1>m, <1>u, <2>1 DEF ListInv
  <2>4. \A u \in Timer : u # received'.timer => (isActive'[u] <=> OnList(u)' \/ Reloading(u)')
    BY <1>0, <1>9, <1>a, <1>b, <1>m, <1>u, <2>1, <2>2 DEF ListInv
  <2>. QED  BY <1>l, <2>3, <2>4 DEF ListInv
<1>15. DueInv'
  <2>1. Unhandled(t)' = owed[t] - 1
    <3>1. CASE where = "now"
      BY <1>0, <1>1, <1>2, <1>b, <3>1 DEF Unhandled, TypeInv
    <3>2. CASE where # "now"
      BY <1>1, <1>b, <3>2 DEF Unhandled
    <3>. QED  BY <3>1, <3>2
  <2>2. DueIn(t)' = DueIn(t) + p
    <3>1. DueIn(t) = remaining[t] - owed[t] * p
      BY <1>6, <1>h DEF DueIn
    <3>2. DueIn(t)' = remaining[t] - (owed[t] - 1) * p
      BY <1>9, <1>h, <2>1 DEF DueIn
    <3>. QED  BY <1>3, <1>6, <3>1, <3>2, OneLess
  <2>3. remaining'[t] > 0 /\ owed'[t] \in Nat
    BY <1>2, <1>6, <1>8, <1>9
  <2>i. /\ p \in Int /\ until \in Int /\ next \in Int /\ Minus(until, from) \in Int
        /\ TickRange \in Int
    BY <1>3, <1>4, <1>5, Widths
  <2>4. TimerDue(t)'
    <3>1. ASSUME where = "now" PROVE TimerDue(t)'
      <4>1. until = IF Switching' THEN portMAX_DELAY ELSE xLastTime'
        BY <1>1, <1>6, <1>b
      <4>2. Minus(until, next) = Minus(until, from) - p
        BY <1>5, <3>1
      <4>3. xNow' + DueIn(t)' = until - Minus(until, next)
        BY <1>6, <1>c, <2>2, <2>i, <4>2
      <4>. QED  BY <1>a, <1>b, <1>m, <2>3, <3>1, <4>1, <4>3 DEF TimerDue
    <3>2. ASSUME where # "now" PROVE TimerDue(t)'
      <4>1. Calling(t)' => owed'[t] > 0
        BY <1>1, <1>7, <3>2
      <4>2. ExpiresAt(t)' = IF where = "current" THEN next ELSE next + TickRange
        BY <1>l, <1>m DEF ExpiresAt
      <4>3. (IF where = "current" THEN next ELSE next + TickRange) = xNow' + DueIn(t)'
        BY <1>5, <1>6, <1>c, <2>2, <2>i, <3>2
      <4>. QED  BY <1>b, <1>m, <2>3, <3>2, <4>1, <4>2, <4>3 DEF TimerDue
    <3>. QED  BY <3>1, <3>2
  <2>. QED  BY <1>2, <1>a, <1>c, <1>l, <1>n, <1>u, <1>8, <1>9, <2>4, OneTimerMoves
<1>16. SleepInv'
  <2>. daemon'.step # "asleep"
    BY <1>a
  <2>. QED  BY DEF SleepInv, At
<1>. QED  BY <1>10, <1>11, <1>12, <1>13, <1>14, <1>15, <1>16 DEF TimersInv

\* A timer's next expiry is one tick nearer after a tick.
LEMMA OneTickNearer ==
  ASSUME TypeInv, Tick, NEW t \in Timer, remaining[t] > 0, UNCHANGED xTimerPeriodInTicks,
         Calling(t)' = Calling(t)
  PROVE  /\ remaining'[t] > 0 /\ remaining'[t] \in Nat /\ remaining'[t] <= xTimerPeriodInTicks[t]
         /\ owed'[t] \in Nat /\ owed'[t] >= owed[t]
         /\ DueIn(t)' = DueIn(t) - 1
<1>. DEFINE p == xTimerPeriodInTicks[t]
            n == Unhandled(t)
            r == remaining[t]
<1>1. p \in Nat \ {0} /\ r \in Nat /\ r > 0 /\ r <= p /\ n \in Int /\ owed[t] \in Nat
  BY PeriodBounds, Widths DEF TypeInv, Unhandled
<1>2. /\ remaining'[t] = IF r = 1 THEN p ELSE IF r = Dormant THEN Dormant ELSE r - 1
      /\ owed'[t] = IF r = 1 THEN owed[t] + 1 ELSE owed[t]
  BY DEF Tick
<1>3. Unhandled(t)' = IF r = 1 THEN n + 1 ELSE n
  BY <1>1, <1>2 DEF Unhandled
<1>4. DueIn(t) = r - n * p /\ DueIn(t)' = remaining'[t] - Unhandled(t)' * p
  BY DEF DueIn
<1>5. p - (n + 1) * p = (p - n * p) - p
  BY <1>1, OneLess
<1>6. n * p \in Int
  BY <1>1
<1>. DEFINE m == n * p
<1>. HIDE DEF p, n, r
<1>7. CASE r = 1
  <2>1. DueIn(t)' = p - (n + 1) * p
    BY <1>2, <1>3, <1>4, <1>7
  <2>2. DueIn(t)' = (p - m) - p /\ DueIn(t) = 1 - m /\ m \in Int
    BY <1>4, <1>5, <1>6, <1>7, <2>1
  <2>. HIDE DEF m
  <2>3. DueIn(t)' = DueIn(t) - 1
    BY <1>1, <2>2
  <2>. QED  BY <1>1, <1>2, <1>7, <2>3 DEF p
<1>8. CASE r # 1
  <2>1. remaining'[t] = r - 1 /\ owed'[t] = owed[t] /\ Unhandled(t)' = n
    BY <1>1, <1>2, <1>3, <1>8 DEF Dormant
  <2>2. DueIn(t)' = (r - 1) - m /\ DueIn(t) = r - m /\ m \in Int
    BY <1>4, <1>6, <2>1
  <2>. HIDE DEF m
  <2>3. DueIn(t)' = DueIn(t) - 1
    BY <1>1, <2>2
  <2>. QED  BY <1>1, <1>8, <2>1, <2>3 DEF p
<1>. QED  BY <1>7, <1>8

\* The clock goes on by one tick: the daemon may not stall for longer than it
\* may, and does not sleep for a turn of the count while a timer is listed.
LEMMA TickKeeps ==
  ASSUME TimersInv, Tick
  PROVE  TimersInv'
<1>0. TypeInv /\ QueueInv /\ DaemonInv /\ ClockInv /\ ListInv /\ DueInv /\ SleepInv
  BY DEF TimersInv
<1>1. /\ ~daemon.suspended
      /\ Awake => stall < MaxStall
      /\ \A i \in DOMAIN xTimerQueue : xTimerQueue[i].age < portMAX_DELAY
      /\ received.age < portMAX_DELAY
      /\ xTickCount' = Plus(xTickCount, 1)
      /\ stall' = IF Awake THEN stall + 1 ELSE 0
      /\ remaining' = [t \in Timer |-> IF remaining[t] = 1 THEN xTimerPeriodInTicks[t]
                                       ELSE IF remaining[t] = Dormant THEN Dormant ELSE remaining[t] - 1]
      /\ owed' = [t \in Timer |-> IF remaining[t] = 1 THEN owed[t] + 1 ELSE owed[t]]
      /\ xTimerQueue' = [i \in DOMAIN xTimerQueue |-> [xTimerQueue[i] EXCEPT !.age = @ + 1]]
      /\ daemon' = [daemon EXCEPT !.wake = IF @ \in {0, Forever} THEN @ ELSE @ - 1,
                                  !.message.age = IF received = NoMessage THEN @ ELSE @ + 1]
      /\ UNCHANGED listVars /\ UNCHANGED timerVars /\ UNCHANGED xLastTime
  BY DEF Tick
<1>2. /\ UNCHANGED xTimerPeriodInTicks /\ UNCHANGED isActive /\ UNCHANGED isAutoReload
      /\ UNCHANGED exists /\ UNCHANGED xItemValue /\ UNCHANGED pxCurrentTimerList
      /\ UNCHANGED pxOverflowTimerList
  BY <1>1 DEF listVars, timerVars
<1>3. /\ xTickCount \in Ticks /\ xLastTime \in Ticks /\ daemon.xTimeNow \in Ticks /\ daemon \in Daemon
      /\ stall \in Nat /\ stall <= MaxStall /\ 1 \in Ticks
      /\ daemon.wake \in 0 .. TickRange
  BY <1>0, Widths DEF TypeInv, Daemon, Forever
<1>m. /\ received \in Message \cup {NoMessage}
      /\ received' = IF received = NoMessage THEN NoMessage
                     ELSE [received EXCEPT !.age = received.age + 1]
  <2>1. received \in Message \cup {NoMessage}
    BY <1>0, Messages
  <2>2. received' = [received EXCEPT !.age = IF received = NoMessage THEN @ ELSE @ + 1]
    BY <1>1, <1>3 DEF received, Daemon
  <2>3. CASE received = NoMessage
    BY <2>1, <2>2, <2>3 DEF NoMessage
  <2>4. CASE received # NoMessage
    BY <2>1, <2>2, <2>4
  <2>. QED  BY <2>3, <2>4
<1>r. /\ received' # NoMessage <=> received # NoMessage
      /\ received'.timer = received.timer /\ received'.command = received.command
      /\ received # NoMessage => /\ received \in Message /\ received' \in Message
                                 /\ received'.age = received.age + 1 /\ received.age \in Nat
                                 /\ received'.value = received.value
  <2>1. CASE received = NoMessage
    BY <1>m, <2>1
  <2>2. CASE received # NoMessage
    <3>1. received \in Message /\ received' = [received EXCEPT !.age = received.age + 1]
          /\ received.age \in Ticks
      BY <1>m, <2>2 DEF Message
    <3>2. received.age + 1 \in Ticks /\ received.age \in Nat
      BY <1>1, <3>1, Widths
    <3>3. received' \in Message
      BY <3>1, <3>2 DEF Message
    <3>. QED  BY <1>0, <2>2, <3>1, <3>2, <3>3, Messages DEF Message
  <2>. QED  BY <2>1, <2>2
<1>a. /\ daemon' \in Daemon
      /\ daemon'.step = daemon.step /\ daemon'.timer = daemon.timer /\ daemon'.after = daemon.after
      /\ daemon'.caller = daemon.caller /\ daemon'.xTimeNow = daemon.xTimeNow
      /\ daemon'.until = daemon.until /\ daemon'.xExpiredTime = daemon.xExpiredTime
      /\ daemon'.xListWasEmpty = daemon.xListWasEmpty
      /\ daemon'.xNextExpireTime = daemon.xNextExpireTime /\ daemon'.suspended = daemon.suspended
      /\ daemon'.wake = IF daemon.wake \in {0, Forever} THEN daemon.wake ELSE daemon.wake - 1
  <2>. DEFINE wakes == IF daemon.wake \in {0, Forever} THEN daemon.wake ELSE daemon.wake - 1
  <2>1. daemon' = [daemon EXCEPT !.wake = wakes, !.message = received']
    <3>1. received' = daemon'.message
      BY DEF received
    <3>. QED  BY <1>1, <1>3, <3>1 DEF Daemon
  <2>2. wakes \in 0 .. Forever
    BY <1>3, Widths DEF Forever
  <2>3. received' \in Message \cup {NoMessage}
    BY <1>r
  <2>. HIDE DEF wakes
  <2>4. daemon' \in Daemon
    BY <1>3, <2>1, <2>2, <2>3 DEF Daemon
  <2>. QED  BY <1>3, <2>1, <2>4 DEF Daemon, wakes
<1>b. /\ Switching' <=> Switching
      /\ \A u : /\ Reloading(u)' = Reloading(u) /\ Calling(u)' = Calling(u)
                /\ InCurrent(u)' = InCurrent(u) /\ InOverflow(u)' = InOverflow(u)
                /\ OnList(u)' = OnList(u) /\ ExpiresAt(u)' = ExpiresAt(u)
      /\ NoneListed' = NoneListed
  BY <1>2, <1>a DEF Switching, Reloading, Calling, At, InCurrent, InOverflow, OnList, ExpiresAt, NoneListed
<1>w. /\ ~At("decide")
      /\ ~At("asleep") \/ daemon.wake = 0 => stall' = stall + 1 /\ stall < MaxStall
      /\ stall' \in 0 .. MaxStall
  BY <1>0, <1>1, <1>3, Widths DEF Awake, DaemonInv
<1>d. daemon.timer # NoTimer => daemon.step \in {"reload", "callback"}
  BY <1>0, <1>3, TimersAssumption DEF DaemonInv, Daemon
<1>4. Switching => /\ ~At("asleep") /\ Minus(xTickCount, daemon.xTimeNow) = stall
                   /\ Minus(xTickCount', daemon.xTimeNow) = stall + 1
  <2>. SUFFICES ASSUME Switching PROVE /\ ~At("asleep") /\ Minus(xTickCount, daemon.xTimeNow) = stall
                                       /\ Minus(xTickCount', daemon.xTimeNow) = stall + 1
    OBVIOUS
  <2>1. ~At("asleep")
    BY <1>0 DEF Switching, DaemonInv, At
  <2>2. Minus(xTickCount, daemon.xTimeNow) = stall /\ stall < MaxStall
    BY <1>0, <1>w, <2>1 DEF ClockInv
  <2>3. stall < portMAX_DELAY
    BY <1>3, <2>2, Widths
  <2>. QED  BY <1>1, <1>3, <2>1, <2>2, <2>3, TickMovesOn
<1>. DEFINE since == Minus(xTickCount, xLastTime)
<1>5. /\ since \in Nat
      /\ since < portMAX_DELAY => Minus(xTickCount', xLastTime) = since + 1
  BY <1>0, <1>1, <1>3, ClockTypes, TickMovesOn, Widths
<1>6. ~Switching /\ (At("apply") \/ daemon.timer # NoTimer) =>
        since = stall /\ since < portMAX_DELAY /\ ~At("asleep")
  BY <1>0, <1>3, <1>d, <1>w, Widths DEF ClockInv, At
<1>7. ~Switching /\ ~NoneListed =>
        /\ since < portMAX_DELAY
        /\ IF At("asleep") /\ daemon.wake > 0
             THEN since + daemon.wake <= portMAX_DELAY - MaxStall /\ daemon.wake # Forever
             ELSE since <= portMAX_DELAY - MaxStall + stall
  <2>. SUFFICES ASSUME ~Switching, ~NoneListed
                PROVE  /\ since < portMAX_DELAY
                       /\ IF At("asleep") /\ daemon.wake > 0
                            THEN since + daemon.wake <= portMAX_DELAY - MaxStall /\ daemon.wake # Forever
                            ELSE since <= portMAX_DELAY - MaxStall + stall
    OBVIOUS
  <2>1. IF At("asleep") /\ daemon.wake > 0
          THEN since + daemon.wake <= portMAX_DELAY - MaxStall
          ELSE since <= portMAX_DELAY - MaxStall + stall
    BY <1>0 DEF ClockInv
  <2>2. At("asleep") => daemon.wake # Forever
    BY <1>0 DEF SleepInv
  <2>. HIDE DEF since
  <2>3. CASE At("asleep") /\ daemon.wake > 0
    BY <1>3, <1>5, <2>1, <2>2, <2>3, Widths
  <2>4. CASE ~(At("asleep") /\ daemon.wake > 0)
    <3>1. stall < MaxStall
      BY <1>3, <1>w, <2>4
    <3>. QED  BY <1>3, <1>5, <2>1, <2>4, <3>1, Widths
  <2>. QED  BY <2>3, <2>4
<1>c. ~NoneListed \/ daemon.timer # NoTimer => xNow' = xNow + 1
  <2>. SUFFICES ASSUME ~NoneListed \/ daemon.timer # NoTimer PROVE xNow' = xNow + 1
    OBVIOUS
  <2>1. CASE Switching
    <3>1. xNow = TickRange + daemon.xTimeNow + stall
      BY <2>1 DEF xNow
    <3>2. xNow' = TickRange + daemon.xTimeNow + (stall + 1)
      BY <1>4, <1>a, <1>b, <1>w, <2>1 DEF xNow
    <3>. QED  BY <1>3, <3>1, <3>2, Widths
  <2>2. CASE ~Switching
    <3>1. xNow = xLastTime + since
      BY <2>2 DEF xNow
    <3>2. xNow' = xLastTime + (since + 1)
      BY <1>1, <1>5, <1>6, <1>7, <1>b, <2>2 DEF xNow
    <3>. HIDE DEF since
    <3>. QED  BY <1>3, <1>5, <3>1, <3>2, Widths
  <2>. QED  BY <2>1, <2>2
<1>t. ASSUME NEW t \in Timer
      PROVE  /\ remaining'[t] \in Nat /\ owed'[t] \in Nat /\ owed'[t] >= owed[t]
             /\ remaining'[t] <= xTimerPeriodInTicks[t]
             /\ remaining[t] > 0 => remaining'[t] > 0 /\ DueIn(t)' = DueIn(t) - 1
             /\ remaining[t] = 0 => remaining'[t] = 0 /\ owed'[t] = owed[t]
  <2>1. remaining[t] \in Nat /\ owed[t] \in Nat /\ xTimerPeriodInTicks[t] \in Nat
    BY <1>0, PeriodBounds, Widths DEF TypeInv
  <2>2. CASE remaining[t] > 0
    BY <1>0, <1>2, <1>b, <2>1, <2>2, OneTickNearer
  <2>3. CASE remaining[t] = 0
    BY <1>1, <2>1, <2>3 DEF Dormant
  <2>. QED  BY <2>1, <2>2, <2>3
<1>8. TypeInv'
  <2>1. xTickCount' \in Ticks
    BY <1>1, <1>3, TickArithmetic
  <2>2. remaining' \in [Timer -> Nat] /\ owed' \in [Timer -> Nat]
    BY <1>1, <1>t
  <2>3. \A t \in Timer : remaining'[t] <= xTimerPeriodInTicks'[t]
    BY <1>2, <1>t
  <2>. QED  BY <1>0, <1>1, <1>2, <1>a, <1>w, <2>1, <2>2, <2>3 DEF TypeInv
<1>p. ASSUME NEW x \in Message, NEW y \in Message, Pending(x, xTickCount, exists),
             y.timer = x.timer, y.command = x.command, y.value = x.value, y.age = x.age + 1,
             x.age < portMAX_DELAY
      PROVE  Pending(y, xTickCount', exists')
  <2>1. x.value \in Ticks
    BY DEF Message
  <2>2. x.command = "start" => Minus(xTickCount', x.value) = x.age + 1
    BY <1>1, <1>3, <1>p, <2>1, TickMovesOn DEF Pending
  <2>. QED  BY <1>2, <1>p, <2>2 DEF Pending
<1>9. QueueInv'
  <2>. DEFINE q == xTimerQueue
              n == Len(q)
  <2>1. q \in Seq(Message) /\ n \in Nat /\ DOMAIN q = 1 .. n
    BY <1>0 DEF QueueInv
  <2>2. DOMAIN xTimerQueue' = 1 .. n
    BY <1>1, <2>1
  <2>3. \A i \in 1 .. n : /\ q[i] \in Message /\ xTimerQueue'[i] \in Message
                          /\ xTimerQueue'[i].timer = q[i].timer
                          /\ xTimerQueue'[i].command = q[i].command
                          /\ xTimerQueue'[i].value = q[i].value
                          /\ xTimerQueue'[i].age = q[i].age + 1
    <3>. SUFFICES ASSUME NEW i \in 1 .. n
                  PROVE  /\ q[i] \in Message /\ xTimerQueue'[i] \in Message
                         /\ xTimerQueue'[i].timer = q[i].timer
                         /\ xTimerQueue'[i].command = q[i].command
                         /\ xTimerQueue'[i].value = q[i].value
                         /\ xTimerQueue'[i].age = q[i].age + 1
      OBVIOUS
    <3>1. q[i] \in Message /\ q[i].age < portMAX_DELAY
      BY <1>1, <2>1, ElementOfSeq
    <3>2. xTimerQueue'[i] = [q[i] EXCEPT !.age = q[i].age + 1]
      BY <1>1, <2>1
    <3>3. q[i].age \in Ticks /\ q[i].age + 1 \in Ticks
      BY <3>1, Widths DEF Message
    <3>. HIDE DEF q
    <3>. QED  BY <3>1, <3>2, <3>3 DEF Message
  <2>4. xTimerQueue' \in Seq(Message) /\ Len(xTimerQueue') = n
    <3>1. xTimerQueue' = [i \in 1 .. n |-> [q[i] EXCEPT !.age = q[i].age + 1]]
      BY <1>1, <2>1
    <3>2. \A i \in 1 .. n : [q[i] EXCEPT !.age = q[i].age + 1] \in Message
      BY <2>3, <3>1
    <3>. QED  BY <2>1, <3>1, <3>2
  <2>5. \A i \in 1 .. n : Pending(xTimerQueue'[i], xTickCount', exists')
    <3>. SUFFICES ASSUME NEW i \in 1 .. n PROVE Pending(xTimerQueue'[i], xTickCount', exists')
      OBVIOUS
    <3>1. Pending(q[i], xTickCount, exists) /\ q[i].age < portMAX_DELAY
      BY <1>0, <1>1, <2>1 DEF QueueInv
    <3>. QED  BY <1>p, <2>3, <3>1
  <2>6. received' # NoMessage => Pending(received', xTickCount', exists')
    <3>. SUFFICES ASSUME received' # NoMessage PROVE Pending(received', xTickCount', exists')
      OBVIOUS
    <3>1. Pending(received, xTickCount, exists)
      BY <1>0, <1>r DEF QueueInv
    <3>. QED  BY <1>1, <1>p, <1>r, <3>1
  <2>7. \A t \in Timer : Silent(t) => Silent(t)'
    BY <1>r, <2>1, <2>2, <2>3 DEF Silent
  <2>8. ASSUME NEW t \in Timer, ~exists'[t]
        PROVE  \/ \E i \in DOMAIN xTimerQueue' :
                    xTimerQueue'[i].timer = t /\ xTimerQueue'[i].command = "delete"
               \/ received'.timer = t /\ received'.command = "delete"
               \/ Silent(t)' /\ ~isActive'[t]
    <3>1. \/ \E i \in 1 .. n : q[i].timer = t /\ q[i].command = "delete"
          \/ received.timer = t /\ received.command = "delete"
          \/ Silent(t) /\ ~isActive[t]
      BY <1>0, <1>2, <2>1, <2>8 DEF QueueInv
    <3>. QED  BY <1>2, <1>r, <2>2, <2>3, <2>7, <3>1
  <2>9. \A i, j \in 1 .. n : i < j /\ xTimerQueue'[i].command = "delete"
                               => xTimerQueue'[j].timer # xTimerQueue'[i].timer
    BY <1>0, <2>1, <2>3 DEF QueueInv
  <2>10. received'.command = "delete" => \A j \in 1 .. n : xTimerQueue'[j].timer # received'.timer
    BY <1>0, <1>r, <2>1, <2>3 DEF QueueInv
  <2>11. n <= QueueLength
    BY <1>0 DEF QueueInv
  <2>. HIDE DEF q, n
  <2>. QED  BY <2>2, <2>4, <2>5, <2>6, <2>8, <2>9, <2>10, <2>11 DEF QueueInv
<1>10. DaemonInv'
  BY <1>0, <1>2, <1>a, <1>b, <1>r DEF DaemonInv, At
<1>11. ClockInv'
  <2>1. Switching' => Minus(xTickCount', daemon'.xTimeNow) = stall'
    BY <1>4, <1>a, <1>b, <1>w
  <2>2. ~At("decide")'
    BY <1>a, <1>w DEF At
  <2>3. At("apply")' => daemon'.xTimeNow = xLastTime'
    BY <1>0, <1>1, <1>a DEF ClockInv, At
  <2>4. received' # NoMessage /\ ~At("sample")' => received'.age >= stall'
    <3>. SUFFICES ASSUME received # NoMessage, ~At("sample") PROVE received'.age >= stall'
      BY <1>a, <1>r DEF At
    <3>1. received.age >= stall /\ ~At("asleep")
      BY <1>0 DEF ClockInv, DaemonInv, Switching, At
    <3>. QED  BY <1>3, <1>r, <1>w, <3>1
  <2>5. (At("apply")' \/ daemon'.timer # NoTimer) /\ ~Switching' => Minus(xTickCount', xLastTime') = stall'
    BY <1>1, <1>5, <1>6, <1>a, <1>b, <1>w DEF At
  <2>6. ~NoneListed' /\ ~Switching' =>
          IF At("asleep")' /\ daemon'.wake > 0
            THEN Minus(xTickCount', xLastTime') + daemon'.wake <= portMAX_DELAY - MaxStall
            ELSE Minus(xTickCount', xLastTime') <= portMAX_DELAY - MaxStall + stall'
    <3>. SUFFICES ASSUME ~NoneListed, ~Switching
                  PROVE  IF At("asleep") /\ daemon'.wake > 0
                           THEN (since + 1) + daemon'.wake <= portMAX_DELAY - MaxStall
                           ELSE since + 1 <= portMAX_DELAY - MaxStall + stall'
      BY <1>1, <1>5, <1>7, <1>a, <1>b DEF At
    <3>1. /\ since \in Nat /\ since < portMAX_DELAY
          /\ IF At("asleep") /\ daemon.wake > 0
               THEN since + daemon.wake <= portMAX_DELAY - MaxStall /\ daemon.wake # Forever
               ELSE since <= portMAX_DELAY - MaxStall + stall
      BY <1>5, <1>7
    <3>. HIDE DEF since
    <3>2. CASE At("asleep") /\ daemon.wake > 0
      <4>1. daemon'.wake = daemon.wake - 1
        BY <1>a, <3>1, <3>2
      <4>2. stall' \in Nat /\ daemon.wake \in Nat /\ portMAX_DELAY - MaxStall \in Nat
        BY <1>3, <1>w, Widths
      <4>3. since + daemon.wake <= portMAX_DELAY - MaxStall
        BY <3>1, <3>2
      <4>. HIDE DEF since
      <4>4. (since + 1) + daemon'.wake <= portMAX_DELAY - MaxStall
        BY <3>1, <4>1, <4>2, <4>3
      <4>5. ~(daemon'.wake > 0) => since + 1 <= portMAX_DELAY - MaxStall + stall'
        BY <3>1, <3>2, <4>1, <4>2, <4>3
      <4>. QED  BY <3>2, <4>4, <4>5
    <3>3. CASE ~(At("asleep") /\ daemon.wake > 0)
      <4>1. stall' = stall + 1 /\ ~(At("asleep") /\ daemon'.wake > 0)
        BY <1>3, <1>a, <1>w, <3>3
      <4>. QED  BY <1>3, <3>1, <3>3, <4>1, Widths
    <3>. QED  BY <3>2, <3>3
  <2>. QED  BY <2>1, <2>2, <2>3, <2>4, <2>5, <2>6 DEF ClockInv
<1>12. ListInv'
  BY <1>0, <1>2, <1>b, <1>r DEF ListInv, Sorted
<1>13. DueInv'
  <2>. SUFFICES ASSUME NEW t \in Timer PROVE TimerDue(t)'
    BY DEF DueInv
  <2>1. TimerDue(t) /\ remaining[t] \in Nat /\ xNow \in Int /\ owed[t] \in Nat
    BY <1>0, ClockTypes DEF DueInv, TypeInv
  <2>2. OnList(t) => ~NoneListed
    BY EmptySet DEF OnList, InCurrent, InOverflow, NoneListed
  <2>3. Reloading(t) => daemon.timer # NoTimer
    BY TimersAssumption DEF Reloading
  <2>4. OnList(t) \/ Reloading(t) => /\ remaining'[t] > 0 /\ xNow' + DueIn(t)' = xNow + DueIn(t)
    <3>. SUFFICES ASSUME OnList(t) \/ Reloading(t)
                  PROVE  remaining'[t] > 0 /\ xNow' + DueIn(t)' = xNow + DueIn(t)
      OBVIOUS
    <3>1. remaining[t] > 0
      BY <2>1 DEF TimerDue
    <3>2. Unhandled(t) \in Int
      BY <2>1 DEF Unhandled
    <3>3. DueIn(t) \in Int
      BY <1>0, <3>1, <3>2, DueTells
    <3>. QED  BY <1>c, <1>t, <2>1, <2>2, <2>3, <3>1, <3>3
  <2>5. Unhandled(t) = 0 /\ remaining[t] = 0 => Unhandled(t)' = 0 /\ remaining'[t] = 0
    BY <1>b, <1>t DEF Unhandled
  <2>6. Calling(t)' => owed'[t] > 0
    <3>1. owed'[t] \in Nat /\ owed'[t] >= owed[t]
      BY <1>t
    <3>. QED  BY <1>b, <2>1, <3>1 DEF TimerDue
  <2>. QED  BY <1>1, <1>a, <1>b, <1>r, <2>1, <2>4, <2>5, <2>6 DEF TimerDue, Dormant
<1>14. SleepInv'
  <2>. SUFFICES ASSUME At("asleep")
                PROVE  /\ NoneListed <=> daemon'.wake = Forever
                       /\ daemon'.wake > 0 =>
                            \A t \in Timer : OnList(t) => xNow' + daemon'.wake <= ExpiresAt(t)
    BY <1>a, <1>b DEF SleepInv, At
  <2>1. NoneListed <=> daemon.wake = Forever
    BY <1>0 DEF SleepInv
  <2>2. daemon'.wake = Forever <=> daemon.wake = Forever
    BY <1>3, <1>a, Widths DEF Forever
  <2>3. ASSUME daemon'.wake > 0, NEW t \in Timer, OnList(t) PROVE xNow' + daemon'.wake <= ExpiresAt(t)
    <3>1. ~NoneListed
      BY <2>3, EmptySet DEF OnList, InCurrent, InOverflow, NoneListed
    <3>2. daemon.wake > 0 /\ daemon'.wake = daemon.wake - 1
      BY <1>3, <1>a, <2>1, <2>3, <3>1, Widths DEF Forever
    <3>3. xNow + daemon.wake <= ExpiresAt(t)
      BY <1>0, <2>3, <3>2 DEF SleepInv
    <3>4. xNow' = xNow + 1 /\ xNow \in Int
      BY <1>0, <1>c, <3>1, ClockTypes
    <3>. QED  BY <1>3, <3>2, <3>3, <3>4, Widths
  <2>. QED  BY <2>1, <2>2, <2>3
<1>. QED  BY <1>8, <1>9, <1>10, <1>11, <1>12, <1>13, <1>14 DEF TimersInv

-----------------------------------------------------------------------------
(* The invariant holds, and what follows from it. *)

\* A command that was held up before it came into the queue says so by the
\* tick count it carries.
LEMMA HeldUp ==
  ASSUME NEW now \in Ticks, NEW held \in Ticks
  PROVE  Minus(now, held) \in Ticks /\ Minus(now, Minus(now, held)) = held
BY TickRangeAssumption DEF Minus, Ticks, portMAX_DELAY

LEMMA TimersNext ==
  ASSUME TimersInv, [Next]_vars
  PROVE  TimersInv'
<1>0. TypeInv /\ xTickCount \in Ticks
  BY DEF TimersInv, TypeInv
<1>1. CASE DaemonStep
  <2>1. CASE GetNextExpireTime
    BY <2>1, GetNextExpireTimeKeeps
  <2>2. CASE SampleTimeNow
    BY <2>2, SampleTimeNowKeeps
  <2>3. CASE SwitchExpired
    BY <2>3, SwitchExpiredKeeps
  <2>4. CASE SwitchTimerLists
    BY <2>4, SwitchTimerListsKeeps
  <2>5. CASE ExpireNext
    BY <2>5, ExpireNextKeeps
  <2>6. CASE Sleep
    BY <2>6, SleepKeeps
  <2>7. CASE WakeUp \/ NoMoreCommands
    BY <2>7, WakeUpKeeps
  <2>8. CASE ReloadTimer
    BY <2>8, ReloadTimerKeeps
  <2>9. CASE Callback
    BY <2>9, CallbackKeeps
  <2>10. CASE ReceiveCommand
    BY <2>10, ReceiveCommandKeeps
  <2>11. CASE ApplyStart
    BY <2>11, ApplyStartKeeps
  <2>12. CASE ApplyStop
    BY <2>12, ApplyStopKeeps
  <2>13. CASE ApplyChangePeriod
    BY <2>13, ApplyChangePeriodKeeps
  <2>. QED
    BY <1>1, <2>1, <2>2, <2>3, <2>4, <2>5, <2>6, <2>7, <2>8, <2>9, <2>10, <2>11, <2>12, <2>13
       DEF DaemonStep
<1>2. CASE Others
  <2>. SUFFICES ASSUME NEW t \in Timer,
                       \/ \E held \in SendDelays : xTimerStart(t, held)
                       \/ \E c \in {"stop", "delete"} \cap Calls : Command(t, c, 0, 0)
                       \/ "changePeriod" \in Calls /\ \E p \in Periods : Command(t, "changePeriod", p, 0)
                       \/ \E p \in Periods, r \in BOOLEAN : Create(t, p, r)
                       \/ "setReloadMode" \in Calls /\ \E r \in BOOLEAN : vTimerSetReloadMode(t, r)
                PROVE  TimersInv'
    BY <1>2 DEF Others
  <2>0. 0 \in Ticks
    BY Widths
  <2>1. ASSUME NEW held \in SendDelays, xTimerStart(t, held)
        PROVE  TimersInv'
    <3>1. held \in Ticks
      BY TimersAssumption DEF Ticks, portMAX_DELAY
    <3>2. Command(t, "start", Minus(xTickCount, held), held)
      BY <2>1 DEF xTimerStart
    <3>3. "start" \in Commands
      BY DEF Commands
    <3>. QED  BY <1>0, <3>1, <3>2, <3>3, HeldUp, CommandKeeps
  <2>2. ASSUME NEW c \in {"stop", "delete"}, Command(t, c, 0, 0)
        PROVE  TimersInv'
    <3>1. c \in Commands /\ c # "start" /\ c # "changePeriod"
      BY DEF Commands
    <3>. QED  BY <2>0, <2>2, <3>1, CommandKeeps
  <2>3. ASSUME NEW p \in Periods, Command(t, "changePeriod", p, 0)
        PROVE  TimersInv'
    <3>1. p \in Ticks /\ "changePeriod" \in Commands
      BY Widths DEF Commands
    <3>. QED  BY <2>0, <2>3, <3>1, CommandKeeps
  <2>. QED
    BY <2>1, <2>2, <2>3, CreateKeeps, SetReloadModeKeeps
<1>3. CASE Tick
  BY <1>3, TickKeeps
<1>4. CASE UNCHANGED vars
  <2>1. /\ UNCHANGED clockVars /\ UNCHANGED listVars /\ UNCHANGED timerVars
        /\ UNCHANGED xTimerQueue /\ UNCHANGED xLastTime /\ UNCHANGED daemon
    BY <1>4 DEF vars
  <2>2. DaemonInv' /\ ClockInv' /\ ListInv' /\ DueInv' /\ SleepInv'
    BY <2>1, StandStill DEF timerVars
  <2>3. TypeInv' /\ QueueInv'
    BY <2>1 DEF TimersInv, TypeInv, QueueInv, Silent, received, clockVars, listVars, timerVars
  <2>. QED  BY <2>2, <2>3 DEF TimersInv
<1>. QED  BY <1>1, <1>2, <1>3, <1>4 DEF Next

\* The invariant above holds at every step of the daemon, of the tasks that
\* send it commands, and of the tick.
THEOREM TimersInvariant == Spec => []TimersInv
<1>1. Init => TimersInv
  BY TimersInit
<1>2. TimersInv /\ [Next]_vars => TimersInv'
  BY TimersNext
<1>. QED  BY <1>1, <1>2, PTL DEF Spec

\* A callback is never called early, nor once too often.
THEOREM CallbacksNotEarly == Spec => []NeverEarly
<1>1. TimersInv => NeverEarly
  BY DEF TimersInv, TypeInv, NeverEarly
<1>. QED  BY <1>1, TimersInvariant, PTL

\* The daemon never sleeps past an expiry, whatever has wrapped: what is due
\* has been done when it goes to sleep, and it wakes before the next is due.
THEOREM DaemonNotLate == Spec => []NeverLate
<1>1. TimersInv => NeverLate
  <2>. SUFFICES ASSUME TimersInv, At("asleep"), ~Awake, NEW t \in Timer
                PROVE  owed[t] = 0 /\ (remaining[t] # Dormant => daemon.wake <= remaining[t])
    BY DEF NeverLate
  <2>0. TypeInv /\ DaemonInv /\ DueInv /\ SleepInv
    BY DEF TimersInv
  <2>1. daemon.wake > 0 /\ daemon.wake \in Nat
    BY <2>0, Widths DEF TypeInv, Daemon, Awake, Forever
  <2>2. ~Reloading(t) /\ ~Calling(t) /\ received.timer # t
    BY <2>0, Messages DEF Reloading, Calling, At, DaemonInv, Switching
  <2>3. Unhandled(t) = owed[t] /\ owed[t] \in Nat /\ remaining[t] \in Nat
    BY <2>0, <2>2 DEF Unhandled, TypeInv
  <2>4. CASE OnList(t)
    <3>1. remaining[t] > 0 /\ ExpiresAt(t) = xNow + DueIn(t) /\ xNow + daemon.wake <= ExpiresAt(t)
      BY <2>0, <2>1, <2>4 DEF DueInv, TimerDue, SleepInv
    <3>2. DueIn(t) \in Int /\ xNow \in Int
      BY <2>0, <2>2, DueWithinPeriod, ClockTypes
    <3>3. DueIn(t) >= daemon.wake /\ DueIn(t) > 0
      BY <2>1, <3>1, <3>2
    <3>4. owed[t] = 0
      BY <2>0, <2>3, <3>1, <3>3, DueTells
    <3>. QED  BY <2>0, <2>3, <3>1, <3>3, <3>4, DueTells
  <2>5. CASE ~OnList(t)
    BY <2>0, <2>2, <2>3, <2>5 DEF DueInv, TimerDue
  <2>. QED  BY <2>4, <2>5
<1>. QED  BY <1>1, TimersInvariant, PTL

LEMMA ConcatInjective ==
  ASSUME NEW S, NEW s \in Seq(S), NEW r \in Seq(S), IsInjective(s), IsInjective(r),
         ToSet(s) \cap ToSet(r) = {}
  PROVE  IsInjective(s \o r)
<1>1. /\ s \o r \in Seq(S) /\ Len(s \o r) = Len(s) + Len(r) /\ Len(s) \in Nat /\ Len(r) \in Nat
      /\ \A i \in 1 .. Len(s) : (s \o r)[i] = s[i]
      /\ \A i \in Len(s) + 1 .. Len(s) + Len(r) : (s \o r)[i] = r[i - Len(s)]
  BY ConcatProperties
<1>. DEFINE c == s \o r
<1>2. DOMAIN c = 1 .. Len(s) + Len(r) /\ DOMAIN s = 1 .. Len(s) /\ DOMAIN r = 1 .. Len(r)
  BY <1>1
<1>3. \A i \in 1 .. Len(s) : c[i] = s[i] /\ c[i] \in ToSet(s)
  BY <1>1, <1>2 DEF ToSet
<1>4. \A i \in DOMAIN c : i \notin 1 .. Len(s) =>
        i - Len(s) \in 1 .. Len(r) /\ c[i] = r[i - Len(s)] /\ c[i] \in ToSet(r)
  <2>. SUFFICES ASSUME NEW i \in DOMAIN c, i \notin 1 .. Len(s)
                PROVE  i - Len(s) \in 1 .. Len(r) /\ c[i] = r[i - Len(s)] /\ c[i] \in ToSet(r)
    OBVIOUS
  <2>1. i - Len(s) \in 1 .. Len(r) /\ i \in Len(s) + 1 .. Len(s) + Len(r)
    BY <1>1, <1>2
  <2>2. c[i] = r[i - Len(s)]
    BY <1>1, <2>1
  <2>. QED  BY <1>2, <2>1, <2>2 DEF ToSet
<1>. HIDE DEF c
<1>5. ASSUME NEW i \in DOMAIN c, NEW j \in DOMAIN c, c[i] = c[j] PROVE i = j
  <2>1. i \in 1 .. Len(s) <=> j \in 1 .. Len(s)
    BY <1>3, <1>4, <1>5
  <2>2. CASE i \in 1 .. Len(s)
    BY <1>2, <1>3, <1>5, <2>1, <2>2 DEF IsInjective
  <2>3. CASE i \notin 1 .. Len(s)
    <3>1. i - Len(s) = j - Len(s)
      BY <1>2, <1>4, <1>5, <2>1, <2>3 DEF IsInjective
    <3>. QED  BY <1>1, <1>2, <3>1
  <2>. QED  BY <2>2, <2>3
<1>. QED  BY <1>5 DEF IsInjective, c

\* Every variable keeps its type, the lists are apart and in the order of
\* expiry, and what xTimerIsTimerActive answers is what they say.
THEOREM ListsConsistent == Spec => []TimersConsistent
<1>1. TimersInv => TimersConsistent
  <2>. SUFFICES ASSUME TimersInv PROVE TimersTypeOK /\ ActiveIffListed
    BY DEF TimersConsistent
  <2>0. TypeInv /\ QueueInv /\ DaemonInv /\ ListInv
    BY DEF TimersInv
  <2>1. remaining \in [Timer -> Ticks]
    <3>1. \A t \in Timer : remaining[t] \in Ticks
      BY <2>0, PeriodBounds, Widths DEF TypeInv
    <3>. QED  BY <2>0, <3>1 DEF TypeInv
  <2>2. owed \in [Timer -> Int]
    BY <2>0 DEF TypeInv
  <2>3. Range(xTimerQueue) \subseteq Message
    BY <2>0, ElementOfSeq DEF QueueInv, Range
  <2>4. IsInjective(pxCurrentTimerList \o pxOverflowTimerList)
    BY <2>0, ConcatInjective DEF ListInv
  <2>5. \A list \in {pxCurrentTimerList, pxOverflowTimerList} : \A i, j \in DOMAIN list :
          i < j => xItemValue[list[i]] <= xItemValue[list[j]]
    BY <2>0 DEF ListInv, Sorted
  <2>6. TimersTypeOK
    BY <2>0, <2>1, <2>2, <2>3, <2>4, <2>5 DEF TimersTypeOK, TypeInv, QueueInv
  <2>7. ActiveIffListed
    <3>. SUFFICES ASSUME daemon.step \in {"next", "commands", "asleep"}, NEW t \in Timer
                  PROVE  isActive[t] <=> Listed(t)
      BY DEF ActiveIffListed
    <3>1. Listed(t) <=> OnList(t)
      BY <2>0, Members DEF Listed, OnList, InCurrent, InOverflow, ListInv
    <3>2. ~Reloading(t) /\ t # received.timer
      BY <2>0, Messages DEF Reloading, At, DaemonInv, Switching
    <3>. QED  BY <2>0, <3>1, <3>2 DEF ListInv
  <2>. QED  BY <2>6, <2>7
<1>. QED  BY <1>1, TimersInvariant, PTL
=============================================================================
