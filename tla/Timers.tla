------------------------------- MODULE Timers -------------------------------
(***************************************************************************)
(* The software timers of kernel/FreeRTOS/timers.c: the daemon task        *)
(* prvTimerTask, its two lists of active timers, which it exchanges when   *)
(* the tick count wraps, and the queue that brings it commands.            *)
(*                                                                         *)
(* Ticks and commands come between any two steps of the daemon; while it   *)
(* has the scheduler suspended only interrupts send commands, and the tick *)
(* count stands still.  That the queue is one, and that a task that waits  *)
(* is woken in time, is taken from Queues and Tasks.                       *)
(*                                                                         *)
(* "remaining" and "owed" are not in the code: they keep the time each     *)
(* timer has left by a clock that never wraps, and the expiries that its   *)
(* callback has not been called for.                                       *)
(***************************************************************************)
EXTENDS Lists

CONSTANTS
  Timer,
  TickRange,       \* 2^32 in the code
  Periods,         \* bound: the periods used
  Calls,           \* bound: the calls that are made, besides xTimerStart
  SendDelays,      \* bound: ticks a sender may be held up before its command is queued
  QueueLength,     \* configTIMER_QUEUE_LENGTH
  MaxStall,        \* the daemon, once it may run, samples the time within so many ticks
  MaxOwed,         \* bound: no timer falls further behind
  NoTimer

portMAX_DELAY == TickRange - 1
Ticks == 0 .. portMAX_DELAY

ASSUME TickRangeAssumption == TickRange \in Nat \ {0}

\* The daemon does not stall for a turn of the tick count, and a timer that is
\* due when it stalls is not due a whole turn later.
ASSUME TimersAssumption ==
  /\ MaxStall \in Nat /\ MaxStall < TickRange - 1
  /\ Periods \subseteq 1 .. TickRange - 1 - MaxStall
  /\ SendDelays \subseteq 0 .. TickRange - 1
  /\ QueueLength \in Nat
  /\ NoTimer \notin Timer

Forever == TickRange    \* the daemon waits for a command only
Dormant == 0

Commands == {"start", "stop", "changePeriod", "delete"}

VARIABLES
  xTickCount,
  pxCurrentTimerList, pxOverflowTimerList,
  xItemValue,              \* of each timer's list item: when it expires
  xTimerPeriodInTicks,
  isActive, isAutoReload,  \* ucStatus
  exists,                  \* created, and xTimerDelete not called
  xTimerQueue,
  xLastTime,               \* static local of prvSampleTimeNow
  daemon,                  \* where the daemon is, and its locals: see Daemon
  remaining, owed, stall

\* "next": prvGetNextExpireTime; "sample": prvSampleTimeNow; "switch": the loop
\* of prvSwitchTimerLists; "decide": prvProcessTimerOrBlockTask;
\* "reload": the loop of prvReloadTimer; "callback"; "asleep"; "commands",
\* "apply": prvProcessReceivedCommands.
Steps == {"next", "sample", "switch", "decide", "reload", "callback", "asleep",
          "commands", "apply"}

\* "age" is not in the code: the ticks since the command was sent.
Message == [timer : Timer, command : Commands, value : Ticks, age : Ticks]
NoMessage == [timer |-> NoTimer, command |-> "stop", value |-> 0, age |-> 0]

Daemon == [step : Steps, xNextExpireTime : Ticks, xListWasEmpty : BOOLEAN, xTimeNow : Ticks,
           caller : {"block", "command"}, suspended : BOOLEAN, timer : Timer \cup {NoTimer},
           xExpiredTime : Ticks, until : Ticks, after : {"switch", "commands"},
           wake : 0 .. Forever, message : Message \cup {NoMessage}]

\* The daemon at a step where no local of it is read again.
Fresh(step) ==
  [step |-> step, xNextExpireTime |-> 0, xListWasEmpty |-> TRUE, xTimeNow |-> 0,
   caller |-> "block", suspended |-> FALSE, timer |-> NoTimer, xExpiredTime |-> 0,
   until |-> 0, after |-> "commands", wake |-> 0, message |-> NoMessage]

clockVars == <<xTickCount, remaining, owed, stall>>
listVars  == <<pxCurrentTimerList, pxOverflowTimerList, xItemValue>>
timerVars == <<xTimerPeriodInTicks, isActive, isAutoReload, exists>>
vars == <<clockVars, listVars, timerVars, xTimerQueue, xLastTime, daemon>>

Init ==
  /\ xTickCount = 0 /\ xLastTime = 0 /\ stall = 0
  /\ pxCurrentTimerList = <<>> /\ pxOverflowTimerList = <<>>
  /\ xItemValue = [t \in Timer |-> 0]
  /\ xTimerPeriodInTicks \in [Timer -> Periods]
  /\ isActive = [t \in Timer |-> FALSE] /\ isAutoReload \in [Timer -> BOOLEAN]
  /\ exists = [t \in Timer |-> TRUE]
  /\ xTimerQueue = <<>>
  /\ remaining = [t \in Timer |-> Dormant] /\ owed = [t \in Timer |-> 0]
  /\ daemon = Fresh("next")

-----------------------------------------------------------------------------
(* Arithmetic of the tick count, and where a timer goes *)

Plus(a, b) == IF a + b > portMAX_DELAY THEN a + b - TickRange ELSE a + b
Minus(a, b) == IF a >= b THEN a - b ELSE a - b + TickRange

\* Mutant: a command that waited over the wrap of the tick count is not noticed.
PlacementNoWrap(period, xNextExpiryTime, xTimeNow, xCommandTime) ==
  IF xNextExpiryTime <= xTimeNow
    THEN IF Minus(xTimeNow, xCommandTime) >= period THEN "now" ELSE "overflow"
    ELSE "current"

\* prvInsertTimerInActiveList: "now" is its result pdTRUE.
Placement(period, xNextExpiryTime, xTimeNow, xCommandTime) ==
  IF xNextExpiryTime <= xTimeNow
    THEN IF Minus(xTimeNow, xCommandTime) >= period THEN "now" ELSE "overflow"
    ELSE IF xTimeNow < xCommandTime /\ xNextExpiryTime >= xCommandTime THEN "now" ELSE "current"

Insert(t, next, where) ==
  /\ xItemValue' = [xItemValue EXCEPT ![t] = next]
  /\ pxCurrentTimerList' = IF where = "current" THEN vListInsert(pxCurrentTimerList, t, xItemValue')
                                                ELSE pxCurrentTimerList
  /\ pxOverflowTimerList' = IF where = "overflow" THEN vListInsert(pxOverflowTimerList, t, xItemValue')
                                                  ELSE pxOverflowTimerList

Listed(t) == Contains(pxCurrentTimerList, t) \/ Contains(pxOverflowTimerList, t)

-----------------------------------------------------------------------------
(* The loop of prvTimerTask *)

At(s) == daemon.step = s
received == daemon.message

\* prvGetNextExpireTime
GetNextExpireTime ==
  /\ At("next")
  /\ daemon' = [Fresh("sample") EXCEPT
       !.xListWasEmpty = pxCurrentTimerList = <<>>,
       !.xNextExpireTime = IF pxCurrentTimerList = <<>> THEN 0
                           ELSE xItemValue[Head(pxCurrentTimerList)]]
  /\ UNCHANGED <<clockVars, listVars, timerVars, xTimerQueue, xLastTime>>

Wrapped == xTickCount < xLastTime

\* vTaskSuspendAll comes first when the daemon is about to block.
SampleTimeNow ==
  /\ At("sample")
  /\ stall' = 0
  /\ xLastTime' = IF Wrapped THEN xLastTime ELSE xTickCount
  /\ LET step == IF Wrapped THEN "switch" ELSE IF daemon.caller = "block" THEN "decide" ELSE "apply"
     IN  daemon' = [(IF step = "decide" THEN daemon ELSE Fresh(step)) EXCEPT
                    !.step = step, !.xTimeNow = xTickCount, !.suspended = daemon.caller = "block",
                    !.caller = daemon.caller, !.message = received]
  /\ UNCHANGED <<xTickCount, remaining, owed, listVars, timerVars, xTimerQueue>>

\* Mutant: a one-shot timer stays active.
StaysActive(t) == isActive
Deactivated(t) == [isActive EXCEPT ![t] = FALSE]

\* prvProcessExpiredTimer, up to the loop of prvReloadTimer or the callback.
\* A one-shot timer owes one callback, and nothing more.
ProcessExpiredTimer(expired, until, after) ==
  LET t == Head(pxCurrentTimerList)
  IN  /\ pxCurrentTimerList' = Tail(pxCurrentTimerList)
      /\ daemon' = [(IF after = "switch" THEN daemon ELSE Fresh("callback")) EXCEPT
                       !.timer = t, !.xExpiredTime = expired, !.until = until, !.after = after,
                       !.step = IF isAutoReload[t] THEN "reload" ELSE "callback"]
      /\ IF isAutoReload[t]
           THEN UNCHANGED <<isActive, remaining, owed>>
           ELSE /\ isActive' = Deactivated(t)
                /\ remaining' = [remaining EXCEPT ![t] = Dormant]
                /\ owed' = [owed EXCEPT ![t] = Min({@, 1})]
      /\ UNCHANGED <<xTickCount, stall, pxOverflowTimerList, xItemValue, xTimerPeriodInTicks,
                     isAutoReload, exists, xTimerQueue, xLastTime>>

\* tmrMAX_TIME_BEFORE_OVERFLOW
TimeBeforeWrap == portMAX_DELAY

\* prvSwitchTimerLists: whatever is left on the list has expired.
SwitchExpired ==
  /\ At("switch") /\ pxCurrentTimerList # <<>>
  /\ ProcessExpiredTimer(xItemValue[Head(pxCurrentTimerList)], TimeBeforeWrap, "switch")

SwitchTimerLists ==
  /\ At("switch") /\ pxCurrentTimerList = <<>>
  /\ pxCurrentTimerList' = pxOverflowTimerList /\ pxOverflowTimerList' = <<>>
  /\ xLastTime' = daemon.xTimeNow
  /\ daemon' = IF daemon.caller = "block" THEN Fresh("commands")
               ELSE [Fresh("apply") EXCEPT !.xTimeNow = daemon.xTimeNow, !.caller = "command",
                                           !.message = received]
  /\ UNCHANGED <<clockVars, xItemValue, timerVars, xTimerQueue>>

Expired == ~daemon.xListWasEmpty /\ daemon.xNextExpireTime <= daemon.xTimeNow

\* xTaskResumeAll and prvProcessExpiredTimer
ExpireNext ==
  /\ At("decide") /\ Expired
  /\ ProcessExpiredTimer(daemon.xNextExpireTime, daemon.xTimeNow, "commands")

WaitIndefinitely == daemon.xListWasEmpty /\ pxOverflowTimerList = <<>>

\* vQueueWaitForMessageRestricted: not with a command in the queue.
Sleep ==
  /\ At("decide") /\ ~Expired
  /\ daemon' = IF xTimerQueue # <<>> THEN Fresh("commands")
               ELSE [Fresh("asleep") EXCEPT
                      !.wake = IF WaitIndefinitely THEN Forever
                               ELSE Minus(daemon.xNextExpireTime, daemon.xTimeNow)]
  /\ UNCHANGED <<clockVars, listVars, timerVars, xTimerQueue, xLastTime>>

Awake == ~At("asleep") \/ xTimerQueue # <<>> \/ daemon.wake = 0

WakeUp ==
  /\ At("asleep") /\ Awake
  /\ daemon' = Fresh("commands")
  /\ UNCHANGED <<clockVars, listVars, timerVars, xTimerQueue, xLastTime>>

\* prvReloadTimer, one turn: while the next expiry is past as well, the
\* callback is called and the time advanced.
ReloadTimer ==
  LET t     == daemon.timer
      next  == Plus(daemon.xExpiredTime, xTimerPeriodInTicks[t])
      where == Placement(xTimerPeriodInTicks[t], next, daemon.until, daemon.xExpiredTime)
  IN  /\ At("reload")
      /\ Insert(t, next, where)
      /\ IF where = "now"
           THEN /\ owed' = [owed EXCEPT ![t] = @ - 1]
                /\ daemon' = [daemon EXCEPT !.xExpiredTime = next]
           ELSE /\ daemon' = [daemon EXCEPT !.step = "callback", !.xExpiredTime = 0, !.until = 0]
                /\ UNCHANGED owed
      /\ UNCHANGED <<xTickCount, remaining, stall, timerVars, xTimerQueue, xLastTime>>

Callback ==
  /\ At("callback")
  /\ owed' = [owed EXCEPT ![daemon.timer] = @ - 1]
  /\ daemon' = IF daemon.after = "commands" THEN Fresh("commands")
               ELSE [daemon EXCEPT !.step = "switch", !.timer = NoTimer, !.xExpiredTime = 0,
                                   !.until = 0, !.after = "commands"]
  /\ UNCHANGED <<xTickCount, remaining, stall, listVars, timerVars, xTimerQueue, xLastTime>>

-----------------------------------------------------------------------------
(* prvProcessReceivedCommands *)

Unlisted(list, t) == Without(list, t)

\* The timer leaves its list before the time is sampled.
ReceiveCommand ==
  /\ At("commands") /\ xTimerQueue # <<>>
  /\ LET t == Head(xTimerQueue).timer
     IN  /\ pxCurrentTimerList' = Unlisted(pxCurrentTimerList, t)
         /\ pxOverflowTimerList' = Unlisted(pxOverflowTimerList, t)
  /\ daemon' = [Fresh("sample") EXCEPT !.caller = "command", !.message = Head(xTimerQueue)]
  /\ xTimerQueue' = Tail(xTimerQueue)
  /\ UNCHANGED <<clockVars, xItemValue, timerVars, xLastTime>>

NoMoreCommands ==
  /\ At("commands") /\ xTimerQueue = <<>>
  /\ daemon' = Fresh("next")
  /\ UNCHANGED <<clockVars, listVars, timerVars, xTimerQueue, xLastTime>>

\* Periods that ended while the command waited, and what is left of the next.
Missed(period, age) == age \div period
Left(period, age) == period - (age % period)

\* tmrCOMMAND_START and tmrCOMMAND_RESET, also from an interrupt.
ApplyStart ==
  LET t      == received.timer
      period == xTimerPeriodInTicks[t]
      next   == Plus(received.value, period)
      where  == Placement(period, next, daemon.xTimeNow, received.value)
      oneShot == where = "now" /\ ~isAutoReload[t]
  IN  /\ At("apply") /\ received.command = "start"
      /\ Insert(t, next, where)
      /\ isActive' = [isActive EXCEPT ![t] = ~oneShot]
      /\ remaining' = [remaining EXCEPT ![t] = IF oneShot THEN Dormant ELSE Left(period, received.age)]
      /\ owed' = [owed EXCEPT ![t] = IF oneShot THEN Min({Missed(period, received.age), 1})
                                                ELSE Missed(period, received.age)]
      /\ daemon' = IF where # "now" THEN Fresh("commands")
                   ELSE IF oneShot THEN [Fresh("callback") EXCEPT !.timer = t]
                   ELSE [Fresh("reload") EXCEPT !.timer = t, !.xExpiredTime = next,
                                                !.until = daemon.xTimeNow]
      /\ UNCHANGED <<xTickCount, stall, xTimerPeriodInTicks, isAutoReload, exists, xTimerQueue,
                     xLastTime>>

Stopped(t) ==
  /\ isActive' = [isActive EXCEPT ![t] = FALSE]
  /\ remaining' = [remaining EXCEPT ![t] = Dormant] /\ owed' = [owed EXCEPT ![t] = 0]

\* tmrCOMMAND_STOP; tmrCOMMAND_DELETE gives the memory back as well.
ApplyStop ==
  /\ At("apply") /\ received.command \in {"stop", "delete"}
  /\ Stopped(received.timer)
  /\ daemon' = Fresh("commands")
  /\ UNCHANGED <<xTickCount, stall, listVars, xTimerPeriodInTicks, isAutoReload, exists,
                 xTimerQueue, xLastTime>>

\* Mutant: the period counts from when the timer was last started.
FromLastStart(t) == xItemValue[t]
FromNow(t) == daemon.xTimeNow

\* tmrCOMMAND_CHANGE_PERIOD: from the time it is processed.
ApplyChangePeriod ==
  LET next  == Plus(FromNow(received.timer), received.value)
      where == Placement(received.value, next, daemon.xTimeNow, daemon.xTimeNow)
      late  == Minus(xTickCount, daemon.xTimeNow)     \* ticks since the sample
  IN  /\ At("apply") /\ received.command = "changePeriod"
      /\ xTimerPeriodInTicks' = [xTimerPeriodInTicks EXCEPT ![received.timer] = received.value]
      /\ isActive' = [isActive EXCEPT ![received.timer] = TRUE]
      /\ Insert(received.timer, next, where)
      /\ remaining' = [remaining EXCEPT ![received.timer] = Left(received.value, late)]
      /\ owed' = [owed EXCEPT ![received.timer] = Missed(received.value, late)]
      /\ daemon' = Fresh("commands")
      /\ UNCHANGED <<xTickCount, stall, isAutoReload, exists, xTimerQueue, xLastTime>>

-----------------------------------------------------------------------------
(* What tasks, callbacks and interrupts do, and the tick *)

\* xTimerGenericCommand, when the queue has room.  A timer is not used after
\* xTimerDelete; a period is not 0, which ApplyChangePeriod asserts.
Command(t, command, value, age) ==
  /\ exists[t] /\ Len(xTimerQueue) < QueueLength
  /\ xTimerQueue' = Append(xTimerQueue, [timer |-> t, command |-> command, value |-> value, age |-> age])
  /\ exists' = [exists EXCEPT ![t] = command # "delete"]
  /\ UNCHANGED <<clockVars, listVars, xTimerPeriodInTicks, isActive, isAutoReload, xLastTime, daemon>>

\* xTimerCreate, once the deletion is through.
Create(t, period, reload) ==
  /\ ~exists[t] /\ ~daemon.suspended
  /\ \A i \in DOMAIN xTimerQueue : xTimerQueue[i].timer # t
  /\ received.timer # t
  /\ exists' = [exists EXCEPT ![t] = TRUE]
  /\ xTimerPeriodInTicks' = [xTimerPeriodInTicks EXCEPT ![t] = period]
  /\ isAutoReload' = [isAutoReload EXCEPT ![t] = reload]
  /\ xItemValue' = [xItemValue EXCEPT ![t] = 0]
  /\ UNCHANGED <<clockVars, pxCurrentTimerList, pxOverflowTimerList, isActive, xTimerQueue,
                 xLastTime, daemon>>

\* xTimerStart and xTimerReset read the tick count before they wait for room
\* in the queue; the daemon may see the count wrap before the command comes.
xTimerStart(t, held) == Command(t, "start", Minus(xTickCount, held), held)

vTimerSetReloadMode(t, reload) ==
  /\ exists[t] /\ ~daemon.suspended /\ isAutoReload[t] # reload
  /\ isAutoReload' = [isAutoReload EXCEPT ![t] = reload]
  /\ UNCHANGED <<clockVars, listVars, xTimerPeriodInTicks, isActive, exists, xTimerQueue,
                 xLastTime, daemon>>

\* The daemon runs within MaxStall ticks; no command waits for a whole turn of
\* the tick count.
Tick ==
  /\ ~daemon.suspended
  /\ Awake => stall < MaxStall
  /\ \A i \in DOMAIN xTimerQueue : xTimerQueue[i].age < portMAX_DELAY
  /\ received.age < portMAX_DELAY /\ \A t \in Timer : owed[t] < MaxOwed
  /\ xTickCount' = Plus(xTickCount, 1)
  /\ stall' = IF Awake THEN stall + 1 ELSE 0
  /\ remaining' = [t \in Timer |-> IF remaining[t] = 1 THEN xTimerPeriodInTicks[t]
                                   ELSE IF remaining[t] = Dormant THEN Dormant ELSE remaining[t] - 1]
  /\ owed' = [t \in Timer |-> IF remaining[t] = 1 THEN owed[t] + 1 ELSE owed[t]]
  /\ xTimerQueue' = [i \in DOMAIN xTimerQueue |-> [xTimerQueue[i] EXCEPT !.age = @ + 1]]
  /\ daemon' = [daemon EXCEPT !.wake = IF @ \in {0, Forever} THEN @ ELSE @ - 1,
                              !.message.age = IF received = NoMessage THEN @ ELSE @ + 1]
  /\ UNCHANGED <<listVars, timerVars, xLastTime>>

-----------------------------------------------------------------------------

DaemonStep ==
  \/ GetNextExpireTime \/ SampleTimeNow \/ SwitchExpired \/ SwitchTimerLists \/ ExpireNext
  \/ Sleep \/ WakeUp \/ ReloadTimer \/ Callback \/ ReceiveCommand \/ NoMoreCommands
  \/ ApplyStart \/ ApplyStop \/ ApplyChangePeriod

Others ==
  \E t \in Timer :
    \/ \E held \in SendDelays : xTimerStart(t, held)
    \/ \E c \in {"stop", "delete"} \cap Calls : Command(t, c, 0, 0)
    \/ "changePeriod" \in Calls /\ \E p \in Periods : Command(t, "changePeriod", p, 0)
    \/ \E p \in Periods, r \in BOOLEAN : Create(t, p, r)
    \/ "setReloadMode" \in Calls /\ \E r \in BOOLEAN : vTimerSetReloadMode(t, r)

Next == DaemonStep \/ Others \/ Tick

Spec == Init /\ [][Next]_vars

-----------------------------------------------------------------------------
(* Properties *)

\* Every variable keeps its type; a timer is on one list at most, and each
\* list is in the order of expiry.
TimersTypeOK ==
  /\ xTickCount \in Ticks /\ xLastTime \in Ticks /\ stall \in 0 .. MaxStall
  /\ xItemValue \in [Timer -> Ticks] /\ xTimerPeriodInTicks \in [Timer -> Periods]
  /\ isActive \in [Timer -> BOOLEAN] /\ isAutoReload \in [Timer -> BOOLEAN]
  /\ exists \in [Timer -> BOOLEAN] /\ daemon \in Daemon
  /\ remaining \in [Timer -> Ticks] /\ owed \in [Timer -> Int]
  /\ Len(xTimerQueue) <= QueueLength /\ Range(xTimerQueue) \subseteq Message
  /\ IsInjective(pxCurrentTimerList \o pxOverflowTimerList)
  /\ \A list \in {pxCurrentTimerList, pxOverflowTimerList} : \A i, j \in DOMAIN list :
       i < j => xItemValue[list[i]] <= xItemValue[list[j]]

\* A callback is never called early, nor once too often: not for a command
\* that waited over the wrap of the tick count, not for expiries that
\* prvReloadTimer catches up with, not when the lists are exchanged.
NeverEarly == \A t \in Timer : owed[t] >= 0

\* The daemon never sleeps past an expiry: when it waits, every callback that
\* was due has been called, and it wakes before the next one is due; for ever
\* it waits only when no timer runs.
NeverLate ==
  At("asleep") /\ ~Awake =>
    \A t \in Timer : owed[t] = 0 /\ (remaining[t] # Dormant => daemon.wake <= remaining[t])

\* What xTimerIsTimerActive answers is what the lists say, whenever the daemon
\* is not in the middle of a command or an expiry.
ActiveIffListed ==
  daemon.step \in {"next", "commands", "asleep"} => \A t \in Timer : isActive[t] <=> Listed(t)

\* The two lists are sorted and apart, and hold the active timers.
TimersConsistent == TimersTypeOK /\ ActiveIffListed
=============================================================================
