------------------------------- MODULE Queues -------------------------------
(***************************************************************************)
(* One queue of kernel/FreeRTOS/queue.c, over the scheduler Kernel: the    *)
(* blocking calls of tasks, the calls of interrupt handlers, the queue     *)
(* lock that keeps the handlers off the lists of waiters, and the timeout. *)
(* A step is one critical section, one uninterruptible access to a shared  *)
(* variable, or one call of the kernel; interrupts and, unless the         *)
(* scheduler is suspended, other tasks run between any two steps.          *)
(*                                                                         *)
(* The storage is abstracted to the number of items in it: who is woken    *)
(* and when does not depend on what they are.  A counting or binary        *)
(* semaphore is a queue with items of size 0, so this module models it as  *)
(* well: xQueueSemaphoreTake is xQueueReceive without the copy, and        *)
(* xQueueGiveFromISR is xQueueGenericSendFromISR.  Mutexes are modelled in *)
(* Mutexes.                                                                *)
(***************************************************************************)
EXTENDS Kernel

CONSTANT Uses   \* bound: the queues created, and which tasks make which call on them

ToSend    == "xTasksWaitingToSend"
ToReceive == "xTasksWaitingToReceive"

ASSUME QueueAssumption ==
  /\ EventList = {ToSend, ToReceive}
  /\ \A u \in Uses :
       /\ u.length \in Nat \ {0}
       /\ u.waitTimes \in [Task -> SUBSET (0 .. portMAX_DELAY)]
       /\ u.senders \cup u.receivers \cup u.peekers \cup u.resetters \cup u.aborters
            \subseteq Task \ {Idle}

VARIABLES
  use,                \* what never changes: the queue as it was created, its callers
  uxMessagesWaiting,
  cRxLock, cTxLock,   \* queueUNLOCKED, or what interrupts did while locked
  op,                 \* the call each task is in: see Ops
  step,               \* how far it is: see Steps
  expired,            \* xTaskCheckForTimeOut answered pdTRUE
  xTicksToWait,       \* what is left of the time to wait
  xTimeOut,           \* the TimeOut_t of the call
  requested,          \* history: xTicksToWait when the call was made
  waited,             \* history: ticks since the TimeOut_t of a call that may time out
                      \* was first set, up to TickRange
  aborted,            \* history: xTaskAbortDelay was called on this very call
  stranding           \* history: a reset made room for several senders and woke one

queueUNLOCKED == -1
queueLOCKED_UNMODIFIED == 0

uxLength  == use.length

Ops == {"none", "send", "receive", "peek"}
Waiters(o) == IF o = "send" THEN ToSend ELSE ToReceive

\* "first", "check": the critical section at the head of the loop, before and
\* after the TimeOut_t was set; "lock": vTaskSuspendAll and prvLockQueue;
\* "timeout": xTaskCheckForTimeOut; "test": prvIsQueueFull or prvIsQueueEmpty;
\* "place": vTaskPlaceOnEventList; "unlockTx", "unlockRx": prvUnlockQueue;
\* "resume": xTaskResumeAll; "expired": the last test of a receive.
Steps == {"none", "first", "check", "lock", "timeout", "test", "place", "unlockTx",
          "unlockRx", "resume", "expired"}

callVars  == <<op, step, expired, xTicksToWait, xTimeOut, requested, waited, aborted>>
storeVars == <<uxMessagesWaiting, cRxLock, cTxLock>>
queueVars == <<use, kernelVars, callVars, storeVars, stranding>>

NoTimeOut == [xTimeOnEntering |-> 0, overflowed |-> FALSE]

QueueInit ==
  /\ Init /\ use \in Uses
  /\ uxMessagesWaiting = 0
  /\ cRxLock = queueUNLOCKED /\ cTxLock = queueUNLOCKED
  /\ op = [t \in Task |-> "none"] /\ step = [t \in Task |-> "none"]
  /\ expired = [t \in Task |-> FALSE]
  /\ xTicksToWait = [t \in Task |-> 0] /\ requested = [t \in Task |-> 0]
  /\ xTimeOut = [t \in Task |-> NoTimeOut]
  /\ waited = [t \in Task |-> 0] /\ aborted = [t \in Task |-> FALSE]
  /\ stranding = FALSE

-----------------------------------------------------------------------------
(* The pieces of the calls *)

\* t is at the step s of its call and runs.
At(t, s) == AtCall(t) /\ step[t] = s

Goto(t, s) == step' = [step EXCEPT ![t] = s]

\* The call returns; its locals are gone.
Return(t) ==
  /\ op' = [op EXCEPT ![t] = "none"]
  /\ step' = [step EXCEPT ![t] = "none"]
  /\ expired' = [expired EXCEPT ![t] = FALSE]
  /\ xTicksToWait' = [xTicksToWait EXCEPT ![t] = 0]
  /\ requested' = [requested EXCEPT ![t] = 0]
  /\ xTimeOut' = [xTimeOut EXCEPT ![t] = NoTimeOut]
  /\ waited' = [waited EXCEPT ![t] = 0] /\ aborted' = [aborted EXCEPT ![t] = FALSE]

Full  == uxMessagesWaiting = uxLength
Empty == uxMessagesWaiting = 0

\* What the call waits for has come.
Ready(t) == IF op[t] = "send" THEN uxMessagesWaiting < uxLength ELSE uxMessagesWaiting > 0

\* prvCopyDataToQueue, prvCopyDataFromQueue: what they do to the number of items.
After(o) == CASE o = "send"    -> uxMessagesWaiting + 1
              [] o = "receive" -> uxMessagesWaiting - 1
              [] o = "peek"    -> uxMessagesWaiting

\* Whom the success of a call lets go on: after a peek the item is still there
\* for another reader.
NextInLine(o) == IF o = "receive" THEN ToSend ELSE ToReceive

\* Wakes the first waiter of a list, if any.
WakeOne(pxEventList) ==
  IF xEventLists[pxEventList] = <<>> THEN UNCHANGED kernelVars
                                     ELSE RemoveFromEventList(pxEventList)

\* Nobody is stranded by a reset any more once no sender waits.
StillStranding == stranding' = (stranding /\ xEventLists'[ToSend] # <<>>)

-----------------------------------------------------------------------------
(* xQueueGenericSend, xQueueReceive, xQueueSemaphoreTake and xQueuePeek *)

MayCall(t, o) == \/ o = "send" /\ t \in use.senders
                 \/ o = "receive" /\ t \in use.receivers
                 \/ o = "peek" /\ t \in use.peekers

\* To block with the scheduler suspended is an error (configASSERT).
BeginCall(t, o, n) ==
  /\ At(t, "none") /\ MayCall(t, o)
  /\ uxSchedulerSuspended = 0
  /\ op' = [op EXCEPT ![t] = o]
  /\ Goto(t, "first")
  /\ xTicksToWait' = [xTicksToWait EXCEPT ![t] = n]
  /\ requested' = [requested EXCEPT ![t] = n]
  /\ UNCHANGED <<use, kernelVars, expired, xTimeOut, waited, aborted, storeVars, stranding>>

\* The critical section at the head of the loop, when the call can be served.
Serve(t) ==
  /\ At(t, "first") \/ At(t, "check")
  /\ Ready(t)
  /\ uxMessagesWaiting' = After(op[t])
  /\ WakeOne(NextInLine(op[t]))
  /\ Return(t)
  /\ StillStranding
  /\ UNCHANGED <<use, cRxLock, cTxLock>>

\* The same when it cannot: fail, or note the time (vTaskInternalSetTimeOutState).
FailAtOnce(t) ==
  /\ At(t, "first") \/ At(t, "check")
  /\ ~Ready(t) /\ xTicksToWait[t] = 0
  /\ Return(t)
  /\ UNCHANGED <<use, kernelVars, storeVars, stranding>>

StartWaiting(t) ==
  /\ At(t, "first") \/ At(t, "check")
  /\ ~Ready(t) /\ xTicksToWait[t] > 0
  /\ Goto(t, "lock")
  /\ xTimeOut' = [xTimeOut EXCEPT ![t] =
       IF step[t] = "first" THEN [xTimeOnEntering |-> xTickCount, overflowed |-> FALSE] ELSE @]
  /\ UNCHANGED <<use, kernelVars, op, expired, xTicksToWait, requested, waited, aborted, storeVars,
                 stranding>>

\* vTaskSuspendAll; prvLockQueue
Lock(t) ==
  /\ At(t, "lock")
  /\ SuspendAll(t)
  /\ cRxLock' = IF cRxLock = queueUNLOCKED THEN queueLOCKED_UNMODIFIED ELSE cRxLock
  /\ cTxLock' = IF cTxLock = queueUNLOCKED THEN queueLOCKED_UNMODIFIED ELSE cTxLock
  /\ Goto(t, "timeout")
  /\ UNCHANGED <<use, op, expired, xTicksToWait, xTimeOut, requested, waited, aborted,
                 uxMessagesWaiting,
                 stranding>>

\* Mutant: the subtraction does not wrap.
IgnoringWrap(t) == xTickCount - xTimeOut[t].xTimeOnEntering
\* xConstTickCount - xTimeOnEntering, in TickType_t
ElapsedTime(t) ==
  LET d == xTickCount - xTimeOut[t].xTimeOnEntering
  IN  IF d < 0 THEN d + TickRange ELSE d

\* Mutant: the wrap of the count alone ends the wait.
WrapTimesOut(t) ==
  \/ ucDelayAborted[t]
  \/ /\ xTicksToWait[t] # portMAX_DELAY
     /\ xTimeOut[t].overflowed \/ ElapsedTime(t) >= xTicksToWait[t]
\* xTaskCheckForTimeOut.  xNumOfOverflows only grows, so that it differs from
\* the copy in the TimeOut_t when the count has wrapped since.
TimedOut(t) ==
  \/ ucDelayAborted[t]
  \/ /\ xTicksToWait[t] # portMAX_DELAY
     /\ \/ xTimeOut[t].overflowed /\ xTickCount >= xTimeOut[t].xTimeOnEntering
        \/ ElapsedTime(t) >= xTicksToWait[t]

xTaskCheckForTimeOut(t) ==
  /\ At(t, "timeout")
  /\ ucDelayAborted' = [ucDelayAborted EXCEPT ![t] = FALSE]
  /\ IF TimedOut(t)
       THEN /\ expired' = [expired EXCEPT ![t] = TRUE]
            /\ xTicksToWait' = IF ucDelayAborted[t] THEN xTicksToWait
                                                    ELSE [xTicksToWait EXCEPT ![t] = 0]
            /\ Goto(t, "unlockTx")
            /\ UNCHANGED xTimeOut
       ELSE /\ Goto(t, "test")
            /\ UNCHANGED expired
            /\ IF xTicksToWait[t] = portMAX_DELAY
                 THEN UNCHANGED <<xTicksToWait, xTimeOut>>
                 ELSE /\ xTicksToWait' = [xTicksToWait EXCEPT ![t] = @ - ElapsedTime(t)]
                      /\ xTimeOut' = [xTimeOut EXCEPT ![t] =
                           [xTimeOnEntering |-> xTickCount, overflowed |-> FALSE]]
  /\ UNCHANGED <<use, pxCurrentTCB, priorityVars, ucNotifyState, state, left, xEventLists, pending,
                 uxSchedulerSuspended, xTickCount, switchDue, op, requested, waited, aborted,
                 storeVars, stranding>>

\* Mutant: the way round the wait forgets prvUnlockQueue.
LeavesLocked(t) == IF (IF op[t] = "send" THEN Full ELSE Empty) THEN "place" ELSE "resume"
\* To sleep only if no interrupt has sent, or taken, an item meanwhile.
AfterTest(t) == IF (IF op[t] = "send" THEN Full ELSE Empty) THEN "place" ELSE "unlockTx"

\* prvIsQueueFull or prvIsQueueEmpty: has an interrupt changed it meanwhile?
Test(t) ==
  /\ At(t, "test")
  /\ Goto(t, AfterTest(t))
  /\ UNCHANGED <<use, kernelVars, op, expired, xTicksToWait, xTimeOut, requested, waited, aborted,
                 storeVars,
                 stranding>>

Place(t) ==
  /\ At(t, "place")
  /\ PlaceOnEventList(t, Waiters(op[t]), xTicksToWait[t])
  /\ Goto(t, "unlockTx")
  /\ UNCHANGED <<use, op, expired, xTicksToWait, xTimeOut, requested, waited, aborted, storeVars,
                 stranding>>

\* Mutant: prvUnlockQueue forgets the waiters.
NoUnlockWakes(cLock, pxEventList) == 0
\* The loops of prvUnlockQueue wake one waiter for each item an interrupt sent,
\* or took, while the queue was locked, as long as there are waiters.
UnlockWakes(cLock, pxEventList) ==
  IF cLock < Len(xEventLists[pxEventList]) THEN cLock ELSE Len(xEventLists[pxEventList])

\* The scheduler is suspended, so they become ready when it is resumed.
WakeLocked(cLock, pxEventList) ==
  LET n == UnlockWakes(cLock, pxEventList)
      waiters == xEventLists[pxEventList]
  IN  /\ xEventLists' = [xEventLists EXCEPT ![pxEventList] = SubSeq(waiters, n + 1, Len(waiters))]
      /\ pending' = pending \cup ToSet(SubSeq(waiters, 1, n))
      /\ switchDue' = (switchDue \/ \E i \in 1 .. n : Preempts(waiters[i]))
      /\ UNCHANGED <<use, pxCurrentTCB, priorityVars, flagVars, state, left,
                     uxSchedulerSuspended, xTickCount>>

\* prvUnlockQueue: two critical sections.
UnlockTx(t) ==
  /\ At(t, "unlockTx")
  /\ WakeLocked(cTxLock, ToReceive)
  /\ cTxLock' = queueUNLOCKED
  /\ Goto(t, "unlockRx")
  /\ UNCHANGED <<use, op, expired, xTicksToWait, xTimeOut, requested, waited, aborted,
                 uxMessagesWaiting,
                 cRxLock, stranding>>

UnlockRx(t) ==
  /\ At(t, "unlockRx")
  /\ WakeLocked(cRxLock, ToSend)
  /\ cRxLock' = queueUNLOCKED
  /\ Goto(t, "resume")
  /\ StillStranding
  /\ UNCHANGED <<use, op, expired, xTicksToWait, xTimeOut, requested, waited, aborted,
                 uxMessagesWaiting,
                 cTxLock>>

\* xTaskResumeAll.  A task that placed itself on a list is not ready any more,
\* and does not go on from here before it is.
ResumeScheduler(t) ==
  /\ At(t, "resume")
  /\ ResumeAll(t)
  /\ Goto(t, IF expired[t] THEN "expired" ELSE "check")
  /\ UNCHANGED <<use, op, expired, xTicksToWait, xTimeOut, requested, waited, aborted, storeVars,
                 stranding>>

\* A send that timed out fails; the others look once more, and go round again
\* if an item has come.
Expire(t) ==
  /\ At(t, "expired")
  /\ IF op[t] = "send" \/ Empty
       THEN Return(t)
       ELSE /\ Goto(t, "check")
            /\ expired' = [expired EXCEPT ![t] = FALSE]
            /\ UNCHANGED <<op, xTicksToWait, xTimeOut, requested, waited, aborted>>
  /\ UNCHANGED <<use, kernelVars, storeVars, stranding>>

-----------------------------------------------------------------------------
(* xQueueGenericReset of a queue in use, and xTaskAbortDelay *)

\* It wakes one sender, however many items it throws away.
xQueueGenericReset(t) ==
  /\ At(t, "none") /\ t \in use.resetters
  /\ uxSchedulerSuspended = 0
  /\ uxMessagesWaiting' = 0
  /\ cRxLock' = queueUNLOCKED /\ cTxLock' = queueUNLOCKED
  /\ WakeOne(ToSend)
  /\ stranding' = ((stranding \/ uxMessagesWaiting > 1) /\ xEventLists'[ToSend] # <<>>)
  /\ UNCHANGED <<use, callVars>>

xTaskAbortDelay(t, u) ==
  /\ At(t, "none") /\ t \in use.aborters
  /\ uxSchedulerSuspended = 0
  /\ AbortDelay(t, u)
  /\ aborted' = [aborted EXCEPT ![u] = step[u] # "none"]
  /\ StillStranding
  /\ UNCHANGED <<use, op, step, expired, xTicksToWait, xTimeOut, requested, waited, storeVars>>

AbortDone(t) ==
  /\ At(t, "none")
  /\ ResumeAll(t)
  /\ UNCHANGED <<use, callVars, storeVars, stranding>>

-----------------------------------------------------------------------------
(* Calls of interrupt handlers *)

uxCurrentNumberOfTasks == Cardinality({t \in Task : state[t] # "none"})

\* prvIncrementQueueTxLock, prvIncrementQueueRxLock: no more than there are tasks.
IncrementLock(cLock) == IF cLock < uxCurrentNumberOfTasks THEN cLock + 1 ELSE cLock

xQueueGenericSendFromISR ==
  /\ uxMessagesWaiting < uxLength
  /\ uxMessagesWaiting' = uxMessagesWaiting + 1
  /\ IF cTxLock = queueUNLOCKED
       THEN WakeOne(ToReceive) /\ UNCHANGED cTxLock
       ELSE cTxLock' = IncrementLock(cTxLock) /\ UNCHANGED kernelVars
  /\ UNCHANGED <<use, cRxLock, callVars, stranding>>

xQueueReceiveFromISR ==
  /\ uxMessagesWaiting > 0
  /\ uxMessagesWaiting' = uxMessagesWaiting - 1
  /\ IF cRxLock = queueUNLOCKED
       THEN WakeOne(ToSend) /\ UNCHANGED cRxLock
       ELSE cRxLock' = IncrementLock(cRxLock) /\ UNCHANGED kernelVars
  /\ StillStranding
  /\ UNCHANGED <<use, cTxLock, callVars>>

-----------------------------------------------------------------------------
(* The scheduler underneath *)

\* Time passes for every call whose TimeOut_t is set.
Ticked ==
  LET ticks == {t \in Task : xTickCount' # xTickCount /\ step[t] \notin {"none", "first"}}
      counts(t) == t \in ticks /\ requested[t] # portMAX_DELAY /\ waited[t] < TickRange
  IN  /\ waited' = [t \in Task |-> IF counts(t) THEN waited[t] + 1 ELSE waited[t]]
      /\ xTimeOut' = [t \in Task |-> IF t \in ticks /\ xTickCount' = 0
                                       THEN [xTimeOut[t] EXCEPT !.overflowed = TRUE]
                                       ELSE xTimeOut[t]]

Scheduler ==
  /\ IncrementTick \/ SwitchContext
  /\ Ticked
  /\ StillStranding
  /\ UNCHANGED <<use, op, step, expired, xTicksToWait, requested, aborted, storeVars>>

CallStep(t) ==
  \/ \E o \in Ops \ {"none"}, n \in use.waitTimes[t] : BeginCall(t, o, n)
  \/ Serve(t) \/ FailAtOnce(t) \/ StartWaiting(t) \/ Lock(t) \/ xTaskCheckForTimeOut(t)
  \/ Test(t) \/ Place(t) \/ UnlockTx(t) \/ UnlockRx(t) \/ ResumeScheduler(t) \/ Expire(t)
  \/ xQueueGenericReset(t) \/ (\E u \in Task : xTaskAbortDelay(t, u)) \/ AbortDone(t)

QueueNext == \/ Scheduler
             \/ \E t \in Task : CallStep(t)
             \/ xQueueGenericSendFromISR \/ xQueueReceiveFromISR

QueueSpec == QueueInit /\ [][QueueNext]_queueVars

-----------------------------------------------------------------------------
QueueTypeOK ==
  /\ uxMessagesWaiting \in 0 .. uxLength
  /\ cRxLock \in -1 .. Cardinality(Task) /\ cTxLock \in -1 .. Cardinality(Task)
  /\ op \in [Task -> Ops] /\ step \in [Task -> Steps] /\ expired \in [Task -> BOOLEAN]
  /\ xTicksToWait \in [Task -> 0 .. portMAX_DELAY] /\ requested \in [Task -> 0 .. portMAX_DELAY]
  /\ xTimeOut \in [Task -> [xTimeOnEntering : 0 .. portMAX_DELAY, overflowed : BOOLEAN]]
  /\ waited \in [Task -> 0 .. TickRange]
  /\ stranding \in BOOLEAN

\* In the call, woken or not yet asleep: it will look at the queue again.
Coming(l) == {t \in Task : op[t] # "none" /\ Waiters(op[t]) = l
                            /\ ~Contains(xEventLists[l], t)}

\* No lost wake-up: while a task sleeps waiting for an item there are no more
\* items in the queue than readers on their way to look at it.  An interrupt
\* that sends between a reader's test and its sleep is the case to fear: the
\* queue is then locked, and unlocking it settles the account.
ReaderNotStranded ==
  cTxLock = queueUNLOCKED /\ xEventLists[ToReceive] # <<>>
    => uxMessagesWaiting <= Cardinality(Coming(ToReceive))

\* The same for a task that waits for room, unless a reset has thrown away
\* several items and woken one sender.
SenderNotStranded ==
  cRxLock = queueUNLOCKED /\ xEventLists[ToSend] # <<>> /\ ~stranding
    => uxLength - uxMessagesWaiting <= Cardinality(Coming(ToSend))

\* The queue is locked only while the one task that locked it is between
\* prvLockQueue and prvUnlockQueue, with the scheduler suspended.
LockHasOwner ==
  cTxLock # queueUNLOCKED \/ cRxLock # queueUNLOCKED
    => /\ uxSchedulerSuspended > 0
       /\ step[pxCurrentTCB] \in {"timeout", "test", "place", "unlockTx", "unlockRx"}

\* The counters of a locked queue stay in their range and the lock with its owner.
QueueConsistent == QueueTypeOK /\ LockHasOwner

\* Nobody sleeps, once the queue is unlocked, on an item or on room that no woken
\* task is on its way to: no wake-up is lost between the test of the queue and
\* the sleep (queue.c:1005-1031, 1477-1530), whatever interrupts send or receive.
NobodyStranded == ReaderNotStranded /\ SenderNotStranded

\* A task blocked with a timeout has still to sleep what is left of the time
\* it asked for, however often it was woken and went back to sleep: unless it
\* was kept from the processor for a whole period of the tick count.
SleepsForTheRest ==
  \A t \in Task : step[t] # "none" /\ state[t] = "blocked" /\ waited[t] < TickRange
                    => waited[t] + left[t] = requested[t]

\* A call fails only once the time it was given has passed, or when it finds
\* that a wait of the task was aborted: to go to sleep again does not shorten
\* the time, nor does the wrap of the tick count.
NoEarlyFailure ==
  [][\A t \in Task : step[t] = "timeout" /\ step'[t] = "unlockTx"
       => ucDelayAborted[t] \/ (requested[t] # portMAX_DELAY /\ waited[t] >= requested[t])]_queueVars

\* tasks.c, prvAddCurrentTaskToDelayedList: ucDelayAborted is reset on entering
\* a delayed list "so it can be detected as having been set to pdTRUE when the
\* task leaves the Blocked state".  A call fails only once its time has passed
\* or because this very call was aborted, not an earlier one.
FailsForItsOwnReason ==
  [][\A t \in Task : step[t] = "timeout" /\ step'[t] = "unlockTx"
       => aborted[t] \/ (requested[t] # portMAX_DELAY /\ waited[t] >= requested[t])]_queueVars
=============================================================================
