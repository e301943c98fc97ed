------------------------------- MODULE Tasks -------------------------------
(***************************************************************************)
(* The scheduler of kernel/FreeRTOS/tasks.c on one Cortex-M4 core, in the  *)
(* configuration of boards/arm/stm32/FreeRTOSConfig.h: preemptive with     *)
(* time slicing, generic task selection.                                   *)
(*                                                                         *)
(* A step is one critical section, one stretch of code run with the        *)
(* scheduler suspended, or one round of a loop inside a critical section.  *)
(* "kernel" says which such loop is running: while it is not "none" the    *)
(* interrupts are masked and nothing else moves.  Otherwise the SysTick    *)
(* handler and the interrupts that may call the kernel interleave with     *)
(* every step of the running task, and PendSV, once pended, runs before    *)
(* the next step of any task.                                              *)
(*                                                                         *)
(* The tasks are the most general client of the API: whenever it runs, a   *)
(* task may make any call the kernel's rules allow.                        *)
(***************************************************************************)
EXTENDS Lists

CONSTANTS
  Task,            \* the TCBs
  Idle,            \* the idle task's
  EventList,       \* the lists of the kernel objects tasks wait for
  MaxPriorities,   \* configMAX_PRIORITIES
  InitPriority,    \* the priority each task is created with
  Late,            \* tasks created only once the scheduler runs
  Waiter,          \* tasks that wait on event lists
  Notifiable,      \* tasks that wait for notifications
  Resumable,       \* tasks that vTaskResume and xTaskResumeFromISR are called for
  Unordered,       \* the lists of event groups
  TickRange,       \* number of values of TickType_t: 2^32 in the build
  BlockTimes,      \* bound: the block times the application asks for
  MaxPendedTicks,  \* bound: ticks that pend while the scheduler is suspended
  MaxNesting       \* bound: nesting of vTaskSuspendAll

Priority == 0 .. MaxPriorities - 1
portMAX_DELAY == TickRange - 1

\* taskEVENT_LIST_ITEM_VALUE_IN_USE: the event item holds the bits that its task
\* waits for, not a priority.
InUse == -1

ASSUME TasksAssumption ==
  /\ IsFiniteSet(Task) /\ Idle \in Task
  /\ MaxPriorities \in Nat \ {0}
  /\ InitPriority \in [Task -> Priority]
  /\ InitPriority[Idle] = 0
  /\ Late \subseteq Task \ {Idle}
  /\ Notifiable \subseteq Task \ {Idle} /\ Resumable \subseteq Task
  /\ Waiter \subseteq Task \ {Idle}
  /\ Unordered \subseteq EventList
  /\ TickRange \in Nat \ {0, 1}
  /\ BlockTimes \subseteq 1 .. portMAX_DELAY
  /\ MaxPendedTicks \in Nat
  /\ MaxNesting \in Nat \ {0}

VARIABLES
  pxCurrentTCB,           \* the running task
  uxPriority,             \* effective priority of each task
  uxBasePriority,         \* priority before any inheritance
  xEventPriority,         \* MaxPriorities - value of xEventListItem, or InUse
  ucDelayAborted,         \* set by xTaskAbortDelay
  ucNotifyState,          \* of each task's one notification: see NotifyStates
  xStateList,             \* the list that holds xStateListItem: see StateLists
  xWakeTime,              \* value of xStateListItem on a delayed list, else 0
  pxReadyTasksLists,      \* ready list of each priority
  uxTopReadyPriority,
  xEventLists,            \* tasks waiting for each object, by priority
  xPendingReadyList,      \* readied while the scheduler was suspended
  xTickCount,
  xNextTaskUnblockTime,
  uxSchedulerSuspended,
  xPendedTicks,
  xYieldPending,
  PendSV,                 \* the context switch interrupt is pending
  kernel,                 \* masked loop under way: see KernelSteps
  inResumeAll,            \* ... and it runs inside xTaskResumeAll
  xSwitchRequired,        \* local of xTaskIncrementTick
  pc,                     \* what each task has left to do of its API call
  left                    \* history: ticks until a delayed task is due

(***************************************************************************)
(* xStateList: "delayed" is the list pxDelayedTaskList points at, "overflow"*)
(* the one pxOverflowDelayedTaskList points at, "none" a TCB that is free.  *)
(***************************************************************************)
StateLists == {"ready", "delayed", "overflow", "suspended", "termination", "none"}
OnDelayedList(t) == xStateList[t] \in {"delayed", "overflow"}

\* "move", "moved": xTaskResumeAll empties xPendingReadyList (one has moved);
\* "ticks": it replays xPendedTicks; "unblock", "slice": xTaskIncrementTick.
KernelSteps == {"none", "move", "moved", "ticks", "unblock", "slice"}

\* "app": between calls; "placed": on its way to block, xTaskResumeAll comes
\* next, then a yield; "resume": xTaskResumeAll comes next; "reset",
\* "resetSelf": vTaskSuspend's second critical section; "yield": yields next; "notify": the
\* second critical section of a wait for a notification.
Pcs == {"app", "placed", "resume", "reset", "resetSelf", "yield", "notify"}

\* taskNOT_WAITING_NOTIFICATION, taskWAITING_NOTIFICATION, taskNOTIFICATION_RECEIVED
NotifyStates == {"notWaiting", "waiting", "received"}

priorityVars == <<uxPriority, uxBasePriority, xEventPriority>>
flagVars     == <<ucDelayAborted, ucNotifyState>>
stateVars    == <<xStateList, xWakeTime, left>>
readyVars    == <<pxReadyTasksLists, uxTopReadyPriority>>
eventVars    == <<xEventLists, xPendingReadyList>>
tickVars     == <<xTickCount, xNextTaskUnblockTime>>
pendVars     == <<uxSchedulerSuspended, xPendedTicks>>
yieldVars    == <<xYieldPending, PendSV>>
loopVars     == <<kernel, inResumeAll, xSwitchRequired>>
tasksVars    == <<pxCurrentTCB, priorityVars, flagVars, stateVars, readyVars,
                  eventVars, tickVars, pendVars, yieldVars, loopVars, pc>>

-----------------------------------------------------------------------------
(* Guards *)

\* An interrupt is served unless a critical section masks it.
Unmasked == kernel = "none"

\* t executes its next instruction: nothing masked, no switch pending.
Running(t) == t = pxCurrentTCB /\ Unmasked /\ ~PendSV

\* The running task is between API calls; an application task may make any.
AtCall(t) == Running(t) /\ pc[t] = "app" /\ xEventPriority[t] # InUse
Calls(t) == AtCall(t) /\ t # Idle

Exists(t) == xStateList[t] \notin {"termination", "none"}

OnEventList(t) == \E l \in EventList : Contains(xEventLists[l], t)
Pending(t) == Contains(xPendingReadyList, t)

-----------------------------------------------------------------------------
(* Lists and ticks: the shared pieces of the operations *)

\* TickType_t arithmetic: the sum of two ticks wraps at most once.
Tick(x) == IF x >= TickRange THEN x - TickRange ELSE x

\* uxListRemove of the state item of a task that may be on a ready list.
WithoutReady(lists, t) == [p \in Priority |-> uxListRemove(lists[p], t)]

\* Mutant: the top priority is not recorded.
NoRecord(p) == uxTopReadyPriority
\* taskRECORD_READY_PRIORITY
RecordReadyPriority(p) == IF p > uxTopReadyPriority THEN p ELSE uxTopReadyPriority

\* prvAddTaskToReadyList at priority p, after removal from the present list.
AddTaskToReadyList(t, p) ==
  /\ pxReadyTasksLists' =
       [WithoutReady(pxReadyTasksLists, t) EXCEPT ![p] = vListInsertEnd(@, t)]
  /\ uxTopReadyPriority' = RecordReadyPriority(p)

\* The state item of t moves to the list s, which is not a delayed list; the
\* item's value is not read again before it is set again.
MoveTo(t, s) ==
  /\ xStateList' = [xStateList EXCEPT ![t] = s]
  /\ xWakeTime'  = [xWakeTime EXCEPT ![t] = 0]
  /\ left'       = [left EXCEPT ![t] = 0]

MakeReady(t) == MoveTo(t, "ready") /\ AddTaskToReadyList(t, uxPriority[t])

\* Mutant: only the list of an object is left.
StaysPending(t) ==
  /\ xEventLists' = [l \in EventList |-> Without(xEventLists[l], t)]
  /\ UNCHANGED xPendingReadyList
\* uxListRemove of the event item, from an object's list or xPendingReadyList.
LeaveEventLists(t) ==
  /\ xEventLists' = [l \in EventList |-> Without(xEventLists[l], t)]
  /\ xPendingReadyList' = Without(xPendingReadyList, t)

\* Mutant: no switch is asked for.
PreemptsNever(u) == FALSE
\* A task made ready takes the processor from the running one.
Preempts(u) == uxPriority[u] > uxPriority[pxCurrentTCB]

\* Mutant: the end of the list is looked at.
LastUnblock(where, wake) ==
  LET delayed == {t \in Task : where[t] = "delayed"}
  IN  IF delayed = {} THEN portMAX_DELAY
      ELSE wake[CHOOSE t \in delayed : \A u \in delayed : wake[t] >= wake[u]]
\* prvResetNextTaskUnblockTime, for the delayed list {t : where[t] = "delayed"}.
NextUnblock(where, wake) ==
  LET delayed == {t \in Task : where[t] = "delayed"}
  IN  IF delayed = {} THEN portMAX_DELAY
      ELSE wake[CHOOSE t \in delayed : \A u \in delayed : wake[t] <= wake[u]]

\* Mutant: every wake time goes to the current list.
OverflowsNever(xTimeToWake) == FALSE
\* A wake time below the count lies beyond its next wrap.
Overflows(xTimeToWake) == xTimeToWake < xTickCount

\* prvAddCurrentTaskToDelayedList
AddCurrentTaskToDelayedList(xTicksToWait, xCanBlockIndefinitely) ==
  LET t == pxCurrentTCB
      xTimeToWake == Tick(xTickCount + xTicksToWait)
      overflows == Overflows(xTimeToWake)
  IN  /\ ucDelayAborted' = [ucDelayAborted EXCEPT ![t] = FALSE]
      /\ pxReadyTasksLists' = WithoutReady(pxReadyTasksLists, t)
      /\ \/ /\ xTicksToWait = portMAX_DELAY /\ xCanBlockIndefinitely
            /\ MoveTo(t, "suspended")
            /\ UNCHANGED xNextTaskUnblockTime
         \/ /\ ~(xTicksToWait = portMAX_DELAY /\ xCanBlockIndefinitely)
            /\ xWakeTime' = [xWakeTime EXCEPT ![t] = xTimeToWake]
            /\ left' = [left EXCEPT ![t] = xTicksToWait]
            /\ xStateList' = [xStateList EXCEPT ![t] = IF overflows THEN "overflow" ELSE "delayed"]
            /\ xNextTaskUnblockTime' = IF ~overflows /\ xTimeToWake < xNextTaskUnblockTime
                                         THEN xTimeToWake ELSE xNextTaskUnblockTime

-----------------------------------------------------------------------------
(* The state when vPortStartFirstTask runs the first task *)

Created(p) == {t \in Task \ Late : InitPriority[t] = p}
TopCreated == CHOOSE p \in Priority :
                /\ Created(p) # {}
                /\ \A q \in Priority : q > p => Created(q) = {}

\* prvAddNewTaskToReadyList before the scheduler runs: the tasks were created
\* in some order; the last one of the highest priority is the current task.
Init ==
  /\ pxReadyTasksLists \in
       {lists \in [Priority -> [items : UNION {SetToSeqs(Created(p)) : p \in Priority},
                                pxIndex : {0}]] :
          \A p \in Priority : lists[p].items \in SetToSeqs(Created(p))}
  /\ pxCurrentTCB = Last(pxReadyTasksLists[TopCreated].items)
  /\ uxPriority = InitPriority /\ uxBasePriority = InitPriority
  /\ xEventPriority = InitPriority
  /\ ucDelayAborted = [t \in Task |-> FALSE]
  /\ ucNotifyState = [t \in Task |-> "notWaiting"]
  /\ xStateList = [t \in Task |-> IF t \in Late THEN "none" ELSE "ready"]
  /\ xWakeTime = [t \in Task |-> 0] /\ left = [t \in Task |-> 0]
  /\ uxTopReadyPriority = TopCreated
  /\ xEventLists = [l \in EventList |-> <<>>] /\ xPendingReadyList = <<>>
  /\ xTickCount = 0 /\ xNextTaskUnblockTime = portMAX_DELAY
  /\ uxSchedulerSuspended = 0 /\ xPendedTicks = 0
  /\ xYieldPending = FALSE /\ PendSV = FALSE
  /\ kernel = "none" /\ inResumeAll = FALSE /\ xSwitchRequired = FALSE
  /\ pc = [t \in Task |-> "app"]

-----------------------------------------------------------------------------
(* Calls of the running task t *)

vTaskDelay(t, xTicksToDelay) ==
  /\ Calls(t)
  /\ uxSchedulerSuspended = 0
  /\ uxSchedulerSuspended' = 1
  /\ AddCurrentTaskToDelayedList(xTicksToDelay, FALSE)
  /\ pc' = [pc EXCEPT ![t] = "placed"]
  /\ UNCHANGED <<pxCurrentTCB, priorityVars, ucNotifyState, uxTopReadyPriority, eventVars,
                 xTickCount, xPendedTicks, yieldVars, loopVars>>

\* The caller has suspended the scheduler, so that it is still running.
vTaskPlaceOnEventList(t, pxEventList, xTicksToWait) ==
  /\ Calls(t) /\ t \in Waiter
  /\ uxSchedulerSuspended = 1 /\ pxEventList \notin Unordered
  /\ xEventLists' = [xEventLists EXCEPT ![pxEventList] =
                       vListInsert(@, t, [u \in Task |-> MaxPriorities - xEventPriority[u]])]
  /\ AddCurrentTaskToDelayedList(xTicksToWait, TRUE)
  /\ pc' = [pc EXCEPT ![t] = "placed"]
  /\ UNCHANGED <<pxCurrentTCB, priorityVars, ucNotifyState, uxTopReadyPriority,
                 xPendingReadyList, xTickCount, pendVars, yieldVars, loopVars>>

vTaskPlaceOnUnorderedEventList(t, pxEventList, xTicksToWait) ==
  /\ Calls(t) /\ t \in Waiter
  /\ uxSchedulerSuspended = 1 /\ pxEventList \in Unordered
  /\ xEventPriority' = [xEventPriority EXCEPT ![t] = InUse]
  /\ xEventLists' = [xEventLists EXCEPT ![pxEventList] = Append(@, t)]
  /\ AddCurrentTaskToDelayedList(xTicksToWait, TRUE)
  /\ pc' = [pc EXCEPT ![t] = "placed"]
  /\ UNCHANGED <<pxCurrentTCB, uxPriority, uxBasePriority, ucNotifyState, uxTopReadyPriority,
                 xPendingReadyList, xTickCount, pendVars, yieldVars, loopVars>>

\* The caller walks the list with the scheduler suspended, interrupts enabled.
vTaskRemoveFromUnorderedEventList(t, u, pxEventList) ==
  /\ Calls(t)
  /\ uxSchedulerSuspended > 0 /\ pxEventList \in Unordered
  /\ Contains(xEventLists[pxEventList], u)
  /\ MakeReady(u)
  /\ LeaveEventLists(u)
  /\ xYieldPending' = (xYieldPending \/ Preempts(u))
  /\ UNCHANGED <<pxCurrentTCB, priorityVars, flagVars, tickVars, pendVars, PendSV, loopVars, pc>>

\* What a task does first after its wait for an event group.
uxTaskResetEventItemValue(t) ==
  /\ Running(t) /\ pc[t] = "app" /\ xEventPriority[t] = InUse /\ xStateList[t] = "ready"
  /\ xEventPriority' = [xEventPriority EXCEPT ![t] = uxPriority[t]]
  /\ UNCHANGED <<pxCurrentTCB, uxPriority, uxBasePriority, flagVars, stateVars, readyVars,
                 eventVars, tickVars, pendVars, yieldVars, loopVars, pc>>

\* The idle task calls it too, in the vPortFree of prvDeleteTCB.
vTaskSuspendAll(t) ==
  /\ AtCall(t)
  /\ uxSchedulerSuspended < MaxNesting
  /\ uxSchedulerSuspended' = uxSchedulerSuspended + 1
  /\ UNCHANGED <<pxCurrentTCB, priorityVars, flagVars, stateVars, readyVars,
                 eventVars, tickVars, xPendedTicks, yieldVars, loopVars, pc>>

\* portYIELD: taskYIELD, the yield that ends a blocking call, and the idle
\* task's when others share its priority (configIDLE_SHOULD_YIELD).
taskYIELD(t) ==
  /\ Running(t) /\ pc[t] \in {"app", "yield"}
  /\ t = Idle => Len(pxReadyTasksLists[0].items) > 1
  /\ PendSV' = TRUE
  /\ pc' = [pc EXCEPT ![t] = "app"]
  /\ UNCHANGED <<pxCurrentTCB, priorityVars, flagVars, stateVars, readyVars,
                 eventVars, tickVars, pendVars, xYieldPending, loopVars>>

\* Mutant: the wait goes on behind the suspension.
StillWaiting(s) == s
\* A wait for a notification ends with the suspension of the task.
AfterSuspension(s) == IF s = "waiting" THEN "notWaiting" ELSE s

\* First critical section of vTaskSuspend: u leaves every list it waits on.
vTaskSuspend(t, u) ==
  /\ Calls(t) /\ u # Idle /\ Exists(u)
  /\ u = t => uxSchedulerSuspended = 0
  /\ MoveTo(u, "suspended")
  /\ pxReadyTasksLists' = WithoutReady(pxReadyTasksLists, u)
  /\ LeaveEventLists(u)
  /\ ucNotifyState' = [ucNotifyState EXCEPT ![u] = AfterSuspension(@)]
  /\ pc' = [pc EXCEPT ![t] = IF u = t THEN "resetSelf" ELSE "reset"]
  /\ UNCHANGED <<pxCurrentTCB, priorityVars, ucDelayAborted, uxTopReadyPriority, tickVars,
                 pendVars, yieldVars, loopVars>>

\* Second critical section: the next task to unblock may have been u.
vTaskSuspendReset(t) ==
  /\ Running(t) /\ pc[t] \in {"reset", "resetSelf"}
  /\ xNextTaskUnblockTime' = NextUnblock(xStateList, xWakeTime)
  /\ pc' = [pc EXCEPT ![t] = IF @ = "resetSelf" THEN "yield" ELSE "app"]
  /\ UNCHANGED <<pxCurrentTCB, priorityVars, flagVars, stateVars, readyVars,
                 eventVars, xTickCount, pendVars, yieldVars, loopVars>>

\* ... or waits for a notification, for ever: the code does not ask which.
prvTaskIsTaskSuspended(u) ==
  xStateList[u] = "suspended" /\ ~Pending(u) /\ ~OnEventList(u)

vTaskResume(t, u) ==
  /\ Calls(t) /\ u # t /\ u \in Resumable
  /\ prvTaskIsTaskSuspended(u)
  /\ MakeReady(u)
  /\ PendSV' = (uxPriority[u] >= uxPriority[t])
  /\ UNCHANGED <<pxCurrentTCB, priorityVars, flagVars, eventVars, tickVars, pendVars,
                 xYieldPending, loopVars, pc>>

\* The event item of a task gets its new priority, unless it is in use.
Renumbered(value, p) == IF value = InUse THEN InUse ELSE p

vTaskPrioritySet(t, u, uxNewPriority) ==
  /\ Calls(t) /\ u # Idle /\ Exists(u)
  /\ uxBasePriority[u] # uxNewPriority
  /\ uxBasePriority' = [uxBasePriority EXCEPT ![u] = uxNewPriority]
  /\ uxPriority' = IF uxBasePriority[u] = uxPriority[u]
                     THEN [uxPriority EXCEPT ![u] = uxNewPriority] ELSE uxPriority
  /\ xEventPriority' = [xEventPriority EXCEPT ![u] = Renumbered(@, uxNewPriority)]
  /\ IF xStateList[u] = "ready"
       THEN AddTaskToReadyList(u, uxPriority'[u])
       ELSE UNCHANGED readyVars
  /\ PendSV' = IF uxNewPriority > uxBasePriority[u]
                 THEN u # t /\ uxNewPriority >= uxPriority[t]
                 ELSE u = t
  /\ UNCHANGED <<pxCurrentTCB, flagVars, stateVars, eventVars, tickVars, pendVars,
                 xYieldPending, loopVars, pc>>

\* A free TCB means nothing until xTaskCreate fills it; it is kept as
\* prvInitialiseNewTask will leave it.
FreeTCB(u) ==
  /\ uxPriority' = [uxPriority EXCEPT ![u] = InitPriority[u]]
  /\ uxBasePriority' = [uxBasePriority EXCEPT ![u] = InitPriority[u]]
  /\ xEventPriority' = [xEventPriority EXCEPT ![u] = InitPriority[u]]
  /\ ucDelayAborted' = [ucDelayAborted EXCEPT ![u] = FALSE]
  /\ ucNotifyState' = [ucNotifyState EXCEPT ![u] = "notWaiting"]

\* prvAddNewTaskToReadyList; the yield that follows its critical section is due
\* when the new task has the higher priority.
xTaskCreate(t, u) ==
  /\ Calls(t) /\ xStateList[u] = "none"
  /\ MakeReady(u)
  /\ pc' = [pc EXCEPT ![t] = IF uxPriority[t] < uxPriority[u] THEN "yield" ELSE "app"]
  /\ UNCHANGED <<pxCurrentTCB, priorityVars, flagVars, eventVars, tickVars, pendVars,
                 yieldVars, loopVars>>

\* u leaves its lists; a task that deletes itself waits for the idle task to
\* free its TCB, another is freed at once.
vTaskDelete(t, u) ==
  /\ Calls(t) /\ u # Idle /\ Exists(u)
  /\ pxReadyTasksLists' = WithoutReady(pxReadyTasksLists, u)
  /\ LeaveEventLists(u)
  /\ \/ /\ u = t /\ uxSchedulerSuspended = 0
        /\ MoveTo(u, "termination")
        /\ pc' = [pc EXCEPT ![t] = "yield"]
        /\ UNCHANGED <<priorityVars, flagVars, xNextTaskUnblockTime>>
     \/ /\ u # t
        /\ MoveTo(u, "none")
        /\ FreeTCB(u)
        /\ pc' = [pc EXCEPT ![u] = "app"]
        /\ xNextTaskUnblockTime' = NextUnblock(xStateList', xWakeTime)
  /\ UNCHANGED <<pxCurrentTCB, uxTopReadyPriority, xTickCount, pendVars, yieldVars, loopVars>>

\* prvCheckTasksWaitingTermination, one task a round.
prvIdleTask(t, u) ==
  /\ AtCall(t) /\ t = Idle
  /\ xStateList[u] = "termination"
  /\ MoveTo(u, "none")
  /\ FreeTCB(u)
  /\ pc' = [pc EXCEPT ![u] = "app"]
  /\ UNCHANGED <<pxCurrentTCB, readyVars, eventVars, tickVars, pendVars, yieldVars, loopVars>>

\* eTaskGetState(u) = eBlocked
Blocked(u) == \/ OnDelayedList(u)
              \/ /\ xStateList[u] = "suspended"
                 /\ OnEventList(u) \/ Pending(u) \/ ucNotifyState[u] = "waiting"

\* xTaskAbortDelay up to its xTaskResumeAll.
xTaskAbortDelay(t, u) ==
  /\ Calls(t) /\ u # t
  /\ uxSchedulerSuspended < MaxNesting
  /\ uxSchedulerSuspended' = uxSchedulerSuspended + 1
  /\ Blocked(u)
  /\ MakeReady(u)
  /\ LeaveEventLists(u)
  /\ ucDelayAborted' = [ucDelayAborted EXCEPT ![u] = @ \/ OnEventList(u) \/ Pending(u)]
  /\ xYieldPending' = (xYieldPending \/ Preempts(u))
  /\ pc' = [pc EXCEPT ![t] = "resume"]
  /\ UNCHANGED <<pxCurrentTCB, priorityVars, ucNotifyState, tickVars, xPendedTicks, PendSV,
                 loopVars>>

\* xTaskCatchUpTicks up to its xTaskResumeAll.
xTaskCatchUpTicks(t, xTicksToCatchUp) ==
  /\ Calls(t)
  /\ uxSchedulerSuspended = 0
  /\ uxSchedulerSuspended' = 1
  /\ xPendedTicks' = xPendedTicks + xTicksToCatchUp
  /\ pc' = [pc EXCEPT ![t] = "resume"]
  /\ UNCHANGED <<pxCurrentTCB, priorityVars, flagVars, stateVars, readyVars,
                 eventVars, tickVars, yieldVars, loopVars>>

-----------------------------------------------------------------------------
(* Waking a waiter and resuming a task: from a task or from an interrupt *)

\* xTaskRemoveFromEventList.  When it answers pdTRUE the caller may yield at
\* once; xYieldPending keeps the switch due if it does not.
xTaskRemoveFromEventList(pxEventList) ==
  /\ Unmasked /\ xEventLists[pxEventList] # <<>> /\ pxEventList \notin Unordered
  /\ LET u == Head(xEventLists[pxEventList])
         higher == Preempts(u)
     IN  /\ xEventLists' = [xEventLists EXCEPT ![pxEventList] = Tail(@)]
         /\ IF uxSchedulerSuspended = 0
              THEN MakeReady(u) /\ UNCHANGED xPendingReadyList
              ELSE /\ xPendingReadyList' = Append(xPendingReadyList, u)
                   /\ UNCHANGED <<stateVars, readyVars>>
         /\ xYieldPending' = (xYieldPending \/ higher)
         /\ PendSV' \in {PendSV, PendSV \/ higher}
  /\ UNCHANGED <<pxCurrentTCB, priorityVars, flagVars, tickVars, pendVars, loopVars, pc>>

\* The handler may yield at once when the answer is pdTRUE.
xTaskResumeFromISR(u) ==
  /\ Unmasked /\ u \in Resumable /\ prvTaskIsTaskSuspended(u)
  /\ LET yields == uxSchedulerSuspended = 0 /\ uxPriority[u] >= uxPriority[pxCurrentTCB]
     IN  /\ xYieldPending' = (xYieldPending \/ yields)
         /\ PendSV' \in {PendSV, PendSV \/ yields}
  /\ IF uxSchedulerSuspended = 0
       THEN MakeReady(u) /\ UNCHANGED xPendingReadyList
       ELSE /\ xPendingReadyList' = Append(xPendingReadyList, u)
            /\ UNCHANGED <<stateVars, readyVars>>
  /\ UNCHANGED <<pxCurrentTCB, priorityVars, flagVars, xEventLists, tickVars,
                 pendVars, loopVars, pc>>

-----------------------------------------------------------------------------
(***************************************************************************)
(* Task notifications.  ulNotifiedValue is left to Notifications: it alone *)
(* decides whether ulTaskNotifyTake has to wait, so that here the first    *)
(* critical section of a wait may go either way.                           *)
(***************************************************************************)

\* First critical section of xTaskNotifyWait and ulTaskNotifyTake, when the
\* task has to wait ...
xTaskNotifyWait(t, xTicksToWait) ==
  /\ Calls(t) /\ t \in Notifiable
  /\ uxSchedulerSuspended = 0
  /\ ucNotifyState' = [ucNotifyState EXCEPT ![t] = "waiting"]
  /\ AddCurrentTaskToDelayedList(xTicksToWait, TRUE)
  /\ PendSV' = TRUE
  /\ pc' = [pc EXCEPT ![t] = "notify"]
  /\ UNCHANGED <<pxCurrentTCB, priorityVars, uxTopReadyPriority, eventVars, xTickCount,
                 pendVars, xYieldPending, loopVars>>

\* ... and when it does not: it gave no time to wait, or there is nothing to
\* wait for.
NotifyDontWait(t, s) ==
  /\ Calls(t) /\ t \in Notifiable
  /\ uxSchedulerSuspended = 0
  /\ s \in {"waiting", ucNotifyState[t]}
  /\ ucNotifyState' = [ucNotifyState EXCEPT ![t] = s]
  /\ pc' = [pc EXCEPT ![t] = "notify"]
  /\ UNCHANGED <<pxCurrentTCB, priorityVars, ucDelayAborted, stateVars, readyVars, eventVars,
                 tickVars, pendVars, yieldVars, loopVars>>

\* Second critical section, once the task runs again.
NotifyWaitDone(t) ==
  /\ Running(t) /\ pc[t] = "notify"
  /\ ucNotifyState' = [ucNotifyState EXCEPT ![t] = "notWaiting"]
  /\ pc' = [pc EXCEPT ![t] = "app"]
  /\ UNCHANGED <<pxCurrentTCB, priorityVars, ucDelayAborted, stateVars, readyVars, eventVars,
                 tickVars, pendVars, yieldVars, loopVars>>

\* Mutant: a notification shows only once the task has run.
NotifiedLate(s) == IF s = "waiting" THEN s ELSE "received"
\* A notification is received, in whatever state it finds the task.
Notified(s) == "received"

\* Mutant: only a task without a timeout is woken.
WaitsForEver(u) == ucNotifyState[u] = "waiting" /\ xStateList[u] = "suspended"
\* The notification wakes u.
Waits(u) == ucNotifyState[u] = "waiting"

\* xTaskNotify and xTaskNotifyGive
xTaskNotify(t, u) ==
  /\ Calls(t) /\ u \in Notifiable /\ Exists(u)
  /\ ucNotifyState' = [ucNotifyState EXCEPT ![u] = Notified(@)]
  /\ IF Waits(u)
       THEN MakeReady(u) /\ PendSV' = Preempts(u)
       ELSE UNCHANGED <<stateVars, readyVars, PendSV>>
  /\ UNCHANGED <<pxCurrentTCB, priorityVars, ucDelayAborted, eventVars, tickVars, pendVars,
                 xYieldPending, loopVars, pc>>

\* xTaskNotifyFromISR and vTaskNotifyGiveFromISR
xTaskNotifyFromISR(u) ==
  /\ Unmasked /\ u \in Notifiable /\ Exists(u)
  /\ ucNotifyState' = [ucNotifyState EXCEPT ![u] = Notified(@)]
  /\ IF Waits(u)
       THEN /\ xYieldPending' = (xYieldPending \/ Preempts(u))
            /\ PendSV' \in {PendSV, PendSV \/ Preempts(u)}
            /\ IF uxSchedulerSuspended = 0
                 THEN MakeReady(u) /\ UNCHANGED xPendingReadyList
                 ELSE /\ xPendingReadyList' = Append(xPendingReadyList, u)
                      /\ UNCHANGED <<stateVars, readyVars>>
       ELSE UNCHANGED <<stateVars, readyVars, xPendingReadyList, yieldVars>>
  /\ UNCHANGED <<pxCurrentTCB, priorityVars, ucDelayAborted, xEventLists, tickVars, pendVars,
                 loopVars, pc>>

xTaskNotifyStateClear(t, u) ==
  /\ Calls(t) /\ u \in Notifiable /\ ucNotifyState[u] = "received"
  /\ ucNotifyState' = [ucNotifyState EXCEPT ![u] = "notWaiting"]
  /\ UNCHANGED <<pxCurrentTCB, priorityVars, ucDelayAborted, stateVars, readyVars, eventVars,
                 tickVars, pendVars, yieldVars, loopVars, pc>>

-----------------------------------------------------------------------------
(* xTaskIncrementTick, from the SysTick handler or from xTaskResumeAll *)

\* Mutant: the wrap does not switch the lists.
NotSwitched == xStateList
\* taskSWITCH_DELAYED_LISTS: the two pointers change places.
Switched == [t \in Task |-> CASE xStateList[t] = "delayed"  -> "overflow"
                              [] xStateList[t] = "overflow" -> "delayed"
                              [] OTHER -> xStateList[t]]

\* The count moves on; when it wraps to 0 the delayed lists are switched.
AdvanceTick ==
  LET wraps == Tick(xTickCount + 1) = 0
  IN  /\ xTickCount' = Tick(xTickCount + 1)
      /\ left' = [t \in Task |-> IF OnDelayedList(t) THEN left[t] - 1 ELSE left[t]]
      /\ xStateList' = IF wraps THEN Switched ELSE xStateList
      /\ xNextTaskUnblockTime' = IF wraps THEN NextUnblock(Switched, xWakeTime)
                                          ELSE xNextTaskUnblockTime
      /\ kernel' = IF xTickCount' >= xNextTaskUnblockTime' THEN "unblock" ELSE "slice"
      /\ xSwitchRequired' = FALSE
      /\ UNCHANGED xWakeTime

\* A round of the loop that empties the delayed list of the tasks now due.
UnblockDueTask(t) ==
  /\ kernel = "unblock"
  /\ xStateList[t] = "delayed" /\ xWakeTime[t] <= xTickCount
  /\ \A u \in Task : xStateList[u] = "delayed" => xWakeTime[t] <= xWakeTime[u]
  /\ MakeReady(t)
  /\ LeaveEventLists(t)
  /\ xSwitchRequired' = (xSwitchRequired \/ Preempts(t))
  /\ UNCHANGED <<pxCurrentTCB, priorityVars, flagVars, tickVars, pendVars, yieldVars,
                 kernel, inResumeAll, pc>>

\* The loop ends: nothing more is due.
UnblockDone ==
  /\ kernel = "unblock"
  /\ \A t \in Task : xStateList[t] = "delayed" => xTickCount < xWakeTime[t]
  /\ xNextTaskUnblockTime' = NextUnblock(xStateList, xWakeTime)
  /\ kernel' = "slice"
  /\ UNCHANGED <<pxCurrentTCB, priorityVars, flagVars, stateVars, readyVars, eventVars,
                 xTickCount, pendVars, yieldVars, inResumeAll, xSwitchRequired, pc>>

\* Mutant: time is sliced from three tasks on.
SharedByThree == Len(pxReadyTasksLists[uxPriority[pxCurrentTCB]].items) > 2
\* Another ready task has the running task's priority.
Shared == Len(pxReadyTasksLists[uxPriority[pxCurrentTCB]].items) > 1

\* Time slicing, and what the caller does with the result.
TimeSlice ==
  LET switch == xSwitchRequired \/ xYieldPending \/ Shared
  IN  /\ kernel = "slice"
      /\ xSwitchRequired' = FALSE
      /\ IF inResumeAll
           THEN /\ xYieldPending' = (xYieldPending \/ switch)
                /\ xPendedTicks' = xPendedTicks - 1
                /\ kernel' = "ticks"
                /\ UNCHANGED PendSV
           ELSE /\ PendSV' = (PendSV \/ switch)
                /\ kernel' = "none"
                /\ UNCHANGED <<xYieldPending, xPendedTicks>>
      /\ UNCHANGED <<pxCurrentTCB, priorityVars, flagVars, stateVars, readyVars,
                     eventVars, tickVars, uxSchedulerSuspended, inResumeAll, pc>>

\* Mutant: the suspension of the scheduler is not looked at.
CountsAlways == TRUE
\* Mutant: the test is the wrong way round.
CountsSuspended == uxSchedulerSuspended > 0
\* The tick is counted now, not pended.
CountsTick == uxSchedulerSuspended = 0

\* xPortSysTickHandler
SysTickHandler ==
  /\ Unmasked
  /\ IF CountsTick
       THEN AdvanceTick /\ UNCHANGED xPendedTicks
       ELSE /\ xPendedTicks < MaxPendedTicks
            /\ xPendedTicks' = xPendedTicks + 1
            /\ UNCHANGED <<stateVars, tickVars, kernel, xSwitchRequired>>
  /\ UNCHANGED <<pxCurrentTCB, priorityVars, flagVars, readyVars, eventVars,
                 uxSchedulerSuspended, yieldVars, inResumeAll, pc>>

-----------------------------------------------------------------------------
(* xTaskResumeAll, one critical section *)

xTaskResumeAll(t) ==
  /\ Running(t) /\ pc[t] \in {"app", "placed", "resume"}
  /\ uxSchedulerSuspended > 0
  /\ uxSchedulerSuspended' = uxSchedulerSuspended - 1
  /\ IF uxSchedulerSuspended = 1
       THEN kernel' = "move" /\ inResumeAll' = TRUE /\ UNCHANGED pc
       ELSE /\ pc' = [pc EXCEPT ![t] = "app"]
            /\ UNCHANGED <<kernel, inResumeAll>>
  /\ UNCHANGED <<pxCurrentTCB, priorityVars, flagVars, stateVars, readyVars, eventVars,
                 tickVars, xPendedTicks, yieldVars, xSwitchRequired>>

MovePendingReady ==
  /\ kernel \in {"move", "moved"} /\ xPendingReadyList # <<>>
  /\ LET t == Head(xPendingReadyList)
     IN  /\ MakeReady(t)
         /\ xYieldPending' = (xYieldPending \/ uxPriority[t] >= uxPriority[pxCurrentTCB])
  /\ xPendingReadyList' = Tail(xPendingReadyList)
  /\ kernel' = "moved"
  /\ UNCHANGED <<pxCurrentTCB, priorityVars, flagVars, xEventLists, tickVars, pendVars,
                 PendSV, inResumeAll, xSwitchRequired, pc>>

\* Mutant: one round of the loop is thought enough.
OneMoved == kernel = "moved" \/ xPendingReadyList = <<>>
\* Nothing pends any more.
AllMoved == xPendingReadyList = <<>>

PendingReadyEmpty ==
  /\ kernel \in {"move", "moved"} /\ AllMoved
  /\ xNextTaskUnblockTime' = IF kernel = "moved" THEN NextUnblock(xStateList, xWakeTime)
                                                 ELSE xNextTaskUnblockTime
  /\ kernel' = "ticks"
  /\ UNCHANGED <<pxCurrentTCB, priorityVars, flagVars, stateVars, readyVars, eventVars,
                 xTickCount, pendVars, yieldVars, inResumeAll, xSwitchRequired, pc>>

ReplayPendedTick ==
  /\ kernel = "ticks" /\ xPendedTicks > 0
  /\ AdvanceTick
  /\ UNCHANGED <<pxCurrentTCB, priorityVars, flagVars, readyVars, eventVars, pendVars,
                 yieldVars, inResumeAll, pc>>

\* A yield found pending is taken here; a task about to block that was told
\* of none yields by itself next.
ResumeAllDone ==
  /\ kernel = "ticks" /\ xPendedTicks = 0
  /\ PendSV' = xYieldPending
  /\ pc' = [pc EXCEPT ![pxCurrentTCB] =
              IF @ = "placed" /\ ~xYieldPending THEN "yield" ELSE "app"]
  /\ kernel' = "none" /\ inResumeAll' = FALSE
  /\ UNCHANGED <<pxCurrentTCB, priorityVars, flagVars, stateVars, readyVars, eventVars,
                 tickVars, pendVars, xYieldPending, xSwitchRequired>>

-----------------------------------------------------------------------------
(* xPortPendSVHandler: vTaskSwitchContext *)

\* taskSELECT_HIGHEST_PRIORITY_TASK searches down from uxTopReadyPriority; the
\* search that finds every list empty has no step (configASSERT).
TopReady(p) ==
  /\ p <= uxTopReadyPriority /\ pxReadyTasksLists[p].items # <<>>
  /\ \A q \in p + 1 .. uxTopReadyPriority : pxReadyTasksLists[q].items = <<>>

vTaskSwitchContext ==
  /\ Unmasked /\ PendSV
  /\ PendSV' = FALSE
  /\ \/ /\ uxSchedulerSuspended > 0
        /\ xYieldPending' = TRUE
        /\ UNCHANGED <<pxCurrentTCB, readyVars>>
     \/ /\ uxSchedulerSuspended = 0
        /\ xYieldPending' = FALSE
        /\ \E p \in Priority :
             /\ TopReady(p)
             /\ LET i == NextIndex(pxReadyTasksLists[p])
                IN  /\ pxReadyTasksLists' = [pxReadyTasksLists EXCEPT ![p].pxIndex = i]
                    /\ pxCurrentTCB' = pxReadyTasksLists[p].items[i]
             /\ uxTopReadyPriority' = p
  /\ UNCHANGED <<priorityVars, flagVars, stateVars, eventVars, tickVars, pendVars,
                 loopVars, pc>>

-----------------------------------------------------------------------------
KernelStep == \/ MovePendingReady \/ PendingReadyEmpty \/ ReplayPendedTick \/ ResumeAllDone
              \/ \E t \in Task : UnblockDueTask(t)
              \/ UnblockDone \/ TimeSlice

Interrupt == \/ SysTickHandler
             \/ vTaskSwitchContext
             \/ \E l \in EventList : xTaskRemoveFromEventList(l)
             \/ \E u \in Task : xTaskResumeFromISR(u) \/ xTaskNotifyFromISR(u)

TaskStep(t) ==
  \/ \E n \in BlockTimes : vTaskDelay(t, n)
  \/ \E l \in EventList, n \in BlockTimes \cup {portMAX_DELAY} : vTaskPlaceOnEventList(t, l, n)
  \/ \E l \in EventList, n \in BlockTimes \cup {portMAX_DELAY} :
       vTaskPlaceOnUnorderedEventList(t, l, n)
  \/ (\E l \in EventList, u \in Task : vTaskRemoveFromUnorderedEventList(t, u, l))
  \/ uxTaskResetEventItemValue(t)
  \/ vTaskSuspendAll(t) \/ xTaskResumeAll(t) \/ taskYIELD(t) \/ vTaskSuspendReset(t)
  \/ \E n \in 1 .. MaxPendedTicks : xTaskCatchUpTicks(t, n)
  \/ \E n \in BlockTimes \cup {portMAX_DELAY} : xTaskNotifyWait(t, n)
  \/ (\E s \in NotifyStates : NotifyDontWait(t, s)) \/ NotifyWaitDone(t)
  \/ \E u \in Task : \/ vTaskSuspend(t, u) \/ vTaskResume(t, u)
                     \/ xTaskCreate(t, u) \/ vTaskDelete(t, u)
                     \/ prvIdleTask(t, u) \/ xTaskAbortDelay(t, u)
                     \/ xTaskNotify(t, u) \/ xTaskNotifyStateClear(t, u)
                     \/ \E p \in Priority : vTaskPrioritySet(t, u, p)

Next == KernelStep \/ Interrupt \/ \E t \in Task : TaskStep(t)

Spec == Init /\ [][Next]_tasksVars

-----------------------------------------------------------------------------
TypeOK ==
  /\ pxCurrentTCB \in Task
  /\ uxPriority \in [Task -> Priority] /\ uxBasePriority \in [Task -> Priority]
  /\ xEventPriority \in [Task -> Priority \cup {InUse}]
  /\ ucDelayAborted \in [Task -> BOOLEAN] /\ ucNotifyState \in [Task -> NotifyStates]
  /\ xStateList \in [Task -> StateLists]
  /\ xWakeTime \in [Task -> 0 .. portMAX_DELAY] /\ left \in [Task -> 0 .. portMAX_DELAY]
  /\ pxReadyTasksLists \in [Priority -> [items : Seq(Task), pxIndex : Nat]]
  /\ uxTopReadyPriority \in Priority
  /\ xEventLists \in [EventList -> Seq(Task)] /\ xPendingReadyList \in Seq(Task)
  /\ xTickCount \in 0 .. portMAX_DELAY /\ xNextTaskUnblockTime \in 0 .. portMAX_DELAY
  /\ uxSchedulerSuspended \in Nat /\ xPendedTicks \in Nat
  /\ xYieldPending \in BOOLEAN /\ PendSV \in BOOLEAN
  /\ kernel \in KernelSteps /\ inResumeAll \in BOOLEAN /\ xSwitchRequired \in BOOLEAN
  /\ pc \in [Task -> Pcs]

\* The ready lists hold exactly the ready tasks, each once and at its priority;
\* the cursors point into them and uxTopReadyPriority, from which the next
\* task is searched downwards, is above none of them.
ReadyLists ==
  /\ \A p \in Priority :
       LET l == pxReadyTasksLists[p]
       IN  /\ ToSet(l.items) = {t \in Task : xStateList[t] = "ready" /\ uxPriority[t] = p}
           /\ IsInjective(l.items)
           /\ l.pxIndex <= Len(l.items)
           /\ l.items # <<>> => p <= uxTopReadyPriority

\* A task that waits for an object is on no ready list, and on one list of
\* waiters only: no ready task is ever woken in place of one that waits, and
\* none is readied twice.  (An interrupt may notify a task whose wait has just
\* timed out, but which has not run since.)
WaitersBlocked ==
  /\ \A t \in Task : OnEventList(t) => OnDelayedList(t) \/ xStateList[t] = "suspended"
  /\ \A t \in Task : Pending(t) => \/ OnDelayedList(t) \/ xStateList[t] = "suspended"
                                  \/ (xStateList[t] = "ready" /\ pc[t] = "notify")
  /\ \A t \in Task : Cardinality({l \in EventList : Contains(xEventLists[l], t)})
                       + (IF Pending(t) THEN 1 ELSE 0) <= 1
  /\ \A l \in EventList : IsInjective(xEventLists[l])
  /\ IsInjective(xPendingReadyList)

\* The event item of a task that waits for an event group holds its bits until
\* the task has read them: no change of priority overwrites them.
BitsKept ==
  \A t \in Task, l \in Unordered : Contains(xEventLists[l], t) => xEventPriority[t] = InUse

\* The assertion of the two notifications from interrupts, tasks.c:5066 and
\* 5165: the event item of a task that waits for a notification is in no list,
\* so that it may be put on xPendingReadyList.
EventItemFree == \A t \in Task : ucNotifyState[t] = "waiting" => ~OnEventList(t) /\ ~Pending(t)

\* The event item of a task that waits by other means than a list of its own is
\* left alone: it keeps the bits it carries, and is free for an interrupt to use.
EventItemsKept == BitsKept /\ EventItemFree

\* No notification is slept through: a task that was notified in a wait with
\* a timeout is ready, or will be when the scheduler is resumed.
NotifiedIsAwake ==
  \A t \in Task : pc[t] = "notify" /\ ucNotifyState[t] = "received" /\ OnDelayedList(t)
                    => Pending(t)

\* The value of a delayed task's list item denotes the very tick its delay ends
\* on, now or after the count has wrapped, and no delay outlives that tick:
\* once a tick has been processed every task still delayed is due later.
WakeOnTime ==
  \A t \in Task :
    /\ xStateList[t] = "delayed"  => xWakeTime[t] = xTickCount + left[t]
    /\ xStateList[t] = "overflow" => xWakeTime[t] + TickRange = xTickCount + left[t]
    /\ OnDelayedList(t) /\ kernel # "unblock" => left[t] > 0

\* The shortcut of xTaskIncrementTick is safe: the tick at which it next looks
\* at the delayed list is never after the first task of that list is due.
UnblockTimeNotLate ==
  kernel # "unblock" =>
    \A t \in Task : xStateList[t] = "delayed" => xNextTaskUnblockTime <= xWakeTime[t]

\* Nothing readied and no tick stays behind once the scheduler is resumed.
PendedWorkDrained ==
  Unmasked /\ uxSchedulerSuspended = 0 => xPendingReadyList = <<>> /\ xPendedTicks = 0

\* The running task is a ready task of the highest priority, unless a switch
\* is due: pended, noted in xYieldPending, or the next thing this task does.
HighestPriorityRuns ==
  (/\ Unmasked /\ uxSchedulerSuspended = 0
   /\ ~PendSV /\ ~xYieldPending
   /\ pc[pxCurrentTCB] \notin {"resetSelf", "yield"})
  => /\ xStateList[pxCurrentTCB] = "ready"
     /\ \A t \in Task : xStateList[t] = "ready" => uxPriority[t] <= uxPriority[pxCurrentTCB]

\* A task whose wait ends on the tick count has waited exactly what it asked.
WakeNotEarly ==
  [][\A t \in Task : kernel = "unblock" /\ OnDelayedList(t) /\ xStateList'[t] = "ready"
       => left[t] = 0]_tasksVars

\* While the scheduler is suspended no interrupt touches what the running task
\* may be walking with interrupts enabled: the tick count and the lists of
\* state items.  The running task keeps the processor.
SuspendedListsFrozen ==
  [][Interrupt /\ uxSchedulerSuspended > 0
       => UNCHANGED <<pxCurrentTCB, stateVars, readyVars, tickVars>>]_tasksVars

-----------------------------------------------------------------------------
(***************************************************************************)
(* Fairness.  The masked loops run to their end; PendSV is served; SysTick *)
(* is a periodic timer, so it is served again and again as long as the     *)
(* interrupts are unmasked again and again; a task that runs finishes the  *)
(* call it is in and resumes the scheduler it suspended; the idle task     *)
(* runs its loop.  Nothing else is assumed of the application.             *)
(***************************************************************************)
EndsCall == \E t \in Task : vTaskSuspendReset(t) \/ (pc[t] = "yield" /\ taskYIELD(t))

Fairness ==
  /\ WF_tasksVars(KernelStep)
  /\ SF_tasksVars(SysTickHandler)
  /\ SF_tasksVars(vTaskSwitchContext)
  /\ SF_tasksVars(\E t \in Task : xTaskResumeAll(t))
  /\ SF_tasksVars(EndsCall)
  /\ SF_tasksVars(\E u \in Task : prvIdleTask(Idle, u))

FairSpec == Spec /\ Fairness

\* Every delay ends, whatever the other tasks and the interrupts do.
DelayEnds == \A t \in Task \ {Idle} : OnDelayedList(t) ~> ~OnDelayedList(t)

\* A ready task of the highest priority gets the processor: equal tasks that
\* are readied again and again do not keep it from its turn.
TimeSliced ==
  \A t \in Task :
    LET waits == xStateList[t] = "ready" /\ uxPriority[t] = MaxPriorities - 1
    IN  waits ~> (pxCurrentTCB = t \/ ~waits)

\* Unless tasks above it take all the time, the idle task frees the TCB of
\* each task that deleted itself.
DeletedIsFreed ==
  \A t \in Task \ {Idle} : xStateList[t] = "termination" ~> xStateList[t] = "none"

-----------------------------------------------------------------------------
(***************************************************************************)
(* Tasks implements Kernel.  A task that the masked loops have yet to put  *)
(* on its ready list counts as ready from their first step on.             *)
(***************************************************************************)
Arriving(t) == \/ OnDelayedList(t) /\ left[t] = 0
               \/ Pending(t) /\ uxSchedulerSuspended = 0

AbstractState ==
  [t \in Task |-> CASE Arriving(t)                    -> "ready"
                    [] xStateList[t] = "termination"  -> "deleted"
                    [] OnDelayedList(t) /\ ~Arriving(t) -> "blocked"
                    [] OTHER                          -> xStateList[t]]

AbstractSwitchDue ==
  \/ PendSV \/ xYieldPending \/ xSwitchRequired
  \/ \E t \in Task : Arriving(t) /\ (IF Pending(t) THEN uxPriority[t] >= uxPriority[pxCurrentTCB]
                                                    ELSE Preempts(t))

K == INSTANCE Kernel WITH
  state <- AbstractState,
  left <- [t \in Task |-> IF Arriving(t) THEN 0 ELSE left[t]],
  xEventLists <- [l \in EventList |-> WithoutAll(xEventLists[l], {t \in Task : Arriving(t)})],
  pending <- {t \in Task : Pending(t) /\ uxSchedulerSuspended > 0},
  switchDue <- AbstractSwitchDue

\* The lists, the wrapping count and the loops of the code keep the promise of
\* Kernel: every step is one of its steps or changes nothing there.
ImplementsKernel == K!Spec
=============================================================================
