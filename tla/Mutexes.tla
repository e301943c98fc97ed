------------------------------ MODULE Mutexes ------------------------------
(***************************************************************************)
(* Mutexes with priority inheritance: xQueueSemaphoreTake of a queue of    *)
(* type queueQUEUE_IS_MUTEX and the give, xQueueGenericSend, over the      *)
(* scheduler Kernel.                                                       *)
(*                                                                         *)
(* No interrupt gives or takes a mutex, so the queue lock of Queues has    *)
(* nothing to do here and is left out; uxMessagesWaiting is 0 exactly when *)
(* xMutexHolder is set, in the same critical section.  What Queues shows   *)
(* of the TimeOut_t, that a call waits for the rest of its time, is taken  *)
(* for granted: "rest" counts it down.                                     *)
(***************************************************************************)
EXTENDS Kernel

CONSTANTS
  NULL,
  WaitTimes,    \* bound: the values of xTicksToWait
  DelayTimes    \* bound: the values of xTicksToDelay

Mutex == EventList   \* each named after its list xTasksWaitingToReceive

ASSUME MutexAssumption ==
  /\ IsFiniteSet(Mutex)
  /\ NULL \notin Task \cup Mutex
  /\ WaitTimes \subseteq 0 .. portMAX_DELAY
  /\ DelayTimes \subseteq 1 .. portMAX_DELAY

VARIABLES
  xMutexHolder,           \* the task that holds each mutex, or NULL
  uxMutexesHeld,          \* how many each task holds
  step,                   \* how far each task is in xQueueSemaphoreTake
  mutex,                  \* ... of which mutex
  rest,                   \* ticks left of its time to wait
  xInheritanceOccurred    \* local of the call

\* "first", "check", "last": the critical section at the head of the loop, xTicksToWait
\* being what the caller asked for, what was left when it last looked, or 0; "lock":
\* vTaskSuspendAll; "timeout": xTaskCheckForTimeOut; "inherit": xTaskPriorityInherit;
\* "place": vTaskPlaceOnEventList; "resume": xTaskResumeAll, and "resumeExpired"
\* after a timeout; "expired": prvIsQueueEmpty; "disinherit": the last critical section.
Steps == {"none", "first", "check", "last", "lock", "timeout", "inherit", "place",
          "resume", "resumeExpired", "expired", "disinherit"}

callVars  == <<step, mutex, rest, xInheritanceOccurred>>
holdVars  == <<xMutexHolder, uxMutexesHeld>>
mutexVars == <<kernelVars, callVars, holdVars>>

MutexInit ==
  /\ Init
  /\ xMutexHolder = [m \in Mutex |-> NULL] /\ uxMutexesHeld = [t \in Task |-> 0]
  /\ step = [t \in Task |-> "none"] /\ mutex = [t \in Task |-> NULL]
  /\ rest = [t \in Task |-> 0]
  /\ xInheritanceOccurred = [t \in Task |-> FALSE]

\* t is at the step s and runs: a switch that is due comes first, unless the
\* scheduler is suspended.
At(t, s) == AtCall(t) /\ step[t] = s /\ (switchDue => uxSchedulerSuspended > 0)

Goto(t, s) == step' = [step EXCEPT ![t] = s]

Return(t) ==
  /\ step' = [step EXCEPT ![t] = "none"] /\ mutex' = [mutex EXCEPT ![t] = NULL]
  /\ rest' = [rest EXCEPT ![t] = 0]
  /\ xInheritanceOccurred' = [xInheritanceOccurred EXCEPT ![t] = FALSE]

-----------------------------------------------------------------------------
(* xQueueSemaphoreTake *)

Take(t, m, n) ==
  /\ At(t, "none") /\ t # Idle /\ uxSchedulerSuspended = 0
  /\ Goto(t, "first")
  /\ mutex' = [mutex EXCEPT ![t] = m] /\ rest' = [rest EXCEPT ![t] = n]
  /\ UNCHANGED <<kernelVars, xInheritanceOccurred, holdVars>>

\* uxSemaphoreCount > 0
Available(m) == xMutexHolder[m] = NULL

\* pvTaskIncrementMutexHeldCount; nobody ever waits to give a mutex.
Obtain(t) ==
  /\ \E s \in {"first", "check", "last"} : At(t, s)
  /\ Available(mutex[t])
  /\ xMutexHolder' = [xMutexHolder EXCEPT ![mutex[t]] = t]
  /\ uxMutexesHeld' = [uxMutexesHeld EXCEPT ![t] = @ + 1]
  /\ Return(t)
  /\ UNCHANGED kernelVars

\* xTicksToWait is 0: a call that comes back to the loop when its time is up may
\* find that another task was faster, and fails without taking back what it lent.
FailAtOnce(t) ==
  /\ (At(t, "first") /\ rest[t] = 0) \/ At(t, "last")
  /\ ~Available(mutex[t])
  /\ Return(t)
  /\ UNCHANGED <<kernelVars, holdVars>>

StartWaiting(t) ==
  /\ (At(t, "first") /\ rest[t] > 0) \/ At(t, "check")
  /\ ~Available(mutex[t])
  /\ Goto(t, "lock")
  /\ UNCHANGED <<kernelVars, mutex, rest, xInheritanceOccurred, holdVars>>

Lock(t) ==
  /\ At(t, "lock")
  /\ SuspendAll(t)
  /\ Goto(t, "timeout")
  /\ UNCHANGED <<mutex, rest, xInheritanceOccurred, holdVars>>

\* xTaskCheckForTimeOut, then prvIsQueueEmpty.
CheckForTimeOut(t) ==
  /\ At(t, "timeout")
  /\ ucDelayAborted' = [ucDelayAborted EXCEPT ![t] = FALSE]
  /\ LET timedOut == ucDelayAborted[t] \/ rest[t] = 0
     IN  /\ rest' = IF timedOut THEN [rest EXCEPT ![t] = 0] ELSE rest
         /\ Goto(t, CASE timedOut                        -> "resumeExpired"
                      [] xMutexHolder[mutex[t]] = NULL   -> "resume"
                      [] OTHER                           -> "inherit")
  /\ UNCHANGED <<pxCurrentTCB, priorityVars, ucNotifyState, state, left, xEventLists, pending,
                 uxSchedulerSuspended, xTickCount, switchDue, mutex, xInheritanceOccurred, holdVars>>

\* Task h runs at priority p from now on; its event item is kept in step, but
\* stays where it is in the list of the mutex h may be waiting for itself.
SetPriority(h, p) ==
  /\ uxPriority' = [uxPriority EXCEPT ![h] = p]
  /\ xEventPriority' = [xEventPriority EXCEPT ![h] = p]

\* The holder is raised to the priority of the task about to wait.
Inherits(h, t) == uxPriority[h] < uxPriority[t]

\* The call remembers that h has inherited, from this task or from another.
xTaskPriorityInherit(t) ==
  LET h == xMutexHolder[mutex[t]]
  IN  /\ At(t, "inherit")
      /\ IF Inherits(h, t) THEN SetPriority(h, uxPriority[t])
                           ELSE UNCHANGED <<uxPriority, xEventPriority>>
      /\ xInheritanceOccurred' = [xInheritanceOccurred EXCEPT ![t] =
           uxPriority[h] < uxPriority[t] \/ uxBasePriority[h] < uxPriority[t]]
      /\ Goto(t, "place")
      /\ UNCHANGED <<pxCurrentTCB, uxBasePriority, flagVars, state, left, xEventLists,
                     pending, uxSchedulerSuspended, xTickCount, switchDue, mutex, rest, holdVars>>

Place(t) ==
  /\ At(t, "place")
  /\ PlaceOnEventList(t, mutex[t], rest[t])
  /\ Goto(t, "resume")
  /\ UNCHANGED <<mutex, rest, xInheritanceOccurred, holdVars>>

ResumeScheduler(t) ==
  /\ At(t, "resume") \/ At(t, "resumeExpired")
  /\ ResumeAll(t)
  /\ Goto(t, IF step[t] = "resume" THEN "check" ELSE "expired")
  /\ UNCHANGED <<mutex, rest, xInheritanceOccurred, holdVars>>

\* The time is up: once more round if the mutex has come free meanwhile, else
\* take back the priority lent to the holder.
Expire(t) ==
  /\ At(t, "expired")
  /\ IF xMutexHolder[mutex[t]] # NULL /\ ~xInheritanceOccurred[t]
       THEN Return(t)
       ELSE /\ Goto(t, IF xMutexHolder[mutex[t]] = NULL THEN "last" ELSE "disinherit")
            /\ UNCHANGED <<mutex, rest, xInheritanceOccurred>>
  /\ UNCHANGED <<kernelVars, holdVars>>

\* prvGetDisinheritPriorityAfterTimeout: the value of the first item in the list.
HighestWaiting(m) ==
  IF xEventLists[m] = <<>> THEN 0 ELSE xEventPriority[Head(xEventLists[m])]

\* Mutant: the holder falls back to its own priority.
OwnPriority(h, p) == uxBasePriority[h]
\* The higher of its own priority and that of the tasks that still wait.
PriorityToUse(h, p) == IF uxBasePriority[h] < p THEN p ELSE uxBasePriority[h]

\* The holder may be another by now, or none.  It keeps a priority it may have
\* inherited through a second mutex.
vTaskPriorityDisinheritAfterTimeout(t) ==
  LET h == xMutexHolder[mutex[t]]
      p == PriorityToUse(h, HighestWaiting(mutex[t]))
  IN  /\ At(t, "disinherit")
      /\ IF h # NULL /\ uxMutexesHeld[h] = 1 THEN SetPriority(h, p)
                                             ELSE UNCHANGED <<uxPriority, xEventPriority>>
      /\ Return(t)
      /\ UNCHANGED <<pxCurrentTCB, uxBasePriority, flagVars, state, left, xEventLists,
                     pending, uxSchedulerSuspended, xTickCount, switchDue, holdVars>>

-----------------------------------------------------------------------------
(* The give: xQueueGenericSend with prvCopyDataToQueue *)

\* Mutant: the count is read before it is decremented.
DisinheritsLate(t) == uxPriority[t] # uxBasePriority[t] /\ uxMutexesHeld[t] = 0
\* xTaskPriorityDisinherit: only with the last mutex.
Disinherits(t) == uxPriority[t] # uxBasePriority[t] /\ uxMutexesHeld[t] = 1

\* Mutant: the give wakes nobody.
NobodyWoken(m) == {}
\* The waiter that a give wakes.
Woken(m) == IF xEventLists[m] = <<>> THEN {} ELSE {Head(xEventLists[m])}

\* A yield when the woken task preempts, or, with nobody to wake, when the
\* holder has given up an inherited priority.
Give(t, m) ==
  /\ At(t, "none") /\ uxSchedulerSuspended = 0
  /\ xMutexHolder[m] = t
  /\ xMutexHolder' = [xMutexHolder EXCEPT ![m] = NULL]
  /\ uxMutexesHeld' = [uxMutexesHeld EXCEPT ![t] = @ - 1]
  /\ IF Disinherits(t) THEN SetPriority(t, uxBasePriority[t])
                       ELSE UNCHANGED <<uxPriority, xEventPriority>>
  /\ xEventLists' = [xEventLists EXCEPT ![m] = WithoutAll(@, Woken(m))]
  /\ state' = [u \in Task |-> IF u \in Woken(m) THEN "ready" ELSE state[u]]
  /\ left' = [u \in Task |-> IF u \in Woken(m) THEN 0 ELSE left[u]]
  /\ switchDue' = IF Woken(m) = {} THEN Disinherits(t)
                                   ELSE \E u \in Woken(m) : uxPriority[u] > uxPriority'[t]
  /\ UNCHANGED <<pxCurrentTCB, uxBasePriority, flagVars, pending, uxSchedulerSuspended,
                 xTickCount, callVars>>

-----------------------------------------------------------------------------
(* What else the tasks do, and the scheduler *)

\* vTaskDelay: between its calls a task sleeps.
Sleep(t, n) ==
  /\ At(t, "none")
  /\ Delay(t, n)
  /\ UNCHANGED <<callVars, holdVars>>

EndDelay(t) ==
  /\ At(t, "none")
  /\ ResumeAll(t)
  /\ UNCHANGED <<callVars, holdVars>>

\* A tick counts for every call that waits with a timeout.
Scheduler ==
  /\ IncrementTick \/ SwitchContext
  /\ rest' = [t \in Task |->
       IF /\ xTickCount' # xTickCount
          /\ step[t] \notin {"none", "first"} /\ rest[t] \notin {0, portMAX_DELAY}
         THEN rest[t] - 1 ELSE rest[t]]
  /\ UNCHANGED <<step, mutex, xInheritanceOccurred, holdVars>>

CallStep(t) ==
  \/ \E m \in Mutex, n \in WaitTimes : Take(t, m, n)
  \/ Obtain(t) \/ FailAtOnce(t) \/ StartWaiting(t) \/ Lock(t) \/ CheckForTimeOut(t)
  \/ xTaskPriorityInherit(t) \/ Place(t) \/ ResumeScheduler(t) \/ Expire(t)
  \/ vTaskPriorityDisinheritAfterTimeout(t)
  \/ \E m \in Mutex : Give(t, m)
  \/ \E n \in DelayTimes : Sleep(t, n)
  \/ EndDelay(t)

MutexNext == Scheduler \/ \E t \in Task : CallStep(t)

MutexSpec == MutexInit /\ [][MutexNext]_mutexVars

-----------------------------------------------------------------------------
MutexTypeOK ==
  /\ xMutexHolder \in [Mutex -> Task \cup {NULL}]
  /\ uxMutexesHeld \in [Task -> 0 .. Cardinality(Mutex)]
  /\ step \in [Task -> Steps] /\ mutex \in [Task -> Mutex \cup {NULL}]
  /\ rest \in [Task -> 0 .. portMAX_DELAY]
  /\ xInheritanceOccurred \in [Task -> BOOLEAN]
  /\ uxPriority \in [Task -> Priority] /\ xEventPriority \in [Task -> Priority]

\* A priority is lent, not given: a task that holds no mutex runs at its own.
PriorityGivenBack ==
  \A t \in Task : (\A m \in Mutex : xMutexHolder[m] # t) => uxPriority[t] = uxBasePriority[t]

\* Only the last mutex given back, or a timeout, takes a lent priority back, and
\* then not below the task that is first in the mutex's list: a holder that runs
\* at the priority of its first waiter does so until it gives the mutex.
LentWhileNeeded ==
  [][\A m \in Mutex :
       LET h     == xMutexHolder[m]
           first == Head(xEventLists'[m])
       IN  /\ h # NULL /\ xMutexHolder'[m] = h /\ xEventLists'[m] # <<>>
           /\ uxPriority[h] >= uxBasePriority[first]
           => uxPriority'[h] >= uxBasePriority[first]]_mutexVars

\* queue.c, xQueueSemaphoreTake: "the priority should be disinherited again, but
\* only as low as the next highest priority task that is waiting for the same
\* mutex", and "To be running the calling task must be the highest priority task
\* wanting to access the queue".  Neither holds when a task waits for one mutex
\* while it holds another: its place in the list is that of a priority it no
\* longer has.
NoInversion ==
  \A m \in Mutex : xMutexHolder[m] # NULL =>
    \A i \in 1 .. Len(xEventLists[m]) :
      uxPriority[xMutexHolder[m]] >= uxBasePriority[xEventLists[m][i]]

\* A free mutex is on offer: if a task sleeps waiting for it, another, woken
\* for it, is on its way to take it.
FreeMutexOffered ==
  \A m \in Mutex : xMutexHolder[m] = NULL /\ xEventLists[m] # <<>> =>
    \E t \in Task : mutex[t] = m /\ state[t] = "ready"

\* The holders and calls make sense, and no free mutex is slept on.
MutexConsistent == MutexTypeOK /\ FreeMutexOffered

\* tasks.c, xTaskPriorityDisinherit: "a context switch should occur when the
\* last mutex is returned whether a task is waiting on it or not".  The
\* running task is of the highest priority unless a switch is due.
HighestPriorityRuns ==
  state[pxCurrentTCB] = "ready" /\ uxSchedulerSuspended = 0 /\ ~switchDue =>
    \A t \in Task : state[t] = "ready" => uxPriority[t] <= uxPriority[pxCurrentTCB]
=============================================================================
