------------------------------- MODULE Kernel -------------------------------
(***************************************************************************)
(* What the scheduler of kernel/FreeRTOS/tasks.c promises to the tasks and *)
(* to the kernel objects built on it.  Tasks, which models the lists, the  *)
(* wrapping tick count and the masked loops of the code, is shown to       *)
(* implement this module; the modules of the kernel objects extend it.     *)
(*                                                                         *)
(* A delayed task becomes ready at the tick it is due, all the tasks due   *)
(* at once; what is readied while the scheduler is suspended becomes ready *)
(* when it is resumed, and time stands still until then; the processor     *)
(* goes to a ready task of the highest priority whenever a switch is due,  *)
(* and to one of equal priority at any time (time slicing).                *)
(***************************************************************************)
EXTENDS Lists

CONSTANTS Task, Idle, EventList, MaxPriorities, InitPriority, Late, TickRange,
          Notifiable, Resumable,  \* the tasks that wait for notifications; that are resumed
          Unordered               \* the lists of EventList that belong to event groups

Priority == 0 .. MaxPriorities - 1
portMAX_DELAY == TickRange - 1

ASSUME KernelAssumption ==
  /\ IsFiniteSet(Task)
  /\ MaxPriorities \in Nat \ {0} /\ InitPriority \in [Task -> Priority]
  /\ TickRange \in Nat \ {0}

\* The item of a task that waits for an event group holds the bits it waits
\* for, and no priority.
InUse == -1

VARIABLES
  pxCurrentTCB,
  uxPriority, uxBasePriority, xEventPriority,
  ucDelayAborted,
  ucNotifyState,         \* of each task's one notification: see NotifyStates
  state,                 \* of each task: see States
  left,                  \* ticks until a blocked task is due
  xEventLists,           \* tasks waiting for each object, by priority
  pending,               \* readied while the scheduler is suspended
  uxSchedulerSuspended,
  xTickCount,
  switchDue              \* PendSV is pending, or xYieldPending is set

\* A task that waits for an object without a timeout is "suspended" and on
\* the object's list; one that was suspended is on none.
States == {"ready", "blocked", "suspended", "deleted", "none"}

NotifyStates == {"notWaiting", "waiting", "received"}

priorityVars == <<uxPriority, uxBasePriority, xEventPriority>>
flagVars == <<ucDelayAborted, ucNotifyState>>
kernelVars == <<pxCurrentTCB, priorityVars, flagVars, state, left, xEventLists, pending,
                uxSchedulerSuspended, xTickCount, switchDue>>

Created == Task \ Late

Init ==
  /\ pxCurrentTCB \in {t \in Created : \A u \in Created : InitPriority[u] <= InitPriority[t]}
  /\ uxPriority = InitPriority /\ uxBasePriority = InitPriority
  /\ xEventPriority = InitPriority
  /\ ucDelayAborted = [t \in Task |-> FALSE]
  /\ ucNotifyState = [t \in Task |-> "notWaiting"]
  /\ state = [t \in Task |-> IF t \in Late THEN "none" ELSE "ready"]
  /\ left = [t \in Task |-> 0]
  /\ xEventLists = [l \in EventList |-> <<>>] /\ pending = {}
  /\ uxSchedulerSuspended = 0 /\ xTickCount = 0 /\ switchDue = FALSE

-----------------------------------------------------------------------------
\* The running task may make a call: it is ready, or it has yet to resume the
\* scheduler it suspended in order to block.
AtCall(t) == t = pxCurrentTCB /\ (state[t] = "ready" \/ uxSchedulerSuspended > 0)
Calls(t) == t = pxCurrentTCB /\ state[t] = "ready" /\ t # Idle

Exists(t) == state[t] \notin {"deleted", "none"}
OnEventList(t) == \E l \in EventList : Contains(xEventLists[l], t)
Preempts(u) == uxPriority[u] > uxPriority[pxCurrentTCB]

\* The tasks of S leave the lists they wait on.
LeaveEventLists(S) ==
  /\ xEventLists' = [l \in EventList |-> WithoutAll(xEventLists[l], S)]
  /\ pending' = pending \ S

MoveTo(t, s) == state' = [state EXCEPT ![t] = s] /\ left' = [left EXCEPT ![t] = 0]

-----------------------------------------------------------------------------
(* Time and the processor *)

\* The running task gives way: to any task of the highest priority when a
\* switch is due or it is not ready, else only to its equals.
SwitchContext ==
  /\ uxSchedulerSuspended = 0
  /\ \E t \in Task :
       /\ state[t] = "ready"
       /\ \A u \in Task : state[u] = "ready" => uxPriority[u] <= uxPriority[t]
       /\ \/ switchDue \/ state[pxCurrentTCB] # "ready"
          \/ uxPriority[t] = uxPriority[pxCurrentTCB]
       /\ pxCurrentTCB' = t
  /\ switchDue' = FALSE
  /\ UNCHANGED <<priorityVars, flagVars, state, left, xEventLists, pending,
                 uxSchedulerSuspended, xTickCount>>

\* taskYIELD, or a tick that finds the priority shared.
RequestSwitch ==
  /\ switchDue' = TRUE
  /\ UNCHANGED <<pxCurrentTCB, priorityVars, flagVars, state, left, xEventLists, pending,
                 uxSchedulerSuspended, xTickCount>>

IncrementTick ==
  LET due == {t \in Task : state[t] = "blocked" /\ left[t] = 1}
  IN  /\ uxSchedulerSuspended = 0
      /\ xTickCount' = IF xTickCount = portMAX_DELAY THEN 0 ELSE xTickCount + 1
      /\ left' = [t \in Task |-> IF state[t] = "blocked" THEN left[t] - 1 ELSE left[t]]
      /\ state' = [t \in Task |-> IF t \in due THEN "ready" ELSE state[t]]
      /\ LeaveEventLists(due)
      /\ switchDue' = (switchDue \/ \E t \in due : Preempts(t))
      /\ UNCHANGED <<pxCurrentTCB, priorityVars, flagVars, uxSchedulerSuspended>>

SuspendAll(t) ==
  /\ AtCall(t)
  /\ uxSchedulerSuspended' = uxSchedulerSuspended + 1
  /\ UNCHANGED <<pxCurrentTCB, priorityVars, flagVars, state, left, xEventLists, pending,
                 xTickCount, switchDue>>

\* What is pending becomes ready.  Ticks that pended follow as IncrementTick.
ResumeAll(t) ==
  /\ t = pxCurrentTCB
  /\ uxSchedulerSuspended > 0
  /\ uxSchedulerSuspended' = uxSchedulerSuspended - 1
  /\ IF uxSchedulerSuspended = 1
       THEN /\ state' = [u \in Task |-> IF u \in pending THEN "ready" ELSE state[u]]
            /\ left' = [u \in Task |-> IF u \in pending THEN 0 ELSE left[u]]
            /\ pending' = {}
            /\ switchDue' = (switchDue \/ \E u \in pending : uxPriority[u] >= uxPriority[t])
       ELSE UNCHANGED <<state, left, pending, switchDue>>
  /\ UNCHANGED <<pxCurrentTCB, priorityVars, flagVars, xEventLists, xTickCount>>

-----------------------------------------------------------------------------
(* Blocking and waking *)

Delay(t, n) ==
  /\ Calls(t) /\ uxSchedulerSuspended = 0
  /\ uxSchedulerSuspended' = 1
  /\ ucDelayAborted' = [ucDelayAborted EXCEPT ![t] = FALSE]
  /\ state' = [state EXCEPT ![t] = "blocked"] /\ left' = [left EXCEPT ![t] = n]
  /\ UNCHANGED <<pxCurrentTCB, priorityVars, ucNotifyState, xEventLists, pending, xTickCount,
                 switchDue>>

PlaceOnEventList(t, l, n) ==
  /\ Calls(t) /\ uxSchedulerSuspended = 1 /\ l \notin Unordered
  /\ ucDelayAborted' = [ucDelayAborted EXCEPT ![t] = FALSE]
  /\ xEventLists' = [xEventLists EXCEPT ![l] =
                       vListInsert(@, t, [u \in Task |-> MaxPriorities - xEventPriority[u]])]
  /\ IF n = portMAX_DELAY
       THEN MoveTo(t, "suspended")
       ELSE state' = [state EXCEPT ![t] = "blocked"] /\ left' = [left EXCEPT ![t] = n]
  /\ UNCHANGED <<pxCurrentTCB, priorityVars, ucNotifyState, pending, uxSchedulerSuspended,
                 xTickCount, switchDue>>

\* u becomes ready, or pends while the scheduler is suspended.
Wake(u) == IF uxSchedulerSuspended = 0
             THEN MoveTo(u, "ready") /\ UNCHANGED pending
             ELSE pending' = pending \cup {u} /\ UNCHANGED <<state, left>>

\* The first waiter, from a task or from an interrupt.
RemoveFromEventList(l) ==
  /\ xEventLists[l] # <<>> /\ l \notin Unordered
  /\ LET u == Head(xEventLists[l])
     IN  Wake(u) /\ switchDue' = (switchDue \/ Preempts(u))
  /\ xEventLists' = [xEventLists EXCEPT ![l] = Tail(@)]
  /\ UNCHANGED <<pxCurrentTCB, priorityVars, flagVars, uxSchedulerSuspended, xTickCount>>

\* The list of an event group: its waiters come in no order, and a task wakes
\* any of them.
PlaceOnUnorderedEventList(t, l, n) ==
  /\ Calls(t) /\ uxSchedulerSuspended = 1 /\ l \in Unordered
  /\ ucDelayAborted' = [ucDelayAborted EXCEPT ![t] = FALSE]
  /\ xEventPriority' = [xEventPriority EXCEPT ![t] = InUse]
  /\ xEventLists' = [xEventLists EXCEPT ![l] = Append(@, t)]
  /\ IF n = portMAX_DELAY
       THEN MoveTo(t, "suspended")
       ELSE state' = [state EXCEPT ![t] = "blocked"] /\ left' = [left EXCEPT ![t] = n]
  /\ UNCHANGED <<pxCurrentTCB, uxPriority, uxBasePriority, ucNotifyState, pending,
                 uxSchedulerSuspended, xTickCount, switchDue>>

RemoveFromUnorderedEventList(t, u, l) ==
  /\ Calls(t) /\ uxSchedulerSuspended > 0 /\ l \in Unordered
  /\ Contains(xEventLists[l], u)
  /\ MoveTo(u, "ready") /\ LeaveEventLists({u})
  /\ switchDue' = (switchDue \/ Preempts(u))
  /\ UNCHANGED <<pxCurrentTCB, priorityVars, flagVars, uxSchedulerSuspended, xTickCount>>

\* Once it has read the bits, its item is an ordinary one again.
ResetEventItemValue(t) ==
  /\ AtCall(t) /\ xEventPriority[t] = InUse /\ state[t] = "ready"
  /\ xEventPriority' = [xEventPriority EXCEPT ![t] = uxPriority[t]]
  /\ UNCHANGED <<pxCurrentTCB, uxPriority, uxBasePriority, flagVars, state, left, xEventLists,
                 pending, uxSchedulerSuspended, xTickCount, switchDue>>

AbortDelay(t, u) ==
  /\ Calls(t) /\ u # t
  /\ \/ state[u] = "blocked"
     \/ state[u] = "suspended" /\ (OnEventList(u) \/ u \in pending \/ ucNotifyState[u] = "waiting")
  /\ uxSchedulerSuspended' = uxSchedulerSuspended + 1
  /\ MoveTo(u, "ready") /\ LeaveEventLists({u})
  /\ ucDelayAborted' = [ucDelayAborted EXCEPT ![u] = @ \/ OnEventList(u) \/ u \in pending]
  /\ switchDue' = (switchDue \/ Preempts(u))
  /\ UNCHANGED <<pxCurrentTCB, priorityVars, ucNotifyState, xTickCount>>

-----------------------------------------------------------------------------
(* Task notifications *)

\* The task waits for a notification, for at most n ticks.
NotifyBlock(t, n) ==
  /\ Calls(t) /\ t \in Notifiable /\ uxSchedulerSuspended = 0
  /\ ucNotifyState' = [ucNotifyState EXCEPT ![t] = "waiting"]
  /\ ucDelayAborted' = [ucDelayAborted EXCEPT ![t] = FALSE]
  /\ IF n = portMAX_DELAY
       THEN MoveTo(t, "suspended")
       ELSE state' = [state EXCEPT ![t] = "blocked"] /\ left' = [left EXCEPT ![t] = n]
  /\ switchDue' = TRUE
  /\ UNCHANGED <<pxCurrentTCB, priorityVars, xEventLists, pending, uxSchedulerSuspended, xTickCount>>

\* The same with nothing to wait for: "waiting" for an instant; and the end of
\* every wait, notified or not.
SetNotifyState(t, s) ==
  /\ t = pxCurrentTCB /\ t \in Notifiable /\ state[t] = "ready" /\ s # "received"
  /\ ucNotifyState' = [ucNotifyState EXCEPT ![t] = s]
  /\ UNCHANGED <<pxCurrentTCB, priorityVars, ucDelayAborted, state, left, xEventLists, pending,
                 uxSchedulerSuspended, xTickCount, switchDue>>

\* A task notifies u, which becomes ready if it waits.
Notify(t, u) ==
  /\ Calls(t) /\ u \in Notifiable /\ Exists(u)
  /\ ucNotifyState' = [ucNotifyState EXCEPT ![u] = "received"]
  /\ IF ucNotifyState[u] = "waiting"
       THEN MoveTo(u, "ready") /\ switchDue' = (switchDue \/ Preempts(u))
       ELSE UNCHANGED <<state, left, switchDue>>
  /\ UNCHANGED <<pxCurrentTCB, priorityVars, ucDelayAborted, xEventLists, pending,
                 uxSchedulerSuspended, xTickCount>>

NotifyFromISR(u) ==
  /\ u \in Notifiable /\ Exists(u)
  /\ ucNotifyState' = [ucNotifyState EXCEPT ![u] = "received"]
  /\ IF ucNotifyState[u] = "waiting"
       THEN Wake(u) /\ switchDue' = (switchDue \/ Preempts(u))
       ELSE UNCHANGED <<state, left, pending, switchDue>>
  /\ UNCHANGED <<pxCurrentTCB, priorityVars, ucDelayAborted, xEventLists, uxSchedulerSuspended,
                 xTickCount>>

NotifyStateClear(t, u) ==
  /\ Calls(t) /\ u \in Notifiable /\ ucNotifyState[u] = "received"
  /\ ucNotifyState' = [ucNotifyState EXCEPT ![u] = "notWaiting"]
  /\ UNCHANGED <<pxCurrentTCB, priorityVars, ucDelayAborted, state, left, xEventLists, pending,
                 uxSchedulerSuspended, xTickCount, switchDue>>

-----------------------------------------------------------------------------
(* Managing tasks *)

Suspend(t, u) ==
  /\ Calls(t) /\ u # Idle /\ Exists(u)
  /\ u = t => uxSchedulerSuspended = 0
  /\ MoveTo(u, "suspended") /\ LeaveEventLists({u})
  /\ ucNotifyState' = [ucNotifyState EXCEPT ![u] = IF @ = "waiting" THEN "notWaiting" ELSE @]
  /\ UNCHANGED <<pxCurrentTCB, priorityVars, ucDelayAborted, uxSchedulerSuspended, xTickCount,
                 switchDue>>

\* A task that waits for a notification, without a timeout, counts as well.
Suspended(u) == state[u] = "suspended" /\ u \notin pending /\ ~OnEventList(u)

Resume(t, u) ==
  /\ Calls(t) /\ u # t /\ u \in Resumable /\ Suspended(u)
  /\ MoveTo(u, "ready")
  /\ switchDue' = (switchDue \/ uxPriority[u] >= uxPriority[t])
  /\ UNCHANGED <<pxCurrentTCB, priorityVars, flagVars, xEventLists, pending,
                 uxSchedulerSuspended, xTickCount>>

ResumeFromISR(u) ==
  /\ u \in Resumable /\ Suspended(u)
  /\ Wake(u)
  /\ switchDue' = \/ switchDue
                  \/ uxSchedulerSuspended = 0 /\ uxPriority[u] >= uxPriority[pxCurrentTCB]
  /\ UNCHANGED <<pxCurrentTCB, priorityVars, flagVars, xEventLists, uxSchedulerSuspended,
                 xTickCount>>

PrioritySet(t, u, p) ==
  /\ Calls(t) /\ u # Idle /\ Exists(u)
  /\ uxBasePriority[u] # p
  /\ uxBasePriority' = [uxBasePriority EXCEPT ![u] = p]
  /\ uxPriority' = IF uxBasePriority[u] = uxPriority[u] THEN [uxPriority EXCEPT ![u] = p]
                                                        ELSE uxPriority
  /\ xEventPriority' = [xEventPriority EXCEPT ![u] = IF @ = InUse THEN InUse ELSE p]
  /\ switchDue' = \/ switchDue
                  \/ IF p > uxBasePriority[u] THEN u # t /\ p >= uxPriority[t] ELSE u = t
  /\ UNCHANGED <<pxCurrentTCB, flagVars, state, left, xEventLists, pending,
                 uxSchedulerSuspended, xTickCount>>

\* The creator of a task of higher priority yields next (RequestSwitch).
Create(t, u) ==
  /\ Calls(t) /\ state[u] = "none"
  /\ MoveTo(u, "ready")
  /\ UNCHANGED <<pxCurrentTCB, priorityVars, flagVars, xEventLists, pending,
                 uxSchedulerSuspended, xTickCount, switchDue>>

Free(u) ==
  /\ uxPriority' = [uxPriority EXCEPT ![u] = InitPriority[u]]
  /\ uxBasePriority' = [uxBasePriority EXCEPT ![u] = InitPriority[u]]
  /\ xEventPriority' = [xEventPriority EXCEPT ![u] = InitPriority[u]]
  /\ ucDelayAborted' = [ucDelayAborted EXCEPT ![u] = FALSE]
  /\ ucNotifyState' = [ucNotifyState EXCEPT ![u] = "notWaiting"]

Delete(t, u) ==
  /\ Calls(t) /\ u # Idle /\ Exists(u)
  /\ LeaveEventLists({u})
  /\ \/ /\ u = t /\ uxSchedulerSuspended = 0
        /\ MoveTo(u, "deleted") /\ UNCHANGED <<priorityVars, flagVars>>
     \/ u # t /\ MoveTo(u, "none") /\ Free(u)
  /\ UNCHANGED <<pxCurrentTCB, uxSchedulerSuspended, xTickCount, switchDue>>

IdleCleansUp(u) ==
  /\ pxCurrentTCB = Idle /\ state[u] = "deleted"
  /\ MoveTo(u, "none") /\ Free(u)
  /\ UNCHANGED <<pxCurrentTCB, xEventLists, pending, uxSchedulerSuspended, xTickCount, switchDue>>

-----------------------------------------------------------------------------
Next ==
  \/ SwitchContext \/ RequestSwitch \/ IncrementTick
  \/ \E u \in Task : ResumeFromISR(u) \/ NotifyFromISR(u) \/ IdleCleansUp(u)
  \/ \E l \in EventList : RemoveFromEventList(l)
  \/ \E t \in Task :
       \/ SuspendAll(t) \/ ResumeAll(t)
       \/ \E n \in 1 .. portMAX_DELAY : Delay(t, n) \/ NotifyBlock(t, n)
       \/ \E s \in NotifyStates : SetNotifyState(t, s)
       \/ \E n \in 1 .. portMAX_DELAY, l \in EventList :
            PlaceOnEventList(t, l, n) \/ PlaceOnUnorderedEventList(t, l, n)
       \/ ResetEventItemValue(t)
       \/ \E u \in Task : \/ AbortDelay(t, u) \/ Suspend(t, u) \/ Resume(t, u)
                          \/ Create(t, u) \/ Delete(t, u)
                          \/ Notify(t, u) \/ NotifyStateClear(t, u)
                          \/ \E p \in Priority : PrioritySet(t, u, p)
                          \/ \E l \in EventList : RemoveFromUnorderedEventList(t, u, l)

Spec == Init /\ [][Next]_kernelVars
=============================================================================
