----------------------------- MODULE TasksProof -----------------------------
(***************************************************************************)
(* Theorems about Tasks, for every number of tasks and priorities, every   *)
(* width of the tick count and every bound on the application.             *)
(***************************************************************************)
EXTENDS Tasks, ListsProof

-----------------------------------------------------------------------------
(* The minimum of the wake times *)

\* prvResetNextTaskUnblockTime finds a time no later than any on the list.
LEMMA NextUnblockIsLeast ==
  ASSUME NEW where \in [Task -> StateLists], NEW wake \in [Task -> 0 .. portMAX_DELAY]
  PROVE  /\ NextUnblock(where, wake) \in 0 .. portMAX_DELAY
         /\ \A t \in Task : where[t] = "delayed" => NextUnblock(where, wake) <= wake[t]
<1>. DEFINE delayed == {t \in Task : where[t] = "delayed"}
<1>0. portMAX_DELAY \in Nat
  BY TasksAssumption DEF portMAX_DELAY
<1>1. CASE delayed = {}
  BY <1>0, <1>1 DEF NextUnblock
<1>2. CASE delayed # {}
  <2>. DEFINE times == {wake[t] : t \in delayed}
  <2>1. times \in SUBSET Nat /\ times # {}
    BY <1>0, <1>2
  <2>2. \E n \in times : \A m \in times : n <= m
    <3>. HIDE DEF times
    <3>. QED  BY <2>1, LeastNatural
  <2>3. \E t \in delayed : \A u \in delayed : wake[t] <= wake[u]
    BY <2>2
  <2>. DEFINE first == CHOOSE t \in delayed : \A u \in delayed : wake[t] <= wake[u]
  <2>4. first \in delayed /\ \A u \in delayed : wake[first] <= wake[u]
    BY <2>3
  <2>5. NextUnblock(where, wake) = wake[first]
    BY <1>2 DEF NextUnblock
  <2>. QED  BY <2>4, <2>5
<1>. QED  BY <1>1, <1>2

-----------------------------------------------------------------------------
(***************************************************************************)
(* Time.  The invariant is inductive: that no delay has run out before the *)
(* tick moves on needs the list to be known emptied of the tasks that were *)
(* due, and that needs the unblock time not to be late.                    *)
(***************************************************************************)
TimeType ==
  /\ xStateList \in [Task -> StateLists]
  /\ xWakeTime \in [Task -> 0 .. portMAX_DELAY]
  /\ left \in [Task -> 0 .. portMAX_DELAY]
  /\ xTickCount \in 0 .. portMAX_DELAY
  /\ xNextTaskUnblockTime \in 0 .. portMAX_DELAY
  /\ kernel \in KernelSteps

TimeInv == TimeType /\ WakeOnTime /\ UnblockTimeNotLate

\* The tick counts are those of a type with at least two values.
LEMMA Ticks ==
  /\ portMAX_DELAY \in Nat \ {0} /\ TickRange \in Nat
  /\ TickRange = portMAX_DELAY + 1
BY TasksAssumption DEF portMAX_DELAY

\* A step in which no task enters a delayed list and the count stands still,
\* and which does not leave the loop that unblocks, keeps the time.
LEMMA TimeKept ==
  ASSUME TimeInv,
         xStateList' \in [Task -> StateLists],
         xWakeTime' \in [Task -> 0 .. portMAX_DELAY],
         left' \in [Task -> 0 .. portMAX_DELAY],
         \A u \in Task : xStateList'[u] \in {"delayed", "overflow"} =>
            /\ xStateList'[u] = xStateList[u]
            /\ xWakeTime'[u] = xWakeTime[u]
            /\ left'[u] = left[u],
         xTickCount' = xTickCount,
         kernel' \in KernelSteps, kernel = "unblock" => kernel' = "unblock",
         \/ xNextTaskUnblockTime' = xNextTaskUnblockTime
         \/ xNextTaskUnblockTime' = NextUnblock(xStateList', xWakeTime)
  PROVE  TimeInv'
<1>1. /\ xNextTaskUnblockTime' \in 0 .. portMAX_DELAY
      /\ \/ xNextTaskUnblockTime' = xNextTaskUnblockTime
         \/ \A u \in Task : xStateList'[u] = "delayed" => xNextTaskUnblockTime' <= xWakeTime[u]
  BY NextUnblockIsLeast DEF TimeInv, TimeType
<1>2. TimeType'
  BY <1>1 DEF TimeInv, TimeType
<1>3. WakeOnTime'
  BY DEF TimeInv, TimeType, WakeOnTime, OnDelayedList
<1>4. UnblockTimeNotLate'
  BY <1>1 DEF TimeInv, TimeType, UnblockTimeNotLate
<1>. QED  BY <1>2, <1>3, <1>4 DEF TimeInv

\* A task that leaves a delayed list, or none, for another list.
LEMMA MoveKeepsTime ==
  ASSUME TimeInv, NEW t \in Task,
         NEW s \in StateLists \ {"delayed", "overflow"},
         MoveTo(t, s), xTickCount' = xTickCount,
         kernel' \in KernelSteps, kernel = "unblock" => kernel' = "unblock",
         \/ xNextTaskUnblockTime' = xNextTaskUnblockTime
         \/ xNextTaskUnblockTime' = NextUnblock(xStateList', xWakeTime)
  PROVE  TimeInv'
<1>1. /\ xStateList' \in [Task -> StateLists]
      /\ xWakeTime' \in [Task -> 0 .. portMAX_DELAY]
      /\ left' \in [Task -> 0 .. portMAX_DELAY]
  BY Ticks DEF MoveTo, TimeInv, TimeType
<1>2. \A u \in Task : xStateList'[u] \in {"delayed", "overflow"} =>
            /\ xStateList'[u] = xStateList[u]
            /\ xWakeTime'[u] = xWakeTime[u]
            /\ left'[u] = left[u]
  BY DEF MoveTo, TimeInv, TimeType
<1>. QED  BY <1>1, <1>2, TimeKept

\* A step that touches none of it but, outside the loop that unblocks, "kernel"
\* and the unblock time.
LEMMA StandstillKeepsTime ==
  ASSUME TimeInv, UNCHANGED <<stateVars, xTickCount>>,
         kernel' \in KernelSteps, kernel = "unblock" => kernel' = "unblock",
         \/ xNextTaskUnblockTime' = xNextTaskUnblockTime
         \/ xNextTaskUnblockTime' = NextUnblock(xStateList, xWakeTime)
  PROVE  TimeInv'
<1>1. UNCHANGED <<xStateList, xWakeTime, left>>
  BY DEF stateVars
<1>. QED  BY <1>1, TimeKept DEF TimeInv, TimeType

\* A task that goes to sleep.
LEMMA SleepKeepsTime ==
  ASSUME TimeInv, pxCurrentTCB \in Task, kernel # "unblock",
         NEW n \in 1 .. portMAX_DELAY, NEW indefinitely \in BOOLEAN,
         AddCurrentTaskToDelayedList(n, indefinitely),
         UNCHANGED <<xTickCount, kernel>>
  PROVE  TimeInv'
<1>. DEFINE t == pxCurrentTCB
            wake == Tick(xTickCount + n)
<1>1. CASE MoveTo(t, "suspended") /\ UNCHANGED xNextTaskUnblockTime
  BY <1>1, MoveKeepsTime DEF StateLists, TimeInv, TimeType
<1>2. CASE /\ xWakeTime' = [xWakeTime EXCEPT ![t] = wake]
           /\ left' = [left EXCEPT ![t] = n]
           /\ xStateList' = [xStateList EXCEPT ![t] = IF wake < xTickCount THEN "overflow"
                                                                         ELSE "delayed"]
           /\ xNextTaskUnblockTime' = IF ~(wake < xTickCount) /\ wake < xNextTaskUnblockTime
                                        THEN wake ELSE xNextTaskUnblockTime
  <2>1. /\ wake \in 0 .. portMAX_DELAY
        /\ wake < xTickCount => wake + TickRange = xTickCount + n
        /\ ~(wake < xTickCount) => wake = xTickCount + n
    BY Ticks DEF Tick, TimeInv, TimeType
  <2>. HIDE DEF wake
  <2>2. TimeType'
    BY <1>2, <2>1 DEF TimeInv, TimeType, StateLists
  <2>3. WakeOnTime'
    BY <1>2, <2>1 DEF TimeInv, TimeType, WakeOnTime, OnDelayedList
  <2>4. UnblockTimeNotLate'
    BY <1>2, <2>1 DEF TimeInv, TimeType, UnblockTimeNotLate
  <2>. QED  BY <2>2, <2>3, <2>4 DEF TimeInv
<1>. QED  BY <1>1, <1>2 DEF AddCurrentTaskToDelayedList, Overflows

\* The tick moves on, and may wrap.
LEMMA AdvanceKeepsTime ==
  ASSUME TimeInv, kernel # "unblock", AdvanceTick
  PROVE  TimeInv'
<1>0. \A u \in Task : OnDelayedList(u) => left[u] \in 1 .. portMAX_DELAY
  BY DEF TimeInv, TimeType, WakeOnTime, OnDelayedList
<1>1. /\ left' \in [Task -> 0 .. portMAX_DELAY]
      /\ \A u \in Task : OnDelayedList(u) => left'[u] = left[u] - 1
  BY <1>0, Ticks DEF AdvanceTick, TimeInv, TimeType
<1>2. /\ xWakeTime' = xWakeTime
      /\ kernel' = IF xTickCount' >= xNextTaskUnblockTime' THEN "unblock" ELSE "slice"
  BY DEF AdvanceTick
<1>3. CASE xTickCount = portMAX_DELAY
  <2>1. xTickCount' = 0 /\ Tick(xTickCount + 1) = 0
    BY <1>3, Ticks DEF AdvanceTick, Tick
  <2>2. /\ xStateList' = Switched
        /\ xNextTaskUnblockTime' = NextUnblock(Switched, xWakeTime)
    BY <2>1 DEF AdvanceTick
  <2>3. Switched \in [Task -> StateLists]
    BY DEF Switched, TimeInv, TimeType, StateLists
  <2>4. \A u \in Task : /\ xStateList'[u] = "delayed" <=> xStateList[u] = "overflow"
                        /\ xStateList'[u] = "overflow" <=> xStateList[u] = "delayed"
    BY <2>2 DEF Switched, TimeInv, TimeType, StateLists
  <2>5. /\ xNextTaskUnblockTime' \in 0 .. portMAX_DELAY
        /\ \A u \in Task : xStateList'[u] = "delayed" => xNextTaskUnblockTime' <= xWakeTime[u]
    BY <2>2, <2>3, NextUnblockIsLeast DEF TimeInv, TimeType
  <2>6. TimeType'
    BY <1>1, <1>2, <2>1, <2>2, <2>3, <2>5, Ticks DEF TimeInv, TimeType, KernelSteps
  \* Nobody is left on the list that becomes the overflow list.
  <2>7. \A u \in Task : xStateList[u] # "delayed"
    BY <1>0, <1>3, Ticks DEF TimeInv, TimeType, WakeOnTime, OnDelayedList
  <2>8. \A u \in Task : xStateList'[u] = "delayed" => xWakeTime'[u] = xTickCount' + left'[u]
    BY <1>1, <1>2, <1>3, <2>1, <2>4, Ticks
    DEF TimeInv, TimeType, WakeOnTime, OnDelayedList
  <2>9. \A u \in Task : xStateList'[u] = "delayed" /\ kernel' # "unblock" => left'[u] > 0
    BY <1>2, <2>1, <2>5, <2>6, <2>8 DEF TimeType
  <2>10. WakeOnTime'
    BY <2>4, <2>7, <2>8, <2>9 DEF WakeOnTime, OnDelayedList
  <2>11. UnblockTimeNotLate'
    BY <1>2, <2>5 DEF UnblockTimeNotLate
  <2>. QED  BY <2>6, <2>10, <2>11 DEF TimeInv
<1>4. CASE xTickCount # portMAX_DELAY
  <2>1. /\ xTickCount' = xTickCount + 1 /\ Tick(xTickCount + 1) # 0
        /\ xTickCount' \in 0 .. portMAX_DELAY
    BY <1>4, Ticks DEF AdvanceTick, Tick, TimeInv, TimeType
  <2>2. UNCHANGED <<xStateList, xNextTaskUnblockTime>>
    BY <2>1 DEF AdvanceTick
  <2>3. TimeType'
    BY <1>1, <1>2, <2>1, <2>2 DEF TimeInv, TimeType, KernelSteps
  <2>4. UnblockTimeNotLate'
    BY <1>2, <2>2 DEF TimeInv, UnblockTimeNotLate
  <2>5. \A u \in Task : xStateList'[u] = "delayed" /\ kernel' # "unblock" => left'[u] > 0
    BY <1>1, <1>2, <2>1, <2>2, <2>3, <2>4
    DEF TimeInv, TimeType, WakeOnTime, OnDelayedList, UnblockTimeNotLate
  <2>6. \A u \in Task : xStateList'[u] = "overflow" => left'[u] > 0
    BY <1>1, <2>1, <2>2, Ticks DEF TimeInv, TimeType, WakeOnTime, OnDelayedList
  <2>7. WakeOnTime'
    BY <1>1, <1>2, <2>1, <2>2, <2>5, <2>6 DEF TimeInv, TimeType, WakeOnTime, OnDelayedList
  <2>. QED  BY <2>3, <2>4, <2>7 DEF TimeInv
<1>. QED  BY <1>3, <1>4

\* Every step keeps the time.
LEMMA TimeStep == TimeInv /\ [Next]_tasksVars => TimeInv'
<1>. SUFFICES ASSUME TimeInv, [Next]_tasksVars PROVE TimeInv'
  OBVIOUS
<1>. USE DEF KernelSteps
<1>1. ASSUME NEW t \in Task, TaskStep(t) PROVE TimeInv'
  <2>0. kernel = "none"
    BY <1>1 DEF TaskStep, vTaskDelay, vTaskPlaceOnEventList, vTaskSuspendAll, xTaskResumeAll,
                taskYIELD, vTaskSuspendReset, xTaskCatchUpTicks, vTaskSuspend, vTaskResume,
                xTaskCreate, vTaskDelete, prvIdleTask, xTaskAbortDelay, vTaskPrioritySet,
                vTaskPlaceOnUnorderedEventList, vTaskRemoveFromUnorderedEventList,
                uxTaskResetEventItemValue, xTaskNotifyWait, NotifyDontWait, NotifyWaitDone,
                xTaskNotify, xTaskNotifyStateClear, Calls, AtCall, Running, Unmasked
  <2>1. ASSUME NEW n \in BlockTimes, vTaskDelay(t, n) PROVE TimeInv'
    <3>1. n \in 1 .. portMAX_DELAY
      BY TasksAssumption
    <3>2. pxCurrentTCB \in Task /\ AddCurrentTaskToDelayedList(n, FALSE)
          /\ UNCHANGED <<xTickCount, kernel>>
      BY <2>1 DEF vTaskDelay, Calls, AtCall, Running, loopVars
    <3>. QED  BY <2>0, <3>1, <3>2, SleepKeepsTime
  <2>2. ASSUME NEW l \in EventList, NEW n \in BlockTimes \cup {portMAX_DELAY},
               vTaskPlaceOnEventList(t, l, n)
        PROVE  TimeInv'
    <3>1. n \in 1 .. portMAX_DELAY
      BY TasksAssumption, Ticks
    <3>2. pxCurrentTCB \in Task /\ AddCurrentTaskToDelayedList(n, TRUE)
          /\ UNCHANGED <<xTickCount, kernel>>
      BY <2>2 DEF vTaskPlaceOnEventList, Calls, AtCall, Running, loopVars
    <3>. QED  BY <2>0, <3>1, <3>2, SleepKeepsTime
  <2>3. CASE vTaskSuspendAll(t) \/ taskYIELD(t)
             \/ \E n \in 1 .. MaxPendedTicks : xTaskCatchUpTicks(t, n)
    BY <2>3, StandstillKeepsTime
    DEF vTaskSuspendAll, taskYIELD, xTaskCatchUpTicks, tickVars, loopVars, TimeInv, TimeType
  <2>4. CASE xTaskResumeAll(t)
    BY <2>0, <2>4, StandstillKeepsTime DEF xTaskResumeAll, tickVars
  <2>5. CASE vTaskSuspendReset(t)
    BY <2>5, StandstillKeepsTime DEF vTaskSuspendReset, loopVars, TimeInv, TimeType
  <2>6. ASSUME NEW u \in Task, vTaskSuspend(t, u) PROVE TimeInv'
    BY <2>0, <2>6, MoveKeepsTime DEF vTaskSuspend, tickVars, loopVars, StateLists
  <2>7. ASSUME NEW u \in Task, vTaskResume(t, u) \/ xTaskCreate(t, u) PROVE TimeInv'
    BY <2>0, <2>7, MoveKeepsTime
    DEF vTaskResume, xTaskCreate, MakeReady, tickVars, loopVars, StateLists
  <2>8. ASSUME NEW u \in Task, vTaskDelete(t, u) PROVE TimeInv'
    BY <2>0, <2>8, MoveKeepsTime DEF vTaskDelete, loopVars, StateLists
  <2>9. ASSUME NEW u \in Task, prvIdleTask(t, u) PROVE TimeInv'
    BY <2>0, <2>9, MoveKeepsTime DEF prvIdleTask, tickVars, loopVars, StateLists
  <2>10. ASSUME NEW u \in Task, xTaskAbortDelay(t, u) PROVE TimeInv'
    BY <2>0, <2>10, MoveKeepsTime DEF xTaskAbortDelay, MakeReady, tickVars, loopVars, StateLists
  <2>11. ASSUME NEW u \in Task, NEW p \in Priority, vTaskPrioritySet(t, u, p) PROVE TimeInv'
    BY <2>11, StandstillKeepsTime DEF vTaskPrioritySet, tickVars, loopVars, TimeInv, TimeType
  <2>12. ASSUME NEW n \in BlockTimes \cup {portMAX_DELAY}, xTaskNotifyWait(t, n) PROVE TimeInv'
    <3>1. n \in 1 .. portMAX_DELAY
      BY TasksAssumption, Ticks
    <3>2. pxCurrentTCB \in Task /\ AddCurrentTaskToDelayedList(n, TRUE)
          /\ UNCHANGED <<xTickCount, kernel>>
      BY <2>12 DEF xTaskNotifyWait, Calls, AtCall, Running, loopVars
    <3>. QED  BY <2>0, <3>1, <3>2, SleepKeepsTime
  <2>13. CASE \/ \E s \in NotifyStates : NotifyDontWait(t, s)
              \/ NotifyWaitDone(t) \/ \E u \in Task : xTaskNotifyStateClear(t, u)
    BY <2>13, StandstillKeepsTime
    DEF NotifyDontWait, NotifyWaitDone, xTaskNotifyStateClear, tickVars, loopVars, TimeInv, TimeType
  <2>14. ASSUME NEW u \in Task, xTaskNotify(t, u) PROVE TimeInv'
    <3>1. UNCHANGED <<tickVars, kernel>> /\ (MoveTo(u, "ready") \/ UNCHANGED stateVars)
      BY <2>14 DEF xTaskNotify, MakeReady, loopVars
    <3>. QED  BY <2>0, <3>1, MoveKeepsTime, StandstillKeepsTime
              DEF tickVars, StateLists, TimeInv, TimeType
  <2>15. ASSUME NEW l \in EventList, NEW n \in BlockTimes \cup {portMAX_DELAY},
                vTaskPlaceOnUnorderedEventList(t, l, n)
         PROVE  TimeInv'
    <3>1. n \in 1 .. portMAX_DELAY
      BY TasksAssumption, Ticks
    <3>2. pxCurrentTCB \in Task /\ AddCurrentTaskToDelayedList(n, TRUE)
          /\ UNCHANGED <<xTickCount, kernel>>
      BY <2>15 DEF vTaskPlaceOnUnorderedEventList, Calls, AtCall, Running, loopVars
    <3>. QED  BY <2>0, <3>1, <3>2, SleepKeepsTime
  <2>16. ASSUME NEW l \in EventList, NEW u \in Task, vTaskRemoveFromUnorderedEventList(t, u, l)
         PROVE  TimeInv'
    BY <2>0, <2>16, MoveKeepsTime
    DEF vTaskRemoveFromUnorderedEventList, MakeReady, tickVars, loopVars, StateLists
  <2>17. CASE uxTaskResetEventItemValue(t)
    BY <2>17, StandstillKeepsTime
    DEF uxTaskResetEventItemValue, tickVars, loopVars, TimeInv, TimeType
  <2>. QED  BY <1>1, <2>1, <2>2, <2>3, <2>4, <2>5, <2>6, <2>7, <2>8, <2>9, <2>10, <2>11,
               <2>12, <2>13, <2>14, <2>15, <2>16, <2>17
            DEF TaskStep
<1>2. CASE SysTickHandler
  <2>1. kernel # "unblock"
    BY <1>2 DEF SysTickHandler, Unmasked
  <2>2. AdvanceTick \/ UNCHANGED <<stateVars, tickVars, kernel>>
    BY <1>2 DEF SysTickHandler
  <2>. QED  BY <2>1, <2>2, AdvanceKeepsTime, StandstillKeepsTime DEF tickVars, TimeInv, TimeType
<1>3. CASE vTaskSwitchContext
  BY <1>3, StandstillKeepsTime DEF vTaskSwitchContext, tickVars, loopVars, TimeInv, TimeType
<1>4. ASSUME NEW l \in EventList, xTaskRemoveFromEventList(l) PROVE TimeInv'
  <2>. DEFINE u == Head(xEventLists[l])
  <2>1. UNCHANGED <<tickVars, kernel>> /\ (MoveTo(u, "ready") \/ UNCHANGED stateVars)
    BY <1>4 DEF xTaskRemoveFromEventList, MakeReady, loopVars
  <2>2. CASE u \in Task
    BY <2>1, <2>2, MoveKeepsTime, StandstillKeepsTime
    DEF tickVars, StateLists, TimeInv, TimeType
  <2>3. CASE u \notin Task
    <3>1. MoveTo(u, "ready") => UNCHANGED stateVars
      BY <2>3 DEF MoveTo, stateVars, TimeInv, TimeType
    <3>. QED  BY <2>1, <3>1, StandstillKeepsTime DEF tickVars, TimeInv, TimeType
  <2>. QED  BY <2>2, <2>3
<1>5. ASSUME NEW u \in Task, xTaskResumeFromISR(u) \/ xTaskNotifyFromISR(u) PROVE TimeInv'
  <2>1. UNCHANGED <<tickVars, kernel>> /\ (MoveTo(u, "ready") \/ UNCHANGED stateVars)
    BY <1>5 DEF xTaskResumeFromISR, xTaskNotifyFromISR, MakeReady, loopVars
  <2>. QED  BY <2>1, MoveKeepsTime, StandstillKeepsTime
            DEF tickVars, StateLists, TimeInv, TimeType
<1>6. CASE MovePendingReady
  <2>. DEFINE u == Head(xPendingReadyList)
  <2>1. MoveTo(u, "ready") /\ UNCHANGED tickVars /\ kernel' = "moved" /\ kernel # "unblock"
    BY <1>6 DEF MovePendingReady, MakeReady
  <2>2. CASE u \in Task
    BY <2>1, <2>2, MoveKeepsTime DEF tickVars, StateLists
  <2>3. CASE u \notin Task
    <3>1. UNCHANGED stateVars
      BY <2>1, <2>3 DEF MoveTo, stateVars, TimeInv, TimeType
    <3>. QED  BY <2>1, <3>1, StandstillKeepsTime DEF tickVars
  <2>. QED  BY <2>2, <2>3
<1>7. CASE PendingReadyEmpty
  BY <1>7, StandstillKeepsTime DEF PendingReadyEmpty
<1>8. CASE ReplayPendedTick
  BY <1>8, AdvanceKeepsTime DEF ReplayPendedTick
<1>9. CASE ResumeAllDone
  BY <1>9, StandstillKeepsTime DEF ResumeAllDone, tickVars
<1>10. ASSUME NEW t \in Task, UnblockDueTask(t) PROVE TimeInv'
  BY <1>10, MoveKeepsTime
  DEF UnblockDueTask, MakeReady, tickVars, StateLists, TimeInv, TimeType
<1>11. CASE UnblockDone
  <2>1. UNCHANGED <<xStateList, xWakeTime, left, xTickCount>> /\ kernel' = "slice"
        /\ xNextTaskUnblockTime' = NextUnblock(xStateList, xWakeTime)
        /\ \A t \in Task : xStateList[t] = "delayed" => xTickCount < xWakeTime[t]
    BY <1>11 DEF UnblockDone, stateVars
  <2>2. /\ xNextTaskUnblockTime' \in 0 .. portMAX_DELAY
        /\ \A t \in Task : xStateList[t] = "delayed" => xNextTaskUnblockTime' <= xWakeTime[t]
    BY <2>1, NextUnblockIsLeast DEF TimeInv, TimeType
  <2>3. \A t \in Task : OnDelayedList(t) => left[t] > 0
    BY <2>1, Ticks DEF TimeInv, TimeType, WakeOnTime, OnDelayedList
  <2>. QED  BY <2>1, <2>2, <2>3
            DEF TimeInv, TimeType, WakeOnTime, UnblockTimeNotLate, OnDelayedList
<1>12. CASE TimeSlice
  BY <1>12, StandstillKeepsTime DEF TimeSlice, tickVars
<1>13. CASE UNCHANGED tasksVars
  BY <1>13, StandstillKeepsTime DEF tasksVars, tickVars, loopVars, TimeInv, TimeType
<1>. QED  BY <1>1, <1>2, <1>3, <1>4, <1>5, <1>6, <1>7, <1>8, <1>9, <1>10, <1>11, <1>12, <1>13
          DEF Next, KernelStep, Interrupt

\* The delayed lists are empty at first.
LEMMA TimeInit == Init => TimeInv
BY TasksAssumption, Ticks
DEF Init, TimeInv, TimeType, StateLists, KernelSteps, WakeOnTime, OnDelayedList, UnblockTimeNotLate

-----------------------------------------------------------------------------
(* The theorems about time *)

\* The inductive invariant of the time holds always.
LEMMA TimeAlways == Spec => []TimeInv
BY TimeInit, TimeStep, PTL DEF Spec

\* The list item of a delayed task always denotes the tick on which its delay
\* ends, across every wrap of the count, and no delay outlives that tick:
\* xTaskIncrementTick and prvAddCurrentTaskToDelayedList.
THEOREM WakesOnTime == Spec => []WakeOnTime
<1>1. TimeInv => WakeOnTime
  BY DEF TimeInv
<1>. QED  BY <1>1, TimeAlways, PTL

\* xTaskIncrementTick never looks at the delayed list later than its first
\* task is due, whatever moved xNextTaskUnblockTime.
THEOREM UnblocksNotLate == Spec => []UnblockTimeNotLate
<1>1. TimeInv => UnblockTimeNotLate
  BY DEF TimeInv
<1>. QED  BY <1>1, TimeAlways, PTL

\* While a masked loop runs, only the loop moves.
LEMMA OnlyTheLoop ==
  ASSUME Next, kernel # "none" PROVE KernelStep
<1>1. ASSUME NEW t \in Task PROVE ~TaskStep(t)
  BY DEF TaskStep, vTaskDelay, vTaskPlaceOnEventList, vTaskSuspendAll, xTaskResumeAll,
         taskYIELD, vTaskSuspendReset, xTaskCatchUpTicks, vTaskSuspend, vTaskResume,
         xTaskCreate, vTaskDelete, prvIdleTask, xTaskAbortDelay, vTaskPrioritySet,
         vTaskPlaceOnUnorderedEventList, vTaskRemoveFromUnorderedEventList,
         uxTaskResetEventItemValue, xTaskNotifyWait, NotifyDontWait, NotifyWaitDone,
         xTaskNotify, xTaskNotifyStateClear, Calls, AtCall, Running, Unmasked
<1>2. ~Interrupt
  BY DEF Interrupt, SysTickHandler, vTaskSwitchContext, xTaskRemoveFromEventList,
         xTaskResumeFromISR, xTaskNotifyFromISR, Unmasked
<1>. QED  BY <1>1, <1>2 DEF Next

\* The loop of xTaskIncrementTick readies a delayed task only when it has
\* waited all it asked for.
THEOREM WakesNotEarly == Spec => WakeNotEarly
<1>1. ASSUME TimeInv, Next, kernel = "unblock",
             NEW t \in Task, OnDelayedList(t), xStateList'[t] = "ready"
      PROVE  left[t] = 0
  <2>1. PICK u \in Task : UnblockDueTask(u) \/ UnblockDone
    BY <1>1, OnlyTheLoop DEF KernelStep, MovePendingReady, PendingReadyEmpty, ReplayPendedTick,
                             ResumeAllDone, TimeSlice
  <2>2. ~UnblockDone
    BY <1>1 DEF UnblockDone, stateVars, OnDelayedList
  <2>3. t = u
    BY <1>1, <2>1, <2>2
    DEF UnblockDueTask, MakeReady, MoveTo, OnDelayedList, TimeInv, TimeType
  <2>. QED  BY <1>1, <2>1, <2>2, <2>3, Ticks DEF UnblockDueTask, TimeInv, TimeType, WakeOnTime
<1>2. TimeInv /\ [Next]_tasksVars =>
        [\A t \in Task : kernel = "unblock" /\ OnDelayedList(t) /\ xStateList'[t] = "ready"
           => left[t] = 0]_tasksVars
  BY <1>1
<1>. QED  BY <1>2, TimeAlways, PTL DEF Spec, WakeNotEarly

-----------------------------------------------------------------------------
(***************************************************************************)
(* The masked loops.  xTaskIncrementTick, when xTaskResumeAll calls it,    *)
(* runs for a pended tick, so that the count of those can be decremented.  *)
(***************************************************************************)
LoopInv ==
  /\ uxSchedulerSuspended \in Nat /\ xPendedTicks \in Nat
  /\ kernel \in KernelSteps /\ inResumeAll \in BOOLEAN
  /\ kernel \in {"move", "moved", "ticks"} => inResumeAll
  /\ kernel = "none" => ~inResumeAll
  /\ inResumeAll /\ kernel \in {"unblock", "slice"} => xPendedTicks > 0

\* What SysTick does to "kernel".
LEMMA AdvanceKernel == AdvanceTick => kernel' \in {"unblock", "slice"}
BY DEF AdvanceTick

\* Every step keeps what the masked loops rely on.
LEMMA LoopStep == LoopInv /\ [Next]_tasksVars => LoopInv'
<1>. SUFFICES ASSUME LoopInv, [Next]_tasksVars PROVE LoopInv'
  OBVIOUS
<1>. USE DEF LoopInv, KernelSteps
<1>1. ASSUME NEW t \in Task, TaskStep(t) PROVE LoopInv'
  <2>1. CASE \/ \E n \in BlockTimes : vTaskDelay(t, n)
             \/ \E l \in EventList, n \in BlockTimes \cup {portMAX_DELAY} :
                  vTaskPlaceOnEventList(t, l, n)
             \/ vTaskSuspendAll(t) \/ taskYIELD(t) \/ vTaskSuspendReset(t)
    <3>1. UNCHANGED <<xPendedTicks, kernel, inResumeAll>>
      BY <2>1 DEF vTaskDelay, vTaskPlaceOnEventList, vTaskSuspendAll, taskYIELD,
                  vTaskSuspendReset, pendVars, loopVars
    <3>2. \/ UNCHANGED uxSchedulerSuspended
          \/ uxSchedulerSuspended' = 1
          \/ uxSchedulerSuspended' = uxSchedulerSuspended + 1
      BY <2>1, Zenon DEF vTaskDelay, vTaskPlaceOnEventList, vTaskSuspendAll, taskYIELD,
                         vTaskSuspendReset, pendVars
    <3>. QED  BY <3>1, <3>2
  <2>2. CASE xTaskResumeAll(t)
    <3>1. uxSchedulerSuspended' \in Nat /\ xPendedTicks' = xPendedTicks
      BY <2>2 DEF xTaskResumeAll
    <3>2. (kernel' = "move" /\ inResumeAll' = TRUE) \/ UNCHANGED <<kernel, inResumeAll>>
      BY <2>2 DEF xTaskResumeAll
    <3>3. CASE kernel' = "move" /\ inResumeAll' = TRUE
      BY <3>1, <3>3
    <3>4. CASE UNCHANGED <<kernel, inResumeAll>>
      BY <3>1, <3>4
    <3>. QED  BY <3>2, <3>3, <3>4
  <2>3. CASE \E n \in 1 .. MaxPendedTicks : xTaskCatchUpTicks(t, n)
    BY <2>3, TasksAssumption DEF xTaskCatchUpTicks, loopVars
  <2>4. CASE \E u \in Task : \/ vTaskSuspend(t, u) \/ vTaskResume(t, u)
                             \/ xTaskCreate(t, u) \/ vTaskDelete(t, u)
                             \/ prvIdleTask(t, u) \/ xTaskAbortDelay(t, u)
                             \/ \E p \in Priority : vTaskPrioritySet(t, u, p)
    BY <2>4 DEF vTaskSuspend, vTaskResume, xTaskCreate, vTaskDelete, prvIdleTask,
                xTaskAbortDelay, vTaskPrioritySet, pendVars, loopVars
  <2>5. CASE \/ \E n \in BlockTimes \cup {portMAX_DELAY} : xTaskNotifyWait(t, n)
             \/ (\E s \in NotifyStates : NotifyDontWait(t, s)) \/ NotifyWaitDone(t)
             \/ \E u \in Task : xTaskNotify(t, u) \/ xTaskNotifyStateClear(t, u)
    <3>1. UNCHANGED <<pendVars, loopVars>>
      BY <2>5 DEF xTaskNotifyWait, NotifyDontWait, NotifyWaitDone, xTaskNotify,
                  xTaskNotifyStateClear
    <3>. QED  BY <3>1 DEF pendVars, loopVars
  <2>6. CASE \/ \E l \in EventList, n \in BlockTimes \cup {portMAX_DELAY} :
                  vTaskPlaceOnUnorderedEventList(t, l, n)
             \/ \E l \in EventList, u \in Task : vTaskRemoveFromUnorderedEventList(t, u, l)
             \/ uxTaskResetEventItemValue(t)
    <3>1. UNCHANGED <<pendVars, loopVars>>
      BY <2>6 DEF vTaskPlaceOnUnorderedEventList, vTaskRemoveFromUnorderedEventList,
                  uxTaskResetEventItemValue
    <3>. QED  BY <3>1 DEF pendVars, loopVars
  <2>. QED  BY <1>1, <2>1, <2>2, <2>3, <2>4, <2>5, <2>6 DEF TaskStep
<1>2. CASE SysTickHandler
  BY <1>2, AdvanceKernel, TasksAssumption DEF SysTickHandler, Unmasked
<1>3. CASE \/ vTaskSwitchContext
           \/ \E l \in EventList : xTaskRemoveFromEventList(l)
           \/ \E u \in Task : xTaskResumeFromISR(u) \/ xTaskNotifyFromISR(u)
  BY <1>3 DEF vTaskSwitchContext, xTaskRemoveFromEventList, xTaskResumeFromISR,
              xTaskNotifyFromISR, pendVars, loopVars
<1>4. CASE MovePendingReady \/ PendingReadyEmpty \/ ResumeAllDone
  BY <1>4 DEF MovePendingReady, PendingReadyEmpty, ResumeAllDone, pendVars
<1>5. CASE ReplayPendedTick
  BY <1>5, AdvanceKernel DEF ReplayPendedTick, pendVars
<1>6. CASE (\E t \in Task : UnblockDueTask(t)) \/ UnblockDone
  BY <1>6 DEF UnblockDueTask, UnblockDone, pendVars
<1>7. CASE TimeSlice
  BY <1>7 DEF TimeSlice
<1>8. CASE UNCHANGED tasksVars
  BY <1>8 DEF tasksVars, pendVars, loopVars
<1>. QED  BY <1>1, <1>2, <1>3, <1>4, <1>5, <1>6, <1>7, <1>8 DEF Next, KernelStep, Interrupt

\* No loop runs at first.
LEMMA LoopInit == Init => LoopInv
<1>1. Init => /\ uxSchedulerSuspended = 0 /\ xPendedTicks = 0
              /\ kernel = "none" /\ inResumeAll = FALSE
  BY DEF Init
<1>2. inResumeAll = FALSE => inResumeAll \in BOOLEAN /\ ~inResumeAll
  BY Zenon
<1>. QED  BY <1>1, <1>2 DEF LoopInv, KernelSteps

-----------------------------------------------------------------------------
(***************************************************************************)
(* The lists.  Every cursor points at an item of its list or at its end    *)
(* marker: without that the task that vTaskSwitchContext selects might not *)
(* be a task.                                                              *)
(***************************************************************************)
PriorityType ==
  /\ uxPriority \in [Task -> Priority]
  /\ uxBasePriority \in [Task -> Priority]
  /\ xEventPriority \in [Task -> Priority \cup {InUse}]

ReadyType ==
  /\ pxReadyTasksLists \in [Priority -> ListOf(Task)]
  /\ uxTopReadyPriority \in Priority

EventType ==
  /\ xEventLists \in [EventList -> Seq(Task)]
  /\ xPendingReadyList \in Seq(Task)

ListInv == pxCurrentTCB \in Task /\ PriorityType /\ ReadyType /\ EventType

\* A task that leaves the ready lists leaves lists of tasks.
LEMMA UnreadyType ==
  ASSUME ReadyType, NEW t
  PROVE  WithoutReady(pxReadyTasksLists, t) \in [Priority -> ListOf(Task)]
<1>1. \A p \in Priority : uxListRemove(pxReadyTasksLists[p], t) \in ListOf(Task)
  BY RemoveType DEF ReadyType
<1>. QED  BY <1>1 DEF WithoutReady

\* prvAddTaskToReadyList keeps the ready lists lists of tasks.
LEMMA AddType ==
  ASSUME ReadyType, NEW t \in Task, NEW p \in Priority, AddTaskToReadyList(t, p)
  PROVE  ReadyType'
<1>. DEFINE lists == WithoutReady(pxReadyTasksLists, t)
<1>1. lists \in [Priority -> ListOf(Task)]
  BY UnreadyType
<1>. HIDE DEF lists
<1>2. vListInsertEnd(lists[p], t) \in ListOf(Task)
  BY <1>1, InsertEndType
<1>3. pxReadyTasksLists' = [lists EXCEPT ![p] = vListInsertEnd(lists[p], t)]
      /\ uxTopReadyPriority' \in {p, uxTopReadyPriority}
  BY DEF AddTaskToReadyList, RecordReadyPriority, lists
<1>. QED  BY <1>1, <1>2, <1>3 DEF ReadyType

\* The same of a task that becomes ready.
LEMMA MakeReadyType ==
  ASSUME ReadyType, PriorityType, NEW t \in Task, MakeReady(t)
  PROVE  ReadyType'
<1>1. uxPriority[t] \in Priority /\ AddTaskToReadyList(t, uxPriority[t])
  BY DEF MakeReady, PriorityType
<1>. QED  BY <1>1, AddType

\* A task that leaves the lists of waiters.
LEMMA LeaveType ==
  ASSUME EventType, NEW t, LeaveEventLists(t)
  PROVE  EventType'
<1>1. \A l \in EventList : Without(xEventLists[l], t) \in Seq(Task)
  BY WithoutType DEF EventType
<1>2. Without(xPendingReadyList, t) \in Seq(Task)
  BY WithoutType DEF EventType
<1>. QED  BY <1>1, <1>2 DEF LeaveEventLists, EventType

\* The first waiter of a list is a task, and its going leaves a list of tasks.
LEMMA WakeType ==
  ASSUME EventType, NEW l \in EventList, xEventLists[l] # <<>>
  PROVE  /\ Head(xEventLists[l]) \in Task
         /\ [xEventLists EXCEPT ![l] = Tail(@)] \in [EventList -> Seq(Task)]
<1>1. Head(xEventLists[l]) \in Task /\ Tail(xEventLists[l]) \in Seq(Task)
  BY HeadTailProperties DEF EventType
<1>. QED  BY <1>1 DEF EventType

\* A task that becomes free gets priorities again.
LEMMA FreeType ==
  ASSUME PriorityType, NEW u \in Task, FreeTCB(u)
  PROVE  PriorityType'
BY TasksAssumption DEF PriorityType, FreeTCB

\* The task selected is a task, whose list the cursor stays in.
LEMMA SelectType ==
  ASSUME ReadyType, NEW p \in Priority, TopReady(p)
  PROVE  LET i == NextIndex(pxReadyTasksLists[p])
         IN  /\ pxReadyTasksLists[p].items[i] \in Task
             /\ [pxReadyTasksLists EXCEPT ![p].pxIndex = i] \in [Priority -> ListOf(Task)]
<1>. DEFINE list == pxReadyTasksLists[p]
            i == NextIndex(list)
<1>1. list \in ListOf(Task) /\ list.items # <<>>
  BY DEF ReadyType, TopReady
<1>2. /\ list.items \in Seq(Task) /\ list.items # <<>> /\ Len(list.items) \in Nat
      /\ list.pxIndex \in 0 .. Len(list.items)
  BY <1>1 DEF ListOf
<1>3. i \in 1 .. Len(list.items)
  BY <1>2 DEF NextIndex
<1>4. list.items[i] \in Task
  BY <1>2, <1>3, ElementOfSeq
<1>5. [list EXCEPT !.pxIndex = i] \in ListOf(Task)
  BY <1>1, <1>2, <1>3 DEF ListOf
<1>6. [pxReadyTasksLists EXCEPT ![p].pxIndex = i] =
        [pxReadyTasksLists EXCEPT ![p] = [list EXCEPT !.pxIndex = i]]
  OBVIOUS
<1>. HIDE DEF i
<1>. QED  BY <1>4, <1>5, <1>6 DEF ReadyType, i

\* Every step keeps the lists lists of tasks.
LEMMA ListStep == ListInv /\ [Next]_tasksVars => ListInv'
<1>. SUFFICES ASSUME ListInv, [Next]_tasksVars PROVE ListInv'
  OBVIOUS
<1>0. pxCurrentTCB \in Task /\ PriorityType /\ ReadyType /\ EventType
  BY DEF ListInv
<1>a. UNCHANGED priorityVars => PriorityType'
  BY <1>0 DEF PriorityType, priorityVars
<1>b. UNCHANGED readyVars => ReadyType'
  BY <1>0 DEF ReadyType, readyVars
<1>c. UNCHANGED eventVars => EventType'
  BY <1>0 DEF EventType, eventVars
<1>1. ASSUME NEW t \in Task, TaskStep(t) PROVE ListInv'
  <2>0. pxCurrentTCB' = pxCurrentTCB
    BY <1>1 DEF TaskStep, vTaskDelay, vTaskPlaceOnEventList, vTaskSuspendAll, xTaskResumeAll,
                taskYIELD, vTaskSuspendReset, xTaskCatchUpTicks, vTaskSuspend, vTaskResume,
                xTaskCreate, vTaskDelete, prvIdleTask, xTaskAbortDelay, vTaskPrioritySet,
                vTaskPlaceOnUnorderedEventList, vTaskRemoveFromUnorderedEventList,
                uxTaskResetEventItemValue, xTaskNotifyWait, NotifyDontWait, NotifyWaitDone,
                xTaskNotify, xTaskNotifyStateClear
  <2>a. ASSUME NEW u, uxTopReadyPriority' = uxTopReadyPriority,
               pxReadyTasksLists' = WithoutReady(pxReadyTasksLists, u)
        PROVE  ReadyType'
    BY <1>0, <2>a, UnreadyType DEF ReadyType
  <2>1. ASSUME NEW n \in BlockTimes, vTaskDelay(t, n) PROVE ListInv'
    <3>1. ReadyType'
      BY <2>1, <2>a DEF vTaskDelay, AddCurrentTaskToDelayedList
    <3>. QED  BY <1>0, <1>a, <1>c, <2>0, <2>1, <3>1 DEF vTaskDelay, ListInv
  <2>2. ASSUME NEW l \in EventList, NEW n \in BlockTimes \cup {portMAX_DELAY},
               vTaskPlaceOnEventList(t, l, n)
        PROVE  ListInv'
    <3>1. ReadyType'
      BY <2>2, <2>a DEF vTaskPlaceOnEventList, AddCurrentTaskToDelayedList
    <3>. DEFINE value == [u \in Task |-> MaxPriorities - xEventPriority[u]]
    <3>2. vListInsert(xEventLists[l], t, value) \in Seq(Task)
      BY <1>0, InsertType DEF EventType
    <3>3. EventType'
      BY <1>0, <2>2, <3>2 DEF vTaskPlaceOnEventList, EventType
    <3>. QED  BY <1>0, <1>a, <2>0, <2>2, <3>1, <3>3 DEF vTaskPlaceOnEventList, ListInv
  <2>3. CASE \/ vTaskSuspendAll(t) \/ taskYIELD(t) \/ vTaskSuspendReset(t)
             \/ xTaskResumeAll(t) \/ \E n \in 1 .. MaxPendedTicks : xTaskCatchUpTicks(t, n)
    <3>1. UNCHANGED <<priorityVars, readyVars, eventVars>>
      BY <2>3 DEF vTaskSuspendAll, taskYIELD, vTaskSuspendReset, xTaskResumeAll,
                  xTaskCatchUpTicks
    <3>. QED  BY <1>0, <1>a, <1>b, <1>c, <2>0, <3>1 DEF ListInv
  <2>4. ASSUME NEW u \in Task, vTaskSuspend(t, u) PROVE ListInv'
    <3>1. ReadyType' /\ EventType'
      BY <1>0, <2>4, <2>a, LeaveType DEF vTaskSuspend
    <3>. QED  BY <1>0, <1>a, <2>0, <2>4, <3>1 DEF vTaskSuspend, ListInv
  <2>5. ASSUME NEW u \in Task, vTaskResume(t, u) \/ xTaskCreate(t, u) PROVE ListInv'
    <3>1. ReadyType'
      BY <1>0, <2>5, MakeReadyType DEF vTaskResume, xTaskCreate
    <3>. QED  BY <1>0, <1>a, <1>c, <2>0, <2>5, <3>1 DEF vTaskResume, xTaskCreate, ListInv
  <2>6. ASSUME NEW u \in Task, vTaskDelete(t, u) PROVE ListInv'
    <3>1. ReadyType' /\ EventType'
      BY <1>0, <2>6, <2>a, LeaveType DEF vTaskDelete
    <3>2. PriorityType'
      BY <1>0, <1>a, <2>6, FreeType DEF vTaskDelete
    <3>. QED  BY <1>0, <2>0, <3>1, <3>2 DEF ListInv
  <2>7. ASSUME NEW u \in Task, prvIdleTask(t, u) PROVE ListInv'
    <3>1. PriorityType'
      BY <1>0, <2>7, FreeType DEF prvIdleTask
    <3>. QED  BY <1>0, <1>b, <1>c, <2>0, <2>7, <3>1 DEF prvIdleTask, ListInv
  <2>8. ASSUME NEW u \in Task, xTaskAbortDelay(t, u) PROVE ListInv'
    <3>1. ReadyType' /\ EventType'
      BY <1>0, <2>8, MakeReadyType, LeaveType DEF xTaskAbortDelay
    <3>. QED  BY <1>0, <1>a, <2>0, <2>8, <3>1 DEF xTaskAbortDelay, ListInv
  <2>9. ASSUME NEW u \in Task, NEW p \in Priority, vTaskPrioritySet(t, u, p) PROVE ListInv'
    <3>1. PriorityType'
      BY <1>0, <2>9 DEF vTaskPrioritySet, Renumbered, PriorityType
    <3>2. uxPriority'[u] \in Priority
      BY <3>1 DEF PriorityType
    <3>3. AddTaskToReadyList(u, uxPriority'[u]) \/ UNCHANGED readyVars
      BY <2>9 DEF vTaskPrioritySet
    <3>4. ReadyType'
      BY <1>0, <1>b, <3>2, <3>3, AddType
    <3>. QED  BY <1>0, <1>c, <2>0, <2>9, <3>1, <3>4 DEF vTaskPrioritySet, ListInv
  <2>10. ASSUME NEW n \in BlockTimes \cup {portMAX_DELAY}, xTaskNotifyWait(t, n) PROVE ListInv'
    <3>1. ReadyType'
      BY <2>10, <2>a DEF xTaskNotifyWait, AddCurrentTaskToDelayedList
    <3>. QED  BY <1>0, <1>a, <1>c, <2>0, <2>10, <3>1 DEF xTaskNotifyWait, ListInv
  <2>11. CASE \/ (\E s \in NotifyStates : NotifyDontWait(t, s)) \/ NotifyWaitDone(t)
              \/ \E u \in Task : xTaskNotifyStateClear(t, u)
    <3>1. UNCHANGED <<priorityVars, readyVars, eventVars>>
      BY <2>11 DEF NotifyDontWait, NotifyWaitDone, xTaskNotifyStateClear
    <3>. QED  BY <1>0, <1>a, <1>b, <1>c, <2>0, <3>1 DEF ListInv
  <2>12. ASSUME NEW u \in Task, xTaskNotify(t, u) PROVE ListInv'
    <3>1. MakeReady(u) \/ UNCHANGED readyVars
      BY <2>12 DEF xTaskNotify
    <3>2. ReadyType'
      BY <1>0, <1>b, <3>1, MakeReadyType
    <3>. QED  BY <1>0, <1>a, <1>c, <2>0, <2>12, <3>2 DEF xTaskNotify, ListInv
  <2>13. ASSUME NEW l \in EventList, NEW n \in BlockTimes \cup {portMAX_DELAY},
                vTaskPlaceOnUnorderedEventList(t, l, n)
         PROVE  ListInv'
    <3>1. ReadyType'
      BY <2>13, <2>a DEF vTaskPlaceOnUnorderedEventList, AddCurrentTaskToDelayedList
    <3>2. Append(xEventLists[l], t) \in Seq(Task)
      BY <1>0, AppendProperties DEF EventType
    <3>3. EventType'
      BY <1>0, <2>13, <3>2 DEF vTaskPlaceOnUnorderedEventList, EventType
    <3>4. PriorityType'
      BY <1>0, <2>13 DEF vTaskPlaceOnUnorderedEventList, PriorityType
    <3>. QED  BY <1>0, <2>0, <3>1, <3>3, <3>4 DEF ListInv
  <2>14. ASSUME NEW l \in EventList, NEW u \in Task, vTaskRemoveFromUnorderedEventList(t, u, l)
         PROVE  ListInv'
    <3>1. ReadyType' /\ EventType'
      BY <1>0, <2>14, MakeReadyType, LeaveType DEF vTaskRemoveFromUnorderedEventList
    <3>. QED  BY <1>0, <1>a, <2>0, <2>14, <3>1 DEF vTaskRemoveFromUnorderedEventList, ListInv
  <2>15. CASE uxTaskResetEventItemValue(t)
    <3>1. PriorityType'
      BY <1>0, <2>15 DEF uxTaskResetEventItemValue, PriorityType
    <3>. QED  BY <1>0, <1>b, <1>c, <2>0, <2>15, <3>1 DEF uxTaskResetEventItemValue, ListInv
  <2>. QED  BY <1>1, <2>1, <2>2, <2>3, <2>4, <2>5, <2>6, <2>7, <2>8, <2>9, <2>10, <2>11, <2>12,
               <2>13, <2>14, <2>15
            DEF TaskStep
<1>2. CASE SysTickHandler
  BY <1>0, <1>2, <1>a, <1>b, <1>c DEF SysTickHandler, ListInv
<1>3. CASE vTaskSwitchContext
  <2>1. CASE UNCHANGED <<pxCurrentTCB, readyVars>>
    BY <1>0, <1>3, <1>a, <1>b, <1>c, <2>1 DEF vTaskSwitchContext, ListInv
  <2>2. ASSUME NEW p \in Priority, TopReady(p),
               pxReadyTasksLists' = [pxReadyTasksLists EXCEPT
                                       ![p].pxIndex = NextIndex(pxReadyTasksLists[p])],
               pxCurrentTCB' = pxReadyTasksLists[p].items[NextIndex(pxReadyTasksLists[p])],
               uxTopReadyPriority' = p
        PROVE  ListInv'
    <3>1. pxCurrentTCB' \in Task /\ ReadyType'
      BY <1>0, <2>2, SelectType DEF ReadyType
    <3>. QED  BY <1>3, <1>a, <1>c, <3>1 DEF vTaskSwitchContext, ListInv
  <2>. QED  BY <1>3, <2>1, <2>2 DEF vTaskSwitchContext
<1>4. ASSUME NEW l \in EventList, xTaskRemoveFromEventList(l) PROVE ListInv'
  <2>. DEFINE u == Head(xEventLists[l])
  <2>1. u \in Task /\ [xEventLists EXCEPT ![l] = Tail(@)] \in [EventList -> Seq(Task)]
    BY <1>0, <1>4, WakeType DEF xTaskRemoveFromEventList
  <2>2. /\ xEventLists' = [xEventLists EXCEPT ![l] = Tail(@)]
        /\ \/ MakeReady(u) /\ UNCHANGED xPendingReadyList
           \/ xPendingReadyList' = Append(xPendingReadyList, u) /\ UNCHANGED readyVars
    BY <1>4 DEF xTaskRemoveFromEventList
  <2>. HIDE DEF u
  <2>3. ReadyType'
    BY <1>0, <1>b, <2>1, <2>2, MakeReadyType
  <2>4. xPendingReadyList' \in Seq(Task)
    <3>1. xPendingReadyList \in Seq(Task)
      BY <1>0 DEF EventType
    <3>2. Append(xPendingReadyList, u) \in Seq(Task)
      BY <2>1, <3>1, AppendProperties
    <3>3. xPendingReadyList' \in {xPendingReadyList, Append(xPendingReadyList, u)}
      BY <2>2
    <3>. QED  BY <3>1, <3>2, <3>3
  <2>5. EventType'
    BY <2>1, <2>2, <2>4 DEF EventType
  <2>. QED  BY <1>0, <1>4, <1>a, <2>3, <2>5 DEF xTaskRemoveFromEventList, ListInv
<1>5. ASSUME NEW u \in Task, xTaskResumeFromISR(u) \/ xTaskNotifyFromISR(u) PROVE ListInv'
  <2>1. /\ \/ MakeReady(u) /\ UNCHANGED xPendingReadyList
           \/ xPendingReadyList' = Append(xPendingReadyList, u) /\ UNCHANGED readyVars
           \/ UNCHANGED <<readyVars, xPendingReadyList>>
        /\ UNCHANGED <<pxCurrentTCB, priorityVars, xEventLists>>
    BY <1>5 DEF xTaskResumeFromISR, xTaskNotifyFromISR
  <2>2. ReadyType'
    BY <1>0, <1>b, <2>1, MakeReadyType
  <2>3. EventType'
    BY <1>0, <2>1, AppendProperties DEF EventType
  <2>. QED  BY <1>0, <1>a, <2>1, <2>2, <2>3 DEF ListInv
<1>6. CASE MovePendingReady
  <2>1. Head(xPendingReadyList) \in Task /\ Tail(xPendingReadyList) \in Seq(Task)
    BY <1>0, <1>6, HeadTailProperties DEF MovePendingReady, EventType
  <2>2. ReadyType'
    BY <1>0, <1>6, <2>1, MakeReadyType DEF MovePendingReady
  <2>3. EventType'
    BY <1>0, <1>6, <2>1 DEF MovePendingReady, EventType
  <2>. QED  BY <1>0, <1>6, <1>a, <2>2, <2>3 DEF MovePendingReady, ListInv
<1>7. CASE PendingReadyEmpty \/ ReplayPendedTick \/ ResumeAllDone \/ UnblockDone \/ TimeSlice
  <2>1. UNCHANGED <<pxCurrentTCB, priorityVars, readyVars, eventVars>>
    BY <1>7 DEF PendingReadyEmpty, ReplayPendedTick, ResumeAllDone, UnblockDone, TimeSlice
  <2>. QED  BY <1>0, <1>a, <1>b, <1>c, <2>1 DEF ListInv
<1>8. ASSUME NEW t \in Task, UnblockDueTask(t) PROVE ListInv'
  <2>1. ReadyType' /\ EventType'
    BY <1>0, <1>8, MakeReadyType, LeaveType DEF UnblockDueTask
  <2>. QED  BY <1>0, <1>8, <1>a, <2>1 DEF UnblockDueTask, ListInv
<1>9. CASE UNCHANGED tasksVars
  BY <1>0, <1>9, <1>a, <1>b, <1>c DEF tasksVars, ListInv
<1>. QED  BY <1>1, <1>2, <1>3, <1>4, <1>5, <1>6, <1>7, <1>8, <1>9
          DEF Next, KernelStep, Interrupt

\* Some task is created before the scheduler starts, the idle task for one, so
\* that there is a highest priority among them.
LEMMA TopCreatedType ==
  /\ TopCreated \in Priority /\ Created(TopCreated) # {}
  /\ \A q \in Priority : q > TopCreated => Created(q) = {}
<1>. DEFINE used == {p \in Priority : Created(p) # {}}
            below == {MaxPriorities - p : p \in used}
<1>1. Idle \in Created(0) /\ 0 \in Priority
  BY TasksAssumption DEF Created, Priority
<1>2. below \in SUBSET Nat /\ below # {}
  BY <1>1, TasksAssumption DEF Priority
<1>3. \E n \in below : \A m \in below : n <= m
  <2>. HIDE DEF below
  <2>. QED  BY <1>2, LeastNatural
<1>4. \E p \in used : \A q \in used : MaxPriorities - p <= MaxPriorities - q
  BY <1>3
<1>5. \E p \in used : \A q \in used : q <= p
  BY <1>4, TasksAssumption DEF Priority
<1>6. \E p \in Priority : Created(p) # {} /\ \A q \in Priority : q > p => Created(q) = {}
  BY <1>5 DEF Priority
<1>. QED  BY <1>6, Zenon DEF TopCreated

\* The tasks created first, in any order, fill the ready lists.
LEMMA ListInit == Init => ListInv
<1>. SUFFICES ASSUME Init PROVE ListInv
  OBVIOUS
<1>1. ASSUME NEW p \in Priority
      PROVE  /\ pxReadyTasksLists[p].items \in [1 .. Cardinality(Created(p)) -> Created(p)]
             /\ pxReadyTasksLists[p].pxIndex = 0
             /\ pxReadyTasksLists[p] =
                  [items |-> pxReadyTasksLists[p].items, pxIndex |-> pxReadyTasksLists[p].pxIndex]
  BY <1>1 DEF Init, SetToSeqs
<1>2. ASSUME NEW p \in Priority
      PROVE  /\ Cardinality(Created(p)) \in Nat /\ Created(p) \in SUBSET Task
             /\ Created(p) # {} => Cardinality(Created(p)) > 0
  <2>1. Created(p) \in SUBSET Task
    BY DEF Created
  <2>2. IsFiniteSet(Created(p))
    BY <2>1, TasksAssumption, FS_Subset
  <2>. QED  BY <2>1, <2>2, FS_CardinalityType, FS_EmptySet
<1>3. ASSUME NEW p \in Priority PROVE pxReadyTasksLists[p] \in ListOf(Task)
  <2>. DEFINE items == pxReadyTasksLists[p].items
              n == Cardinality(Created(p))
  <2>1. n \in Nat /\ items \in [1 .. n -> Task]
    BY <1>1, <1>2, <1>3
  <2>2. pxReadyTasksLists[p] = [items |-> items, pxIndex |-> 0]
    BY <1>1, <1>3
  <2>. HIDE DEF items, n
  <2>3. items \in Seq(Task)
    BY <2>1
  <2>. QED  BY <2>2, <2>3 DEF ListOf
<1>4. pxReadyTasksLists \in [Priority -> ListOf(Task)]
  <2>1. pxReadyTasksLists = [p \in Priority |-> pxReadyTasksLists[p]]
    BY DEF Init
  <2>. QED  BY <1>3, <2>1
<1>5. ReadyType
  BY <1>4, TopCreatedType DEF Init, ReadyType
<1>6. pxCurrentTCB \in Task
  <2>. DEFINE items == pxReadyTasksLists[TopCreated].items
              n == Cardinality(Created(TopCreated))
  <2>0. TopCreated \in Priority /\ Created(TopCreated) # {}
    BY TopCreatedType
  <2>a. n \in Nat /\ n > 0 /\ Created(TopCreated) \in SUBSET Task
    BY <2>0, <1>2
  <2>b. items \in [1 .. n -> Created(TopCreated)]
    BY <2>0, <1>1
  <2>1. n \in Nat \ {0} /\ items \in [1 .. n -> Task]
    <3>. HIDE DEF items, n
    <3>. QED  BY <2>a, <2>b
  <2>2. items[Len(items)] \in Task
    <3>. HIDE DEF items, n
    <3>1. Len(items) = n
      BY <2>1
    <3>. QED  BY <2>1, <3>1
  <2>. QED  BY <2>2 DEF Init, Last
<1>7. PriorityType
  BY TasksAssumption DEF Init, PriorityType
<1>8. EventType
  BY DEF Init, EventType
<1>. QED  BY <1>5, <1>6, <1>7, <1>8 DEF ListInv

-----------------------------------------------------------------------------
(* What is left: the flags, and how far each call has got *)

FlagType ==
  /\ ucDelayAborted \in [Task -> BOOLEAN]
  /\ ucNotifyState \in [Task -> NotifyStates]
  /\ xYieldPending \in BOOLEAN /\ PendSV \in BOOLEAN /\ xSwitchRequired \in BOOLEAN
  /\ pc \in [Task -> Pcs]

\* The state of a notification is one of its three.
LEMMA NotifyStep ==
  ASSUME ucNotifyState \in [Task -> NotifyStates], Next
  PROVE  ucNotifyState' \in [Task -> NotifyStates]
<1>. USE DEF NotifyStates
<1>1. ASSUME NEW t \in Task, TaskStep(t) PROVE ucNotifyState' \in [Task -> NotifyStates]
  BY <1>1, ZenonT(60) DEF TaskStep, vTaskDelay, vTaskPlaceOnEventList, vTaskSuspendAll, xTaskResumeAll,
              taskYIELD, vTaskSuspendReset, xTaskCatchUpTicks, vTaskSuspend, AfterSuspension,
              vTaskResume, xTaskCreate, vTaskDelete, prvIdleTask, FreeTCB, xTaskAbortDelay,
              vTaskPrioritySet, vTaskPlaceOnUnorderedEventList,
              vTaskRemoveFromUnorderedEventList, uxTaskResetEventItemValue,
              xTaskNotifyWait, NotifyDontWait, NotifyWaitDone, xTaskNotify,
              Notified, xTaskNotifyStateClear, flagVars
<1>2. KernelStep => UNCHANGED ucNotifyState
  BY DEF KernelStep, MovePendingReady, PendingReadyEmpty, ReplayPendedTick, ResumeAllDone,
         UnblockDueTask, UnblockDone, TimeSlice, flagVars
<1>3. Interrupt => \/ UNCHANGED ucNotifyState
                   \/ \E u \in Task : ucNotifyState' = [ucNotifyState EXCEPT ![u] = "received"]
  BY DEF Interrupt, SysTickHandler, vTaskSwitchContext, xTaskRemoveFromEventList,
         xTaskResumeFromISR, xTaskNotifyFromISR, Notified, flagVars
<1>. QED  BY <1>1, <1>2, <1>3 DEF Next

\* Flags are set to the values of conditions.
LEMMA FlagStep == FlagType /\ [Next]_tasksVars => FlagType'
<1>. SUFFICES ASSUME FlagType, [Next]_tasksVars PROVE FlagType'
  OBVIOUS
<1>1. ASSUME NEW t \in Task, TaskStep(t) PROVE pc' \in [Task -> Pcs]
  BY <1>1, ZenonT(60) DEF TaskStep, vTaskDelay, vTaskPlaceOnEventList, vTaskSuspendAll, xTaskResumeAll,
              taskYIELD, vTaskSuspendReset, xTaskCatchUpTicks, vTaskSuspend, vTaskResume,
              xTaskCreate, vTaskDelete, prvIdleTask, xTaskAbortDelay, vTaskPrioritySet,
              vTaskPlaceOnUnorderedEventList, vTaskRemoveFromUnorderedEventList,
              uxTaskResetEventItemValue, xTaskNotifyWait, NotifyDontWait, NotifyWaitDone,
              xTaskNotify, xTaskNotifyStateClear, FlagType, Pcs
<1>2. (KernelStep \/ Interrupt) => pc' \in [Task -> Pcs]
  BY DEF KernelStep, MovePendingReady, PendingReadyEmpty, ReplayPendedTick, ResumeAllDone,
         UnblockDueTask, UnblockDone, TimeSlice, Interrupt, SysTickHandler, vTaskSwitchContext,
         xTaskRemoveFromEventList, xTaskResumeFromISR, xTaskNotifyFromISR, loopVars, FlagType, Pcs
<1>3. ASSUME NEW t \in Task, TaskStep(t)
      PROVE  /\ ucDelayAborted' \in [Task -> BOOLEAN]
             /\ xYieldPending' \in BOOLEAN /\ PendSV' \in BOOLEAN /\ xSwitchRequired' \in BOOLEAN
  <2>1. CASE \/ \E n \in BlockTimes : vTaskDelay(t, n)
             \/ \E l \in EventList, n \in BlockTimes \cup {portMAX_DELAY} :
                  vTaskPlaceOnEventList(t, l, n)
    <3>1. ucDelayAborted' = [ucDelayAborted EXCEPT ![pxCurrentTCB] = FALSE]
          /\ UNCHANGED <<yieldVars, xSwitchRequired>>
      BY <2>1 DEF vTaskDelay, vTaskPlaceOnEventList, AddCurrentTaskToDelayedList, loopVars
    <3>. QED  BY <3>1 DEF yieldVars, FlagType
  <2>2. CASE \/ vTaskSuspendAll(t) \/ vTaskSuspendReset(t) \/ xTaskResumeAll(t) \/ taskYIELD(t)
             \/ \E n \in 1 .. MaxPendedTicks : xTaskCatchUpTicks(t, n)
    <3>1. UNCHANGED <<ucDelayAborted, xYieldPending, xSwitchRequired>>
          /\ PendSV' \in {PendSV, TRUE}
      BY <2>2 DEF vTaskSuspendAll, vTaskSuspendReset, xTaskResumeAll, taskYIELD,
                  xTaskCatchUpTicks, flagVars, yieldVars, loopVars
    <3>. QED  BY <3>1, Zenon DEF FlagType
  <2>3. ASSUME NEW u \in Task,
               vTaskSuspend(t, u) \/ vTaskResume(t, u) \/ xTaskCreate(t, u)
        PROVE  /\ UNCHANGED <<ucDelayAborted, xYieldPending, xSwitchRequired>>
               /\ PendSV' \in BOOLEAN
    <3>1. UNCHANGED <<ucDelayAborted, xYieldPending, xSwitchRequired>>
      BY <2>3 DEF vTaskSuspend, vTaskResume, xTaskCreate, flagVars, yieldVars, loopVars
    <3>2. CASE vTaskResume(t, u)
      <4>1. PendSV' \in BOOLEAN
        <5>1. PendSV' = (uxPriority[u] >= uxPriority[t])
          BY <3>2 DEF vTaskResume
        <5>2. CASE uxPriority[u] >= uxPriority[t]
          BY <5>1, <5>2
        <5>3. CASE ~(uxPriority[u] >= uxPriority[t])
          BY <5>1, <5>3
        <5>. QED  BY <5>2, <5>3
      <4>. QED  BY <3>1, <4>1
    <3>3. CASE vTaskSuspend(t, u) \/ xTaskCreate(t, u)
      BY <3>1, <3>3 DEF vTaskSuspend, xTaskCreate, yieldVars, FlagType
    <3>. QED  BY <2>3, <3>2, <3>3
  <2>4. ASSUME NEW u \in Task, vTaskDelete(t, u) \/ prvIdleTask(t, u)
        PROVE  /\ ucDelayAborted' \in [Task -> BOOLEAN]
               /\ UNCHANGED <<xYieldPending, PendSV, xSwitchRequired>>
    BY <2>4 DEF vTaskDelete, prvIdleTask, FreeTCB, flagVars, yieldVars, loopVars, FlagType
  <2>5. ASSUME NEW u \in Task, xTaskAbortDelay(t, u)
        PROVE  /\ ucDelayAborted' \in [Task -> BOOLEAN] /\ xYieldPending' \in BOOLEAN
               /\ UNCHANGED <<PendSV, xSwitchRequired>>
    <3>1. \E b \in BOOLEAN : ucDelayAborted' = [ucDelayAborted EXCEPT ![u] = b]
      BY <2>5, Zenon DEF xTaskAbortDelay
    <3>2. ucDelayAborted' \in [Task -> BOOLEAN]
      BY <3>1 DEF FlagType
    <3>. QED  BY <2>5, <3>2, Zenon DEF xTaskAbortDelay, loopVars
  <2>6. ASSUME NEW u \in Task, NEW p \in Priority, vTaskPrioritySet(t, u, p)
        PROVE  /\ UNCHANGED <<ucDelayAborted, xYieldPending, xSwitchRequired>>
               /\ PendSV' \in BOOLEAN
    BY <2>6, Zenon DEF vTaskPrioritySet, flagVars, loopVars
  <2>7. ASSUME NEW n \in BlockTimes \cup {portMAX_DELAY}, xTaskNotifyWait(t, n)
        PROVE  /\ ucDelayAborted' \in [Task -> BOOLEAN] /\ PendSV' = TRUE
               /\ UNCHANGED <<xYieldPending, xSwitchRequired>>
    BY <2>7 DEF xTaskNotifyWait, AddCurrentTaskToDelayedList, loopVars, FlagType
  <2>8. CASE \/ (\E s \in NotifyStates : NotifyDontWait(t, s)) \/ NotifyWaitDone(t)
             \/ \E u \in Task : xTaskNotifyStateClear(t, u)
    <3>1. UNCHANGED <<ucDelayAborted, yieldVars, xSwitchRequired>>
      BY <2>8 DEF NotifyDontWait, NotifyWaitDone, xTaskNotifyStateClear, loopVars
    <3>. QED  BY <3>1 DEF yieldVars, FlagType
  <2>9. ASSUME NEW u \in Task, xTaskNotify(t, u)
        PROVE  /\ UNCHANGED <<ucDelayAborted, xYieldPending, xSwitchRequired>>
               /\ PendSV' \in BOOLEAN
    <3>1. \/ PendSV' = (uxPriority[u] > uxPriority[pxCurrentTCB])
          \/ PendSV' = PendSV
      BY <2>9 DEF xTaskNotify, Preempts
    <3>2. (uxPriority[u] > uxPriority[pxCurrentTCB]) \in BOOLEAN
      OBVIOUS
    <3>3. PendSV' \in BOOLEAN
      BY <3>1, <3>2, Zenon DEF FlagType
    <3>. QED  BY <2>9, <3>3 DEF xTaskNotify, loopVars
  <2>10. ASSUME NEW l \in EventList, NEW n \in BlockTimes \cup {portMAX_DELAY},
                vTaskPlaceOnUnorderedEventList(t, l, n)
         PROVE  /\ ucDelayAborted' \in [Task -> BOOLEAN]
                /\ UNCHANGED <<yieldVars, xSwitchRequired>>
    BY <2>10 DEF vTaskPlaceOnUnorderedEventList, AddCurrentTaskToDelayedList, loopVars, FlagType
  <2>11. ASSUME NEW l \in EventList, NEW u \in Task, vTaskRemoveFromUnorderedEventList(t, u, l)
         PROVE  /\ UNCHANGED <<ucDelayAborted, PendSV, xSwitchRequired>>
                /\ xYieldPending' \in BOOLEAN
    BY <2>11, Zenon DEF vTaskRemoveFromUnorderedEventList, flagVars, loopVars
  <2>12. CASE uxTaskResetEventItemValue(t)
    <3>1. UNCHANGED <<ucDelayAborted, yieldVars, xSwitchRequired>>
      BY <2>12 DEF uxTaskResetEventItemValue, flagVars, loopVars
    <3>. QED  BY <3>1 DEF yieldVars, FlagType
  <2>. QED  BY <1>3, <2>1, <2>2, <2>3, <2>4, <2>5, <2>6, <2>7, <2>8, <2>9, <2>10, <2>11, <2>12
            DEF TaskStep, FlagType, yieldVars
<1>4. ASSUME KernelStep
      PROVE  /\ UNCHANGED ucDelayAborted
             /\ xYieldPending' \in BOOLEAN /\ PendSV' \in BOOLEAN /\ xSwitchRequired' \in BOOLEAN
  <2>1. CASE PendingReadyEmpty \/ UnblockDone
    BY <2>1 DEF PendingReadyEmpty, UnblockDone, flagVars, yieldVars, FlagType
  <2>2. CASE ReplayPendedTick
    BY <2>2 DEF ReplayPendedTick, AdvanceTick, flagVars, yieldVars, FlagType
  <2>3. CASE MovePendingReady
    BY <2>3, Zenon DEF MovePendingReady, flagVars, FlagType
  <2>4. CASE ResumeAllDone
    BY <2>4 DEF ResumeAllDone, flagVars, FlagType
  <2>5. ASSUME NEW t \in Task, UnblockDueTask(t)
        PROVE  /\ UNCHANGED <<ucDelayAborted, xYieldPending, PendSV>>
               /\ xSwitchRequired' \in BOOLEAN
    BY <2>5, Zenon DEF UnblockDueTask, flagVars, yieldVars
  <2>6. CASE TimeSlice
    BY <2>6, Zenon DEF TimeSlice, flagVars, FlagType
  <2>. QED  BY <1>4, <2>1, <2>2, <2>3, <2>4, <2>5, <2>6 DEF KernelStep, FlagType
<1>5. ASSUME Interrupt
      PROVE  /\ UNCHANGED ucDelayAborted
             /\ xYieldPending' \in BOOLEAN /\ PendSV' \in BOOLEAN /\ xSwitchRequired' \in BOOLEAN
  BY <1>5, Zenon
  DEF Interrupt, SysTickHandler, vTaskSwitchContext, xTaskRemoveFromEventList,
      xTaskResumeFromISR, xTaskNotifyFromISR, AdvanceTick, flagVars, yieldVars, loopVars, FlagType
<1>6. CASE UNCHANGED tasksVars
  BY <1>6 DEF tasksVars, flagVars, yieldVars, loopVars, FlagType
<1>7. Next => ucNotifyState' \in [Task -> NotifyStates]
  BY NotifyStep DEF FlagType
<1>. QED  BY <1>1, <1>2, <1>3, <1>4, <1>5, <1>6, <1>7 DEF Next, FlagType

\* Every variable has its type: in particular the cursors and the counts, which
\* the code decrements, never become negative.
THEOREM TypeCorrect == Spec => []TypeOK
<1>. DEFINE IInv == TimeInv /\ LoopInv /\ ListInv /\ FlagType
<1>1. Init => IInv
  <2>1. Init => FlagType
    <3>1. Init => /\ xYieldPending \in BOOLEAN /\ PendSV \in BOOLEAN
                  /\ xSwitchRequired \in BOOLEAN
      BY Zenon DEF Init
    <3>2. Init => /\ ucDelayAborted \in [Task -> BOOLEAN] /\ pc \in [Task -> Pcs]
                  /\ ucNotifyState \in [Task -> NotifyStates]
      BY DEF Init, Pcs, NotifyStates
    <3>. QED  BY <3>1, <3>2 DEF FlagType
  <2>. QED  BY <2>1, TimeInit, LoopInit, ListInit
<1>2. IInv /\ [Next]_tasksVars => IInv'
  BY TimeStep, LoopStep, ListStep, FlagStep
<1>3. IInv => TypeOK
  <2>1. ListOf(Task) \subseteq [items : Seq(Task), pxIndex : Nat]
    BY DEF ListOf
  <2>. QED  BY <2>1 DEF TypeOK, TimeInv, TimeType, LoopInv, ListInv, PriorityType, ReadyType,
                        EventType, FlagType
<1>. HIDE DEF IInv
<1>. QED  BY <1>1, <1>2, <1>3, PTL DEF Spec

-----------------------------------------------------------------------------
(***************************************************************************)
(* What pends while the scheduler is suspended.  Its draining is spread    *)
(* over the masked loops of xTaskResumeAll, so the invariant says how far  *)
(* they are: the list of tasks is empty once they replay the ticks, and a  *)
(* tick that is not replayed finds nothing pending at all.                 *)
(***************************************************************************)
Drained == xPendingReadyList = <<>> /\ xPendedTicks = 0

DrainInv ==
  /\ LoopInv
  /\ inResumeAll => uxSchedulerSuspended = 0
  /\ inResumeAll /\ kernel \notin {"move", "moved"} => xPendingReadyList = <<>>
  /\ ~inResumeAll /\ uxSchedulerSuspended = 0 => Drained
  /\ ~inResumeAll /\ kernel # "none" => uxSchedulerSuspended = 0

\* Nothing leaves an empty list.
LEMMA WithoutEmpty == \A t : Without(<<>>, t) = <<>>
BY DEF Without, Contains

\* Every step keeps what drains the pending work.
LEMMA DrainStep == DrainInv /\ [Next]_tasksVars => DrainInv'
<1>. SUFFICES ASSUME DrainInv, [Next]_tasksVars PROVE DrainInv'
  OBVIOUS
<1>0. LoopInv /\ LoopInv'
  BY LoopStep DEF DrainInv
<1>a. ASSUME UNCHANGED <<uxSchedulerSuspended, xPendedTicks, kernel, inResumeAll>>,
             xPendingReadyList = <<>> => xPendingReadyList' = <<>>
      PROVE  DrainInv'
  BY <1>0, <1>a DEF DrainInv, Drained
<1>b. ASSUME kernel = "none", UNCHANGED <<kernel, inResumeAll>>, uxSchedulerSuspended' > 0
      PROVE  DrainInv'
  BY <1>0, <1>b DEF DrainInv, LoopInv
<1>1. ASSUME NEW t \in Task, TaskStep(t) PROVE DrainInv'
  <2>0. kernel = "none" /\ (xTaskResumeAll(t) \/ UNCHANGED <<kernel, inResumeAll>>)
    BY <1>1 DEF TaskStep, vTaskDelay, vTaskPlaceOnEventList, vTaskSuspendAll, xTaskResumeAll,
                taskYIELD, vTaskSuspendReset, xTaskCatchUpTicks, vTaskSuspend, vTaskResume,
                xTaskCreate, vTaskDelete, prvIdleTask, xTaskAbortDelay, vTaskPrioritySet,
                vTaskPlaceOnUnorderedEventList, vTaskRemoveFromUnorderedEventList,
                uxTaskResetEventItemValue, xTaskNotifyWait, NotifyDontWait, NotifyWaitDone,
                xTaskNotify, xTaskNotifyStateClear, Calls, AtCall, Running, Unmasked, loopVars
  <2>1. CASE \/ \E n \in BlockTimes : vTaskDelay(t, n)
             \/ \E l \in EventList, n \in BlockTimes \cup {portMAX_DELAY} :
                  vTaskPlaceOnEventList(t, l, n)
             \/ \E n \in 1 .. MaxPendedTicks : xTaskCatchUpTicks(t, n)
    <3>1. uxSchedulerSuspended' = 1
      BY <2>1 DEF vTaskDelay, vTaskPlaceOnEventList, xTaskCatchUpTicks, pendVars
    <3>2. UNCHANGED <<kernel, inResumeAll>>
      BY <2>1 DEF vTaskDelay, vTaskPlaceOnEventList, xTaskCatchUpTicks, loopVars
    <3>. QED  BY <2>0, <3>1, <3>2, <1>b
  <2>2. CASE vTaskSuspendAll(t) \/ \E u \in Task : xTaskAbortDelay(t, u)
    <3>1. uxSchedulerSuspended' = uxSchedulerSuspended + 1
      BY <2>2 DEF vTaskSuspendAll, xTaskAbortDelay
    <3>2. uxSchedulerSuspended' > 0
      BY <1>0, <3>1 DEF LoopInv
    <3>3. UNCHANGED <<kernel, inResumeAll>>
      BY <2>2 DEF vTaskSuspendAll, xTaskAbortDelay, loopVars
    <3>. QED  BY <2>0, <3>2, <3>3, <1>b
  <2>3. CASE xTaskResumeAll(t)
    <3>1. CASE uxSchedulerSuspended = 1
      <4>1. uxSchedulerSuspended' = 0 /\ kernel' = "move" /\ inResumeAll' = TRUE
        BY <2>3, <3>1 DEF xTaskResumeAll
      <4>. QED  BY <1>0, <4>1 DEF DrainInv
    <3>2. CASE uxSchedulerSuspended # 1
      <4>1. UNCHANGED <<kernel, inResumeAll>> /\ uxSchedulerSuspended' = uxSchedulerSuspended - 1
            /\ uxSchedulerSuspended > 0
        BY <2>3, <3>2 DEF xTaskResumeAll
      <4>2. uxSchedulerSuspended' > 0
        BY <1>0, <3>2, <4>1 DEF LoopInv
      <4>. QED  BY <2>0, <4>1, <4>2, <1>b
    <3>. QED  BY <3>1, <3>2
  <2>4. CASE taskYIELD(t) \/ vTaskSuspendReset(t)
    BY <1>a, <2>4 DEF taskYIELD, vTaskSuspendReset, eventVars, pendVars, loopVars
  <2>5. ASSUME NEW u \in Task, vTaskSuspend(t, u) \/ vTaskDelete(t, u) PROVE DrainInv'
    BY <1>a, <2>5, WithoutEmpty
    DEF vTaskSuspend, vTaskDelete, LeaveEventLists, pendVars, loopVars
  <2>6. ASSUME NEW u \in Task,
               \/ vTaskResume(t, u) \/ xTaskCreate(t, u) \/ prvIdleTask(t, u)
               \/ \E p \in Priority : vTaskPrioritySet(t, u, p)
        PROVE  DrainInv'
    BY <1>a, <2>6 DEF vTaskResume, xTaskCreate, prvIdleTask, vTaskPrioritySet,
                      eventVars, pendVars, loopVars
  <2>7. CASE \/ \E n \in BlockTimes \cup {portMAX_DELAY} : xTaskNotifyWait(t, n)
             \/ (\E s \in NotifyStates : NotifyDontWait(t, s)) \/ NotifyWaitDone(t)
             \/ \E u \in Task : xTaskNotify(t, u) \/ xTaskNotifyStateClear(t, u)
    BY <1>a, <2>7 DEF xTaskNotifyWait, NotifyDontWait, NotifyWaitDone, xTaskNotify,
                      xTaskNotifyStateClear, eventVars, pendVars, loopVars
  <2>8. CASE \/ \E l \in EventList, n \in BlockTimes \cup {portMAX_DELAY} :
                  vTaskPlaceOnUnorderedEventList(t, l, n)
             \/ uxTaskResetEventItemValue(t)
    BY <1>a, <2>8 DEF vTaskPlaceOnUnorderedEventList, uxTaskResetEventItemValue, eventVars,
                      pendVars, loopVars
  <2>9. ASSUME NEW l \in EventList, NEW u \in Task, vTaskRemoveFromUnorderedEventList(t, u, l)
        PROVE  DrainInv'
    BY <1>a, <2>9, WithoutEmpty
    DEF vTaskRemoveFromUnorderedEventList, LeaveEventLists, pendVars, loopVars
  <2>. QED  BY <1>1, <2>1, <2>2, <2>3, <2>4, <2>5, <2>6, <2>7, <2>8, <2>9 DEF TaskStep
<1>2. CASE SysTickHandler
  <2>1. kernel = "none" /\ ~inResumeAll /\ UNCHANGED <<inResumeAll, uxSchedulerSuspended>>
        /\ xPendingReadyList' = xPendingReadyList
    BY <1>0, <1>2 DEF SysTickHandler, Unmasked, LoopInv, eventVars
  <2>2. \/ uxSchedulerSuspended = 0 /\ UNCHANGED xPendedTicks
        \/ uxSchedulerSuspended # 0 /\ UNCHANGED kernel
    BY <1>2 DEF SysTickHandler, CountsTick
  <2>. QED  BY <1>0, <2>1, <2>2 DEF DrainInv, Drained
<1>3. CASE vTaskSwitchContext
  BY <1>a, <1>3 DEF vTaskSwitchContext, eventVars, pendVars, loopVars
<1>4. CASE \/ \E l \in EventList : xTaskRemoveFromEventList(l)
           \/ \E u \in Task : xTaskResumeFromISR(u) \/ xTaskNotifyFromISR(u)
  <2>1. kernel = "none" /\ UNCHANGED <<uxSchedulerSuspended, xPendedTicks, kernel, inResumeAll>>
        /\ (uxSchedulerSuspended = 0 => UNCHANGED xPendingReadyList)
    BY <1>4 DEF xTaskRemoveFromEventList, xTaskResumeFromISR, xTaskNotifyFromISR, Unmasked,
                pendVars, loopVars
  <2>. QED  BY <1>0, <2>1 DEF DrainInv, Drained, LoopInv
<1>5. CASE MovePendingReady
  <2>1. /\ kernel \in {"move", "moved"} /\ kernel' = "moved"
        /\ UNCHANGED <<uxSchedulerSuspended, inResumeAll>>
    BY <1>5 DEF MovePendingReady, pendVars
  <2>. QED  BY <1>0, <2>1 DEF DrainInv, LoopInv
<1>6. CASE PendingReadyEmpty
  <2>1. /\ kernel \in {"move", "moved"} /\ kernel' = "ticks" /\ xPendingReadyList' = <<>>
        /\ UNCHANGED <<uxSchedulerSuspended, inResumeAll>>
    BY <1>6 DEF PendingReadyEmpty, AllMoved, pendVars, eventVars
  <2>. QED  BY <1>0, <2>1 DEF DrainInv, LoopInv
<1>7. CASE ReplayPendedTick
  <2>1. /\ kernel = "ticks" /\ UNCHANGED <<uxSchedulerSuspended, inResumeAll, xPendingReadyList>>
    BY <1>7 DEF ReplayPendedTick, pendVars, eventVars
  <2>. QED  BY <1>0, <2>1 DEF DrainInv, LoopInv
<1>8. CASE ResumeAllDone
  <2>1. /\ kernel = "ticks" /\ kernel' = "none" /\ xPendedTicks = 0
        /\ UNCHANGED <<uxSchedulerSuspended, xPendedTicks, xPendingReadyList>>
    BY <1>8 DEF ResumeAllDone, pendVars, eventVars
  <2>. QED  BY <1>0, <2>1 DEF DrainInv, Drained, LoopInv
<1>9. CASE (\E t \in Task : UnblockDueTask(t)) \/ UnblockDone
  <2>1. /\ kernel = "unblock" /\ kernel' \in {"unblock", "slice"}
        /\ UNCHANGED <<uxSchedulerSuspended, xPendedTicks, inResumeAll>>
        /\ xPendingReadyList = <<>> => xPendingReadyList' = <<>>
    BY <1>9, WithoutEmpty DEF UnblockDueTask, UnblockDone, LeaveEventLists, eventVars, pendVars
  <2>. QED  BY <1>0, <2>1 DEF DrainInv, Drained
<1>10. CASE TimeSlice
  <2>1. /\ kernel = "slice" /\ UNCHANGED <<uxSchedulerSuspended, inResumeAll, xPendingReadyList>>
        /\ \/ inResumeAll /\ kernel' = "ticks"
           \/ ~inResumeAll /\ kernel' = "none" /\ UNCHANGED xPendedTicks
    BY <1>10 DEF TimeSlice, eventVars
  <2>. QED  BY <1>0, <2>1 DEF DrainInv, Drained
<1>11. CASE UNCHANGED tasksVars
  BY <1>a, <1>11 DEF tasksVars, eventVars, pendVars, loopVars
<1>. QED  BY <1>1, <1>2, <1>3, <1>4, <1>5, <1>6, <1>7, <1>8, <1>9, <1>10, <1>11
          DEF Next, KernelStep, Interrupt

\* Once the scheduler runs again, no task readied and no tick counted while it
\* was suspended is left behind: xTaskResumeAll.
THEOREM NothingStaysPending == Spec => []PendedWorkDrained
<1>1. Init => DrainInv
  <2>1. Init => Drained /\ uxSchedulerSuspended = 0 /\ kernel = "none"
    BY DEF Init, Drained
  <2>. QED  BY <2>1, LoopInit DEF DrainInv, LoopInv
<1>2. DrainInv => PendedWorkDrained
  BY DEF DrainInv, LoopInv, Drained, PendedWorkDrained, Unmasked
<1>. QED  BY <1>1, <1>2, DrainStep, PTL DEF Spec

-----------------------------------------------------------------------------
(***************************************************************************)
(* The ready lists.  What a step does to them is one of four things: it    *)
(* leaves them alone, takes a task out, puts a task in, or lets the cursor *)
(* of one of them move on.                                                 *)
(***************************************************************************)
Ready(t) == xStateList[t] = "ready"

\* A task is ready after the step if and only if it was before, with the same
\* priority; u is not looked at.
ReadyKeptBut(u) ==
  \A t \in Task : t # u =>
    /\ xStateList'[t] = "ready" <=> xStateList[t] = "ready"
    /\ Ready(t) => uxPriority'[t] = uxPriority[t]

\* A step that leaves the lists and the readiness of all tasks alone.
LEMMA ReadyAlone ==
  ASSUME ReadyLists, UNCHANGED readyVars,
         \A t \in Task : /\ xStateList'[t] = "ready" <=> xStateList[t] = "ready"
                         /\ Ready(t) => uxPriority'[t] = uxPriority[t]
  PROVE  ReadyLists'
<1>1. \A p \in Priority : {t \in Task : xStateList'[t] = "ready" /\ uxPriority'[t] = p}
                            = {t \in Task : xStateList[t] = "ready" /\ uxPriority[t] = p}
  BY DEF Ready
<1>. QED  BY <1>1 DEF ReadyLists, readyVars

\* A ready list holds no task twice, and only tasks of its priority.
LEMMA ReadyListIs ==
  ASSUME ReadyType, ReadyLists, NEW p \in Priority
  PROVE  /\ pxReadyTasksLists[p] \in ListOf(Task)
         /\ IsInjective(pxReadyTasksLists[p].items)
         /\ ToSet(pxReadyTasksLists[p].items) = {t \in Task : Ready(t) /\ uxPriority[t] = p}
         /\ pxReadyTasksLists[p].items \in Seq(Task)
BY DEF ReadyType, ReadyLists, Ready, ListOf

\* The lists when u has left them, wherever it was.
LEMMA WithoutReadySet ==
  ASSUME ReadyType, ReadyLists, NEW u, NEW p \in Priority
  PROVE  LET l == WithoutReady(pxReadyTasksLists, u)[p]
         IN  /\ l \in ListOf(Task) /\ l.items \in Seq(Task)
             /\ IsInjective(l.items)
             /\ ToSet(l.items) = {t \in Task : Ready(t) /\ uxPriority[t] = p} \ {u}
             /\ l.items # <<>> => pxReadyTasksLists[p].items # <<>>
<1>. DEFINE l == WithoutReady(pxReadyTasksLists, u)[p]
<1>1. l = uxListRemove(pxReadyTasksLists[p], u)
  BY DEF WithoutReady
<1>2. l \in ListOf(Task)
  BY <1>1, ReadyListIs, RemoveType
<1>3. IsInjective(l.items) /\ ToSet(l.items) = ToSet(pxReadyTasksLists[p].items) \ {u}
  BY <1>1, ReadyListIs, RemoveSet
<1>4. l.items \in Seq(Task)
  BY <1>2 DEF ListOf
<1>5. pxReadyTasksLists[p].items = <<>> => l.items = <<>>
  <2>. HIDE DEF l
  <2>. QED  BY <1>3, <1>4, ReadyListIs, Members
<1>. QED  BY <1>2, <1>3, <1>4, <1>5, ReadyListIs

\* A task leaves the ready lists.
LEMMA ReadyLeft ==
  ASSUME ReadyType, ReadyLists, NEW u,
         pxReadyTasksLists' = WithoutReady(pxReadyTasksLists, u),
         uxTopReadyPriority' = uxTopReadyPriority,
         u \in Task => xStateList'[u] # "ready",
         ReadyKeptBut(u)
  PROVE  ReadyLists'
<1>. SUFFICES ASSUME NEW p \in Priority
              PROVE  LET l == WithoutReady(pxReadyTasksLists, u)[p]
                     IN  /\ ToSet(l.items) =
                              {t \in Task : xStateList'[t] = "ready" /\ uxPriority'[t] = p}
                         /\ IsInjective(l.items)
                         /\ l.pxIndex <= Len(l.items)
                         /\ l.items # <<>> => p <= uxTopReadyPriority
  BY DEF ReadyLists
<1>. DEFINE l == WithoutReady(pxReadyTasksLists, u)[p]
<1>1. {t \in Task : xStateList'[t] = "ready" /\ uxPriority'[t] = p}
        = {t \in Task : Ready(t) /\ uxPriority[t] = p} \ {u}
  BY DEF ReadyKeptBut, Ready
<1>2. /\ l \in ListOf(Task) /\ IsInjective(l.items)
      /\ ToSet(l.items) = {t \in Task : Ready(t) /\ uxPriority[t] = p} \ {u}
      /\ l.items # <<>> => pxReadyTasksLists[p].items # <<>>
  BY WithoutReadySet
<1>. HIDE DEF l
<1>. QED  BY <1>1, <1>2 DEF l, ListOf, ReadyLists

\* A task enters the ready list of its priority.
LEMMA ReadyEntered ==
  ASSUME ReadyType, ReadyLists, NEW u \in Task, NEW p \in Priority,
         AddTaskToReadyList(u, p),
         xStateList'[u] = "ready", uxPriority'[u] = p,
         ReadyKeptBut(u)
  PROVE  ReadyLists'
<1>. DEFINE lists == WithoutReady(pxReadyTasksLists, u)
<1>1. /\ pxReadyTasksLists' = [lists EXCEPT ![p] = vListInsertEnd(lists[p], u)]
      /\ uxTopReadyPriority' = IF p > uxTopReadyPriority THEN p ELSE uxTopReadyPriority
  BY DEF AddTaskToReadyList, RecordReadyPriority
<1>2. lists \in [Priority -> ListOf(Task)]
  BY UnreadyType
<1>3. ASSUME NEW q \in Priority
      PROVE  /\ lists[q] \in ListOf(Task) /\ IsInjective(lists[q].items)
             /\ ToSet(lists[q].items) = {t \in Task : Ready(t) /\ uxPriority[t] = q} \ {u}
             /\ lists[q].items # <<>> => pxReadyTasksLists[q].items # <<>>
  BY WithoutReadySet
<1>. HIDE DEF lists
<1>4. \A q \in Priority :
        {t \in Task : xStateList'[t] = "ready" /\ uxPriority'[t] = q}
          = ({t \in Task : Ready(t) /\ uxPriority[t] = q} \ {u}) \cup (IF q = p THEN {u} ELSE {})
  BY DEF ReadyKeptBut, Ready
<1>5. uxTopReadyPriority' >= p /\ uxTopReadyPriority' >= uxTopReadyPriority
      /\ Priority \subseteq Int /\ uxTopReadyPriority \in Priority /\ uxTopReadyPriority' \in Priority
  BY <1>1 DEF ReadyType, Priority
<1>. SUFFICES ASSUME NEW q \in Priority
              PROVE  LET l == pxReadyTasksLists'[q]
                     IN  /\ ToSet(l.items) =
                              {t \in Task : xStateList'[t] = "ready" /\ uxPriority'[t] = q}
                         /\ IsInjective(l.items)
                         /\ l.pxIndex <= Len(l.items)
                         /\ l.items # <<>> => q <= uxTopReadyPriority'
  BY DEF ReadyLists
<1>6. CASE q = p
  <2>1. pxReadyTasksLists'[q] = vListInsertEnd(lists[p], u)
    BY <1>1, <1>2, <1>6
  <2>2. u \notin ToSet(lists[p].items)
    BY <1>3
  <2>3. /\ vListInsertEnd(lists[p], u) \in ListOf(Task)
        /\ ToSet(vListInsertEnd(lists[p], u).items) = ToSet(lists[p].items) \cup {u}
        /\ IsInjective(vListInsertEnd(lists[p], u).items)
    <3>1. lists[p] \in ListOf(Task) /\ IsInjective(lists[p].items)
      BY <1>3
    <3>2. vListInsertEnd(lists[p], u) \in ListOf(Task)
      BY <3>1, InsertEndType
    <3>3. PICK l \in ListOf(Task) : l = lists[p]
      BY <3>1
    <3>4. /\ ToSet(vListInsertEnd(l, u).items) = ToSet(l.items) \cup {u}
          /\ IsInjective(l.items) /\ u \notin ToSet(l.items)
               => IsInjective(vListInsertEnd(l, u).items)
      BY InsertEndSet
    <3>. QED  BY <2>2, <3>1, <3>2, <3>3, <3>4
  <2>. QED  BY <1>3, <1>4, <1>5, <1>6, <2>1, <2>3 DEF ListOf
<1>7. CASE q # p
  <2>1. pxReadyTasksLists'[q] = lists[q]
    BY <1>1, <1>2, <1>7
  <2>2. lists[q].items # <<>> => q <= uxTopReadyPriority'
    BY <1>3, <1>5 DEF ReadyLists
  <2>. QED  BY <1>3, <1>4, <1>7, <2>1, <2>2 DEF ListOf
<1>. QED  BY <1>6, <1>7

\* The same of a task made ready.
LEMMA ReadyMade ==
  ASSUME ListInv, ReadyLists, xStateList \in [Task -> StateLists], NEW u \in Task,
         MakeReady(u), UNCHANGED uxPriority
  PROVE  ReadyLists'
<1>1. /\ AddTaskToReadyList(u, uxPriority[u]) /\ uxPriority[u] \in Priority
      /\ xStateList' = [xStateList EXCEPT ![u] = "ready"]
  BY DEF MakeReady, MoveTo, ListInv, PriorityType
<1>2. xStateList'[u] = "ready" /\ ReadyKeptBut(u)
  BY <1>1 DEF ReadyKeptBut, Ready
<1>. QED  BY <1>1, <1>2, ReadyEntered DEF ListInv

\* The task selected: its list's cursor moves on, the search had found the
\* lists above it empty.
LEMMA ReadySelected ==
  ASSUME ReadyType, ReadyLists, NEW p \in Priority, TopReady(p), NEW i,
         i = NextIndex(pxReadyTasksLists[p]),
         pxReadyTasksLists' = [pxReadyTasksLists EXCEPT ![p].pxIndex = i],
         uxTopReadyPriority' = p,
         UNCHANGED <<xStateList, uxPriority>>
  PROVE  /\ ReadyLists'
         /\ pxReadyTasksLists[p].items[i] \in Task
         /\ Ready(pxReadyTasksLists[p].items[i])
         /\ uxPriority[pxReadyTasksLists[p].items[i]] = p
         /\ \A t \in Task : Ready(t) /\ uxPriority[t] \in Priority => uxPriority[t] <= p
<1>. DEFINE l == pxReadyTasksLists[p]
<1>1. l \in ListOf(Task) /\ l.items # <<>> /\ l.items \in Seq(Task) /\ Len(l.items) \in Nat
  BY ReadyListIs DEF TopReady
<1>2. i \in 1 .. Len(l.items)
  BY <1>1 DEF NextIndex, ListOf
<1>3. l.items[i] \in ToSet(l.items)
  BY <1>1, <1>2 DEF ToSet
<1>4. Priority \subseteq Int /\ uxTopReadyPriority \in Priority
  BY DEF ReadyType, Priority
<1>5. \A q \in Priority : pxReadyTasksLists[q].items # <<>> => q <= p
  <2>1. \A q \in p + 1 .. uxTopReadyPriority : pxReadyTasksLists[q].items = <<>>
    BY DEF TopReady
  <2>2. \A q \in Priority : pxReadyTasksLists[q].items # <<>> => q <= uxTopReadyPriority
    BY DEF ReadyLists
  <2>. QED  BY <1>4, <2>1, <2>2
<1>6. ASSUME NEW t \in Task, Ready(t), uxPriority[t] \in Priority PROVE uxPriority[t] <= p
  <2>1. t \in ToSet(pxReadyTasksLists[uxPriority[t]].items)
    BY <1>6 DEF ReadyLists, Ready
  <2>2. pxReadyTasksLists[uxPriority[t]].items # <<>>
    BY <1>6, <2>1, ReadyListIs, Members
  <2>. QED  BY <1>5, <1>6, <2>2
<1>7. ASSUME NEW q \in Priority
      PROVE  /\ pxReadyTasksLists'[q].items = pxReadyTasksLists[q].items
             /\ pxReadyTasksLists'[q].pxIndex <= Len(pxReadyTasksLists[q].items)
  <2>1. pxReadyTasksLists \in [Priority -> ListOf(Task)]
    BY DEF ReadyType
  <2>2. CASE q = p
    <3>1. pxReadyTasksLists'[q] = [pxReadyTasksLists[p] EXCEPT !.pxIndex = i]
      BY <2>1, <2>2
    <3>. QED  BY <1>1, <1>2, <2>2, <3>1 DEF ListOf
  <2>3. CASE q # p
    BY <2>1, <2>3 DEF ListOf
  <2>. QED  BY <2>2, <2>3
<1>8. ReadyLists'
  BY <1>5, <1>7 DEF ReadyLists
<1>. QED  BY <1>3, <1>6, <1>8, ReadyListIs
-----------------------------------------------------------------------------
(* The inductive invariant of TypeCorrect and of NothingStaysPending *)

TypeInv == TimeInv /\ DrainInv /\ ListInv /\ FlagType

\* It holds at first ...
LEMMA TypeInit == Init => TypeInv
<1>1. Init => DrainInv
  <2>1. Init => Drained /\ uxSchedulerSuspended = 0 /\ kernel = "none"
    BY DEF Init, Drained
  <2>. QED  BY <2>1, LoopInit DEF DrainInv, LoopInv
<1>2. Init => FlagType
  <2>1. Init => /\ xYieldPending \in BOOLEAN /\ PendSV \in BOOLEAN
                /\ xSwitchRequired \in BOOLEAN
    BY Zenon DEF Init
  <2>2. Init => /\ ucDelayAborted \in [Task -> BOOLEAN] /\ pc \in [Task -> Pcs]
                /\ ucNotifyState \in [Task -> NotifyStates]
    BY DEF Init, Pcs, NotifyStates
  <2>. QED  BY <2>1, <2>2 DEF FlagType
<1>. QED  BY <1>1, <1>2, TimeInit, ListInit DEF TypeInv

\* ... and every step keeps it.
LEMMA TypeStep == TypeInv /\ [Next]_tasksVars => TypeInv'
BY TimeStep, DrainStep, ListStep, FlagStep DEF TypeInv

\* The types the proofs below need.
LEMMA TypeFacts ==
  ASSUME TypeInv
  PROVE  /\ pxCurrentTCB \in Task /\ xStateList \in [Task -> StateLists]
         /\ uxPriority \in [Task -> Priority] /\ uxBasePriority \in [Task -> Priority]
         /\ ReadyType /\ EventType /\ ListInv
         /\ pc \in [Task -> Pcs] /\ ucNotifyState \in [Task -> NotifyStates]
         /\ uxSchedulerSuspended \in Nat /\ kernel \in KernelSteps
         /\ kernel = "none" => ~inResumeAll
         /\ kernel \in {"move", "moved", "ticks"} => inResumeAll
         /\ inResumeAll => uxSchedulerSuspended = 0
BY DEF TypeInv, TimeInv, TimeType, DrainInv, LoopInv, ListInv, PriorityType, FlagType

\* Every step keeps the ready lists.
LEMMA ReadyStep == TypeInv /\ ReadyLists /\ [Next]_tasksVars => ReadyLists'
<1>. SUFFICES ASSUME TypeInv, ReadyLists, [Next]_tasksVars PROVE ReadyLists'
  OBVIOUS
<1>0. /\ pxCurrentTCB \in Task /\ xStateList \in [Task -> StateLists]
      /\ uxPriority \in [Task -> Priority] /\ uxBasePriority \in [Task -> Priority]
      /\ ReadyType /\ EventType /\ ListInv
  BY TypeFacts
<1>a. ASSUME UNCHANGED <<uxPriority, xStateList, readyVars>> PROVE ReadyLists'
  BY <1>a, ReadyAlone
<1>b. ASSUME NEW n, NEW indefinitely, AddCurrentTaskToDelayedList(n, indefinitely),
             UNCHANGED <<uxPriority, uxTopReadyPriority>>
      PROVE  ReadyLists'
  <2>1. PICK s \in {"suspended", "delayed", "overflow"} :
          xStateList' = [xStateList EXCEPT ![pxCurrentTCB] = s]
    BY <1>b DEF AddCurrentTaskToDelayedList, MoveTo
  <2>2. xStateList'[pxCurrentTCB] # "ready" /\ ReadyKeptBut(pxCurrentTCB)
    BY <1>0, <1>b, <2>1 DEF ReadyKeptBut
  <2>3. pxReadyTasksLists' = WithoutReady(pxReadyTasksLists, pxCurrentTCB)
    BY <1>b DEF AddCurrentTaskToDelayedList
  <2>. QED  BY <1>0, <1>b, <2>2, <2>3, ReadyLeft
<1>c. ASSUME NEW u \in Task, NEW s \in {"suspended", "termination", "none"}, MoveTo(u, s),
             pxReadyTasksLists' = WithoutReady(pxReadyTasksLists, u),
             UNCHANGED uxTopReadyPriority, UNCHANGED uxPriority \/ FreeTCB(u)
      PROVE  ReadyLists'
  <2>1. xStateList'[u] # "ready" /\ ReadyKeptBut(u)
    BY <1>0, <1>c DEF MoveTo, ReadyKeptBut, FreeTCB
  <2>. QED  BY <1>0, <1>c, <2>1, ReadyLeft
<1>d. ASSUME NEW u \in Task, MakeReady(u), UNCHANGED uxPriority PROVE ReadyLists'
  BY <1>0, <1>d, ReadyMade
<1>1. ASSUME NEW t \in Task, TaskStep(t) PROVE ReadyLists'
  <2>1. CASE \/ \E n \in BlockTimes : vTaskDelay(t, n)
             \/ \E l \in EventList, n \in BlockTimes \cup {portMAX_DELAY} :
                  vTaskPlaceOnEventList(t, l, n) \/ vTaskPlaceOnUnorderedEventList(t, l, n)
             \/ \E n \in BlockTimes \cup {portMAX_DELAY} : xTaskNotifyWait(t, n)
    BY <1>b, <2>1 DEF vTaskDelay, vTaskPlaceOnEventList, vTaskPlaceOnUnorderedEventList,
                      xTaskNotifyWait, priorityVars
  <2>2. CASE \/ vTaskSuspendAll(t) \/ taskYIELD(t) \/ vTaskSuspendReset(t)
             \/ xTaskResumeAll(t) \/ \E n \in 1 .. MaxPendedTicks : xTaskCatchUpTicks(t, n)
             \/ (\E s \in NotifyStates : NotifyDontWait(t, s)) \/ NotifyWaitDone(t)
             \/ \E u \in Task : xTaskNotifyStateClear(t, u)
             \/ uxTaskResetEventItemValue(t)
    <3>1. UNCHANGED <<uxPriority, stateVars, readyVars>>
      BY <2>2 DEF vTaskSuspendAll, taskYIELD, vTaskSuspendReset, xTaskResumeAll,
                  xTaskCatchUpTicks, NotifyDontWait, NotifyWaitDone, xTaskNotifyStateClear,
                  uxTaskResetEventItemValue, priorityVars
    <3>. QED  BY <1>a, <3>1 DEF stateVars
  <2>3. ASSUME NEW u \in Task, vTaskSuspend(t, u) PROVE ReadyLists'
    BY <1>c, <2>3 DEF vTaskSuspend, priorityVars
  <2>4. ASSUME NEW u \in Task,
               \/ vTaskResume(t, u) \/ xTaskCreate(t, u) \/ xTaskAbortDelay(t, u)
               \/ \E l \in EventList : vTaskRemoveFromUnorderedEventList(t, u, l)
        PROVE  ReadyLists'
    BY <1>d, <2>4 DEF vTaskResume, xTaskCreate, xTaskAbortDelay,
                      vTaskRemoveFromUnorderedEventList, priorityVars
  <2>5. ASSUME NEW u \in Task, vTaskDelete(t, u) PROVE ReadyLists'
    BY <1>c, <2>5 DEF vTaskDelete, priorityVars
  <2>6. ASSUME NEW u \in Task, prvIdleTask(t, u) PROVE ReadyLists'
    <3>1. /\ xStateList' = [xStateList EXCEPT ![u] = "none"] /\ xStateList[u] = "termination"
          /\ uxPriority' = [uxPriority EXCEPT ![u] = InitPriority[u]] /\ UNCHANGED readyVars
      BY <2>6 DEF prvIdleTask, MoveTo, FreeTCB
    <3>2. \A v \in Task : /\ xStateList'[v] = "ready" <=> xStateList[v] = "ready"
                          /\ Ready(v) => uxPriority'[v] = uxPriority[v]
      BY <1>0, <3>1 DEF Ready
    <3>. QED  BY <3>1, <3>2, ReadyAlone
  <2>7. ASSUME NEW u \in Task, NEW p \in Priority, vTaskPrioritySet(t, u, p) PROVE ReadyLists'
    <3>1. /\ \/ uxPriority' = [uxPriority EXCEPT ![u] = p] \/ UNCHANGED uxPriority
          /\ UNCHANGED xStateList
          /\ IF xStateList[u] = "ready" THEN AddTaskToReadyList(u, uxPriority'[u])
                                        ELSE UNCHANGED readyVars
      BY <2>7 DEF vTaskPrioritySet, stateVars
    <3>2. uxPriority'[u] \in Priority /\ ReadyKeptBut(u)
      BY <1>0, <3>1 DEF ReadyKeptBut
    <3>3. CASE xStateList[u] = "ready"
      BY <1>0, <3>1, <3>2, <3>3, ReadyEntered
    <3>4. CASE xStateList[u] # "ready"
      BY <1>0, <3>1, <3>2, <3>4, ReadyAlone DEF ReadyKeptBut, Ready
    <3>. QED  BY <3>3, <3>4
  <2>8. ASSUME NEW u \in Task, xTaskNotify(t, u) PROVE ReadyLists'
    <3>1. UNCHANGED uxPriority /\ (MakeReady(u) \/ UNCHANGED <<stateVars, readyVars>>)
      BY <2>8 DEF xTaskNotify, priorityVars
    <3>. QED  BY <1>a, <1>d, <3>1 DEF stateVars
  <2>. QED  BY <1>1, <2>1, <2>2, <2>3, <2>4, <2>5, <2>6, <2>7, <2>8 DEF TaskStep
<1>2. ASSUME AdvanceTick, UNCHANGED <<uxPriority, readyVars>> PROVE ReadyLists'
  <2>1. xStateList' \in {Switched, xStateList}
    BY <1>2 DEF AdvanceTick
  <2>2. \A t \in Task : xStateList'[t] = "ready" <=> xStateList[t] = "ready"
    BY <1>0, <2>1 DEF Switched
  <2>. QED  BY <1>2, <2>2, ReadyAlone
<1>3. CASE SysTickHandler
  <2>1. UNCHANGED <<uxPriority, readyVars>> /\ (AdvanceTick \/ UNCHANGED xStateList)
    BY <1>3 DEF SysTickHandler, priorityVars, stateVars
  <2>. QED  BY <1>2, <1>a, <2>1
<1>4. CASE vTaskSwitchContext
  <2>1. UNCHANGED <<uxPriority, xStateList>>
    BY <1>4 DEF vTaskSwitchContext, priorityVars, stateVars
  <2>2. \/ UNCHANGED readyVars
        \/ \E p \in Priority :
             /\ TopReady(p)
             /\ pxReadyTasksLists' =
                  [pxReadyTasksLists EXCEPT ![p].pxIndex = NextIndex(pxReadyTasksLists[p])]
             /\ uxTopReadyPriority' = p
    BY <1>4 DEF vTaskSwitchContext
  <2>. QED  BY <1>0, <1>a, <2>1, <2>2, ReadySelected
<1>5. ASSUME NEW u \in Task, UNCHANGED uxPriority, MakeReady(u) \/ UNCHANGED <<stateVars, readyVars>>
      PROVE  ReadyLists'
  BY <1>5, <1>a, <1>d DEF stateVars
<1>6. ASSUME NEW l \in EventList, xTaskRemoveFromEventList(l) PROVE ReadyLists'
  <2>1. Head(xEventLists[l]) \in Task
    BY <1>0, <1>6, WakeType DEF xTaskRemoveFromEventList
  <2>. QED  BY <1>5, <1>6, <2>1 DEF xTaskRemoveFromEventList, priorityVars
<1>7. ASSUME NEW u \in Task, xTaskResumeFromISR(u) \/ xTaskNotifyFromISR(u) PROVE ReadyLists'
  BY <1>5, <1>7 DEF xTaskResumeFromISR, xTaskNotifyFromISR, priorityVars
<1>8. CASE MovePendingReady
  <2>1. Head(xPendingReadyList) \in Task
    BY <1>0, <1>8, HeadTailProperties DEF MovePendingReady, EventType
  <2>. QED  BY <1>5, <1>8, <2>1 DEF MovePendingReady, priorityVars
<1>9. CASE PendingReadyEmpty \/ ResumeAllDone \/ UnblockDone \/ TimeSlice
  <2>1. UNCHANGED <<uxPriority, stateVars, readyVars>>
    BY <1>9 DEF PendingReadyEmpty, ResumeAllDone, UnblockDone, TimeSlice, priorityVars
  <2>. QED  BY <1>a, <2>1 DEF stateVars
<1>10. CASE ReplayPendedTick
  BY <1>2, <1>10 DEF ReplayPendedTick, priorityVars
<1>11. ASSUME NEW t \in Task, UnblockDueTask(t) PROVE ReadyLists'
  BY <1>5, <1>11 DEF UnblockDueTask, priorityVars
<1>12. CASE UNCHANGED tasksVars
  BY <1>a, <1>12 DEF tasksVars, priorityVars, stateVars
<1>. QED  BY <1>1, <1>3, <1>4, <1>6, <1>7, <1>8, <1>9, <1>10, <1>11, <1>12
          DEF Next, KernelStep, Interrupt

\* The tasks created before the scheduler starts are the ready ones, each on
\* the list of its priority.
LEMMA ReadyInit == Init => ReadyLists
<1>. SUFFICES ASSUME Init, NEW p \in Priority
              PROVE  LET l == pxReadyTasksLists[p]
                     IN  /\ ToSet(l.items) = {t \in Task : xStateList[t] = "ready" /\ uxPriority[t] = p}
                         /\ IsInjective(l.items)
                         /\ l.pxIndex <= Len(l.items)
                         /\ l.items # <<>> => p <= uxTopReadyPriority
  BY DEF ReadyLists
<1>. DEFINE items == pxReadyTasksLists[p].items
            n == Cardinality(Created(p))
<1>1. items \in [1 .. n -> Created(p)] /\ pxReadyTasksLists[p].pxIndex = 0
      /\ \A i, j \in 1 .. n : i # j => items[i] # items[j]
  BY DEF Init, SetToSeqs
<1>2. Created(p) = {t \in Task : xStateList[t] = "ready" /\ uxPriority[t] = p}
  <2>1. /\ uxPriority = InitPriority
        /\ xStateList = [t \in Task |-> IF t \in Late THEN "none" ELSE "ready"]
    BY DEF Init
  <2>. QED  BY <2>1, TasksAssumption DEF Created
<1>3. IsFiniteSet(Created(p)) /\ n \in Nat
  BY <1>2, TasksAssumption, FS_Subset, FS_CardinalityType
<1>. HIDE DEF items, n
<1>4. items \in Injection(1 .. n, Created(p)) /\ IsInjective(items)
  BY <1>1 DEF Injection, IsInjective
<1>5. Cardinality(1 .. n) = n
  BY <1>3, FS_Interval
<1>6. items \in Surjection(1 .. n, Created(p))
  BY <1>3, <1>4, <1>5, FS_Injection DEF n
<1>7. \A x : x \in ToSet(items) <=> x \in Created(p)
  BY <1>1, <1>6 DEF Surjection, ToSet
<1>8. Len(items) = n
  BY <1>1, <1>3
<1>9. ASSUME items # <<>> PROVE p <= uxTopReadyPriority
  <2>1. n # 0
    BY <1>1, <1>8, <1>9
  <2>2. Created(p) # {}
    BY <1>1, <1>3, <2>1
  <2>3. TopCreated \in Priority /\ \A q \in Priority : q > TopCreated => Created(q) = {}
    BY <2>2, TopCreatedType
  <2>. QED  BY <2>2, <2>3, SMTT(30) DEF Init, Priority
<1>. QED  BY <1>1, <1>2, <1>3, <1>4, <1>7, <1>8, <1>9 DEF items

\* The ready lists hold exactly the ready tasks, each once and at its priority,
\* and the search for the next task, which starts at uxTopReadyPriority, misses
\* none: prvAddTaskToReadyList, uxListRemove, taskSELECT_HIGHEST_PRIORITY_TASK.
THEOREM ReadyTasksOnLists == Spec => []ReadyLists
<1>. DEFINE IInv == TypeInv /\ ReadyLists
<1>1. Init => IInv
  BY TypeInit, ReadyInit
<1>2. IInv /\ [Next]_tasksVars => IInv'
  BY TypeStep, ReadyStep
<1>. QED  BY <1>1, <1>2, PTL DEF Spec
-----------------------------------------------------------------------------
(***************************************************************************)
(* The running task.  It is ready, but for the short way from blocking,    *)
(* suspending or deleting itself to the switch: that way is where it can   *)
(* be caught by an interrupt, and only "placed" leads through the end of   *)
(* the scheduler's suspension.                                             *)
(***************************************************************************)
Leaving == {"resetSelf", "yield"}

RunnerInv ==
  /\ \A t \in Task : pc[t] = "placed" =>
       t = pxCurrentTCB /\ (inResumeAll \/ uxSchedulerSuspended = 1)
  /\ inResumeAll => ~PendSV /\ pc[pxCurrentTCB] \in {"app", "placed", "resume"}
  /\ xStateList[pxCurrentTCB] # "ready" =>
       \/ pc[pxCurrentTCB] = "placed"
       \/ /\ uxSchedulerSuspended = 0 /\ ~inResumeAll
          /\ PendSV \/ pc[pxCurrentTCB] \in Leaving
  /\ uxSchedulerSuspended > 0 => pc[pxCurrentTCB] # "notify"

\* Whatever the running task does, it runs on, unmasked and with no switch
\* pending; only xTaskResumeAll starts a masked loop.
LEMMA RunningTask ==
  ASSUME NEW t \in Task, TaskStep(t)
  PROVE  /\ t = pxCurrentTCB /\ kernel = "none" /\ ~PendSV
         /\ UNCHANGED <<pxCurrentTCB, xSwitchRequired>>
         /\ xTaskResumeAll(t) \/ UNCHANGED <<kernel, inResumeAll>>
BY ZenonT(60) DEF TaskStep, vTaskDelay, vTaskPlaceOnEventList, vTaskSuspendAll, xTaskResumeAll,
       taskYIELD, vTaskSuspendReset, xTaskCatchUpTicks, vTaskSuspend, vTaskResume,
       xTaskCreate, vTaskDelete, prvIdleTask, xTaskAbortDelay, vTaskPrioritySet,
       vTaskPlaceOnUnorderedEventList, vTaskRemoveFromUnorderedEventList,
       uxTaskResetEventItemValue, xTaskNotifyWait, NotifyDontWait, NotifyWaitDone,
       xTaskNotify, xTaskNotifyStateClear, Calls, AtCall, Running, Unmasked, loopVars

\* A task between two calls that runs is ready.
LEMMA CallerReady ==
  ASSUME TypeInv, RunnerInv, NEW t \in Task, Running(t), pc[t] \notin Leaving \cup {"placed"}
  PROVE  Ready(t) /\ ~inResumeAll
BY TypeFacts DEF RunnerInv, Running, Unmasked, Ready

\* Every step keeps it.
LEMMA RunnerStep == TypeInv /\ ReadyLists /\ RunnerInv /\ [Next]_tasksVars => RunnerInv'
<1>. SUFFICES ASSUME TypeInv, ReadyLists, RunnerInv, [Next]_tasksVars PROVE RunnerInv'
  OBVIOUS
<1>. USE DEF Leaving
<1>0. /\ pxCurrentTCB \in Task /\ xStateList \in [Task -> StateLists]
      /\ pc \in [Task -> Pcs] /\ uxSchedulerSuspended \in Nat
      /\ kernel = "none" => ~inResumeAll
      /\ kernel \in {"move", "moved", "ticks"} => inResumeAll
      /\ inResumeAll => uxSchedulerSuspended = 0
      /\ ReadyType /\ EventType
  BY TypeFacts
\* Nothing changes for the running task but that a switch may become due, and
\* no task becomes unready.
<1>a. ASSUME UNCHANGED <<pxCurrentTCB, pc, uxSchedulerSuspended, inResumeAll>>,
             PendSV => PendSV', inResumeAll => ~PendSV',
             \A t \in Task : Ready(t) => xStateList'[t] = "ready"
      PROVE  RunnerInv'
  BY <1>0, <1>a DEF RunnerInv, Ready
<1>b. ASSUME NEW u, MakeReady(u) PROVE \A t \in Task : Ready(t) => xStateList'[t] = "ready"
  BY <1>0, <1>b DEF MakeReady, MoveTo, Ready
<1>c. UNCHANGED stateVars => \A t \in Task : Ready(t) => xStateList'[t] = "ready"
  BY DEF stateVars, Ready
<1>1. ASSUME NEW t \in Task, TaskStep(t) PROVE RunnerInv'
  <2>0. /\ t = pxCurrentTCB /\ kernel = "none" /\ ~PendSV /\ ~inResumeAll
        /\ UNCHANGED pxCurrentTCB
        /\ xTaskResumeAll(t) \/ UNCHANGED <<kernel, inResumeAll>>
    BY <1>0, <1>1, RunningTask
  <2>1. CASE \/ \E n \in BlockTimes : vTaskDelay(t, n)
             \/ \E l \in EventList, n \in BlockTimes \cup {portMAX_DELAY} :
                  vTaskPlaceOnEventList(t, l, n) \/ vTaskPlaceOnUnorderedEventList(t, l, n)
    <3>1. pc' = [pc EXCEPT ![t] = "placed"] /\ uxSchedulerSuspended' = 1 /\ UNCHANGED inResumeAll
      BY <2>1 DEF vTaskDelay, vTaskPlaceOnEventList, vTaskPlaceOnUnorderedEventList, pendVars,
                  loopVars
    <3>. QED  BY <1>0, <2>0, <3>1 DEF RunnerInv
  <2>2. ASSUME NEW n \in BlockTimes \cup {portMAX_DELAY}, xTaskNotifyWait(t, n) PROVE RunnerInv'
    <3>1. /\ pc' = [pc EXCEPT ![t] = "notify"] /\ uxSchedulerSuspended = 0 /\ PendSV' = TRUE
          /\ UNCHANGED <<uxSchedulerSuspended, inResumeAll>>
      BY <2>2 DEF xTaskNotifyWait, pendVars, loopVars
    <3>. QED  BY <1>0, <2>0, <3>1 DEF RunnerInv
  <2>3. CASE vTaskSuspendAll(t)
    <3>1. /\ pc[t] = "app" /\ UNCHANGED <<pc, xStateList, inResumeAll, PendSV>>
          /\ uxSchedulerSuspended' = uxSchedulerSuspended + 1 /\ Running(t)
      BY <2>3 DEF vTaskSuspendAll, AtCall, stateVars, yieldVars, loopVars
    <3>2. Ready(t)
      BY <3>1, CallerReady
    <3>3. \A u \in Task : pc[u] # "placed"
      BY <2>0, <3>1 DEF RunnerInv
    <3>. QED  BY <1>0, <2>0, <3>1, <3>2, <3>3 DEF RunnerInv, Ready
  <2>4. ASSUME \/ \E n \in 1 .. MaxPendedTicks : xTaskCatchUpTicks(t, n)
               \/ \E u \in Task : xTaskAbortDelay(t, u)
        PROVE  RunnerInv'
    <3>1. /\ pc[t] = "app" /\ Running(t) /\ pc' = [pc EXCEPT ![t] = "resume"]
          /\ UNCHANGED <<inResumeAll, PendSV>>
          /\ UNCHANGED stateVars \/ \E u \in Task : MakeReady(u)
      BY <2>4 DEF xTaskCatchUpTicks, xTaskAbortDelay, Calls, AtCall, yieldVars, loopVars
    <3>2. Ready(t) /\ xStateList'[t] = "ready"
      BY <1>b, <1>c, <3>1, CallerReady
    <3>3. \A u \in Task : pc[u] # "placed"
      BY <2>0, <3>1 DEF RunnerInv
    <3>. QED  BY <1>0, <2>0, <3>1, <3>2, <3>3 DEF RunnerInv
  <2>5. CASE xTaskResumeAll(t)
    <3>1. /\ pc[t] \in {"app", "placed", "resume"} /\ uxSchedulerSuspended > 0
          /\ uxSchedulerSuspended' = uxSchedulerSuspended - 1 /\ UNCHANGED <<xStateList, PendSV>>
      BY <2>5 DEF xTaskResumeAll, stateVars, yieldVars
    <3>2. CASE uxSchedulerSuspended = 1
      <4>1. inResumeAll' = TRUE /\ UNCHANGED pc
        BY <2>5, <3>2 DEF xTaskResumeAll
      <4>. QED  BY <1>0, <2>0, <3>1, <4>1 DEF RunnerInv
    <3>3. CASE uxSchedulerSuspended # 1
      <4>1. pc' = [pc EXCEPT ![t] = "app"] /\ UNCHANGED inResumeAll
        BY <2>5, <3>3 DEF xTaskResumeAll
      <4>2. \A u \in Task : pc[u] # "placed"
        BY <2>0, <3>3 DEF RunnerInv
      <4>3. Ready(t)
        BY <2>0, <3>1, <4>2 DEF RunnerInv, Ready
      <4>. QED  BY <1>0, <2>0, <3>1, <4>1, <4>2, <4>3 DEF RunnerInv, Ready
    <3>. QED  BY <3>2, <3>3
  <2>6. CASE taskYIELD(t)
    <3>1. /\ pc[t] \in {"app", "yield"} /\ pc' = [pc EXCEPT ![t] = "app"] /\ PendSV' = TRUE
          /\ UNCHANGED <<xStateList, uxSchedulerSuspended, inResumeAll>>
      BY <2>6 DEF taskYIELD, stateVars, pendVars, loopVars
    <3>. QED  BY <1>0, <2>0, <3>1 DEF RunnerInv
  <2>7. CASE vTaskSuspendReset(t)
    <3>1. /\ pc[t] \in {"reset", "resetSelf"}
          /\ pc' = [pc EXCEPT ![t] = IF pc[t] = "resetSelf" THEN "yield" ELSE "app"]
          /\ UNCHANGED <<xStateList, uxSchedulerSuspended, inResumeAll, PendSV>>
      BY <2>7 DEF vTaskSuspendReset, stateVars, pendVars, yieldVars, loopVars
    <3>. QED  BY <1>0, <2>0, <3>1 DEF RunnerInv
  <2>8. ASSUME NEW u \in Task, vTaskSuspend(t, u) PROVE RunnerInv'
    <3>1. /\ pc[t] = "app" /\ Running(t)
          /\ xStateList' = [xStateList EXCEPT ![u] = "suspended"]
          /\ pc' = [pc EXCEPT ![t] = IF u = t THEN "resetSelf" ELSE "reset"]
          /\ u = t => uxSchedulerSuspended = 0
          /\ UNCHANGED <<uxSchedulerSuspended, inResumeAll, PendSV>>
      BY <2>8 DEF vTaskSuspend, Calls, AtCall, MoveTo, pendVars, yieldVars, loopVars
    <3>2. Ready(t)
      BY <3>1, CallerReady
    <3>. QED  BY <1>0, <2>0, <3>1, <3>2 DEF RunnerInv, Ready
  <2>9. ASSUME NEW u \in Task, vTaskDelete(t, u) PROVE RunnerInv'
    <3>1. /\ pc[t] = "app" /\ Running(t)
          /\ UNCHANGED <<uxSchedulerSuspended, inResumeAll, PendSV>>
          /\ \/ /\ u = t /\ uxSchedulerSuspended = 0 /\ pc' = [pc EXCEPT ![t] = "yield"]
             \/ /\ u # t /\ pc' = [pc EXCEPT ![u] = "app"]
                /\ xStateList' = [xStateList EXCEPT ![u] = "none"]
      BY <2>9 DEF vTaskDelete, Calls, AtCall, MoveTo, pendVars, yieldVars, loopVars
    <3>2. Ready(t)
      BY <3>1, CallerReady
    <3>. QED  BY <1>0, <2>0, <3>1, <3>2 DEF RunnerInv, Ready
  <2>10. ASSUME NEW u \in Task, prvIdleTask(t, u) PROVE RunnerInv'
    <3>1. /\ pc[t] = "app" /\ Running(t) /\ xStateList[u] = "termination"
          /\ UNCHANGED <<uxSchedulerSuspended, inResumeAll, PendSV>>
          /\ pc' = [pc EXCEPT ![u] = "app"]
          /\ xStateList' = [xStateList EXCEPT ![u] = "none"]
      BY <2>10 DEF prvIdleTask, AtCall, MoveTo, pendVars, yieldVars, loopVars
    <3>2. Ready(t)
      BY <3>1, CallerReady
    <3>. QED  BY <1>0, <2>0, <3>1, <3>2 DEF RunnerInv, Ready
  <2>11. ASSUME NEW u \in Task, xTaskCreate(t, u) PROVE RunnerInv'
    <3>1. /\ pc[t] = "app" /\ Running(t) /\ MakeReady(u)
          /\ UNCHANGED <<uxSchedulerSuspended, inResumeAll, PendSV>>
          /\ pc' = [pc EXCEPT ![t] = "yield"] \/ pc' = [pc EXCEPT ![t] = "app"]
      BY <2>11 DEF xTaskCreate, Calls, AtCall, pendVars, yieldVars, loopVars
    <3>2. Ready(t) /\ xStateList'[t] = "ready"
      BY <1>b, <3>1, CallerReady
    <3>. QED  BY <1>0, <2>0, <3>1, <3>2 DEF RunnerInv, Ready
  <2>12. ASSUME NEW s \in NotifyStates, NotifyDontWait(t, s) PROVE RunnerInv'
    <3>1. /\ pc[t] = "app" /\ Running(t) /\ uxSchedulerSuspended = 0
          /\ UNCHANGED <<xStateList, uxSchedulerSuspended, inResumeAll, PendSV>>
          /\ pc' = [pc EXCEPT ![t] = "notify"]
      BY <2>12 DEF NotifyDontWait, Calls, AtCall, stateVars, pendVars, yieldVars, loopVars
    <3>2. Ready(t)
      BY <3>1, CallerReady
    <3>. QED  BY <1>0, <2>0, <3>1, <3>2 DEF RunnerInv, Ready
  <2>13. CASE NotifyWaitDone(t)
    <3>1. /\ pc[t] = "notify" /\ Running(t)
          /\ UNCHANGED <<xStateList, uxSchedulerSuspended, inResumeAll, PendSV>>
          /\ pc' = [pc EXCEPT ![t] = "app"]
      BY <2>13 DEF NotifyWaitDone, stateVars, pendVars, yieldVars, loopVars
    <3>2. Ready(t)
      BY <3>1, CallerReady
    <3>. QED  BY <1>0, <2>0, <3>1, <3>2 DEF RunnerInv, Ready
  <2>14. ASSUME \E u \in Task : \/ vTaskResume(t, u) \/ xTaskNotify(t, u)
                                \/ xTaskNotifyStateClear(t, u)
                                \/ \E p \in Priority : vTaskPrioritySet(t, u, p)
                                \/ \E l \in EventList : vTaskRemoveFromUnorderedEventList(t, u, l)
         PROVE  RunnerInv'
    <3>1. /\ UNCHANGED <<pc, uxSchedulerSuspended, inResumeAll>>
          /\ UNCHANGED stateVars \/ \E u \in Task : MakeReady(u)
      BY <2>14 DEF vTaskResume, xTaskNotify, xTaskNotifyStateClear, vTaskPrioritySet,
                   vTaskRemoveFromUnorderedEventList, pendVars, loopVars
    <3>. QED  BY <1>a, <1>b, <1>c, <2>0, <3>1
  <2>15. CASE uxTaskResetEventItemValue(t)
    <3>1. UNCHANGED <<pc, uxSchedulerSuspended, inResumeAll, stateVars>>
      BY <2>15 DEF uxTaskResetEventItemValue, pendVars, loopVars
    <3>. QED  BY <1>a, <1>c, <2>0, <3>1
  <2>. QED  BY <1>1, <2>1, <2>2, <2>3, <2>4, <2>5, <2>6, <2>7, <2>8, <2>9, <2>10, <2>11,
               <2>12, <2>13, <2>14, <2>15
            DEF TaskStep
<1>2. AdvanceTick => \A t \in Task : Ready(t) => xStateList'[t] = "ready"
  BY <1>0 DEF AdvanceTick, Switched, Ready
<1>3. CASE SysTickHandler
  <2>1. /\ UNCHANGED <<pxCurrentTCB, pc, uxSchedulerSuspended, inResumeAll, PendSV>>
        /\ AdvanceTick \/ UNCHANGED stateVars
    BY <1>3 DEF SysTickHandler, yieldVars
  <2>. QED  BY <1>a, <1>c, <1>2, <2>1 DEF RunnerInv
<1>4. CASE vTaskSwitchContext
  <2>1. /\ ~inResumeAll /\ UNCHANGED <<pc, uxSchedulerSuspended, inResumeAll, xStateList, uxPriority>>
        /\ PendSV' = FALSE
    BY <1>0, <1>4 DEF vTaskSwitchContext, Unmasked, pendVars, loopVars, stateVars, priorityVars
  <2>2. CASE uxSchedulerSuspended > 0 /\ UNCHANGED pxCurrentTCB
    BY <1>0, <2>1, <2>2 DEF RunnerInv
  <2>3. ASSUME uxSchedulerSuspended = 0, NEW p \in Priority, TopReady(p), NEW i,
               i = NextIndex(pxReadyTasksLists[p]),
               pxReadyTasksLists' = [pxReadyTasksLists EXCEPT ![p].pxIndex = i],
               uxTopReadyPriority' = p,
               pxCurrentTCB' = pxReadyTasksLists[p].items[i]
        PROVE  RunnerInv'
    <3>0. UNCHANGED <<xStateList, uxPriority>>
      BY <2>1
    <3>1. xStateList'[pxCurrentTCB'] = "ready"
      <4>1. Ready(pxReadyTasksLists[p].items[i])
        BY <1>0, <2>3, <3>0, ReadySelected
      <4>. QED  BY <2>3, <3>0, <4>1 DEF Ready
    <3>2. \A t \in Task : pc[t] # "placed"
      BY <2>1, <2>3 DEF RunnerInv
    <3>. QED  BY <1>0, <2>1, <2>3, <3>1, <3>2 DEF RunnerInv
  <2>. QED  BY <1>4, <2>2, <2>3 DEF vTaskSwitchContext
<1>5. CASE \/ \E l \in EventList : xTaskRemoveFromEventList(l)
           \/ \E u \in Task : xTaskResumeFromISR(u) \/ xTaskNotifyFromISR(u)
  <2>1. /\ ~inResumeAll /\ UNCHANGED <<pxCurrentTCB, pc, uxSchedulerSuspended, inResumeAll>>
        /\ UNCHANGED stateVars \/ \E u : MakeReady(u)
    BY <1>0, <1>5 DEF xTaskRemoveFromEventList, xTaskResumeFromISR, xTaskNotifyFromISR, Unmasked,
                      pendVars, loopVars
  <2>2. PendSV => PendSV'
    BY <1>5, Zenon DEF xTaskRemoveFromEventList, xTaskResumeFromISR, xTaskNotifyFromISR, yieldVars
  <2>. QED  BY <1>a, <1>b, <1>c, <2>1, <2>2
<1>6. CASE MovePendingReady \/ \E t \in Task : UnblockDueTask(t)
  <2>1. /\ UNCHANGED <<pxCurrentTCB, pc, uxSchedulerSuspended, inResumeAll, PendSV>>
        /\ \E u : MakeReady(u)
    BY <1>6 DEF MovePendingReady, UnblockDueTask, pendVars, yieldVars
  <2>. QED  BY <1>a, <1>b, <2>1 DEF RunnerInv
<1>7. CASE PendingReadyEmpty \/ UnblockDone
  <2>1. UNCHANGED <<pxCurrentTCB, pc, uxSchedulerSuspended, inResumeAll, PendSV, stateVars>>
    BY <1>7 DEF PendingReadyEmpty, UnblockDone, pendVars, yieldVars
  <2>. QED  BY <1>a, <1>c, <2>1 DEF RunnerInv
<1>8. CASE ReplayPendedTick
  <2>1. UNCHANGED <<pxCurrentTCB, pc, uxSchedulerSuspended, inResumeAll, PendSV>> /\ AdvanceTick
    BY <1>8 DEF ReplayPendedTick, pendVars, yieldVars
  <2>. QED  BY <1>a, <1>2, <2>1 DEF RunnerInv
<1>9. CASE ResumeAllDone
  <2>1. /\ inResumeAll /\ inResumeAll' = FALSE /\ PendSV' = xYieldPending
        /\ pc' = [pc EXCEPT ![pxCurrentTCB] =
                    IF pc[pxCurrentTCB] = "placed" /\ ~xYieldPending THEN "yield" ELSE "app"]
        /\ UNCHANGED <<pxCurrentTCB, uxSchedulerSuspended, xStateList>>
    BY <1>0, <1>9 DEF ResumeAllDone, pendVars, stateVars
  <2>. QED  BY <1>0, <2>1 DEF RunnerInv
<1>10. CASE TimeSlice
  <2>1. /\ UNCHANGED <<pxCurrentTCB, pc, uxSchedulerSuspended, inResumeAll, stateVars>>
        /\ inResumeAll => UNCHANGED PendSV
    BY <1>10 DEF TimeSlice
  <2>2. PendSV => PendSV'
    BY <1>10, Zenon DEF TimeSlice
  <2>. QED  BY <1>a, <1>c, <2>1, <2>2 DEF RunnerInv
<1>11. CASE UNCHANGED tasksVars
  BY <1>a, <1>c, <1>11 DEF tasksVars, pendVars, yieldVars, loopVars, RunnerInv
<1>. QED  BY <1>1, <1>3, <1>4, <1>5, <1>6, <1>7, <1>8, <1>9, <1>10, <1>11
          DEF Next, KernelStep, Interrupt

\* The first task to run is the last one created of the highest priority.
LEMMA FirstTask ==
  ASSUME Init
  PROVE  /\ pxCurrentTCB \in Task /\ Ready(pxCurrentTCB)
         /\ \A t \in Task : Ready(t) => uxPriority[t] <= uxPriority[pxCurrentTCB]
<1>. DEFINE s == pxReadyTasksLists[TopCreated].items
<1>1. /\ uxPriority = InitPriority /\ pxCurrentTCB = Last(s)
      /\ xStateList = [t \in Task |-> IF t \in Late THEN "none" ELSE "ready"]
  BY DEF Init
<1>2. \A p \in Priority : Created(p) = {t \in Task : Ready(t) /\ uxPriority[t] = p}
  BY <1>1, TasksAssumption DEF Created, Ready
<1>3. /\ s \in Seq(Task) /\ ToSet(s) = Created(TopCreated) /\ Created(TopCreated) # {}
      /\ TopCreated \in Priority
  BY <1>2, ReadyInit, ListInit, ReadyListIs, TopCreatedType DEF ListInv
<1>4. s # <<>> /\ Last(s) \in ToSet(s)
  <2>. HIDE DEF s
  <2>1. s # <<>>
    BY <1>3, Members
  <2>2. Len(s) \in DOMAIN s
    BY <1>3, <2>1
  <2>. QED  BY <2>1, <2>2 DEF Last, ToSet
<1>5. pxCurrentTCB \in Task /\ Ready(pxCurrentTCB) /\ uxPriority[pxCurrentTCB] = TopCreated
  BY <1>1, <1>2, <1>3, <1>4
<1>6. ASSUME NEW t \in Task, Ready(t) PROVE uxPriority[t] <= TopCreated
  <2>1. uxPriority[t] \in Priority /\ t \in Created(uxPriority[t])
    BY <1>1, <1>2, <1>6, TasksAssumption
  <2>. QED  BY <1>3, <2>1, TopCreatedType DEF Priority
<1>. QED  BY <1>5, <1>6

\* It holds at first.
LEMMA RunnerInit == Init => RunnerInv
<1>. SUFFICES ASSUME Init PROVE RunnerInv
  OBVIOUS
<1>1. /\ pc = [t \in Task |-> "app"] /\ inResumeAll = FALSE /\ uxSchedulerSuspended = 0
      /\ pxCurrentTCB \in Task /\ Ready(pxCurrentTCB)
  BY FirstTask DEF Init
<1>. QED  BY <1>1 DEF RunnerInv, Ready
-----------------------------------------------------------------------------
(***************************************************************************)
(* The task that should run.  As long as no switch is due no ready task is *)
(* above the running one; a switch is due when it is pended or noted, when *)
(* the tick under way has found one necessary, and when the running task   *)
(* is about to yield.                                                      *)
(***************************************************************************)
AboutToYield == pc[pxCurrentTCB] \in {"resetSelf", "yield", "placed"}
Due == PendSV \/ xYieldPending \/ xSwitchRequired \/ AboutToYield
NoneAbove == \A t \in Task : Ready(t) => uxPriority[t] <= uxPriority[pxCurrentTCB]

TopInv == /\ xSwitchRequired => kernel \in {"unblock", "slice"}
          /\ ~Due => NoneAbove

\* Every step keeps it.
LEMMA TopStep == TypeInv /\ ReadyLists /\ RunnerInv /\ TopInv /\ [Next]_tasksVars => TopInv'
<1>. SUFFICES ASSUME TypeInv, ReadyLists, RunnerInv, TopInv, [Next]_tasksVars PROVE TopInv'
  OBVIOUS
<1>0. /\ pxCurrentTCB \in Task /\ xStateList \in [Task -> StateLists]
      /\ uxPriority \in [Task -> Priority] /\ uxBasePriority \in [Task -> Priority]
      /\ pc \in [Task -> Pcs] /\ uxSchedulerSuspended \in Nat
      /\ ReadyType /\ EventType
  BY TypeFacts
<1>i. /\ \A p \in Priority : p \in Int
      /\ \A t \in Task : uxPriority[t] \in Int /\ uxBasePriority[t] \in Int
  BY <1>0 DEF Priority
<1>s. kernel \notin {"unblock", "slice"} => ~xSwitchRequired
  BY DEF TopInv
\* No task becomes ready and no switch is forgotten.
<1>a. ASSUME UNCHANGED <<pxCurrentTCB, uxPriority>>,
             \A t \in Task : xStateList'[t] = "ready" => Ready(t),
             Due => Due', xSwitchRequired' => kernel' \in {"unblock", "slice"}
      PROVE  TopInv'
  <2>1. NoneAbove => NoneAbove'
    BY <1>a DEF NoneAbove, Ready
  <2>. QED  BY <1>a, <2>1, Zenon DEF TopInv
\* A task becomes ready: a switch is due if it is above the running one.
<1>b. ASSUME NEW u \in Task, MakeReady(u), UNCHANGED <<pxCurrentTCB, uxPriority>>,
             Due => Due', Preempts(u) => Due',
             xSwitchRequired' => kernel' \in {"unblock", "slice"}
      PROVE  TopInv'
  <2>1. NoneAbove /\ ~Preempts(u) => NoneAbove'
    BY <1>0, <1>i, <1>b DEF NoneAbove, Ready, Preempts, MakeReady, MoveTo
  <2>. QED  BY <1>b, <2>1, Zenon DEF TopInv
\* A switch is due after the step.
<1>c. ASSUME Due', xSwitchRequired' => kernel' \in {"unblock", "slice"} PROVE TopInv'
  BY <1>c, Zenon DEF TopInv
<1>1. ASSUME NEW t \in Task, TaskStep(t) PROVE TopInv'
  <2>0. /\ t = pxCurrentTCB /\ kernel = "none" /\ ~PendSV /\ ~xSwitchRequired
        /\ UNCHANGED <<pxCurrentTCB, xSwitchRequired>>
    BY <1>1, <1>s, RunningTask
  <2>s. xSwitchRequired' => kernel' \in {"unblock", "slice"}
    BY <2>0
  <2>1. CASE \/ \E n \in BlockTimes : vTaskDelay(t, n)
             \/ \E l \in EventList, n \in BlockTimes \cup {portMAX_DELAY} :
                  vTaskPlaceOnEventList(t, l, n) \/ vTaskPlaceOnUnorderedEventList(t, l, n)
    <3>1. pc' = [pc EXCEPT ![t] = "placed"]
      BY <2>1 DEF vTaskDelay, vTaskPlaceOnEventList, vTaskPlaceOnUnorderedEventList
    <3>2. AboutToYield'
      BY <1>0, <2>0, <3>1 DEF AboutToYield
    <3>. QED  BY <1>c, <2>s, <3>2 DEF Due
  <2>2. CASE \/ \E n \in BlockTimes \cup {portMAX_DELAY} : xTaskNotifyWait(t, n)
             \/ taskYIELD(t)
    <3>1. PendSV'
      BY <2>2, Zenon DEF xTaskNotifyWait, taskYIELD
    <3>. QED  BY <1>c, <2>s, <3>1 DEF Due
  <2>3. CASE \/ vTaskSuspendAll(t) \/ xTaskResumeAll(t) \/ NotifyWaitDone(t)
             \/ (\E n \in 1 .. MaxPendedTicks : xTaskCatchUpTicks(t, n))
             \/ (\E s \in NotifyStates : NotifyDontWait(t, s))
             \/ (\E u \in Task : xTaskNotifyStateClear(t, u))
             \/ uxTaskResetEventItemValue(t)
    <3>1. UNCHANGED <<pxCurrentTCB, uxPriority, xStateList, xYieldPending, xSwitchRequired, PendSV>>
      BY <2>3 DEF vTaskSuspendAll, xTaskResumeAll, NotifyWaitDone, xTaskCatchUpTicks,
                  NotifyDontWait, xTaskNotifyStateClear, uxTaskResetEventItemValue,
                  priorityVars, stateVars, yieldVars, loopVars
    <3>2. AboutToYield => AboutToYield'
      <4>1. CASE xTaskResumeAll(t)
        <5>1. uxSchedulerSuspended = 1 => UNCHANGED pc
          BY <4>1 DEF xTaskResumeAll
        <5>2. uxSchedulerSuspended # 1 => pc[t] \in {"app", "resume"}
          BY <1>0, <2>0, <4>1, TypeFacts DEF xTaskResumeAll, RunnerInv
        <5>. QED  BY <2>0, <5>1, <5>2 DEF AboutToYield
      <4>2. CASE ~xTaskResumeAll(t)
        <5>1. pc[t] \in {"app", "notify"} \/ UNCHANGED pc
          BY <2>3, <4>2 DEF vTaskSuspendAll, NotifyWaitDone, xTaskCatchUpTicks,
                  NotifyDontWait, xTaskNotifyStateClear, uxTaskResetEventItemValue, Calls, AtCall
        <5>. QED  BY <2>0, <5>1 DEF AboutToYield
      <4>. QED  BY <4>1, <4>2
    <3>3. Due => Due'
      BY <3>1, <3>2, Zenon DEF Due
    <3>. QED  BY <1>a, <2>s, <3>1, <3>3 DEF Ready
  <2>4. CASE vTaskSuspendReset(t)
    <3>1. /\ UNCHANGED <<pxCurrentTCB, uxPriority, xStateList, xYieldPending, xSwitchRequired, PendSV>>
          /\ pc[t] \in {"reset", "resetSelf"}
          /\ pc' = [pc EXCEPT ![t] = IF pc[t] = "resetSelf" THEN "yield" ELSE "app"]
      BY <2>4 DEF vTaskSuspendReset, priorityVars, stateVars, yieldVars, loopVars
    <3>2. AboutToYield => AboutToYield'
      BY <1>0, <2>0, <3>1 DEF AboutToYield
    <3>3. Due => Due'
      BY <3>1, <3>2, Zenon DEF Due
    <3>. QED  BY <1>a, <2>s, <3>1, <3>3 DEF Ready
  <2>5. ASSUME NEW u \in Task, \/ vTaskSuspend(t, u) \/ (vTaskDelete(t, u) /\ u # t)
                               \/ prvIdleTask(t, u)
        PROVE  TopInv'
    <3>1. /\ UNCHANGED <<pxCurrentTCB, xYieldPending, xSwitchRequired, PendSV>>
          /\ UNCHANGED uxPriority \/ uxPriority' = [uxPriority EXCEPT ![u] = InitPriority[u]]
          /\ \E s \in StateLists \ {"ready"} : xStateList' = [xStateList EXCEPT ![u] = s]
          /\ pc[t] = "app" /\ Running(t)
          /\ uxPriority' # uxPriority => u # t \/ xStateList[t] = "termination"
      BY <2>5 DEF vTaskSuspend, vTaskDelete, prvIdleTask, FreeTCB, MoveTo, Calls, AtCall,
                  priorityVars, yieldVars, loopVars, StateLists
    <3>2. ~AboutToYield
      BY <2>0, <3>1 DEF AboutToYield
    <3>3. Due => Due'
      BY <3>1, <3>2, Zenon DEF Due
    <3>4. Ready(t)
      BY <3>1, CallerReady DEF Leaving
    <3>5. uxPriority'[t] = uxPriority[t]
      BY <1>0, <3>1, <3>4 DEF Ready
    <3>6. NoneAbove => NoneAbove'
      BY <1>0, <2>0, <3>1, <3>5 DEF NoneAbove, Ready
    <3>. QED  BY <2>s, <3>3, <3>6, Zenon DEF TopInv
  <2>6. ASSUME NEW u \in Task, vTaskDelete(t, u), u = t PROVE TopInv'
    <3>1. pc' = [pc EXCEPT ![t] = "yield"]
      BY <2>6 DEF vTaskDelete
    <3>2. AboutToYield'
      BY <1>0, <2>0, <3>1 DEF AboutToYield
    <3>. QED  BY <1>c, <2>s, <3>2 DEF Due
  <2>7. ASSUME NEW u \in Task, \/ vTaskResume(t, u) \/ xTaskCreate(t, u) \/ xTaskAbortDelay(t, u)
                               \/ \E l \in EventList : vTaskRemoveFromUnorderedEventList(t, u, l)
        PROVE  TopInv'
    <3>1. /\ UNCHANGED <<pxCurrentTCB, uxPriority, xSwitchRequired>>
          /\ pc[t] = "app" /\ MakeReady(u)
      BY <2>7 DEF vTaskResume, xTaskCreate, xTaskAbortDelay, vTaskRemoveFromUnorderedEventList,
                  Calls, AtCall, priorityVars, loopVars
    <3>2. ~AboutToYield
      BY <2>0, <3>1 DEF AboutToYield
    <3>3. Preempts(u) => Due'
      <4>1. CASE xTaskCreate(t, u)
        <5>1. Preempts(u) => pc' = [pc EXCEPT ![t] = "yield"]
          BY <1>0, <2>0, <4>1 DEF xTaskCreate, Preempts
        <5>2. Preempts(u) => AboutToYield'
          BY <1>0, <2>0, <5>1 DEF AboutToYield
        <5>. QED  BY <5>2 DEF Due
      <4>2. CASE vTaskResume(t, u)
        <5>1. uxPriority[u] >= uxPriority[t] => PendSV'
          BY <4>2, Zenon DEF vTaskResume
        <5>2. Preempts(u) => uxPriority[u] >= uxPriority[t]
          BY <1>0, <1>i, <2>0 DEF Preempts
        <5>. QED  BY <5>1, <5>2 DEF Due
      <4>3. CASE xTaskAbortDelay(t, u) \/ \E l \in EventList : vTaskRemoveFromUnorderedEventList(t, u, l)
        <5>1. Preempts(u) => xYieldPending'
          BY <4>3, Zenon DEF xTaskAbortDelay, vTaskRemoveFromUnorderedEventList
        <5>. QED  BY <5>1 DEF Due
      <4>. QED  BY <2>7, <4>1, <4>2, <4>3
    <3>4. xYieldPending => xYieldPending'
      BY <2>7, Zenon DEF vTaskResume, xTaskCreate, xTaskAbortDelay,
                         vTaskRemoveFromUnorderedEventList, yieldVars
    <3>5. Due => Due'
      BY <2>0, <3>2, <3>4, Zenon DEF Due
    <3>. QED  BY <1>b, <2>s, <3>1, <3>3, <3>5
  <2>8. ASSUME NEW u \in Task, xTaskNotify(t, u) PROVE TopInv'
    <3>1. /\ UNCHANGED <<pxCurrentTCB, uxPriority, xSwitchRequired, xYieldPending>>
          /\ MakeReady(u) \/ UNCHANGED xStateList
      BY <2>8 DEF xTaskNotify, Calls, AtCall, priorityVars, loopVars, stateVars
    <3>2. ~AboutToYield
      BY <2>0, <2>8 DEF AboutToYield, xTaskNotify, Calls, AtCall
    <3>3. Due => Due'
      BY <2>0, <3>1, <3>2, Zenon DEF Due
    <3>4. MakeReady(u) /\ Preempts(u) => Due'
      <4>1. CASE Waits(u)
        BY <2>8, <4>1, Zenon DEF xTaskNotify, Due
      <4>2. CASE ~Waits(u)
        <5>1. UNCHANGED xStateList
          BY <2>8, <4>2 DEF xTaskNotify, stateVars
        <5>2. MakeReady(u) => Ready(u)
          BY <1>0, <5>1 DEF MakeReady, MoveTo, Ready
        <5>3. MakeReady(u) /\ Preempts(u) => ~NoneAbove
          BY <1>0, <1>i, <5>2 DEF NoneAbove, Preempts
        <5>. QED  BY <3>3, <5>3, Zenon DEF TopInv
      <4>. QED  BY <4>1, <4>2
    <3>. QED  BY <1>a, <1>b, <2>s, <3>1, <3>3, <3>4 DEF Ready
  <2>9. ASSUME NEW u \in Task, NEW p \in Priority, vTaskPrioritySet(t, u, p) PROVE TopInv'
    <3>1. /\ uxPriority' = IF uxBasePriority[u] = uxPriority[u] THEN [uxPriority EXCEPT ![u] = p]
                                                                ELSE uxPriority
          /\ UNCHANGED <<xStateList, xYieldPending, xSwitchRequired, pxCurrentTCB>>
          /\ uxBasePriority[u] # p /\ pc[t] = "app"
      BY <2>9 DEF vTaskPrioritySet, stateVars, loopVars, Calls, AtCall
    <3>2. ~AboutToYield
      BY <2>0, <3>1 DEF AboutToYield
    <3>3. Due => Due'
      BY <2>0, <3>1, <3>2, Zenon DEF Due
    <3>4. CASE (p > uxBasePriority[u] /\ u # t /\ p >= uxPriority[t]) \/ (p <= uxBasePriority[u] /\ u = t)
      <4>1. PendSV'
        <5>1. (p > uxBasePriority[u]) <=> ~(p <= uxBasePriority[u])
          BY <1>0, <1>i
        <5>. QED  BY <2>9, <3>4, <5>1, Zenon DEF vTaskPrioritySet
      <4>. QED  BY <1>c, <2>s, <4>1 DEF Due
    <3>5. CASE ~((p > uxBasePriority[u] /\ u # t /\ p >= uxPriority[t]) \/ (p <= uxBasePriority[u] /\ u = t))
      <4>1. NoneAbove => NoneAbove'
        <5>1. CASE u = t
          BY <1>0, <1>i, <2>0, <3>1, <3>5, <5>1 DEF NoneAbove, Ready
        <5>2. CASE u # t
          <6>1. uxPriority'[t] = uxPriority[t]
            BY <1>0, <2>0, <3>1, <5>2
          <6>2. uxPriority'[u] <= uxPriority[u] \/ uxPriority'[u] <= uxPriority[t]
            BY <1>0, <1>i, <2>0, <3>1, <3>5, <5>2
          <6>3. \A v \in Task : v # u => uxPriority'[v] = uxPriority[v]
            BY <1>0, <3>1
          <6>4. uxPriority'[u] \in Int
            BY <1>0, <1>i, <3>1
          <6>. QED  BY <1>0, <1>i, <2>0, <3>1, <6>1, <6>2, <6>3, <6>4 DEF NoneAbove, Ready
        <5>. QED  BY <5>1, <5>2
      <4>. QED  BY <2>s, <3>3, <4>1, Zenon DEF TopInv
    <3>. QED  BY <3>4, <3>5
  <2>. QED  BY <1>1, <2>1, <2>2, <2>3, <2>4, <2>5, <2>6, <2>7, <2>8, <2>9 DEF TaskStep
<1>2. AdvanceTick => /\ \A t \in Task : xStateList'[t] = "ready" => Ready(t)
                     /\ xSwitchRequired' = FALSE
  BY <1>0 DEF AdvanceTick, Switched, Ready
<1>3. CASE SysTickHandler
  <2>1. /\ UNCHANGED <<pxCurrentTCB, uxPriority, pc, xYieldPending, PendSV>>
        /\ kernel = "none" /\ (AdvanceTick \/ UNCHANGED <<xStateList, xSwitchRequired>>)
    BY <1>3 DEF SysTickHandler, Unmasked, yieldVars, priorityVars, stateVars
  <2>2. AboutToYield => AboutToYield'
    BY <2>1 DEF AboutToYield
  <2>3. ~xSwitchRequired /\ ~xSwitchRequired'
    BY <1>2, <1>s, <2>1
  <2>4. Due => Due'
    BY <2>1, <2>2, <2>3, Zenon DEF Due
  <2>. QED  BY <1>a, <1>2, <2>1, <2>3, <2>4 DEF Ready
<1>4. CASE vTaskSwitchContext
  <2>1. /\ kernel = "none" /\ UNCHANGED <<xStateList, uxPriority, xSwitchRequired, pc>>
    BY <1>4 DEF vTaskSwitchContext, Unmasked, priorityVars, stateVars, loopVars
  <2>2. ~xSwitchRequired /\ ~xSwitchRequired'
    BY <1>s, <2>1
  <2>3. CASE xYieldPending'
    BY <1>c, <2>2, <2>3 DEF Due
  <2>4. ASSUME NEW p \in Priority, TopReady(p), NEW i,
               i = NextIndex(pxReadyTasksLists[p]),
               pxReadyTasksLists' = [pxReadyTasksLists EXCEPT ![p].pxIndex = i],
               uxTopReadyPriority' = p,
               pxCurrentTCB' = pxReadyTasksLists[p].items[i]
        PROVE  TopInv'
    <3>1. /\ uxPriority[pxCurrentTCB'] = p
          /\ \A t \in Task : Ready(t) /\ uxPriority[t] \in Priority => uxPriority[t] <= p
      BY <1>0, <2>1, <2>4, ReadySelected
    <3>2. NoneAbove'
      BY <1>0, <2>1, <3>1 DEF NoneAbove, Ready
    <3>. QED  BY <2>2, <3>2 DEF TopInv
  <2>. QED  BY <1>4, <2>3, <2>4 DEF vTaskSwitchContext
\* An interrupt wakes u, at once or when the scheduler is resumed.
<1>5. ASSUME NEW u \in Task,
             \/ \E l \in EventList : xTaskRemoveFromEventList(l) /\ u = Head(xEventLists[l])
             \/ xTaskResumeFromISR(u) \/ xTaskNotifyFromISR(u)
      PROVE  TopInv'
  <2>1. /\ UNCHANGED <<pxCurrentTCB, uxPriority, pc, xSwitchRequired>> /\ kernel = "none"
        /\ UNCHANGED xStateList \/ MakeReady(u)
    BY <1>5 DEF xTaskRemoveFromEventList, xTaskResumeFromISR, xTaskNotifyFromISR, Unmasked,
                priorityVars, loopVars, stateVars
  <2>2. /\ PendSV => PendSV'
        /\ xYieldPending => xYieldPending'
    BY <1>5, Zenon DEF xTaskRemoveFromEventList, xTaskResumeFromISR, xTaskNotifyFromISR, yieldVars
  <2>3. AboutToYield => AboutToYield'
    BY <2>1 DEF AboutToYield
  <2>4. Due => Due'
    BY <2>1, <2>2, <2>3, Zenon DEF Due
  <2>5. ~xSwitchRequired /\ ~xSwitchRequired'
    BY <1>s, <2>1
  <2>6. UNCHANGED xStateList \/ (MakeReady(u) /\ (Preempts(u) => xYieldPending'))
    <3>1. CASE \E l \in EventList : xTaskRemoveFromEventList(l) /\ u = Head(xEventLists[l])
      <4>1. Preempts(u) => xYieldPending'
        BY <3>1, Zenon DEF xTaskRemoveFromEventList
      <4>. QED  BY <2>1, <4>1
    <3>2. CASE xTaskResumeFromISR(u)
      <4>1. /\ uxSchedulerSuspended = 0 \/ UNCHANGED xStateList
            /\ uxSchedulerSuspended = 0 /\ uxPriority[u] >= uxPriority[pxCurrentTCB] => xYieldPending'
        <5>1. uxSchedulerSuspended = 0 \/ UNCHANGED xStateList
          BY <3>2 DEF xTaskResumeFromISR, stateVars
        <5>2. uxSchedulerSuspended = 0 /\ uxPriority[u] >= uxPriority[pxCurrentTCB] => xYieldPending'
          BY <3>2, Zenon DEF xTaskResumeFromISR
        <5>. QED  BY <5>1, <5>2
      <4>2. Preempts(u) => uxPriority[u] >= uxPriority[pxCurrentTCB]
        BY <1>0, <1>i, <2>1 DEF Preempts
      <4>. QED  BY <2>1, <4>1, <4>2
    <3>3. CASE xTaskNotifyFromISR(u)
      <4>1. CASE Waits(u)
        <5>1. Preempts(u) => xYieldPending'
          BY <3>3, <4>1, Zenon DEF xTaskNotifyFromISR
        <5>. QED  BY <2>1, <5>1
      <4>2. CASE ~Waits(u)
        BY <3>3, <4>2 DEF xTaskNotifyFromISR, stateVars
      <4>. QED  BY <4>1, <4>2
    <3>. QED  BY <1>5, <3>1, <3>2, <3>3
  <2>7. xYieldPending' => Due'
    BY Zenon DEF Due
  <2>. QED  BY <1>a, <1>b, <2>1, <2>4, <2>5, <2>6, <2>7 DEF Ready
<1>6. ASSUME NEW l \in EventList, xTaskRemoveFromEventList(l) PROVE TopInv'
  <2>1. Head(xEventLists[l]) \in Task
    BY <1>0, <1>6, WakeType DEF xTaskRemoveFromEventList
  <2>. QED  BY <1>5, <1>6, <2>1
<1>7. CASE MovePendingReady
  <2>. DEFINE u == Head(xPendingReadyList)
  <2>1. /\ UNCHANGED <<pxCurrentTCB, uxPriority, pc, xSwitchRequired, PendSV>>
        /\ kernel \in {"move", "moved"} /\ MakeReady(u) /\ u \in Task
    BY <1>0, <1>7, HeadTailProperties DEF MovePendingReady, priorityVars, EventType
  <2>2. /\ xYieldPending => xYieldPending'
        /\ uxPriority[u] >= uxPriority[pxCurrentTCB] => xYieldPending'
    BY <1>7, Zenon DEF MovePendingReady
  <2>3. AboutToYield => AboutToYield'
    BY <2>1 DEF AboutToYield
  <2>. HIDE DEF u
  <2>4. Due => Due'
    BY <2>1, <2>2, <2>3, Zenon DEF Due
  <2>5. Preempts(u) => uxPriority[u] >= uxPriority[pxCurrentTCB]
    BY <1>0, <1>i, <2>1 DEF Preempts
  <2>6. Preempts(u) => Due'
    BY <2>2, <2>5, Zenon DEF Due
  <2>7. ~xSwitchRequired'
    BY <1>s, <2>1
  <2>. QED  BY <1>b, <2>1, <2>4, <2>6, <2>7
<1>8. ASSUME NEW t \in Task, UnblockDueTask(t) PROVE TopInv'
  <2>1. /\ UNCHANGED <<pxCurrentTCB, uxPriority, pc, PendSV, xYieldPending, kernel>>
        /\ kernel = "unblock" /\ MakeReady(t)
    BY <1>8 DEF UnblockDueTask, priorityVars, yieldVars
  <2>2. /\ xSwitchRequired => xSwitchRequired'
        /\ Preempts(t) => xSwitchRequired'
    BY <1>8, Zenon DEF UnblockDueTask
  <2>3. AboutToYield => AboutToYield'
    BY <2>1 DEF AboutToYield
  <2>4. (Due => Due') /\ (Preempts(t) => Due')
    BY <2>1, <2>2, <2>3, Zenon DEF Due
  <2>. QED  BY <1>b, <2>1, <2>4
<1>9. CASE PendingReadyEmpty \/ UnblockDone \/ ReplayPendedTick
  <2>1. /\ UNCHANGED <<pxCurrentTCB, uxPriority, pc, PendSV, xYieldPending>>
        /\ (AdvanceTick /\ kernel = "ticks") \/ UNCHANGED <<xSwitchRequired, xStateList>>
        /\ kernel \in {"move", "moved"} \/ kernel' = "slice" \/ kernel = "ticks"
    BY <1>9 DEF PendingReadyEmpty, UnblockDone, ReplayPendedTick, priorityVars, yieldVars, stateVars
  <2>2. xSwitchRequired => xSwitchRequired'
    BY <1>s, <2>1
  <2>3. xSwitchRequired' => kernel' \in {"unblock", "slice"}
    BY <1>s, <1>2, <2>1
  <2>4. AboutToYield => AboutToYield'
    BY <2>1 DEF AboutToYield
  <2>5. Due => Due'
    BY <2>1, <2>2, <2>4, Zenon DEF Due
  <2>. QED  BY <1>a, <1>2, <2>1, <2>3, <2>5 DEF Ready
<1>10. CASE ResumeAllDone
  <2>1. /\ UNCHANGED <<pxCurrentTCB, uxPriority, xStateList, xYieldPending, xSwitchRequired>>
        /\ kernel = "ticks" /\ inResumeAll
        /\ PendSV' = xYieldPending
        /\ pc' = [pc EXCEPT ![pxCurrentTCB] =
                    IF pc[pxCurrentTCB] = "placed" /\ ~xYieldPending THEN "yield" ELSE "app"]
    BY <1>10, TypeFacts DEF ResumeAllDone, priorityVars, stateVars
  <2>2. ~PendSV /\ pc[pxCurrentTCB] \in {"app", "placed", "resume"}
    BY <2>1 DEF RunnerInv
  <2>3. ~xYieldPending /\ AboutToYield => AboutToYield'
    BY <1>0, <2>1, <2>2 DEF AboutToYield
  <2>4. ~xSwitchRequired /\ ~xSwitchRequired'
    BY <1>s, <2>1
  <2>5. Due => Due'
    BY <2>1, <2>2, <2>3, <2>4, Zenon DEF Due
  <2>. QED  BY <1>a, <2>1, <2>4, <2>5 DEF Ready
<1>11. CASE TimeSlice
  <2>1. UNCHANGED <<pxCurrentTCB, uxPriority, xStateList, pc>> /\ xSwitchRequired' = FALSE
    BY <1>11 DEF TimeSlice, priorityVars, stateVars
  <2>2. /\ PendSV => PendSV'
        /\ xYieldPending => xYieldPending'
        /\ xSwitchRequired => PendSV' \/ xYieldPending'
    BY <1>11, Zenon DEF TimeSlice
  <2>3. AboutToYield => AboutToYield'
    BY <2>1 DEF AboutToYield
  <2>4. Due => Due'
    BY <2>1, <2>2, <2>3, Zenon DEF Due
  <2>. QED  BY <1>a, <2>1, <2>4 DEF Ready
<1>12. CASE UNCHANGED tasksVars
  <2>1. UNCHANGED <<pxCurrentTCB, uxPriority, xStateList, xSwitchRequired, kernel, xYieldPending, PendSV, pc>>
    BY <1>12 DEF tasksVars, priorityVars, stateVars, loopVars, yieldVars
  <2>2. AboutToYield => AboutToYield'
    BY <2>1 DEF AboutToYield
  <2>3. Due => Due'
    BY <2>1, <2>2, Zenon DEF Due
  <2>. QED  BY <1>a, <2>1, <2>3 DEF Ready, TopInv
<1>. QED  BY <1>1, <1>3, <1>4, <1>5, <1>6, <1>7, <1>8, <1>9, <1>10, <1>11, <1>12
          DEF Next, KernelStep, Interrupt

\* It holds at first.
LEMMA TopInit == Init => TopInv
<1>. SUFFICES ASSUME Init PROVE TopInv
  OBVIOUS
<1>1. NoneAbove
  BY FirstTask DEF NoneAbove
<1>2. xSwitchRequired = FALSE
  BY DEF Init
<1>. QED  BY <1>1, <1>2 DEF TopInv

\* The running task is a ready task of the highest priority unless a switch is
\* due: what vTaskSwitchContext selects, and what every call and interrupt that
\* readies a task, moves a priority or blocks the running task does after it.
THEOREM HighestRuns == Spec => []HighestPriorityRuns
<1>. DEFINE IInv == TypeInv /\ ReadyLists /\ RunnerInv /\ TopInv
<1>1. Init => IInv
  BY TypeInit, ReadyInit, RunnerInit, TopInit
<1>2. IInv /\ [Next]_tasksVars => IInv'
  BY TypeStep, ReadyStep, RunnerStep, TopStep
<1>3. IInv => HighestPriorityRuns
  <2>. SUFFICES ASSUME IInv, Unmasked, uxSchedulerSuspended = 0, ~PendSV, ~xYieldPending,
                       pc[pxCurrentTCB] \notin {"resetSelf", "yield"}
                PROVE  Ready(pxCurrentTCB) /\ NoneAbove
    BY DEF HighestPriorityRuns, Ready, NoneAbove
  <2>1. kernel = "none" /\ ~inResumeAll /\ pxCurrentTCB \in Task
    BY TypeFacts DEF Unmasked
  <2>2. pc[pxCurrentTCB] # "placed"
    BY <2>1 DEF RunnerInv
  <2>3. ~Due
    BY <2>1, <2>2 DEF Due, AboutToYield, TopInv
  <2>. QED  BY <2>1, <2>2, <2>3 DEF TopInv, RunnerInv, Ready, Leaving
<1>. QED  BY <1>1, <1>2, <1>3, PTL DEF Spec

-----------------------------------------------------------------------------
(* What the suspension of the scheduler holds back *)

\* No interrupt changes the tick count, a list of state items or the running
\* task while the scheduler is suspended: SysTick pends the tick, PendSV only
\* notes the switch, and what an interrupt wakes goes to xPendingReadyList.
THEOREM SuspensionFreezes == Spec => SuspendedListsFrozen
<1>1. ASSUME Interrupt, uxSchedulerSuspended > 0
      PROVE  UNCHANGED <<pxCurrentTCB, stateVars, readyVars, tickVars>>
  <2>0. uxSchedulerSuspended # 0
    BY <1>1
  <2>1. CASE SysTickHandler
    BY <2>0, <2>1 DEF SysTickHandler, CountsTick
  <2>2. CASE vTaskSwitchContext
    BY <2>0, <2>2 DEF vTaskSwitchContext
  <2>3. CASE \E l \in EventList : xTaskRemoveFromEventList(l)
    BY <2>0, <2>3 DEF xTaskRemoveFromEventList
  <2>4. CASE \E u \in Task : xTaskResumeFromISR(u) \/ xTaskNotifyFromISR(u)
    BY <2>0, <2>4 DEF xTaskResumeFromISR, xTaskNotifyFromISR
  <2>. QED  BY <1>1, <2>1, <2>2, <2>3, <2>4 DEF Interrupt
<1>. QED  BY <1>1, PTL DEF Spec, SuspendedListsFrozen
-----------------------------------------------------------------------------
(***************************************************************************)
(* The lists of waiters.  A task is on one list at most and as long as it  *)
(* is blocked there; what it waits for by a notification it waits for on   *)
(* no list.  The invariant is a conjunction over the tasks, and a step     *)
(* changes the place of one of them.                                       *)
(***************************************************************************)
In(l, t) == Contains(xEventLists[l], t)
Asleep(t) == OnDelayedList(t) \/ xStateList[t] = "suspended"
Held(t) == Asleep(t) \/ (Ready(t) /\ pc[t] = "notify")

TaskWaits(t) ==
  /\ \A l \in EventList : In(l, t) => Asleep(t) /\ ~Pending(t)
  /\ \A l, m \in EventList : In(l, t) /\ In(m, t) => l = m
  /\ Pending(t) => Held(t)
  /\ ucNotifyState[t] = "waiting" =>
       /\ t \in Notifiable /\ pc[t] = "notify" /\ Held(t)
       /\ ~Pending(t) /\ \A l \in EventList : ~In(l, t)
  /\ \A l \in Unordered : In(l, t) => xEventPriority[t] = InUse

OnceEach == /\ \A l \in EventList : IsInjective(xEventLists[l])
            /\ IsInjective(xPendingReadyList)

WaitInv == OnceEach /\ \A t \in Task : TaskWaits(t)

\* On no list, and waiting for no notification.
Free(t) == /\ ~Pending(t) /\ \A l \in EventList : ~In(l, t)
           /\ ucNotifyState[t] # "waiting"

\* A step that does not touch the wait of t.
Kept(t) ==
  /\ \A l \in EventList : In(l, t)' <=> In(l, t)
  /\ Pending(t)' <=> Pending(t)
  /\ ucNotifyState'[t] = ucNotifyState[t]
  /\ xEventPriority[t] = InUse => xEventPriority'[t] = InUse
  /\ Asleep(t) => Asleep(t)'
  /\ Held(t) => Held(t)'
  /\ pc[t] = "notify" => pc'[t] = "notify"

\* A step that does not touch the wait of a task keeps what is said of it.
LEMMA KeptWaits == ASSUME NEW t, TaskWaits(t), Kept(t) PROVE TaskWaits(t)'
BY TasksAssumption DEF TaskWaits, Kept

\* Of a task that waits for nothing there is nothing to say.
LEMMA FreeWaits == ASSUME NEW t, Free(t)' PROVE TaskWaits(t)'
BY TasksAssumption DEF TaskWaits, Free

\* A ready task between two calls is free.
LEMMA CallerFree ==
  ASSUME NEW t, TaskWaits(t), ~Held(t) PROVE Free(t)
BY DEF TaskWaits, Free, Held

\* u leaves the lists: nothing changes there for the others.
LEMMA LeaveSets ==
  ASSUME EventType, OnceEach, NEW u, LeaveEventLists(u)
  PROVE  /\ OnceEach'
         /\ \A t : /\ \A l \in EventList : In(l, t)' <=> In(l, t) /\ t # u
                   /\ Pending(t)' <=> Pending(t) /\ t # u
<1>1. ASSUME NEW s \in Seq(Task), IsInjective(s)
      PROVE  /\ IsInjective(Without(s, u))
             /\ \A t : Contains(Without(s, u), t) <=> Contains(s, t) /\ t # u
  BY <1>1, WithoutSet, Members
<1>2. /\ \A l \in EventList : xEventLists[l] \in Seq(Task) /\ IsInjective(xEventLists[l])
      /\ xPendingReadyList \in Seq(Task) /\ IsInjective(xPendingReadyList)
  BY DEF EventType, OnceEach
<1>3. /\ \A l \in EventList : xEventLists'[l] = Without(xEventLists[l], u)
      /\ xPendingReadyList' = Without(xPendingReadyList, u)
  BY DEF LeaveEventLists
<1>. QED  BY <1>1, <1>2, <1>3 DEF OnceEach, In, Pending

\* u is put behind the others on xPendingReadyList.
LEMMA PendSets ==
  ASSUME EventType, IsInjective(xPendingReadyList), NEW u \in Task, ~Pending(u),
         xPendingReadyList' = Append(xPendingReadyList, u)
  PROVE  /\ IsInjective(xPendingReadyList')
         /\ \A t : Pending(t)' <=> Pending(t) \/ t = u
<1>1. xPendingReadyList \in Seq(Task)
  BY DEF EventType
<1>2. u \notin ToSet(xPendingReadyList)
  BY <1>1, Members DEF Pending
<1>. DEFINE s == Append(xPendingReadyList, u)
<1>3. s \in Seq(Task) /\ ToSet(s) = ToSet(xPendingReadyList) \cup {u} /\ IsInjective(s)
  BY <1>1, <1>2, AppendSet
<1>4. \A t : Pending(t) <=> t \in ToSet(xPendingReadyList)
  BY <1>1, Members DEF Pending
<1>5. xPendingReadyList' = s
  OBVIOUS
<1>. HIDE DEF s
<1>6. \A t : Pending(t)' <=> t \in ToSet(s)
  BY <1>3, <1>5, Members DEF Pending
<1>. QED  BY <1>3, <1>4, <1>5, <1>6

\* A step that concerns the wait of u alone.
LEMMA OneWaits ==
  ASSUME WaitInv, OnceEach', NEW u, u \in Task => TaskWaits(u)', \A t \in Task : t # u => Kept(t)
  PROVE  WaitInv'
BY KeptWaits DEF WaitInv

\* Every step keeps it, if no task that waits for notifications is resumed.
LEMMA WaitStep ==
  ASSUME Resumable \cap Notifiable = {}, TypeInv, ReadyLists, RunnerInv, WaitInv, [Next]_tasksVars
  PROVE  WaitInv'
<1>0. /\ pxCurrentTCB \in Task /\ xStateList \in [Task -> StateLists]
      /\ pc \in [Task -> Pcs] /\ uxSchedulerSuspended \in Nat
      /\ ucNotifyState \in [Task -> NotifyStates]
      /\ EventType /\ OnceEach
      /\ xEventPriority \in [Task -> Priority \cup {InUse}]
  BY TypeFacts DEF WaitInv, ListInv, PriorityType
<1>e. UNCHANGED eventVars => /\ OnceEach'
                             /\ \A t : /\ \A l \in EventList : In(l, t)' <=> In(l, t)
                                       /\ Pending(t)' <=> Pending(t)
  BY <1>0 DEF OnceEach, In, Pending, eventVars
\* Nothing happens to any wait.
<1>a. ASSUME UNCHANGED eventVars, UNCHANGED ucNotifyState, UNCHANGED xEventPriority,
             \A t \in Task : /\ Asleep(t) => Asleep(t)'
                             /\ Held(t) => Held(t)'
                             /\ pc[t] = "notify" => pc'[t] = "notify"
      PROVE  WaitInv'
  BY <1>a, <1>e, KeptWaits DEF WaitInv, Kept
\* u moves to the list s.
<1>m. ASSUME NEW u, NEW s, MoveTo(u, s), NEW t \in Task, t # u,
             pc[t] = "notify" => pc'[t] = "notify"
      PROVE  /\ Asleep(t) => Asleep(t)'
             /\ Held(t) => Held(t)'
  BY <1>0, <1>m DEF MoveTo, Asleep, Held, OnDelayedList, Ready
<1>n. ASSUME UNCHANGED xStateList, NEW t \in Task, pc[t] = "notify" => pc'[t] = "notify"
      PROVE  /\ Asleep(t) => Asleep(t)'
             /\ Held(t) => Held(t)'
  BY <1>n DEF Asleep, Held, OnDelayedList, Ready
<1>r. ASSUME NEW u \in Task, MakeReady(u) PROVE Ready(u)'
  BY <1>0, <1>r DEF MakeReady, MoveTo, Ready
\* u becomes ready and leaves its lists.
<1>b. ASSUME NEW u \in Task, MakeReady(u), LeaveEventLists(u), UNCHANGED ucNotifyState,
             UNCHANGED xEventPriority,
             \A t \in Task : pc[t] = "notify" => pc'[t] = "notify"
      PROVE  WaitInv'
  <2>1. OnceEach' /\ \A t : /\ \A l \in EventList : In(l, t)' <=> In(l, t) /\ t # u
                            /\ Pending(t)' <=> Pending(t) /\ t # u
    BY <1>0, <1>b, LeaveSets
  <2>2. \A t \in Task : t # u => Kept(t)
    BY <1>b, <1>m, <2>1, SMTT(30) DEF Kept, MakeReady
  <2>3. TaskWaits(u)'
    BY <1>0, <1>b, <1>r, <2>1, TasksAssumption DEF TaskWaits, WaitInv, Held
  <2>. QED  BY <2>1, <2>2, <2>3, OneWaits
\* u leaves its lists for good or becomes ready without being on any.
<1>c. ASSUME NEW u \in Task, NEW s, MoveTo(u, s), LeaveEventLists(u) \/ (UNCHANGED eventVars /\ Free(u)),
             ucNotifyState'[u] # "waiting",
             \A t \in Task : t # u => /\ ucNotifyState'[t] = ucNotifyState[t]
                                      /\ xEventPriority'[t] = xEventPriority[t]
                                      /\ pc[t] = "notify" => pc'[t] = "notify"
      PROVE  WaitInv'
  <2>1. /\ OnceEach'
        /\ \A t : t # u => /\ \A l \in EventList : In(l, t)' <=> In(l, t)
                           /\ Pending(t)' <=> Pending(t)
        /\ ~Pending(u)' /\ \A l \in EventList : ~In(l, u)'
    BY <1>0, <1>c, <1>e, LeaveSets DEF Free
  <2>2. \A t \in Task : t # u => Kept(t)
    <3>. SUFFICES ASSUME NEW t \in Task, t # u PROVE Kept(t)
      OBVIOUS
    <3>1. pc[t] = "notify" => pc'[t] = "notify"
      BY <1>c
    <3>2. (Asleep(t) => Asleep(t)') /\ (Held(t) => Held(t)')
      BY <1>c, <1>m, <3>1
    <3>3. /\ ucNotifyState'[t] = ucNotifyState[t]
          /\ xEventPriority[t] = InUse => xEventPriority'[t] = InUse
      BY <1>c
    <3>. QED  BY <2>1, <3>1, <3>2, <3>3 DEF Kept
  <2>3. TaskWaits(u)'
    BY <1>c, <2>1, FreeWaits, TasksAssumption DEF TaskWaits
  <2>. QED  BY <2>1, <2>2, <2>3, OneWaits
<1>w. ASSUME NEW t \in Task PROVE TaskWaits(t)
  BY <1>w DEF WaitInv
<1>1. ASSUME NEW t \in Task, TaskStep(t) PROVE WaitInv'
  <2>0. t = pxCurrentTCB /\ Running(t) /\ UNCHANGED pxCurrentTCB
    BY <1>1, RunningTask DEF Running, Unmasked
  <2>f. ASSUME pc[t] = "app" PROVE Ready(t) /\ Free(t) /\ ~Asleep(t)
    BY <1>0, <1>w, <2>0, <2>f, CallerReady, CallerFree
       DEF Leaving, Held, Asleep, Ready, OnDelayedList
  \* The running task falls asleep.
  <2>s. ASSUME NEW n, NEW indefinitely, AddCurrentTaskToDelayedList(n, indefinitely)
        PROVE  /\ Asleep(t)'
               /\ \A v \in Task : v # t => xStateList'[v] = xStateList[v]
    BY <1>0, <2>0, <2>s DEF AddCurrentTaskToDelayedList, MoveTo, Asleep, OnDelayedList
  <2>k. ASSUME NEW v \in Task, xStateList'[v] = xStateList[v], pc'[v] = pc[v]
        PROVE  /\ Asleep(v) => Asleep(v)'
               /\ Held(v) => Held(v)'
    BY <2>k DEF Asleep, Held, OnDelayedList, Ready
  <2>1. ASSUME NEW n \in BlockTimes, vTaskDelay(t, n) PROVE WaitInv'
    <3>1. /\ pc' = [pc EXCEPT ![t] = "placed"] /\ pc[t] = "app"
          /\ UNCHANGED <<eventVars, ucNotifyState, xEventPriority>>
          /\ AddCurrentTaskToDelayedList(n, FALSE)
      BY <2>1 DEF vTaskDelay, Calls, AtCall, priorityVars
    <3>2. \A v \in Task : v # t => Kept(v)
      BY <1>0, <1>e, <2>k, <2>s, <3>1 DEF Kept
    <3>3. Free(t)'
      BY <1>e, <2>f, <3>1 DEF Free
    <3>. QED  BY <1>e, <3>1, <3>2, <3>3, FreeWaits, OneWaits DEF WaitInv
  <2>2. ASSUME NEW l \in EventList, NEW n \in BlockTimes \cup {portMAX_DELAY},
               vTaskPlaceOnEventList(t, l, n) \/ vTaskPlaceOnUnorderedEventList(t, l, n)
        PROVE  WaitInv'
    <3>1. /\ pc' = [pc EXCEPT ![t] = "placed"] /\ pc[t] = "app"
          /\ UNCHANGED <<xPendingReadyList, ucNotifyState>>
          /\ xEventPriority' = IF l \in Unordered THEN [xEventPriority EXCEPT ![t] = InUse]
                                                  ELSE xEventPriority
          /\ AddCurrentTaskToDelayedList(n, TRUE)
      BY <2>2 DEF vTaskPlaceOnEventList, vTaskPlaceOnUnorderedEventList, Calls, AtCall, priorityVars
    <3>2. PICK s : /\ xEventLists' = [xEventLists EXCEPT ![l] = s]
                   /\ \/ s = Append(xEventLists[l], t)
                      \/ s = vListInsert(xEventLists[l], t,
                                         [u \in Task |-> MaxPriorities - xEventPriority[u]])
      BY <2>2 DEF vTaskPlaceOnEventList, vTaskPlaceOnUnorderedEventList
    <3>3. xEventLists[l] \in Seq(Task) /\ IsInjective(xEventLists[l]) /\ t \notin ToSet(xEventLists[l])
      BY <1>0, <2>f, <3>1, Members DEF EventType, OnceEach, Free, In
    <3>4. s \in Seq(Task) /\ IsInjective(s) /\ ToSet(s) = ToSet(xEventLists[l]) \cup {t}
      <4>1. PICK r \in Seq(Task) : /\ r = xEventLists[l] /\ IsInjective(r) /\ t \notin ToSet(r)
        BY <3>3
      <4>2. s = Append(r, t) => s \in Seq(Task) /\ IsInjective(s) /\ ToSet(s) = ToSet(r) \cup {t}
        BY <4>1, AppendSet
      <4>3. \A value : LET q == vListInsert(r, t, value)
                       IN  q \in Seq(Task) /\ IsInjective(q) /\ ToSet(q) = ToSet(r) \cup {t}
        BY <4>1, InsertSet
      <4>. QED  BY <3>2, <4>1, <4>2, <4>3
    <3>5. /\ OnceEach'
          /\ \A v \in Task, m \in EventList : In(m, v)' <=> In(m, v) \/ (m = l /\ v = t)
          /\ \A v : Pending(v)' <=> Pending(v)
      BY <1>0, <3>1, <3>2, <3>3, <3>4, Members DEF EventType, OnceEach, In, Pending
    <3>6. \A v \in Task : v # t => Kept(v)
      BY <1>0, <2>k, <2>s, <3>1, <3>5 DEF Kept
    <3>7. /\ Asleep(t)' /\ ~Pending(t)' /\ ucNotifyState'[t] # "waiting"
          /\ \A m \in EventList : In(m, t)' <=> m = l
          /\ l \in Unordered => xEventPriority'[t] = InUse
      BY <1>0, <2>f, <2>s, <3>1, <3>5 DEF Free
    <3>8. TaskWaits(t)'
      BY <3>7, TasksAssumption DEF TaskWaits
    <3>. QED  BY <3>5, <3>6, <3>8, OneWaits
  <2>3. ASSUME NEW n \in BlockTimes \cup {portMAX_DELAY}, xTaskNotifyWait(t, n) PROVE WaitInv'
    <3>1. /\ pc' = [pc EXCEPT ![t] = "notify"] /\ pc[t] = "app" /\ t \in Notifiable
          /\ UNCHANGED <<eventVars, xEventPriority>>
          /\ ucNotifyState' = [ucNotifyState EXCEPT ![t] = "waiting"]
          /\ AddCurrentTaskToDelayedList(n, TRUE)
      BY <2>3 DEF xTaskNotifyWait, Calls, AtCall, priorityVars
    <3>2. \A v \in Task : v # t => Kept(v)
      BY <1>0, <1>e, <2>k, <2>s, <3>1 DEF Kept
    <3>3. /\ Asleep(t)' /\ ~Pending(t)' /\ pc'[t] = "notify"
          /\ \A m \in EventList : ~In(m, t)'
      BY <1>0, <1>e, <2>f, <2>s, <3>1 DEF Free
    <3>4. TaskWaits(t)'
      BY <3>1, <3>3, TasksAssumption DEF TaskWaits, Held
    <3>. QED  BY <1>e, <3>1, <3>2, <3>4, OneWaits
  <2>4. ASSUME NEW s \in NotifyStates, NotifyDontWait(t, s) PROVE WaitInv'
    <3>1. /\ pc' = [pc EXCEPT ![t] = "notify"] /\ pc[t] = "app" /\ t \in Notifiable
          /\ UNCHANGED <<eventVars, xEventPriority, xStateList>>
          /\ ucNotifyState' = [ucNotifyState EXCEPT ![t] = s]
      BY <2>4 DEF NotifyDontWait, Calls, AtCall, priorityVars, stateVars
    <3>2. \A v \in Task : v # t => Kept(v)
      BY <1>0, <1>e, <2>k, <3>1 DEF Kept
    <3>3. /\ Ready(t)' /\ ~Pending(t)' /\ pc'[t] = "notify"
          /\ \A m \in EventList : ~In(m, t)'
      BY <1>0, <1>e, <2>f, <3>1 DEF Free, Ready
    <3>4. TaskWaits(t)'
      BY <3>1, <3>3, TasksAssumption DEF TaskWaits, Held
    <3>. QED  BY <1>e, <3>1, <3>2, <3>4, OneWaits
  <2>5. CASE NotifyWaitDone(t)
    <3>1. /\ pc' = [pc EXCEPT ![t] = "app"] /\ pc[t] = "notify"
          /\ UNCHANGED <<eventVars, xEventPriority, xStateList>>
          /\ ucNotifyState' = [ucNotifyState EXCEPT ![t] = "notWaiting"]
      BY <2>5 DEF NotifyWaitDone, priorityVars, stateVars
    <3>2. Ready(t)
      BY <2>0, <3>1, CallerReady DEF Leaving
    <3>3. uxSchedulerSuspended = 0
      BY <1>0, <2>0, <3>1 DEF RunnerInv
    <3>4. ~Pending(t)
      BY <2>0, <3>3 DEF TypeInv, DrainInv, Drained, Running, Unmasked, LoopInv, Pending, Contains
    <3>5. \A m \in EventList : ~In(m, t)
      BY <1>w, <3>2 DEF TaskWaits, Asleep, Ready, OnDelayedList
    <3>6. \A v \in Task : v # t => Kept(v)
      BY <1>0, <1>e, <2>k, <3>1 DEF Kept
    <3>7. Free(t)'
      BY <1>0, <1>e, <3>1, <3>4, <3>5 DEF Free
    <3>. QED  BY <1>e, <3>1, <3>6, <3>7, FreeWaits, OneWaits
  <2>6. CASE \/ vTaskSuspendAll(t) \/ xTaskResumeAll(t) \/ taskYIELD(t) \/ vTaskSuspendReset(t)
             \/ (\E n \in 1 .. MaxPendedTicks : xTaskCatchUpTicks(t, n))
    <3>1. /\ pc[t] # "notify" /\ UNCHANGED <<eventVars, ucNotifyState, xEventPriority, xStateList>>
          /\ pc' = pc \/ \E c \in Pcs : pc' = [pc EXCEPT ![t] = c]
      BY <2>6 DEF vTaskSuspendAll, xTaskResumeAll, taskYIELD, vTaskSuspendReset, xTaskCatchUpTicks,
                  priorityVars, flagVars, stateVars, Calls, AtCall, Pcs
    <3>2. \A v \in Task : pc[v] = "notify" => pc'[v] = "notify"
      BY <1>0, <3>1
    <3>. QED  BY <1>a, <1>n, <3>1, <3>2
  <2>7. ASSUME NEW u \in Task, vTaskSuspend(t, u) PROVE WaitInv'
    <3>1. /\ MoveTo(u, "suspended") /\ LeaveEventLists(u) /\ UNCHANGED xEventPriority
          /\ ucNotifyState' = [ucNotifyState EXCEPT ![u] = AfterSuspension(@)]
          /\ \E c \in Pcs : pc' = [pc EXCEPT ![t] = c]
          /\ pc[t] = "app"
      BY <2>7 DEF vTaskSuspend, Calls, AtCall, priorityVars, Pcs
    <3>2. ucNotifyState'[u] # "waiting" /\ \A v \in Task : v # u => ucNotifyState'[v] = ucNotifyState[v]
      BY <1>0, <3>1 DEF AfterSuspension
    <3>3. \A v \in Task : pc[v] = "notify" => pc'[v] = "notify"
      BY <1>0, <3>1
    <3>. QED  BY <1>c, <3>1, <3>2, <3>3
  <2>8. ASSUME NEW u \in Task, vTaskDelete(t, u) \/ prvIdleTask(t, u) PROVE WaitInv'
    <3>1. /\ pc[t] = "app"
          /\ \E s \in {"termination", "none"} : MoveTo(u, s)
          /\ LeaveEventLists(u) \/ (UNCHANGED eventVars /\ xStateList[u] = "termination")
          /\ \/ u = t /\ UNCHANGED <<ucNotifyState, xEventPriority>> /\ pc' = [pc EXCEPT ![t] = "yield"]
             \/ /\ ucNotifyState' = [ucNotifyState EXCEPT ![u] = "notWaiting"]
                /\ xEventPriority' = [xEventPriority EXCEPT ![u] = InitPriority[u]]
                /\ pc' = [pc EXCEPT ![u] = "app"]
      BY <2>8 DEF vTaskDelete, prvIdleTask, Calls, AtCall, FreeTCB, priorityVars, flagVars
    <3>2. xStateList[u] = "termination" => Free(u)
      BY <1>w, CallerFree DEF Held, Asleep, Ready, OnDelayedList
    <3>3. ucNotifyState'[u] # "waiting"
      BY <1>0, <2>f, <3>1 DEF Free
    <3>. QED  BY <1>0, <1>c, <3>1, <3>2, <3>3
  <2>9. ASSUME NEW u \in Task, vTaskResume(t, u) \/ xTaskCreate(t, u) PROVE WaitInv'
    <3>1. /\ pc[t] = "app" /\ MakeReady(u) /\ UNCHANGED <<eventVars, ucNotifyState, xEventPriority>>
          /\ UNCHANGED pc \/ \E c \in Pcs : pc' = [pc EXCEPT ![t] = c]
          /\ \/ u \in Resumable /\ ~Pending(u) /\ ~OnEventList(u)
             \/ xStateList[u] = "none"
      BY <2>9 DEF vTaskResume, xTaskCreate, Calls, AtCall, priorityVars, flagVars, Pcs,
                  prvTaskIsTaskSuspended
    <3>2. Free(u)
      <4>1. CASE u \in Resumable /\ ~Pending(u) /\ ~OnEventList(u)
        BY <1>w, <4>1 DEF Free, TaskWaits, OnEventList, In
      <4>2. CASE xStateList[u] = "none"
        BY <1>w, <4>2, CallerFree DEF Held, Asleep, Ready, OnDelayedList
      <4>. QED  BY <3>1, <4>1, <4>2
    <3>3. \A v \in Task : pc[v] = "notify" => pc'[v] = "notify"
      BY <1>0, <3>1
    <3>. QED  BY <1>c, <3>1, <3>2, <3>3 DEF MakeReady, Free
  <2>10. ASSUME NEW u \in Task,
                xTaskAbortDelay(t, u) \/ \E l \in EventList : vTaskRemoveFromUnorderedEventList(t, u, l)
         PROVE  WaitInv'
    <3>1. /\ pc[t] = "app" /\ MakeReady(u) /\ LeaveEventLists(u)
          /\ UNCHANGED <<ucNotifyState, xEventPriority>>
          /\ UNCHANGED pc \/ pc' = [pc EXCEPT ![t] = "resume"]
      BY <2>10 DEF xTaskAbortDelay, vTaskRemoveFromUnorderedEventList, Calls, AtCall, priorityVars,
                   flagVars
    <3>2. \A v \in Task : pc[v] = "notify" => pc'[v] = "notify"
      BY <1>0, <3>1
    <3>. QED  BY <1>b, <3>1, <3>2
  <2>11. ASSUME NEW u \in Task, NEW p \in Priority, vTaskPrioritySet(t, u, p) PROVE WaitInv'
    <3>1. /\ UNCHANGED <<eventVars, ucNotifyState, xStateList, pc>>
          /\ xEventPriority' = [xEventPriority EXCEPT ![u] = Renumbered(@, p)]
      BY <2>11 DEF vTaskPrioritySet, flagVars, stateVars
    <3>2. \A v \in Task : xEventPriority[v] = InUse => xEventPriority'[v] = InUse
      BY <1>0, <3>1 DEF Renumbered
    <3>3. \A v \in Task : Kept(v)
      BY <1>e, <1>n, <3>1, <3>2 DEF Kept
    <3>. QED  BY <1>e, <1>w, <3>1, <3>3, KeptWaits DEF WaitInv
  <2>12. CASE uxTaskResetEventItemValue(t)
    <3>1. /\ UNCHANGED <<eventVars, ucNotifyState, xStateList, pc>> /\ pc[t] = "app"
          /\ xEventPriority' = [xEventPriority EXCEPT ![t] = uxPriority[t]]
      BY <2>12 DEF uxTaskResetEventItemValue, flagVars, stateVars
    <3>2. \A v \in Task : v # t => Kept(v)
      BY <1>0, <1>e, <1>n, <3>1 DEF Kept
    <3>3. Free(t)'
      BY <1>e, <2>f, <3>1 DEF Free
    <3>. QED  BY <1>e, <3>1, <3>2, <3>3, FreeWaits, OneWaits
  <2>13. ASSUME NEW u \in Task, xTaskNotify(t, u) PROVE WaitInv'
    <3>1. /\ UNCHANGED <<eventVars, xEventPriority, pc>>
          /\ ucNotifyState' = [ucNotifyState EXCEPT ![u] = "received"]
          /\ IF ucNotifyState[u] = "waiting" THEN MakeReady(u) ELSE UNCHANGED xStateList
      BY <2>13 DEF xTaskNotify, Notified, Waits, priorityVars, stateVars
    <3>2. \A v \in Task : v # u => Kept(v)
      BY <1>0, <1>e, <1>m, <1>n, <3>1 DEF Kept, MakeReady
    <3>3. CASE ucNotifyState[u] = "waiting"
      <4>1. Free(u)'
        BY <1>0, <1>e, <1>w, <3>1, <3>3 DEF TaskWaits, Free
      <4>. QED  BY <1>e, <3>1, <3>2, <4>1, FreeWaits, OneWaits
    <3>4. CASE ucNotifyState[u] # "waiting"
      <4>1. TaskWaits(u)'
        BY <1>0, <1>e, <1>n, <1>w, <3>1, <3>4, TasksAssumption DEF TaskWaits
      <4>. QED  BY <1>e, <3>1, <3>2, <4>1, OneWaits
    <3>. QED  BY <3>3, <3>4
  <2>14. ASSUME NEW u \in Task, xTaskNotifyStateClear(t, u) PROVE WaitInv'
    <3>1. /\ UNCHANGED <<eventVars, xEventPriority, pc, xStateList>>
          /\ ucNotifyState' = [ucNotifyState EXCEPT ![u] = "notWaiting"]
      BY <2>14 DEF xTaskNotifyStateClear, priorityVars, stateVars
    <3>2. \A v \in Task : v # u => Kept(v)
      BY <1>0, <1>e, <1>n, <3>1 DEF Kept
    <3>3. TaskWaits(u)'
      BY <1>0, <1>e, <1>n, <1>w, <3>1, TasksAssumption DEF TaskWaits
    <3>. QED  BY <1>e, <3>1, <3>2, <3>3, OneWaits
  <2>. QED  BY <1>1, <2>1, <2>2, <2>3, <2>4, <2>5, <2>6, <2>7, <2>8, <2>9, <2>10, <2>11, <2>12,
               <2>13, <2>14 DEF TaskStep
\* Time moves on: a delayed task stays a delayed one.
<1>2. ASSUME AdvanceTick \/ UNCHANGED xStateList,
             UNCHANGED <<eventVars, ucNotifyState, xEventPriority, pc>>
      PROVE  WaitInv'
  <2>1. xStateList' \in {Switched, xStateList}
    BY <1>2 DEF AdvanceTick
  <2>2. \A t \in Task : /\ OnDelayedList(t) => xStateList'[t] \in {"delayed", "overflow"}
                        /\ ~OnDelayedList(t) => xStateList'[t] = xStateList[t]
    BY <1>0, <2>1 DEF Switched, OnDelayedList
  <2>3. \A t \in Task : (Asleep(t) => Asleep(t)') /\ (Held(t) => Held(t)')
    BY <1>2, <2>2 DEF Asleep, Held, Ready, OnDelayedList
  <2>. QED  BY <1>2, <1>a, <2>3
<1>3. CASE SysTickHandler \/ PendingReadyEmpty \/ UnblockDone \/ ReplayPendedTick \/ TimeSlice
  <2>1. UNCHANGED <<eventVars, ucNotifyState, xEventPriority, pc>> /\ (AdvanceTick \/ UNCHANGED xStateList)
    BY <1>3 DEF SysTickHandler, PendingReadyEmpty, UnblockDone, ReplayPendedTick, TimeSlice,
                priorityVars, flagVars, stateVars
  <2>. QED  BY <1>2, <2>1
<1>4. CASE vTaskSwitchContext \/ UNCHANGED tasksVars
  <2>1. UNCHANGED <<eventVars, ucNotifyState, xEventPriority, pc, xStateList>>
    BY <1>4 DEF vTaskSwitchContext, tasksVars, priorityVars, flagVars, stateVars
  <2>. QED  BY <1>2, <2>1
<1>5. CASE ResumeAllDone
  <2>1. /\ UNCHANGED <<eventVars, ucNotifyState, xEventPriority, xStateList>>
        /\ \E c \in Pcs : pc' = [pc EXCEPT ![pxCurrentTCB] = c]
        /\ kernel = "ticks"
    BY <1>5 DEF ResumeAllDone, priorityVars, flagVars, stateVars, Pcs
  <2>2. pc[pxCurrentTCB] # "notify"
    BY <2>1, TypeFacts DEF RunnerInv
  <2>. QED  BY <1>0, <1>a, <1>n, <2>1, <2>2
<1>6. ASSUME NEW t \in Task, UnblockDueTask(t) PROVE WaitInv'
  BY <1>6, <1>b DEF UnblockDueTask, flagVars, priorityVars
<1>7. CASE MovePendingReady
  <2>0. xPendingReadyList # <<>> /\ xPendingReadyList \in Seq(Task)
    BY <1>0, <1>7 DEF MovePendingReady, EventType
  <2>u. PICK u \in Task : u = Head(xPendingReadyList)
    BY <2>0, HeadTailProperties
  <2>1. /\ UNCHANGED <<xEventLists, ucNotifyState, xEventPriority, pc>>
        /\ MakeReady(u) /\ xPendingReadyList # <<>> /\ xPendingReadyList' = Tail(xPendingReadyList)
    BY <1>7, <2>u DEF MovePendingReady, priorityVars, flagVars
  <2>2. /\ u \in Task /\ Pending(u) /\ ~Pending(u)' /\ IsInjective(xPendingReadyList')
        /\ \A t : t # u => (Pending(t)' <=> Pending(t))
    <3>1. PICK s \in Seq(Task) : s = xPendingReadyList /\ s # <<>> /\ IsInjective(s)
      BY <1>0, <2>1 DEF EventType, OnceEach
    <3>2. /\ Head(s) \in Task /\ Tail(s) \in Seq(Task) /\ IsInjective(Tail(s))
          /\ ToSet(s) = {Head(s)} \cup ToSet(Tail(s)) /\ Head(s) \notin ToSet(Tail(s))
      BY <3>1, HeadAndRest
    <3>3. \A t : (Contains(s, t) <=> t \in ToSet(s)) /\ (Contains(Tail(s), t) <=> t \in ToSet(Tail(s)))
      BY <3>2, Members
    <3>. QED  BY <2>1, <2>u, <3>1, <3>2, <3>3 DEF Pending
  <2>3. OnceEach' /\ \A t : \A l \in EventList : In(l, t)' <=> In(l, t)
    BY <1>0, <2>1, <2>2 DEF OnceEach, In
  <2>4. \A t \in Task : t # u => Kept(t)
    BY <1>m, <2>1, <2>2, <2>3 DEF Kept, MakeReady
  <2>5. Free(u)'
    <3>1. TaskWaits(u) /\ Pending(u) /\ ucNotifyState'[u] = ucNotifyState[u]
      BY <1>w, <2>1, <2>2
    <3>. QED  BY <2>2, <2>3, <3>1 DEF TaskWaits, Free
  <2>. QED  BY <2>3, <2>4, <2>5, FreeWaits, OneWaits
\* An interrupt wakes u, which is not on the list of what is to be readied.
<1>8. ASSUME NEW u \in Task, ~Pending(u), OnceEach', UNCHANGED <<xEventPriority, pc>>,
             \A l \in EventList : ~In(l, u)',
             \A t \in Task : t # u => /\ \A l \in EventList : In(l, t)' <=> In(l, t)
                                      /\ ucNotifyState'[t] = ucNotifyState[t],
             ucNotifyState'[u] # "waiting", Held(u),
             IF uxSchedulerSuspended = 0
               THEN MakeReady(u) /\ UNCHANGED xPendingReadyList
               ELSE UNCHANGED xStateList /\ xPendingReadyList' = Append(xPendingReadyList, u)
      PROVE  WaitInv'
  <2>1. CASE uxSchedulerSuspended = 0
    <3>1. MakeReady(u) /\ \A t : Pending(t)' <=> Pending(t)
      BY <1>8, <2>1 DEF Pending
    <3>2. \A t \in Task : t # u => Kept(t)
      BY <1>m, <1>8, <3>1 DEF Kept, MakeReady
    <3>3. Free(u)'
      BY <1>8, <3>1 DEF Free
    <3>. QED  BY <1>8, <3>2, <3>3, FreeWaits, OneWaits
  <2>2. CASE uxSchedulerSuspended # 0
    <3>1. UNCHANGED xStateList /\ \A t : Pending(t)' <=> Pending(t) \/ t = u
      BY <1>0, <1>8, <2>2, PendSets DEF OnceEach
    <3>2. \A t \in Task : t # u => Kept(t)
      BY <1>n, <1>8, <3>1 DEF Kept
    <3>3. TaskWaits(u)'
      BY <1>n, <1>8, <3>1, TasksAssumption DEF TaskWaits
    <3>. QED  BY <1>8, <3>2, <3>3, OneWaits
  <2>. QED  BY <2>1, <2>2
<1>p. ASSUME NEW u \in Task, ~Pending(u), UNCHANGED xEventLists,
             UNCHANGED xPendingReadyList \/ xPendingReadyList' = Append(xPendingReadyList, u)
      PROVE  OnceEach' /\ \A t, l : In(l, t)' <=> In(l, t)
  BY <1>0, <1>p, PendSets DEF OnceEach, In
<1>9. ASSUME NEW l \in EventList, xTaskRemoveFromEventList(l) PROVE WaitInv'
  <2>u. PICK u \in Task : u = Head(xEventLists[l])
    BY <1>0, <1>9, WakeType DEF xTaskRemoveFromEventList
  <2>1. /\ xEventLists[l] # <<>> /\ xEventLists' = [xEventLists EXCEPT ![l] = Tail(@)]
        /\ UNCHANGED <<ucNotifyState, xEventPriority, pc>>
        /\ IF uxSchedulerSuspended = 0
             THEN MakeReady(u) /\ UNCHANGED xPendingReadyList
             ELSE UNCHANGED xStateList /\ xPendingReadyList' = Append(xPendingReadyList, u)
    BY <1>9, <2>u DEF xTaskRemoveFromEventList, flagVars, priorityVars, stateVars
  <2>2. /\ xEventLists[l] \in Seq(Task) /\ IsInjective(xEventLists[l])
        /\ Tail(xEventLists[l]) \in Seq(Task) /\ IsInjective(Tail(xEventLists[l]))
        /\ u \in Task /\ ToSet(xEventLists[l]) = {u} \cup ToSet(Tail(xEventLists[l]))
        /\ u \notin ToSet(Tail(xEventLists[l]))
    <3>1. PICK s \in Seq(Task) : s = xEventLists[l] /\ s # <<>> /\ IsInjective(s)
      BY <1>0, <2>1 DEF EventType, OnceEach
    <3>. QED  BY <2>u, <3>1, HeadAndRest
  <2>3. In(l, u)
    BY <2>2, Members DEF In
  <2>4. \A t : t # u => \A m \in EventList : In(m, t)' <=> In(m, t)
    BY <1>0, <2>1, <2>2, Members DEF In, EventType
  <2>5. Asleep(u) /\ ~Pending(u) /\ ucNotifyState[u] # "waiting"
    BY <1>w, <2>2, <2>3 DEF TaskWaits
  <2>6. \A m \in EventList : ~In(m, u)'
    <3>1. \A m \in EventList : m # l => ~In(m, u)
      BY <1>w, <2>2, <2>3 DEF TaskWaits
    <3>2. xEventLists'[l] = Tail(xEventLists[l])
      BY <1>0, <2>1 DEF EventType
    <3>3. ~In(l, u)'
      <4>1. ~Contains(Tail(xEventLists[l]), u)
        BY <2>2, Members
      <4>. QED  BY <3>2, <4>1 DEF In
    <3>4. \A m \in EventList : m # l => xEventLists'[m] = xEventLists[m]
      BY <1>0, <2>1 DEF EventType
    <3>. QED  BY <3>1, <3>3, <3>4 DEF In
  <2>7. OnceEach'
    <3>1. \A m \in EventList : IsInjective(xEventLists'[m])
      BY <1>0, <2>1, <2>2 DEF EventType, OnceEach
    <3>2. IsInjective(xPendingReadyList')
      BY <1>0, <2>1, <2>2, <2>5, PendSets DEF OnceEach
    <3>. QED  BY <3>1, <3>2 DEF OnceEach
  <2>8. Held(u) /\ ucNotifyState'[u] # "waiting"
    BY <2>1, <2>5 DEF Held
  <2>. QED  BY <1>8, <2>1, <2>2, <2>4, <2>5, <2>6, <2>7, <2>8
<1>10. ASSUME NEW u \in Task, xTaskResumeFromISR(u) PROVE WaitInv'
  <2>1. /\ UNCHANGED <<ucNotifyState, xEventPriority, pc, xEventLists>>
        /\ u \in Resumable /\ xStateList[u] = "suspended" /\ ~Pending(u) /\ ~OnEventList(u)
        /\ IF uxSchedulerSuspended = 0
             THEN MakeReady(u) /\ UNCHANGED xPendingReadyList
             ELSE UNCHANGED xStateList /\ xPendingReadyList' = Append(xPendingReadyList, u)
    BY <1>10 DEF xTaskResumeFromISR, flagVars, priorityVars, stateVars, prvTaskIsTaskSuspended
  <2>2. Held(u) /\ ucNotifyState[u] # "waiting" /\ \A l \in EventList : ~In(l, u)
    BY <1>w, <2>1 DEF TaskWaits, Held, Asleep, OnEventList, In
  <2>3. OnceEach' /\ \A t, l : In(l, t)' <=> In(l, t)
    BY <1>p, <2>1
  <2>. QED  BY <1>8, <2>1, <2>2, <2>3
<1>11. ASSUME NEW u \in Task, xTaskNotifyFromISR(u) PROVE WaitInv'
  <2>1. /\ UNCHANGED <<xEventPriority, pc, xEventLists>>
        /\ ucNotifyState' = [ucNotifyState EXCEPT ![u] = "received"]
        /\ IF ucNotifyState[u] = "waiting"
             THEN IF uxSchedulerSuspended = 0
                    THEN MakeReady(u) /\ UNCHANGED xPendingReadyList
                    ELSE UNCHANGED xStateList /\ xPendingReadyList' = Append(xPendingReadyList, u)
             ELSE UNCHANGED <<xStateList, xPendingReadyList>>
    BY <1>11 DEF xTaskNotifyFromISR, priorityVars, stateVars, Notified, Waits
  <2>2. ucNotifyState'[u] = "received" /\ \A t \in Task : t # u => ucNotifyState'[t] = ucNotifyState[t]
    BY <1>0, <2>1
  <2>3. CASE ucNotifyState[u] = "waiting"
    <3>1. Held(u) /\ ~Pending(u) /\ \A l \in EventList : ~In(l, u)
      BY <1>w, <2>3 DEF TaskWaits
    <3>2. OnceEach' /\ \A t, l : In(l, t)' <=> In(l, t)
      BY <1>p, <2>1, <2>3, <3>1
    <3>. QED  BY <1>8, <2>1, <2>2, <2>3, <3>1, <3>2
  <2>4. CASE ucNotifyState[u] # "waiting"
    <3>1. UNCHANGED eventVars /\ UNCHANGED xStateList
      BY <2>1, <2>4 DEF eventVars
    <3>2. \A t \in Task : t # u => Kept(t)
      BY <1>e, <1>n, <2>1, <2>2, <3>1 DEF Kept
    <3>3. TaskWaits(u)'
      BY <1>e, <1>n, <1>w, <2>1, <2>2, <3>1, <2>4, TasksAssumption DEF TaskWaits
    <3>. QED  BY <1>e, <3>1, <3>2, <3>3, OneWaits
  <2>. QED  BY <2>3, <2>4
<1>. QED  BY <1>1, <1>3, <1>4, <1>5, <1>6, <1>7, <1>9, <1>10, <1>11 DEF Next, KernelStep, Interrupt

\* It holds at first: nobody waits.
LEMMA WaitInit == Init => WaitInv
<1>. SUFFICES ASSUME Init PROVE WaitInv
  OBVIOUS
<1>1. /\ xEventLists = [l \in EventList |-> <<>>] /\ xPendingReadyList = <<>>
      /\ ucNotifyState = [t \in Task |-> "notWaiting"]
  BY DEF Init
<1>2. \A t : ~Contains(<<>>, t)
  BY DEF Contains
<1>3. \A t \in Task : ~Pending(t) /\ \A l \in EventList : ~In(l, t)
  BY <1>1, <1>2 DEF Pending, In
<1>. QED  BY <1>1, <1>3, EmptySet, TasksAssumption DEF WaitInv, OnceEach, TaskWaits

\* WaitInv holds in every reachable state.
LEMMA WaitAlways ==
  ASSUME Resumable \cap Notifiable = {}
  PROVE  Spec => []WaitInv
<1>. DEFINE IInv == TypeInv /\ ReadyLists /\ RunnerInv /\ WaitInv
<1>1. Init => IInv
  BY TypeInit, ReadyInit, RunnerInit, WaitInit
<1>2. IInv /\ [Next]_tasksVars => IInv'
  BY TypeStep, ReadyStep, RunnerStep, WaitStep
<1>. QED  BY <1>1, <1>2, PTL DEF Spec

\* A set without two elements has one at most.
LEMMA OneOrNone ==
  ASSUME NEW S, \A x, y \in S : x = y
  PROVE  Cardinality(S) = IF S = {} THEN 0 ELSE 1
<1>1. CASE S = {}
  BY <1>1, FS_EmptySet
<1>2. CASE S # {}
  <2>1. PICK x \in S : TRUE
    BY <1>2
  <2>2. S = {x}
    BY <2>1
  <2>. QED  BY <1>2, <2>2, FS_Singleton
<1>. QED  BY <1>1, <1>2

\* A task that waits for an object is blocked, on one list and once: what
\* vTaskPlaceOnEventList and vTaskPlaceOnUnorderedEventList set up and the
\* wake-ups, the timeouts, the suspension and the deletion undo.  No task that
\* waits for notifications may be resumed: xTaskResumeFromISR would take it for
\* suspended, put it on xPendingReadyList, and a notification would put it there
\* once more.
THEOREM WaitersOnOneList ==
  ASSUME Resumable \cap Notifiable = {}
  PROVE  Spec => []WaitersBlocked
<1>1. WaitInv => WaitersBlocked
  <2>. SUFFICES ASSUME WaitInv PROVE WaitersBlocked
    OBVIOUS
  <2>1. ASSUME NEW t \in Task
        PROVE  /\ OnEventList(t) => Asleep(t)
               /\ Pending(t) => Asleep(t) \/ (xStateList[t] = "ready" /\ pc[t] = "notify")
               /\ Cardinality({l \in EventList : Contains(xEventLists[l], t)})
                    + (IF Pending(t) THEN 1 ELSE 0) <= 1
    <3>1. TaskWaits(t)
      BY DEF WaitInv
    <3>2. \/ {l \in EventList : In(l, t)} = {} /\ Cardinality({l \in EventList : In(l, t)}) = 0
          \/ /\ {l \in EventList : In(l, t)} # {} /\ Cardinality({l \in EventList : In(l, t)}) = 1
             /\ ~Pending(t)
      <4>1. \A l, m \in EventList : In(l, t) /\ In(m, t) => l = m
        BY <3>1 DEF TaskWaits
      <4>2. {l \in EventList : In(l, t)} # {} => ~Pending(t)
        BY <3>1 DEF TaskWaits
      <4>3. Cardinality({l \in EventList : In(l, t)}) =
              IF {l \in EventList : In(l, t)} = {} THEN 0 ELSE 1
        BY <4>1, OneOrNone
      <4>. QED  BY <4>2, <4>3
    <3>3. (OnEventList(t) => Asleep(t)) /\ (Pending(t) => Held(t))
      BY <3>1 DEF TaskWaits, OnEventList, In
    <3>. QED  BY <3>2, <3>3 DEF In, Held, Ready
  <2>. QED  BY <2>1 DEF WaitersBlocked, WaitInv, OnceEach, Asleep
<1>. QED  BY <1>1, WaitAlways, PTL

\* The event item of a task is left alone: no change of priority overwrites the
\* bits it holds for an event group, and that of a task that waits for a
\* notification is in no list when an interrupt puts it on xPendingReadyList
\* (the assertion of xTaskGenericNotifyFromISR).
THEOREM EventItemsLeftAlone ==
  ASSUME Resumable \cap Notifiable = {}
  PROVE  Spec => []EventItemsKept
<1>1. WaitInv => EventItemsKept
  BY DEF WaitInv, TaskWaits, EventItemsKept, BitsKept, EventItemFree, OnEventList, In
<1>. QED  BY <1>1, WaitAlways, PTL
-----------------------------------------------------------------------------
(***************************************************************************)
(* Notifications.  A task that sleeps in a wait for a notification is      *)
(* marked as waiting, or what woke it has put it on xPendingReadyList.     *)
(* Nothing is assumed of the tasks that are resumed.                       *)
(***************************************************************************)
Slept(t) == pc[t] = "notify" /\ OnDelayedList(t) => ucNotifyState[t] = "waiting" \/ Pending(t)

AwakeInv == \A t \in Task : Slept(t)

\* Taking u out of a list leaves the others in it.
LEMMA WithoutOthers ==
  ASSUME NEW S, NEW s \in Seq(S), NEW u, NEW t, t # u, Contains(s, t)
  PROVE  Contains(Without(s, u), t)
<1>1. CASE ~Contains(s, u)
  BY <1>1 DEF Without
<1>2. CASE Contains(s, u)
  <2>. DEFINE r == Without(s, u)
              i == PositionIn(s, u)
  <2>1. /\ r \in Seq(S) /\ Len(r) = Len(s) - 1 /\ Len(s) \in Nat
        /\ \A j \in 1 .. Len(s) - 1 : r[j] = IF j < i THEN s[j] ELSE s[j + 1]
        /\ i \in 1 .. Len(s) /\ s[i] = u
    BY <1>2, WithoutType, WithoutElements, PositionHolds
  <2>. HIDE DEF r, i
  <2>2. PICK k \in 1 .. Len(s) : s[k] = t
    BY DEF Contains
  <2>3. \E j \in 1 .. Len(s) - 1 : r[j] = t
    <3>1. CASE k < i
      BY <2>1, <2>2, <3>1
    <3>2. CASE k > i
      <4>1. k - 1 \in 1 .. Len(s) - 1 /\ r[k - 1] = s[k]
        BY <2>1, <3>2
      <4>. QED  BY <2>2, <4>1
    <3>. QED  BY <2>1, <2>2, <3>1, <3>2
  <2>4. Contains(r, t)
    BY <2>1, <2>3 DEF Contains
  <2>. QED  BY <2>4 DEF r
<1>. QED  BY <1>1, <1>2

\* Every step keeps AwakeInv.
LEMMA AwakeStep == TypeInv /\ RunnerInv /\ AwakeInv /\ [Next]_tasksVars => AwakeInv'
<1>. SUFFICES ASSUME TypeInv, RunnerInv, AwakeInv, [Next]_tasksVars PROVE AwakeInv'
  OBVIOUS
<1>0. /\ pxCurrentTCB \in Task /\ xStateList \in [Task -> StateLists]
      /\ pc \in [Task -> Pcs] /\ uxSchedulerSuspended \in Nat
      /\ ucNotifyState \in [Task -> NotifyStates] /\ EventType
      /\ xPendingReadyList \in Seq(Task)
  BY TypeFacts DEF EventType
\* The wait of t goes on as it was.
<1>a. ASSUME NEW t \in Task, OnDelayedList(t)' => OnDelayedList(t), pc'[t] = "notify" => pc[t] = "notify",
             ucNotifyState'[t] = ucNotifyState[t], Pending(t) => Pending(t)'
      PROVE  Slept(t)'
  BY <1>a DEF AwakeInv, Slept
<1>m. ASSUME NEW u, NEW s, MoveTo(u, s), NEW t \in Task
      PROVE  /\ t # u => (OnDelayedList(t)' => OnDelayedList(t))
             /\ t = u /\ s \notin {"delayed", "overflow"} => ~OnDelayedList(t)'
  BY <1>0, <1>m DEF MoveTo, OnDelayedList
<1>l. ASSUME NEW u, LeaveEventLists(u), NEW t, t # u PROVE Pending(t) => Pending(t)'
  BY <1>0, <1>l, WithoutOthers DEF LeaveEventLists, Pending
\* u moves to a list that is not a delayed list.
<1>b. ASSUME NEW u \in Task, NEW s \in StateLists \ {"delayed", "overflow"}, MoveTo(u, s),
             \A t \in Task : t # u => /\ ucNotifyState'[t] = ucNotifyState[t]
                                      /\ pc'[t] = "notify" => pc[t] = "notify"
                                      /\ Pending(t) => Pending(t)'
      PROVE  AwakeInv'
  <2>1. ASSUME NEW t \in Task, t # u PROVE Slept(t)'
    BY <1>a, <1>b, <1>m, <2>1
  <2>2. ~OnDelayedList(u)'
    BY <1>b, <1>m
  <2>. QED  BY <2>1, <2>2 DEF AwakeInv, Slept
<1>r. ASSUME NEW u \in Task, MakeReady(u),
             \A t \in Task : t # u => /\ ucNotifyState'[t] = ucNotifyState[t]
                                      /\ pc'[t] = "notify" => pc[t] = "notify"
                                      /\ Pending(t) => Pending(t)'
      PROVE  AwakeInv'
  BY <1>b, <1>r DEF MakeReady, StateLists
\* No task falls asleep or is woken.
<1>c. ASSUME UNCHANGED <<xStateList, ucNotifyState>>,
             \A t \in Task : /\ pc'[t] = "notify" => pc[t] = "notify" \/ Ready(t)
                             /\ Pending(t) => Pending(t)'
      PROVE  AwakeInv'
  BY <1>0, <1>a, <1>c DEF AwakeInv, Slept, OnDelayedList, Ready
<1>p. UNCHANGED xPendingReadyList => \A t : Pending(t) => Pending(t)'
  BY DEF Pending
<1>1. ASSUME NEW t \in Task, TaskStep(t) PROVE AwakeInv'
  <2>0. t = pxCurrentTCB /\ Running(t) /\ UNCHANGED pxCurrentTCB
    BY <1>1, RunningTask DEF Running, Unmasked
  <2>f. ASSUME pc[t] = "app" PROVE Ready(t)
    BY <2>0, <2>f, CallerReady DEF Leaving
  <2>1. CASE \/ (\E n \in BlockTimes : vTaskDelay(t, n))
             \/ (\E l \in EventList, n \in BlockTimes \cup {portMAX_DELAY} :
                   vTaskPlaceOnEventList(t, l, n) \/ vTaskPlaceOnUnorderedEventList(t, l, n))
             \/ (\E n \in BlockTimes \cup {portMAX_DELAY} : xTaskNotifyWait(t, n))
    <3>1. /\ UNCHANGED xPendingReadyList
          /\ \E n, indefinitely : AddCurrentTaskToDelayedList(n, indefinitely)
          /\ \/ pc' = [pc EXCEPT ![t] = "placed"] /\ UNCHANGED ucNotifyState
             \/ /\ pc' = [pc EXCEPT ![t] = "notify"]
                /\ ucNotifyState' = [ucNotifyState EXCEPT ![t] = "waiting"]
      BY <2>1 DEF vTaskDelay, vTaskPlaceOnEventList, vTaskPlaceOnUnorderedEventList, xTaskNotifyWait,
                  eventVars
    <3>2. \A v \in Task : v # t => xStateList'[v] = xStateList[v]
      BY <1>0, <2>0, <3>1 DEF AddCurrentTaskToDelayedList, MoveTo
    <3>3. ASSUME NEW v \in Task, v # t PROVE Slept(v)'
      BY <1>0, <1>a, <1>p, <3>1, <3>2, <3>3 DEF OnDelayedList
    <3>4. Slept(t)'
      BY <1>0, <3>1 DEF Slept
    <3>. QED  BY <3>3, <3>4 DEF AwakeInv
  <2>2. CASE \/ vTaskSuspendAll(t) \/ xTaskResumeAll(t) \/ taskYIELD(t) \/ vTaskSuspendReset(t)
             \/ (\E n \in 1 .. MaxPendedTicks : xTaskCatchUpTicks(t, n))
             \/ uxTaskResetEventItemValue(t)
             \/ (\E u \in Task, p \in Priority : vTaskPrioritySet(t, u, p))
    <3>1. /\ UNCHANGED <<xPendingReadyList, ucNotifyState, xStateList>>
          /\ UNCHANGED pc \/ \E c \in Pcs \ {"notify"} : pc' = [pc EXCEPT ![t] = c]
      BY <2>2 DEF vTaskSuspendAll, xTaskResumeAll, taskYIELD, vTaskSuspendReset, xTaskCatchUpTicks,
                  uxTaskResetEventItemValue, vTaskPrioritySet, flagVars, stateVars, eventVars, Pcs
    <3>. QED  BY <1>0, <1>c, <1>p, <3>1
  <2>3. CASE NotifyWaitDone(t) \/ \E s \in NotifyStates : NotifyDontWait(t, s)
    <3>1. /\ UNCHANGED <<xPendingReadyList, xStateList>>
          /\ \E s : ucNotifyState' = [ucNotifyState EXCEPT ![t] = s]
          /\ \/ pc' = [pc EXCEPT ![t] = "app"]
             \/ pc[t] = "app" /\ pc' = [pc EXCEPT ![t] = "notify"]
      BY <2>3 DEF NotifyWaitDone, NotifyDontWait, stateVars, eventVars, Calls, AtCall
    <3>2. ASSUME NEW v \in Task, v # t PROVE Slept(v)'
      BY <1>0, <1>a, <1>p, <3>1, <3>2 DEF OnDelayedList
    <3>3. Slept(t)'
      BY <1>0, <2>f, <3>1 DEF Slept, OnDelayedList, Ready
    <3>. QED  BY <3>2, <3>3 DEF AwakeInv
  <2>4. ASSUME NEW u \in Task, vTaskSuspend(t, u) \/ vTaskDelete(t, u) \/ prvIdleTask(t, u)
        PROVE  AwakeInv'
    <3>1. /\ \E s \in {"suspended", "termination", "none"} : MoveTo(u, s)
          /\ \E s : ucNotifyState' = [ucNotifyState EXCEPT ![u] = s]
          /\ \E v \in Task, c \in Pcs \ {"notify"} : pc' = [pc EXCEPT ![v] = c]
          /\ LeaveEventLists(u) \/ UNCHANGED xPendingReadyList
      <4>1. CASE vTaskDelete(t, u) /\ u = t
        <5>1. ucNotifyState' = [ucNotifyState EXCEPT ![u] = ucNotifyState[u]]
          BY <1>0, <4>1 DEF vTaskDelete, flagVars
        <5>. QED  BY <4>1, <5>1 DEF vTaskDelete, Pcs
      <4>2. CASE ~(vTaskDelete(t, u) /\ u = t)
        BY <2>4, <4>2 DEF vTaskSuspend, vTaskDelete, prvIdleTask, FreeTCB, flagVars, eventVars, Pcs
      <4>. QED  BY <4>1, <4>2
    <3>2. \A v \in Task : v # u => /\ ucNotifyState'[v] = ucNotifyState[v]
                                   /\ pc'[v] = "notify" => pc[v] = "notify"
                                   /\ Pending(v) => Pending(v)'
      BY <1>0, <1>l, <1>p, <3>1
    <3>. QED  BY <1>b, <3>1, <3>2 DEF StateLists
  <2>5. ASSUME NEW u \in Task, \/ vTaskResume(t, u) \/ xTaskCreate(t, u) \/ xTaskAbortDelay(t, u)
                               \/ \E l \in EventList : vTaskRemoveFromUnorderedEventList(t, u, l)
        PROVE  AwakeInv'
    <3>1. /\ MakeReady(u) /\ UNCHANGED ucNotifyState
          /\ UNCHANGED pc \/ \E c \in Pcs \ {"notify"} : pc' = [pc EXCEPT ![t] = c]
          /\ LeaveEventLists(u) \/ UNCHANGED xPendingReadyList
      BY <2>5 DEF vTaskResume, xTaskCreate, xTaskAbortDelay, vTaskRemoveFromUnorderedEventList,
                  flagVars, eventVars, Pcs
    <3>. QED  BY <1>0, <1>l, <1>p, <1>r, <3>1
  <2>6. ASSUME NEW u \in Task, xTaskNotify(t, u) PROVE AwakeInv'
    <3>1. /\ UNCHANGED <<xPendingReadyList, pc>>
          /\ \E s : ucNotifyState' = [ucNotifyState EXCEPT ![u] = s]
          /\ IF ucNotifyState[u] = "waiting" THEN MakeReady(u) ELSE UNCHANGED xStateList
      BY <2>6 DEF xTaskNotify, Waits, stateVars, eventVars
    <3>2. CASE ucNotifyState[u] = "waiting"
      BY <1>0, <1>p, <1>r, <3>1, <3>2
    <3>3. CASE ucNotifyState[u] # "waiting"
      BY <1>0, <1>p, <3>1, <3>3 DEF AwakeInv, Slept, OnDelayedList
    <3>. QED  BY <3>2, <3>3
  <2>7. ASSUME NEW u \in Task, xTaskNotifyStateClear(t, u) PROVE AwakeInv'
    <3>1. /\ UNCHANGED <<xPendingReadyList, pc, xStateList>> /\ ucNotifyState[u] = "received"
          /\ ucNotifyState' = [ucNotifyState EXCEPT ![u] = "notWaiting"]
      BY <2>7 DEF xTaskNotifyStateClear, stateVars, eventVars
    <3>. QED  BY <1>0, <1>p, <3>1 DEF AwakeInv, Slept, OnDelayedList
  <2>. QED  BY <1>1, <2>1, <2>2, <2>3, <2>4, <2>5, <2>6, <2>7 DEF TaskStep
<1>2. CASE SysTickHandler \/ PendingReadyEmpty \/ UnblockDone \/ ReplayPendedTick \/ TimeSlice
  <2>1. /\ UNCHANGED <<xPendingReadyList, ucNotifyState, pc>>
        /\ AdvanceTick \/ UNCHANGED xStateList
    BY <1>2 DEF SysTickHandler, PendingReadyEmpty, UnblockDone, ReplayPendedTick, TimeSlice,
                flagVars, stateVars, eventVars
  <2>2. xStateList' \in {Switched, xStateList}
    BY <2>1 DEF AdvanceTick
  <2>3. \A t \in Task : OnDelayedList(t)' => OnDelayedList(t)
    BY <1>0, <2>2 DEF Switched, OnDelayedList
  <2>. QED  BY <1>a, <1>p, <2>1, <2>3 DEF AwakeInv
<1>3. CASE vTaskSwitchContext \/ ResumeAllDone \/ UNCHANGED tasksVars
  <2>1. /\ UNCHANGED <<xPendingReadyList, ucNotifyState, xStateList>>
        /\ UNCHANGED pc \/ \E c \in Pcs \ {"notify"} : pc' = [pc EXCEPT ![pxCurrentTCB] = c]
    BY <1>3 DEF vTaskSwitchContext, ResumeAllDone, tasksVars, flagVars, stateVars, eventVars, Pcs
  <2>. QED  BY <1>0, <1>c, <1>p, <2>1
<1>4. CASE MovePendingReady
  <2>1. PICK u \in Task : u = Head(xPendingReadyList)
    BY <1>0, <1>4, HeadTailProperties DEF MovePendingReady
  <2>2. /\ UNCHANGED <<ucNotifyState, pc>> /\ MakeReady(u) /\ xPendingReadyList # <<>>
        /\ xPendingReadyList' = Tail(xPendingReadyList)
    BY <1>4, <2>1 DEF MovePendingReady, flagVars
  <2>3. \A t : t # u => (Pending(t) => Pending(t)')
    <3>1. PICK s \in Seq(Task) : s = xPendingReadyList /\ s # <<>>
      BY <1>0, <2>2
    <3>2. /\ Tail(s) \in Seq(Task) /\ ToSet(s) = {Head(s)} \cup ToSet(Tail(s))
      BY <3>1, HeadAndRest
    <3>3. \A t : (Contains(s, t) <=> t \in ToSet(s)) /\ (Contains(Tail(s), t) <=> t \in ToSet(Tail(s)))
      BY <3>2, Members
    <3>. QED  BY <2>1, <2>2, <3>1, <3>2, <3>3 DEF Pending
  <2>. QED  BY <1>r, <2>2, <2>3
<1>5. ASSUME NEW t \in Task, UnblockDueTask(t) PROVE AwakeInv'
  BY <1>l, <1>r, <1>5 DEF UnblockDueTask, flagVars
\* What an interrupt wakes it makes ready or puts on xPendingReadyList.
<1>6. ASSUME NEW u \in Task, xPendingReadyList' = Append(xPendingReadyList, u)
      PROVE  \A t : (Pending(t) => Pending(t)') /\ Pending(u)'
  <2>1. PICK s : s = Append(xPendingReadyList, u)
    OBVIOUS
  <2>2. s \in Seq(Task) /\ ToSet(s) = ToSet(xPendingReadyList) \cup {u}
    BY <1>0, <2>1, AppendSet
  <2>3. \A t : /\ Contains(s, t) <=> t \in ToSet(s)
               /\ Contains(xPendingReadyList, t) <=> t \in ToSet(xPendingReadyList)
    BY <1>0, <2>2, Members
  <2>. QED  BY <1>6, <2>1, <2>2, <2>3 DEF Pending
<1>7. ASSUME NEW u \in Task, UNCHANGED pc,
             \A t \in Task : t # u => ucNotifyState'[t] = ucNotifyState[t],
             \/ MakeReady(u) /\ UNCHANGED xPendingReadyList
             \/ UNCHANGED xStateList /\ xPendingReadyList' = Append(xPendingReadyList, u)
      PROVE  AwakeInv'
  <2>1. CASE MakeReady(u) /\ UNCHANGED xPendingReadyList
    BY <1>p, <1>r, <1>7, <2>1
  <2>2. CASE UNCHANGED xStateList /\ xPendingReadyList' = Append(xPendingReadyList, u)
    BY <1>a, <1>6, <1>7, <2>2 DEF AwakeInv, Slept, OnDelayedList
  <2>. QED  BY <1>7, <2>1, <2>2
<1>8. ASSUME NEW l \in EventList, xTaskRemoveFromEventList(l) PROVE AwakeInv'
  <2>1. PICK u \in Task : u = Head(xEventLists[l])
    BY <1>0, <1>8, WakeType DEF xTaskRemoveFromEventList
  <2>. QED  BY <1>7, <1>8, <2>1 DEF xTaskRemoveFromEventList, flagVars, stateVars
<1>9. ASSUME NEW u \in Task, xTaskResumeFromISR(u) PROVE AwakeInv'
  BY <1>7, <1>9 DEF xTaskResumeFromISR, flagVars, stateVars
<1>10. ASSUME NEW u \in Task, xTaskNotifyFromISR(u) PROVE AwakeInv'
  <2>1. /\ UNCHANGED pc
        /\ \E s : ucNotifyState' = [ucNotifyState EXCEPT ![u] = s]
        /\ IF ucNotifyState[u] = "waiting"
             THEN \/ MakeReady(u) /\ UNCHANGED xPendingReadyList
                  \/ UNCHANGED xStateList /\ xPendingReadyList' = Append(xPendingReadyList, u)
             ELSE UNCHANGED <<xStateList, xPendingReadyList>>
    BY <1>10 DEF xTaskNotifyFromISR, Waits, stateVars
  <2>2. \A t \in Task : t # u => ucNotifyState'[t] = ucNotifyState[t]
    BY <1>0, <2>1
  <2>3. CASE ucNotifyState[u] = "waiting"
    BY <1>7, <2>1, <2>2, <2>3
  <2>4. CASE ucNotifyState[u] # "waiting"
    BY <1>p, <2>1, <2>2, <2>4 DEF AwakeInv, Slept, OnDelayedList
  <2>. QED  BY <2>3, <2>4
<1>. QED  BY <1>1, <1>2, <1>3, <1>4, <1>5, <1>8, <1>9, <1>10 DEF Next, KernelStep, Interrupt

\* No notification is slept through: a task that has been notified in its wait
\* is on no delayed list, or will be readied when the scheduler is resumed, so
\* that it does not wait for its timeout.
THEOREM NotifiedWakes == Spec => []NotifiedIsAwake
<1>. DEFINE IInv == TypeInv /\ RunnerInv /\ ReadyLists /\ AwakeInv
<1>1. Init => IInv
  <2>1. Init => AwakeInv
    BY DEF Init, AwakeInv, Slept
  <2>. QED  BY <2>1, TypeInit, ReadyInit, RunnerInit
<1>2. IInv /\ [Next]_tasksVars => IInv'
  BY TypeStep, ReadyStep, RunnerStep, AwakeStep
<1>3. IInv => NotifiedIsAwake
  BY DEF AwakeInv, Slept, NotifiedIsAwake
<1>. QED  BY <1>1, <1>2, <1>3, PTL DEF Spec
=============================================================================
