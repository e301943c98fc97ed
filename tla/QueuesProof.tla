---------------------------- MODULE QueuesProof ----------------------------
(***************************************************************************)
(* Theorems about Queues, for every number of tasks, every length of the   *)
(* queue, every width of the tick count and every time to wait.            *)
(***************************************************************************)
EXTENDS Queues, KernelProof

\* Where the scheduler is suspended in a call, and where each half of the lock
\* is held.
Locked   == {"timeout", "test", "place", "unlockTx", "unlockRx", "resume"}
TxLocked == {"timeout", "test", "place", "unlockTx"}
RxLocked == TxLocked \cup {"unlockRx"}

\* Where a task that sleeps, or was woken, goes on.
Placed == {"unlockTx", "unlockRx", "resume", "check"}

CallType ==
  /\ use \in Uses /\ uxMessagesWaiting \in 0 .. uxLength
  /\ cRxLock \in -1 .. Cardinality(Task) /\ cTxLock \in -1 .. Cardinality(Task)
  /\ op \in [Task -> Ops] /\ step \in [Task -> Steps] /\ expired \in [Task -> BOOLEAN]
  /\ stranding \in BOOLEAN

\* A task in the locked part of its call runs, alone; the lock is held there and
\* nowhere else; a task sleeps in its call, and in the list of what it waits for.
CallInv ==
  /\ KernelInv /\ CallType
  /\ uxSchedulerSuspended \in {0, 1}
  /\ \A t \in Task : step[t] \in Locked => t = pxCurrentTCB /\ uxSchedulerSuspended = 1
  /\ uxSchedulerSuspended = 1 => step[pxCurrentTCB] \in Locked \cup {"none"}
  /\ cTxLock # queueUNLOCKED <=> step[pxCurrentTCB] \in TxLocked
  /\ cRxLock # queueUNLOCKED <=> step[pxCurrentTCB] \in RxLocked
  /\ \A t \in Task : op[t] = "none" <=> step[t] = "none"
  /\ \A t \in Task : expired[t] => step[t] \in {"unlockTx", "unlockRx", "resume", "expired"}
  /\ \A t \in Task : Asleep(t) => step[t] \in Placed /\ ~expired[t]
  /\ \A l \in EventList : \A t \in Sleepers(l) : Waiters(op[t]) = l

-----------------------------------------------------------------------------
(* The account of items, of room and of those on their way to it *)

\* What the tasks in the list l wait for.
Supply(l) == IF l = ToReceive THEN uxMessagesWaiting ELSE uxLength - uxMessagesWaiting

\* The wake-ups that unlocking the queue still owes them.
LockOf(l) == IF l = ToReceive THEN cTxLock ELSE cRxLock
Credit(l) == IF LockOf(l) = queueUNLOCKED THEN 0 ELSE LockOf(l)

\* The tasks that will look at the queue before they sleep, or fail.
Looks(t) == \/ step[t] \in {"first", "check"}
            \/ step[t] \in Placed /\ ~expired[t]
Useful(l) == {t \in Task : op[t] # "none" /\ Waiters(op[t]) = l /\ t \notin Sleepers(l) /\ Looks(t)}

Owed(l) == Credit(l) >= uxCurrentNumberOfTasks

\* There is no more in the queue than tasks on their way to it, and wake-ups owed.
Account(l) ==
  Sleepers(l) # {} /\ (l = ToSend => ~stranding)
    => Supply(l) <= Cardinality(Useful(l)) + Credit(l) \/ Owed(l)

\* Who is about to sleep found nothing; what came since is owed.
PlaceOK(t) ==
  step[t] = "place" => LET l == Waiters(op[t]) IN Supply(l) <= Credit(l) \/ Owed(l)

AccountInv == (\A l \in EventList : Account(l)) /\ (\A t \in Task : PlaceOK(t))

-----------------------------------------------------------------------------
(* The time of each call *)

TimeType ==
  /\ xTicksToWait \in [Task -> 0 .. portMAX_DELAY] /\ requested \in [Task -> 0 .. portMAX_DELAY]
  /\ xTimeOut \in [Task -> [xTimeOnEntering : 0 .. portMAX_DELAY, overflowed : BOOLEAN]]
  /\ waited \in [Task -> 0 .. TickRange]

\* The ticks since the TimeOut_t of a call was set last.
Since(t) == xTickCount - xTimeOut[t].xTimeOnEntering
              + (IF xTimeOut[t].overflowed THEN TickRange ELSE 0)

\* What is left of the time of a call.
RestOK(t) ==
  /\ step[t] = "none" => waited[t] = 0
  /\ step[t] # "none" => /\ xTicksToWait[t] <= requested[t]
                         /\ requested[t] = portMAX_DELAY => xTicksToWait[t] = portMAX_DELAY
  /\ step[t] = "first" => waited[t] = 0 /\ xTicksToWait[t] = requested[t]
  /\ step[t] \in {"lock", "timeout", "test", "place"} => xTicksToWait[t] > 0

\* What has passed, what is left and what passed since it was reckoned agree.
ClockOK(t) ==
  /\ step[t] \notin {"none", "first"} /\ requested[t] # portMAX_DELAY
  /\ xTicksToWait[t] > 0 /\ waited[t] < TickRange
  => Since(t) >= 0 /\ waited[t] + xTicksToWait[t] = requested[t] + Since(t)

FreshOK(t) == step[t] \in {"test", "place"} /\ requested[t] # portMAX_DELAY => Since(t) = 0

SleepOK(t) ==
  state[t] = "blocked" => /\ requested[t] # portMAX_DELAY
                          /\ waited[t] < TickRange => waited[t] + left[t] = requested[t]

TimeOK(t) == RestOK(t) /\ ClockOK(t) /\ FreshOK(t) /\ SleepOK(t)

TimeInv == TimeType /\ \A t \in Task : TimeOK(t)

-----------------------------------------------------------------------------
(* What the steps do to those who sleep *)

\* The tasks of W, which slept, leave the lists; some of them are ready.
Wakes(W) ==
  /\ \A u \in W : u \in Task /\ Asleep(u)
  /\ \A l \in EventList : Sleepers(l)' = Sleepers(l) \ W
  /\ \A u \in Task : \/ state'[u] = state[u] /\ left'[u] = left[u]
                     \/ u \in W /\ state'[u] = "ready"

\* The two lists.
LEMMA Lists2 ==
  /\ EventList = {ToSend, ToReceive} /\ ToSend # ToReceive
  /\ \A o : Waiters(o) \in EventList /\ NextInLine(o) \in EventList
BY QueueAssumption DEF ToSend, ToReceive, Waiters, NextInLine

\* A step of the queue that leaves the kernel alone wakes nobody.
LEMMA KernelStill ==
  ASSUME KernelInv, UNCHANGED kernelVars
  PROVE  /\ KernelInv' /\ Wakes({})
         /\ UNCHANGED <<pxCurrentTCB, uxSchedulerSuspended, xTickCount>>
<1>1. UNCHANGED <<pxCurrentTCB, state, left, xEventLists, pending, uxSchedulerSuspended, xTickCount>>
  BY DEF kernelVars
<1>2. KernelInv' /\ \A l \in EventList : Sleepers(l)' = Sleepers(l)
  BY <1>1, StutterKeeps
<1>. QED  BY <1>1, <1>2 DEF Wakes

\* WakeOne wakes one task of the list, if there is one.
LEMMA WakeOneWakes ==
  ASSUME KernelInv, NEW l \in EventList, WakeOne(l)
  PROVE  /\ KernelInv'
         /\ UNCHANGED <<pxCurrentTCB, uxSchedulerSuspended, xTickCount>>
         /\ IF Sleepers(l) = {} THEN Wakes({}) ELSE \E u \in Sleepers(l) : Wakes({u})
<1>0. xEventLists[l] = <<>> <=> Sleepers(l) = {}
  BY SleepersAreTasks DEF KernelInv
<1>1. CASE xEventLists[l] = <<>>
  BY <1>0, <1>1, KernelStill DEF WakeOne
<1>2. CASE xEventLists[l] # <<>>
  <2>1. RemoveFromEventList(l)
    BY <1>2 DEF WakeOne
  <2>2. PICK u \in Sleepers(l) :
           /\ KernelInv'
           /\ \A m \in EventList : Sleepers(m)' = Sleepers(m) \ {u}
           /\ \A v \in Task \ {u} : state'[v] = state[v] /\ left'[v] = left[v]
                                    /\ (v \in pending' <=> v \in pending)
           /\ \/ uxSchedulerSuspended = 0 /\ state'[u] = "ready"
              \/ /\ uxSchedulerSuspended # 0 /\ state'[u] = state[u] /\ left'[u] = left[u]
                 /\ u \in pending'
    BY <2>1, RemoveKeeps
  <2>3. u \in Task /\ Asleep(u)
    BY SleepersAreTasks DEF KernelInv
  <2>4. Wakes({u})
    BY <2>2, <2>3 DEF Wakes
  <2>5. UNCHANGED <<pxCurrentTCB, uxSchedulerSuspended, xTickCount>>
    BY <2>1 DEF RemoveFromEventList
  <2>. QED  BY <1>0, <1>2, <2>2, <2>4, <2>5
<1>. QED  BY <1>1, <1>2

\* The loops of prvUnlockQueue wake as many as were counted, if there are so many.
LEMMA WakeLockedWakes ==
  ASSUME KernelInv, NEW l \in EventList, NEW cLock \in Nat, WakeLocked(cLock, l),
         uxSchedulerSuspended > 0
  PROVE  /\ KernelInv'
         /\ UNCHANGED <<use, pxCurrentTCB, uxSchedulerSuspended, xTickCount>>
         /\ \E W \in SUBSET Sleepers(l) :
              /\ Wakes(W) /\ IsFiniteSet(W)
              /\ \/ Cardinality(W) = cLock
                 \/ Cardinality(Sleepers(l)) <= cLock /\ W = Sleepers(l)
<1>. DEFINE waiters == xEventLists[l]
            n == UnlockWakes(cLock, l)
            W == ToSet(SubSeq(waiters, 1, n))
<1>0. KernelTypeOK /\ waiters \in Seq(Task) /\ IsInjective(waiters)
  BY DEF KernelInv, KernelTypeOK
<1>1. /\ n \in 0 .. Len(waiters) /\ (n = cLock \/ (n = Len(waiters) /\ Len(waiters) <= cLock))
  BY <1>0 DEF UnlockWakes
<1>. HIDE DEF n
<1>2. /\ xEventLists' = [xEventLists EXCEPT ![l] = SubSeq(waiters, n + 1, Len(waiters))]
      /\ pending' = pending \cup W /\ state' = state /\ left' = left
      /\ UNCHANGED <<use, pxCurrentTCB, uxSchedulerSuspended, xTickCount>>
  BY DEF WakeLocked, n
<1>3. /\ SubSeq(waiters, 1, n) \in Seq(Task) /\ Len(SubSeq(waiters, 1, n)) = n
      /\ IsInjective(SubSeq(waiters, 1, n))
      /\ SubSeq(waiters, n + 1, Len(waiters)) \in Seq(Task)
      /\ IsInjective(SubSeq(waiters, n + 1, Len(waiters)))
      /\ W \subseteq ToSet(waiters)
      /\ ToSet(SubSeq(waiters, n + 1, Len(waiters))) = ToSet(waiters) \ W
  BY <1>0, <1>1, FirstAndRest
<1>4. IsFiniteSet(W) /\ Cardinality(W) = n
  BY <1>3, ListCardinality
<1>5. IsFiniteSet(Sleepers(l)) /\ Cardinality(Sleepers(l)) = Len(waiters)
  BY <1>0, ListCardinality DEF Sleepers
<1>. HIDE DEF W, waiters
<1>6. W \in SUBSET Sleepers(l) /\ Sleepers(l) \subseteq Task
  BY <1>0, <1>3, SleepersAreTasks DEF Sleepers, waiters
<1>7. \A u \in W : u \in Task /\ Asleep(u)
  BY <1>6 DEF KernelInv
<1>8. \A m \in EventList : IsInjective(xEventLists'[m]) /\ Sleepers(m)' = Sleepers(m) \ W
  <2>. SUFFICES ASSUME NEW m \in EventList
                PROVE  IsInjective(xEventLists'[m]) /\ Sleepers(m)' = Sleepers(m) \ W
    OBVIOUS
  <2>1. CASE m = l
    <3>1. xEventLists'[m] = SubSeq(waiters, n + 1, Len(waiters))
      BY <1>0, <1>2, <2>1 DEF KernelTypeOK
    <3>. QED  BY <1>3, <2>1, <3>1 DEF Sleepers, waiters
  <2>2. CASE m # l
    <3>1. xEventLists'[m] = xEventLists[m]
      BY <1>0, <1>2, <2>2 DEF KernelTypeOK
    <3>2. Sleepers(m) \cap W = {}
      BY <1>6, <2>2 DEF KernelInv
    <3>. QED  BY <3>1, <3>2 DEF Sleepers, KernelInv
  <2>. QED  BY <2>1, <2>2
<1>9. Wakes(W)
  BY <1>2, <1>7, <1>8 DEF Wakes
<1>10. KernelTypeOK'
  BY <1>0, <1>2, <1>3, <1>6 DEF KernelTypeOK
<1>11. \A m \in EventList : \A u \in Sleepers(m)' :
         u \in Sleepers(m) /\ state'[u] = state[u] /\ u \notin pending'
  BY <1>2, <1>8 DEF KernelInv
<1>12. \A u \in pending' : Asleep(u)'
  BY <1>2, <1>7 DEF KernelInv, Asleep
<1>13. \A u \in Task : state'[u] = "blocked" => left'[u] > 0
  BY <1>2 DEF KernelInv
<1>14. KernelInv'
  BY <1>2, <1>8, <1>10, <1>11, <1>12, <1>13, KernelKeeps
<1>15. Cardinality(W) = cLock \/ (Cardinality(Sleepers(l)) <= cLock /\ W = Sleepers(l))
  <2>1. CASE n = cLock
    BY <1>4, <2>1
  <2>2. CASE n = Len(waiters) /\ Len(waiters) <= cLock
    <3>1. W = Sleepers(l)
      BY <1>4, <1>5, <1>6, <2>2, FS_Subset
    <3>. QED  BY <1>5, <2>2, <3>1
  <2>. QED  BY <1>1, <2>1, <2>2
<1>. QED  BY <1>2, <1>4, <1>6, <1>9, <1>14, <1>15

\* xTaskAbortDelay and xTaskResumeAll.
LEMMA AbortWakes ==
  ASSUME KernelInv, NEW t \in Task, NEW u \in Task, AbortDelay(t, u)
  PROVE  /\ KernelInv' /\ Wakes({u}) /\ pxCurrentTCB' = pxCurrentTCB /\ xTickCount' = xTickCount
         /\ uxSchedulerSuspended' = uxSchedulerSuspended + 1
<1>1. /\ MoveTo(u, "ready") /\ LeaveEventLists({u}) /\ Asleep(u)
      /\ pxCurrentTCB' = pxCurrentTCB /\ xTickCount' = xTickCount
      /\ uxSchedulerSuspended' = uxSchedulerSuspended + 1
  BY DEF AbortDelay, Asleep
<1>2. /\ KernelInv'
      /\ \A m \in EventList : Sleepers(m)' = Sleepers(m) \ {u}
      /\ \A v \in Task \ {u} : state'[v] = state[v] /\ left'[v] = left[v]
                               /\ (v \in pending' <=> v \in pending)
      /\ state'[u] = "ready" /\ u \notin pending'
  BY <1>1, ReadyKeeps
<1>. QED  BY <1>1, <1>2 DEF Wakes

\* Resuming the scheduler readies what is pending, which is in no list any more.
LEMMA ResumeAllWakes ==
  ASSUME KernelInv, NEW t, ResumeAll(t)
  PROVE  /\ KernelInv' /\ Wakes(pending) /\ pxCurrentTCB' = pxCurrentTCB /\ xTickCount' = xTickCount
         /\ uxSchedulerSuspended > 0 /\ uxSchedulerSuspended' = uxSchedulerSuspended - 1
         /\ \A l \in EventList : Sleepers(l)' = Sleepers(l)
<1>1. /\ KernelInv' /\ \A l \in EventList : Sleepers(l)' = Sleepers(l)
      /\ \A u \in Task : \/ state'[u] = state[u] /\ left'[u] = left[u]
                         \/ u \in pending /\ state'[u] = "ready"
  BY ResumeAllKeeps
<1>2. \A u \in pending : u \in Task /\ Asleep(u)
  BY DEF KernelInv, KernelTypeOK
<1>3. \A l \in EventList : Sleepers(l) \cap pending = {}
  BY DEF KernelInv
<1>4. Wakes(pending)
  BY <1>1, <1>2, <1>3 DEF Wakes
<1>. QED  BY <1>1, <1>4 DEF ResumeAll

\* Nobody is created or deleted.
LEMMA SameNumber ==
  ASSUME NEW W, Wakes(W)
  PROVE  uxCurrentNumberOfTasks' = uxCurrentNumberOfTasks
<1>1. \A u \in Task : state'[u] = "none" <=> state[u] = "none"
  BY DEF Wakes, Asleep
<1>2. {u \in Task : state'[u] # "none"} = {u \in Task : state[u] # "none"}
  BY <1>1
<1>. QED  BY <1>2 DEF uxCurrentNumberOfTasks

\* There are no more tasks than the constant says.
LEMMA NumberOfTasks ==
  ASSUME KernelTypeOK
  PROVE  /\ uxCurrentNumberOfTasks \in 0 .. Cardinality(Task) /\ Cardinality(Task) \in Nat
         /\ \A S \in SUBSET Task : (\A u \in S : state[u] # "none")
              => IsFiniteSet(S) /\ Cardinality(S) <= uxCurrentNumberOfTasks
<1>. DEFINE E == {u \in Task : state[u] # "none"}
<1>1. E \in SUBSET Task /\ IsFiniteSet(Task) /\ Cardinality(Task) \in Nat
  BY KernelAssumption, FS_CardinalityType
<1>2. IsFiniteSet(E) /\ Cardinality(E) \in Nat /\ Cardinality(E) <= Cardinality(Task)
  BY <1>1, FS_Subset, FS_CardinalityType
<1>3. ASSUME NEW S \in SUBSET Task, \A u \in S : state[u] # "none"
      PROVE  IsFiniteSet(S) /\ Cardinality(S) <= Cardinality(E)
  <2>1. S \in SUBSET E
    BY <1>3
  <2>. QED  BY <1>2, <2>1, FS_Subset
<1>. QED  BY <1>1, <1>2, <1>3 DEF uxCurrentNumberOfTasks

-----------------------------------------------------------------------------
(* Every reachable state satisfies CallInv *)

\* Every step is one of these.
LEMMA Cases ==
  ASSUME [QueueNext]_queueVars
  PROVE  \/ Scheduler \/ xQueueGenericSendFromISR \/ xQueueReceiveFromISR
         \/ \E t \in Task : CallStep(t)
         \/ UNCHANGED queueVars
BY DEF QueueNext

\* At the start nobody is in a call.
LEMMA CallInit == QueueInit => CallInv
<1>. SUFFICES ASSUME QueueInit PROVE CallInv
  OBVIOUS
<1>1. KernelInv /\ \A l \in EventList : Sleepers(l) = {}
  BY KernelInit DEF QueueInit
<1>2. Cardinality(Task) \in Nat
  BY KernelAssumption, FS_CardinalityType
<1>3. CallType
  <2>1. use \in Uses /\ use.length \in Nat \ {0}
    BY QueueAssumption DEF QueueInit
  <2>2. uxMessagesWaiting \in 0 .. uxLength
    BY <2>1 DEF QueueInit, uxLength
  <2>3. stranding \in BOOLEAN /\ expired \in [Task -> BOOLEAN]
    BY DEF QueueInit
  <2>. QED  BY <1>2, <2>1, <2>2, <2>3 DEF QueueInit, CallType, Ops, Steps, queueUNLOCKED
<1>4. \A t \in Task : ~Asleep(t)
  BY DEF QueueInit, Init, Asleep
<1>. QED
  BY <1>1, <1>3, <1>4 DEF CallInv, QueueInit, Init, Locked, TxLocked, RxLocked, KernelInv, KernelTypeOK

\* What a call step must keep for CallInv: it moves the call of the running task.
LEMMA CallMoves ==
  ASSUME CallInv, KernelInv', CallType', NEW t \in Task, t = pxCurrentTCB, pxCurrentTCB' = t,
         NEW W, Wakes(W),
         \A u \in Task \ {t} : step'[u] = step[u] /\ op'[u] = op[u] /\ expired'[u] = expired[u],
         uxSchedulerSuspended' \in {0, 1},
         step'[t] \in Locked => uxSchedulerSuspended' = 1,
         uxSchedulerSuspended' = 1 => step'[t] \in Locked \cup {"none"},
         cTxLock' # queueUNLOCKED <=> step'[t] \in TxLocked,
         cRxLock' # queueUNLOCKED <=> step'[t] \in RxLocked,
         op'[t] = "none" <=> step'[t] = "none",
         expired'[t] => step'[t] \in {"unlockTx", "unlockRx", "resume", "expired"},
         Asleep(t) => step'[t] \in Placed /\ ~expired'[t] /\ op'[t] = op[t]
  PROVE  CallInv'
<1>1. /\ \A u \in Task : Asleep(u)' => Asleep(u)
      /\ \A l \in EventList : Sleepers(l)' \subseteq Sleepers(l)
      /\ \A l \in EventList : Sleepers(l) \subseteq Task
  BY SleepersAreTasks DEF Wakes, Asleep, CallInv, KernelInv
<1>2. \A u \in Task : step'[u] \in Locked => u = pxCurrentTCB' /\ uxSchedulerSuspended' = 1
  BY DEF CallInv
<1>3. \A u \in Task : op'[u] = "none" <=> step'[u] = "none"
  BY DEF CallInv
<1>4. \A u \in Task : expired'[u] => step'[u] \in {"unlockTx", "unlockRx", "resume", "expired"}
  BY DEF CallInv
<1>5. \A u \in Task : Asleep(u)' => step'[u] \in Placed /\ ~expired'[u]
  BY <1>1 DEF CallInv
<1>6. \A l \in EventList : \A u \in Sleepers(l)' : Waiters(op'[u]) = l
  <2>. SUFFICES ASSUME NEW l \in EventList, NEW u \in Sleepers(l)' PROVE Waiters(op'[u]) = l
    OBVIOUS
  <2>1. u \in Sleepers(l) /\ u \in Task /\ Asleep(u)
    BY <1>1 DEF CallInv, KernelInv
  <2>2. op'[u] = op[u]
    BY <2>1
  <2>. QED  BY <2>1, <2>2 DEF CallInv
<1>7. \A o : Waiters(o)' = Waiters(o)
  BY DEF Waiters
<1>. QED  BY <1>2, <1>3, <1>4, <1>5, <1>6, <1>7 DEF CallInv

\* Outside the locked part of its call the running task finds the scheduler
\* running and the queue unlocked, and is ready.
LEMMA Unlocked ==
  ASSUME CallInv, NEW t \in Task, NEW s, At(t, s), s \notin Locked, s # "none" \/ uxSchedulerSuspended = 0
  PROVE  /\ t = pxCurrentTCB /\ step[t] = s /\ uxSchedulerSuspended = 0 /\ ~Asleep(t)
         /\ cTxLock = queueUNLOCKED /\ cRxLock = queueUNLOCKED
<1>1. t = pxCurrentTCB /\ step[t] = s /\ (state[t] = "ready" \/ uxSchedulerSuspended > 0)
  BY DEF At, AtCall
<1>2. uxSchedulerSuspended = 0
  BY <1>1 DEF CallInv
<1>3. ~Asleep(t)
  BY <1>1, <1>2 DEF Asleep
<1>4. s \notin TxLocked /\ s \notin RxLocked
  BY DEF TxLocked, RxLocked, Locked
<1>. QED  BY <1>1, <1>2, <1>3, <1>4 DEF CallInv

\* In the locked part it finds the scheduler suspended.
LEMMA InLocked ==
  ASSUME CallInv, NEW t \in Task, NEW s, At(t, s), s \in Locked
  PROVE  /\ t = pxCurrentTCB /\ step[t] = s /\ uxSchedulerSuspended = 1
         /\ cTxLock # queueUNLOCKED <=> s \in TxLocked
         /\ cRxLock # queueUNLOCKED <=> s \in RxLocked
BY DEF CallInv, At, AtCall

\* What the number of items becomes when a call is served.
LEMMA Served ==
  ASSUME CallType, NEW t \in Task, op[t] # "none", Ready(t)
  PROVE  After(op[t]) \in 0 .. uxLength
<1>1. uxLength \in Nat /\ uxMessagesWaiting \in 0 .. uxLength /\ op[t] \in Ops
  BY QueueAssumption DEF CallType, uxLength
<1>2. CASE op[t] = "send"
  BY <1>1, <1>2 DEF Ready, After
<1>3. CASE op[t] = "receive"
  BY <1>1, <1>3 DEF Ready, After
<1>4. CASE op[t] = "peek"
  BY <1>1, <1>4 DEF Ready, After
<1>. QED  BY <1>1, <1>2, <1>3, <1>4 DEF Ops

\* A step of a call keeps CallInv.
LEMMA CallStepKeeps ==
  ASSUME CallInv, TimeInv, NEW t \in Task, CallStep(t)
  PROVE  CallInv'
<1>0. /\ KernelInv /\ CallType /\ KernelTypeOK
      /\ uxLength \in Nat \ {0} /\ Cardinality(Task) \in Nat
  BY QueueAssumption, NumberOfTasks DEF CallInv, KernelInv, CallType, uxLength
<1>1. CASE \E o \in Ops \ {"none"}, n \in use.waitTimes[t] : BeginCall(t, o, n)
  <2>1. PICK o \in Ops \ {"none"}, n \in use.waitTimes[t] : BeginCall(t, o, n)
    BY <1>1
  <2>2. /\ t = pxCurrentTCB /\ step[t] = "none" /\ uxSchedulerSuspended = 0 /\ ~Asleep(t)
        /\ cTxLock = queueUNLOCKED /\ cRxLock = queueUNLOCKED
    BY <2>1, Unlocked DEF BeginCall, Locked
  <2>3. /\ KernelInv' /\ Wakes({})
        /\ UNCHANGED <<pxCurrentTCB, uxSchedulerSuspended, xTickCount>>
    BY <1>0, <2>1, KernelStill DEF BeginCall
  <2>4. /\ op' = [op EXCEPT ![t] = o] /\ step' = [step EXCEPT ![t] = "first"]
        /\ expired' = expired /\ UNCHANGED <<use, storeVars, stranding>>
    BY <2>1 DEF BeginCall, Goto
  <2>5. CallType'
    BY <1>0, <2>4 DEF CallType, storeVars, Steps, uxLength
  <2>6. ~expired[t]
    BY <2>2 DEF CallInv
  <2>. QED
    BY <1>0, <2>2, <2>3, <2>4, <2>5, <2>6, CallMoves
       DEF CallType, storeVars, Locked, TxLocked, RxLocked
<1>2. ASSUME Return(t), NEW W, Wakes(W), KernelInv',
             NEW s, At(t, s), s \notin Locked, s # "none",
             UNCHANGED <<pxCurrentTCB, uxSchedulerSuspended, use, cRxLock, cTxLock>>,
             uxMessagesWaiting' \in 0 .. uxLength, stranding' \in BOOLEAN
      PROVE  CallInv'
  <2>1. /\ t = pxCurrentTCB /\ step[t] = s /\ uxSchedulerSuspended = 0 /\ ~Asleep(t)
        /\ cTxLock = queueUNLOCKED /\ cRxLock = queueUNLOCKED
    BY <1>2, Unlocked
  <2>2. /\ op' = [op EXCEPT ![t] = "none"] /\ step' = [step EXCEPT ![t] = "none"]
        /\ expired' = [expired EXCEPT ![t] = FALSE]
    BY <1>2 DEF Return
  <2>3. CallType'
    BY <1>0, <1>2, <2>2 DEF CallType, Steps, Ops, uxLength
  <2>. QED
    BY <1>0, <1>2, <2>1, <2>2, <2>3, CallMoves DEF CallType, Locked, TxLocked, RxLocked
<1>3. CASE Serve(t)
  <2>1. PICK s \in {"first", "check"} : At(t, s)
    BY <1>3 DEF Serve
  <2>2. op[t] # "none"
    BY <2>1 DEF CallInv, At
  <2>3. After(op[t]) \in 0 .. uxLength /\ NextInLine(op[t]) \in EventList
    BY <1>0, <1>3, <2>2, Served, Lists2 DEF Serve
  <2>4. /\ KernelInv' /\ UNCHANGED <<pxCurrentTCB, uxSchedulerSuspended, xTickCount>>
        /\ \E W : Wakes(W)
    BY <1>0, <1>3, <2>3, WakeOneWakes DEF Serve
  <2>5. stranding' \in BOOLEAN
    BY <1>3 DEF Serve, StillStranding
  <2>. QED  BY <1>2, <1>3, <2>1, <2>3, <2>4, <2>5 DEF Serve, Locked
<1>4. CASE FailAtOnce(t)
  <2>1. PICK s \in {"first", "check"} : At(t, s)
    BY <1>4 DEF FailAtOnce
  <2>4. /\ KernelInv' /\ UNCHANGED <<pxCurrentTCB, uxSchedulerSuspended, xTickCount>> /\ Wakes({})
    BY <1>0, <1>4, KernelStill DEF FailAtOnce
  <2>. QED  BY <1>0, <1>2, <1>4, <2>1, <2>4 DEF FailAtOnce, Locked, storeVars, CallType
<1>5. ASSUME NEW s \in Steps, Goto(t, s), NEW W, Wakes(W), KernelInv', pxCurrentTCB' = pxCurrentTCB,
             NEW r, At(t, r), r # "none", s # "none",
             uxSchedulerSuspended' \in {0, 1},
             s \in Locked <=> uxSchedulerSuspended' = 1,
             cTxLock' # queueUNLOCKED <=> s \in TxLocked,
             cRxLock' # queueUNLOCKED <=> s \in RxLocked,
             expired' \in [Task -> BOOLEAN], \A u \in Task \ {t} : expired'[u] = expired[u],
             expired'[t] => s \in {"unlockTx", "unlockRx", "resume", "expired"},
             Asleep(t) => s \in Placed /\ ~expired'[t],
             UNCHANGED <<use, op, uxMessagesWaiting>>,
             cTxLock' \in -1 .. Cardinality(Task), cRxLock' \in -1 .. Cardinality(Task),
             stranding' \in BOOLEAN
      PROVE  CallInv'
  <2>1. t = pxCurrentTCB /\ step[t] = r
    BY <1>5 DEF At, AtCall
  <2>2. step' = [step EXCEPT ![t] = s] /\ op' = op /\ op[t] # "none"
    BY <1>5, <2>1 DEF Goto, CallInv
  <2>3. CallType'
    BY <1>0, <1>5, <2>2 DEF CallType, uxLength
  <2>. QED  BY <1>0, <1>5, <2>1, <2>2, <2>3, CallMoves DEF CallType
<1>6. CASE StartWaiting(t)
  <2>1. PICK r \in {"first", "check"} : At(t, r)
    BY <1>6 DEF StartWaiting
  <2>2. /\ uxSchedulerSuspended = 0 /\ ~Asleep(t) /\ step[t] = r
        /\ cTxLock = queueUNLOCKED /\ cRxLock = queueUNLOCKED
    BY <2>1, Unlocked DEF Locked
  <2>3. /\ KernelInv' /\ Wakes({})
        /\ UNCHANGED <<pxCurrentTCB, uxSchedulerSuspended, xTickCount>>
    BY <1>0, <1>6, KernelStill DEF StartWaiting
  <2>4. Goto(t, "lock") /\ UNCHANGED <<use, op, expired, storeVars, stranding>> /\ ~expired[t]
    BY <1>6, <2>2 DEF StartWaiting, CallInv
  <2>. QED
    BY <1>0, <1>5, <2>1, <2>2, <2>3, <2>4
       DEF CallType, storeVars, Locked, TxLocked, RxLocked, Steps
<1>7. CASE Lock(t)
  <2>1. At(t, "lock") /\ SuspendAll(t)
    BY <1>7 DEF Lock
  <2>2. /\ uxSchedulerSuspended = 0 /\ ~Asleep(t) /\ step[t] = "lock"
        /\ cTxLock = queueUNLOCKED /\ cRxLock = queueUNLOCKED
    BY <2>1, Unlocked DEF Locked
  <2>3. KernelInv' /\ \A l \in EventList : Sleepers(l)' = Sleepers(l)
    BY <1>0, <2>1, SuspendAllKeeps
  <2>4. /\ pxCurrentTCB' = pxCurrentTCB /\ uxSchedulerSuspended' = 1 /\ state' = state /\ left' = left
    BY <2>1, <2>2 DEF SuspendAll
  <2>5. Wakes({})
    BY <2>3, <2>4 DEF Wakes
  <2>6. /\ Goto(t, "timeout") /\ UNCHANGED <<use, op, expired, uxMessagesWaiting, stranding>>
        /\ cTxLock' = 0 /\ cRxLock' = 0 /\ ~expired[t]
    BY <1>7, <2>2 DEF Lock, CallInv, queueLOCKED_UNMODIFIED
  <2>. QED
    BY <1>0, <1>5, <2>1, <2>2, <2>3, <2>4, <2>5, <2>6
       DEF CallType, Locked, TxLocked, RxLocked, Steps, queueUNLOCKED
<1>8. CASE xTaskCheckForTimeOut(t)
  <2>1. At(t, "timeout")
    BY <1>8 DEF xTaskCheckForTimeOut
  <2>2. /\ uxSchedulerSuspended = 1 /\ step[t] = "timeout"
        /\ cTxLock # queueUNLOCKED /\ cRxLock # queueUNLOCKED
    BY <2>1, InLocked DEF Locked, TxLocked, RxLocked
  <2>3. ~Asleep(t) /\ ~expired[t]
    BY <2>2 DEF CallInv, Placed
  <2>4. UNCHANGED <<pxCurrentTCB, state, left, xEventLists, pending, uxSchedulerSuspended, xTickCount>>
    BY <1>8 DEF xTaskCheckForTimeOut
  <2>5. KernelInv' /\ \A l \in EventList : Sleepers(l)' = Sleepers(l)
    BY <1>0, <2>4, StutterKeeps
  <2>6. Wakes({})
    BY <2>4, <2>5 DEF Wakes
  <2>7. PICK s \in {"unlockTx", "test"}, e \in BOOLEAN :
          /\ Goto(t, s) /\ expired' = [expired EXCEPT ![t] = e] /\ (e => s = "unlockTx")
    <3>1. CASE TimedOut(t)
      BY <1>8, <3>1 DEF xTaskCheckForTimeOut
    <3>2. CASE ~TimedOut(t)
      <4>1. expired' = [expired EXCEPT ![t] = FALSE]
        BY <1>0, <1>8, <2>3, <3>2 DEF xTaskCheckForTimeOut, CallType
      <4>. QED  BY <1>8, <3>2, <4>1 DEF xTaskCheckForTimeOut
    <3>. QED  BY <3>1, <3>2
  <2>8. UNCHANGED <<use, op, storeVars, stranding>>
    BY <1>8 DEF xTaskCheckForTimeOut
  <2>9. /\ expired' \in [Task -> BOOLEAN] /\ expired'[t] = e
        /\ \A u \in Task \ {t} : expired'[u] = expired[u]
    BY <1>0, <2>7 DEF CallType
  <2>. QED
    BY <1>0, <1>5, <2>1, <2>2, <2>3, <2>4, <2>5, <2>6, <2>7, <2>8, <2>9
       DEF CallType, storeVars, Locked, TxLocked, RxLocked, Steps
<1>9. CASE Test(t)
  <2>1. At(t, "test")
    BY <1>9 DEF Test
  <2>2. /\ uxSchedulerSuspended = 1 /\ step[t] = "test"
        /\ cTxLock # queueUNLOCKED /\ cRxLock # queueUNLOCKED
    BY <2>1, InLocked DEF Locked, TxLocked, RxLocked
  <2>3. ~Asleep(t) /\ ~expired[t]
    BY <2>2 DEF CallInv, Placed
  <2>4. /\ KernelInv' /\ Wakes({})
        /\ UNCHANGED <<pxCurrentTCB, uxSchedulerSuspended, xTickCount>>
    BY <1>0, <1>9, KernelStill DEF Test
  <2>5. PICK s \in {"place", "unlockTx"} : Goto(t, s)
    BY <1>9 DEF Test, AfterTest
  <2>6. UNCHANGED <<use, op, expired, storeVars, stranding>>
    BY <1>9 DEF Test
  <2>. QED
    BY <1>0, <1>5, <2>1, <2>2, <2>3, <2>4, <2>5, <2>6
       DEF CallType, storeVars, Locked, TxLocked, RxLocked, Steps
<1>10. CASE UnlockTx(t)
  <2>1. At(t, "unlockTx")
    BY <1>10 DEF UnlockTx
  <2>2. /\ uxSchedulerSuspended = 1 /\ step[t] = "unlockTx"
        /\ cTxLock # queueUNLOCKED /\ cRxLock # queueUNLOCKED
    BY <2>1, InLocked DEF Locked, TxLocked, RxLocked
  <2>3. cTxLock \in Nat
    BY <1>0, <2>2 DEF CallType, queueUNLOCKED
  <2>4. KernelInv' /\ UNCHANGED <<use, pxCurrentTCB, uxSchedulerSuspended, xTickCount>> /\ \E W : Wakes(W)
    BY <1>0, <1>10, <2>2, <2>3, WakeLockedWakes, Lists2 DEF UnlockTx
  <2>5. /\ Goto(t, "unlockRx") /\ UNCHANGED <<op, expired, uxMessagesWaiting, cRxLock, stranding>>
        /\ cTxLock' = queueUNLOCKED
    BY <1>10 DEF UnlockTx
  <2>6. Asleep(t) => ~expired[t]
    BY DEF CallInv
  <2>. QED
    BY <1>0, <1>5, <2>1, <2>2, <2>4, <2>5, <2>6
       DEF CallType, Locked, TxLocked, RxLocked, Steps, Placed, queueUNLOCKED
<1>11. CASE UnlockRx(t)
  <2>1. At(t, "unlockRx")
    BY <1>11 DEF UnlockRx
  <2>2. /\ uxSchedulerSuspended = 1 /\ step[t] = "unlockRx"
        /\ cTxLock = queueUNLOCKED /\ cRxLock # queueUNLOCKED
    BY <2>1, InLocked DEF Locked, TxLocked, RxLocked
  <2>3. cRxLock \in Nat
    BY <1>0, <2>2 DEF CallType, queueUNLOCKED
  <2>4. KernelInv' /\ UNCHANGED <<use, pxCurrentTCB, uxSchedulerSuspended, xTickCount>> /\ \E W : Wakes(W)
    BY <1>0, <1>11, <2>2, <2>3, WakeLockedWakes, Lists2 DEF UnlockRx
  <2>5. /\ Goto(t, "resume") /\ UNCHANGED <<op, expired, uxMessagesWaiting, cTxLock>>
        /\ cRxLock' = queueUNLOCKED /\ stranding' \in BOOLEAN
    BY <1>11 DEF UnlockRx, StillStranding
  <2>6. Asleep(t) => ~expired[t]
    BY DEF CallInv
  <2>. QED
    BY <1>0, <1>5, <2>1, <2>2, <2>4, <2>5, <2>6
       DEF CallType, Locked, TxLocked, RxLocked, Steps, Placed, queueUNLOCKED
<1>12. CASE ResumeScheduler(t)
  <2>1. At(t, "resume") /\ ResumeAll(t)
    BY <1>12 DEF ResumeScheduler
  <2>2. /\ uxSchedulerSuspended = 1 /\ step[t] = "resume"
        /\ cTxLock = queueUNLOCKED /\ cRxLock = queueUNLOCKED
    BY <2>1, InLocked DEF Locked, TxLocked, RxLocked
  <2>3. KernelInv' /\ Wakes(pending) /\ pxCurrentTCB' = pxCurrentTCB /\ uxSchedulerSuspended' = 0
    BY <1>0, <2>1, <2>2, ResumeAllWakes
  <2>4. PICK s \in {"check", "expired"} : Goto(t, s) /\ (s = "check" <=> ~expired[t])
    BY <1>12 DEF ResumeScheduler
  <2>5. UNCHANGED <<use, op, expired, storeVars, stranding>>
    BY <1>12 DEF ResumeScheduler
  <2>6. Asleep(t) => ~expired[t]
    BY DEF CallInv
  <2>. QED
    BY <1>0, <1>5, <2>1, <2>2, <2>3, <2>4, <2>5, <2>6
       DEF CallType, storeVars, Locked, TxLocked, RxLocked, Steps, Placed
<1>13. CASE Expire(t)
  <2>1. At(t, "expired")
    BY <1>13 DEF Expire
  <2>2. /\ uxSchedulerSuspended = 0 /\ ~Asleep(t) /\ step[t] = "expired"
        /\ cTxLock = queueUNLOCKED /\ cRxLock = queueUNLOCKED
    BY <2>1, Unlocked DEF Locked
  <2>3. /\ KernelInv' /\ UNCHANGED <<pxCurrentTCB, uxSchedulerSuspended, xTickCount>> /\ Wakes({})
    BY <1>0, <1>13, KernelStill DEF Expire
  <2>4. UNCHANGED <<use, storeVars, stranding>>
    BY <1>13 DEF Expire
  <2>5. CASE op[t] = "send" \/ Empty
    BY <1>0, <1>2, <1>13, <2>1, <2>3, <2>4, <2>5 DEF Expire, Locked, storeVars, CallType
  <2>6. CASE ~(op[t] = "send" \/ Empty)
    <3>1. Goto(t, "check") /\ expired' = [expired EXCEPT ![t] = FALSE] /\ op' = op
      BY <1>13, <2>6 DEF Expire
    <3>. QED
      BY <1>0, <1>5, <2>1, <2>2, <2>3, <2>4, <3>1
         DEF CallType, storeVars, Locked, TxLocked, RxLocked, Steps
  <2>. QED  BY <2>5, <2>6
<1>14. CASE xQueueGenericReset(t)
  <2>1. At(t, "none") /\ uxSchedulerSuspended = 0
    BY <1>14 DEF xQueueGenericReset
  <2>2. /\ t = pxCurrentTCB /\ ~Asleep(t) /\ step[t] = "none"
        /\ cTxLock = queueUNLOCKED /\ cRxLock = queueUNLOCKED
    BY <2>1, Unlocked DEF Locked
  <2>3. KernelInv' /\ UNCHANGED <<pxCurrentTCB, uxSchedulerSuspended, xTickCount>> /\ \E W : Wakes(W)
    BY <1>0, <1>14, WakeOneWakes, Lists2 DEF xQueueGenericReset
  <2>4. /\ UNCHANGED <<use, op, step, expired>> /\ uxMessagesWaiting' = 0
        /\ cTxLock' = queueUNLOCKED /\ cRxLock' = queueUNLOCKED /\ stranding' \in BOOLEAN
    BY <1>14 DEF xQueueGenericReset, callVars
  <2>5. CallType'
    BY <1>0, <2>4 DEF CallType, queueUNLOCKED, uxLength
  <2>6. op[t] = "none" /\ ~expired[t]
    BY <2>2 DEF CallInv
  <2>. QED
    BY <2>1, <2>2, <2>3, <2>4, <2>5, <2>6, CallMoves DEF Locked, TxLocked, RxLocked
<1>15. CASE \E u \in Task : xTaskAbortDelay(t, u)
  <2>0. PICK u \in Task : xTaskAbortDelay(t, u)
    BY <1>15
  <2>1. At(t, "none") /\ uxSchedulerSuspended = 0 /\ AbortDelay(t, u)
    BY <2>0 DEF xTaskAbortDelay
  <2>2. /\ t = pxCurrentTCB /\ ~Asleep(t) /\ step[t] = "none"
        /\ cTxLock = queueUNLOCKED /\ cRxLock = queueUNLOCKED
    BY <2>1, Unlocked DEF Locked
  <2>3. KernelInv' /\ Wakes({u}) /\ pxCurrentTCB' = pxCurrentTCB /\ uxSchedulerSuspended' = 1
    BY <1>0, <2>1, AbortWakes
  <2>4. UNCHANGED <<use, op, step, expired, storeVars>> /\ stranding' \in BOOLEAN
    BY <2>0 DEF xTaskAbortDelay, StillStranding
  <2>5. CallType'
    BY <1>0, <2>4 DEF CallType, storeVars, uxLength
  <2>6. op[t] = "none" /\ ~expired[t]
    BY <2>2 DEF CallInv
  <2>. QED
    BY <2>1, <2>2, <2>3, <2>4, <2>5, <2>6, CallMoves DEF storeVars, Locked, TxLocked, RxLocked
<1>16. CASE AbortDone(t)
  <2>1. At(t, "none") /\ ResumeAll(t)
    BY <1>16 DEF AbortDone
  <2>2. t = pxCurrentTCB /\ step[t] = "none"
    BY <2>1 DEF At, AtCall
  <2>3. /\ KernelInv' /\ Wakes(pending) /\ pxCurrentTCB' = pxCurrentTCB
        /\ uxSchedulerSuspended > 0 /\ uxSchedulerSuspended' = uxSchedulerSuspended - 1
    BY <1>0, <2>1, ResumeAllWakes
  <2>4. UNCHANGED <<use, op, step, expired, storeVars, stranding>>
    BY <1>16 DEF AbortDone, callVars
  <2>5. CallType'
    BY <1>0, <2>4 DEF CallType, storeVars, uxLength
  <2>6. op[t] = "none" /\ ~expired[t] /\ ~Asleep(t) /\ uxSchedulerSuspended' = 0
    BY <2>2, <2>3 DEF CallInv, Placed
  <2>7. cTxLock = queueUNLOCKED /\ cRxLock = queueUNLOCKED
    BY <2>2 DEF CallInv, TxLocked, RxLocked
  <2>. QED
    BY <2>2, <2>3, <2>4, <2>5, <2>6, <2>7, CallMoves DEF storeVars, Locked, TxLocked, RxLocked
<1>17. CASE Place(t)
  <2>1. At(t, "place")
    BY <1>17 DEF Place
  <2>2. /\ t = pxCurrentTCB /\ uxSchedulerSuspended = 1 /\ step[t] = "place"
        /\ cTxLock # queueUNLOCKED /\ cRxLock # queueUNLOCKED
    BY <2>1, InLocked DEF Locked, TxLocked, RxLocked
  <2>3. xTicksToWait[t] \in 1 .. portMAX_DELAY
    BY <2>2, TickType DEF TimeInv, TimeType, TimeOK, RestOK
  <2>4. PICK l \in EventList : l = Waiters(op[t])
    BY Lists2
  <2>5. PlaceOnEventList(t, l, xTicksToWait[t])
    BY <1>17, <2>4 DEF Place
  <2>6. /\ KernelInv'
        /\ \A m \in EventList : Sleepers(m)' = IF m = l THEN Sleepers(l) \cup {t} ELSE Sleepers(m)
        /\ \A u \in Task \ {t} : state'[u] = state[u] /\ left'[u] = left[u]
    BY <1>0, <2>3, <2>5, PlaceKeeps
  <2>7. pxCurrentTCB' = pxCurrentTCB /\ uxSchedulerSuspended' = uxSchedulerSuspended
    BY <2>5 DEF PlaceOnEventList
  <2>8. step' = [step EXCEPT ![t] = "unlockTx"] /\ UNCHANGED <<use, op, expired, storeVars, stranding>>
    BY <1>17 DEF Place, Goto
  <2>9. CallType'
    BY <1>0, <2>8 DEF CallType, storeVars, Steps, uxLength
  <2>10. ~expired[t] /\ step \in [Task -> Steps] /\ op[t] # "none"
    BY <1>0, <2>2 DEF CallInv, CallType
  <2>11. \A u \in Task : Asleep(u)' => step'[u] \in Placed /\ ~expired'[u]
    BY <2>6, <2>8, <2>10 DEF CallInv, Asleep, Placed
  <2>12. \A m \in EventList : \A u \in Sleepers(m)' : Waiters(op'[u]) = m
    BY <2>4, <2>6, <2>8 DEF CallInv, Waiters
  <2>13. /\ \A u \in Task : step'[u] \in Locked => u = pxCurrentTCB' /\ uxSchedulerSuspended' = 1
         /\ \A u \in Task : op'[u] = "none" <=> step'[u] = "none"
         /\ \A u \in Task : expired'[u] => step'[u] \in {"unlockTx", "unlockRx", "resume", "expired"}
    BY <2>2, <2>7, <2>8, <2>10 DEF CallInv
  <2>14. step'[pxCurrentTCB'] = "unlockTx"
    BY <2>2, <2>7, <2>8, <2>10
  <2>. QED
    BY <2>2, <2>6, <2>7, <2>8, <2>9, <2>11, <2>12, <2>13, <2>14
       DEF CallInv, storeVars, Locked, TxLocked, RxLocked
<1>. QED
  BY <1>1, <1>3, <1>4, <1>6, <1>7, <1>8, <1>9, <1>10, <1>11, <1>12, <1>13, <1>14, <1>15, <1>16, <1>17
     DEF CallStep

\* The scheduler and the handlers move no call.
LEMMA CallsStill ==
  ASSUME CallInv, KernelInv', CallType',
         \A u \in Task : Asleep(u)' => Asleep(u),
         \A l \in EventList : Sleepers(l)' \subseteq Sleepers(l),
         UNCHANGED <<op, step, expired, uxSchedulerSuspended>>,
         \/ pxCurrentTCB' = pxCurrentTCB
         \/ /\ uxSchedulerSuspended = 0 /\ ~Asleep(pxCurrentTCB')
            /\ cTxLock' = cTxLock /\ cRxLock' = cRxLock,
         (cTxLock' # queueUNLOCKED) <=> (cTxLock # queueUNLOCKED),
         (cRxLock' # queueUNLOCKED) <=> (cRxLock # queueUNLOCKED)
  PROVE  CallInv'
<1>1. /\ \A u \in Task : Asleep(u)' => step'[u] \in Placed /\ ~expired'[u]
      /\ \A l \in EventList : \A u \in Sleepers(l)' : Waiters(op[u])' = l
  BY DEF CallInv, Waiters
<1>2. CASE pxCurrentTCB' = pxCurrentTCB
  BY <1>1, <1>2 DEF CallInv
<1>3. CASE /\ uxSchedulerSuspended = 0
           /\ cTxLock' = cTxLock /\ cRxLock' = cRxLock
  <2>1. pxCurrentTCB' \in Task /\ pxCurrentTCB \in Task
    BY DEF CallInv, KernelInv, KernelTypeOK
  <2>2. \A u \in Task : step[u] \notin Locked
    BY <1>3 DEF CallInv
  <2>3. \A u \in Task : step[u] \notin TxLocked /\ step[u] \notin RxLocked
    BY <2>2 DEF Locked, TxLocked, RxLocked
  <2>4. cTxLock = queueUNLOCKED /\ cRxLock = queueUNLOCKED
    BY <2>1, <2>3 DEF CallInv
  <2>. QED  BY <1>1, <1>3, <2>1, <2>2, <2>3, <2>4 DEF CallInv
<1>. QED  BY <1>2, <1>3

\* A handler counts no further than there are tasks.
LEMMA LockType ==
  ASSUME KernelTypeOK, NEW c \in -1 .. Cardinality(Task), c # queueUNLOCKED
  PROVE  /\ IncrementLock(c) \in 0 .. Cardinality(Task)
         /\ IncrementLock(c) = c + 1 \/ (IncrementLock(c) = c /\ c >= uxCurrentNumberOfTasks)
<1>1. uxCurrentNumberOfTasks \in 0 .. Cardinality(Task) /\ Cardinality(Task) \in Nat
  BY NumberOfTasks
<1>. QED  BY <1>1 DEF IncrementLock, queueUNLOCKED

\* A call of an interrupt handler wakes a task, or owes a wake-up.
LEMMA SendFromISR ==
  ASSUME CallInv, xQueueGenericSendFromISR
  PROVE  /\ CallInv' /\ UNCHANGED <<pxCurrentTCB, uxSchedulerSuspended, xTickCount>>
         /\ IF cTxLock = queueUNLOCKED
              THEN /\ cTxLock' = cTxLock
                   /\ IF Sleepers(ToReceive) = {} THEN Wakes({})
                                                  ELSE \E u \in Sleepers(ToReceive) : Wakes({u})
              ELSE /\ Wakes({}) /\ cTxLock' = IncrementLock(cTxLock)
<1>0. /\ KernelInv /\ CallType /\ KernelTypeOK /\ ToReceive \in EventList
      /\ uxLength \in Nat \ {0} /\ Cardinality(Task) \in Nat
  BY QueueAssumption, NumberOfTasks, Lists2 DEF CallInv, KernelInv, CallType, uxLength
<1>1. /\ uxMessagesWaiting' = uxMessagesWaiting + 1 /\ uxMessagesWaiting < uxLength
      /\ UNCHANGED <<use, cRxLock, op, step, expired, stranding>>
  BY DEF xQueueGenericSendFromISR, callVars
<1>2. CASE cTxLock = queueUNLOCKED
  <2>1. /\ KernelInv' /\ UNCHANGED <<pxCurrentTCB, uxSchedulerSuspended, xTickCount>>
        /\ IF Sleepers(ToReceive) = {} THEN Wakes({})
                                       ELSE \E u \in Sleepers(ToReceive) : Wakes({u})
    BY <1>0, <1>2, WakeOneWakes DEF xQueueGenericSendFromISR
  <2>2. cTxLock' = cTxLock
    BY <1>2 DEF xQueueGenericSendFromISR
  <2>3. CallType'
    BY <1>0, <1>1, <2>2 DEF CallType, uxLength
  <2>4. \E W : Wakes(W)
    BY <2>1
  <2>5. /\ \A u \in Task : Asleep(u)' => Asleep(u)
        /\ \A l \in EventList : Sleepers(l)' \subseteq Sleepers(l)
    BY <2>4 DEF Wakes, Asleep
  <2>. QED  BY <1>1, <1>2, <2>1, <2>2, <2>3, <2>5, CallsStill
<1>3. CASE cTxLock # queueUNLOCKED
  <2>1. KernelInv' /\ UNCHANGED <<pxCurrentTCB, uxSchedulerSuspended, xTickCount>> /\ Wakes({})
    BY <1>0, <1>3, KernelStill DEF xQueueGenericSendFromISR
  <2>2. cTxLock' = IncrementLock(cTxLock)
    BY <1>3 DEF xQueueGenericSendFromISR
  <2>3. cTxLock' \in 0 .. Cardinality(Task)
    BY <1>0, <1>3, <2>2, LockType DEF CallType
  <2>4. CallType' /\ cTxLock' # queueUNLOCKED
    BY <1>0, <1>1, <2>3 DEF CallType, uxLength, queueUNLOCKED
  <2>5. /\ \A u \in Task : Asleep(u)' => Asleep(u)
        /\ \A l \in EventList : Sleepers(l)' \subseteq Sleepers(l)
    BY <2>1 DEF Wakes, Asleep
  <2>. QED  BY <1>1, <1>3, <2>1, <2>2, <2>4, <2>5, CallsStill
<1>. QED  BY <1>2, <1>3

\* The same on the other side.
LEMMA ReceiveFromISR ==
  ASSUME CallInv, xQueueReceiveFromISR
  PROVE  /\ CallInv' /\ UNCHANGED <<pxCurrentTCB, uxSchedulerSuspended, xTickCount>>
         /\ IF cRxLock = queueUNLOCKED
              THEN /\ cRxLock' = cRxLock
                   /\ IF Sleepers(ToSend) = {} THEN Wakes({})
                                               ELSE \E u \in Sleepers(ToSend) : Wakes({u})
              ELSE /\ Wakes({}) /\ cRxLock' = IncrementLock(cRxLock)
<1>0. /\ KernelInv /\ CallType /\ KernelTypeOK /\ ToSend \in EventList
      /\ uxLength \in Nat \ {0} /\ Cardinality(Task) \in Nat
  BY QueueAssumption, NumberOfTasks, Lists2 DEF CallInv, KernelInv, CallType, uxLength
<1>1. /\ uxMessagesWaiting' = uxMessagesWaiting - 1 /\ uxMessagesWaiting > 0
      /\ UNCHANGED <<use, cTxLock, op, step, expired>>
      /\ stranding' \in BOOLEAN
  BY DEF xQueueReceiveFromISR, callVars, StillStranding
<1>2. CASE cRxLock = queueUNLOCKED
  <2>1. /\ KernelInv' /\ UNCHANGED <<pxCurrentTCB, uxSchedulerSuspended, xTickCount>>
        /\ IF Sleepers(ToSend) = {} THEN Wakes({}) ELSE \E u \in Sleepers(ToSend) : Wakes({u})
    BY <1>0, <1>2, WakeOneWakes DEF xQueueReceiveFromISR
  <2>2. cRxLock' = cRxLock
    BY <1>2 DEF xQueueReceiveFromISR
  <2>3. CallType'
    BY <1>0, <1>1, <2>2 DEF CallType, uxLength
  <2>4. \E W : Wakes(W)
    BY <2>1
  <2>5. /\ \A u \in Task : Asleep(u)' => Asleep(u)
        /\ \A l \in EventList : Sleepers(l)' \subseteq Sleepers(l)
    BY <2>4 DEF Wakes, Asleep
  <2>. QED  BY <1>1, <1>2, <2>1, <2>2, <2>3, <2>5, CallsStill
<1>3. CASE cRxLock # queueUNLOCKED
  <2>1. KernelInv' /\ UNCHANGED <<pxCurrentTCB, uxSchedulerSuspended, xTickCount>> /\ Wakes({})
    BY <1>0, <1>3, KernelStill DEF xQueueReceiveFromISR
  <2>2. cRxLock' = IncrementLock(cRxLock)
    BY <1>3 DEF xQueueReceiveFromISR
  <2>3. cRxLock' \in 0 .. Cardinality(Task)
    BY <1>0, <1>3, <2>2, LockType DEF CallType
  <2>4. CallType' /\ cRxLock' # queueUNLOCKED
    BY <1>0, <1>1, <2>3 DEF CallType, uxLength, queueUNLOCKED
  <2>5. /\ \A u \in Task : Asleep(u)' => Asleep(u)
        /\ \A l \in EventList : Sleepers(l)' \subseteq Sleepers(l)
    BY <2>1 DEF Wakes, Asleep
  <2>. QED  BY <1>1, <1>3, <2>1, <2>2, <2>4, <2>5, CallsStill
<1>. QED  BY <1>2, <1>3

\* A tick and a switch.
LEMMA SchedulerKeeps ==
  ASSUME CallInv, Scheduler
  PROVE  CallInv' /\ uxSchedulerSuspended' = 0
<1>0. /\ KernelInv /\ CallType /\ UNCHANGED <<use, op, step, expired, storeVars>>
      /\ stranding' \in BOOLEAN
  BY DEF CallInv, Scheduler, StillStranding
<1>1. CallType'
  BY <1>0 DEF CallType, storeVars, uxLength
<1>2. CASE IncrementTick
  <2>1. /\ KernelInv'
        /\ pxCurrentTCB' = pxCurrentTCB /\ uxSchedulerSuspended' = 0 /\ pending' = {}
        /\ \A u \in Task : \/ state[u] = "blocked" /\ left[u] = 1 /\ state'[u] = "ready"
                           \/ state[u] = "blocked" /\ state'[u] = "blocked" /\ left'[u] = left[u] - 1
                           \/ state[u] # "blocked" /\ state'[u] = state[u] /\ left'[u] = left[u]
        /\ \A l \in EventList :
             Sleepers(l)' = {u \in Sleepers(l) : ~(state[u] = "blocked" /\ left[u] = 1)}
    BY <1>0, <1>2, TickKeeps
  <2>2. uxSchedulerSuspended = 0
    BY <1>2 DEF IncrementTick
  <2>3. /\ \A u \in Task : Asleep(u)' => Asleep(u)
        /\ \A l \in EventList : Sleepers(l)' \subseteq Sleepers(l)
    BY <2>1 DEF Asleep
  <2>. QED  BY <1>0, <1>1, <2>1, <2>2, <2>3, CallsStill DEF storeVars
<1>3. CASE SwitchContext
  <2>1. /\ KernelInv' /\ state[pxCurrentTCB'] = "ready"
        /\ \A l \in EventList : Sleepers(l)' = Sleepers(l)
    BY <1>0, <1>3, SwitchKeeps
  <2>2. state' = state /\ uxSchedulerSuspended = 0 /\ uxSchedulerSuspended' = 0
    BY <1>3 DEF SwitchContext
  <2>3. ~Asleep(pxCurrentTCB') /\ \A u \in Task : Asleep(u)' => Asleep(u)
    BY <2>1, <2>2 DEF Asleep
  <2>. QED  BY <1>0, <1>1, <2>1, <2>2, <2>3, CallsStill DEF storeVars
<1>. QED  BY <1>2, <1>3 DEF Scheduler

\* Every step keeps CallInv.
LEMMA CallStepInv ==
  ASSUME CallInv, TimeInv, [QueueNext]_queueVars
  PROVE  CallInv'
<1>1. CASE UNCHANGED queueVars
  <2>1. /\ UNCHANGED <<use, kernelVars, op, step, expired, storeVars, stranding>>
        /\ KernelInv
    BY <1>1 DEF queueVars, callVars, CallInv
  <2>2. KernelInv' /\ Wakes({}) /\ UNCHANGED <<pxCurrentTCB, uxSchedulerSuspended, xTickCount>>
    BY <2>1, KernelStill
  <2>3. CallType'
    BY <2>1 DEF CallInv, CallType, storeVars, uxLength
  <2>4. /\ \A u \in Task : Asleep(u)' => Asleep(u)
        /\ \A l \in EventList : Sleepers(l)' \subseteq Sleepers(l)
    BY <2>2 DEF Wakes, Asleep
  <2>. QED  BY <2>1, <2>2, <2>3, <2>4, CallsStill DEF storeVars
<1>. QED  BY <1>1, Cases, CallStepKeeps, SendFromISR, ReceiveFromISR, SchedulerKeeps

-----------------------------------------------------------------------------
(* Every reachable state satisfies TimeInv *)

\* At the start no time has passed for anybody.
LEMMA TimeInit == QueueInit => TimeInv
<1>. SUFFICES ASSUME QueueInit PROVE TimeInv
  OBVIOUS
<1>1. TimeType
  BY TickType DEF QueueInit, TimeType, NoTimeOut
<1>2. \A t \in Task : step[t] = "none" /\ waited[t] = 0 /\ state[t] # "blocked"
  BY DEF QueueInit, Init
<1>3. \A t \in Task : TimeOK(t)
  BY <1>2 DEF TimeOK, RestOK, ClockOK, FreshOK, SleepOK
<1>. QED  BY <1>1, <1>3 DEF TimeInv

\* A call goes on, or does not, and no time passes for it.
LEMMA TimeStill ==
  ASSUME NEW u \in Task, TimeOK(u), xTickCount' = xTickCount,
         xTicksToWait'[u] = xTicksToWait[u], requested'[u] = requested[u],
         xTimeOut'[u] = xTimeOut[u], waited'[u] = waited[u],
         \/ step'[u] = step[u]
         \/ /\ step[u] \notin {"none", "first"} /\ step'[u] \notin {"none", "first"}
            /\ step'[u] \in {"lock", "timeout", "test", "place"} => xTicksToWait[u] > 0
            /\ step'[u] \in {"test", "place"} => step[u] \in {"test", "place"},
         (state'[u] = state[u] /\ left'[u] = left[u]) \/ state'[u] # "blocked"
  PROVE  TimeOK(u)'
<1>1. Since(u)' = Since(u)
  BY DEF Since
<1>2. RestOK(u)'
  BY DEF TimeOK, RestOK
<1>3. ClockOK(u)'
  BY <1>1 DEF TimeOK, ClockOK
<1>4. FreshOK(u)'
  BY <1>1 DEF TimeOK, FreshOK
<1>5. SleepOK(u)'
  BY DEF TimeOK, SleepOK
<1>. QED  BY <1>2, <1>3, <1>4, <1>5 DEF TimeOK

\* A call returns.
LEMMA TimeReturns ==
  ASSUME TimeInv, CallType, NEW t \in Task, Return(t), xTickCount' = xTickCount, ~Asleep(t),
         NEW W, Wakes(W)
  PROVE  TimeInv'
<1>0. /\ xTicksToWait' = [xTicksToWait EXCEPT ![t] = 0] /\ requested' = [requested EXCEPT ![t] = 0]
      /\ xTimeOut' = [xTimeOut EXCEPT ![t] = NoTimeOut] /\ waited' = [waited EXCEPT ![t] = 0]
      /\ step' = [step EXCEPT ![t] = "none"]
  BY DEF Return
<1>1. TimeType'
  BY <1>0, TickType DEF TimeInv, TimeType, NoTimeOut
<1>2. ASSUME NEW u \in Task, u # t PROVE TimeOK(u)'
  BY <1>0, <1>2, TimeStill DEF TimeInv, TimeType, Wakes
<1>3. TimeOK(t)'
  <2>1. state'[t] # "blocked"
    BY DEF Wakes, Asleep
  <2>2. waited'[t] = 0 /\ xTicksToWait'[t] = 0
    BY <1>0 DEF TimeInv, TimeType
  <2>3. step'[t] = "none"
    BY <1>0 DEF CallType
  <2>. QED  BY <2>1, <2>2, <2>3 DEF TimeOK, RestOK, ClockOK, FreshOK, SleepOK
<1>. QED  BY <1>1, <1>2, <1>3 DEF TimeInv

\* The difference that xTaskCheckForTimeOut takes is the time that has passed,
\* unless a whole period of the tick count has.
LEMMA TrueElapsed ==
  ASSUME TimeType, KernelTypeOK, NEW t \in Task
  PROVE  /\ ElapsedTime(t) \in 0 .. portMAX_DELAY
         /\ TimeOK(t) /\ step[t] = "timeout" /\ requested[t] # portMAX_DELAY /\ waited[t] < TickRange
              => /\ ~(xTimeOut[t].overflowed /\ xTickCount >= xTimeOut[t].xTimeOnEntering)
                 /\ waited[t] + xTicksToWait[t] = requested[t] + ElapsedTime(t)
<1>1. PICK e \in 0 .. portMAX_DELAY, o \in BOOLEAN, n \in 0 .. portMAX_DELAY :
        e = xTimeOut[t].xTimeOnEntering /\ o = xTimeOut[t].overflowed /\ n = xTickCount
  BY DEF TimeType, KernelTypeOK
<1>2. portMAX_DELAY \in Nat /\ TickRange = portMAX_DELAY + 1
  BY TickType
<1>3. ElapsedTime(t) = IF n < e THEN n - e + TickRange ELSE n - e
  BY <1>1, <1>2 DEF ElapsedTime
<1>4. Since(t) = n - e + (IF o THEN TickRange ELSE 0)
  BY <1>1 DEF Since
<1>5. ElapsedTime(t) \in 0 .. portMAX_DELAY
  BY <1>2, <1>3
<1>6. ASSUME TimeOK(t), step[t] = "timeout", requested[t] # portMAX_DELAY, waited[t] < TickRange
      PROVE  ~(o /\ n >= e) /\ waited[t] + xTicksToWait[t] = requested[t] + ElapsedTime(t)
  <2>1. /\ Since(t) >= 0 /\ waited[t] + xTicksToWait[t] = requested[t] + Since(t)
        /\ xTicksToWait[t] <= requested[t]
    BY <1>6 DEF TimeOK, ClockOK, RestOK
  <2>2. /\ waited[t] \in Nat /\ xTicksToWait[t] \in Nat /\ requested[t] \in Nat
    BY <1>2 DEF TimeType
  <2>3. PICK w \in Nat, r \in Nat, q \in Nat : w = waited[t] /\ r = xTicksToWait[t] /\ q = requested[t]
    BY <2>2
  <2>4. CASE o
    <3>1. n < e
      BY <1>2, <1>4, <1>6, <2>1, <2>3, <2>4
    <3>2. ElapsedTime(t) = Since(t)
      BY <1>3, <1>4, <2>4, <3>1
    <3>. QED  BY <2>1, <3>1, <3>2
  <2>5. CASE ~o
    <3>1. ~(n < e)
      BY <1>2, <1>4, <2>1, <2>5
    <3>2. ElapsedTime(t) = Since(t)
      BY <1>3, <1>4, <2>5, <3>1
    <3>. QED  BY <2>1, <2>5, <3>2
  <2>. QED  BY <2>4, <2>5
<1>. QED  BY <1>1, <1>5, <1>6

\* xTaskCheckForTimeOut takes what has passed from what is left.
LEMMA TimeChecked ==
  ASSUME CallInv, TimeInv, NEW t \in Task, xTaskCheckForTimeOut(t)
  PROVE  TimeInv'
<1>0. /\ TimeType /\ KernelTypeOK /\ step[t] = "timeout" /\ step \in [Task -> Steps]
      /\ TimeOK(t)
  BY DEF xTaskCheckForTimeOut, At, TimeInv, CallInv, KernelInv, CallType
<1>1. UNCHANGED <<xTickCount, state, left, requested, waited>>
  BY DEF xTaskCheckForTimeOut
<1>2. ~Asleep(t) /\ state'[t] # "blocked"
  BY <1>0, <1>1 DEF CallInv, Asleep, Placed
<1>3. CASE TimedOut(t)
  <2>1. /\ step' = [step EXCEPT ![t] = "unlockTx"] /\ xTimeOut' = xTimeOut
        /\ xTicksToWait' = xTicksToWait \/ xTicksToWait' = [xTicksToWait EXCEPT ![t] = 0]
        /\ (requested[t] = portMAX_DELAY => xTicksToWait' = xTicksToWait)
    <3>1. /\ step' = [step EXCEPT ![t] = "unlockTx"] /\ xTimeOut' = xTimeOut
          /\ xTicksToWait' = IF ucDelayAborted[t] THEN xTicksToWait
                                                  ELSE [xTicksToWait EXCEPT ![t] = 0]
      BY <1>3 DEF xTaskCheckForTimeOut, Goto
    <3>2. requested[t] = portMAX_DELAY => xTicksToWait[t] = portMAX_DELAY
      BY <1>0 DEF TimeOK, RestOK
    <3>3. requested[t] = portMAX_DELAY => ucDelayAborted[t]
      BY <1>3, <3>2 DEF TimedOut
    <3>. QED  BY <3>1, <3>3
  <2>2. TimeType'
    BY <1>0, <1>1, <2>1, TickType DEF TimeType
  <2>3. ASSUME NEW u \in Task, u # t PROVE TimeOK(u)'
    <3>1. xTicksToWait'[u] = xTicksToWait[u] /\ step'[u] = step[u] /\ TimeOK(u)
      BY <1>0, <2>1, <2>3 DEF TimeInv, TimeType
    <3>. QED  BY <1>1, <2>1, <3>1, TimeStill
  <2>4. TimeOK(t)'
    <3>1. step'[t] = "unlockTx"
      BY <1>0, <2>1
    <3>2. CASE xTicksToWait' = xTicksToWait
      BY <1>0, <1>1, <2>1, <3>1, <3>2, TimeStill
    <3>3. CASE xTicksToWait' = [xTicksToWait EXCEPT ![t] = 0] /\ requested[t] # portMAX_DELAY
      <4>1. xTicksToWait'[t] = 0 /\ requested[t] \in Nat
        BY <1>0, <3>3, TickType DEF TimeType
      <4>. QED  BY <1>1, <1>2, <3>1, <3>3, <4>1 DEF TimeOK, RestOK, ClockOK, FreshOK, SleepOK
    <3>. QED  BY <2>1, <3>2, <3>3
  <2>. QED  BY <2>2, <2>3, <2>4 DEF TimeInv
<1>4. CASE ~TimedOut(t) /\ xTicksToWait[t] = portMAX_DELAY
  <2>1. step' = [step EXCEPT ![t] = "test"] /\ xTimeOut' = xTimeOut /\ xTicksToWait' = xTicksToWait
    BY <1>4 DEF xTaskCheckForTimeOut, Goto
  <2>2. TimeType'
    BY <1>0, <1>1, <2>1 DEF TimeType
  <2>3. ASSUME NEW u \in Task, u # t PROVE TimeOK(u)'
    <3>1. step'[u] = step[u] /\ TimeOK(u)
      BY <1>0, <2>1, <2>3 DEF TimeInv
    <3>. QED  BY <1>1, <2>1, <3>1, TimeStill
  <2>4. requested[t] = portMAX_DELAY
    BY <1>0, <1>4, TickType DEF TimeOK, RestOK, TimeType
  <2>5. TimeOK(t)'
    <3>1. step'[t] = "test" /\ xTicksToWait[t] > 0
      BY <1>0, <2>1 DEF TimeOK, RestOK
    <3>2. xTicksToWait[t] <= requested[t]
      BY <1>0 DEF TimeOK, RestOK
    <3>. QED  BY <1>1, <1>2, <1>4, <2>1, <2>4, <3>1, <3>2 DEF TimeOK, RestOK, ClockOK, FreshOK, SleepOK
  <2>. QED  BY <2>2, <2>3, <2>5 DEF TimeInv
<1>5. CASE ~TimedOut(t) /\ xTicksToWait[t] # portMAX_DELAY
  <2>0. PICK d \in 0 .. portMAX_DELAY : d = ElapsedTime(t)
    BY <1>0, TrueElapsed
  <2>1. /\ step' = [step EXCEPT ![t] = "test"]
        /\ xTicksToWait' = [xTicksToWait EXCEPT ![t] = @ - d]
        /\ xTimeOut' = [xTimeOut EXCEPT ![t] = [xTimeOnEntering |-> xTickCount, overflowed |-> FALSE]]
    BY <1>5, <2>0 DEF xTaskCheckForTimeOut, Goto
  <2>2. d < xTicksToWait[t] /\ xTicksToWait[t] \in 0 .. portMAX_DELAY
    BY <1>0, <1>5, <2>0, TickType DEF TimedOut, TimeType
  <2>3. xTicksToWait[t] - d \in 1 .. portMAX_DELAY
    BY <2>2, TickType
  <2>4. TimeType'
    BY <1>0, <1>1, <2>1, <2>3, TickType, SMTT(30) DEF TimeType, KernelTypeOK
  <2>5. ASSUME NEW u \in Task, u # t PROVE TimeOK(u)'
    <3>1. /\ step'[u] = step[u] /\ xTicksToWait'[u] = xTicksToWait[u] /\ xTimeOut'[u] = xTimeOut[u]
          /\ TimeOK(u)
      BY <1>0, <2>1, <2>5 DEF TimeInv, TimeType
    <3>. QED  BY <1>1, <3>1, TimeStill
  <2>6. TimeOK(t)'
    <3>1. /\ step'[t] = "test" /\ xTicksToWait'[t] = xTicksToWait[t] - d
          /\ xTimeOut'[t].xTimeOnEntering = xTickCount /\ xTimeOut'[t].overflowed = FALSE
      BY <1>0, <2>1 DEF TimeType
    <3>2. Since(t)' = 0
      <4>1. xTickCount' = xTickCount /\ xTickCount \in Int
        BY <1>0, <1>1, TickType DEF KernelTypeOK
      <4>. QED  BY <3>1, <4>1 DEF Since
    <3>3. xTicksToWait[t] <= requested[t] /\ requested[t] \in 0 .. portMAX_DELAY
          /\ waited[t] \in 0 .. TickRange
      BY <1>0 DEF TimeOK, RestOK, TimeType
    <3>4. requested[t] # portMAX_DELAY
      BY <1>0, <1>5 DEF TimeOK, RestOK
    <3>5. RestOK(t)'
      BY <1>1, <2>2, <3>1, <3>3, <3>4, TickType DEF RestOK
    <3>6. ClockOK(t)'
      <4>1. waited[t] < TickRange => waited[t] + xTicksToWait[t] = requested[t] + d
        BY <1>0, <2>0, <3>4, TrueElapsed
      <4>. QED  BY <1>1, <2>2, <3>1, <3>2, <3>3, <4>1, TickType DEF ClockOK
    <3>. QED  BY <1>2, <3>2, <3>5, <3>6 DEF TimeOK, FreshOK, SleepOK
  <2>. QED  BY <2>4, <2>5, <2>6 DEF TimeInv
<1>. QED  BY <1>3, <1>4, <1>5

\* A task goes to sleep for what is left of its time.
LEMMA TimePlaced ==
  ASSUME CallInv, TimeInv, NEW t \in Task, Place(t)
  PROVE  TimeInv'
<1>0. /\ TimeType /\ KernelTypeOK /\ KernelInv /\ step[t] = "place" /\ step \in [Task -> Steps]
      /\ TimeOK(t)
  BY DEF Place, At, TimeInv, CallInv, KernelInv, CallType
<1>1. /\ UNCHANGED <<xTicksToWait, xTimeOut, requested, waited>>
      /\ step' = [step EXCEPT ![t] = "unlockTx"]
  BY DEF Place, Goto
<1>2. xTicksToWait[t] \in 1 .. portMAX_DELAY
  BY <1>0, TickType DEF TimeType, TimeOK, RestOK
<1>3. PICK l \in EventList : l = Waiters(op[t])
  BY Lists2
<1>4. PlaceOnEventList(t, l, xTicksToWait[t])
  BY <1>3 DEF Place
<1>5. /\ \A u \in Task \ {t} : state'[u] = state[u] /\ left'[u] = left[u]
      /\ Asleep(t)' /\ (state'[t] = "blocked" => left'[t] = xTicksToWait[t])
  BY <1>0, <1>2, <1>4, PlaceKeeps
<1>6. xTickCount' = xTickCount
  BY <1>4 DEF PlaceOnEventList
<1>7. TimeType'
  BY <1>0, <1>1 DEF TimeType
<1>8. ASSUME NEW u \in Task, u # t PROVE TimeOK(u)'
  <2>1. step'[u] = step[u] /\ TimeOK(u)
    BY <1>0, <1>1, <1>8 DEF TimeInv
  <2>. QED  BY <1>1, <1>5, <1>6, <1>8, <2>1, TimeStill
<1>9. TimeOK(t)'
  <2>1. step'[t] = "unlockTx" /\ Since(t)' = Since(t)
    BY <1>0, <1>1, <1>6 DEF Since
  <2>2. RestOK(t)' /\ ClockOK(t)' /\ FreshOK(t)'
    BY <1>0, <1>1, <2>1 DEF TimeOK, RestOK, ClockOK, FreshOK
  <2>3. state'[t] = "blocked" => requested[t] # portMAX_DELAY
    <3>1. ASSUME xTicksToWait[t] = portMAX_DELAY PROVE state'[t] # "blocked"
      BY <1>0, <1>4, <3>1 DEF PlaceOnEventList, MoveTo, KernelTypeOK
    <3>. QED  BY <1>0, <3>1 DEF TimeOK, RestOK
  <2>4. state'[t] = "blocked" /\ waited[t] < TickRange => waited[t] + xTicksToWait[t] = requested[t]
    <3>1. requested[t] # portMAX_DELAY /\ waited[t] < TickRange
            => Since(t) = 0 /\ waited[t] + xTicksToWait[t] = requested[t] + Since(t)
      BY <1>0, <1>2, TickType DEF TimeOK, ClockOK, FreshOK
    <3>2. requested[t] \in Int
      BY <1>0, TickType DEF TimeType
    <3>. QED  BY <2>3, <3>1, <3>2
  <2>5. SleepOK(t)'
    BY <1>1, <1>5, <2>3, <2>4 DEF SleepOK
  <2>. QED  BY <2>2, <2>5 DEF TimeOK
<1>. QED  BY <1>7, <1>8, <1>9 DEF TimeInv

\* A tick counts for every call that waits, and wraps the count of the calls
\* whose time was noted before.
LEMMA TimeTicks ==
  ASSUME CallInv, TimeInv, Scheduler
  PROVE  TimeInv'
<1>0. /\ TimeType /\ KernelTypeOK /\ KernelInv
      /\ UNCHANGED <<step, xTicksToWait, requested>>
      /\ portMAX_DELAY \in Nat /\ TickRange = portMAX_DELAY + 1
  BY TickType DEF Scheduler, TimeInv, CallInv, KernelInv
<1>. DEFINE ticks == {t \in Task : xTickCount' # xTickCount /\ step[t] \notin {"none", "first"}}
            counts(t) == t \in ticks /\ requested[t] # portMAX_DELAY /\ waited[t] < TickRange
<1>1. /\ waited' = [t \in Task |-> IF counts(t) THEN waited[t] + 1 ELSE waited[t]]
      /\ xTimeOut' = [t \in Task |-> IF t \in ticks /\ xTickCount' = 0
                                       THEN [xTimeOut[t] EXCEPT !.overflowed = TRUE]
                                       ELSE xTimeOut[t]]
  BY DEF Scheduler, Ticked
<1>2. TimeType'
  <2>1. \A t \in Task : /\ [xTimeOut[t] EXCEPT !.overflowed = TRUE]
                              \in [xTimeOnEntering : 0 .. portMAX_DELAY, overflowed : BOOLEAN]
                        /\ xTimeOut[t] \in [xTimeOnEntering : 0 .. portMAX_DELAY, overflowed : BOOLEAN]
    BY <1>0 DEF TimeType
  <2>2. xTimeOut' \in [Task -> [xTimeOnEntering : 0 .. portMAX_DELAY, overflowed : BOOLEAN]]
    BY <1>1, <2>1
  <2>3. waited' \in [Task -> 0 .. TickRange]
    BY <1>0, <1>1 DEF TimeType
  <2>. QED  BY <1>0, <2>2, <2>3 DEF TimeType
<1>3. CASE SwitchContext
  <2>1. xTickCount' = xTickCount /\ state' = state /\ left' = left
    BY <1>3 DEF SwitchContext
  <2>2. \A t \in Task : waited'[t] = waited[t] /\ xTimeOut'[t] = xTimeOut[t]
    BY <1>1, <2>1
  <2>3. \A t \in Task : TimeOK(t)'
    BY <1>0, <2>1, <2>2, TimeStill DEF TimeInv
  <2>. QED  BY <1>2, <2>3 DEF TimeInv
<1>4. CASE IncrementTick
  <2>1. /\ \A u \in Task : \/ state[u] = "blocked" /\ left[u] = 1 /\ state'[u] = "ready"
                           \/ state[u] = "blocked" /\ state'[u] = "blocked" /\ left'[u] = left[u] - 1
                           \/ state[u] # "blocked" /\ state'[u] = state[u] /\ left'[u] = left[u]
        /\ xTickCount' = IF xTickCount = portMAX_DELAY THEN 0 ELSE xTickCount + 1
        /\ uxSchedulerSuspended = 0
    BY <1>0, <1>4, TickKeeps DEF IncrementTick
  <2>2. ASSUME NEW t \in Task PROVE TimeOK(t)'
    <3>1. PICK e \in 0 .. portMAX_DELAY, o \in BOOLEAN, n \in 0 .. portMAX_DELAY :
            e = xTimeOut[t].xTimeOnEntering /\ o = xTimeOut[t].overflowed /\ n = xTickCount
      BY <1>0 DEF TimeType, KernelTypeOK
    <3>2. PICK w \in 0 .. TickRange, r \in 0 .. portMAX_DELAY, q \in 0 .. portMAX_DELAY :
            w = waited[t] /\ r = xTicksToWait[t] /\ q = requested[t]
      BY <1>0 DEF TimeType
    <3>3. TimeOK(t) /\ step'[t] = step[t] /\ xTicksToWait'[t] = r /\ requested'[t] = q
      BY <1>0, <3>2 DEF TimeInv
    <3>4. step[t] \notin {"test", "place"}
      BY <2>1 DEF CallInv, Locked
    <3>5. xTickCount' # xTickCount \/ q = portMAX_DELAY
      BY <1>0, <2>1, <3>1
    <3>6. CASE step[t] \in {"none", "first"}
      <4>1. waited'[t] = w
        BY <1>1, <3>2, <3>6
      <4>2. state[t] # "blocked"
        BY <3>6 DEF CallInv, Asleep, Placed
      <4>. QED
        BY <2>1, <3>2, <3>3, <3>6, <4>1, <4>2 DEF TimeOK, RestOK, ClockOK, FreshOK, SleepOK
    <3>7. CASE step[t] \notin {"none", "first"} /\ q = portMAX_DELAY
      <4>2. state[t] # "blocked" /\ state'[t] # "blocked"
        BY <2>1, <3>2, <3>3, <3>7 DEF TimeOK, SleepOK
      <4>. QED
        BY <3>2, <3>3, <3>7, <4>2 DEF TimeOK, RestOK, ClockOK, FreshOK, SleepOK
    <3>8. CASE step[t] \notin {"none", "first"} /\ q # portMAX_DELAY
      <4>1. waited'[t] = IF w < TickRange THEN w + 1 ELSE w
        BY <1>1, <3>2, <3>5, <3>8
      <4>2. waited'[t] < TickRange => w < TickRange /\ waited'[t] = w + 1
        BY <1>0, <4>1
      <4>3. RestOK(t)'
        BY <3>2, <3>3, <3>8 DEF TimeOK, RestOK
      <4>4. ClockOK(t)'
        <5>. SUFFICES ASSUME r > 0, waited'[t] < TickRange
                      PROVE  Since(t)' >= 0 /\ waited'[t] + r = q + Since(t)'
          BY <3>3 DEF ClockOK
        <5>1. Since(t) >= 0 /\ w + r = q + Since(t) /\ r <= q
          BY <3>2, <3>3, <3>8, <4>2 DEF TimeOK, ClockOK, RestOK
        <5>2. Since(t) = n - e + (IF o THEN TickRange ELSE 0)
          BY <3>1 DEF Since
        <5>3. Since(t)' = Since(t) + 1
          <6>1. CASE n = portMAX_DELAY
            <7>1. ~o
              BY <1>0, <4>2, <5>1, <5>2, <6>1
            <7>2. xTickCount' = 0 /\ t \in ticks
              BY <2>1, <3>1, <3>5, <3>8, <6>1
            <7>3. xTimeOut'[t].xTimeOnEntering = e /\ xTimeOut'[t].overflowed = TRUE
              BY <1>0, <1>1, <3>1, <7>2 DEF TimeType
            <7>. QED  BY <1>0, <5>2, <6>1, <7>1, <7>2, <7>3 DEF Since
          <6>2. CASE n # portMAX_DELAY
            <7>1. xTickCount' = n + 1 /\ xTickCount' # 0
              BY <1>0, <2>1, <3>1, <6>2
            <7>2. xTimeOut'[t] = xTimeOut[t]
              BY <1>1, <7>1
            <7>. QED  BY <1>0, <3>1, <5>2, <7>1, <7>2 DEF Since
          <6>. QED  BY <6>1, <6>2
        <5>4. Since(t) \in Int
          BY <1>0, <5>2
        <5>. QED  BY <4>2, <5>1, <5>3, <5>4
      <4>5. FreshOK(t)'
        BY <3>3, <3>4 DEF FreshOK
      <4>6. SleepOK(t)'
        <5>. SUFFICES ASSUME state'[t] = "blocked", waited'[t] < TickRange
                      PROVE  waited'[t] + left'[t] = q
          BY <3>3, <3>8 DEF SleepOK
        <5>1. state[t] = "blocked" /\ left'[t] = left[t] - 1 /\ left[t] \in Int
          BY <1>0, <2>1 DEF KernelTypeOK
        <5>2. w + left[t] = q
          BY <3>2, <3>3, <4>2, <5>1 DEF TimeOK, SleepOK
        <5>. QED  BY <4>2, <5>1, <5>2
      <4>. QED  BY <4>3, <4>4, <4>5, <4>6 DEF TimeOK
    <3>. QED  BY <3>6, <3>7, <3>8
  <2>. QED  BY <1>2, <2>2 DEF TimeInv
<1>. QED  BY <1>3, <1>4 DEF Scheduler

\* A step that leaves the times alone and moves, at most, the call of t.
LEMMA TimeMoves ==
  ASSUME TimeInv, CallType, NEW t \in Task, NEW W, Wakes(W), xTickCount' = xTickCount,
         UNCHANGED <<xTicksToWait, requested, xTimeOut, waited>>,
         \/ step' = step
         \/ \E s : /\ Goto(t, s) /\ step[t] \notin {"none", "first"} /\ s \notin {"none", "first"}
                   /\ s \in {"lock", "timeout", "test", "place"} => xTicksToWait[t] > 0
                   /\ s \in {"test", "place"} => step[t] \in {"test", "place"}
  PROVE  TimeInv'
<1>1. TimeType'
  BY DEF TimeInv, TimeType
<1>2. ASSUME NEW u \in Task PROVE TimeOK(u)'
  <2>1. (state'[u] = state[u] /\ left'[u] = left[u]) \/ state'[u] # "blocked"
    BY DEF Wakes
  <2>2. TimeOK(u)
    BY DEF TimeInv
  <2>3. CASE step'[u] = step[u]
    BY <2>1, <2>2, <2>3, TimeStill
  <2>4. CASE step'[u] # step[u]
    <3>1. PICK s : /\ Goto(t, s) /\ step[t] \notin {"none", "first"} /\ s \notin {"none", "first"}
                   /\ s \in {"lock", "timeout", "test", "place"} => xTicksToWait[t] > 0
                   /\ s \in {"test", "place"} => step[t] \in {"test", "place"}
      BY <2>4
    <3>2. u = t /\ step'[t] = s
      BY <2>4, <3>1 DEF Goto, CallType
    <3>. QED  BY <2>1, <2>2, <3>1, <3>2, TimeStill
  <2>. QED  BY <2>3, <2>4
<1>. QED  BY <1>1, <1>2 DEF TimeInv

\* A step of a call keeps TimeInv.
LEMMA TimeStepKeeps ==
  ASSUME CallInv, TimeInv, NEW t \in Task, CallStep(t)
  PROVE  TimeInv'
<1>0. /\ KernelInv /\ CallType /\ KernelTypeOK /\ TimeType /\ step \in [Task -> Steps] /\ TimeOK(t)
  BY DEF CallInv, KernelInv, CallType, TimeInv
<1>1. CASE \E o \in Ops \ {"none"}, n \in use.waitTimes[t] : BeginCall(t, o, n)
  <2>1. PICK o \in Ops \ {"none"}, n \in use.waitTimes[t] : BeginCall(t, o, n)
    BY <1>1
  <2>2. n \in 0 .. portMAX_DELAY
    BY <1>0, QueueAssumption DEF CallType
  <2>3. step[t] = "none" /\ ~Asleep(t)
    BY <2>1, Unlocked DEF BeginCall, Locked
  <2>4. /\ xTicksToWait' = [xTicksToWait EXCEPT ![t] = n] /\ requested' = [requested EXCEPT ![t] = n]
        /\ step' = [step EXCEPT ![t] = "first"]
        /\ UNCHANGED <<kernelVars, xTimeOut, waited>>
    BY <2>1 DEF BeginCall, Goto
  <2>5. UNCHANGED <<state, left, xTickCount>>
    BY <2>4 DEF kernelVars
  <2>6. TimeType'
    BY <1>0, <2>2, <2>4 DEF TimeType
  <2>7. ASSUME NEW u \in Task, u # t PROVE TimeOK(u)'
    <3>1. /\ step'[u] = step[u] /\ xTicksToWait'[u] = xTicksToWait[u]
          /\ requested'[u] = requested[u] /\ TimeOK(u)
      BY <1>0, <2>4, <2>7 DEF TimeInv, TimeType
    <3>. QED  BY <2>4, <2>5, <3>1, TimeStill
  <2>8. TimeOK(t)'
    <3>1. /\ step'[t] = "first" /\ xTicksToWait'[t] = n /\ requested'[t] = n /\ waited'[t] = 0
      BY <1>0, <2>3, <2>4 DEF TimeType, TimeOK, RestOK
    <3>. QED
      BY <2>2, <2>3, <2>5, <3>1, TickType DEF TimeOK, RestOK, ClockOK, FreshOK, SleepOK, Asleep
  <2>. QED  BY <2>6, <2>7, <2>8 DEF TimeInv
<1>2. CASE Serve(t)
  <2>1. PICK s \in {"first", "check"} : At(t, s)
    BY <1>2 DEF Serve
  <2>2. ~Asleep(t)
    BY <2>1, Unlocked DEF Locked
  <2>3. xTickCount' = xTickCount /\ \E W : Wakes(W)
    BY <1>0, <1>2, WakeOneWakes, Lists2 DEF Serve
  <2>. QED  BY <1>0, <1>2, <2>2, <2>3, TimeReturns DEF Serve
<1>3. CASE FailAtOnce(t)
  <2>1. PICK s \in {"first", "check"} : At(t, s)
    BY <1>3 DEF FailAtOnce
  <2>2. ~Asleep(t)
    BY <2>1, Unlocked DEF Locked
  <2>3. xTickCount' = xTickCount /\ Wakes({})
    BY <1>0, <1>3, KernelStill DEF FailAtOnce
  <2>. QED  BY <1>0, <1>3, <2>2, <2>3, TimeReturns DEF FailAtOnce
<1>4. CASE StartWaiting(t)
  <2>1. PICK s \in {"first", "check"} : At(t, s)
    BY <1>4 DEF StartWaiting
  <2>2. step[t] = s /\ ~Asleep(t)
    BY <2>1, Unlocked DEF Locked
  <2>3. xTickCount' = xTickCount /\ Wakes({})
    BY <1>0, <1>4, KernelStill DEF StartWaiting
  <2>4. /\ Goto(t, "lock") /\ xTicksToWait[t] > 0
        /\ UNCHANGED <<kernelVars, xTicksToWait, requested, waited>>
    BY <1>4 DEF StartWaiting
  <2>5. CASE s = "check"
    <3>1. xTimeOut' = xTimeOut
      <4>1. xTimeOut' = [xTimeOut EXCEPT ![t] = @]
        BY <1>4, <2>2, <2>5 DEF StartWaiting
      <4>. QED  BY <1>0, <4>1 DEF TimeType
    <3>. QED  BY <1>0, <2>2, <2>3, <2>4, <2>5, <3>1, TimeMoves
  <2>6. CASE s = "first"
    <3>1. /\ xTimeOut' = [xTimeOut EXCEPT ![t] = [xTimeOnEntering |-> xTickCount, overflowed |-> FALSE]]
          /\ step' = [step EXCEPT ![t] = "lock"]
          /\ UNCHANGED <<state, left, xTickCount>>
      BY <1>4, <2>2, <2>4, <2>6 DEF StartWaiting, Goto, kernelVars
    <3>2. TimeType'
      BY <1>0, <2>4, <3>1 DEF TimeType, KernelTypeOK
    <3>3. ASSUME NEW u \in Task, u # t PROVE TimeOK(u)'
      <4>1. step'[u] = step[u] /\ xTimeOut'[u] = xTimeOut[u] /\ TimeOK(u)
        BY <1>0, <3>1, <3>3 DEF TimeInv, TimeType
      <4>. QED  BY <2>4, <3>1, <4>1, TimeStill
    <3>4. TimeOK(t)'
      <4>1. /\ step'[t] = "lock" /\ waited[t] = 0 /\ xTicksToWait[t] = requested[t]
            /\ xTimeOut'[t].xTimeOnEntering = xTickCount /\ xTimeOut'[t].overflowed = FALSE
        BY <1>0, <2>2, <2>6, <3>1 DEF TimeType, TimeOK, RestOK
      <4>2. Since(t)' = 0
        <5>1. xTickCount' = xTickCount /\ xTickCount \in Int
          BY <1>0, <3>1, TickType DEF KernelTypeOK
        <5>. QED  BY <4>1, <5>1 DEF Since
      <4>3. requested[t] \in Nat
        BY <1>0, TickType DEF TimeType
      <4>. QED
        BY <2>2, <2>4, <3>1, <4>1, <4>2, <4>3 DEF TimeOK, RestOK, ClockOK, FreshOK, SleepOK, Asleep
    <3>. QED  BY <3>2, <3>3, <3>4 DEF TimeInv
  <2>. QED  BY <2>5, <2>6
<1>5. CASE Lock(t)
  <2>1. SuspendAll(t) /\ step[t] = "lock"
    BY <1>5 DEF Lock, At
  <2>2. \A l \in EventList : Sleepers(l)' = Sleepers(l)
    BY <1>0, <2>1, SuspendAllKeeps
  <2>3. state' = state /\ left' = left /\ xTickCount' = xTickCount
    BY <2>1 DEF SuspendAll
  <2>4. Wakes({})
    BY <2>2, <2>3 DEF Wakes
  <2>5. xTicksToWait[t] > 0
    BY <1>0, <2>1 DEF TimeOK, RestOK
  <2>6. Goto(t, "timeout") /\ UNCHANGED <<xTicksToWait, requested, xTimeOut, waited>>
    BY <1>5 DEF Lock
  <2>. QED  BY <1>0, <2>1, <2>3, <2>4, <2>5, <2>6, TimeMoves
<1>6. CASE Test(t)
  <2>1. step[t] = "test" /\ xTicksToWait[t] > 0
    BY <1>0, <1>6 DEF Test, At, TimeOK, RestOK
  <2>2. xTickCount' = xTickCount /\ Wakes({})
    BY <1>0, <1>6, KernelStill DEF Test
  <2>3. PICK s \in {"place", "unlockTx"} : Goto(t, s)
    BY <1>6 DEF Test, AfterTest
  <2>4. UNCHANGED <<xTicksToWait, requested, xTimeOut, waited>>
    BY <1>6 DEF Test
  <2>. QED  BY <1>0, <2>1, <2>2, <2>3, <2>4, TimeMoves
<1>7. CASE UnlockTx(t)
  <2>1. /\ step[t] = "unlockTx" /\ uxSchedulerSuspended = 1 /\ cTxLock # queueUNLOCKED
    BY <1>7, InLocked DEF UnlockTx, Locked, TxLocked
  <2>2. cTxLock \in Nat
    BY <1>0, <2>1 DEF CallType, queueUNLOCKED
  <2>3. xTickCount' = xTickCount /\ \E W : Wakes(W)
    BY <1>0, <1>7, <2>1, <2>2, WakeLockedWakes, Lists2 DEF UnlockTx
  <2>4. Goto(t, "unlockRx") /\ UNCHANGED <<xTicksToWait, requested, xTimeOut, waited>>
    BY <1>7 DEF UnlockTx
  <2>. QED  BY <1>0, <2>1, <2>3, <2>4, TimeMoves
<1>8. CASE UnlockRx(t)
  <2>1. /\ step[t] = "unlockRx" /\ uxSchedulerSuspended = 1 /\ cRxLock # queueUNLOCKED
    BY <1>8, InLocked DEF UnlockRx, Locked, TxLocked, RxLocked
  <2>2. cRxLock \in Nat
    BY <1>0, <2>1 DEF CallType, queueUNLOCKED
  <2>3. xTickCount' = xTickCount /\ \E W : Wakes(W)
    BY <1>0, <1>8, <2>1, <2>2, WakeLockedWakes, Lists2 DEF UnlockRx
  <2>4. Goto(t, "resume") /\ UNCHANGED <<xTicksToWait, requested, xTimeOut, waited>>
    BY <1>8 DEF UnlockRx
  <2>. QED  BY <1>0, <2>1, <2>3, <2>4, TimeMoves
<1>9. CASE ResumeScheduler(t)
  <2>1. step[t] = "resume" /\ ResumeAll(t)
    BY <1>9 DEF ResumeScheduler, At
  <2>2. xTickCount' = xTickCount /\ Wakes(pending)
    BY <1>0, <2>1, ResumeAllWakes
  <2>3. PICK s \in {"check", "expired"} : Goto(t, s)
    BY <1>9 DEF ResumeScheduler
  <2>4. UNCHANGED <<xTicksToWait, requested, xTimeOut, waited>>
    BY <1>9 DEF ResumeScheduler
  <2>. QED  BY <1>0, <2>1, <2>2, <2>3, <2>4, TimeMoves
<1>10. CASE Expire(t)
  <2>1. step[t] = "expired" /\ ~Asleep(t)
    BY <1>10, Unlocked DEF Expire, Locked
  <2>2. xTickCount' = xTickCount /\ Wakes({})
    BY <1>0, <1>10, KernelStill DEF Expire
  <2>3. CASE Return(t)
    BY <1>0, <2>1, <2>2, <2>3, TimeReturns
  <2>4. CASE Goto(t, "check") /\ UNCHANGED <<xTicksToWait, xTimeOut, requested, waited>>
    BY <1>0, <2>1, <2>2, <2>4, TimeMoves
  <2>. QED  BY <1>10, <2>3, <2>4 DEF Expire
<1>11. CASE xQueueGenericReset(t)
  <2>1. xTickCount' = xTickCount /\ \E W : Wakes(W)
    BY <1>0, <1>11, WakeOneWakes, Lists2 DEF xQueueGenericReset
  <2>2. UNCHANGED <<step, xTicksToWait, requested, xTimeOut, waited>>
    BY <1>11 DEF xQueueGenericReset, callVars
  <2>. QED  BY <1>0, <2>1, <2>2, TimeMoves
<1>12. CASE \E u \in Task : xTaskAbortDelay(t, u)
  <2>1. PICK u \in Task : xTaskAbortDelay(t, u)
    BY <1>12
  <2>2. xTickCount' = xTickCount /\ Wakes({u})
    BY <1>0, <2>1, AbortWakes DEF xTaskAbortDelay
  <2>3. UNCHANGED <<step, xTicksToWait, requested, xTimeOut, waited>>
    BY <2>1 DEF xTaskAbortDelay
  <2>. QED  BY <1>0, <2>2, <2>3, TimeMoves
<1>13. CASE AbortDone(t)
  <2>1. xTickCount' = xTickCount /\ Wakes(pending)
    BY <1>0, <1>13, ResumeAllWakes DEF AbortDone
  <2>2. UNCHANGED <<step, xTicksToWait, requested, xTimeOut, waited>>
    BY <1>13 DEF AbortDone, callVars
  <2>. QED  BY <1>0, <2>1, <2>2, TimeMoves
<1>. QED
  BY <1>1, <1>2, <1>3, <1>4, <1>5, <1>6, <1>7, <1>8, <1>9, <1>10, <1>11, <1>12, <1>13,
     TimeChecked, TimePlaced DEF CallStep

\* Every step keeps TimeInv.
LEMMA TimeStep ==
  ASSUME CallInv, TimeInv, [QueueNext]_queueVars
  PROVE  TimeInv'
<1>0. KernelInv /\ CallType /\ \E t \in Task : TRUE
  BY DEF CallInv, KernelInv, KernelTypeOK
<1>1. CASE xQueueGenericSendFromISR
  <2>1. xTickCount' = xTickCount /\ \E W : Wakes(W)
    BY <1>1, SendFromISR
  <2>2. UNCHANGED <<step, xTicksToWait, requested, xTimeOut, waited>>
    BY <1>1 DEF xQueueGenericSendFromISR, callVars
  <2>. QED  BY <1>0, <2>1, <2>2, TimeMoves
<1>2. CASE xQueueReceiveFromISR
  <2>1. xTickCount' = xTickCount /\ \E W : Wakes(W)
    BY <1>2, ReceiveFromISR
  <2>2. UNCHANGED <<step, xTicksToWait, requested, xTimeOut, waited>>
    BY <1>2 DEF xQueueReceiveFromISR, callVars
  <2>. QED  BY <1>0, <2>1, <2>2, TimeMoves
<1>3. CASE UNCHANGED queueVars
  <2>1. UNCHANGED kernelVars /\ UNCHANGED <<step, xTicksToWait, requested, xTimeOut, waited>>
    BY <1>3 DEF queueVars, callVars
  <2>2. xTickCount' = xTickCount /\ Wakes({})
    BY <1>0, <2>1, KernelStill
  <2>. QED  BY <1>0, <2>1, <2>2, TimeMoves
<1>. QED  BY <1>1, <1>2, <1>3, Cases, TimeStepKeeps, TimeTicks

\* Both together.
LEMMA CallTimeAlways == QueueSpec => [](CallInv /\ TimeInv)
<1>1. QueueInit => CallInv /\ TimeInv
  BY CallInit, TimeInit
<1>2. CallInv /\ TimeInv /\ [QueueNext]_queueVars => (CallInv /\ TimeInv)'
  BY CallStepInv, TimeStep
<1>. QED  BY <1>1, <1>2, PTL DEF QueueSpec

-----------------------------------------------------------------------------
(* Every reachable state satisfies AccountInv *)

\* The numbers of the account; the tasks that will look at the queue are finitely
\* many; where someone sleeps there is a task.
LEMMA AccountTypes ==
  ASSUME CallInv, NEW l \in EventList
  PROVE  /\ Supply(l) \in Nat /\ Credit(l) \in Nat /\ uxCurrentNumberOfTasks \in Nat
         /\ Useful(l) \subseteq Task /\ IsFiniteSet(Useful(l)) /\ Cardinality(Useful(l)) \in Nat
         /\ IsFiniteSet(Sleepers(l)) /\ Cardinality(Sleepers(l)) \in 0 .. uxCurrentNumberOfTasks
         /\ Sleepers(l) # {} => uxCurrentNumberOfTasks > 0
<1>1. CallType /\ KernelTypeOK /\ uxLength \in Nat
  BY QueueAssumption DEF CallInv, KernelInv, CallType, uxLength
<1>2. uxCurrentNumberOfTasks \in Nat /\ Cardinality(Task) \in Nat
  BY <1>1, NumberOfTasks
<1>3. Supply(l) \in Nat
  BY <1>1 DEF Supply, CallType
<1>4. LockOf(l) \in -1 .. Cardinality(Task)
  BY <1>1 DEF LockOf, CallType
<1>5. Credit(l) \in Nat
  BY <1>2, <1>4 DEF Credit, queueUNLOCKED
<1>6. Useful(l) \in SUBSET Task
  BY DEF Useful
<1>7. IsFiniteSet(Useful(l)) /\ Cardinality(Useful(l)) \in Nat
  BY <1>6, KernelAssumption, FS_Subset, FS_CardinalityType
<1>8. Sleepers(l) \in SUBSET Task /\ \A u \in Sleepers(l) : state[u] # "none"
  BY <1>1, SleepersAreTasks DEF CallInv, KernelInv, Asleep
<1>9. IsFiniteSet(Sleepers(l)) /\ Cardinality(Sleepers(l)) <= uxCurrentNumberOfTasks
  BY <1>1, <1>8, NumberOfTasks
<1>10. Cardinality(Sleepers(l)) \in Nat /\ (Sleepers(l) # {} => Cardinality(Sleepers(l)) # 0)
  BY <1>9, FS_CardinalityType, FS_EmptySet
<1>. QED  BY <1>2, <1>3, <1>5, <1>6, <1>7, <1>9, <1>10

Numbers ==
  \A l \in EventList : /\ Supply(l) \in Nat /\ Credit(l) \in Nat
                        /\ IsFiniteSet(Useful(l)) /\ Cardinality(Useful(l)) \in Nat

\* The same after a step.
LEMMA NextTypes == CallInv' => Numbers'
<1>1. CallInv => Numbers
  BY AccountTypes DEF Numbers
<1>. QED  BY <1>1, PTL

\* The size of the union of two sets with nothing in common.
LEMMA Disjoint ==
  ASSUME NEW S, IsFiniteSet(S), NEW T, IsFiniteSet(T), S \cap T = {}
  PROVE  IsFiniteSet(S \cup T) /\ Cardinality(S \cup T) = Cardinality(S) + Cardinality(T)
<1>1. Cardinality(S) \in Nat /\ Cardinality(T) \in Nat /\ Cardinality(S \cap T) = 0
  BY FS_CardinalityType, FS_EmptySet
<1>2. /\ IsFiniteSet(S \cup T)
      /\ Cardinality(S \cup T) = Cardinality(S) + Cardinality(T) - Cardinality(S \cap T)
  BY FS_Union
<1>. QED  BY <1>1, <1>2

\* Who will look at the queue, or slept and was woken, looks at it as long as its
\* call stays where it is.
LEMMA StillLooks ==
  ASSUME CallInv, NEW l \in EventList, NEW W, \A u \in W : u \in Task /\ Asleep(u),
         NEW u \in Useful(l) \cup W, op'[u] = op[u], step'[u] = step[u], expired'[u] = expired[u]
  PROVE  op'[u] = op[u] /\ Looks(u)'
<1>1. u \in Task /\ Looks(u)
  BY DEF Useful, CallInv, Looks
<1>. QED  BY <1>1 DEF Looks

\* The account of a list stays right when the tasks of W leave it and join those
\* that will look at the queue, one of which, t, may stop looking.
LEMMA AccountMoves ==
  ASSUME CallInv, CallInv', NEW l \in EventList, Account(l), NEW t \in Task, NEW b \in {0, 1},
         NEW W, \A u \in W : u \in Task /\ Asleep(u),
         Sleepers(l)' = Sleepers(l) \ W,
         uxCurrentNumberOfTasks' = uxCurrentNumberOfTasks,
         \A u \in Useful(l) \cup W : \/ op'[u] = op[u] /\ Looks(u)'
                                     \/ b = 1 /\ u = t /\ t \notin W,
         Sleepers(l)' # {} /\ l = ToSend /\ ~stranding' => ~stranding,
         Sleepers(l)' # {} /\ Owed(l) => Owed(l)',
         NEW k \in Nat, k <= Cardinality(W \cap Sleepers(l)),
         Sleepers(l)' # {} => Supply(l)' - Credit(l)' + b <= Supply(l) - Credit(l) + k
  PROVE  Account(l)'
<1>. SUFFICES ASSUME Sleepers(l)' # {}, l = ToSend => ~stranding', ~Owed(l)'
              PROVE  Supply(l)' <= Cardinality(Useful(l)') + Credit(l)'
  BY DEF Account
<1>. DEFINE woken == W \cap Sleepers(l)
            stay  == Useful(l) \ (IF b = 1 THEN {t} ELSE {})
<1>1. Sleepers(l) # {} /\ Supply(l) <= Cardinality(Useful(l)) + Credit(l)
  BY DEF Account
<1>2. /\ Supply(l) \in Nat /\ Credit(l) \in Nat /\ Useful(l) \subseteq Task
      /\ IsFiniteSet(Useful(l)) /\ Cardinality(Useful(l)) \in Nat /\ IsFiniteSet(Sleepers(l))
  BY AccountTypes
<1>3. /\ Supply(l)' \in Nat /\ Credit(l)' \in Nat
      /\ IsFiniteSet(Useful(l)') /\ Cardinality(Useful(l)') \in Nat
  BY NextTypes DEF Numbers
<1>4. IsFiniteSet(woken) /\ Cardinality(woken) \in Nat
  <2>1. woken \in SUBSET Sleepers(l)
    OBVIOUS
  <2>. QED  BY <1>2, <2>1, FS_Subset, FS_CardinalityType
<1>5. IsFiniteSet(stay) /\ Cardinality(stay) \in Nat /\ Cardinality(stay) >= Cardinality(Useful(l)) - b
  <2>1. CASE b = 0
    BY <1>2, <2>1
  <2>2. CASE b = 1
    <3>1. stay = Useful(l) \ {t}
      BY <2>2
    <3>2. /\ IsFiniteSet(Useful(l) \ {t})
          /\ Cardinality(Useful(l) \ {t}) = IF t \in Useful(l) THEN Cardinality(Useful(l)) - 1
                                                              ELSE Cardinality(Useful(l))
      BY <1>2, FS_RemoveElement
    <3>. QED  BY <1>2, <2>2, <3>1, <3>2, FS_CardinalityType
  <2>. QED  BY <2>1, <2>2
<1>6. stay \cap woken = {}
  BY DEF Useful
<1>7. IsFiniteSet(stay \cup woken)
      /\ Cardinality(stay \cup woken) = Cardinality(stay) + Cardinality(woken)
  BY <1>4, <1>5, <1>6, Disjoint
<1>8. stay \cup woken \in SUBSET Useful(l)'
  <2>. SUFFICES ASSUME NEW u \in stay \cup woken PROVE u \in Useful(l)'
    OBVIOUS
  <2>1. u \in Task /\ op[u] # "none" /\ Waiters(op[u]) = l
    <3>1. CASE u \in Useful(l)
      BY <3>1 DEF Useful
    <3>2. CASE u \in woken
      BY <3>2 DEF CallInv, Placed
    <3>. QED  BY <3>1, <3>2
  <2>2. u \notin Sleepers(l)'
    BY DEF Useful
  <2>3. op'[u] = op[u] /\ Looks(u)'
    BY <1>2
  <2>4. Waiters(op'[u]) = l
    BY <2>1, <2>3
  <2>. QED  BY <2>1, <2>2, <2>3, <2>4 DEF Useful, Waiters
<1>9. Cardinality(Useful(l)') >= Cardinality(stay) + Cardinality(woken)
  BY <1>3, <1>7, <1>8, FS_Subset
<1>. HIDE DEF stay, woken
<1>10. k <= Cardinality(woken) /\ Supply(l)' - Credit(l)' + b <= Supply(l) - Credit(l) + k
  BY DEF woken
<1>. QED  BY <1>1, <1>2, <1>3, <1>4, <1>5, <1>9, <1>10

\* Where nothing is in supply but what is owed, nobody is stranded.
LEMMA NothingLeft ==
  ASSUME CallInv', NEW l \in EventList, Supply(l)' <= Credit(l)'
  PROVE  Account(l)'
<1>1. /\ Supply(l)' \in Nat /\ Credit(l)' \in Nat /\ Cardinality(Useful(l)') \in Nat
  BY NextTypes DEF Numbers
<1>. QED  BY <1>1 DEF Account

\* A step that moves the call of t and wakes the tasks of W, and no item.
LEMMA AccountStill ==
  ASSUME CallInv, CallInv', NEW l \in EventList, Account(l), NEW t \in Task,
         NEW W, \A u \in W : u \in Task /\ Asleep(u),
         Sleepers(l)' = Sleepers(l) \ W,
         uxCurrentNumberOfTasks' = uxCurrentNumberOfTasks,
         \A u \in Task \ {t} : op'[u] = op[u] /\ step'[u] = step[u] /\ expired'[u] = expired[u],
         t \in Useful(l) \cup W => op'[t] = op[t] /\ Looks(t)',
         Sleepers(l)' # {} /\ l = ToSend /\ ~stranding' => ~stranding,
         Supply(l)' = Supply(l), Credit(l)' = Credit(l)
  PROVE  Account(l)'
<1>1. \A u \in Useful(l) \cup W : op'[u] = op[u] /\ Looks(u)'
  <2>. SUFFICES ASSUME NEW u \in Useful(l) \cup W PROVE op'[u] = op[u] /\ Looks(u)'
    OBVIOUS
  <2>1. u \in Task
    BY DEF Useful
  <2>2. CASE u = t
    BY <2>2
  <2>3. CASE u # t
    BY <2>1, <2>3, StillLooks
  <2>. QED  BY <2>2, <2>3
<1>2. Supply(l) \in Nat /\ Credit(l) \in Nat /\ IsFiniteSet(Sleepers(l))
  BY AccountTypes
<1>3. 0 <= Cardinality(W \cap Sleepers(l))
  <2>1. W \cap Sleepers(l) \in SUBSET Sleepers(l)
    OBVIOUS
  <2>2. IsFiniteSet(W \cap Sleepers(l))
    BY <1>2, <2>1, FS_Subset
  <2>. QED  BY <2>2, FS_CardinalityType
<1>4. Owed(l) => Owed(l)'
  BY DEF Owed
<1>5. Supply(l)' - Credit(l)' + 0 <= Supply(l) - Credit(l) + 0
  BY <1>2
<1>. QED  BY <1>1, <1>3, <1>4, <1>5, AccountMoves

\* Nobody is about to sleep.
LEMMA NoPlace ==
  ASSUME CallInv', step'[pxCurrentTCB'] # "place"
  PROVE  \A u \in Task : PlaceOK(u)'
<1>1. \A u \in Task : step'[u] # "place"
  BY DEF CallInv, Locked
<1>. QED  BY <1>1 DEF PlaceOK

\* A call that finds nothing goes to sleep or fails.
LEMMA AccountUnready ==
  ASSUME CallInv, CallInv', AccountInv, NEW t \in Task, op[t] # "none", ~Ready(t),
         UNCHANGED <<kernelVars, use, storeVars, stranding>>,
         \A u \in Task \ {t} : op'[u] = op[u] /\ step'[u] = step[u] /\ expired'[u] = expired[u]
  PROVE  \A l \in EventList : Account(l)'
<1>. SUFFICES ASSUME NEW l \in EventList PROVE Account(l)'
  OBVIOUS
<1>1. Wakes({}) /\ uxCurrentNumberOfTasks' = uxCurrentNumberOfTasks /\ CallType
      /\ uxLength \in Nat /\ op[t] \in Ops
  BY KernelStill, SameNumber, QueueAssumption DEF CallInv, CallType, uxLength
<1>2. Supply(l)' = Supply(l) /\ Credit(l)' = Credit(l) /\ Credit(l) \in Nat
  BY AccountTypes DEF Supply, Credit, LockOf, storeVars, uxLength
<1>3. CASE l = Waiters(op[t])
  <2>1. Supply(l) = 0
    BY <1>1, <1>3, Lists2 DEF Ready, Supply, Waiters, Ops, CallType
  <2>. QED  BY <1>2, <2>1, NothingLeft
<1>4. CASE l # Waiters(op[t])
  <2>1. t \notin Useful(l) \cup {}
    BY <1>4 DEF Useful
  <2>2. Sleepers(l)' = Sleepers(l) \ {}
    BY <1>1 DEF Wakes
  <2>. QED  BY <1>1, <1>2, <2>1, <2>2, AccountStill DEF AccountInv
<1>. QED  BY <1>3, <1>4

\* A call is served: an item, or room for one, goes, and the task with it; or an
\* item, or room, comes and wakes a task.
LEMMA AccountServed ==
  ASSUME CallInv, CallInv', AccountInv, NEW t \in Task, Serve(t)
  PROVE  \A l \in EventList : Account(l)'
<1>1. PICK s \in {"first", "check"} : At(t, s)
  BY DEF Serve
<1>2. /\ step[t] = s /\ ~Asleep(t) /\ cTxLock = queueUNLOCKED /\ cRxLock = queueUNLOCKED
  BY <1>1, Unlocked DEF Locked
<1>3. /\ KernelInv /\ CallType /\ op[t] \in Ops /\ op[t] # "none" /\ uxLength \in Nat
      /\ op \in [Task -> Ops] /\ step \in [Task -> Steps] /\ expired \in [Task -> BOOLEAN]
  BY <1>2, QueueAssumption DEF CallInv, CallType, uxLength
<1>4. PICK m \in EventList : m = NextInLine(op[t])
  BY Lists2
<1>5. PICK W : /\ Wakes(W) /\ W \subseteq Sleepers(m)
               /\ Sleepers(m) # {} => Cardinality(W) = 1
  <2>1. IF Sleepers(m) = {} THEN Wakes({}) ELSE \E u \in Sleepers(m) : Wakes({u})
    BY <1>3, <1>4, WakeOneWakes DEF Serve
  <2>2. CASE Sleepers(m) = {}
    BY <2>1, <2>2
  <2>3. CASE Sleepers(m) # {}
    <3>1. PICK u \in Sleepers(m) : Wakes({u})
      BY <2>1, <2>3
    <3>2. Cardinality({u}) = 1
      BY FS_Singleton
    <3>. QED  BY <3>1, <3>2
  <2>. QED  BY <2>2, <2>3
<1>6. /\ uxCurrentNumberOfTasks' = uxCurrentNumberOfTasks
      /\ \A u \in W : u \in Task /\ Asleep(u)
      /\ \A l \in EventList : Sleepers(l)' = Sleepers(l) \ W
      /\ t \notin W
  BY <1>2, <1>5, SameNumber DEF Wakes
<1>7. /\ uxMessagesWaiting' = After(op[t]) /\ UNCHANGED <<use, cRxLock, cTxLock>>
      /\ op' = [op EXCEPT ![t] = "none"] /\ step' = [step EXCEPT ![t] = "none"]
      /\ expired' = [expired EXCEPT ![t] = FALSE]
      /\ stranding' = (stranding /\ xEventLists'[ToSend] # <<>>)
  BY DEF Serve, Return, StillStranding
<1>8. \A l \in EventList : Sleepers(l)' # {} /\ l = ToSend /\ ~stranding' => ~stranding
  <2>1. KernelTypeOK'
    BY DEF CallInv, KernelInv
  <2>2. \A l \in EventList : Sleepers(l)' # {} => xEventLists'[l] # <<>>
    BY EmptySet DEF Sleepers
  <2>. QED  BY <1>7, <2>2
<1>. SUFFICES ASSUME NEW l \in EventList, Sleepers(l)' # {} PROVE Account(l)'
  BY DEF Account
<1>9. /\ Credit(l) = 0 /\ Credit(l)' = 0 /\ Supply(l) \in Nat
      /\ Owed(l) => Owed(l)'
  BY <1>2, <1>6, <1>7, AccountTypes DEF Credit, LockOf, Owed
<1>10. Sleepers(l) # {}
  BY <1>6
<1>11. \A u \in Useful(l) \cup W : u = t \/ (op'[u] = op[u] /\ Looks(u)')
  <2>. SUFFICES ASSUME NEW u \in Useful(l) \cup W, u # t PROVE op'[u] = op[u] /\ Looks(u)'
    OBVIOUS
  <2>1. u \in Task
    BY <1>6 DEF Useful
  <2>. QED  BY <1>3, <1>6, <1>7, <2>1, StillLooks
<1>12. /\ m # l => Cardinality(W \cap Sleepers(l)) = 0
       /\ m = l => Cardinality(W \cap Sleepers(l)) = 1
  <2>1. CASE m # l
    <3>1. W \cap Sleepers(l) = {}
      BY <1>3, <1>5, <2>1 DEF KernelInv
    <3>. QED  BY <2>1, <3>1, FS_EmptySet
  <2>2. CASE m = l
    <3>1. W \cap Sleepers(l) = W
      BY <1>5, <2>2
    <3>. QED  BY <1>5, <1>10, <2>2, <3>1
  <2>. QED  BY <2>1, <2>2
<1>13. PICK b \in {0, 1} : b = 1 <=> l = Waiters(op[t])
  OBVIOUS
<1>14. PICK k \in {0, 1} : (k = 1 <=> m = l) /\ k <= Cardinality(W \cap Sleepers(l))
  BY <1>12
<1>15. \A u \in Useful(l) \cup W : \/ op'[u] = op[u] /\ Looks(u)'
                                   \/ b = 1 /\ u = t /\ t \notin W
  <2>. SUFFICES ASSUME NEW u \in Useful(l) \cup W
                PROVE  \/ op'[u] = op[u] /\ Looks(u)'
                       \/ b = 1 /\ u = t /\ t \notin W
    OBVIOUS
  <2>1. CASE u = t
    BY <1>6, <1>13, <2>1 DEF Useful
  <2>2. CASE u # t
    BY <1>11, <2>2
  <2>. QED  BY <2>1, <2>2
<1>16. Supply(l)' + b <= Supply(l) + k
  <2>1. uxMessagesWaiting \in Nat /\ uxLength' = uxLength
    BY <1>3, <1>7 DEF CallType, uxLength
  <2>. QED
    BY <1>3, <1>4, <1>7, <1>13, <1>14, <2>1, Lists2 DEF Ops, Waiters, NextInLine, After, Supply
<1>17. Supply(l)' - Credit(l)' + b <= Supply(l) - Credit(l) + k
  BY <1>9, <1>16, NextTypes DEF Numbers
<1>. QED
  BY <1>6, <1>8, <1>9, <1>14, <1>15, <1>17, AccountMoves DEF AccountInv

\* Unlocking wakes as many as are owed, or all.
LEMMA AccountUnlocks ==
  ASSUME CallInv, CallInv', AccountInv, NEW t \in Task, NEW m \in EventList,
         NEW c \in Nat, c = Credit(m), WakeLocked(c, m), uxSchedulerSuspended > 0,
         Credit(m)' = 0, \A l \in EventList : l # m => Credit(l)' = Credit(l),
         UNCHANGED <<use, op, expired, uxMessagesWaiting>>,
         step[t] \in {"unlockTx", "unlockRx"}, step'[t] \in Placed,
         \A u \in Task \ {t} : step'[u] = step[u],
         Sleepers(ToSend)' # {} /\ ~stranding' => ~stranding
  PROVE  \A l \in EventList : Account(l)'
<1>1. PICK W \in SUBSET Sleepers(m) :
        /\ Wakes(W) /\ IsFiniteSet(W)
        /\ \/ Cardinality(W) = c
           \/ Cardinality(Sleepers(m)) <= c /\ W = Sleepers(m)
  BY WakeLockedWakes DEF CallInv
<1>2. /\ uxCurrentNumberOfTasks' = uxCurrentNumberOfTasks
      /\ \A u \in W : u \in Task /\ Asleep(u)
      /\ \A l \in EventList : Sleepers(l)' = Sleepers(l) \ W
  BY <1>1, SameNumber DEF Wakes
<1>. SUFFICES ASSUME NEW l \in EventList PROVE Account(l)'
  OBVIOUS
<1>3. t \in Useful(l) \cup W => op'[t] = op[t] /\ Looks(t)'
  BY <1>2 DEF Useful, Looks, Placed, CallInv
<1>4. Supply(l)' = Supply(l)
  BY DEF Supply, uxLength
<1>5. CASE l # m
  BY <1>2, <1>3, <1>4, <1>5, AccountStill DEF AccountInv
<1>6. CASE l = m
  <2>. SUFFICES ASSUME Sleepers(l)' # {} PROVE Account(l)'
    BY DEF Account
  <2>1. /\ IsFiniteSet(Sleepers(l)) /\ Cardinality(Sleepers(l)) \in 0 .. uxCurrentNumberOfTasks
        /\ uxCurrentNumberOfTasks \in Nat /\ Supply(l) \in Nat
    BY AccountTypes
  <2>2. Cardinality(W) = c
    BY <1>1, <1>2, <1>6
  <2>3. ~Owed(l)
    <3>1. SUFFICES ASSUME Owed(l) PROVE FALSE
      OBVIOUS
    <3>2. W \in SUBSET Sleepers(l) /\ Cardinality(W) >= uxCurrentNumberOfTasks
      BY <1>1, <1>6, <2>2, <3>1 DEF Owed
    <3>3. W = Sleepers(l)
      BY <2>1, <2>2, <3>2, FS_Subset
    <3>. QED  BY <1>2, <3>3
  <2>4. \A u \in Useful(l) \cup W : op'[u] = op[u] /\ Looks(u)'
    <3>. SUFFICES ASSUME NEW u \in Useful(l) \cup W PROVE op'[u] = op[u] /\ Looks(u)'
      OBVIOUS
    <3>1. CASE u = t
      BY <1>3, <3>1
    <3>2. CASE u # t
      <4>1. u \in Task
        BY <1>2 DEF Useful
      <4>. QED  BY <1>2, <3>2, <4>1, StillLooks
    <3>. QED  BY <3>1, <3>2
  <2>5. W \cap Sleepers(l) = W
    BY <1>1, <1>6
  <2>6. c <= Cardinality(W \cap Sleepers(l))
    BY <2>2, <2>5
  <2>7. Supply(l)' - Credit(l)' + 0 <= Supply(l) - Credit(l) + c
    BY <1>4, <1>6, <2>1
  <2>. QED  BY <1>2, <2>3, <2>4, <2>6, <2>7, AccountMoves DEF AccountInv
<1>. QED  BY <1>5, <1>6

\* A task goes to sleep.
LEMMA AccountPlaced ==
  ASSUME CallInv, CallInv', TimeInv, AccountInv, NEW t \in Task, Place(t)
  PROVE  \A l \in EventList : Account(l)'
<1>1. At(t, "place")
  BY DEF Place
<1>2. /\ t = pxCurrentTCB /\ uxSchedulerSuspended = 1 /\ step[t] = "place"
  BY <1>1, InLocked DEF Locked
<1>3. xTicksToWait[t] \in 1 .. portMAX_DELAY
  BY <1>2, TickType DEF TimeInv, TimeType, TimeOK, RestOK
<1>4. PICK m \in EventList : m = Waiters(op[t])
  BY Lists2
<1>5. PlaceOnEventList(t, m, xTicksToWait[t])
  BY <1>4 DEF Place
<1>6. /\ \A l \in EventList : Sleepers(l)' = IF l = m THEN Sleepers(m) \cup {t} ELSE Sleepers(l)
      /\ \A u \in Task \ {t} : state'[u] = state[u]
  BY <1>3, <1>5, PlaceKeeps DEF CallInv
<1>7. UNCHANGED <<use, op, expired, storeVars, stranding>> /\ Goto(t, "unlockTx")
  BY DEF Place
<1>8. uxCurrentNumberOfTasks' = uxCurrentNumberOfTasks
  <2>1. state[t] = "ready" /\ state'[t] \in {"blocked", "suspended"}
    BY <1>5 DEF PlaceOnEventList, Calls, MoveTo, CallInv, KernelInv, KernelTypeOK
  <2>2. \A u \in Task : state'[u] = "none" <=> state[u] = "none"
    BY <1>6, <2>1
  <2>3. {u \in Task : state'[u] # "none"} = {u \in Task : state[u] # "none"}
    BY <2>2
  <2>. QED  BY <2>3 DEF uxCurrentNumberOfTasks
<1>. SUFFICES ASSUME NEW l \in EventList PROVE Account(l)'
  OBVIOUS
<1>9. /\ Supply(l)' = Supply(l) /\ Credit(l)' = Credit(l) /\ Credit(l) \in Nat /\ Supply(l) \in Nat
      /\ Cardinality(Useful(l)') \in Nat
  BY <1>7, AccountTypes, NextTypes DEF Supply, Credit, LockOf, storeVars, uxLength, Numbers
<1>10. CASE l = m
  <2>1. Supply(l) <= Credit(l) \/ Owed(l)
    BY <1>2, <1>4, <1>10 DEF AccountInv, PlaceOK
  <2>. QED  BY <1>8, <1>9, <2>1 DEF Account, Owed
<1>11. CASE l # m
  <2>0. PICK W : W = {}
    OBVIOUS
  <2>1. t \notin Useful(l) \cup W /\ Sleepers(l)' = Sleepers(l) \ W
    BY <1>4, <1>6, <1>11, <2>0 DEF Useful
  <2>2. \A u \in Task \ {t} : op'[u] = op[u] /\ step'[u] = step[u] /\ expired'[u] = expired[u]
    BY <1>7 DEF Goto, CallInv, CallType
  <2>3. Account(l) /\ (~stranding' => ~stranding) /\ \A u \in W : u \in Task /\ Asleep(u)
    BY <1>7, <2>0 DEF AccountInv
  <2>. QED  BY <1>8, <1>9, <2>1, <2>2, <2>3, AccountStill
<1>. QED  BY <1>10, <1>11

\* The steps of a call.
LEMMA AccountCall ==
  ASSUME CallInv, CallInv', TimeInv, AccountInv, NEW t \in Task, CallStep(t)
  PROVE  AccountInv'
<1>0. /\ KernelInv /\ CallType /\ uxLength \in Nat /\ t = pxCurrentTCB /\ op[t] \in Ops
      /\ op \in [Task -> Ops] /\ step \in [Task -> Steps] /\ expired \in [Task -> BOOLEAN]
  <2>1. t = pxCurrentTCB
    BY DEF CallStep, BeginCall, Serve, FailAtOnce, StartWaiting, Lock, xTaskCheckForTimeOut,
           Test, Place, UnlockTx, UnlockRx, ResumeScheduler, Expire, xQueueGenericReset,
           xTaskAbortDelay, AbortDone, At, AtCall
  <2>. QED  BY <2>1, QueueAssumption DEF CallInv, CallType, uxLength
<1>00. \A l \in EventList : Account(l)
  BY DEF AccountInv
<1>1. ASSUME \A l \in EventList : Account(l)', pxCurrentTCB' = t, step'[t] # "place"
      PROVE  AccountInv'
  BY <1>1, NoPlace DEF AccountInv
<1>2. ASSUME NEW W, Wakes(W), pxCurrentTCB' = t, step'[t] # "place",
             \A u \in Task \ {t} : op'[u] = op[u] /\ step'[u] = step[u] /\ expired'[u] = expired[u],
             ~Looks(t) \/ op[t] = "none" \/ (op'[t] = op[t] /\ Looks(t)'),
             t \in W => op'[t] = op[t] /\ Looks(t)',
             Sleepers(ToSend)' # {} /\ ~stranding' => ~stranding,
             \A l \in EventList : Supply(l)' = Supply(l) /\ Credit(l)' = Credit(l)
      PROVE  AccountInv'
  <2>1. /\ uxCurrentNumberOfTasks' = uxCurrentNumberOfTasks
        /\ \A u \in W : u \in Task /\ Asleep(u)
        /\ \A l \in EventList : Sleepers(l)' = Sleepers(l) \ W
    BY <1>2, SameNumber DEF Wakes
  <2>2. \A l \in EventList : t \in Useful(l) \cup W => op'[t] = op[t] /\ Looks(t)'
    BY <1>2 DEF Useful
  <2>3. ASSUME NEW l \in EventList PROVE Account(l)'
    BY <1>00, <1>2, <2>1, <2>2, AccountStill
  <2>. QED  BY <1>1, <1>2, <2>3
<1>3. ASSUME UNCHANGED <<use, storeVars>>
      PROVE  \A l \in EventList : Supply(l)' = Supply(l) /\ Credit(l)' = Credit(l)
  BY <1>3 DEF Supply, Credit, LockOf, storeVars, uxLength
<1>4. ASSUME StillStranding PROVE Sleepers(ToSend)' # {} /\ ~stranding' => ~stranding
  <2>1. Sleepers(ToSend)' # {} => xEventLists'[ToSend] # <<>>
    BY EmptySet DEF Sleepers
  <2>. QED  BY <1>4, <2>1 DEF StillStranding
<1>5. CASE \E o \in Ops \ {"none"}, n \in use.waitTimes[t] : BeginCall(t, o, n)
  <2>1. PICK o \in Ops \ {"none"}, n \in use.waitTimes[t] : BeginCall(t, o, n)
    BY <1>5
  <2>2. op[t] = "none"
    BY <2>1 DEF BeginCall, At, CallInv
  <2>3. Wakes({}) /\ pxCurrentTCB' = t
    BY <1>0, <2>1, KernelStill DEF BeginCall
  <2>4. /\ op' = [op EXCEPT ![t] = o] /\ step' = [step EXCEPT ![t] = "first"]
        /\ expired' = expired /\ UNCHANGED <<use, storeVars, stranding>>
    BY <2>1 DEF BeginCall, Goto
  <2>5. /\ \A u \in Task \ {t} : op'[u] = op[u] /\ step'[u] = step[u] /\ expired'[u] = expired[u]
        /\ step'[t] # "place"
    BY <1>0, <2>4
  <2>. QED  BY <1>2, <1>3, <2>2, <2>3, <2>4, <2>5
<1>6. CASE Serve(t)
  <2>1. step'[t] # "place"
    BY <1>0, <1>6 DEF Serve, Return
  <2>2. pxCurrentTCB' = t
    BY <1>0, <1>6, WakeOneWakes, Lists2 DEF Serve
  <2>. QED  BY <1>1, <1>6, <2>1, <2>2, AccountServed
<1>7. ASSUME FailAtOnce(t) \/ StartWaiting(t) PROVE AccountInv'
  <2>1. /\ UNCHANGED <<kernelVars, use, storeVars, stranding>> /\ ~Ready(t)
        /\ step[t] # "none"
    BY <1>7 DEF FailAtOnce, StartWaiting, At
  <2>2. /\ \A u \in Task \ {t} : op'[u] = op[u] /\ step'[u] = step[u] /\ expired'[u] = expired[u]
        /\ step'[t] # "place"
    BY <1>0, <1>7 DEF FailAtOnce, StartWaiting, Return, Goto
  <2>3. op[t] # "none"
    BY <2>1 DEF CallInv
  <2>4. \A l \in EventList : Account(l)'
    BY <2>1, <2>2, <2>3, AccountUnready
  <2>5. pxCurrentTCB' = t
    BY <1>0, <2>1 DEF kernelVars
  <2>. QED  BY <1>1, <2>2, <2>4, <2>5
<1>8. CASE Lock(t)
  <2>1. At(t, "lock") /\ SuspendAll(t)
    BY <1>8 DEF Lock
  <2>2. step[t] = "lock" /\ cTxLock = queueUNLOCKED /\ cRxLock = queueUNLOCKED
    BY <2>1, Unlocked DEF Locked
  <2>3. /\ \A l \in EventList : Sleepers(l)' = Sleepers(l)
        /\ pxCurrentTCB' = t /\ state' = state /\ left' = left
    BY <1>0, <2>1, SuspendAllKeeps DEF SuspendAll
  <2>4. Wakes({})
    BY <2>3 DEF Wakes
  <2>5. /\ Goto(t, "timeout") /\ UNCHANGED <<use, op, expired, uxMessagesWaiting, stranding>>
        /\ cTxLock' = 0 /\ cRxLock' = 0
    BY <1>8, <2>2 DEF Lock, queueLOCKED_UNMODIFIED
  <2>6. /\ \A u \in Task \ {t} : op'[u] = op[u] /\ step'[u] = step[u] /\ expired'[u] = expired[u]
        /\ step'[t] # "place"
    BY <1>0, <2>5 DEF Goto
  <2>7. \A l \in EventList : Supply(l)' = Supply(l) /\ Credit(l)' = Credit(l)
    BY <2>2, <2>5 DEF Supply, Credit, LockOf, uxLength
  <2>8. ~Looks(t)
    BY <2>2 DEF Looks, Placed
  <2>. QED  BY <1>2, <2>3, <2>4, <2>5, <2>6, <2>7, <2>8
<1>9. CASE xTaskCheckForTimeOut(t)
  <2>1. step[t] = "timeout" /\ UNCHANGED <<use, pxCurrentTCB, op, state, left, xEventLists, storeVars,
                                           stranding>>
    BY <1>9 DEF xTaskCheckForTimeOut, At
  <2>2. Wakes({})
    BY <2>1 DEF Wakes, Sleepers
  <2>3. /\ \A u \in Task \ {t} : op'[u] = op[u] /\ step'[u] = step[u] /\ expired'[u] = expired[u]
        /\ step'[t] # "place"
    BY <1>0, <1>9 DEF xTaskCheckForTimeOut, Goto
  <2>4. ~Looks(t)
    BY <2>1 DEF Looks, Placed
  <2>. QED  BY <1>0, <1>2, <1>3, <2>1, <2>2, <2>3, <2>4
<1>10. CASE Test(t)
  <2>1. step[t] = "test" /\ UNCHANGED <<use, kernelVars, op, expired, storeVars, stranding>>
        /\ Goto(t, AfterTest(t))
    BY <1>10 DEF Test, At
  <2>2. Wakes({}) /\ pxCurrentTCB' = t
    BY <1>0, <2>1, KernelStill
  <2>3. /\ \A u \in Task \ {t} : op'[u] = op[u] /\ step'[u] = step[u] /\ expired'[u] = expired[u]
        /\ step'[t] = AfterTest(t)
    BY <1>0, <2>1 DEF Goto
  <2>4. ~Looks(t) /\ op[t] # "none"
    BY <2>1 DEF Looks, Placed, CallInv
  <2>5. CASE AfterTest(t) = "unlockTx"
    BY <1>2, <1>3, <2>1, <2>2, <2>3, <2>4, <2>5
  <2>6. CASE AfterTest(t) = "place"
    <3>1. ASSUME NEW l \in EventList PROVE Account(l)'
      <4>0. PICK W : W = {}
        OBVIOUS
      <4>1. /\ Sleepers(l)' = Sleepers(l) \ W /\ uxCurrentNumberOfTasks' = uxCurrentNumberOfTasks
            /\ \A u \in W : u \in Task /\ Asleep(u)
        BY <2>2, <4>0, SameNumber DEF Wakes
      <4>2. t \notin Useful(l) \cup W
        BY <2>4, <4>0 DEF Useful
      <4>3. Supply(l)' = Supply(l) /\ Credit(l)' = Credit(l)
        BY <1>3, <2>1
      <4>4. Account(l) /\ (~stranding' => ~stranding)
        BY <1>00, <2>1
      <4>. QED  BY <2>3, <4>1, <4>2, <4>3, <4>4, AccountStill
    <3>2. PICK m \in EventList : m = Waiters(op[t])
      BY Lists2
    <3>3. Supply(m) = 0
      <4>1. IF op[t] = "send" THEN Full ELSE Empty
        BY <2>6 DEF AfterTest
      <4>. QED
        BY <1>0, <2>4, <3>2, <4>1, Lists2 DEF Supply, Waiters, Full, Empty, Ops, CallType
    <3>4. Supply(m)' = 0 /\ Credit(m)' \in Nat
      BY <1>3, <2>1, <3>3, NextTypes DEF Numbers
    <3>5. Waiters(op[t])' = m
      BY <2>1, <3>2 DEF Waiters
    <3>6. \A u \in Task : step'[u] = "place" => u = t
      BY <2>2 DEF CallInv, Locked
    <3>7. PlaceOK(t)'
      BY <3>4, <3>5 DEF PlaceOK
    <3>8. \A u \in Task : PlaceOK(u)'
      BY <3>6, <3>7 DEF PlaceOK
    <3>. QED  BY <3>1, <3>8 DEF AccountInv
  <2>. QED  BY <2>5, <2>6 DEF AfterTest
<1>11. CASE Place(t)
  <2>1. pxCurrentTCB' = t /\ step'[t] # "place"
    BY <1>0, <1>11 DEF Place, PlaceOnEventList, Goto
  <2>. QED  BY <1>1, <1>11, <2>1, AccountPlaced
<1>12. CASE UnlockTx(t)
  <2>1. /\ uxSchedulerSuspended = 1 /\ step[t] = "unlockTx" /\ cTxLock # queueUNLOCKED
    BY <1>12, InLocked DEF UnlockTx, Locked, TxLocked
  <2>2. /\ cTxLock \in Nat /\ cTxLock = Credit(ToReceive) /\ ToReceive \in EventList
    BY <1>0, <2>1, Lists2 DEF CallType, queueUNLOCKED, Credit, LockOf
  <2>3. /\ WakeLocked(cTxLock, ToReceive) /\ cTxLock' = queueUNLOCKED
        /\ step' = [step EXCEPT ![t] = "unlockRx"]
        /\ UNCHANGED <<use, op, expired, uxMessagesWaiting, cRxLock, stranding, pxCurrentTCB>>
    BY <1>12 DEF UnlockTx, Goto, WakeLocked
  <2>4. Credit(ToReceive)' = 0 /\ \A l \in EventList : l # ToReceive => Credit(l)' = Credit(l)
    BY <2>3 DEF Credit, LockOf
  <2>5. step'[t] = "unlockRx" /\ \A u \in Task \ {t} : step'[u] = step[u]
    BY <1>0, <2>3
  <2>6. \A l \in EventList : Account(l)'
    BY <2>1, <2>2, <2>3, <2>4, <2>5, AccountUnlocks DEF Placed
  <2>. QED  BY <1>0, <1>1, <2>3, <2>5, <2>6
<1>13. CASE UnlockRx(t)
  <2>1. /\ uxSchedulerSuspended = 1 /\ step[t] = "unlockRx" /\ cRxLock # queueUNLOCKED
    BY <1>13, InLocked DEF UnlockRx, Locked, TxLocked, RxLocked
  <2>2. /\ cRxLock \in Nat /\ cRxLock = Credit(ToSend) /\ ToSend \in EventList
    BY <1>0, <2>1, Lists2 DEF CallType, queueUNLOCKED, Credit, LockOf
  <2>3. /\ WakeLocked(cRxLock, ToSend) /\ cRxLock' = queueUNLOCKED
        /\ step' = [step EXCEPT ![t] = "resume"]
        /\ UNCHANGED <<use, op, expired, uxMessagesWaiting, cTxLock, pxCurrentTCB>>
        /\ StillStranding
    BY <1>13 DEF UnlockRx, Goto, WakeLocked
  <2>4. Credit(ToSend)' = 0 /\ \A l \in EventList : l # ToSend => Credit(l)' = Credit(l)
    BY <2>3, Lists2 DEF Credit, LockOf
  <2>5. step'[t] = "resume" /\ \A u \in Task \ {t} : step'[u] = step[u]
    BY <1>0, <2>3
  <2>6. \A l \in EventList : Account(l)'
    BY <1>4, <2>1, <2>2, <2>3, <2>4, <2>5, AccountUnlocks DEF Placed
  <2>. QED  BY <1>0, <1>1, <2>3, <2>5, <2>6
<1>14. CASE ResumeScheduler(t)
  <2>1. At(t, "resume") /\ ResumeAll(t)
    BY <1>14 DEF ResumeScheduler
  <2>2. step[t] = "resume" /\ op[t] # "none"
    BY <2>1 DEF At, CallInv
  <2>3. Wakes(pending) /\ pxCurrentTCB' = t
    BY <1>0, <2>1, ResumeAllWakes
  <2>4. /\ step' = [step EXCEPT ![t] = IF expired[t] THEN "expired" ELSE "check"]
        /\ UNCHANGED <<use, op, expired, storeVars, stranding>>
    BY <1>14 DEF ResumeScheduler, Goto
  <2>5. /\ \A u \in Task \ {t} : op'[u] = op[u] /\ step'[u] = step[u] /\ expired'[u] = expired[u]
        /\ step'[t] = (IF expired[t] THEN "expired" ELSE "check")
    BY <1>0, <2>4
  <2>6. Looks(t) => Looks(t)'
    BY <2>2, <2>5 DEF Looks
  <2>7. t \in pending => Looks(t)
    BY DEF CallInv, KernelInv, Looks
  <2>. QED  BY <1>2, <1>3, <2>3, <2>4, <2>5, <2>6, <2>7
<1>15. CASE Expire(t)
  <2>1. step[t] = "expired" /\ UNCHANGED <<use, kernelVars, storeVars, stranding>>
    BY <1>15 DEF Expire, At
  <2>2. Wakes({}) /\ pxCurrentTCB' = t
    BY <1>0, <2>1, KernelStill
  <2>3. /\ \A u \in Task \ {t} : op'[u] = op[u] /\ step'[u] = step[u] /\ expired'[u] = expired[u]
        /\ step'[t] # "place"
    BY <1>0, <1>15 DEF Expire, Return, Goto
  <2>4. ~Looks(t)
    BY <2>1 DEF Looks, Placed
  <2>. QED  BY <1>2, <1>3, <2>1, <2>2, <2>3, <2>4
<1>16. CASE xQueueGenericReset(t)
  <2>1. At(t, "none") /\ uxSchedulerSuspended = 0
    BY <1>16 DEF xQueueGenericReset
  <2>2. /\ step[t] = "none" /\ cTxLock = queueUNLOCKED /\ cRxLock = queueUNLOCKED /\ ~Asleep(t)
    BY <2>1, Unlocked DEF Locked
  <2>3. /\ WakeOne(ToSend) /\ uxMessagesWaiting' = 0 /\ UNCHANGED <<use, op, step, expired>>
        /\ cRxLock' = queueUNLOCKED
        /\ stranding' = ((stranding \/ uxMessagesWaiting > 1) /\ xEventLists'[ToSend] # <<>>)
    BY <1>16 DEF xQueueGenericReset, callVars
  <2>4. pxCurrentTCB' = t
    BY <1>0, <2>3, WakeOneWakes, Lists2
  <2>5. Account(ToReceive)'
    <3>1. Supply(ToReceive)' = 0 /\ Credit(ToReceive)' \in Nat /\ ToReceive \in EventList
      BY <2>3, Lists2, NextTypes DEF Supply, Numbers
    <3>. QED  BY <3>1, NothingLeft
  \* Room for one more at most, and one sender is woken.
  <2>6. Account(ToSend)'
    <3>1. SUFFICES ASSUME Sleepers(ToSend)' # {}, ~stranding' PROVE Account(ToSend)'
      BY DEF Account
    <3>2. xEventLists'[ToSend] # <<>>
      BY <3>1, EmptySet DEF Sleepers
    <3>3. ~stranding /\ ~(uxMessagesWaiting > 1)
      BY <2>3, <3>1, <3>2
    <3>4. ToSend \in EventList
      BY Lists2
    <3>5. Sleepers(ToSend) # {}
      <4>1. CASE Sleepers(ToSend) = {}
        <5>1. Wakes({})
          BY <1>0, <2>3, <3>4, <4>1, WakeOneWakes
        <5>. QED  BY <3>1, <3>4, <4>1, <5>1 DEF Wakes
      <4>. QED  BY <4>1
    <3>6. PICK u \in Sleepers(ToSend) : Wakes({u})
      BY <1>0, <2>3, <3>4, <3>5, WakeOneWakes
    <3>7. /\ uxCurrentNumberOfTasks' = uxCurrentNumberOfTasks
          /\ \A v \in {u} : v \in Task /\ Asleep(v)
          /\ Sleepers(ToSend)' = Sleepers(ToSend) \ {u}
      BY <3>4, <3>6, SameNumber DEF Wakes
    <3>8. \A v \in Useful(ToSend) \cup {u} : op'[v] = op[v] /\ Looks(v)'
      BY <2>3, <3>4, <3>7, StillLooks
    <3>9. 1 <= Cardinality({u} \cap Sleepers(ToSend))
      <4>1. {u} \cap Sleepers(ToSend) = {u}
        BY <3>6
      <4>2. Cardinality({u}) = 1
        BY FS_Singleton
      <4>. QED  BY <4>1, <4>2
    <3>10. /\ Supply(ToSend)' = uxLength /\ Supply(ToSend) = uxLength - uxMessagesWaiting
           /\ uxMessagesWaiting \in 0 .. uxLength
      BY <1>0, <2>3, Lists2 DEF Supply, CallType, uxLength
    <3>11. Credit(ToSend) = 0 /\ Credit(ToSend)' = 0
      BY <2>2, <2>3, Lists2 DEF Credit, LockOf
    <3>12. Supply(ToSend)' - Credit(ToSend)' + 0 <= Supply(ToSend) - Credit(ToSend) + 1
      BY <1>0, <3>3, <3>10, <3>11
    <3>13. Owed(ToSend) => Owed(ToSend)'
      BY <3>7, <3>11 DEF Owed
    <3>14. Account(ToSend)
      BY <1>00, <3>4
    <3>. QED  BY <3>3, <3>4, <3>7, <3>8, <3>9, <3>12, <3>13, <3>14, AccountMoves
  <2>. QED  BY <1>1, <2>2, <2>3, <2>4, <2>5, <2>6, Lists2
<1>17. CASE \E u \in Task : xTaskAbortDelay(t, u)
  <2>0. PICK u \in Task : xTaskAbortDelay(t, u)
    BY <1>17
  <2>1. step[t] = "none" /\ AbortDelay(t, u) /\ u # t
    BY <2>0 DEF xTaskAbortDelay, At, AbortDelay
  <2>2. Wakes({u}) /\ pxCurrentTCB' = t
    BY <1>0, <2>1, AbortWakes
  <2>3. UNCHANGED <<use, op, step, expired, storeVars>> /\ StillStranding
    BY <2>0 DEF xTaskAbortDelay
  <2>4. op[t] = "none"
    BY <2>1 DEF CallInv
  <2>. QED  BY <1>2, <1>3, <1>4, <2>1, <2>2, <2>3, <2>4
<1>18. CASE AbortDone(t)
  <2>1. step[t] = "none" /\ ResumeAll(t) /\ UNCHANGED <<use, op, step, expired, storeVars, stranding>>
    BY <1>18 DEF AbortDone, At, callVars
  <2>2. Wakes(pending) /\ pxCurrentTCB' = t
    BY <1>0, <2>1, ResumeAllWakes
  <2>3. op[t] = "none" /\ t \notin pending
    BY <2>1 DEF CallInv, KernelInv, Placed
  <2>. QED  BY <1>2, <1>3, <2>1, <2>2, <2>3
<1>. QED
  BY <1>5, <1>6, <1>7, <1>8, <1>9, <1>10, <1>11, <1>12, <1>13, <1>14, <1>15, <1>16, <1>17, <1>18
     DEF CallStep

\* An interrupt handler gives one item, or room for one, to the list m: it wakes a
\* task, or one more is owed.
LEMMA AccountGiven ==
  ASSUME CallInv, CallInv', AccountInv, NEW m \in EventList,
         UNCHANGED <<use, op, step, expired, pxCurrentTCB>>,
         Supply(m)' = Supply(m) + 1,
         \A l \in EventList : l # m => Supply(l)' = Supply(l) - 1 /\ LockOf(l)' = LockOf(l),
         Sleepers(ToSend)' # {} /\ ~stranding' => ~stranding,
         IF LockOf(m) = queueUNLOCKED
           THEN /\ LockOf(m)' = LockOf(m)
                /\ IF Sleepers(m) = {} THEN Wakes({}) ELSE \E u \in Sleepers(m) : Wakes({u})
           ELSE Wakes({}) /\ LockOf(m)' = IncrementLock(LockOf(m))
  PROVE  AccountInv'
<1>1. PICK W : /\ Wakes(W) /\ W \subseteq Sleepers(m)
               /\ LockOf(m) = queueUNLOCKED /\ Sleepers(m) # {} => Cardinality(W) = 1
  <2>1. CASE LockOf(m) = queueUNLOCKED /\ Sleepers(m) # {}
    <3>1. PICK u \in Sleepers(m) : Wakes({u})
      BY <2>1
    <3>. QED  BY <3>1, FS_Singleton
  <2>2. CASE ~(LockOf(m) = queueUNLOCKED /\ Sleepers(m) # {})
    BY <2>2
  <2>. QED  BY <2>1, <2>2
<1>2. /\ uxCurrentNumberOfTasks' = uxCurrentNumberOfTasks
      /\ \A u \in W : u \in Task /\ Asleep(u)
      /\ \A l \in EventList : Sleepers(l)' = Sleepers(l) \ W
      /\ KernelTypeOK /\ CallType
  BY <1>1, SameNumber DEF Wakes, CallInv, KernelInv
<1>3. \A l \in EventList : /\ Supply(l) \in Nat /\ Credit(l) \in Nat /\ Supply(l)' \in Nat
                           /\ Credit(l)' \in Nat /\ IsFiniteSet(Sleepers(l))
  BY AccountTypes, NextTypes DEF Numbers
<1>4. Credit(m)' >= Credit(m) /\ (LockOf(m) # queueUNLOCKED => Credit(m)' = Credit(m) + 1 \/ Owed(m)')
  <2>1. CASE LockOf(m) = queueUNLOCKED
    BY <1>3, <2>1 DEF Credit
  <2>2. CASE LockOf(m) # queueUNLOCKED
    <3>1. LockOf(m) \in -1 .. Cardinality(Task)
      BY <1>2 DEF LockOf, CallType
    <3>2. PICK c \in -1 .. Cardinality(Task) : c = LockOf(m)
      BY <3>1
    <3>3. LockOf(m)' = IncrementLock(c)
      BY <2>2, <3>2
    <3>4. Cardinality(Task) \in Nat /\ uxCurrentNumberOfTasks \in Nat
      BY <1>2, NumberOfTasks
    <3>5. /\ IncrementLock(c) \in 0 .. Cardinality(Task)
          /\ IncrementLock(c) = c + 1 \/ (IncrementLock(c) = c /\ c >= uxCurrentNumberOfTasks)
      BY <1>2, <2>2, <3>2, LockType
    <3>6. Credit(m) = c /\ Credit(m)' = IncrementLock(c)
      BY <2>2, <3>2, <3>3, <3>4, <3>5 DEF Credit, queueUNLOCKED
    <3>. QED  BY <1>2, <3>4, <3>5, <3>6 DEF Owed
  <2>. QED  BY <2>1, <2>2
<1>5. \A l \in EventList : l # m => Credit(l)' = Credit(l)
  BY DEF Credit
<1>6. \A l \in EventList : Owed(l) => Owed(l)'
  <2>1. uxCurrentNumberOfTasks \in Nat
    BY <1>2, NumberOfTasks
  <2>2. \A l \in EventList : Credit(l)' >= Credit(l)
    BY <1>3, <1>4, <1>5
  <2>. QED  BY <1>2, <1>3, <2>1, <2>2 DEF Owed
<1>7. ASSUME NEW l \in EventList PROVE Account(l)'
  <2>. SUFFICES ASSUME Sleepers(l)' # {}, ~Owed(l)' PROVE Account(l)'
    BY DEF Account
  <2>1. \A u \in Useful(l) \cup W : op'[u] = op[u] /\ Looks(u)'
    BY <1>2, StillLooks
  <2>2. PICK t \in Task : TRUE
    BY <1>2 DEF KernelTypeOK
  <2>3. PICK k \in {0, 1} : k = 1 <=> l = m /\ LockOf(m) = queueUNLOCKED
    OBVIOUS
  <2>4. k <= Cardinality(W \cap Sleepers(l))
    <3>1. CASE k = 1
      <4>1. W \cap Sleepers(l) = W /\ Sleepers(l) # {}
        BY <1>1, <1>2, <2>3, <3>1
      <4>. QED  BY <1>1, <2>3, <3>1, <4>1
    <3>2. CASE k = 0
      <4>1. W \cap Sleepers(l) \in SUBSET Sleepers(l)
        OBVIOUS
      <4>. QED  BY <1>3, <3>2, <4>1, FS_Subset, FS_CardinalityType
    <3>. QED  BY <3>1, <3>2
  <2>5. Supply(l)' - Credit(l)' + 0 <= Supply(l) - Credit(l) + k
    <3>1. CASE l # m
      BY <1>3, <1>5, <2>3, <3>1
    <3>2. CASE l = m
      BY <1>3, <1>4, <2>3, <3>2
    <3>. QED  BY <3>1, <3>2
  <2>6. Account(l) /\ (l = ToSend /\ ~stranding' => ~stranding) /\ Sleepers(l)' = Sleepers(l) \ W
    BY <1>2 DEF AccountInv
  <2>. QED  BY <1>2, <1>6, <2>1, <2>4, <2>5, <2>6, AccountMoves
<1>8. ASSUME NEW t \in Task PROVE PlaceOK(t)'
  <2>. SUFFICES ASSUME step[t] = "place"
                PROVE  Supply(Waiters(op[t]))' <= Credit(Waiters(op[t]))' \/ Owed(Waiters(op[t]))'
    BY DEF PlaceOK
  <2>1. PICK l \in EventList : l = Waiters(op[t])
    BY Lists2
  <2>2. Waiters(op[t])' = l
    BY <2>1 DEF Waiters
  <2>3. Supply(l) <= Credit(l) \/ Owed(l)
    BY <2>1 DEF AccountInv, PlaceOK
  <2>4. LockOf(l) # queueUNLOCKED
    <3>1. t = pxCurrentTCB
      BY DEF CallInv, Locked
    <3>2. step[pxCurrentTCB] \in TxLocked /\ step[pxCurrentTCB] \in RxLocked
      BY <3>1 DEF TxLocked, RxLocked
    <3>3. cTxLock # queueUNLOCKED /\ cRxLock # queueUNLOCKED
      BY <3>2 DEF CallInv
    <3>. QED  BY <3>3 DEF LockOf
  <2>5. CASE l = m
    BY <1>3, <1>4, <1>6, <2>2, <2>3, <2>4, <2>5
  <2>6. CASE l # m
    BY <1>3, <1>5, <1>6, <2>2, <2>3, <2>6
  <2>. QED  BY <2>1, <2>5, <2>6
<1>. QED  BY <1>7, <1>8 DEF AccountInv

\* Every step keeps the account.
LEMMA AccountStep ==
  ASSUME CallInv, CallInv', TimeInv, AccountInv, [QueueNext]_queueVars
  PROVE  AccountInv'
<1>0. /\ KernelInv /\ CallType /\ uxLength \in Nat /\ ToSend \in EventList /\ ToReceive \in EventList
      /\ EventList = {ToSend, ToReceive} /\ ToSend # ToReceive
  BY Lists2, QueueAssumption DEF CallInv, CallType, uxLength
<1>1. CASE \E t \in Task : CallStep(t)
  BY <1>1, AccountCall
<1>2. ASSUME StillStranding PROVE Sleepers(ToSend)' # {} /\ ~stranding' => ~stranding
  <2>1. Sleepers(ToSend)' # {} => xEventLists'[ToSend] # <<>>
    BY EmptySet DEF Sleepers
  <2>. QED  BY <1>2, <2>1 DEF StillStranding
<1>3. CASE xQueueGenericSendFromISR
  <2>1. /\ uxMessagesWaiting' = uxMessagesWaiting + 1
        /\ UNCHANGED <<use, cRxLock, op, step, expired, stranding, pxCurrentTCB>>
    BY <1>3, SendFromISR DEF xQueueGenericSendFromISR, callVars
  <2>2. /\ Supply(ToReceive)' = Supply(ToReceive) + 1
        /\ \A l \in EventList : l # ToReceive => Supply(l)' = Supply(l) - 1 /\ LockOf(l)' = LockOf(l)
    BY <1>0, <2>1 DEF Supply, LockOf, uxLength, CallType
  <2>3. IF LockOf(ToReceive) = queueUNLOCKED
          THEN /\ LockOf(ToReceive)' = LockOf(ToReceive)
               /\ IF Sleepers(ToReceive) = {} THEN Wakes({})
                                              ELSE \E u \in Sleepers(ToReceive) : Wakes({u})
          ELSE Wakes({}) /\ LockOf(ToReceive)' = IncrementLock(LockOf(ToReceive))
    BY <1>3, SendFromISR DEF LockOf
  <2>. QED  BY <1>0, <2>1, <2>2, <2>3, AccountGiven
<1>4. CASE xQueueReceiveFromISR
  <2>1. /\ uxMessagesWaiting' = uxMessagesWaiting - 1 /\ StillStranding
        /\ UNCHANGED <<use, cTxLock, op, step, expired, pxCurrentTCB>>
    BY <1>4, ReceiveFromISR DEF xQueueReceiveFromISR, callVars
  <2>2. /\ Supply(ToSend)' = Supply(ToSend) + 1
        /\ \A l \in EventList : l # ToSend => Supply(l)' = Supply(l) - 1 /\ LockOf(l)' = LockOf(l)
    BY <1>0, <2>1 DEF Supply, LockOf, uxLength, CallType
  <2>3. IF LockOf(ToSend) = queueUNLOCKED
          THEN /\ LockOf(ToSend)' = LockOf(ToSend)
               /\ IF Sleepers(ToSend) = {} THEN Wakes({}) ELSE \E u \in Sleepers(ToSend) : Wakes({u})
          ELSE Wakes({}) /\ LockOf(ToSend)' = IncrementLock(LockOf(ToSend))
    BY <1>0, <1>4, ReceiveFromISR DEF LockOf
  <2>4. Sleepers(ToSend)' # {} /\ ~stranding' => ~stranding
    BY <1>2, <2>1
  <2>. QED  BY <1>0, <2>1, <2>2, <2>3, <2>4, AccountGiven
<1>5. ASSUME NEW W, \A u \in W : u \in Task /\ Asleep(u),
             \A l \in EventList : Sleepers(l)' = Sleepers(l) \ W,
             uxCurrentNumberOfTasks' = uxCurrentNumberOfTasks,
             UNCHANGED <<use, op, step, expired, storeVars>>,
             Sleepers(ToSend)' # {} /\ ~stranding' => ~stranding
      PROVE  \A l \in EventList : Account(l)' /\ Supply(l)' = Supply(l) /\ Credit(l)' = Credit(l)
  <2>. SUFFICES ASSUME NEW l \in EventList
                PROVE  Account(l)' /\ Supply(l)' = Supply(l) /\ Credit(l)' = Credit(l)
    OBVIOUS
  <2>1. Supply(l)' = Supply(l) /\ Credit(l)' = Credit(l)
    BY <1>5 DEF Supply, Credit, LockOf, storeVars, uxLength
  <2>2. PICK t \in Task : TRUE
    BY DEF CallInv, KernelInv, KernelTypeOK
  <2>3. t \in Useful(l) \cup W => op'[t] = op[t] /\ Looks(t)'
    BY <1>5, StillLooks
  <2>. QED  BY <1>5, <2>1, <2>3, AccountStill DEF AccountInv
<1>6. CASE Scheduler
  <2>1. PICK W : /\ \A u \in W : u \in Task /\ Asleep(u)
                 /\ \A l \in EventList : Sleepers(l)' = Sleepers(l) \ W
                 /\ \A u \in Task : state'[u] = "none" <=> state[u] = "none"
    <3>1. CASE IncrementTick
      <4>. DEFINE due == {u \in Task : state[u] = "blocked" /\ left[u] = 1}
      <4>1. /\ \A u \in Task : \/ state[u] = "blocked" /\ left[u] = 1 /\ state'[u] = "ready"
                               \/ state[u] = "blocked" /\ state'[u] = "blocked" /\ left'[u] = left[u] - 1
                               \/ state[u] # "blocked" /\ state'[u] = state[u] /\ left'[u] = left[u]
            /\ \A l \in EventList :
                 Sleepers(l)' = {u \in Sleepers(l) : ~(state[u] = "blocked" /\ left[u] = 1)}
        BY <1>0, <3>1, TickKeeps
      <4>2. \A l \in EventList : Sleepers(l) \subseteq Task
        BY <1>0, SleepersAreTasks DEF KernelInv
      <4>3. \A l \in EventList : Sleepers(l)' = Sleepers(l) \ due
        BY <4>1, <4>2
      <4>4. \A u \in due : u \in Task /\ Asleep(u)
        BY DEF Asleep
      <4>5. \A u \in Task : state'[u] = "none" <=> state[u] = "none"
        BY <4>1
      <4>. QED  BY <4>3, <4>4, <4>5
    <3>2. CASE SwitchContext
      <4>1. \A l \in EventList : Sleepers(l)' = Sleepers(l) \ {}
        BY <1>0, <3>2, SwitchKeeps
      <4>2. state' = state
        BY <3>2 DEF SwitchContext
      <4>. QED  BY <4>1, <4>2
    <3>. QED  BY <1>6, <3>1, <3>2 DEF Scheduler
  <2>2. uxCurrentNumberOfTasks' = uxCurrentNumberOfTasks
    <3>1. {u \in Task : state'[u] # "none"} = {u \in Task : state[u] # "none"}
      BY <2>1
    <3>. QED  BY <3>1 DEF uxCurrentNumberOfTasks
  <2>3. UNCHANGED <<use, op, step, expired, storeVars>> /\ StillStranding
    BY <1>6 DEF Scheduler
  <2>4. \A l \in EventList : Account(l)'
    BY <1>2, <1>5, <2>1, <2>2, <2>3
  <2>5. uxSchedulerSuspended' = 0 /\ pxCurrentTCB' \in Task
    BY <1>6, SchedulerKeeps DEF CallInv, KernelInv, KernelTypeOK
  <2>6. step'[pxCurrentTCB'] # "place"
    BY <2>5 DEF CallInv, Locked
  <2>. QED  BY <2>4, <2>6, NoPlace DEF AccountInv
<1>7. CASE UNCHANGED queueVars
  <2>1. UNCHANGED <<use, kernelVars, op, step, expired, storeVars, stranding>>
    BY <1>7 DEF queueVars, callVars
  <2>2. Wakes({}) /\ uxCurrentNumberOfTasks' = uxCurrentNumberOfTasks
    BY <1>0, <2>1, KernelStill, SameNumber
  <2>3. \A l \in EventList : Account(l)' /\ Supply(l)' = Supply(l) /\ Credit(l)' = Credit(l)
    BY <1>5, <2>1, <2>2 DEF Wakes
  <2>4. \A t \in Task : PlaceOK(t)'
    <3>. SUFFICES ASSUME NEW t \in Task PROVE PlaceOK(t)'
      OBVIOUS
    <3>1. PICK l \in EventList : l = Waiters(op[t])
      BY Lists2
    <3>2. Waiters(op[t])' = l /\ step' = step
      BY <2>1, <3>1 DEF Waiters
    <3>3. step[t] = "place" => Supply(l) <= Credit(l) \/ Owed(l)
      BY <3>1 DEF AccountInv, PlaceOK
    <3>. QED  BY <2>2, <2>3, <3>2, <3>3 DEF PlaceOK, Owed
  <2>. QED  BY <2>3, <2>4 DEF AccountInv
<1>. QED  BY <1>1, <1>3, <1>4, <1>6, <1>7, Cases

\* No wake-up is lost, whatever interrupts send and receive between the test of
\* the queue and the sleep, and whatever calls succeed, fail, time out or are
\* aborted meanwhile: a task sleeps on an unlocked queue only if there is no more
\* for it than tasks on their way to it.
THEOREM WakeUpsNotLost == QueueSpec => []NobodyStranded
<1>1. QueueInit => AccountInv
  <2>. SUFFICES ASSUME QueueInit PROVE AccountInv
    OBVIOUS
  <2>1. \A l \in EventList : Sleepers(l) = {}
    BY KernelInit DEF QueueInit
  <2>2. \A t \in Task : step[t] # "place"
    BY DEF QueueInit
  <2>. QED  BY <2>1, <2>2 DEF AccountInv, Account, PlaceOK
<1>2. CallInv /\ CallInv' /\ TimeInv /\ AccountInv /\ [QueueNext]_queueVars => AccountInv'
  BY AccountStep
<1>3. CallInv /\ AccountInv => NobodyStranded
  <2>. SUFFICES ASSUME CallInv, AccountInv PROVE NobodyStranded
    OBVIOUS
  <2>0. KernelTypeOK /\ ToSend \in EventList /\ ToReceive \in EventList /\ ToSend # ToReceive
    BY Lists2 DEF CallInv, KernelInv
  <2>1. ASSUME NEW l \in EventList, LockOf(l) = queueUNLOCKED, xEventLists[l] # <<>>,
               l = ToSend => ~stranding
        PROVE  Supply(l) <= Cardinality(Coming(l))
    <3>1. Sleepers(l) # {}
      BY <2>0, <2>1, SleepersAreTasks
    <3>2. /\ Supply(l) \in Nat /\ Cardinality(Useful(l)) \in Nat
          /\ uxCurrentNumberOfTasks \in Nat /\ uxCurrentNumberOfTasks > 0
      BY <3>1, AccountTypes
    <3>3. Credit(l) = 0
      BY <2>1 DEF Credit
    <3>4. Supply(l) <= Cardinality(Useful(l))
      BY <2>1, <3>1, <3>2, <3>3 DEF AccountInv, Account, Owed
    <3>5. Coming(l) \in SUBSET Task /\ Useful(l) \in SUBSET Coming(l)
      BY <2>0, SleepersAreTasks DEF Coming, Useful
    <3>6. IsFiniteSet(Coming(l)) /\ Cardinality(Coming(l)) \in Nat
          /\ Cardinality(Useful(l)) <= Cardinality(Coming(l))
      BY <3>5, KernelAssumption, FS_Subset, FS_CardinalityType
    <3>. QED  BY <3>2, <3>4, <3>6
  <2>2. ReaderNotStranded
    BY <2>0, <2>1 DEF ReaderNotStranded, LockOf, Supply
  <2>3. SenderNotStranded
    BY <2>0, <2>1 DEF SenderNotStranded, LockOf, Supply
  <2>. QED  BY <2>2, <2>3 DEF NobodyStranded
<1>. QED  BY <1>1, <1>2, <1>3, CallTimeAlways, PTL DEF QueueSpec

-----------------------------------------------------------------------------
\* The lock of a queue is held by the task that is between prvLockQueue and
\* prvUnlockQueue, with the scheduler suspended, and counts no further than there
\* are tasks, however many items handlers send and take meanwhile.
THEOREM QueueIsConsistent == QueueSpec => []QueueConsistent
<1>1. CallInv /\ TimeInv => QueueConsistent
  <2>. SUFFICES ASSUME CallInv, TimeInv PROVE QueueConsistent
    OBVIOUS
  <2>1. QueueTypeOK
    BY DEF CallInv, CallType, TimeInv, TimeType, QueueTypeOK
  <2>2. pxCurrentTCB \in Task
    BY DEF CallInv, KernelInv, KernelTypeOK
  <2>3. LockHasOwner
    <3>. SUFFICES ASSUME cTxLock # queueUNLOCKED \/ cRxLock # queueUNLOCKED PROVE LockHasOwner
      BY DEF LockHasOwner
    <3>1. step[pxCurrentTCB] \in RxLocked
      BY DEF CallInv, RxLocked
    <3>2. uxSchedulerSuspended = 1
      BY <2>2, <3>1 DEF CallInv, RxLocked, TxLocked, Locked
    <3>. QED  BY <3>1, <3>2 DEF LockHasOwner, RxLocked, TxLocked
  <2>. QED  BY <2>1, <2>3 DEF QueueConsistent
<1>. QED  BY <1>1, CallTimeAlways, PTL

\* However often a task is woken in vain and goes back to sleep, it sleeps for
\* what is left of the time it asked for.
THEOREM SleepsAsLongAsAsked == QueueSpec => []SleepsForTheRest
<1>1. TimeInv => SleepsForTheRest
  BY DEF TimeInv, TimeOK, SleepOK, SleepsForTheRest
<1>. QED  BY <1>1, CallTimeAlways, PTL

\* No call times out early, whether it slept once or often and whether or not the
\* tick count wrapped meanwhile.
THEOREM FailsInTime == QueueSpec => NoEarlyFailure
<1>. DEFINE NotEarly(t) ==
       step[t] = "timeout" /\ step'[t] = "unlockTx"
         => ucDelayAborted[t] \/ (requested[t] # portMAX_DELAY /\ waited[t] >= requested[t])
<1>1. ASSUME CallInv, TimeInv, [QueueNext]_queueVars, NEW t \in Task PROVE NotEarly(t)
  <2>. SUFFICES ASSUME step[t] = "timeout", step'[t] = "unlockTx", ~ucDelayAborted[t]
                PROVE  requested[t] # portMAX_DELAY /\ waited[t] >= requested[t]
    OBVIOUS
  <2>0. /\ KernelTypeOK /\ TimeType /\ TimeOK(t) /\ step \in [Task -> Steps]
        /\ t = pxCurrentTCB /\ uxSchedulerSuspended = 1
    BY <1>1 DEF CallInv, KernelInv, TimeInv, CallType, Locked
  <2>1. xTaskCheckForTimeOut(t)
    <3>1. step' # step
      OBVIOUS
    <3>2. ~Scheduler /\ ~xQueueGenericSendFromISR /\ ~xQueueReceiveFromISR /\ ~UNCHANGED queueVars
      BY <3>1 DEF Scheduler, xQueueGenericSendFromISR, xQueueReceiveFromISR, queueVars, callVars
    <3>3. PICK u \in Task : CallStep(u)
      BY <1>1, <3>2, Cases
    <3>4. CASE u # t
      <4>1. ~AtCall(u)
        BY <2>0, <3>4 DEF AtCall
      <4>. QED
        BY <3>3, <4>1 DEF CallStep, BeginCall, Serve, FailAtOnce, StartWaiting, Lock,
             xTaskCheckForTimeOut, Test, Place, UnlockTx, UnlockRx, ResumeScheduler, Expire,
             xQueueGenericReset, xTaskAbortDelay, AbortDone, At
    <3>5. CASE u = t
      BY <3>3, <3>5 DEF CallStep, BeginCall, Serve, FailAtOnce, StartWaiting, Lock,
           xTaskCheckForTimeOut, Test, Place, UnlockTx, UnlockRx, ResumeScheduler, Expire,
           xQueueGenericReset, xTaskAbortDelay, AbortDone, At
    <3>. QED  BY <3>4, <3>5
  <2>2. TimedOut(t)
    BY <2>0, <2>1 DEF xTaskCheckForTimeOut, Goto
  <2>3. /\ xTicksToWait[t] # portMAX_DELAY
        /\ \/ xTimeOut[t].overflowed /\ xTickCount >= xTimeOut[t].xTimeOnEntering
           \/ ElapsedTime(t) >= xTicksToWait[t]
    BY <2>2 DEF TimedOut
  <2>4. requested[t] # portMAX_DELAY
    BY <2>0, <2>3 DEF TimeOK, RestOK
  <2>5. requested[t] \in 0 .. portMAX_DELAY /\ waited[t] \in 0 .. TickRange
        /\ xTicksToWait[t] \in 0 .. portMAX_DELAY /\ ElapsedTime(t) \in 0 .. portMAX_DELAY
    BY <2>0, TrueElapsed DEF TimeType
  <2>6. CASE waited[t] < TickRange
    <3>1. /\ ~(xTimeOut[t].overflowed /\ xTickCount >= xTimeOut[t].xTimeOnEntering)
          /\ waited[t] + xTicksToWait[t] = requested[t] + ElapsedTime(t)
      BY <2>0, <2>4, <2>6, TrueElapsed
    <3>2. ElapsedTime(t) >= xTicksToWait[t]
      BY <2>3, <3>1
    <3>. QED  BY <2>4, <2>5, <3>1, <3>2
  <2>7. CASE ~(waited[t] < TickRange)
    BY <2>4, <2>5, <2>7, TickType
  <2>. QED  BY <2>6, <2>7
<1>2. CallInv /\ TimeInv /\ [QueueNext]_queueVars => [\A t \in Task : NotEarly(t)]_queueVars
  BY <1>1
<1>3. [][\A t \in Task : NotEarly(t)]_queueVars <=> NoEarlyFailure
  BY DEF NoEarlyFailure
<1>. QED  BY <1>2, <1>3, CallTimeAlways, PTL DEF QueueSpec
=============================================================================
