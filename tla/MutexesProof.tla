---------------------------- MODULE MutexesProof ----------------------------
(***************************************************************************)
(* Theorems about Mutexes, for every number of tasks, of priorities and of *)
(* mutexes, every width of the tick count and every time to wait.          *)
(***************************************************************************)
EXTENDS Mutexes, ListsProof

\* Where the scheduler is suspended in a call.
Locked == {"timeout", "inherit", "place", "resume", "resumeExpired"}

KernelType ==
  /\ pxCurrentTCB \in Task
  /\ uxPriority \in [Task -> Priority] /\ uxBasePriority = InitPriority
  /\ xEventPriority = uxPriority
  /\ ucDelayAborted \in [Task -> BOOLEAN]
  /\ state \in [Task -> States]
  /\ xEventLists \in [Mutex -> Seq(Task)] /\ pending = {}
  /\ uxSchedulerSuspended \in {0, 1}

CallType ==
  /\ xMutexHolder \in [Mutex -> Task \cup {NULL}]
  /\ step \in [Task -> Steps] /\ mutex \in [Task -> Mutex \cup {NULL}]
  /\ rest \in [Task -> 0 .. portMAX_DELAY]
  /\ xInheritanceOccurred \in [Task -> BOOLEAN]

\* A task that waits for a mutex sleeps in its call and in that mutex's list only.
Waits(u, m) == mutex[u] = m /\ step[u] \in {"resume", "check"} /\ state[u] \in {"blocked", "suspended"}

\* A task in the locked part of its call runs, and the scheduler is suspended
\* for nothing else but a delay; a task about to wait finds the mutex held.
CallInv ==
  /\ KernelType /\ CallType
  /\ \A t \in Task : step[t] \in Locked => t = pxCurrentTCB /\ uxSchedulerSuspended = 1
  /\ uxSchedulerSuspended = 1 => step[pxCurrentTCB] \in Locked \cup {"none"}
  /\ \A t \in Task : step[t] # "none" => mutex[t] \in Mutex
  /\ \A t \in Task : step[t] \in {"inherit", "place"} => xMutexHolder[mutex[t]] # NULL
  /\ \A m \in Mutex : \A u \in ToSet(xEventLists[m]) : Waits(u, m)

-----------------------------------------------------------------------------
\* Every step is one of these.
LEMMA Cases ==
  ASSUME [MutexNext]_mutexVars
  PROVE  \/ Scheduler /\ IncrementTick
         \/ Scheduler /\ SwitchContext
         \/ \E t \in Task : \/ CallStep(t)
         \/ UNCHANGED mutexVars
BY DEF MutexNext, Scheduler

\* The running task is in no list unless it is about to resume the scheduler.
LEMMA RunnerInNoList ==
  ASSUME CallInv, NEW t \in Task, NEW s, At(t, s), s # "resume",
         NEW m \in Mutex
  PROVE  t \notin ToSet(xEventLists[m])
BY DEF CallInv, At, AtCall, Waits, Locked, KernelType

\* At the start nobody is in a call.
LEMMA CallInit == MutexInit => CallInv
<1>. SUFFICES ASSUME MutexInit PROVE CallInv
  OBVIOUS
<1>1. KernelType
  BY MutexAssumption, KernelAssumption DEF MutexInit, Init, KernelType, Created, Mutex, States
<1>2. CallType
  BY MutexAssumption, KernelAssumption DEF MutexInit, CallType, Steps, portMAX_DELAY
<1>3. \A m \in Mutex : ToSet(xEventLists[m]) = {}
  BY EmptySet DEF MutexInit, Init, Mutex
<1>. QED  BY <1>1, <1>2, <1>3 DEF CallInv, MutexInit, Init, Locked

\* What a step that leaves the kernel's lists alone must keep for CallInv: it
\* moves the call of the running task only.
LEMMA CallMoves ==
  ASSUME CallInv, KernelType', CallType', NEW t \in Task,
         t = pxCurrentTCB, pxCurrentTCB' = t, xEventLists' = xEventLists, state' = state,
         \A u \in Task \ {t} : step'[u] = step[u] /\ mutex'[u] = mutex[u],
         \A m \in Mutex : t \notin ToSet(xEventLists[m])
           \/ (step[t] = "resume" /\ step'[t] = "check" /\ mutex'[t] = mutex[t]),
         step'[t] \in Locked => uxSchedulerSuspended' = 1,
         uxSchedulerSuspended' = 1 => step'[t] \in Locked \cup {"none"},
         step'[t] # "none" => mutex'[t] \in Mutex,
         step'[t] \in {"inherit", "place"} => xMutexHolder'[mutex'[t]] # NULL
  PROVE  CallInv'
<1>1. \A u \in Task \ {t} : step[u] \notin Locked
  BY DEF CallInv
<1>2. \A u \in Task : step'[u] \in Locked => u = pxCurrentTCB' /\ uxSchedulerSuspended' = 1
  BY <1>1
<1>3. \A u \in Task : step'[u] # "none" => mutex'[u] \in Mutex
  BY DEF CallInv
<1>4. \A u \in Task : step'[u] \in {"inherit", "place"} => xMutexHolder'[mutex'[u]] # NULL
  BY <1>1 DEF Locked
<1>5. ASSUME NEW m \in Mutex, NEW u \in ToSet(xEventLists[m]) PROVE Waits(u, m)'
  <2>1. xEventLists[m] \in Seq(Task)
    BY DEF CallInv, KernelType
  <2>2. u \in Task /\ Waits(u, m)
    BY <1>5, <2>1, Members DEF CallInv
  <2>. QED  BY <1>5, <2>2 DEF Waits
<1>. QED  BY <1>2, <1>3, <1>4, <1>5 DEF CallInv

\* A step of a call keeps CallInv.
LEMMA CallStepKeeps ==
  ASSUME CallInv, NEW t \in Task, CallStep(t)
  PROVE  CallInv'
<1>0. /\ KernelType /\ CallType
      /\ portMAX_DELAY \in Nat
      /\ 0 \in Priority /\ InitPriority \in [Task -> Priority]
  BY MutexAssumption, KernelAssumption DEF CallInv, portMAX_DELAY, Priority
<1>1. CASE \E m \in Mutex, n \in WaitTimes : Take(t, m, n)
  <2>1. PICK m \in Mutex, n \in WaitTimes : Take(t, m, n)
    BY <1>1
  <2>2. n \in 0 .. portMAX_DELAY
    BY MutexAssumption, KernelAssumption
  <2>3. KernelType'
    BY <1>0, <2>1 DEF Take, KernelType, kernelVars, priorityVars, flagVars
  <2>4. CallType'
    BY <1>0, <2>1, <2>2 DEF Take, CallType, Goto, holdVars, Steps
  <2>. QED
    BY <1>0, <2>1, <2>3, <2>4, CallMoves, RunnerInNoList
       DEF Take, KernelType, CallType, Goto, At, AtCall, kernelVars, Locked
<1>2. CASE Obtain(t)
  <2>1. PICK s \in {"first", "check", "last"} : At(t, s)
    BY <1>2 DEF Obtain
  <2>2. KernelType'
    BY <1>0, <1>2 DEF Obtain, KernelType, kernelVars, priorityVars, flagVars
  <2>3. mutex[t] \in Mutex
    BY <2>1 DEF CallInv, At
  <2>4. CallType'
    BY <1>0, <1>2, <2>3 DEF Obtain, CallType, Return, Steps
  <2>5. uxSchedulerSuspended = 0
    BY <1>0, <2>1 DEF CallInv, At, AtCall, Locked, KernelType
  <2>. QED
    BY <1>0, <1>2, <2>1, <2>2, <2>4, <2>5, CallMoves, RunnerInNoList
       DEF Obtain, KernelType, CallType, Return, At, AtCall, kernelVars, Locked
<1>3. CASE FailAtOnce(t)
  <2>1. PICK s \in {"first", "last"} : At(t, s)
    BY <1>3 DEF FailAtOnce
  <2>2. KernelType'
    BY <1>0, <1>3 DEF FailAtOnce, KernelType, kernelVars, priorityVars, flagVars
  <2>4. CallType'
    BY <1>0, <1>3 DEF FailAtOnce, CallType, Return, Steps, holdVars
  <2>5. uxSchedulerSuspended = 0
    BY <1>0, <2>1 DEF CallInv, At, AtCall, Locked, KernelType
  <2>. QED
    BY <1>0, <1>3, <2>1, <2>2, <2>4, <2>5, CallMoves, RunnerInNoList
       DEF FailAtOnce, KernelType, CallType, Return, At, AtCall, kernelVars, Locked
<1>4. CASE StartWaiting(t)
  <2>1. PICK s \in {"first", "check"} : At(t, s)
    BY <1>4 DEF StartWaiting
  <2>2. KernelType'
    BY <1>0, <1>4 DEF StartWaiting, KernelType, kernelVars, priorityVars, flagVars
  <2>4. CallType'
    BY <1>0, <1>4 DEF StartWaiting, CallType, Goto, Steps, holdVars
  <2>5. uxSchedulerSuspended = 0
    BY <1>0, <2>1 DEF CallInv, At, AtCall, Locked, KernelType
  <2>6. mutex[t] \in Mutex
    BY <2>1 DEF CallInv, At
  <2>. QED
    BY <1>0, <1>4, <2>1, <2>2, <2>4, <2>5, <2>6, CallMoves, RunnerInNoList
       DEF StartWaiting, KernelType, CallType, Goto, At, AtCall, kernelVars, Locked
<1>5. CASE Lock(t)
  <2>1. At(t, "lock") /\ uxSchedulerSuspended = 0
    BY <1>0, <1>5 DEF Lock, CallInv, At, AtCall, Locked, KernelType
  <2>2. KernelType'
    BY <1>0, <1>5, <2>1 DEF Lock, SuspendAll, KernelType, priorityVars, flagVars
  <2>4. CallType'
    BY <1>0, <1>5 DEF Lock, CallType, Goto, Steps, holdVars
  <2>6. mutex[t] \in Mutex
    BY <2>1 DEF CallInv, At
  <2>. QED
    BY <1>0, <1>5, <2>1, <2>2, <2>4, <2>6, CallMoves, RunnerInNoList
       DEF Lock, SuspendAll, KernelType, CallType, Goto, At, AtCall, Locked
<1>6. CASE CheckForTimeOut(t)
  <2>1. At(t, "timeout") /\ uxSchedulerSuspended = 1
    BY <1>0, <1>6 DEF CheckForTimeOut, CallInv, At, AtCall, Locked
  <2>2. KernelType'
    BY <1>0, <1>6 DEF CheckForTimeOut, KernelType, priorityVars
  <2>3. PICK s \in {"resumeExpired", "resume", "inherit"} :
          Goto(t, s) /\ (s = "inherit" => xMutexHolder[mutex[t]] # NULL)
    BY <1>6 DEF CheckForTimeOut
  <2>4. CallType'
    BY <1>0, <1>6, <2>3 DEF CheckForTimeOut, CallType, Goto, Steps, holdVars
  <2>6. mutex[t] \in Mutex
    BY <2>1 DEF CallInv, At
  <2>7. /\ pxCurrentTCB' = pxCurrentTCB /\ xEventLists' = xEventLists /\ state' = state
        /\ mutex' = mutex /\ xMutexHolder' = xMutexHolder
        /\ uxSchedulerSuspended' = uxSchedulerSuspended
    BY <1>6 DEF CheckForTimeOut, holdVars
  <2>8. step' = [step EXCEPT ![t] = s] /\ step \in [Task -> Steps]
    BY <1>0, <2>3 DEF Goto, CallType
  <2>9. t = pxCurrentTCB /\ \A m \in Mutex : t \notin ToSet(xEventLists[m])
    BY <2>1, RunnerInNoList DEF At, AtCall
  <2>. QED
    BY <2>1, <2>2, <2>3, <2>4, <2>6, <2>7, <2>8, <2>9, CallMoves DEF Locked
<1>7. CASE xTaskPriorityInherit(t)
  <2>1. At(t, "inherit") /\ uxSchedulerSuspended = 1
    BY <1>0, <1>7 DEF xTaskPriorityInherit, CallInv, At, AtCall, Locked
  <2>6. mutex[t] \in Mutex /\ xMutexHolder[mutex[t]] \in Task
    BY <1>0, <2>1 DEF CallInv, At, CallType
  <2>2. KernelType'
    BY <1>0, <1>7, <2>6 DEF xTaskPriorityInherit, SetPriority, KernelType, flagVars
  <2>4. CallType'
    BY <1>0, <1>7, <2>6 DEF xTaskPriorityInherit, CallType, Goto, Steps, holdVars
  <2>7. /\ pxCurrentTCB' = pxCurrentTCB /\ xEventLists' = xEventLists /\ state' = state
        /\ mutex' = mutex /\ xMutexHolder' = xMutexHolder
        /\ uxSchedulerSuspended' = uxSchedulerSuspended /\ step' = [step EXCEPT ![t] = "place"]
    BY <1>7 DEF xTaskPriorityInherit, holdVars, Goto
  <2>8. step \in [Task -> Steps] /\ xMutexHolder[mutex[t]] # NULL
    BY <1>0, <2>6, MutexAssumption, KernelAssumption DEF CallType
  <2>9. t = pxCurrentTCB /\ \A m \in Mutex : t \notin ToSet(xEventLists[m])
    BY <2>1, RunnerInNoList DEF At, AtCall
  <2>. QED
    BY <2>1, <2>2, <2>4, <2>6, <2>7, <2>8, <2>9, CallMoves DEF Locked
<1>8. CASE Place(t)
  <2>1. At(t, "place") /\ uxSchedulerSuspended = 1
    BY <1>0, <1>8 DEF Place, CallInv, At, AtCall, Locked
  <2>2. mutex[t] \in Mutex /\ xMutexHolder[mutex[t]] # NULL /\ t = pxCurrentTCB
    BY <1>0, <2>1 DEF CallInv, At, AtCall
  <2>. DEFINE value == [u \in Task |-> MaxPriorities - xEventPriority[u]]
              list  == vListInsert(xEventLists[mutex[t]], t, value)
  <2>3. /\ xEventLists' = [xEventLists EXCEPT ![mutex[t]] = list]
        /\ step' = [step EXCEPT ![t] = "resume"] /\ mutex' = mutex
        /\ xMutexHolder' = xMutexHolder /\ uxSchedulerSuspended' = uxSchedulerSuspended
        /\ pxCurrentTCB' = pxCurrentTCB
    BY <1>8 DEF Place, PlaceOnEventList, Goto, holdVars
  <2>4. \E w \in {"blocked", "suspended"} : state' = [state EXCEPT ![t] = w]
    BY <1>8 DEF Place, PlaceOnEventList, MoveTo
  <2>5. xEventLists[mutex[t]] \in Seq(Task)
    BY <1>0, <2>2 DEF KernelType
  <2>. HIDE DEF value
  <2>6. list \in Seq(Task) /\ ToSet(list) = ToSet(xEventLists[mutex[t]]) \cup {t}
    BY <2>5, InsertSet
  <2>. HIDE DEF list
  <2>7. KernelType'
    BY <1>0, <1>8, <2>2, <2>3, <2>4, <2>6
       DEF Place, PlaceOnEventList, KernelType, priorityVars, States
  <2>8. CallType'
    BY <1>0, <1>8 DEF Place, CallType, Goto, Steps, holdVars
  <2>9. ASSUME NEW m \in Mutex, NEW u \in ToSet(xEventLists'[m]) PROVE Waits(u, m)'
    <3>1. u \in ToSet(xEventLists[m]) \/ (u = t /\ m = mutex[t])
      BY <1>0, <2>2, <2>3, <2>6, <2>9 DEF KernelType
    <3>2. CASE u = t
      <4>1. t \notin ToSet(xEventLists[m])
        BY <2>1, RunnerInNoList
      <4>. QED  BY <1>0, <2>3, <2>4, <3>1, <3>2, <4>1 DEF Waits, KernelType, CallType
    <3>3. CASE u # t
      BY <1>0, <2>3, <2>4, <3>1, <3>3 DEF Waits, CallInv, KernelType, CallType
    <3>. QED  BY <3>2, <3>3
  <2>. QED
    BY <1>0, <2>1, <2>2, <2>3, <2>7, <2>8, <2>9 DEF CallInv, CallType, Locked, At
<1>9. CASE ResumeScheduler(t)
  <2>1. /\ At(t, "resume") \/ At(t, "resumeExpired")
        /\ t = pxCurrentTCB /\ uxSchedulerSuspended = 1
    BY <1>0, <1>9 DEF ResumeScheduler, CallInv, At, AtCall, Locked
  <2>2. state' = state /\ pending' = {} /\ uxSchedulerSuspended' = 0
    BY <1>0, <1>9, <2>1 DEF ResumeScheduler, ResumeAll, KernelType
  <2>3. KernelType'
    BY <1>0, <1>9, <2>2 DEF ResumeScheduler, ResumeAll, KernelType, priorityVars, flagVars
  <2>4. CallType'
    BY <1>0, <1>9 DEF ResumeScheduler, CallType, Goto, Steps, holdVars
  <2>5. /\ step' = [step EXCEPT ![t] = IF step[t] = "resume" THEN "check" ELSE "expired"]
        /\ mutex' = mutex /\ xEventLists' = xEventLists /\ pxCurrentTCB' = pxCurrentTCB
        /\ mutex[t] \in Mutex /\ step \in [Task -> Steps]
    BY <1>0, <1>9, <2>1 DEF ResumeScheduler, ResumeAll, Goto, CallInv, At, CallType
  <2>6. \A m \in Mutex : t \notin ToSet(xEventLists[m]) \/ step[t] = "resume"
    BY <2>1, RunnerInNoList DEF At
  <2>. QED  BY <2>1, <2>2, <2>3, <2>4, <2>5, <2>6, CallMoves DEF Locked
<1>10. CASE Expire(t)
  <2>1. At(t, "expired") /\ uxSchedulerSuspended = 0
    BY <1>0, <1>10 DEF Expire, CallInv, At, AtCall, Locked, KernelType
  <2>2. KernelType'
    BY <1>0, <1>10 DEF Expire, KernelType, kernelVars, priorityVars, flagVars
  <2>3. CallType'
    <3>1. CASE Return(t)
      BY <1>0, <1>10, <3>1 DEF Expire, CallType, Return, Steps, holdVars
    <3>2. CASE ~Return(t)
      BY <1>0, <1>10, <3>2 DEF Expire, CallType, Goto, Steps, holdVars
    <3>. QED  BY <3>1, <3>2
  <2>4. mutex[t] \in Mutex /\ step \in [Task -> Steps] /\ mutex \in [Task -> Mutex \cup {NULL}]
    BY <1>0, <2>1 DEF CallInv, At, CallType
  <2>. QED
    BY <1>10, <2>1, <2>2, <2>3, <2>4, CallMoves, RunnerInNoList
       DEF Expire, Goto, Return, At, AtCall, kernelVars, Locked
<1>11. CASE vTaskPriorityDisinheritAfterTimeout(t)
  <2>1. At(t, "disinherit") /\ uxSchedulerSuspended = 0
    BY <1>0, <1>11 DEF vTaskPriorityDisinheritAfterTimeout, CallInv, At, AtCall, Locked, KernelType
  <2>4. mutex[t] \in Mutex /\ step \in [Task -> Steps] /\ mutex \in [Task -> Mutex \cup {NULL}]
    BY <1>0, <2>1 DEF CallInv, At, CallType
  <2>5. HighestWaiting(mutex[t]) \in Priority
    <3>1. xEventLists[mutex[t]] \in Seq(Task)
      BY <1>0, <2>4 DEF KernelType
    <3>. QED  BY <1>0, <3>1 DEF HighestWaiting, KernelType
  <2>2. KernelType'
    <3>. DEFINE p(h) == PriorityToUse(h, HighestWaiting(mutex[t]))
    <3>1. \A h \in Task : p(h) \in Priority
      BY <1>0, <2>5 DEF PriorityToUse, KernelType
    <3>2. xMutexHolder[mutex[t]] \in Task \cup {NULL}
      BY <1>0, <2>4 DEF CallType
    <3>3. \/ \E h \in Task : SetPriority(h, p(h))
          \/ UNCHANGED <<uxPriority, xEventPriority>>
      BY <1>11, <3>2 DEF vTaskPriorityDisinheritAfterTimeout
    <3>. HIDE DEF p
    <3>. QED
      BY <1>0, <1>11, <3>1, <3>3
         DEF vTaskPriorityDisinheritAfterTimeout, KernelType, flagVars, SetPriority
  <2>3. CallType'
    BY <1>0, <1>11 DEF vTaskPriorityDisinheritAfterTimeout, CallType, Return, Steps, holdVars
  <2>6. /\ step' = [step EXCEPT ![t] = "none"] /\ mutex' = [mutex EXCEPT ![t] = NULL]
        /\ xEventLists' = xEventLists /\ state' = state /\ pxCurrentTCB' = pxCurrentTCB
        /\ uxSchedulerSuspended' = uxSchedulerSuspended
    BY <1>11 DEF vTaskPriorityDisinheritAfterTimeout, Return
  <2>7. t = pxCurrentTCB /\ \A m \in Mutex : t \notin ToSet(xEventLists[m])
    BY <2>1, RunnerInNoList DEF At, AtCall
  <2>. QED  BY <2>1, <2>2, <2>3, <2>4, <2>6, <2>7, CallMoves DEF Locked
<1>12. CASE \E m \in Mutex : Give(t, m)
  <2>1. PICK m \in Mutex : Give(t, m)
    BY <1>12
  <2>2. xEventLists[m] \in Seq(Task) /\ uxSchedulerSuspended = 0
    BY <1>0, <2>1 DEF KernelType, Give
  <2>3. /\ WithoutAll(xEventLists[m], Woken(m)) \in Seq(Task)
        /\ ToSet(WithoutAll(xEventLists[m], Woken(m))) = ToSet(xEventLists[m]) \ Woken(m)
    BY <2>2, WithoutAllSet
  <2>4. Woken(m) \subseteq ToSet(xEventLists[m])
    BY <2>2, HeadAndRest DEF Woken, ToSet
  <2>5. KernelType'
    BY <1>0, <2>1, <2>3, ZenonT(60) DEF Give, KernelType, SetPriority, flagVars, States
  <2>6. CallType'
    BY <1>0, <2>1 DEF Give, CallType, callVars
  <2>7. /\ xEventLists' = [xEventLists EXCEPT ![m] = WithoutAll(xEventLists[m], Woken(m))]
        /\ state' = [u \in Task |-> IF u \in Woken(m) THEN "ready" ELSE state[u]]
        /\ UNCHANGED <<pxCurrentTCB, uxSchedulerSuspended, step, mutex>>
        /\ xMutexHolder' = [xMutexHolder EXCEPT ![m] = NULL]
    BY <2>1 DEF Give, callVars
  <2>8. ASSUME NEW n \in Mutex, NEW u \in ToSet(xEventLists'[n]) PROVE Waits(u, n)'
    <3>1. xEventLists[n] \in Seq(Task)
      BY <1>0 DEF KernelType
    <3>2. u \in ToSet(xEventLists[n]) /\ (n = m => u \notin Woken(m))
      BY <1>0, <2>3, <2>7, <2>8 DEF KernelType
    <3>3. u \in Task /\ Waits(u, n)
      BY <3>1, <3>2, Members DEF CallInv
    <3>4. u \notin Woken(m)
      BY <2>4, <3>2, <3>3 DEF CallInv, Waits
    <3>. QED  BY <2>7, <3>3, <3>4 DEF Waits
  <2>9. \A u \in Task : step[u] \notin Locked
    BY <2>2 DEF CallInv
  <2>. QED  BY <2>2, <2>5, <2>6, <2>7, <2>8, <2>9 DEF CallInv, Locked
<1>13. CASE \E n \in DelayTimes : Sleep(t, n)
  <2>1. PICK n \in DelayTimes : Sleep(t, n)
    BY <1>13
  <2>2. /\ At(t, "none") /\ t = pxCurrentTCB /\ uxSchedulerSuspended = 0
        /\ state' = [state EXCEPT ![t] = "blocked"] /\ uxSchedulerSuspended' = 1
        /\ UNCHANGED <<pxCurrentTCB, xEventLists, step, mutex, xMutexHolder>>
    BY <2>1 DEF Sleep, Delay, At, AtCall, callVars, holdVars
  <2>3. KernelType'
    BY <1>0, <2>1 DEF Sleep, Delay, KernelType, priorityVars, flagVars, States
  <2>4. CallType'
    BY <1>0, <2>1 DEF Sleep, CallType, callVars, holdVars
  <2>5. ASSUME NEW m \in Mutex, NEW u \in ToSet(xEventLists[m]) PROVE Waits(u, m)'
    <3>1. u # t /\ Waits(u, m)
      BY <2>2, RunnerInNoList DEF CallInv
    <3>. QED  BY <1>0, <2>2, <3>1 DEF Waits, KernelType
  <2>. QED  BY <2>2, <2>3, <2>4, <2>5 DEF CallInv, At, Locked
<1>14. CASE EndDelay(t)
  <2>1. At(t, "none") /\ t = pxCurrentTCB
    BY <1>14 DEF EndDelay, At, AtCall
  <2>2. /\ state' = state /\ pending' = {} /\ uxSchedulerSuspended' = 0
        /\ UNCHANGED <<pxCurrentTCB, xEventLists, step, mutex, xMutexHolder>>
    BY <1>0, <1>14 DEF EndDelay, ResumeAll, KernelType, callVars, holdVars
  <2>3. KernelType'
    BY <1>0, <1>14, <2>2 DEF EndDelay, ResumeAll, KernelType, priorityVars, flagVars
  <2>4. CallType'
    BY <1>0, <1>14 DEF EndDelay, CallType, callVars, holdVars
  <2>. QED
    BY <2>1, <2>2, <2>3, <2>4, CallMoves, RunnerInNoList DEF At, Locked
<1>. QED
  BY <1>1, <1>2, <1>3, <1>4, <1>5, <1>6, <1>7, <1>8, <1>9, <1>10, <1>11, <1>12, <1>13, <1>14
     DEF CallStep

\* Every step keeps CallInv.
LEMMA CallStepInv == CallInv /\ [MutexNext]_mutexVars => CallInv'
<1>. SUFFICES ASSUME CallInv, [MutexNext]_mutexVars PROVE CallInv'
  OBVIOUS
<1>0. KernelType /\ CallType
  BY DEF CallInv
<1>1. CASE Scheduler /\ IncrementTick
  <2>. DEFINE due == {t \in Task : state[t] = "blocked" /\ left[t] = 1}
  <2>1. /\ uxSchedulerSuspended = 0 /\ uxSchedulerSuspended' = 0
        /\ state' = [t \in Task |-> IF t \in due THEN "ready" ELSE state[t]]
        /\ xEventLists' = [m \in Mutex |-> WithoutAll(xEventLists[m], due)]
        /\ UNCHANGED <<pxCurrentTCB, priorityVars, ucDelayAborted, step, mutex,
                       xInheritanceOccurred, xMutexHolder>>
        /\ pending' = pending \ due
    BY <1>1 DEF Scheduler, IncrementTick, LeaveEventLists, flagVars, holdVars, Mutex
  <2>. HIDE DEF due
  <2>2. \A m \in Mutex : /\ xEventLists'[m] \in Seq(Task)
                         /\ ToSet(xEventLists'[m]) = ToSet(xEventLists[m]) \ due
    <3>1. \A m \in Mutex : xEventLists[m] \in Seq(Task)
      BY <1>0 DEF KernelType
    <3>. QED  BY <2>1, <3>1, WithoutAllSet
  <2>3. KernelType'
    BY <1>0, <2>1, <2>2 DEF KernelType, priorityVars, States
  <2>4. CallType'
    <3>1. portMAX_DELAY \in Nat
      BY MutexAssumption, KernelAssumption DEF portMAX_DELAY
    <3>2. \A t \in Task : rest'[t] \in 0 .. portMAX_DELAY
      BY <1>0, <1>1, <3>1 DEF Scheduler, CallType
    <3>3. rest' = [t \in Task |-> rest'[t]]
      BY <1>1 DEF Scheduler
    <3>. QED  BY <1>0, <2>1, <3>2, <3>3 DEF CallType
  <2>5. ASSUME NEW m \in Mutex, NEW u \in ToSet(xEventLists'[m]) PROVE Waits(u, m)'
    <3>1. u \notin due /\ Waits(u, m)
      BY <2>2, <2>5 DEF CallInv
    <3>2. u \in Task
      BY <2>2, Members
    <3>. QED  BY <2>1, <3>1, <3>2 DEF Waits
  <2>. QED  BY <2>1, <2>3, <2>4, <2>5 DEF CallInv, Locked
<1>2. CASE Scheduler /\ SwitchContext
  <2>1. /\ uxSchedulerSuspended = 0 /\ uxSchedulerSuspended' = 0 /\ pxCurrentTCB' \in Task
        /\ UNCHANGED <<priorityVars, ucDelayAborted, state, xEventLists, pending, step, mutex,
                       xInheritanceOccurred, xMutexHolder, xTickCount>>
    BY <1>2 DEF Scheduler, SwitchContext, flagVars, holdVars
  <2>2. rest' = [t \in Task |-> rest[t]]
    BY <1>2, <2>1 DEF Scheduler
  <2>3. KernelType' /\ CallType'
    BY <1>0, <2>1, <2>2 DEF KernelType, CallType, priorityVars
  <2>. QED  BY <2>1, <2>3 DEF CallInv, Locked, Waits
<1>3. CASE \E t \in Task : CallStep(t)
  BY <1>3, CallStepKeeps
<1>4. CASE UNCHANGED mutexVars
  BY <1>4 DEF CallInv, KernelType, CallType, Waits, mutexVars, kernelVars, callVars, holdVars,
              priorityVars, flagVars
<1>. QED  BY <1>1, <1>2, <1>3, <1>4, Cases

-----------------------------------------------------------------------------
(***************************************************************************)
(* Priorities.  uxMutexesHeld counts what is held, so that the last mutex  *)
(* given back is noticed.                                                  *)
(***************************************************************************)
Held(t) == {m \in Mutex : xMutexHolder[m] = t}

HoldInv ==
  /\ uxMutexesHeld = [t \in Task |-> Cardinality(Held(t))]
  /\ \A t \in Task : uxBasePriority[t] <= uxPriority[t]
  /\ \A t \in Task : Held(t) = {} => uxPriority[t] = uxBasePriority[t]

\* A task that holds one mutex by count holds no second one.
LEMMA OneHeld ==
  ASSUME CallInv, HoldInv, NEW t \in Task, uxMutexesHeld[t] = 1,
         NEW m \in Held(t), NEW n \in Held(t)
  PROVE  m = n
<1>1. IsFiniteSet(Held(t))
  BY MutexAssumption, KernelAssumption, FS_Subset DEF Held
<1>2. Cardinality(Held(t)) = 1
  BY DEF HoldInv
<1>. QED  BY <1>1, <1>2, FS_Singleton

\* At the start nobody holds a mutex.
LEMMA HoldInit == MutexInit => HoldInv
<1>. SUFFICES ASSUME MutexInit PROVE HoldInv
  OBVIOUS
<1>1. ASSUME NEW t \in Task PROVE Held(t) = {} /\ Cardinality(Held(t)) = 0
  <2>1. Held(t) = {}
    BY MutexAssumption, KernelAssumption DEF MutexInit, Held
  <2>. QED  BY <2>1, FS_EmptySet
<1>2. \A t \in Task : InitPriority[t] \in Int
  BY MutexAssumption, KernelAssumption DEF Priority
<1>. QED  BY <1>1, <1>2 DEF HoldInv, MutexInit, Init

\* A step after which every task holds what it held and runs at its priority.
LEMMA HoldAlone ==
  ASSUME HoldInv, UNCHANGED <<xMutexHolder, uxMutexesHeld, uxPriority, uxBasePriority>>
  PROVE  HoldInv'
BY DEF HoldInv, Held

\* A step after which every task holds what it held, and the holder of a mutex
\* runs at a priority not below its own.
LEMMA HoldRaised ==
  ASSUME CallInv, HoldInv, NEW m \in Mutex, NEW h \in Task, xMutexHolder[m] = h,
         NEW p \in Priority, uxBasePriority[h] <= p, SetPriority(h, p),
         UNCHANGED <<xMutexHolder, uxMutexesHeld, uxBasePriority>>
  PROVE  HoldInv'
<1>1. m \in Held(h)
  BY DEF Held
<1>2. uxPriority' = [uxPriority EXCEPT ![h] = p] /\ uxPriority \in [Task -> Priority]
  BY DEF SetPriority, CallInv, KernelType
<1>3. \A t \in Task : Held(t)' = Held(t)
  BY DEF Held
<1>. QED  BY <1>1, <1>2, <1>3 DEF HoldInv

\* The priority a timeout leaves the holder with: its own, or that of the first
\* waiter if this is higher.
LEMMA PriorityLeft ==
  ASSUME CallInv, NEW m \in Mutex, NEW h \in Task
  PROVE  LET p == PriorityToUse(h, HighestWaiting(m))
         IN  /\ p \in Priority /\ uxBasePriority[h] <= p
             /\ xEventLists[m] # <<>> => uxPriority[Head(xEventLists[m])] <= p
<1>1. /\ 0 \in Priority /\ uxBasePriority \in [Task -> Priority] /\ uxPriority \in [Task -> Priority]
      /\ xEventPriority = uxPriority
      /\ \A p \in Priority : p \in Int
  BY MutexAssumption, KernelAssumption DEF Priority, CallInv, KernelType
<1>2. xEventLists[m] \in Seq(Task)
  BY DEF CallInv, KernelType
<1>3. PICK p : p = HighestWaiting(m)
  OBVIOUS
<1>4. p \in Priority /\ (xEventLists[m] # <<>> => p = uxPriority[Head(xEventLists[m])])
  BY <1>1, <1>2, <1>3 DEF HighestWaiting
<1>. QED  BY <1>1, <1>3, <1>4 DEF PriorityToUse

\* Every step keeps HoldInv.
LEMMA HoldStep == CallInv /\ HoldInv /\ [MutexNext]_mutexVars => HoldInv'
<1>. SUFFICES ASSUME CallInv, HoldInv, [MutexNext]_mutexVars PROVE HoldInv'
  OBVIOUS
<1>0. /\ xMutexHolder \in [Mutex -> Task \cup {NULL}] /\ NULL \notin Task
      /\ uxPriority \in [Task -> Priority] /\ uxBasePriority \in [Task -> Priority]
      /\ \A p \in Priority : p \in Int
      /\ \A u \in Task : IsFiniteSet(Held(u)) /\ uxMutexesHeld[u] = Cardinality(Held(u))
      /\ uxMutexesHeld \in [Task -> Nat]
  <2>1. \A u \in Task : IsFiniteSet(Held(u))
    BY MutexAssumption, KernelAssumption, FS_Subset DEF Held
  <2>. QED
    BY <2>1, MutexAssumption, KernelAssumption, FS_CardinalityType DEF CallInv, CallType, KernelType, HoldInv, Priority
<1>1. CASE Scheduler
  BY <1>1, HoldAlone
     DEF Scheduler, IncrementTick, SwitchContext, priorityVars, holdVars
<1>2. ASSUME NEW t \in Task, CallStep(t) PROVE HoldInv'
  <2>1. CASE Obtain(t)
    <3>1. mutex[t] \in Mutex /\ xMutexHolder[mutex[t]] = NULL
      BY <2>1 DEF Obtain, CallInv, At, Available
    <3>2. /\ xMutexHolder' = [xMutexHolder EXCEPT ![mutex[t]] = t]
          /\ uxMutexesHeld' = [uxMutexesHeld EXCEPT ![t] = @ + 1]
          /\ uxPriority' = uxPriority /\ uxBasePriority' = uxBasePriority
      BY <2>1 DEF Obtain, kernelVars, priorityVars
    <3>3. Held(t)' = Held(t) \cup {mutex[t]} /\ mutex[t] \notin Held(t)
      BY <1>0, <3>1, <3>2 DEF Held
    <3>4. \A u \in Task \ {t} : Held(u)' = Held(u)
      BY <1>0, <3>1, <3>2 DEF Held
    <3>5. Cardinality(Held(t)') = Cardinality(Held(t)) + 1
      BY <1>0, <3>3, FS_AddElement
    <3>6. uxMutexesHeld' = [u \in Task |-> Cardinality(Held(u)')]
      BY <1>0, <3>2, <3>4, <3>5
    <3>. QED  BY <3>2, <3>3, <3>4, <3>6 DEF HoldInv
  <2>2. CASE xTaskPriorityInherit(t)
    <3>1. PICK h : h = xMutexHolder[mutex[t]]
      OBVIOUS
    <3>2. mutex[t] \in Mutex /\ h \in Task
      BY <1>0, <2>2, <3>1 DEF xTaskPriorityInherit, CallInv, At
    <3>3. UNCHANGED <<xMutexHolder, uxMutexesHeld, uxBasePriority>>
      BY <2>2 DEF xTaskPriorityInherit, holdVars
    <3>4. CASE Inherits(h, t)
      <4>1. SetPriority(h, uxPriority[t])
        BY <2>2, <3>1, <3>4 DEF xTaskPriorityInherit
      <4>2. uxPriority[t] \in Priority /\ uxBasePriority[h] <= uxPriority[t]
        BY <1>0, <3>2, <3>4 DEF Inherits, HoldInv
      <4>. QED  BY <3>1, <3>2, <3>3, <4>1, <4>2, HoldRaised
    <3>5. CASE ~Inherits(h, t)
      BY <2>2, <3>1, <3>3, <3>5, HoldAlone DEF xTaskPriorityInherit
    <3>. QED  BY <3>4, <3>5
  <2>3. CASE vTaskPriorityDisinheritAfterTimeout(t)
    <3>1. PICK h, p : h = xMutexHolder[mutex[t]] /\ p = PriorityToUse(h, HighestWaiting(mutex[t]))
      OBVIOUS
    <3>2. mutex[t] \in Mutex
      BY <2>3 DEF vTaskPriorityDisinheritAfterTimeout, CallInv, At
    <3>3. UNCHANGED <<xMutexHolder, uxMutexesHeld, uxBasePriority>>
      BY <2>3 DEF vTaskPriorityDisinheritAfterTimeout, holdVars
    <3>4. CASE h # NULL /\ uxMutexesHeld[h] = 1
      <4>1. SetPriority(h, p)
        BY <2>3, <3>1, <3>4 DEF vTaskPriorityDisinheritAfterTimeout
      <4>2. h \in Task
        BY <1>0, <3>1, <3>2, <3>4
      <4>3. p \in Priority /\ uxBasePriority[h] <= p
        BY <3>1, <3>2, <4>2, PriorityLeft
      <4>. QED  BY <3>1, <3>2, <3>3, <4>1, <4>2, <4>3, HoldRaised
    <3>5. CASE ~(h # NULL /\ uxMutexesHeld[h] = 1)
      BY <2>3, <3>1, <3>3, <3>5, HoldAlone DEF vTaskPriorityDisinheritAfterTimeout
    <3>. QED  BY <3>4, <3>5
  <2>4. CASE \E m \in Mutex : Give(t, m)
    <3>1. PICK m \in Mutex : Give(t, m)
      BY <2>4
    <3>2. /\ xMutexHolder[m] = t /\ xMutexHolder' = [xMutexHolder EXCEPT ![m] = NULL]
          /\ uxMutexesHeld' = [uxMutexesHeld EXCEPT ![t] = @ - 1]
          /\ uxBasePriority' = uxBasePriority
          /\ uxPriority' = IF Disinherits(t) THEN [uxPriority EXCEPT ![t] = uxBasePriority[t]]
                                             ELSE uxPriority
      BY <3>1 DEF Give, SetPriority
    <3>3. Held(t)' = Held(t) \ {m} /\ m \in Held(t)
      BY <1>0, <3>2 DEF Held
    <3>4. \A u \in Task \ {t} : Held(u)' = Held(u)
      BY <1>0, <3>2 DEF Held
    <3>5. Cardinality(Held(t)') = Cardinality(Held(t)) - 1
      BY <1>0, <3>3, FS_RemoveElement
    <3>6. uxMutexesHeld' = [u \in Task |-> Cardinality(Held(u)')]
      BY <1>0, <3>2, <3>4, <3>5
    <3>7. Held(t)' = {} => uxMutexesHeld[t] = 1
      BY <1>0, <3>5, FS_EmptySet
    <3>8. \A u \in Task : uxBasePriority'[u] <= uxPriority'[u]
      BY <1>0, <3>2 DEF HoldInv
    <3>9. Held(t)' = {} => uxPriority'[t] = uxBasePriority'[t]
      BY <1>0, <3>2, <3>7 DEF Disinherits
    <3>10. \A u \in Task : Held(u)' = {} => uxPriority'[u] = uxBasePriority'[u]
      BY <1>0, <3>2, <3>4, <3>9 DEF HoldInv
    <3>. QED  BY <3>6, <3>8, <3>10 DEF HoldInv
  <2>5. CASE \/ \E m \in Mutex, n \in WaitTimes : Take(t, m, n)
             \/ FailAtOnce(t) \/ StartWaiting(t) \/ Lock(t) \/ Expire(t)
    BY <2>5, HoldAlone
       DEF Take, FailAtOnce, StartWaiting, Lock, SuspendAll, Expire, kernelVars, priorityVars, holdVars
  <2>6. CASE CheckForTimeOut(t) \/ Place(t) \/ ResumeScheduler(t)
    BY <2>6, HoldAlone
       DEF CheckForTimeOut, Place, PlaceOnEventList, ResumeScheduler, ResumeAll, priorityVars, holdVars
  <2>7. CASE (\E n \in DelayTimes : Sleep(t, n)) \/ EndDelay(t)
    BY <2>7, HoldAlone DEF Sleep, Delay, EndDelay, ResumeAll, priorityVars, holdVars
  <2>. QED  BY <1>2, <2>1, <2>2, <2>3, <2>4, <2>5, <2>6, <2>7 DEF CallStep
<1>3. CASE UNCHANGED mutexVars
  BY <1>3, HoldAlone DEF mutexVars, kernelVars, priorityVars, holdVars
<1>. QED  BY <1>1, <1>2, <1>3 DEF MutexNext

\* Both hold in every reachable state.
LEMMA HoldAlways == MutexSpec => [](CallInv /\ HoldInv)
<1>1. MutexInit => CallInv /\ HoldInv
  BY CallInit, HoldInit
<1>2. CallInv /\ HoldInv /\ [MutexNext]_mutexVars => (CallInv /\ HoldInv)'
  BY CallStepInv, HoldStep
<1>. QED  BY <1>1, <1>2, PTL DEF MutexSpec

\* A priority is lent, not given: in every reachable state a task that holds no
\* mutex runs at its own (xTaskPriorityInherit, xTaskPriorityDisinherit and
\* vTaskPriorityDisinheritAfterTimeout).
THEOREM LentPrioritiesGivenBack == MutexSpec => []PriorityGivenBack
<1>1. CallInv /\ HoldInv => PriorityGivenBack
  BY DEF HoldInv, PriorityGivenBack, Held
<1>. QED  BY <1>1, HoldAlways, PTL

-----------------------------------------------------------------------------
(***************************************************************************)
(* A free mutex is on offer.  FreeMutexOffered is not inductive: the task  *)
(* that was woken must be where it will take the mutex and cannot fail.    *)
(***************************************************************************)
Offered(t, m) == mutex[t] = m /\ step[t] = "check" /\ state[t] = "ready"

OfferInv ==
  \A m \in Mutex : xMutexHolder[m] = NULL /\ xEventLists[m] # <<>> =>
    \E t \in Task : Offered(t, m)

\* Nothing that is free and waited for comes about, and what is offered stays so.
LEMMA OfferAlone ==
  ASSUME OfferInv,
         \A m \in Mutex : xMutexHolder'[m] = NULL /\ xEventLists'[m] # <<>> =>
           /\ xMutexHolder[m] = NULL /\ xEventLists[m] # <<>>
           /\ \A u \in Task : Offered(u, m) => Offered(u, m)'
  PROVE  OfferInv'
BY DEF OfferInv

\* What has elements left had elements.
LEMMA HadElements ==
  ASSUME NEW S, NEW s \in Seq(S), NEW r \in Seq(S), ToSet(r) \subseteq ToSet(s), r # <<>>
  PROVE  s # <<>>
<1>1. ToSet(r) # {}
  BY Members
<1>2. ToSet(s) # {}
  BY <1>1
<1>. QED  BY <1>2, EmptySet

\* Every step keeps OfferInv.
LEMMA OfferStep == CallInv /\ OfferInv /\ [MutexNext]_mutexVars => OfferInv'
<1>. SUFFICES ASSUME CallInv, OfferInv, [MutexNext]_mutexVars PROVE OfferInv'
  OBVIOUS
<1>0. /\ xMutexHolder \in [Mutex -> Task \cup {NULL}] /\ NULL \notin Task
      /\ step \in [Task -> Steps] /\ mutex \in [Task -> Mutex \cup {NULL}]
      /\ state \in [Task -> States] /\ pending = {}
      /\ xEventLists \in [Mutex -> Seq(Task)]
  BY MutexAssumption, KernelAssumption DEF CallInv, CallType, KernelType
<1>1. CASE Scheduler /\ IncrementTick
  <2>. DEFINE due == {t \in Task : state[t] = "blocked" /\ left[t] = 1}
  <2>1. /\ state' = [t \in Task |-> IF t \in due THEN "ready" ELSE state[t]]
        /\ xEventLists' = [m \in Mutex |-> WithoutAll(xEventLists[m], due)]
        /\ UNCHANGED <<step, mutex, xMutexHolder>>
    BY <1>1 DEF Scheduler, IncrementTick, LeaveEventLists, holdVars, Mutex
  <2>2. ASSUME NEW m \in Mutex, xEventLists'[m] # <<>> PROVE xEventLists[m] # <<>>
    <3>1. /\ xEventLists[m] \in Seq(Task) /\ xEventLists'[m] \in Seq(Task)
          /\ ToSet(xEventLists'[m]) \subseteq ToSet(xEventLists[m])
      BY <1>0, <2>1, WithoutAllSet
    <3>. QED  BY <2>2, <3>1, HadElements
  <2>3. \A m \in Mutex, u \in Task : Offered(u, m) => Offered(u, m)'
    BY <2>1 DEF Offered
  <2>. QED  BY <2>1, <2>2, <2>3, OfferAlone
<1>2. CASE Scheduler /\ SwitchContext
  BY <1>2, OfferAlone DEF Scheduler, SwitchContext, holdVars, Offered
<1>3. ASSUME NEW t \in Task, CallStep(t) PROVE OfferInv'
  \* What was offered to others stays so.
  <2>1. ASSUME NEW s, At(t, s), UNCHANGED <<state, xEventLists, xMutexHolder>>,
               \A u \in Task \ {t} : step'[u] = step[u] /\ mutex'[u] = mutex[u],
               s # "check" \/ xMutexHolder[mutex[t]] # NULL
        PROVE  OfferInv'
    <3>1. ASSUME NEW m \in Mutex, xMutexHolder[m] = NULL, NEW u \in Task, Offered(u, m)
          PROVE  Offered(u, m)'
      <4>1. u # t
        BY <2>1, <3>1 DEF Offered, At
      <4>. QED  BY <2>1, <3>1, <4>1 DEF Offered
    <3>. QED  BY <2>1, <3>1, OfferAlone
  <2>2. CASE \E m \in Mutex, n \in WaitTimes : Take(t, m, n)
    BY <1>0, <2>1, <2>2 DEF Take, Goto, kernelVars, holdVars
  <2>3. CASE Obtain(t)
    <3>1. mutex[t] \in Mutex
      BY <2>3 DEF Obtain, CallInv, At
    <3>2. /\ xMutexHolder' = [xMutexHolder EXCEPT ![mutex[t]] = t]
          /\ step' = [step EXCEPT ![t] = "none"] /\ mutex' = [mutex EXCEPT ![t] = NULL]
          /\ state' = state /\ xEventLists' = xEventLists
      BY <2>3 DEF Obtain, Return, kernelVars
    <3>3. ASSUME NEW m \in Mutex, xMutexHolder'[m] = NULL
          PROVE  /\ xMutexHolder[m] = NULL
                 /\ \A u \in Task : Offered(u, m) => Offered(u, m)'
      BY <1>0, <3>1, <3>2, <3>3 DEF Offered
    <3>. QED  BY <3>2, <3>3, OfferAlone
  <2>4. CASE FailAtOnce(t)
    <3>1. PICK s : At(t, s) /\ xMutexHolder[mutex[t]] # NULL
      BY <2>4 DEF FailAtOnce, Available
    <3>. QED  BY <1>0, <2>1, <2>4, <3>1 DEF FailAtOnce, Return, kernelVars, holdVars
  <2>5. CASE StartWaiting(t)
    <3>1. PICK s : At(t, s) /\ xMutexHolder[mutex[t]] # NULL
      BY <2>5 DEF StartWaiting, Available
    <3>. QED  BY <1>0, <2>1, <2>5, <3>1 DEF StartWaiting, Goto, kernelVars, holdVars
  <2>6. CASE Lock(t)
    BY <1>0, <2>1, <2>6 DEF Lock, SuspendAll, Goto, holdVars
  <2>7. CASE CheckForTimeOut(t)
    BY <1>0, <2>1, <2>7 DEF CheckForTimeOut, Goto, holdVars
  <2>8. CASE xTaskPriorityInherit(t)
    BY <1>0, <2>1, <2>8 DEF xTaskPriorityInherit, Goto, holdVars
  <2>9. CASE Place(t)
    <3>1. At(t, "place") /\ mutex[t] \in Mutex /\ xMutexHolder[mutex[t]] # NULL
      BY <2>9 DEF Place, CallInv, At
    <3>2. PICK list : xEventLists' = [xEventLists EXCEPT ![mutex[t]] = list]
      BY <2>9 DEF Place, PlaceOnEventList
    <3>3. /\ step' = [step EXCEPT ![t] = "resume"] /\ mutex' = mutex
          /\ xMutexHolder' = xMutexHolder
          /\ \A u \in Task \ {t} : state'[u] = state[u]
      BY <1>0, <2>9 DEF Place, PlaceOnEventList, MoveTo, Goto, holdVars
    <3>4. \A m \in Mutex : xMutexHolder[m] = NULL => xEventLists'[m] = xEventLists[m]
      BY <1>0, <3>1, <3>2
    <3>5. \A m \in Mutex, u \in Task : Offered(u, m) => Offered(u, m)'
      BY <1>0, <3>1, <3>3 DEF Offered, At
    <3>. QED  BY <3>3, <3>4, <3>5, OfferAlone
  <2>10. CASE ResumeScheduler(t)
    <3>1. PICK s \in {"resume", "resumeExpired"} : At(t, s)
      BY <2>10 DEF ResumeScheduler
    <3>2. state' = state
      BY <1>0, <2>10 DEF ResumeScheduler, ResumeAll
    <3>. QED
      BY <1>0, <2>1, <2>10, <3>1, <3>2 DEF ResumeScheduler, ResumeAll, Goto, holdVars
  <2>11. CASE Expire(t)
    <3>1. /\ At(t, "expired") /\ state' = state /\ xEventLists' = xEventLists
          /\ xMutexHolder' = xMutexHolder
      BY <2>11 DEF Expire, kernelVars, holdVars
    <3>2. \A u \in Task \ {t} : step'[u] = step[u] /\ mutex'[u] = mutex[u]
      BY <1>0, <2>11 DEF Expire, Return, Goto
    <3>. QED  BY <2>1, <3>1, <3>2
  <2>12. CASE vTaskPriorityDisinheritAfterTimeout(t)
    BY <1>0, <2>1, <2>12 DEF vTaskPriorityDisinheritAfterTimeout, Return, holdVars
  <2>13. CASE \E m \in Mutex : Give(t, m)
    <3>1. PICK m \in Mutex : Give(t, m)
      BY <2>13
    <3>2. /\ xEventLists' = [xEventLists EXCEPT ![m] = WithoutAll(xEventLists[m], Woken(m))]
          /\ state' = [u \in Task |-> IF u \in Woken(m) THEN "ready" ELSE state[u]]
          /\ UNCHANGED <<step, mutex>> /\ uxSchedulerSuspended = 0
          /\ xMutexHolder' = [xMutexHolder EXCEPT ![m] = NULL]
      BY <3>1 DEF Give, callVars
    <3>3. \A n \in Mutex, u \in Task : Offered(u, n) => Offered(u, n)'
      BY <3>2 DEF Offered
    <3>4. ASSUME xEventLists'[m] # <<>> PROVE \E u \in Task : Offered(u, m)'
      <4>1. xEventLists[m] \in Seq(Task) /\ xEventLists'[m] \in Seq(Task)
            /\ ToSet(xEventLists'[m]) \subseteq ToSet(xEventLists[m])
        BY <1>0, <3>2, WithoutAllSet
      <4>2. xEventLists[m] # <<>>
        BY <3>4, <4>1, HadElements
      <4>3. PICK u \in Task : u = Head(xEventLists[m]) /\ u \in ToSet(xEventLists[m])
        BY <4>1, <4>2 DEF ToSet
      <4>4. Waits(u, m) /\ u \in Woken(m)
        BY <4>2, <4>3 DEF CallInv, Woken
      <4>5. step[u] = "check"
        BY <3>2, <4>4 DEF CallInv, Waits, Locked
      <4>. QED  BY <3>2, <4>4, <4>5 DEF Waits, Offered
    <3>. QED  BY <1>0, <3>2, <3>3, <3>4 DEF OfferInv
  <2>14. CASE \E n \in DelayTimes : Sleep(t, n)
    <3>1. /\ At(t, "none") /\ state' = [state EXCEPT ![t] = "blocked"]
          /\ UNCHANGED <<step, mutex, xMutexHolder, xEventLists>>
      BY <2>14 DEF Sleep, Delay, callVars, holdVars
    <3>2. \A m \in Mutex, u \in Task : Offered(u, m) => Offered(u, m)'
      BY <1>0, <3>1 DEF Offered, At
    <3>. QED  BY <3>1, <3>2, OfferAlone
  <2>15. CASE EndDelay(t)
    <3>1. At(t, "none") /\ UNCHANGED <<state, xEventLists, xMutexHolder, step, mutex>>
      BY <1>0, <2>15 DEF EndDelay, ResumeAll, callVars, holdVars
    <3>. QED  BY <2>1, <3>1
  <2>. QED
    BY <1>3, <2>2, <2>3, <2>4, <2>5, <2>6, <2>7, <2>8, <2>9, <2>10, <2>11, <2>12, <2>13, <2>14,
       <2>15 DEF CallStep
<1>4. CASE UNCHANGED mutexVars
  BY <1>4, OfferAlone DEF mutexVars, kernelVars, callVars, holdVars, Offered
<1>. QED  BY <1>1, <1>2, <1>3, <1>4, Cases

\* The holders and the calls make sense, and a free mutex that is slept on is on
\* offer to a task that is ready to take it (xQueueGenericSend wakes a waiter at
\* every give, and xQueueSemaphoreTake looks once more before it fails).
THEOREM FreeMutexesOffered == MutexSpec => []MutexConsistent
<1>1. MutexInit => OfferInv
  BY DEF MutexInit, Init, OfferInv, Mutex
<1>2. CallInv /\ HoldInv => MutexTypeOK
  <2>. SUFFICES ASSUME CallInv, HoldInv PROVE MutexTypeOK
    OBVIOUS
  <2>1. ASSUME NEW t \in Task PROVE Cardinality(Held(t)) \in 0 .. Cardinality(Mutex)
    <3>1. Held(t) \in SUBSET Mutex
      BY DEF Held
    <3>2. Cardinality(Held(t)) <= Cardinality(Mutex)
      BY <3>1, MutexAssumption, KernelAssumption, FS_Subset
    <3>3. Cardinality(Held(t)) \in Nat /\ Cardinality(Mutex) \in Nat
      BY <3>1, MutexAssumption, KernelAssumption, FS_Subset, FS_CardinalityType
    <3>. QED  BY <3>2, <3>3
  <2>2. uxMutexesHeld \in [Task -> 0 .. Cardinality(Mutex)]
    BY <2>1 DEF HoldInv
  <2>. QED  BY <2>2 DEF CallInv, CallType, KernelType, MutexTypeOK
<1>3. OfferInv => FreeMutexOffered
  BY DEF OfferInv, FreeMutexOffered, Offered
<1>4. /\ MutexInit => CallInv /\ HoldInv /\ OfferInv
      /\ CallInv /\ HoldInv /\ OfferInv /\ [MutexNext]_mutexVars
           => (CallInv /\ HoldInv /\ OfferInv)'
  BY <1>1, CallInit, HoldInit, CallStepInv, HoldStep, OfferStep
<1>5. CallInv /\ HoldInv /\ OfferInv => MutexConsistent
  BY <1>2, <1>3 DEF MutexConsistent
<1>. QED  BY <1>4, <1>5, PTL DEF MutexSpec

-----------------------------------------------------------------------------
\* While a task keeps a mutex it does not fall below the first that waits for it:
\* a timeout takes back what was lent down to the first waiter only, and a give
\* only with the last mutex.
THEOREM LentUntilGiven == MutexSpec => LentWhileNeeded
<1>. DEFINE Lent(m) ==
       LET h     == xMutexHolder[m]
           first == Head(xEventLists'[m])
       IN  /\ h # NULL /\ xMutexHolder'[m] = h /\ xEventLists'[m] # <<>>
           /\ uxPriority[h] >= uxBasePriority[first]
           => uxPriority'[h] >= uxBasePriority[first]
<1>1. ASSUME CallInv, HoldInv, CallInv', [MutexNext]_mutexVars, NEW m \in Mutex PROVE Lent(m)
  <2>. SUFFICES ASSUME NEW h, h = xMutexHolder[m], NEW first, first = Head(xEventLists'[m]),
                       h # NULL, xMutexHolder'[m] = h, xEventLists'[m] # <<>>,
                       uxPriority[h] >= uxBasePriority[first]
                PROVE  uxPriority'[h] >= uxBasePriority[first]
    OBVIOUS
  <2>0. /\ h \in Task /\ first \in Task /\ m \in Held(h)
        /\ uxPriority \in [Task -> Priority] /\ uxBasePriority \in [Task -> Priority]
        /\ \A p \in Priority : p \in Int
    <3>1. xEventLists'[m] \in Seq(Task)
      BY <1>1 DEF CallInv, KernelType
    <3>2. first \in Task
      BY <3>1
    <3>3. h \in Task /\ m \in Held(h)
      BY <1>1 DEF CallInv, CallType, Held
    <3>4. \A p \in Priority : p \in Int
      BY MutexAssumption, KernelAssumption DEF Priority
    <3>. QED  BY <1>1, <3>2, <3>3, <3>4, MutexAssumption, KernelAssumption DEF CallInv, KernelType
  <2>1. CASE uxPriority' = uxPriority
    BY <2>1
  <2>2. ASSUME NEW t \in Task, xTaskPriorityInherit(t) PROVE uxPriority'[h] >= uxPriority[h]
    <3>1. PICK k : k = xMutexHolder[mutex[t]]
      OBVIOUS
    <3>2. CASE Inherits(k, t) /\ k = h
      BY <2>0, <2>2, <3>1, <3>2 DEF xTaskPriorityInherit, SetPriority, Inherits
    <3>3. CASE ~Inherits(k, t) \/ k # h
      BY <2>0, <2>2, <3>1, <3>3 DEF xTaskPriorityInherit, SetPriority
    <3>. QED  BY <3>2, <3>3
  <2>3. ASSUME NEW t \in Task, vTaskPriorityDisinheritAfterTimeout(t)
        PROVE  uxPriority'[h] >= uxBasePriority[first]
    <3>1. PICK k, p : k = xMutexHolder[mutex[t]] /\ p = PriorityToUse(k, HighestWaiting(mutex[t]))
      OBVIOUS
    <3>2. CASE k = h /\ uxMutexesHeld[h] = 1
      <4>1. mutex[t] \in Held(h)
        BY <1>1, <2>3, <3>1, <3>2 DEF vTaskPriorityDisinheritAfterTimeout, CallInv, At, Held
      <4>2. mutex[t] = m
        BY <1>1, <2>0, <3>2, <4>1, OneHeld
      <4>3. uxPriority' = [uxPriority EXCEPT ![h] = p] /\ xEventLists' = xEventLists
        BY <2>3, <3>1, <3>2 DEF vTaskPriorityDisinheritAfterTimeout, SetPriority
      <4>4. p \in Priority /\ uxPriority[first] <= p
        BY <1>1, <2>0, <3>1, <3>2, <4>2, <4>3, PriorityLeft
      <4>5. uxBasePriority[first] <= uxPriority[first]
        BY <1>1, <2>0 DEF HoldInv
      <4>. QED  BY <2>0, <4>3, <4>4, <4>5
    <3>3. CASE ~(k = h /\ uxMutexesHeld[h] = 1)
      BY <2>0, <2>3, <3>1, <3>3 DEF vTaskPriorityDisinheritAfterTimeout, SetPriority
    <3>. QED  BY <3>2, <3>3
  <2>4. ASSUME NEW t \in Task, NEW n \in Mutex, Give(t, n) PROVE uxPriority'[h] = uxPriority[h]
    <3>1. CASE Disinherits(t) /\ t = h
      <4>1. n \in Held(h) /\ uxMutexesHeld[h] = 1
        BY <2>4, <3>1 DEF Give, Held, Disinherits
      <4>2. n = m
        BY <1>1, <2>0, <4>1, OneHeld
      <4>3. xMutexHolder'[m] = NULL
        BY <1>1, <2>4, <4>2 DEF Give, CallInv, CallType
      <4>. QED  BY <4>3
    <3>2. CASE ~Disinherits(t) \/ t # h
      BY <2>0, <2>4, <3>2 DEF Give, SetPriority
    <3>. QED  BY <3>1, <3>2
  <2>5. ASSUME NEW t \in Task, CallStep(t), ~xTaskPriorityInherit(t),
               ~vTaskPriorityDisinheritAfterTimeout(t), ~\E n \in Mutex : Give(t, n)
        PROVE  uxPriority' = uxPriority
    <3>1. CASE \/ \E n \in Mutex, w \in WaitTimes : Take(t, n, w)
               \/ Obtain(t) \/ FailAtOnce(t) \/ StartWaiting(t) \/ Lock(t) \/ Expire(t)
      BY <3>1 DEF Take, Obtain, FailAtOnce, StartWaiting, Lock, SuspendAll, Expire, kernelVars,
                  priorityVars
    <3>2. CASE \/ CheckForTimeOut(t) \/ Place(t) \/ ResumeScheduler(t)
               \/ \E n \in DelayTimes : Sleep(t, n)
               \/ EndDelay(t)
      BY <3>2 DEF CheckForTimeOut, Place, PlaceOnEventList, ResumeScheduler, ResumeAll, Sleep,
                  Delay, EndDelay, priorityVars
    <3>. QED  BY <2>5, <3>1, <3>2 DEF CallStep
  <2>6. CASE Scheduler \/ UNCHANGED mutexVars
    BY <2>1, <2>6 DEF Scheduler, IncrementTick, SwitchContext, mutexVars, kernelVars, priorityVars
  <2>7. ASSUME NEW t \in Task, CallStep(t) PROVE uxPriority'[h] >= uxBasePriority[first]
    <3>1. CASE xTaskPriorityInherit(t)
      <4>1. uxPriority'[h] \in Int
        BY <1>1, <2>0 DEF CallInv, KernelType
      <4>. QED  BY <2>0, <2>2, <3>1, <4>1
    <3>2. CASE vTaskPriorityDisinheritAfterTimeout(t)
      BY <2>3, <3>2
    <3>3. CASE \E n \in Mutex : Give(t, n)
      BY <2>4, <3>3
    <3>. QED  BY <2>1, <2>5, <2>7, <3>1, <3>2, <3>3
  <2>. QED  BY <1>1, <2>6, <2>7 DEF MutexNext
<1>2. CallInv /\ HoldInv /\ CallInv' /\ [MutexNext]_mutexVars
        => [\A m \in Mutex : Lent(m)]_mutexVars
  BY <1>1
<1>3. [][\A m \in Mutex : Lent(m)]_mutexVars <=> LentWhileNeeded
  BY DEF LentWhileNeeded
<1>. QED  BY <1>2, <1>3, HoldAlways, PTL DEF MutexSpec
=============================================================================
