---------------------------- MODULE KernelProof ----------------------------
(***************************************************************************)
(* What the steps of Kernel keep, for every number of tasks and of lists   *)
(* and every width of the tick count: the facts that the proofs about the  *)
(* kernel's objects start from.                                            *)
(***************************************************************************)
EXTENDS Kernel, ListsProof

Asleep(u) == state[u] \in {"blocked", "suspended"}

\* The tasks in a list of waiters.
Sleepers(l) == ToSet(xEventLists[l])

KernelTypeOK ==
  /\ pxCurrentTCB \in Task
  /\ state \in [Task -> States] /\ left \in [Task -> 0 .. portMAX_DELAY]
  /\ xEventLists \in [EventList -> Seq(Task)] /\ pending \in SUBSET Task
  /\ uxSchedulerSuspended \in Nat /\ xTickCount \in 0 .. portMAX_DELAY

\* A task is in one list of waiters, once, and sleeps; or it was woken while the
\* scheduler is suspended.  A task that sleeps until a tick is not due yet.
KernelInv ==
  /\ KernelTypeOK
  /\ \A l \in EventList : /\ IsInjective(xEventLists[l])
                          /\ \A u \in Sleepers(l) : Asleep(u) /\ u \notin pending
  /\ \A l, m \in EventList : l # m => Sleepers(l) \cap Sleepers(m) = {}
  /\ \A u \in pending : Asleep(u)
  /\ pending # {} => uxSchedulerSuspended > 0
  /\ \A u \in Task : state[u] = "blocked" => left[u] > 0

-----------------------------------------------------------------------------
\* The numbers that bound the tick count.
LEMMA TickType == portMAX_DELAY \in Nat /\ TickRange = portMAX_DELAY + 1
BY KernelAssumption DEF portMAX_DELAY

\* The sleepers are tasks.
LEMMA SleepersAreTasks ==
  ASSUME KernelTypeOK, NEW l \in EventList
  PROVE  /\ Sleepers(l) \subseteq Task
         /\ \A u : Contains(xEventLists[l], u) <=> u \in Sleepers(l)
         /\ xEventLists[l] = <<>> <=> Sleepers(l) = {}
BY Members DEF KernelTypeOK, Sleepers

\* At the start nobody sleeps.
LEMMA KernelInit == Init => KernelInv /\ \A l \in EventList : Sleepers(l) = {}
<1>. SUFFICES ASSUME Init PROVE KernelInv /\ \A l \in EventList : Sleepers(l) = {}
  OBVIOUS
<1>1. KernelTypeOK
  BY TickType DEF Init, KernelTypeOK, Created, States
<1>2. \A l \in EventList : Sleepers(l) = {} /\ IsInjective(xEventLists[l])
  BY EmptySet DEF Init, Sleepers
<1>. QED  BY <1>1, <1>2 DEF KernelInv, Init

\* What a step must keep, in terms of the sleepers of each list.
LEMMA KernelKeeps ==
  ASSUME KernelInv, KernelTypeOK',
         \A l \in EventList : IsInjective(xEventLists'[l]),
         \A l \in EventList : \A u \in Sleepers(l)' :
            /\ u \in Sleepers(l)
            /\ state'[u] = state[u] /\ u \notin pending',
         \A u \in pending' : Asleep(u)',
         pending' # {} => uxSchedulerSuspended' > 0,
         \A u \in Task : state'[u] = "blocked" => left'[u] > 0
  PROVE  KernelInv'
<1>1. \A l \in EventList : Sleepers(l)' \subseteq Sleepers(l)
  OBVIOUS
<1>2. \A l, m \in EventList : l # m => Sleepers(l)' \cap Sleepers(m)' = {}
  BY <1>1 DEF KernelInv
<1>3. \A l \in EventList : \A u \in Sleepers(l)' : Asleep(u)' /\ u \notin pending'
  BY DEF KernelInv, Asleep
<1>. QED  BY <1>2, <1>3 DEF KernelInv

\* The tasks of W leave the lists.
LEMMA Leaving ==
  ASSUME KernelInv, NEW W, LeaveEventLists(W)
  PROVE  /\ xEventLists' \in [EventList -> Seq(Task)] /\ pending' = pending \ W
         /\ \A l \in EventList : IsInjective(xEventLists'[l]) /\ Sleepers(l)' = Sleepers(l) \ W
<1>1. xEventLists' = [l \in EventList |-> WithoutAll(xEventLists[l], W)] /\ pending' = pending \ W
  BY DEF LeaveEventLists
<1>2. \A l \in EventList : xEventLists[l] \in Seq(Task) /\ IsInjective(xEventLists[l])
  BY DEF KernelInv, KernelTypeOK
<1>3. \A l \in EventList : /\ WithoutAll(xEventLists[l], W) \in Seq(Task)
                           /\ ToSet(WithoutAll(xEventLists[l], W)) = ToSet(xEventLists[l]) \ W
                           /\ IsInjective(WithoutAll(xEventLists[l], W))
  BY <1>2, WithoutAllSet
<1>. QED  BY <1>1, <1>3 DEF Sleepers

-----------------------------------------------------------------------------
(* The steps *)

\* A switch moves the processor to a ready task and nothing else.
LEMMA SwitchKeeps ==
  ASSUME KernelInv, SwitchContext
  PROVE  KernelInv' /\ state[pxCurrentTCB'] = "ready" /\ \A l \in EventList : Sleepers(l)' = Sleepers(l)
<1>1. pxCurrentTCB' \in Task /\ state[pxCurrentTCB'] = "ready"
  BY DEF SwitchContext
<1>2. /\ state' = state /\ left' = left /\ xEventLists' = xEventLists /\ pending' = pending
      /\ uxSchedulerSuspended' = uxSchedulerSuspended /\ xTickCount' = xTickCount
  BY DEF SwitchContext
<1>3. KernelTypeOK'
  BY <1>1, <1>2 DEF KernelInv, KernelTypeOK
<1>4. \A l \in EventList : Sleepers(l)' = Sleepers(l)
  BY <1>2 DEF Sleepers
<1>5. \A u : Asleep(u)' <=> Asleep(u)
  BY <1>2 DEF Asleep
<1>. QED  BY <1>1, <1>2, <1>3, <1>4, <1>5 DEF KernelInv

\* A tick wakes the tasks that are due and takes them out of their lists.
LEMMA TickKeeps ==
  ASSUME KernelInv, IncrementTick
  PROVE  /\ KernelInv'
         /\ pxCurrentTCB' = pxCurrentTCB /\ uxSchedulerSuspended' = 0 /\ pending' = {}
         /\ \A u \in Task : \/ state[u] = "blocked" /\ left[u] = 1 /\ state'[u] = "ready"
                            \/ state[u] = "blocked" /\ state'[u] = "blocked" /\ left'[u] = left[u] - 1
                            \/ state[u] # "blocked" /\ state'[u] = state[u] /\ left'[u] = left[u]
         /\ \A l \in EventList :
              Sleepers(l)' = {u \in Sleepers(l) : ~(state[u] = "blocked" /\ left[u] = 1)}
<1>. DEFINE due == {t \in Task : state[t] = "blocked" /\ left[t] = 1}
<1>0. KernelTypeOK
  BY DEF KernelInv
<1>1. /\ xTickCount' = IF xTickCount = portMAX_DELAY THEN 0 ELSE xTickCount + 1
      /\ left' = [t \in Task |-> IF state[t] = "blocked" THEN left[t] - 1 ELSE left[t]]
      /\ state' = [t \in Task |-> IF t \in due THEN "ready" ELSE state[t]]
      /\ LeaveEventLists(due)
      /\ pxCurrentTCB' = pxCurrentTCB /\ uxSchedulerSuspended' = 0 /\ uxSchedulerSuspended = 0
  BY DEF IncrementTick
<1>2. pending = {}
  BY <1>0, <1>1 DEF KernelInv
<1>3. /\ xEventLists' \in [EventList -> Seq(Task)] /\ pending' = {}
      /\ \A l \in EventList : IsInjective(xEventLists'[l]) /\ Sleepers(l)' = Sleepers(l) \ due
  BY <1>1, <1>2, Leaving
<1>4. \A u \in Task : state[u] = "blocked" => left[u] \in 1 .. portMAX_DELAY
  BY <1>0, TickType DEF KernelInv, KernelTypeOK
<1>5. KernelTypeOK'
  <2>1. left' \in [Task -> 0 .. portMAX_DELAY]
    BY <1>0, <1>1, <1>4, TickType DEF KernelTypeOK
  <2>2. xTickCount' \in 0 .. portMAX_DELAY
    BY <1>0, <1>1, TickType DEF KernelTypeOK
  <2>3. state' \in [Task -> States]
    BY <1>0, <1>1 DEF KernelTypeOK, States
  <2>. QED  BY <1>0, <1>1, <1>3, <2>1, <2>2, <2>3 DEF KernelTypeOK
<1>6. \A u \in Task : \/ state[u] = "blocked" /\ left[u] = 1 /\ state'[u] = "ready"
                      \/ /\ state[u] = "blocked" /\ left[u] # 1
                         /\ state'[u] = "blocked" /\ left'[u] = left[u] - 1
                      \/ state[u] # "blocked" /\ state'[u] = state[u] /\ left'[u] = left[u]
  BY <1>1
<1>7. \A u \in Task : state'[u] = "blocked" => left'[u] > 0
  BY <1>4, <1>6
<1>8. \A l \in EventList : Sleepers(l) \subseteq Task
  BY <1>0, SleepersAreTasks
<1>9. \A l \in EventList :
        Sleepers(l)' = {u \in Sleepers(l) : ~(state[u] = "blocked" /\ left[u] = 1)}
  BY <1>3, <1>8
<1>10. \A l \in EventList : \A u \in Sleepers(l)' : u \in Sleepers(l) /\ state'[u] = state[u]
  BY <1>3, <1>6, <1>8
<1>11. KernelInv'
  BY <1>3, <1>5, <1>7, <1>10, KernelKeeps
<1>. QED  BY <1>1, <1>3, <1>6, <1>9, <1>11

\* vTaskSuspendAll counts.
LEMMA SuspendAllKeeps ==
  ASSUME KernelInv, NEW t, SuspendAll(t)
  PROVE  KernelInv' /\ \A l \in EventList : Sleepers(l)' = Sleepers(l)
<1>1. /\ state' = state /\ left' = left /\ xEventLists' = xEventLists /\ pending' = pending
      /\ uxSchedulerSuspended' = uxSchedulerSuspended + 1 /\ xTickCount' = xTickCount
      /\ pxCurrentTCB' = pxCurrentTCB
  BY DEF SuspendAll
<1>2. KernelTypeOK' /\ uxSchedulerSuspended' > 0
  BY <1>1 DEF KernelInv, KernelTypeOK
<1>3. \A l \in EventList : Sleepers(l)' = Sleepers(l)
  BY <1>1 DEF Sleepers
<1>4. \A u : Asleep(u)' <=> Asleep(u)
  BY <1>1 DEF Asleep
<1>. QED  BY <1>1, <1>2, <1>3, <1>4 DEF KernelInv

\* xTaskResumeAll: the pending tasks become ready, and no other task changes.
LEMMA ResumeAllKeeps ==
  ASSUME KernelInv, NEW t, ResumeAll(t)
  PROVE  /\ KernelInv' /\ \A l \in EventList : Sleepers(l)' = Sleepers(l)
         /\ \A u \in Task : \/ state'[u] = state[u] /\ left'[u] = left[u]
                            \/ u \in pending /\ state'[u] = "ready"
<1>0. KernelTypeOK
  BY DEF KernelInv
<1>1. /\ xEventLists' = xEventLists /\ xTickCount' = xTickCount /\ pxCurrentTCB' = pxCurrentTCB
      /\ uxSchedulerSuspended > 0 /\ uxSchedulerSuspended' = uxSchedulerSuspended - 1
  BY DEF ResumeAll
<1>2. \A l \in EventList : Sleepers(l)' = Sleepers(l)
  BY <1>1 DEF Sleepers
<1>3. CASE uxSchedulerSuspended = 1
  <2>1. /\ state' = [u \in Task |-> IF u \in pending THEN "ready" ELSE state[u]]
        /\ left' = [u \in Task |-> IF u \in pending THEN 0 ELSE left[u]]
        /\ pending' = {}
    BY <1>3 DEF ResumeAll
  <2>2. KernelTypeOK'
    <3>1. state' \in [Task -> States]
      BY <1>0, <2>1 DEF KernelTypeOK, States
    <3>2. left' \in [Task -> 0 .. portMAX_DELAY]
      BY <1>0, <2>1, TickType DEF KernelTypeOK
    <3>. QED  BY <1>0, <1>1, <2>1, <3>1, <3>2 DEF KernelTypeOK
  <2>3. \A u \in Task : state'[u] = "blocked" => left'[u] > 0
    BY <2>1 DEF KernelInv
  <2>4. \A l \in EventList : \A u \in Sleepers(l)' : u \in Sleepers(l) /\ state'[u] = state[u]
    BY <1>0, <1>2, <2>1, SleepersAreTasks DEF KernelInv
  <2>5. \A l \in EventList : IsInjective(xEventLists'[l])
    BY <1>1 DEF KernelInv
  <2>6. KernelInv'
    BY <2>1, <2>2, <2>3, <2>4, <2>5, KernelKeeps
  <2>. QED  BY <1>2, <2>1, <2>6
<1>4. CASE uxSchedulerSuspended # 1
  <2>1. state' = state /\ left' = left /\ pending' = pending
    BY <1>4 DEF ResumeAll
  <2>2. KernelTypeOK' /\ uxSchedulerSuspended' > 0
    BY <1>0, <1>1, <1>4, <2>1 DEF KernelTypeOK
  <2>3. \A u : Asleep(u)' <=> Asleep(u)
    BY <2>1 DEF Asleep
  <2>4. KernelInv'
    BY <1>1, <1>2, <2>1, <2>2, <2>3 DEF KernelInv
  <2>. QED  BY <1>2, <2>1, <2>4
<1>. QED  BY <1>3, <1>4

\* The running task falls asleep in one list of waiters.
LEMMA SleepKeeps ==
  ASSUME KernelInv, NEW t \in Task, NEW l \in EventList, NEW n \in 1 .. portMAX_DELAY,
         state[t] = "ready",
         NEW list, list \in Seq(Task), ToSet(list) = Sleepers(l) \cup {t},
         t \notin Sleepers(l) => IsInjective(list),
         xEventLists' = [xEventLists EXCEPT ![l] = list],
         IF n = portMAX_DELAY THEN MoveTo(t, "suspended")
         ELSE state' = [state EXCEPT ![t] = "blocked"] /\ left' = [left EXCEPT ![t] = n],
         UNCHANGED <<pxCurrentTCB, pending, uxSchedulerSuspended, xTickCount>>
  PROVE  /\ KernelInv'
         /\ \A m \in EventList : Sleepers(m)' = IF m = l THEN Sleepers(l) \cup {t} ELSE Sleepers(m)
         /\ \A u \in Task \ {t} : state'[u] = state[u] /\ left'[u] = left[u]
         /\ Asleep(t)' /\ (state'[t] = "blocked" => left'[t] = n)
<1>0. KernelTypeOK
  BY DEF KernelInv
<1>1. \A m \in EventList : Sleepers(m)' = IF m = l THEN Sleepers(l) \cup {t} ELSE Sleepers(m)
  BY <1>0 DEF Sleepers, KernelTypeOK
<1>2. /\ \A u \in Task \ {t} : state'[u] = state[u] /\ left'[u] = left[u]
      /\ state'[t] \in {"blocked", "suspended"} /\ (state'[t] = "blocked" => left'[t] = n)
      /\ state' \in [Task -> States] /\ left' \in [Task -> 0 .. portMAX_DELAY]
  <2>1. PICK w \in {"blocked", "suspended"}, k \in 0 .. portMAX_DELAY :
          /\ state' = [state EXCEPT ![t] = w] /\ left' = [left EXCEPT ![t] = k]
          /\ w = "blocked" => k = n
    <3>1. n \in 0 .. portMAX_DELAY /\ 0 \in 0 .. portMAX_DELAY
      BY TickType
    <3>. QED  BY <3>1 DEF MoveTo
  <2>. QED  BY <1>0, <2>1 DEF KernelTypeOK, States
<1>3. KernelTypeOK'
  BY <1>0, <1>2 DEF KernelTypeOK
<1>4. \A m \in EventList : t \notin Sleepers(m)
  BY DEF KernelInv, Asleep
<1>5. t \notin pending
  BY DEF KernelInv, Asleep
<1>6. \A m \in EventList : IsInjective(xEventLists'[m])
  BY <1>0, <1>4 DEF KernelInv, KernelTypeOK
<1>7. \A m \in EventList : \A u \in Sleepers(m)' : Asleep(u)' /\ u \notin pending'
  <2>. SUFFICES ASSUME NEW m \in EventList, NEW u \in Sleepers(m)' PROVE Asleep(u)' /\ u \notin pending'
    OBVIOUS
  <2>1. u = t \/ (u \in Sleepers(m) /\ u \in Task)
    BY <1>0, <1>1, SleepersAreTasks
  <2>. QED  BY <1>2, <1>5, <2>1 DEF KernelInv, Asleep
<1>8. \A k, m \in EventList : k # m => Sleepers(k)' \cap Sleepers(m)' = {}
  BY <1>1, <1>4 DEF KernelInv
<1>9. \A u \in pending' : Asleep(u)'
  BY <1>0, <1>2, <1>5 DEF KernelInv, Asleep, KernelTypeOK
<1>10. \A u \in Task : state'[u] = "blocked" => left'[u] > 0
  BY <1>2, TickType DEF KernelInv
<1>11. KernelInv'
  BY <1>3, <1>6, <1>7, <1>8, <1>9, <1>10 DEF KernelInv
<1>. QED  BY <1>1, <1>2, <1>11 DEF Asleep

\* vTaskPlaceOnEventList
LEMMA PlaceKeeps ==
  ASSUME KernelInv, NEW t \in Task, NEW l \in EventList, NEW n \in 1 .. portMAX_DELAY,
         PlaceOnEventList(t, l, n)
  PROVE  /\ KernelInv'
         /\ \A m \in EventList : Sleepers(m)' = IF m = l THEN Sleepers(l) \cup {t} ELSE Sleepers(m)
         /\ \A u \in Task \ {t} : state'[u] = state[u] /\ left'[u] = left[u]
         /\ Asleep(t)' /\ (state'[t] = "blocked" => left'[t] = n)
<1>1. PICK value : value = [u \in Task |-> MaxPriorities - xEventPriority[u]]
  OBVIOUS
<1>2. PICK list : list = vListInsert(xEventLists[l], t, value)
  OBVIOUS
<1>3. xEventLists[l] \in Seq(Task) /\ IsInjective(xEventLists[l])
  BY DEF KernelInv, KernelTypeOK
<1>4. list \in Seq(Task) /\ ToSet(list) = Sleepers(l) \cup {t}
      /\ (t \notin Sleepers(l) => IsInjective(list))
  BY <1>2, <1>3, InsertSet DEF Sleepers
<1>5. xEventLists' = [xEventLists EXCEPT ![l] = list] /\ state[t] = "ready"
  BY <1>1, <1>2 DEF PlaceOnEventList, Calls
<1>6. /\ IF n = portMAX_DELAY THEN MoveTo(t, "suspended")
         ELSE state' = [state EXCEPT ![t] = "blocked"] /\ left' = [left EXCEPT ![t] = n]
      /\ UNCHANGED <<pxCurrentTCB, pending, uxSchedulerSuspended, xTickCount>>
  BY DEF PlaceOnEventList
<1>. QED  BY <1>4, <1>5, <1>6, SleepKeeps

\* A waiter becomes ready, or pends: it is in no list any more.
LEMMA WakeKeeps ==
  ASSUME KernelInv, NEW u \in Task, Asleep(u), Wake(u),
         xEventLists' \in [EventList -> Seq(Task)],
         \A l \in EventList : IsInjective(xEventLists'[l]) /\ Sleepers(l)' = Sleepers(l) \ {u},
         UNCHANGED <<pxCurrentTCB, uxSchedulerSuspended, xTickCount>>
  PROVE  /\ KernelInv'
         /\ \A v \in Task \ {u} : state'[v] = state[v] /\ left'[v] = left[v]
                                  /\ (v \in pending' <=> v \in pending)
         /\ \/ uxSchedulerSuspended = 0 /\ state'[u] = "ready"
            \/ uxSchedulerSuspended # 0 /\ state'[u] = state[u] /\ left'[u] = left[u] /\ u \in pending'
<1>0. KernelTypeOK
  BY DEF KernelInv
<1>1. CASE uxSchedulerSuspended = 0
  <2>1. /\ state' = [state EXCEPT ![u] = "ready"] /\ left' = [left EXCEPT ![u] = 0]
        /\ pending' = pending /\ pending = {}
    BY <1>0, <1>1 DEF Wake, MoveTo, KernelInv
  <2>2. KernelTypeOK'
    BY <1>0, <2>1, TickType DEF KernelTypeOK, States
  <2>3. \A l \in EventList : \A v \in Sleepers(l)' : v \in Sleepers(l) /\ state'[v] = state[v]
    BY <1>0, <2>1, SleepersAreTasks DEF KernelTypeOK
  <2>4. \A v \in Task : state'[v] = "blocked" => left'[v] > 0
    BY <1>0, <2>1 DEF KernelInv, KernelTypeOK
  <2>5. KernelInv'
    BY <2>1, <2>2, <2>3, <2>4, KernelKeeps
  <2>. QED  BY <1>0, <1>1, <2>1, <2>5 DEF KernelTypeOK
<1>2. CASE uxSchedulerSuspended # 0
  <2>1. state' = state /\ left' = left /\ pending' = pending \cup {u}
    BY <1>2 DEF Wake
  <2>2. KernelTypeOK' /\ uxSchedulerSuspended' > 0
    BY <1>0, <1>2, <2>1 DEF KernelTypeOK
  <2>3. \A l \in EventList : \A v \in Sleepers(l)' :
          v \in Sleepers(l) /\ state'[v] = state[v] /\ v \notin pending'
    BY <1>0, <2>1, SleepersAreTasks DEF KernelInv
  <2>4. \A v \in pending' : Asleep(v)'
    BY <2>1 DEF KernelInv, Asleep
  <2>5. \A v \in Task : state'[v] = "blocked" => left'[v] > 0
    BY <2>1 DEF KernelInv
  <2>6. KernelInv'
    BY <2>2, <2>3, <2>4, <2>5, KernelKeeps
  <2>. QED  BY <1>2, <2>1, <2>6
<1>. QED  BY <1>1, <1>2

\* xTaskRemoveFromEventList: the first waiter leaves its list and wakes.
LEMMA RemoveKeeps ==
  ASSUME KernelInv, NEW l \in EventList, RemoveFromEventList(l)
  PROVE  \E u \in Sleepers(l) :
           /\ KernelInv'
           /\ \A m \in EventList : Sleepers(m)' = Sleepers(m) \ {u}
           /\ \A v \in Task \ {u} : state'[v] = state[v] /\ left'[v] = left[v]
                                    /\ (v \in pending' <=> v \in pending)
           /\ \/ uxSchedulerSuspended = 0 /\ state'[u] = "ready"
              \/ /\ uxSchedulerSuspended # 0 /\ state'[u] = state[u] /\ left'[u] = left[u]
                 /\ u \in pending'
<1>1. PICK u : u = Head(xEventLists[l])
  OBVIOUS
<1>2. xEventLists[l] \in Seq(Task) /\ IsInjective(xEventLists[l]) /\ xEventLists[l] # <<>>
  BY DEF RemoveFromEventList, KernelInv, KernelTypeOK
<1>3. /\ u \in Task /\ Tail(xEventLists[l]) \in Seq(Task)
      /\ Sleepers(l) = {u} \cup ToSet(Tail(xEventLists[l]))
      /\ IsInjective(Tail(xEventLists[l])) /\ u \notin ToSet(Tail(xEventLists[l]))
  BY <1>1, <1>2, HeadAndRest DEF Sleepers
<1>4. /\ Wake(u) /\ xEventLists' = [xEventLists EXCEPT ![l] = Tail(@)]
      /\ UNCHANGED <<pxCurrentTCB, uxSchedulerSuspended, xTickCount>>
  BY <1>1 DEF RemoveFromEventList
<1>5. u \in Sleepers(l) /\ Asleep(u)
  BY <1>3 DEF KernelInv
<1>6. xEventLists' \in [EventList -> Seq(Task)]
  BY <1>3, <1>4 DEF KernelInv, KernelTypeOK
<1>7. \A m \in EventList : IsInjective(xEventLists'[m]) /\ Sleepers(m)' = Sleepers(m) \ {u}
  <2>. SUFFICES ASSUME NEW m \in EventList
                PROVE  IsInjective(xEventLists'[m]) /\ Sleepers(m)' = Sleepers(m) \ {u}
    OBVIOUS
  <2>1. CASE m = l
    <3>1. xEventLists'[m] = Tail(xEventLists[l])
      BY <1>4, <2>1 DEF KernelInv, KernelTypeOK
    <3>. QED  BY <1>3, <2>1, <3>1 DEF Sleepers
  <2>2. CASE m # l
    <3>1. xEventLists'[m] = xEventLists[m]
      BY <1>4, <2>2 DEF KernelInv, KernelTypeOK
    <3>2. u \notin Sleepers(m)
      BY <1>5, <2>2 DEF KernelInv
    <3>. QED  BY <3>1, <3>2 DEF Sleepers, KernelInv
  <2>. QED  BY <2>1, <2>2
<1>. QED  BY <1>3, <1>4, <1>5, <1>6, <1>7, WakeKeeps

\* A task becomes ready at once, whatever it waits for and wherever it is.
LEMMA ReadyKeeps ==
  ASSUME KernelInv, NEW u \in Task, MoveTo(u, "ready"), LeaveEventLists({u}),
         pxCurrentTCB' = pxCurrentTCB, xTickCount' = xTickCount,
         uxSchedulerSuspended' \in {uxSchedulerSuspended, uxSchedulerSuspended + 1}
  PROVE  /\ KernelInv'
         /\ \A m \in EventList : Sleepers(m)' = Sleepers(m) \ {u}
         /\ \A v \in Task \ {u} : state'[v] = state[v] /\ left'[v] = left[v]
                                  /\ (v \in pending' <=> v \in pending)
         /\ state'[u] = "ready" /\ u \notin pending'
<1>0. KernelTypeOK
  BY DEF KernelInv
<1>1. /\ xEventLists' \in [EventList -> Seq(Task)] /\ pending' = pending \ {u}
      /\ \A l \in EventList : IsInjective(xEventLists'[l]) /\ Sleepers(l)' = Sleepers(l) \ {u}
  BY Leaving
<1>2. state' = [state EXCEPT ![u] = "ready"] /\ left' = [left EXCEPT ![u] = 0]
  BY DEF MoveTo
<1>3. KernelTypeOK'
  <2>1. uxSchedulerSuspended' \in Nat
    BY <1>0 DEF KernelTypeOK
  <2>. QED  BY <1>0, <1>1, <1>2, <2>1, TickType DEF KernelTypeOK, States
<1>4. \A l \in EventList : \A v \in Sleepers(l)' :
        v \in Sleepers(l) /\ state'[v] = state[v] /\ v \notin pending'
  BY <1>0, <1>1, <1>2, SleepersAreTasks DEF KernelInv, KernelTypeOK
<1>5. \A v \in pending' : Asleep(v)'
  BY <1>0, <1>1, <1>2 DEF KernelInv, Asleep, KernelTypeOK
<1>6. pending' # {} => uxSchedulerSuspended' > 0
  BY <1>0, <1>1 DEF KernelInv, KernelTypeOK
<1>7. \A v \in Task : state'[v] = "blocked" => left'[v] > 0
  BY <1>0, <1>2 DEF KernelInv, KernelTypeOK
<1>8. KernelInv'
  BY <1>1, <1>3, <1>4, <1>5, <1>6, <1>7, KernelKeeps
<1>. QED  BY <1>0, <1>1, <1>2, <1>8 DEF KernelTypeOK

\* Nothing of what KernelInv speaks of changes.
LEMMA StutterKeeps ==
  ASSUME KernelInv,
         UNCHANGED <<pxCurrentTCB, state, left, xEventLists, pending, uxSchedulerSuspended,
                     xTickCount>>
  PROVE  KernelInv' /\ \A l \in EventList : Sleepers(l)' = Sleepers(l)
<1>1. \A l \in EventList : Sleepers(l)' = Sleepers(l)
  BY DEF Sleepers
<1>2. \A u : Asleep(u)' <=> Asleep(u)
  BY DEF Asleep
<1>. QED  BY <1>1, <1>2 DEF KernelInv, KernelTypeOK
=============================================================================
