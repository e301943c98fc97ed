----------------------- MODULE EventsAndStreamsProof -----------------------
(***************************************************************************)
(* Proofs about the two ways of waiting that need no queue, each over the  *)
(* scheduler Kernel.                                                       *)
(*                                                                         *)
(* EventGroups, for every number of tasks and of bits and every program of *)
(* calls: nobody sleeps with its condition met, a group that was deleted   *)
(* is not touched again, and the calls, with their walks over the waiting  *)
(* tasks, implement EventFlags.                                            *)
(*                                                                         *)
(* StreamBuffers, for every length of the ring, every size and timeout of  *)
(* the calls, and writer and reader tasks or interrupts: neither side      *)
(* sleeps on what the other has done, and the steps on a buffer of bytes   *)
(* implement ByteStream.                                                   *)
(***************************************************************************)
EXTENDS EventGroups, StreamBuffers, KernelProof

\* The tasks in the group's list.
InList == Sleepers(xTasksWaitingForBits)

\* The steps at which a call has not suspended the scheduler.
Unlocked == {"none", "item", "late"}
Nested   == {"set", "walk", "setResume"}

Depth(t) == IF step[t] \in Unlocked THEN 0
            ELSE IF step[t] \in Nested /\ call[t].kind = "sync" THEN 2 ELSE 1

GroupType ==
  /\ program \in Programs
  /\ uxEventBits \in SUBSET Bit /\ exists \in BOOLEAN
  /\ step \in [Task -> Steps] /\ call \in [Task -> CallRecords \cup {NoCall}]
  /\ xItemValue \in [Task -> [set : BOOLEAN, request : Wanted \cup {{}}, bits : SUBSET Bit]]
  /\ walk \in [before : SUBSET Bit, rest : Seq(Task), uxBitsToClear : SUBSET Bit,
               woken : SUBSET Task, active : BOOLEAN]

CallOK(t) ==
  /\ t # pxCurrentTCB => step[t] \in Unlocked
  /\ step[t] = "none" <=> call[t] = NoCall
  /\ step[t] \in Nested => call[t].kind \in {"set", "sync"}
  /\ step[t] = "original" => call[t].kind = "sync"
  /\ step[t] \in {"test", "resume", "item", "late"} => call[t].kind \in {"wait", "sync"}
  /\ step[t] = "drain" => call[t].kind = "delete"
  /\ step[t] = "resume" => (t \in InList <=> call[t].ticks > 0)

ItemOK(t) ==
  /\ t \in InList => /\ step[t] \in {"item", "resume"}
                     /\ xItemValue[t] = [set |-> FALSE, request |-> call[t].request, bits |-> {}]
  /\ xItemValue[t].set => step[t] = "item" /\ t \notin InList

\* The scheduler is suspended as often as the running call did it.
DepthOK == \/ uxSchedulerSuspended = Depth(pxCurrentTCB)
           \/ step[pxCurrentTCB] = "none" /\ uxSchedulerSuspended = 1

CallsInv == KernelInv /\ GroupType /\ DepthOK /\ \A t \in Task : CallOK(t) /\ ItemOK(t)

\* The walk: its value, and those it has released.
Walks == \/ step[pxCurrentTCB] = "walk"
         \/ step[pxCurrentTCB] \in {"setResume", "test"} /\ call[pxCurrentTCB].kind = "sync"
Drains == step[pxCurrentTCB] = "drain"
Shown == IF Walks THEN walk.before \cup call[pxCurrentTCB].bits ELSE uxEventBits
Clears(r) == IF r.clear THEN r.for ELSE {}

ReleasedOK(u) ==
  /\ u \notin InList /\ step[u] = "item" /\ u # pxCurrentTCB
  /\ xItemValue[u].set
  /\ Walks => xItemValue[u].bits = Shown /\ prvTestWaitCondition(call[u].request, Shown)
  /\ Drains => xItemValue[u].bits = {}

WalkInv ==
  /\ Walks => walk.active
  /\ walk.active => Walks \/ Drains
  /\ ~walk.active => walk = NoWalk
  /\ step[pxCurrentTCB] # "walk" => walk.rest = <<>>
  /\ IsInjective(walk.rest) /\ ToSet(walk.rest) \subseteq InList
  /\ step[pxCurrentTCB] = "walk" => uxEventBits = Shown
  /\ step[pxCurrentTCB] \in {"setResume", "test"} /\ Walks => uxEventBits = Shown \ walk.uxBitsToClear
  /\ Walks => walk.uxBitsToClear = UNION {Clears(call[u].request) : u \in walk.woken}
  /\ Drains /\ walk.active => walk.before = uxEventBits
  /\ \A u \in walk.woken : ReleasedOK(u)

\* Who sleeps, and is not yet to be looked at, has no reason to be awake.
TestInv == \A u \in InList \ ToSet(walk.rest) : ~prvTestWaitCondition(call[u].request, Shown)

\* Nobody is in a call on a group that is being deleted, or is gone.
LeaveInv ==
  /\ Drains => \A u \in Task \ {pxCurrentTCB} : step[u] = "none" \/ u \in InList \/ xItemValue[u].set
  /\ ~exists => /\ InList = {} /\ uxEventBits = {}
                /\ \A u \in Task : step[u] = "none" \/ xItemValue[u].set

Inv == CallsInv /\ WalkInv /\ TestInv /\ LeaveInv

-----------------------------------------------------------------------------
(* What the steps of the scheduler do to the group's list *)

\* The group's list is the only one.
LEMMA OneList ==
  /\ EventList = {xTasksWaitingForBits} /\ Unordered = EventList
  /\ xTasksWaitingForBits \in EventList
BY EventGroupsAssumption

\* The list as a set; who is in it sleeps.
LEMMA ListFacts ==
  ASSUME KernelInv
  PROVE  /\ pxCurrentTCB \in Task /\ uxSchedulerSuspended \in Nat
         /\ InList \subseteq Task /\ Waiters \in Seq(Task) /\ IsInjective(Waiters)
         /\ InList = ToSet(Waiters)
         /\ \A u : Waiting(u) <=> u \in InList
         /\ Waiters = <<>> <=> InList = {}
         /\ \A u \in InList : Asleep(u) /\ state[u] # "ready"
<1>1. KernelTypeOK
  BY DEF KernelInv
<1>2. /\ InList \subseteq Task /\ InList = ToSet(Waiters)
      /\ \A u : Waiting(u) <=> u \in InList
      /\ Waiters = <<>> <=> InList = {}
  BY <1>1, OneList, SleepersAreTasks DEF InList, Waiters, Waiting, Sleepers
<1>3. \A u \in InList : Asleep(u)
  BY OneList DEF KernelInv, InList
<1>. QED  BY <1>1, <1>2, <1>3, OneList DEF KernelInv, KernelTypeOK, Asleep, Waiters

\* A step of the group that leaves the scheduler alone.
LEMMA GroupAlone ==
  ASSUME KernelInv, UNCHANGED kernelVars
  PROVE  KernelInv' /\ InList' = InList /\ pxCurrentTCB' = pxCurrentTCB
         /\ uxSchedulerSuspended' = uxSchedulerSuspended
BY StutterKeeps, OneList DEF kernelVars, InList

\* The scheduler is suspended and resumed.
LEMMA SuspendList ==
  ASSUME KernelInv, NEW t, SuspendAll(t)
  PROVE  KernelInv' /\ InList' = InList /\ pxCurrentTCB' = pxCurrentTCB
         /\ uxSchedulerSuspended' = uxSchedulerSuspended + 1
BY SuspendAllKeeps, OneList DEF InList, SuspendAll

\* xTaskResumeAll moves no waiter: those it readies have left the list before.
LEMMA ResumeList ==
  ASSUME KernelInv, NEW t, ResumeAll(t)
  PROVE  KernelInv' /\ InList' = InList /\ pxCurrentTCB' = pxCurrentTCB
         /\ uxSchedulerSuspended' = uxSchedulerSuspended - 1
BY ResumeAllKeeps, OneList DEF InList, ResumeAll

\* vTaskPlaceOnUnorderedEventList
LEMMA PlaceInList ==
  ASSUME KernelInv, NEW t \in Task, NEW n \in 1 .. portMAX_DELAY,
         PlaceOnUnorderedEventList(t, xTasksWaitingForBits, n)
  PROVE  KernelInv' /\ InList' = InList \cup {t} /\ pxCurrentTCB' = pxCurrentTCB
         /\ uxSchedulerSuspended' = uxSchedulerSuspended /\ t \notin InList
<1>. DEFINE l == xTasksWaitingForBits
<1>1. PICK list : list = Append(xEventLists[l], t)
  OBVIOUS
<1>2. xEventLists[l] \in Seq(Task) /\ IsInjective(xEventLists[l]) /\ l \in EventList
  BY OneList DEF KernelInv, KernelTypeOK
<1>3. list \in Seq(Task) /\ ToSet(list) = Sleepers(l) \cup {t}
      /\ (t \notin Sleepers(l) => IsInjective(list))
  BY <1>1, <1>2, AppendSet DEF Sleepers
<1>4. xEventLists' = [xEventLists EXCEPT ![l] = list] /\ state[t] = "ready"
  BY <1>1 DEF PlaceOnUnorderedEventList, Calls
<1>5. /\ IF n = portMAX_DELAY THEN MoveTo(t, "suspended")
         ELSE state' = [state EXCEPT ![t] = "blocked"] /\ left' = [left EXCEPT ![t] = n]
      /\ UNCHANGED <<pxCurrentTCB, pending, uxSchedulerSuspended, xTickCount>>
  BY DEF PlaceOnUnorderedEventList
<1>6. KernelInv' /\ Sleepers(l)' = Sleepers(l) \cup {t}
  BY <1>2, <1>3, <1>4, <1>5, SleepKeeps
<1>. QED  BY <1>4, <1>5, <1>6, ListFacts DEF InList

\* vTaskRemoveFromUnorderedEventList
LEMMA RemoveFromList ==
  ASSUME KernelInv, NEW t, NEW u \in Task,
         RemoveFromUnorderedEventList(t, u, xTasksWaitingForBits)
  PROVE  KernelInv' /\ InList' = InList \ {u} /\ pxCurrentTCB' = pxCurrentTCB
         /\ uxSchedulerSuspended' = uxSchedulerSuspended
<1>1. /\ MoveTo(u, "ready") /\ LeaveEventLists({u})
      /\ UNCHANGED <<pxCurrentTCB, uxSchedulerSuspended, xTickCount>>
  BY DEF RemoveFromUnorderedEventList
<1>. QED  BY <1>1, ReadyKeeps, OneList DEF InList

\* xTaskAbortDelay
LEMMA AbortInList ==
  ASSUME KernelInv, NEW t, NEW u \in Task, AbortDelay(t, u)
  PROVE  KernelInv' /\ InList' = InList \ {u} /\ pxCurrentTCB' = pxCurrentTCB
         /\ uxSchedulerSuspended' = uxSchedulerSuspended + 1
<1>1. /\ MoveTo(u, "ready") /\ LeaveEventLists({u})
      /\ UNCHANGED <<pxCurrentTCB, xTickCount>>
      /\ uxSchedulerSuspended' = uxSchedulerSuspended + 1
  BY DEF AbortDelay
<1>. QED  BY <1>1, ReadyKeeps, OneList DEF InList

\* A delay puts its task into no list of waiters.
LEMMA DelayOutsideList ==
  ASSUME KernelInv, NEW t \in Task, NEW n \in 1 .. portMAX_DELAY, Delay(t, n)
  PROVE  KernelInv' /\ InList' = InList /\ pxCurrentTCB' = pxCurrentTCB
         /\ uxSchedulerSuspended' = uxSchedulerSuspended + 1
<1>1. /\ state[t] = "ready" /\ uxSchedulerSuspended = 0 /\ uxSchedulerSuspended' = 1
      /\ state' = [state EXCEPT ![t] = "blocked"] /\ left' = [left EXCEPT ![t] = n]
      /\ UNCHANGED <<pxCurrentTCB, xEventLists, pending, xTickCount>>
  BY DEF Delay, Calls
<1>2. \A l \in EventList : t \notin Sleepers(l)
  BY <1>1 DEF KernelInv, Asleep
<1>3. \A l \in EventList : Sleepers(l)' = Sleepers(l) /\ IsInjective(xEventLists'[l])
  BY <1>1 DEF Sleepers, KernelInv
<1>4. KernelTypeOK'
  BY <1>1, TickType DEF KernelInv, KernelTypeOK, States
<1>5. \A l \in EventList : \A u \in Sleepers(l)' :
        u \in Sleepers(l) /\ state'[u] = state[u] /\ u \notin pending'
  BY <1>1, <1>2, <1>3 DEF KernelInv, KernelTypeOK
<1>6. \A u \in Task : state'[u] = "blocked" => left'[u] > 0
  BY <1>1, TickType DEF KernelInv, KernelTypeOK
<1>7. \A u \in pending' : Asleep(u)'
  BY <1>1 DEF KernelInv, KernelTypeOK, Asleep
<1>8. KernelInv'
  BY <1>1, <1>3, <1>4, <1>5, <1>6, <1>7, KernelKeeps DEF KernelInv
<1>. QED  BY <1>1, <1>3, <1>8, OneList DEF InList

\* uxTaskResetEventItemValue changes a priority only.
LEMMA ResetInList ==
  ASSUME KernelInv, NEW t, ResetEventItemValue(t)
  PROVE  KernelInv' /\ InList' = InList /\ pxCurrentTCB' = pxCurrentTCB
         /\ uxSchedulerSuspended' = uxSchedulerSuspended
BY StutterKeeps, OneList DEF ResetEventItemValue, InList

\* A switch goes to a task that does not sleep; a tick wakes those who are due.
LEMMA SwitchInList ==
  ASSUME KernelInv, SwitchContext
  PROVE  KernelInv' /\ InList' = InList /\ pxCurrentTCB' \in Task /\ pxCurrentTCB' \notin InList
         /\ uxSchedulerSuspended = 0 /\ uxSchedulerSuspended' = 0
<1>1. KernelInv' /\ state[pxCurrentTCB'] = "ready" /\ InList' = InList
  BY SwitchKeeps, OneList DEF InList
<1>2. pxCurrentTCB' \in Task /\ uxSchedulerSuspended = 0 /\ uxSchedulerSuspended' = 0
  BY DEF SwitchContext
<1>. QED  BY <1>1, <1>2, ListFacts

\* ... a tick takes out of the list those whose time is up.
LEMMA TickInList ==
  ASSUME KernelInv, IncrementTick
  PROVE  KernelInv' /\ InList' \subseteq InList /\ pxCurrentTCB' = pxCurrentTCB
         /\ uxSchedulerSuspended = 0 /\ uxSchedulerSuspended' = 0
<1>1. uxSchedulerSuspended = 0
  BY DEF IncrementTick
<1>. QED  BY <1>1, TickKeeps, OneList DEF InList


-----------------------------------------------------------------------------
(* The calls, and the scheduler they suspend *)

\* The numbers of ticks a call is made with.
LEMMA TickNumbers == Ticks = 0 .. portMAX_DELAY /\ portMAX_DELAY \in Nat /\ portMAX_DELAY > 0
BY TickType, EventGroupsAssumption DEF Ticks

\* What a call is made with.
LEMMA CallFacts ==
  ASSUME NEW c \in CallRecords
  PROVE  /\ c.bits \in SUBSET Bit /\ c # NoCall
         /\ c.kind \in {"set", "clear", "delete", "abort", "delay", "wait", "sync"}
         /\ c.kind \in {"wait", "sync"} =>
              c.request \in Wanted /\ c.ticks \in Ticks /\ [c EXCEPT !.ticks = 0] \in CallRecords
         /\ c.kind = "sync" => c.request.clear /\ c.request.all
<1>1. c.kind # "none" => c # NoCall
  BY DEF NoCall
<1>2. CASE c \in [kind : {"set", "clear", "delete", "abort", "delay"}, bits : SUBSET Bit]
  BY <1>1, <1>2
<1>3. CASE c \in [kind : {"wait"}, bits : SUBSET Bit, request : Wanted, ticks : Ticks]
  <2>1. [c EXCEPT !.ticks = 0] \in [kind : {"wait"}, bits : SUBSET Bit, request : Wanted, ticks : Ticks]
    BY <1>3, TickNumbers
  <2>. QED  BY <1>1, <1>3, <2>1 DEF CallRecords
<1>4. CASE c \in [kind : {"sync"}, bits : SUBSET Bit, request : {r \in Wanted : r.clear /\ r.all},
                  ticks : Ticks]
  <2>1. [c EXCEPT !.ticks = 0] \in [kind : {"sync"}, bits : SUBSET Bit,
                                    request : {r \in Wanted : r.clear /\ r.all}, ticks : Ticks]
    BY <1>4, TickNumbers
  <2>. QED  BY <1>1, <1>4, <2>1 DEF CallRecords
<1>. QED  BY <1>2, <1>3, <1>4 DEF CallRecords

\* A call that a task is in.
LEMMA InCall ==
  ASSUME CallsInv, NEW t \in Task
  PROVE  /\ step[t] \in Steps
         /\ step[t] # "none" => call[t] \in CallRecords
         /\ step[t] = "none" => call[t] = NoCall /\ call[t].kind = "none"
         /\ call[t].bits \in SUBSET Bit
<1>1. step[t] \in Steps /\ call[t] \in CallRecords \cup {NoCall} /\ (step[t] = "none" <=> call[t] = NoCall)
  BY DEF CallsInv, GroupType, CallOK
<1>2. NoCall.bits = {} /\ NoCall.kind = "none"
  BY DEF NoCall
<1>. QED  BY <1>1, <1>2, CallFacts

\* A request is met by more bits when it is met by some.
LEMMA MoreBits ==
  ASSUME NEW r, NEW v, NEW w, w \subseteq v, prvTestWaitCondition(r, w)
  PROVE  prvTestWaitCondition(r, v)
BY DEF prvTestWaitCondition

\* The scheduler runs: no call is at a step that suspends it, and nobody walks.
LEMMA Running ==
  ASSUME CallsInv, WalkInv, uxSchedulerSuspended = 0 \/ step[pxCurrentTCB] \in Unlocked
  PROVE  /\ \A u \in Task : step[u] \in Unlocked
         /\ walk = NoWalk /\ ~Walks /\ ~Drains /\ Shown = uxEventBits
         /\ InList \ ToSet(walk.rest) = InList
<1>1. pxCurrentTCB \in Task /\ step[pxCurrentTCB] \in Unlocked
  <2>1. pxCurrentTCB \in Task
    BY ListFacts DEF CallsInv
  <2>2. Depth(pxCurrentTCB) = 0 => step[pxCurrentTCB] \in Unlocked
    BY DEF Depth
  <2>. QED  BY <2>1, <2>2, InCall DEF CallsInv, DepthOK, Unlocked
<1>2. ~Walks /\ ~Drains
  BY <1>1 DEF Walks, Drains, Unlocked
<1>3. walk = NoWalk
  BY <1>2 DEF WalkInv
<1>4. ToSet(walk.rest) = {}
  BY <1>3, EmptySet DEF NoWalk
<1>. QED  BY <1>1, <1>2, <1>3, <1>4 DEF CallsInv, CallOK, Shown

\* Those who do not run stay in their calls.
LEMMA OthersStay ==
  ASSUME CallsInv, NEW t \in Task, t = pxCurrentTCB,
         pxCurrentTCB' = pxCurrentTCB, InList' \ {t} \subseteq InList,
         \A u \in Task \ {t} : step'[u] = step[u] /\ call'[u] = call[u] /\ xItemValue'[u] = xItemValue[u]
  PROVE  \A u \in Task \ {t} : CallOK(u)' /\ ItemOK(u)'
<1>. SUFFICES ASSUME NEW u \in Task \ {t} PROVE CallOK(u)' /\ ItemOK(u)'
  OBVIOUS
<1>1. step[u] \in Unlocked /\ CallOK(u) /\ ItemOK(u)
  BY DEF CallsInv, CallOK
<1>. QED  BY <1>1 DEF CallOK, ItemOK, Unlocked

\* No walk begins, or it is over.
LEMMA NoWalkLeft ==
  ASSUME walk' = NoWalk, ~Walks', step'[pxCurrentTCB'] # "walk"
  PROVE  WalkInv' /\ Shown' = uxEventBits' /\ (InList \ ToSet(walk.rest))' = InList'
<1>1. ToSet(walk'.rest) = {} /\ IsInjective(walk'.rest) /\ walk'.rest = <<>>
  BY EmptySet DEF NoWalk
<1>2. ~walk'.active /\ walk'.woken = {}
  BY DEF NoWalk
<1>3. Shown' = uxEventBits'
  BY DEF Shown
<1>4. ~(step'[pxCurrentTCB'] \in {"setResume", "test"} /\ Walks')
  OBVIOUS
<1>. QED  BY <1>1, <1>2, <1>3, <1>4 DEF WalkInv


-----------------------------------------------------------------------------
(* The steps *)

\* A call suspends the scheduler and begins.
LEMMA EnterKeeps ==
  ASSUME Inv, NEW t \in Task, NEW c \in program[t], NEW s \in {"set", "test", "original", "drain"},
         Enter(t, c, s),
         s = "set" => c.kind = "set", s = "test" => c.kind = "wait",
         s = "original" => c.kind = "sync", s = "drain" => c.kind = "delete",
         s = "drain" => \A u \in Task \ {t} : step[u] = "none" \/ u \in InList \/ xItemValue[u].set
  PROVE  Inv'
<1>0. CallsInv /\ WalkInv /\ TestInv /\ LeaveInv /\ KernelInv /\ GroupType
  BY DEF Inv, CallsInv
<1>1. /\ t = pxCurrentTCB /\ step[t] = "none" /\ uxSchedulerSuspended = 0 /\ exists = TRUE
      /\ SuspendAll(t)
      /\ call' = [call EXCEPT ![t] = c] /\ step' = [step EXCEPT ![t] = s]
      /\ UNCHANGED <<program, uxEventBits, xItemValue, walk, exists>>
  BY <1>0 DEF Enter, Between, At, AtCall, GroupType
<1>2. KernelInv' /\ InList' = InList /\ pxCurrentTCB' = pxCurrentTCB /\ uxSchedulerSuspended' = 1
  BY <1>0, <1>1, SuspendList
<1>3. c \in CallRecords /\ c # NoCall
  BY <1>0, CallFacts, EventGroupsAssumption DEF GroupType
<1>4. /\ step'[t] = s /\ call'[t] = c
      /\ \A u \in Task \ {t} : step'[u] = step[u] /\ call'[u] = call[u]
  BY <1>0, <1>1 DEF GroupType
<1>5. ItemOK(t) /\ t \notin InList /\ ~xItemValue[t].set
  BY <1>0, <1>1 DEF CallsInv, ItemOK
<1>6. /\ walk = NoWalk /\ ~Walks /\ ~Drains /\ Shown = uxEventBits
      /\ InList \ ToSet(walk.rest) = InList
  BY <1>0, <1>1, Running
<1>7. CallsInv'
  <2>1. GroupType'
    BY <1>0, <1>1, <1>3 DEF GroupType, Steps
  <2>2. DepthOK'
    BY <1>1, <1>2, <1>4 DEF DepthOK, Depth, Unlocked, Nested
  <2>3. CallOK(t)' /\ ItemOK(t)'
    BY <1>1, <1>2, <1>3, <1>4, <1>5 DEF CallOK, ItemOK, Unlocked, Nested
  <2>. QED  BY <1>0, <1>1, <1>2, <1>4, <2>1, <2>2, <2>3, OthersStay DEF CallsInv
<1>8. WalkInv' /\ Shown' = uxEventBits' /\ (InList \ ToSet(walk.rest))' = InList'
  <2>1. ~Walks' /\ step'[pxCurrentTCB'] # "walk"
    BY <1>1, <1>2, <1>4 DEF Walks
  <2>. QED  BY <1>1, <1>6, <2>1, NoWalkLeft
<1>9. TestInv'
  BY <1>0, <1>1, <1>2, <1>4, <1>5, <1>6, <1>8, ListFacts DEF TestInv
<1>10. LeaveInv'
  BY <1>1, <1>2, <1>4 DEF LeaveInv, Drains
<1>. QED  BY <1>7, <1>8, <1>9, <1>10 DEF Inv

\* The bits are never more than what the walk has shown; a wait is judged by the latter.
LEMMA ShownBits ==
  ASSUME WalkInv, CallsInv, NEW t \in Task, t = pxCurrentTCB
  PROVE  uxEventBits \subseteq Shown /\ (step[t] = "test" => Judged(t) = Shown)
<1>1. step[t] = "test" => call[t].kind \in {"wait", "sync"}
  BY DEF CallsInv, CallOK
<1>2. step[t] = "test" => Judged(t) = Shown
  BY <1>1 DEF Judged, Shown, Walks
<1>3. Walks => uxEventBits \subseteq Shown
  BY DEF WalkInv, Walks
<1>4. ~Walks => uxEventBits \subseteq Shown
  BY DEF Shown
<1>. QED  BY <1>2, <1>3, <1>4

\* Who sleeps goes on sleeping for a reason when there are fewer bits.
LEMMA FewerBits ==
  ASSUME TestInv, NEW S, S \subseteq InList \ ToSet(walk.rest),
         NEW v, v \subseteq Shown
  PROVE  \A u \in S : ~prvTestWaitCondition(call[u].request, v)
BY MoreBits DEF TestInv

\* xEventGroupSync suspends the scheduler a second time.
LEMMA SetInSyncKeeps ==
  ASSUME Inv, NEW t \in Task, SetInSync(t)
  PROVE  Inv'
<1>0. CallsInv /\ WalkInv /\ TestInv /\ LeaveInv /\ KernelInv /\ GroupType
  BY DEF Inv, CallsInv
<1>1. /\ t = pxCurrentTCB /\ step[t] = "original"
      /\ SuspendAll(t)
      /\ call' = call /\ step' = [step EXCEPT ![t] = "set"]
      /\ UNCHANGED <<program, uxEventBits, xItemValue, walk, exists>>
  BY DEF SetInSync, At, AtCall, Goto
<1>2. /\ KernelInv' /\ InList' = InList /\ pxCurrentTCB' = pxCurrentTCB
      /\ uxSchedulerSuspended' = uxSchedulerSuspended + 1
  BY <1>0, <1>1, SuspendList
<1>3. call[t].kind = "sync" /\ uxSchedulerSuspended = 1
  BY <1>0, <1>1 DEF CallsInv, CallOK, DepthOK, Depth, Unlocked, Nested
<1>4. step'[t] = "set" /\ \A u \in Task \ {t} : step'[u] = step[u]
  BY <1>0, <1>1 DEF GroupType
<1>5. ItemOK(t) /\ t \notin InList /\ ~xItemValue[t].set
  BY <1>0, <1>1 DEF CallsInv, ItemOK
<1>6. ~Walks /\ ~Drains /\ walk = NoWalk /\ Shown = uxEventBits
  BY <1>0, <1>1 DEF Walks, Drains, WalkInv, Shown
<1>7. CallsInv'
  <2>1. GroupType'
    BY <1>0, <1>1 DEF GroupType, Steps
  <2>2. DepthOK'
    BY <1>1, <1>2, <1>3, <1>4 DEF DepthOK, Depth, Unlocked, Nested
  <2>3. CallOK(t)' /\ ItemOK(t)'
    BY <1>0, <1>1, <1>2, <1>3, <1>4, <1>5 DEF CallOK, ItemOK, Unlocked, Nested, CallsInv
  <2>. QED  BY <1>0, <1>1, <1>2, <1>4, <2>1, <2>2, <2>3, OthersStay DEF CallsInv
<1>8. WalkInv' /\ Shown' = uxEventBits' /\ (InList \ ToSet(walk.rest))' = InList'
  <2>1. ~Walks' /\ step'[pxCurrentTCB'] # "walk"
    BY <1>1, <1>2, <1>4 DEF Walks
  <2>. QED  BY <1>1, <1>6, <2>1, NoWalkLeft
<1>9. TestInv'
  <2>1. ToSet(walk.rest) = {}
    BY <1>6, EmptySet DEF NoWalk
  <2>. QED  BY <1>0, <1>1, <1>2, <1>6, <1>8, <2>1 DEF TestInv
<1>10. LeaveInv'
  BY <1>0, <1>1, <1>2, <1>4, <1>5 DEF LeaveInv, Drains
<1>. QED  BY <1>7, <1>8, <1>9, <1>10 DEF Inv

\* xEventGroupSetBits sets the bits and begins its walk.
LEMMA SetBitsKeeps ==
  ASSUME Inv, NEW t \in Task, SetBits(t)
  PROVE  Inv'
<1>0. CallsInv /\ WalkInv /\ TestInv /\ LeaveInv /\ KernelInv /\ GroupType
  BY DEF Inv, CallsInv
<1>1. /\ t = pxCurrentTCB /\ step[t] = "set"
      /\ uxEventBits' = uxEventBits \cup call[t].bits
      /\ walk' = [NoWalk EXCEPT !.before = uxEventBits, !.rest = Waiters, !.active = TRUE]
      /\ call' = call /\ step' = [step EXCEPT ![t] = "walk"]
      /\ UNCHANGED <<program, kernelVars, xItemValue, exists>>
  BY DEF SetBits, At, AtCall, Goto
<1>2. /\ KernelInv' /\ InList' = InList /\ pxCurrentTCB' = pxCurrentTCB
      /\ uxSchedulerSuspended' = uxSchedulerSuspended
  BY <1>0, <1>1, GroupAlone
<1>3. call[t].kind \in {"set", "sync"} /\ call[t].bits \in SUBSET Bit
  BY <1>0, <1>1, InCall DEF CallsInv, CallOK, Nested
<1>4. step'[t] = "walk" /\ \A u \in Task \ {t} : step'[u] = step[u]
  BY <1>0, <1>1 DEF GroupType
<1>5. ItemOK(t) /\ t \notin InList /\ ~xItemValue[t].set
  BY <1>0, <1>1 DEF CallsInv, ItemOK
<1>6. /\ walk'.before = uxEventBits /\ walk'.rest = Waiters /\ walk'.uxBitsToClear = {}
      /\ walk'.woken = {} /\ walk'.active = TRUE
      /\ walk' \in [before : SUBSET Bit, rest : Seq(Task), uxBitsToClear : SUBSET Bit,
                    woken : SUBSET Task, active : BOOLEAN]
  BY <1>0, <1>1, ListFacts DEF NoWalk, GroupType
<1>7. CallsInv'
  <2>1. GroupType'
    BY <1>0, <1>1, <1>3, <1>6 DEF GroupType, Steps
  <2>2. DepthOK'
    BY <1>0, <1>1, <1>2, <1>4 DEF CallsInv, DepthOK, Depth, Unlocked, Nested
  <2>3. CallOK(t)' /\ ItemOK(t)'
    BY <1>0, <1>1, <1>2, <1>3, <1>4, <1>5 DEF CallOK, ItemOK, Unlocked, Nested, CallsInv
  <2>. QED  BY <1>0, <1>1, <1>2, <1>4, <2>1, <2>2, <2>3, OthersStay DEF CallsInv
<1>8. Walks' /\ ~Drains' /\ Shown' = uxEventBits' /\ ToSet(walk'.rest) = InList'
  BY <1>0, <1>1, <1>2, <1>4, <1>6, ListFacts DEF Walks, Drains, Shown
<1>9. WalkInv'
  <2>1. IsInjective(walk'.rest)
    BY <1>0, <1>6, ListFacts
  <2>2. ~(step'[pxCurrentTCB'] \in {"setResume", "test"})
    BY <1>1, <1>2, <1>4
  <2>. QED  BY <1>1, <1>2, <1>4, <1>6, <1>8, <2>1, <2>2 DEF WalkInv
<1>10. TestInv'
  BY <1>8 DEF TestInv
<1>11. LeaveInv'
  BY <1>0, <1>1, <1>2, <1>5, <1>8 DEF LeaveInv
<1>. QED  BY <1>7, <1>9, <1>10, <1>11 DEF Inv

\* The walk: the waiter it has come to.
LEMMA NextOnWalk ==
  ASSUME Inv, NEW t \in Task, t = pxCurrentTCB, step[t] = "walk", walk.rest # <<>>
  PROVE  LET u == Head(walk.rest)
         IN  /\ u \in InList /\ u \in Task \ {t} /\ step[u] = "item" /\ Waiting(u)
             /\ xItemValue[u] = [set |-> FALSE, request |-> call[u].request, bits |-> {}]
             /\ call[u] \in CallRecords /\ call[u].request \in Wanted
             /\ walk.rest \in Seq(Task) /\ Tail(walk.rest) \in Seq(Task)
             /\ ToSet(walk.rest) = {u} \cup ToSet(Tail(walk.rest))
             /\ u \notin ToSet(Tail(walk.rest)) /\ IsInjective(Tail(walk.rest))
<1>0. CallsInv /\ WalkInv /\ KernelInv /\ GroupType
  BY DEF Inv, CallsInv
<1>1. PICK u : u = Head(walk.rest)
  OBVIOUS
<1>2. walk.rest \in Seq(Task) /\ IsInjective(walk.rest) /\ ToSet(walk.rest) \subseteq InList
  BY <1>0 DEF GroupType, WalkInv
<1>3. /\ u \in Task /\ Tail(walk.rest) \in Seq(Task)
      /\ ToSet(walk.rest) = {u} \cup ToSet(Tail(walk.rest))
      /\ u \notin ToSet(Tail(walk.rest)) /\ IsInjective(Tail(walk.rest))
  BY <1>1, <1>2, HeadAndRest
<1>4. u \in InList /\ Waiting(u)
  BY <1>0, <1>2, <1>3, ListFacts
<1>5. /\ xItemValue[u] = [set |-> FALSE, request |-> call[u].request, bits |-> {}]
      /\ step[u] \in {"item", "resume"} /\ CallOK(u)
  BY <1>0, <1>3, <1>4 DEF CallsInv, ItemOK
<1>6. u # t /\ step[u] = "item" /\ call[u].kind \in {"wait", "sync"}
  BY <1>5 DEF CallOK, Unlocked
<1>7. call[u] \in CallRecords /\ call[u].request \in Wanted
  BY <1>0, <1>3, <1>6, InCall, CallFacts
<1>. QED  BY <1>1, <1>2, <1>3, <1>4, <1>5, <1>6, <1>7

\* What the waiters of W want cleared, and one more.
LEMMA OneMoreClears ==
  ASSUME NEW W, NEW u
  PROVE  UNION {Clears(call[v].request) : v \in W \cup {u}}
           = (UNION {Clears(call[v].request) : v \in W}) \cup Clears(call[u].request)
<1>. DEFINE all == UNION {Clears(call[v].request) : v \in W \cup {u}}
            old == UNION {Clears(call[v].request) : v \in W}
            new == Clears(call[u].request)
<1>1. \A x : x \in all <=> \E v \in W \cup {u} : x \in Clears(call[v].request)
  OBVIOUS
<1>2. \A x : x \in old <=> \E v \in W : x \in Clears(call[v].request)
  OBVIOUS
<1>3. \A x : x \in all <=> x \in old \/ x \in new
  <2>. HIDE DEF all, old
  <2>. QED  BY <1>1, <1>2
<1>4. all = old \cup new
  <2>. HIDE DEF all, old, new
  <2>. QED  BY <1>3
<1>. QED  BY <1>4

\* It wakes a waiter whose condition is met ...
LEMMA WakeMatchingKeeps ==
  ASSUME Inv, NEW t \in Task, WakeMatching(t)
  PROVE  Inv'
<1>0. CallsInv /\ WalkInv /\ TestInv /\ LeaveInv /\ KernelInv /\ GroupType
  BY DEF Inv, CallsInv
<1>1. PICK u : u = Head(walk.rest)
  OBVIOUS
<1>2. PICK r : r = xItemValue[u].request
  OBVIOUS
<1>3. /\ t = pxCurrentTCB /\ step[t] = "walk" /\ walk.rest # <<>>
      /\ prvTestWaitCondition(r, uxEventBits)
      /\ xItemValue' = [xItemValue EXCEPT ![u] = [set |-> TRUE, request |-> {}, bits |-> uxEventBits]]
      /\ RemoveFromUnorderedEventList(t, u, xTasksWaitingForBits)
      /\ walk' = [walk EXCEPT !.rest = Tail(@), !.woken = @ \cup {u},
                              !.uxBitsToClear = @ \cup Clears(r)]
      /\ call' = call /\ step' = [step EXCEPT ![t] = "walk"]
      /\ UNCHANGED <<program, uxEventBits, exists>>
  BY <1>1, <1>2 DEF WakeMatching, At, AtCall, Goto, Onward, KeptForTheOthers, Clears
<1>4. /\ u \in InList /\ u \in Task \ {t} /\ step[u] = "item"
      /\ r = call[u].request /\ ~xItemValue[u].set /\ r \in Wanted
      /\ Tail(walk.rest) \in Seq(Task)
      /\ ToSet(walk.rest) = {u} \cup ToSet(Tail(walk.rest))
      /\ u \notin ToSet(Tail(walk.rest)) /\ IsInjective(Tail(walk.rest))
  BY <1>1, <1>2, <1>3, NextOnWalk
<1>5. /\ KernelInv' /\ InList' = InList \ {u} /\ pxCurrentTCB' = pxCurrentTCB
      /\ uxSchedulerSuspended' = uxSchedulerSuspended
  BY <1>0, <1>3, <1>4, RemoveFromList
<1>6. step' = step
  BY <1>0, <1>3 DEF GroupType
<1>7. /\ walk'.before = walk.before /\ walk'.active = walk.active
      /\ walk'.rest = Tail(walk.rest) /\ walk'.woken = walk.woken \cup {u}
      /\ walk'.uxBitsToClear = walk.uxBitsToClear \cup Clears(r)
      /\ walk' \in [before : SUBSET Bit, rest : Seq(Task), uxBitsToClear : SUBSET Bit,
                    woken : SUBSET Task, active : BOOLEAN]
  <2>1. Clears(r) \in SUBSET Bit
    BY <1>4 DEF Clears, Wanted
  <2>. QED  BY <1>0, <1>3, <1>4, <2>1 DEF GroupType
<1>8. /\ xItemValue'[u] = [set |-> TRUE, request |-> {}, bits |-> uxEventBits]
      /\ \A v \in Task \ {u} : xItemValue'[v] = xItemValue[v]
      /\ xItemValue' \in [Task -> [set : BOOLEAN, request : Wanted \cup {{}}, bits : SUBSET Bit]]
  BY <1>0, <1>3, <1>4 DEF GroupType
<1>9. CallsInv'
  <2>1. GroupType'
    BY <1>0, <1>3, <1>6, <1>7, <1>8 DEF GroupType
  <2>2. DepthOK'
    BY <1>0, <1>3, <1>5, <1>6 DEF CallsInv, DepthOK, Depth
  <2>3. ASSUME NEW v \in Task PROVE CallOK(v)' /\ ItemOK(v)'
    <3>1. CallOK(v) /\ ItemOK(v)
      BY <1>0 DEF CallsInv
    <3>2. CallOK(v)'
      BY <1>3, <1>4, <1>5, <1>6, <3>1 DEF CallOK, Unlocked
    <3>3. CASE v = u
      BY <1>3, <1>4, <1>5, <1>6, <1>8, <3>2, <3>3 DEF ItemOK
    <3>4. CASE v # u
      BY <1>3, <1>5, <1>6, <1>8, <3>1, <3>2, <3>4 DEF ItemOK
    <3>. QED  BY <3>3, <3>4
  <2>. QED  BY <1>5, <2>1, <2>2, <2>3 DEF CallsInv
<1>10. Walks /\ Walks' /\ ~Drains' /\ Shown' = Shown /\ uxEventBits = Shown
  BY <1>0, <1>3, <1>5, <1>6, <1>7 DEF Walks, Drains, Shown, WalkInv
<1>11. \A v \in walk'.woken : ReleasedOK(v)'
  <2>. SUFFICES ASSUME NEW v \in walk'.woken PROVE ReleasedOK(v)'
    OBVIOUS
  <2>1. CASE v = u
    BY <1>3, <1>4, <1>5, <1>6, <1>8, <1>10, <2>1 DEF ReleasedOK
  <2>2. CASE v # u
    <3>1. v \in Task /\ ReleasedOK(v)
      BY <1>0, <1>7, <2>2 DEF WalkInv, GroupType
    <3>. QED  BY <1>3, <1>5, <1>6, <1>8, <1>10, <2>2, <3>1 DEF ReleasedOK
  <2>. QED  BY <2>1, <2>2
<1>12. WalkInv'
  <2>1. walk'.uxBitsToClear = UNION {Clears(call'[v].request) : v \in walk'.woken}
    <3>1. walk.uxBitsToClear = UNION {Clears(call[v].request) : v \in walk.woken}
      BY <1>0, <1>10 DEF WalkInv
    <3>2. UNION {Clears(call[v].request) : v \in walk.woken \cup {u}}
            = (UNION {Clears(call[v].request) : v \in walk.woken}) \cup Clears(call[u].request)
      BY OneMoreClears
    <3>3. UNION {Clears(call'[v].request) : v \in walk'.woken}
            = UNION {Clears(call[v].request) : v \in walk.woken \cup {u}}
      BY <1>3, <1>7
    <3>4. PICK now, before : /\ now = UNION {Clears(call'[v].request) : v \in walk'.woken}
                             /\ before = UNION {Clears(call[v].request) : v \in walk.woken}
      OBVIOUS
    <3>5. walk'.uxBitsToClear = before \cup Clears(call[u].request)
      BY <1>4, <1>7, <3>1, <3>4
    <3>. QED  BY <3>2, <3>3, <3>4, <3>5
  <2>2. IsInjective(walk'.rest) /\ ToSet(walk'.rest) \subseteq InList'
    BY <1>0, <1>4, <1>5, <1>7 DEF WalkInv
  <2>3. step'[pxCurrentTCB'] = "walk" /\ walk'.active
    BY <1>0, <1>3, <1>5, <1>6, <1>7, <1>10 DEF WalkInv
  <2>. QED  BY <1>3, <1>10, <1>11, <2>1, <2>2, <2>3 DEF WalkInv
<1>13. TestInv'
  <2>1. (InList \ ToSet(walk.rest))' \subseteq InList \ ToSet(walk.rest)
    BY <1>4, <1>5, <1>7
  <2>. QED  BY <1>0, <1>3, <1>10, <2>1 DEF TestInv
<1>14. LeaveInv'
  BY <1>0, <1>3, <1>4, <1>5, <1>6, <1>8, <1>10 DEF LeaveInv
<1>. QED  BY <1>9, <1>12, <1>13, <1>14 DEF Inv

\* ... and passes one whose condition is not.
LEMMA PassOverKeeps ==
  ASSUME Inv, NEW t \in Task, PassOver(t)
  PROVE  Inv'
<1>0. CallsInv /\ WalkInv /\ TestInv /\ LeaveInv /\ KernelInv /\ GroupType
  BY DEF Inv, CallsInv
<1>1. PICK u : u = Head(walk.rest)
  OBVIOUS
<1>2. /\ t = pxCurrentTCB /\ step[t] = "walk" /\ walk.rest # <<>>
      /\ ~prvTestWaitCondition(xItemValue[u].request, uxEventBits)
      /\ walk' = [walk EXCEPT !.rest = Tail(@)]
      /\ call' = call /\ step' = [step EXCEPT ![t] = "walk"]
      /\ UNCHANGED <<program, kernelVars, uxEventBits, xItemValue, exists>>
  BY <1>1 DEF PassOver, At, AtCall, Goto, Onward
<1>3. /\ u \in InList /\ xItemValue[u].request = call[u].request
      /\ Tail(walk.rest) \in Seq(Task)
      /\ ToSet(walk.rest) = {u} \cup ToSet(Tail(walk.rest)) /\ IsInjective(Tail(walk.rest))
  BY <1>1, <1>2, NextOnWalk
<1>4. /\ KernelInv' /\ InList' = InList /\ pxCurrentTCB' = pxCurrentTCB
      /\ uxSchedulerSuspended' = uxSchedulerSuspended
  BY <1>0, <1>2, GroupAlone
<1>5. step' = step
  BY <1>0, <1>2 DEF GroupType
<1>6. /\ walk'.before = walk.before /\ walk'.active = walk.active
      /\ walk'.rest = Tail(walk.rest) /\ walk'.woken = walk.woken
      /\ walk'.uxBitsToClear = walk.uxBitsToClear
      /\ walk' \in [before : SUBSET Bit, rest : Seq(Task), uxBitsToClear : SUBSET Bit,
                    woken : SUBSET Task, active : BOOLEAN]
  BY <1>0, <1>2, <1>3 DEF GroupType
<1>7. CallsInv'
  <2>1. GroupType'
    BY <1>0, <1>2, <1>5, <1>6 DEF GroupType
  <2>2. DepthOK'
    BY <1>0, <1>2, <1>4, <1>5 DEF CallsInv, DepthOK, Depth
  <2>3. \A v \in Task : CallOK(v)' /\ ItemOK(v)'
    BY <1>0, <1>2, <1>4, <1>5 DEF CallsInv, CallOK, ItemOK
  <2>. QED  BY <1>4, <2>1, <2>2, <2>3 DEF CallsInv
<1>8. Walks /\ Walks' /\ ~Drains' /\ Shown' = Shown /\ uxEventBits = Shown
  BY <1>0, <1>2, <1>4, <1>5, <1>6 DEF Walks, Drains, Shown, WalkInv
<1>9. WalkInv'
  <2>1. \A v \in walk'.woken : ReleasedOK(v)'
    BY <1>0, <1>2, <1>4, <1>5, <1>6, <1>8 DEF ReleasedOK, WalkInv
  <2>2. IsInjective(walk'.rest) /\ ToSet(walk'.rest) \subseteq InList'
    BY <1>0, <1>3, <1>4, <1>6 DEF WalkInv
  <2>3. step'[pxCurrentTCB'] = "walk" /\ walk'.active
    BY <1>0, <1>2, <1>4, <1>5, <1>6, <1>8 DEF WalkInv
  <2>4. walk'.uxBitsToClear = UNION {Clears(call'[v].request) : v \in walk'.woken}
    BY <1>0, <1>2, <1>6, <1>8 DEF WalkInv
  <2>. QED  BY <1>2, <1>8, <2>1, <2>2, <2>3, <2>4 DEF WalkInv
<1>10. TestInv'
  BY <1>0, <1>2, <1>3, <1>4, <1>6, <1>8 DEF TestInv
<1>11. LeaveInv'
  BY <1>0, <1>2, <1>4, <1>5, <1>8 DEF LeaveInv
<1>. QED  BY <1>7, <1>9, <1>10, <1>11 DEF Inv

\* The walk is over: the bits its waiters asked to have cleared go.
LEMMA EndWalkKeeps ==
  ASSUME Inv, NEW t \in Task, EndWalk(t)
  PROVE  Inv'
<1>0. CallsInv /\ WalkInv /\ TestInv /\ LeaveInv /\ KernelInv /\ GroupType
  BY DEF Inv, CallsInv
<1>1. /\ t = pxCurrentTCB /\ step[t] = "walk" /\ walk.rest = <<>>
      /\ uxEventBits' = uxEventBits \ walk.uxBitsToClear
      /\ walk' = IF call[t].kind = "sync" THEN walk ELSE NoWalk
      /\ call' = call /\ step' = [step EXCEPT ![t] = "setResume"]
      /\ UNCHANGED <<program, kernelVars, xItemValue, exists>>
  BY DEF EndWalk, At, AtCall, Goto
<1>2. /\ KernelInv' /\ InList' = InList /\ pxCurrentTCB' = pxCurrentTCB
      /\ uxSchedulerSuspended' = uxSchedulerSuspended
  BY <1>0, <1>1, GroupAlone
<1>3. step'[t] = "setResume" /\ \A u \in Task \ {t} : step'[u] = step[u]
  BY <1>0, <1>1 DEF GroupType
<1>4. ItemOK(t) /\ t \notin InList /\ ~xItemValue[t].set
  BY <1>0, <1>1 DEF CallsInv, ItemOK
<1>5. CallsInv'
  <2>1. GroupType'
    <3>1. NoWalk \in [before : SUBSET Bit, rest : Seq(Task), uxBitsToClear : SUBSET Bit,
                      woken : SUBSET Task, active : BOOLEAN]
      BY DEF NoWalk
    <3>. QED  BY <1>0, <1>1, <3>1 DEF GroupType, Steps
  <2>2. DepthOK'
    BY <1>0, <1>1, <1>2, <1>3 DEF CallsInv, DepthOK, Depth, Unlocked, Nested
  <2>3. CallOK(t)' /\ ItemOK(t)'
    BY <1>0, <1>1, <1>2, <1>3, <1>4 DEF CallOK, ItemOK, Unlocked, Nested, CallsInv
  <2>. QED  BY <1>0, <1>1, <1>2, <1>3, <2>1, <2>2, <2>3, OthersStay DEF CallsInv
<1>6. Walks /\ ~Drains' /\ uxEventBits = Shown
  BY <1>0, <1>1, <1>2, <1>3 DEF Walks, Drains, WalkInv
<1>7. InList \ ToSet(walk.rest) = InList
  BY <1>1, EmptySet
<1>8. LeaveInv'
  BY <1>0, <1>1, <1>2, <1>4, <1>6 DEF LeaveInv
<1>9. CASE call[t].kind = "sync"
  <2>1. Walks' /\ Shown' = Shown /\ walk' = walk
    BY <1>1, <1>2, <1>3, <1>6, <1>9 DEF Walks, Shown
  <2>2. \A u \in walk'.woken : ReleasedOK(u)'
    <3>. SUFFICES ASSUME NEW u \in walk.woken PROVE ReleasedOK(u)'
      BY <2>1
    <3>1. ReleasedOK(u) /\ u \in Task
      BY <1>0 DEF WalkInv, GroupType
    <3>. QED  BY <1>1, <1>2, <1>3, <1>6, <2>1, <3>1 DEF ReleasedOK
  <2>3. WalkInv'
    BY <1>0, <1>1, <1>2, <1>3, <1>6, <2>1, <2>2 DEF WalkInv
  <2>4. TestInv'
    BY <1>0, <1>1, <1>2, <2>1 DEF TestInv
  <2>. QED  BY <1>5, <1>8, <2>3, <2>4 DEF Inv
<1>10. CASE call[t].kind # "sync"
  <2>1. WalkInv' /\ Shown' = uxEventBits' /\ (InList \ ToSet(walk.rest))' = InList'
    <3>1. ~Walks' /\ step'[pxCurrentTCB'] # "walk"
      BY <1>1, <1>2, <1>3, <1>10 DEF Walks
    <3>. QED  BY <1>1, <1>10, <3>1, NoWalkLeft
  <2>2. TestInv'
    BY <1>0, <1>1, <1>2, <1>6, <1>7, <2>1, FewerBits DEF TestInv
  <2>. QED  BY <1>5, <1>8, <2>1, <2>2 DEF Inv
<1>. QED  BY <1>9, <1>10

\* xEventGroupSetBits returns, to its caller or to xEventGroupSync.
LEMMA ResumeAfterSetKeeps ==
  ASSUME Inv, NEW t \in Task, ResumeAfterSet(t)
  PROVE  Inv'
<1>0. CallsInv /\ WalkInv /\ TestInv /\ LeaveInv /\ KernelInv /\ GroupType
  BY DEF Inv, CallsInv
<1>1. /\ t = pxCurrentTCB /\ step[t] = "setResume" /\ ResumeAll(t)
      /\ UNCHANGED <<program, uxEventBits, xItemValue, walk, exists>>
  BY DEF ResumeAfterSet, At, AtCall
<1>2. /\ KernelInv' /\ InList' = InList /\ pxCurrentTCB' = pxCurrentTCB
      /\ uxSchedulerSuspended' = uxSchedulerSuspended - 1
  BY <1>0, <1>1, ResumeList
<1>3. ItemOK(t) /\ t \notin InList /\ ~xItemValue[t].set /\ call[t].kind \in {"set", "sync"}
  BY <1>0, <1>1 DEF CallsInv, CallOK, ItemOK, Nested
<1>4. uxSchedulerSuspended = IF call[t].kind = "sync" THEN 2 ELSE 1
  BY <1>0, <1>1 DEF CallsInv, DepthOK, Depth, Unlocked, Nested
<1>5. CASE call[t].kind = "sync"
  <2>1. call' = call /\ step' = [step EXCEPT ![t] = "test"]
    BY <1>5 DEF ResumeAfterSet, Goto
  <2>2. step'[t] = "test" /\ \A u \in Task \ {t} : step'[u] = step[u]
    BY <1>0, <2>1 DEF GroupType
  <2>3. CallsInv'
    <3>1. GroupType'
      BY <1>0, <1>1, <2>1 DEF GroupType, Steps
    <3>2. DepthOK'
      BY <1>1, <1>2, <1>4, <1>5, <2>1, <2>2 DEF DepthOK, Depth, Unlocked, Nested
    <3>3. CallOK(t)' /\ ItemOK(t)'
      BY <1>0, <1>1, <1>2, <1>3, <1>5, <2>1, <2>2 DEF CallOK, ItemOK, Unlocked, Nested, CallsInv
    <3>. QED  BY <1>0, <1>1, <1>2, <2>1, <2>2, <3>1, <3>2, <3>3, OthersStay DEF CallsInv
  <2>4. Walks /\ Walks' /\ ~Drains' /\ Shown' = Shown
    BY <1>1, <1>2, <1>5, <2>1, <2>2 DEF Walks, Drains, Shown
  <2>5. \A u \in walk'.woken : ReleasedOK(u)'
    <3>. SUFFICES ASSUME NEW u \in walk.woken PROVE ReleasedOK(u)'
      BY <1>1
    <3>1. ReleasedOK(u) /\ u \in Task
      BY <1>0 DEF WalkInv, GroupType
    <3>. QED  BY <1>1, <1>2, <2>1, <2>2, <2>4, <3>1 DEF ReleasedOK
  <2>6. WalkInv'
    BY <1>0, <1>1, <1>2, <2>1, <2>2, <2>4, <2>5 DEF WalkInv
  <2>7. TestInv'
    BY <1>0, <1>1, <1>2, <2>1, <2>4 DEF TestInv
  <2>8. LeaveInv'
    BY <1>0, <1>1, <1>2, <1>3, <2>4 DEF LeaveInv
  <2>. QED  BY <2>3, <2>6, <2>7, <2>8 DEF Inv
<1>6. CASE call[t].kind # "sync"
  <2>1. call' = [call EXCEPT ![t] = NoCall] /\ step' = [step EXCEPT ![t] = "none"]
    BY <1>6 DEF ResumeAfterSet, Return
  <2>2. /\ step'[t] = "none" /\ call'[t] = NoCall
        /\ \A u \in Task \ {t} : step'[u] = step[u] /\ call'[u] = call[u]
    BY <1>0, <2>1 DEF GroupType
  <2>3. CallsInv'
    <3>1. GroupType'
      BY <1>0, <1>1, <2>1 DEF GroupType, Steps
    <3>2. DepthOK'
      BY <1>1, <1>2, <1>4, <1>6, <2>2 DEF DepthOK, Depth, Unlocked, Nested
    <3>3. CallOK(t)' /\ ItemOK(t)'
      BY <1>1, <1>2, <1>3, <2>2 DEF CallOK, ItemOK, Unlocked, Nested
    <3>. QED  BY <1>0, <1>1, <1>2, <2>2, <3>1, <3>2, <3>3, OthersStay DEF CallsInv
  <2>4. ~Walks /\ ~Drains /\ walk = NoWalk /\ Shown = uxEventBits
    BY <1>0, <1>1, <1>6 DEF Walks, Drains, Shown, WalkInv
  <2>5. WalkInv' /\ Shown' = uxEventBits' /\ (InList \ ToSet(walk.rest))' = InList'
    <3>1. ~Walks' /\ step'[pxCurrentTCB'] # "walk"
      BY <1>1, <1>2, <2>2 DEF Walks
    <3>. QED  BY <1>1, <2>4, <3>1, NoWalkLeft
  <2>6. TestInv'
    <3>1. ToSet(walk.rest) = {}
      BY <2>4, EmptySet DEF NoWalk
    <3>. QED  BY <1>0, <1>1, <1>2, <1>3, <2>2, <2>4, <2>5, <3>1, ListFacts DEF TestInv
  <2>7. LeaveInv'
    BY <1>0, <1>1, <1>2, <1>3, <2>2 DEF LeaveInv, Drains
  <2>. QED  BY <2>3, <2>5, <2>6, <2>7 DEF Inv
<1>. QED  BY <1>5, <1>6

\* A wait has looked at the bits: it takes what it waited for, fails, or sleeps.
LEMMA TestedKeeps ==
  ASSUME Inv, NEW t \in Task, t = pxCurrentTCB, step[t] = "test",
         KernelInv', pxCurrentTCB' = pxCurrentTCB, uxSchedulerSuspended' = uxSchedulerSuspended,
         step' = [step EXCEPT ![t] = "resume"],
         call' \in [Task -> CallRecords \cup {NoCall}],
         \A u \in Task \ {t} : call'[u] = call[u] /\ xItemValue'[u] = xItemValue[u],
         call'[t] \in CallRecords, call'[t].kind = call[t].kind, call'[t].request = call[t].request,
         xItemValue' \in [Task -> [set : BOOLEAN, request : Wanted \cup {{}}, bits : SUBSET Bit]],
         ~xItemValue'[t].set,
         walk' = NoWalk, uxEventBits' \subseteq uxEventBits, program' = program, exists' = exists,
         InList' \ {t} \subseteq InList, t \in InList' <=> call'[t].ticks > 0,
         t \in InList' => /\ xItemValue'[t] = [set |-> FALSE, request |-> call[t].request, bits |-> {}]
                          /\ ~prvTestWaitCondition(call[t].request, uxEventBits')
  PROVE  Inv'
<1>0. CallsInv /\ WalkInv /\ TestInv /\ LeaveInv /\ KernelInv /\ GroupType
  BY DEF Inv, CallsInv
<1>1. step'[t] = "resume" /\ \A u \in Task \ {t} : step'[u] = step[u]
  BY <1>0 DEF GroupType
<1>2. t \notin InList /\ ~xItemValue[t].set /\ call[t].kind \in {"wait", "sync"}
  BY <1>0 DEF CallsInv, CallOK, ItemOK
<1>3. CallsInv'
  <2>1. GroupType'
    <3>1. NoWalk \in [before : SUBSET Bit, rest : Seq(Task), uxBitsToClear : SUBSET Bit,
                      woken : SUBSET Task, active : BOOLEAN]
      BY DEF NoWalk
    <3>. QED  BY <1>0, <3>1 DEF GroupType, Steps
  <2>2. DepthOK'
    BY <1>0, <1>1 DEF CallsInv, DepthOK, Depth, Unlocked, Nested
  <2>3. CallOK(t)' /\ ItemOK(t)'
    BY <1>1, <1>2, CallFacts DEF CallOK, ItemOK, Unlocked, Nested
  <2>. QED  BY <1>0, <1>1, <2>1, <2>2, <2>3, OthersStay DEF CallsInv
<1>4. WalkInv' /\ Shown' = uxEventBits' /\ (InList \ ToSet(walk.rest))' = InList'
  <2>1. ~Walks' /\ step'[pxCurrentTCB'] # "walk"
    BY <1>1 DEF Walks
  <2>. QED  BY <2>1, NoWalkLeft
<1>5. TestInv'
  <2>1. walk.rest = <<>> /\ InList' \ {t} \subseteq InList \ ToSet(walk.rest)
    BY <1>0, EmptySet DEF WalkInv
  <2>2. uxEventBits' \subseteq Shown
    BY <1>0, ShownBits
  <2>3. \A u \in InList' \ {t} : ~prvTestWaitCondition(call[u].request, uxEventBits')
    BY <1>0, <2>1, <2>2, FewerBits
  <2>4. InList' \subseteq Task
    BY <1>0, ListFacts
  <2>. QED  BY <1>0, <1>4, <2>3, <2>4 DEF TestInv
<1>6. LeaveInv'
  BY <1>0, <1>1, <1>2 DEF LeaveInv, Drains
<1>. QED  BY <1>3, <1>4, <1>5, <1>6 DEF Inv

\* The condition is met: the wait takes its bits and sleeps no time.
LEMMA TakeAtOnceKeeps ==
  ASSUME Inv, NEW t \in Task, TakeAtOnce(t)
  PROVE  Inv'
<1>0. CallsInv /\ KernelInv /\ GroupType
  BY DEF Inv, CallsInv
<1>1. /\ t = pxCurrentTCB /\ step[t] = "test"
      /\ uxEventBits' = Remaining(call[t].request, uxEventBits)
      /\ walk' = NoWalk
      /\ call' = [call EXCEPT ![t].ticks = 0] /\ step' = [step EXCEPT ![t] = "resume"]
      /\ UNCHANGED <<program, kernelVars, xItemValue, exists>>
  BY DEF TakeAtOnce, At, AtCall
<1>2. /\ KernelInv' /\ InList' = InList /\ pxCurrentTCB' = pxCurrentTCB
      /\ uxSchedulerSuspended' = uxSchedulerSuspended
  BY <1>0, <1>1, GroupAlone
<1>3. call[t] \in CallRecords /\ call[t].kind \in {"wait", "sync"}
  BY <1>0, <1>1, InCall DEF CallsInv, CallOK
<1>4. /\ call'[t] = [call[t] EXCEPT !.ticks = 0] /\ call'[t] \in CallRecords
      /\ \A u \in Task \ {t} : call'[u] = call[u]
      /\ call' \in [Task -> CallRecords \cup {NoCall}]
  <2>1. PICK c : c = [call[t] EXCEPT !.ticks = 0]
    OBVIOUS
  <2>2. c \in CallRecords
    BY <1>3, <2>1, CallFacts
  <2>3. call' = [call EXCEPT ![t] = c]
    BY <1>1, <2>1
  <2>. QED  BY <1>0, <2>1, <2>2, <2>3 DEF GroupType
<1>5. call'[t].kind = call[t].kind /\ call'[t].request = call[t].request /\ call'[t].ticks = 0
  <2>1. call[t].kind = "wait" => call[t] \in [kind : {"wait"}, bits : SUBSET Bit, request : Wanted, ticks : Ticks]
    BY <1>3 DEF CallRecords
  <2>2. call[t].kind = "sync" =>
          call[t] \in [kind : {"sync"}, bits : SUBSET Bit, request : {r \in Wanted : r.clear /\ r.all}, ticks : Ticks]
    BY <1>3 DEF CallRecords
  <2>. QED  BY <1>3, <1>4, <2>1, <2>2
<1>6. t \notin InList /\ ~xItemValue[t].set
  BY <1>0, <1>1 DEF CallsInv, ItemOK
<1>7. uxEventBits' \subseteq uxEventBits
  BY <1>1 DEF Remaining
<1>8. xItemValue' \in [Task -> [set : BOOLEAN, request : Wanted \cup {{}}, bits : SUBSET Bit]]
  BY <1>0, <1>1 DEF GroupType
<1>9. /\ program' = program /\ exists' = exists /\ ~xItemValue'[t].set
      /\ InList' \ {t} \subseteq InList /\ t \notin InList' /\ ~(call'[t].ticks > 0)
      /\ \A u \in Task \ {t} : call'[u] = call[u] /\ xItemValue'[u] = xItemValue[u]
  BY <1>1, <1>2, <1>4, <1>5, <1>6
<1>. QED  BY <1>1, <1>2, <1>4, <1>5, <1>7, <1>8, <1>9, TestedKeeps

\* It is not met and the call does not wait.
LEMMA FailAtOnceKeeps ==
  ASSUME Inv, NEW t \in Task, FailAtOnce(t)
  PROVE  Inv'
<1>0. CallsInv /\ KernelInv /\ GroupType
  BY DEF Inv, CallsInv
<1>1. /\ t = pxCurrentTCB /\ step[t] = "test" /\ call[t].ticks = 0
      /\ walk' = NoWalk
      /\ call' = call /\ step' = [step EXCEPT ![t] = "resume"]
      /\ UNCHANGED <<program, kernelVars, uxEventBits, xItemValue, exists>>
  BY DEF FailAtOnce, At, AtCall, Goto
<1>2. /\ KernelInv' /\ InList' = InList /\ pxCurrentTCB' = pxCurrentTCB
      /\ uxSchedulerSuspended' = uxSchedulerSuspended
  BY <1>0, <1>1, GroupAlone
<1>3. call[t] \in CallRecords
  BY <1>0, <1>1, InCall
<1>4. t \notin InList /\ ~xItemValue[t].set
  BY <1>0, <1>1 DEF CallsInv, ItemOK
<1>5. /\ xItemValue' \in [Task -> [set : BOOLEAN, request : Wanted \cup {{}}, bits : SUBSET Bit]]
      /\ call' \in [Task -> CallRecords \cup {NoCall}]
  BY <1>0, <1>1 DEF GroupType
<1>6. /\ program' = program /\ exists' = exists /\ ~xItemValue'[t].set
      /\ uxEventBits' \subseteq uxEventBits /\ call'[t] = call[t]
      /\ InList' \ {t} \subseteq InList /\ t \notin InList' /\ ~(call'[t].ticks > 0)
      /\ \A u \in Task \ {t} : call'[u] = call[u] /\ xItemValue'[u] = xItemValue[u]
  BY <1>1, <1>2, <1>4
<1>. QED  BY <1>1, <1>2, <1>3, <1>5, <1>6, TestedKeeps

\* It is not met and the task goes to sleep.
LEMMA BlockKeeps ==
  ASSUME Inv, NEW t \in Task, Block(t)
  PROVE  Inv'
<1>0. CallsInv /\ WalkInv /\ KernelInv /\ GroupType
  BY DEF Inv, CallsInv
<1>1. /\ t = pxCurrentTCB /\ step[t] = "test" /\ call[t].ticks > 0
      /\ ~prvTestWaitCondition(call[t].request, Judged(t))
      /\ PlaceOnUnorderedEventList(t, xTasksWaitingForBits, call[t].ticks)
      /\ xItemValue' = [xItemValue EXCEPT ![t] =
                          [set |-> FALSE, request |-> call[t].request, bits |-> {}]]
      /\ walk' = NoWalk
      /\ call' = call /\ step' = [step EXCEPT ![t] = "resume"]
      /\ UNCHANGED <<program, uxEventBits, exists>>
  BY DEF Block, At, AtCall, Goto, ConditionMet
<1>2. call[t] \in CallRecords /\ call[t].kind \in {"wait", "sync"}
  BY <1>0, <1>1, InCall DEF CallsInv, CallOK
<1>3. call[t].request \in Wanted /\ call[t].ticks \in 1 .. portMAX_DELAY
  <2>1. call[t].request \in Wanted /\ call[t].ticks \in Ticks
    BY <1>2, CallFacts
  <2>. QED  BY <1>1, <2>1, TickNumbers
<1>4. /\ KernelInv' /\ InList' = InList \cup {t} /\ pxCurrentTCB' = pxCurrentTCB
      /\ uxSchedulerSuspended' = uxSchedulerSuspended
  BY <1>0, <1>1, <1>3, PlaceInList
<1>5. ~prvTestWaitCondition(call[t].request, uxEventBits')
  BY <1>0, <1>1, ShownBits, MoreBits
<1>6. /\ xItemValue'[t] = [set |-> FALSE, request |-> call[t].request, bits |-> {}]
      /\ \A u \in Task \ {t} : xItemValue'[u] = xItemValue[u]
      /\ xItemValue' \in [Task -> [set : BOOLEAN, request : Wanted \cup {{}}, bits : SUBSET Bit]]
      /\ call' \in [Task -> CallRecords \cup {NoCall}]
  BY <1>0, <1>1, <1>3 DEF GroupType
<1>. QED  BY <1>1, <1>2, <1>4, <1>5, <1>6, TestedKeeps

\* The scheduler runs again; a task that sleeps goes on when it is woken.
LEMMA ResumeAfterTestKeeps ==
  ASSUME Inv, NEW t \in Task, ResumeAfterTest(t)
  PROVE  Inv'
<1>0. CallsInv /\ WalkInv /\ TestInv /\ LeaveInv /\ KernelInv /\ GroupType
  BY DEF Inv, CallsInv
<1>1. /\ t = pxCurrentTCB /\ step[t] = "resume" /\ ResumeAll(t)
      /\ UNCHANGED <<program, uxEventBits, xItemValue, walk, exists>>
  BY DEF ResumeAfterTest, At, AtCall
<1>2. /\ KernelInv' /\ InList' = InList /\ pxCurrentTCB' = pxCurrentTCB
      /\ uxSchedulerSuspended' = uxSchedulerSuspended - 1
  BY <1>0, <1>1, ResumeList
<1>3. /\ uxSchedulerSuspended = 1 /\ ItemOK(t) /\ ~xItemValue[t].set
      /\ call[t].kind \in {"wait", "sync"} /\ (t \in InList <=> call[t].ticks > 0)
  BY <1>0, <1>1 DEF CallsInv, CallOK, ItemOK, DepthOK, Depth, Unlocked, Nested
<1>4. PICK s \in {"none", "item"}, c \in {call[t], NoCall} :
        /\ step' = [step EXCEPT ![t] = s] /\ call' = [call EXCEPT ![t] = c]
        /\ IF s = "item" THEN c = call[t] ELSE c = NoCall /\ ~(call[t].ticks > 0)
  <2>1. CASE call[t].ticks > 0
    BY <1>0, <2>1 DEF ResumeAfterTest, Goto, GroupType
  <2>2. CASE ~(call[t].ticks > 0)
    BY <1>0, <2>2 DEF ResumeAfterTest, Return
  <2>. QED  BY <2>1, <2>2
<1>5. /\ step'[t] = s /\ call'[t] = c
      /\ \A u \in Task \ {t} : step'[u] = step[u] /\ call'[u] = call[u]
  BY <1>0, <1>4 DEF GroupType
<1>6. call[t] # NoCall
  BY <1>0, <1>1, InCall, CallFacts
<1>7. CallsInv'
  <2>1. GroupType'
    BY <1>0, <1>1, <1>4 DEF GroupType, Steps
  <2>2. DepthOK'
    BY <1>1, <1>2, <1>3, <1>5 DEF DepthOK, Depth, Unlocked, Nested
  <2>3. CallOK(t)' /\ ItemOK(t)'
    <3>1. CASE s = "item"
      <4>1. step'[t] = "item" /\ call'[t] = call[t] /\ call'[t] # NoCall
        BY <1>4, <1>5, <1>6, <3>1
      <4>. QED  BY <1>1, <1>2, <1>3, <4>1 DEF CallOK, ItemOK, Unlocked, Nested
    <3>2. CASE s # "item"
      <4>1. step'[t] = "none" /\ call'[t] = NoCall /\ t \notin InList'
        BY <1>2, <1>3, <1>4, <1>5, <3>2
      <4>. QED  BY <1>1, <1>2, <1>3, <4>1 DEF CallOK, ItemOK, Unlocked, Nested
    <3>. QED  BY <3>1, <3>2
  <2>. QED  BY <1>0, <1>1, <1>2, <1>5, <2>1, <2>2, <2>3, OthersStay DEF CallsInv
<1>8. ~Walks /\ ~Drains /\ walk = NoWalk /\ Shown = uxEventBits
  BY <1>0, <1>1 DEF Walks, Drains, Shown, WalkInv
<1>9. WalkInv' /\ Shown' = uxEventBits' /\ (InList \ ToSet(walk.rest))' = InList'
  <2>1. ~Walks' /\ step'[pxCurrentTCB'] # "walk"
    BY <1>1, <1>2, <1>5 DEF Walks
  <2>. QED  BY <1>1, <1>8, <2>1, NoWalkLeft
<1>10. TestInv'
  <2>1. ToSet(walk.rest) = {}
    BY <1>8, EmptySet DEF NoWalk
  <2>2. \A u \in InList : call'[u] = call[u]
    BY <1>0, <1>3, <1>4, <1>5, ListFacts
  <2>. QED  BY <1>0, <1>1, <1>2, <1>8, <1>9, <2>1, <2>2 DEF TestInv
<1>11. LeaveInv'
  BY <1>0, <1>1, <1>2, <1>3, <1>5 DEF LeaveInv, Drains
<1>. QED  BY <1>7, <1>9, <1>10, <1>11 DEF Inv

\* A step outside the walks: nobody's wait begins, and the bits only become fewer.
LEMMA QuietKeeps ==
  ASSUME Inv, NEW t \in Task, t = pxCurrentTCB, step[t] \in Unlocked,
         KernelInv', pxCurrentTCB' = pxCurrentTCB,
         uxSchedulerSuspended' = 0 \/ (step'[t] = "none" /\ uxSchedulerSuspended' = 1),
         NEW s \in Unlocked, step' = [step EXCEPT ![t] = s],
         NEW c, call' = [call EXCEPT ![t] = c],
         IF s = "none" THEN c = NoCall ELSE c = call[t] /\ step[t] # "none",
         \A u \in Task \ {t} : xItemValue'[u] = xItemValue[u],
         xItemValue' \in [Task -> [set : BOOLEAN, request : Wanted \cup {{}}, bits : SUBSET Bit]],
         ~xItemValue'[t].set, t \notin InList, s # "none" => ~xItemValue[t].set,
         walk' = walk, uxEventBits' \subseteq uxEventBits, program' = program,
         exists' \in BOOLEAN, exists' = TRUE \/ exists' = exists, InList' \subseteq InList
  PROVE  Inv'
<1>0. CallsInv /\ WalkInv /\ TestInv /\ LeaveInv /\ KernelInv /\ GroupType
  BY DEF Inv, CallsInv
<1>1. /\ step'[t] = s /\ call'[t] = c
      /\ \A u \in Task \ {t} : step'[u] = step[u] /\ call'[u] = call[u]
  BY <1>0 DEF GroupType
<1>2. /\ walk = NoWalk /\ ~Walks /\ ~Drains /\ Shown = uxEventBits
      /\ InList \ ToSet(walk.rest) = InList
  BY <1>0, Running
<1>3. step[t] # "none" => call[t] # NoCall /\ call[t].kind \in {"wait", "sync"}
  BY <1>0, InCall, CallFacts DEF CallsInv, CallOK, Unlocked
<1>4. CallsInv'
  <2>1. GroupType'
    BY <1>0 DEF GroupType, Steps, Unlocked
  <2>2. DepthOK'
    BY <1>1 DEF DepthOK, Depth
  <2>3. CallOK(t)' /\ ItemOK(t)'
    BY <1>1, <1>3 DEF CallOK, ItemOK, Unlocked, Nested
  <2>. QED  BY <1>0, <1>1, <2>1, <2>2, <2>3, OthersStay DEF CallsInv
<1>5. WalkInv' /\ Shown' = uxEventBits' /\ (InList \ ToSet(walk.rest))' = InList'
  <2>1. ~Walks' /\ step'[pxCurrentTCB'] # "walk"
    BY <1>1 DEF Walks, Unlocked
  <2>. QED  BY <1>2, <2>1, NoWalkLeft
<1>6. TestInv'
  <2>1. \A u \in InList' : ~prvTestWaitCondition(call[u].request, uxEventBits')
    BY <1>0, <1>2, FewerBits
  <2>2. \A u \in InList' : call'[u] = call[u]
    BY <1>0, <1>1, ListFacts
  <2>. QED  BY <1>5, <2>1, <2>2 DEF TestInv
<1>7. LeaveInv'
  <2>1. ~Drains'
    BY <1>1 DEF Drains, Unlocked
  <2>2. ~exists' => ~exists /\ s = "none"
    BY <1>0, <1>1 DEF LeaveInv
  <2>. QED  BY <1>0, <1>1, <2>1, <2>2 DEF LeaveInv
<1>. QED  BY <1>4, <1>5, <1>6, <1>7 DEF Inv

\* A task that is awake, and makes a step of its own, is in no list.
LEMMA AwakeCaller ==
  ASSUME Inv, NEW t \in Task, NEW s \in Unlocked, At(t, s), uxSchedulerSuspended = 0
  PROVE  t = pxCurrentTCB /\ step[t] = s /\ t \notin InList
BY ListFacts DEF At, AtCall, Inv, CallsInv

\* The woken task reads what it was told, or finds that its time was up.
LEMMA ReadItemKeeps ==
  ASSUME Inv, NEW t \in Task, ReadItem(t)
  PROVE  Inv'
<1>0. CallsInv /\ KernelInv /\ GroupType
  BY DEF Inv, CallsInv
<1>1. /\ t = pxCurrentTCB /\ step[t] = "item" /\ ResetEventItemValue(t) /\ state[t] = "ready"
      /\ xItemValue' = [xItemValue EXCEPT ![t] = NoItem]
      /\ UNCHANGED <<program, uxEventBits, walk, exists>>
  BY DEF ReadItem, At, AtCall, ResetEventItemValue
<1>2. /\ KernelInv' /\ InList' = InList /\ pxCurrentTCB' = pxCurrentTCB
      /\ uxSchedulerSuspended' = uxSchedulerSuspended
  BY <1>0, <1>1, ResetInList
<1>3. uxSchedulerSuspended = 0 /\ t \notin InList
  BY <1>0, <1>1, ListFacts DEF CallsInv, DepthOK, Depth, Unlocked
<1>4. PICK s \in {"none", "late"}, c \in {call[t], NoCall} :
        /\ step' = [step EXCEPT ![t] = s] /\ call' = [call EXCEPT ![t] = c]
        /\ IF s = "none" THEN c = NoCall ELSE c = call[t] /\ ~xItemValue[t].set
  <2>1. CASE TimedOut(t)
    BY <1>0, <2>1 DEF ReadItem, TimedOut, Goto, GroupType
  <2>2. CASE ~TimedOut(t)
    BY <2>2 DEF ReadItem, Return
  <2>. QED  BY <2>1, <2>2
<1>5. /\ xItemValue'[t] = NoItem /\ ~xItemValue'[t].set
      /\ \A u \in Task \ {t} : xItemValue'[u] = xItemValue[u]
      /\ xItemValue' \in [Task -> [set : BOOLEAN, request : Wanted \cup {{}}, bits : SUBSET Bit]]
  BY <1>0, <1>1 DEF GroupType, NoItem
<1>6. /\ uxSchedulerSuspended' = 0 /\ InList' \subseteq InList /\ uxEventBits' \subseteq uxEventBits
      /\ program' = program /\ exists' = exists /\ walk' = walk
      /\ exists' \in BOOLEAN /\ step[t] \in Unlocked /\ step[t] # "none" /\ s \in Unlocked
      /\ (s # "none" => ~xItemValue[t].set) /\ (IF s = "none" THEN c = NoCall ELSE c = call[t])
  BY <1>0, <1>1, <1>2, <1>3, <1>4 DEF Unlocked, GroupType
<1>7. CASE s = "none"
  <2>1. step' = [step EXCEPT ![t] = "none"] /\ call' = [call EXCEPT ![t] = NoCall]
    BY <1>4, <1>7
  <2>. QED  BY <1>1, <1>2, <1>3, <1>5, <1>6, <1>7, <2>1, QuietKeeps
<1>8. CASE s = "late"
  <2>1. step' = [step EXCEPT ![t] = "late"] /\ call' = [call EXCEPT ![t] = call[t]]
    BY <1>4, <1>8
  <2>. QED  BY <1>1, <1>2, <1>3, <1>5, <1>6, <1>8, <2>1, QuietKeeps
<1>. QED  BY <1>4, <1>7, <1>8

\* A wait that is over by timeout looks at the bits once more.
LEMMA LookAgainKeeps ==
  ASSUME Inv, NEW t \in Task, LookAgain(t)
  PROVE  Inv'
<1>0. CallsInv /\ WalkInv /\ KernelInv /\ GroupType
  BY DEF Inv, CallsInv
<1>1. /\ t = pxCurrentTCB /\ step[t] = "late"
      /\ step' = [step EXCEPT ![t] = "none"] /\ call' = [call EXCEPT ![t] = NoCall]
      /\ UNCHANGED <<program, kernelVars, xItemValue, walk, exists>>
  BY DEF LookAgain, At, AtCall, Return
<1>2. /\ KernelInv' /\ InList' = InList /\ pxCurrentTCB' = pxCurrentTCB
      /\ uxSchedulerSuspended' = uxSchedulerSuspended
  BY <1>0, <1>1, GroupAlone
<1>3. uxSchedulerSuspended = 0 /\ t \notin InList /\ ~xItemValue[t].set
  BY <1>0, <1>1 DEF CallsInv, ItemOK, DepthOK, Depth, Unlocked
<1>4. uxEventBits' \subseteq uxEventBits
  BY DEF LookAgain, Remaining
<1>5. /\ uxSchedulerSuspended' = 0 /\ InList' \subseteq InList
      /\ program' = program /\ exists' = exists /\ walk' = walk /\ xItemValue' = xItemValue
      /\ exists' \in BOOLEAN /\ step[t] \in Unlocked /\ "none" \in Unlocked
      /\ xItemValue' \in [Task -> [set : BOOLEAN, request : Wanted \cup {{}}, bits : SUBSET Bit]]
  BY <1>0, <1>1, <1>2, <1>3 DEF Unlocked, GroupType
<1>6. ~xItemValue'[t].set /\ \A u \in Task \ {t} : xItemValue'[u] = xItemValue[u]
  BY <1>3, <1>5
<1>. QED  BY <1>1, <1>2, <1>3, <1>4, <1>5, <1>6, QuietKeeps

\* What a task does between its calls.
LEMMA BetweenKeeps ==
  ASSUME Inv, NEW t \in Task, t = pxCurrentTCB, step[t] = "none", t \notin InList,
         KernelInv', pxCurrentTCB' = pxCurrentTCB,
         uxSchedulerSuspended' \in {0, 1}, InList' \subseteq InList,
         UNCHANGED <<program, xItemValue, call, step, walk>>,
         exists' \in BOOLEAN, exists' = TRUE \/ exists' = exists, uxEventBits' \subseteq uxEventBits
  PROVE  Inv'
<1>0. CallsInv /\ GroupType
  BY DEF Inv, CallsInv
<1>1. call[t] = NoCall /\ ~xItemValue[t].set
  BY <1>0 DEF CallsInv, CallOK, ItemOK
<1>2. step' = [step EXCEPT ![t] = "none"] /\ call' = [call EXCEPT ![t] = NoCall]
  BY <1>0, <1>1 DEF GroupType
<1>3. /\ program' = program /\ walk' = walk /\ xItemValue' = xItemValue
      /\ step'[t] = "none" /\ step[t] \in Unlocked /\ "none" \in Unlocked
      /\ xItemValue' \in [Task -> [set : BOOLEAN, request : Wanted \cup {{}}, bits : SUBSET Bit]]
      /\ uxSchedulerSuspended' = 0 \/ uxSchedulerSuspended' = 1
  BY <1>0 DEF Unlocked, GroupType
<1>4. ~xItemValue'[t].set /\ \A u \in Task \ {t} : xItemValue'[u] = xItemValue[u]
  BY <1>1, <1>3
<1>. QED  BY <1>1, <1>2, <1>3, <1>4, QuietKeeps

\* A task that is between its calls while the scheduler runs.
LEMMA BetweenFacts ==
  ASSUME Inv, NEW t \in Task, Between(t)
  PROVE  t = pxCurrentTCB /\ step[t] = "none" /\ t \notin InList /\ uxSchedulerSuspended = 0
BY ListFacts DEF Between, At, AtCall, Inv, CallsInv

\* xEventGroupClearBits
LEMMA ClearBitsKeeps ==
  ASSUME Inv, NEW t \in Task, NEW c, xEventGroupClearBits(t, c)
  PROVE  Inv'
<1>1. /\ Between(t) /\ uxEventBits' \subseteq uxEventBits
      /\ UNCHANGED <<program, kernelVars, xItemValue, call, step, walk, exists>>
  BY DEF xEventGroupClearBits
<1>2. KernelInv' /\ InList' = InList /\ pxCurrentTCB' = pxCurrentTCB
      /\ uxSchedulerSuspended' = uxSchedulerSuspended
  BY <1>1, GroupAlone DEF Inv, CallsInv
<1>3. exists \in BOOLEAN
  BY DEF Inv, CallsInv, GroupType
<1>. QED  BY <1>1, <1>2, <1>3, BetweenFacts, BetweenKeeps

\* xEventGroupCreate
LEMMA CreateKeeps ==
  ASSUME Inv, NEW t \in Task, xEventGroupCreate(t)
  PROVE  Inv'
<1>1. /\ Between(t) /\ uxEventBits' \subseteq uxEventBits /\ exists' = TRUE
      /\ UNCHANGED <<program, kernelVars, xItemValue, call, step, walk>>
  BY DEF xEventGroupCreate
<1>2. KernelInv' /\ InList' = InList /\ pxCurrentTCB' = pxCurrentTCB
      /\ uxSchedulerSuspended' = uxSchedulerSuspended
  BY <1>1, GroupAlone DEF Inv, CallsInv
<1>. QED  BY <1>1, <1>2, BetweenFacts, BetweenKeeps

\* xTaskAbortDelay, vTaskDelay and the end of their suspension.
LEMMA AbortKeeps ==
  ASSUME Inv, NEW t \in Task, NEW u \in Task, xTaskAbortDelay(t, u)
  PROVE  Inv'
<1>1. Between(t) /\ AbortDelay(t, u) /\ UNCHANGED <<program, groupVars>>
  BY DEF xTaskAbortDelay
<1>2. KernelInv' /\ InList' \subseteq InList /\ pxCurrentTCB' = pxCurrentTCB
      /\ uxSchedulerSuspended' = uxSchedulerSuspended + 1
  BY <1>1, AbortInList DEF Inv, CallsInv
<1>3. exists \in BOOLEAN
  BY DEF Inv, CallsInv, GroupType
<1>. QED  BY <1>1, <1>2, <1>3, BetweenFacts, BetweenKeeps DEF groupVars

\* vTaskDelay, which suspends the scheduler and sleeps.
LEMMA DelayKeeps ==
  ASSUME Inv, NEW t \in Task, vTaskDelay(t)
  PROVE  Inv'
<1>1. Between(t) /\ Delay(t, 1) /\ UNCHANGED <<program, groupVars>>
  BY DEF vTaskDelay
<1>2. KernelInv' /\ InList' = InList /\ pxCurrentTCB' = pxCurrentTCB
      /\ uxSchedulerSuspended' = uxSchedulerSuspended + 1
  BY <1>1, TickNumbers, DelayOutsideList DEF Inv, CallsInv
<1>3. exists \in BOOLEAN
  BY DEF Inv, CallsInv, GroupType
<1>. QED  BY <1>1, <1>2, <1>3, BetweenFacts, BetweenKeeps DEF groupVars

\* The xTaskResumeAll behind a delay, an abort or a deletion.
LEMMA ResumeSchedulerKeeps ==
  ASSUME Inv, NEW t \in Task, ResumeScheduler(t)
  PROVE  Inv'
<1>1. /\ t = pxCurrentTCB /\ step[t] = "none" /\ ResumeAll(t)
      /\ UNCHANGED <<program, groupVars>> /\ uxSchedulerSuspended > 0
  BY DEF ResumeScheduler, At, AtCall, ResumeAll
<1>2. KernelInv' /\ InList' = InList /\ pxCurrentTCB' = pxCurrentTCB
      /\ uxSchedulerSuspended' = uxSchedulerSuspended - 1
  BY <1>1, ResumeList DEF Inv, CallsInv
<1>3. exists \in BOOLEAN /\ uxSchedulerSuspended = 1 /\ t \notin InList
  BY <1>1 DEF Inv, CallsInv, GroupType, DepthOK, Depth, Unlocked, ItemOK
<1>. QED  BY <1>1, <1>2, <1>3, BetweenKeeps DEF groupVars

\* A deletion wakes the waiters one by one ...
LEMMA DrainKeeps ==
  ASSUME Inv, NEW t \in Task, Drain(t)
  PROVE  Inv'
<1>0. CallsInv /\ WalkInv /\ TestInv /\ LeaveInv /\ KernelInv /\ GroupType
  BY DEF Inv, CallsInv
<1>1. PICK u : u = Head(Waiters)
  OBVIOUS
<1>2. /\ t = pxCurrentTCB /\ step[t] = "drain" /\ Waiters # <<>>
      /\ xItemValue' = [xItemValue EXCEPT ![u] = ZeroForDeleted]
      /\ RemoveFromUnorderedEventList(t, u, xTasksWaitingForBits)
      /\ walk' = [walk EXCEPT !.before = uxEventBits, !.woken = @ \cup {u}, !.active = TRUE]
      /\ call' = call /\ step' = [step EXCEPT ![t] = "drain"]
      /\ UNCHANGED <<program, uxEventBits, exists>>
  BY <1>1 DEF Drain, At, AtCall, Goto
<1>3. u \in InList /\ u \in Task
  BY <1>0, <1>1, <1>2, ListFacts, HeadAndRest
<1>4. u # t /\ step[u] = "item" /\ ~xItemValue[u].set
  BY <1>0, <1>2, <1>3 DEF CallsInv, ItemOK, CallOK, Unlocked
<1>5. /\ KernelInv' /\ InList' = InList \ {u} /\ pxCurrentTCB' = pxCurrentTCB
      /\ uxSchedulerSuspended' = uxSchedulerSuspended
  BY <1>0, <1>2, <1>3, RemoveFromList
<1>6. step' = step
  BY <1>0, <1>2 DEF GroupType
<1>7. /\ walk'.before = uxEventBits /\ walk'.active = TRUE
      /\ walk'.rest = walk.rest /\ walk'.woken = walk.woken \cup {u}
      /\ walk' \in [before : SUBSET Bit, rest : Seq(Task), uxBitsToClear : SUBSET Bit,
                    woken : SUBSET Task, active : BOOLEAN]
  BY <1>0, <1>2, <1>3 DEF GroupType
<1>8. /\ xItemValue'[u] = ZeroForDeleted
      /\ \A v \in Task \ {u} : xItemValue'[v] = xItemValue[v]
      /\ xItemValue' \in [Task -> [set : BOOLEAN, request : Wanted \cup {{}}, bits : SUBSET Bit]]
  BY <1>0, <1>2, <1>3 DEF GroupType, ZeroForDeleted
<1>9. ZeroForDeleted.set /\ ZeroForDeleted.bits = {}
  BY DEF ZeroForDeleted
<1>10. CallsInv'
  <2>1. GroupType'
    BY <1>0, <1>2, <1>6, <1>7, <1>8 DEF GroupType
  <2>2. DepthOK'
    BY <1>0, <1>2, <1>5, <1>6 DEF CallsInv, DepthOK, Depth
  <2>3. ASSUME NEW v \in Task PROVE CallOK(v)' /\ ItemOK(v)'
    <3>1. CallOK(v) /\ ItemOK(v)
      BY <1>0 DEF CallsInv
    <3>2. CallOK(v)'
      BY <1>2, <1>4, <1>5, <1>6, <3>1 DEF CallOK, Unlocked
    <3>3. CASE v = u
      BY <1>2, <1>4, <1>5, <1>6, <1>8, <3>2, <3>3 DEF ItemOK
    <3>4. CASE v # u
      BY <1>2, <1>5, <1>6, <1>8, <3>1, <3>2, <3>4 DEF ItemOK
    <3>. QED  BY <3>3, <3>4
  <2>. QED  BY <1>5, <2>1, <2>2, <2>3 DEF CallsInv
<1>11. Drains /\ Drains' /\ ~Walks /\ ~Walks' /\ Shown' = Shown /\ walk.rest = <<>>
  BY <1>0, <1>2, <1>5, <1>6 DEF Walks, Drains, Shown, WalkInv
<1>12. \A v \in walk'.woken : ReleasedOK(v)'
  <2>. SUFFICES ASSUME NEW v \in walk'.woken PROVE ReleasedOK(v)'
    OBVIOUS
  <2>1. CASE v = u
    BY <1>2, <1>3, <1>4, <1>5, <1>6, <1>8, <1>9, <1>11, <2>1 DEF ReleasedOK
  <2>2. CASE v # u
    <3>1. v \in Task /\ ReleasedOK(v)
      BY <1>0, <1>7, <2>2 DEF WalkInv, GroupType
    <3>. QED  BY <1>2, <1>5, <1>6, <1>8, <1>11, <2>2, <3>1 DEF ReleasedOK
  <2>. QED  BY <2>1, <2>2
<1>13. WalkInv'
  <2>1. IsInjective(walk'.rest) /\ ToSet(walk'.rest) \subseteq InList' /\ walk'.rest = <<>>
    BY <1>7, <1>11, EmptySet
  <2>2. walk'.before = uxEventBits' /\ step'[pxCurrentTCB'] # "walk"
    BY <1>2, <1>5, <1>6, <1>7
  <2>. QED  BY <1>7, <1>11, <1>12, <2>1, <2>2 DEF WalkInv
<1>14. TestInv'
  <2>1. (InList \ ToSet(walk.rest))' \subseteq InList \ ToSet(walk.rest)
    BY <1>5, <1>7
  <2>. QED  BY <1>0, <1>2, <1>11, <2>1 DEF TestInv
<1>15. LeaveInv'
  <2>1. \A v \in Task \ {t} : step'[v] = "none" \/ v \in InList' \/ xItemValue'[v].set
    BY <1>0, <1>2, <1>3, <1>5, <1>6, <1>8, <1>9, <1>11 DEF LeaveInv
  <2>2. ~exists' => FALSE
    BY <1>0, <1>2, <1>3 DEF LeaveInv
  <2>. QED  BY <1>2, <1>5, <2>1, <2>2 DEF LeaveInv
<1>. QED  BY <1>10, <1>13, <1>14, <1>15 DEF Inv

\* ... and frees the group when nobody waits any more.
LEMMA EndDrainKeeps ==
  ASSUME Inv, NEW t \in Task, EndDrain(t)
  PROVE  Inv'
<1>0. CallsInv /\ WalkInv /\ TestInv /\ LeaveInv /\ KernelInv /\ GroupType
  BY DEF Inv, CallsInv
<1>1. /\ t = pxCurrentTCB /\ step[t] = "drain" /\ Waiters = <<>>
      /\ exists' = FALSE /\ uxEventBits' = {} /\ walk' = NoWalk
      /\ step' = [step EXCEPT ![t] = "none"] /\ call' = [call EXCEPT ![t] = NoCall]
      /\ UNCHANGED <<program, kernelVars, xItemValue>>
  BY DEF EndDrain, At, AtCall, Return
<1>2. /\ KernelInv' /\ InList' = InList /\ pxCurrentTCB' = pxCurrentTCB
      /\ uxSchedulerSuspended' = uxSchedulerSuspended
  BY <1>0, <1>1, GroupAlone
<1>3. /\ step'[t] = "none" /\ call'[t] = NoCall
      /\ \A u \in Task \ {t} : step'[u] = step[u] /\ call'[u] = call[u]
  BY <1>0, <1>1 DEF GroupType
<1>4. InList = {} /\ ~xItemValue[t].set /\ uxSchedulerSuspended = 1
  BY <1>0, <1>1, ListFacts DEF CallsInv, ItemOK, DepthOK, Depth, Unlocked, Nested
<1>5. CallsInv'
  <2>1. GroupType'
    <3>1. NoWalk \in [before : SUBSET Bit, rest : Seq(Task), uxBitsToClear : SUBSET Bit,
                      woken : SUBSET Task, active : BOOLEAN]
      BY DEF NoWalk
    <3>. QED  BY <1>0, <1>1, <3>1 DEF GroupType, Steps
  <2>2. DepthOK'
    BY <1>1, <1>2, <1>3, <1>4 DEF DepthOK
  <2>3. CallOK(t)' /\ ItemOK(t)'
    BY <1>1, <1>2, <1>3, <1>4 DEF CallOK, ItemOK, Unlocked, Nested
  <2>. QED  BY <1>0, <1>1, <1>2, <1>3, <2>1, <2>2, <2>3, OthersStay DEF CallsInv
<1>6. WalkInv' /\ (InList \ ToSet(walk.rest))' = InList'
  <2>1. ~Walks' /\ step'[pxCurrentTCB'] # "walk"
    BY <1>1, <1>2, <1>3 DEF Walks
  <2>. QED  BY <1>1, <2>1, NoWalkLeft
<1>7. TestInv'
  BY <1>2, <1>4, <1>6 DEF TestInv
<1>8. LeaveInv'
  BY <1>0, <1>1, <1>2, <1>3, <1>4 DEF LeaveInv, Drains
<1>. QED  BY <1>5, <1>6, <1>7, <1>8 DEF Inv

\* A switch, and a tick that wakes those who are due.
LEMMA EventSchedulerKeeps ==
  ASSUME Inv, Scheduler
  PROVE  Inv'
<1>0. CallsInv /\ WalkInv /\ TestInv /\ LeaveInv /\ KernelInv /\ GroupType
  BY DEF Inv, CallsInv
<1>1. /\ KernelInv' /\ InList' \subseteq InList /\ pxCurrentTCB' \in Task
      /\ uxSchedulerSuspended = 0 /\ uxSchedulerSuspended' = 0
  BY <1>0, SwitchInList, TickInList, ListFacts DEF Scheduler
<1>2. /\ program' = program /\ uxEventBits' = uxEventBits /\ xItemValue' = xItemValue
      /\ call' = call /\ step' = step /\ walk' = walk /\ exists' = exists
  BY DEF Scheduler, groupVars
<1>3. /\ \A u \in Task : step[u] \in Unlocked
      /\ walk = NoWalk /\ ~Walks /\ ~Drains /\ Shown = uxEventBits
      /\ InList \ ToSet(walk.rest) = InList
  BY <1>0, <1>1, Running
<1>4. step[pxCurrentTCB'] \in Unlocked
  BY <1>1, <1>3
<1>5. CallsInv'
  <2>1. GroupType' /\ DepthOK'
    BY <1>0, <1>1, <1>2, <1>4 DEF GroupType, DepthOK, Depth
  <2>2. \A u \in Task : CallOK(u)' /\ ItemOK(u)'
    BY <1>0, <1>1, <1>2, <1>3 DEF CallsInv, CallOK, ItemOK, Unlocked
  <2>. QED  BY <1>1, <2>1, <2>2 DEF CallsInv
<1>6. WalkInv' /\ Shown' = uxEventBits' /\ (InList \ ToSet(walk.rest))' = InList'
  <2>1. ~Walks' /\ step'[pxCurrentTCB'] # "walk"
    BY <1>2, <1>4 DEF Walks, Unlocked
  <2>. QED  BY <1>2, <1>3, <2>1, NoWalkLeft
<1>7. TestInv'
  BY <1>0, <1>1, <1>2, <1>3, <1>6 DEF TestInv
<1>8. LeaveInv'
  BY <1>0, <1>1, <1>2, <1>4 DEF LeaveInv, Drains, Unlocked
<1>. QED  BY <1>5, <1>6, <1>7, <1>8 DEF Inv

\* Nothing happens.
LEMMA EventStutterKeeps ==
  ASSUME Inv, UNCHANGED vars
  PROVE  Inv'
<1>1. KernelInv' /\ InList' = InList /\ pxCurrentTCB' = pxCurrentTCB
      /\ uxSchedulerSuspended' = uxSchedulerSuspended
  BY GroupAlone DEF vars, Inv, CallsInv
<1>2. UNCHANGED <<program, uxEventBits, xItemValue, call, step, walk, exists>>
  BY DEF vars, groupVars
<1>3. Walks' = Walks /\ Drains' = Drains /\ Shown' = Shown
  BY <1>1, <1>2 DEF Walks, Drains, Shown
<1>4. CallsInv'
  BY <1>1, <1>2 DEF Inv, CallsInv, GroupType, DepthOK, Depth, CallOK, ItemOK
<1>5. WalkInv'
  BY <1>1, <1>2, <1>3 DEF Inv, WalkInv, ReleasedOK
<1>6. TestInv' /\ LeaveInv'
  BY <1>1, <1>2, <1>3 DEF Inv, TestInv, LeaveInv
<1>. QED  BY <1>4, <1>5, <1>6 DEF Inv

\* Every step of a call keeps the invariant.
LEMMA GroupStepKeeps ==
  ASSUME Inv, NEW t \in Task, CallStep(t)
  PROVE  Inv'
<1>1. CASE \E c \in program[t] : xEventGroupSetBits(t, c)
  BY <1>1, EnterKeeps DEF xEventGroupSetBits
<1>2. CASE \E c \in program[t] : xEventGroupWaitBits(t, c)
  BY <1>2, EnterKeeps DEF xEventGroupWaitBits
<1>3. CASE \E c \in program[t] : xEventGroupSync(t, c)
  BY <1>3, EnterKeeps DEF xEventGroupSync
<1>4. CASE \E c \in program[t] : vEventGroupDelete(t, c)
  <2>1. PICK c \in program[t] : vEventGroupDelete(t, c)
    BY <1>4
  <2>2. \A u \in Task \ {t} : step[u] = "none" \/ u \in InList \/ xItemValue[u].set
    BY <2>1, ListFacts DEF vEventGroupDelete, Inv, CallsInv
  <2>. QED  BY <2>1, <2>2, EnterKeeps DEF vEventGroupDelete
<1>5. CASE \E c \in program[t] : xEventGroupClearBits(t, c)
  BY <1>5, ClearBitsKeeps
<1>6. CASE \/ SetInSync(t) \/ SetBits(t) \/ WakeMatching(t) \/ PassOver(t) \/ EndWalk(t)
           \/ ResumeAfterSet(t)
  BY <1>6, SetInSyncKeeps, SetBitsKeeps, WakeMatchingKeeps, PassOverKeeps, EndWalkKeeps,
     ResumeAfterSetKeeps
<1>7. CASE \/ TakeAtOnce(t) \/ FailAtOnce(t) \/ Block(t) \/ ResumeAfterTest(t)
           \/ ReadItem(t) \/ LookAgain(t)
  BY <1>7, TakeAtOnceKeeps, FailAtOnceKeeps, BlockKeeps, ResumeAfterTestKeeps, ReadItemKeeps,
     LookAgainKeeps
<1>8. CASE \/ Drain(t) \/ EndDrain(t) \/ xEventGroupCreate(t) \/ vTaskDelay(t)
           \/ ResumeScheduler(t) \/ \E u \in Task : xTaskAbortDelay(t, u)
  BY <1>8, DrainKeeps, EndDrainKeeps, CreateKeeps, DelayKeeps, ResumeSchedulerKeeps, AbortKeeps
<1>. QED  BY <1>1, <1>2, <1>3, <1>4, <1>5, <1>6, <1>7, <1>8 DEF CallStep

\* Nobody waits at the start.
LEMMA GroupInit == EventGroupInit => Inv
<1>. SUFFICES ASSUME EventGroupInit PROVE Inv
  OBVIOUS
<1>1. KernelInv /\ InList = {} /\ pxCurrentTCB \in Task /\ uxSchedulerSuspended = 0
  <2>1. Init
    BY DEF EventGroupInit
  <2>2. KernelInv /\ InList = {}
    BY <2>1, KernelInit, OneList DEF InList
  <2>3. uxSchedulerSuspended = 0
    BY <2>1 DEF Init
  <2>. QED  BY <2>2, <2>3, ListFacts
<1>2. /\ program \in Programs /\ uxEventBits = {} /\ exists = TRUE
      /\ xItemValue = [t \in Task |-> NoItem]
      /\ call = [t \in Task |-> NoCall] /\ step = [t \in Task |-> "none"]
      /\ walk = NoWalk
  BY DEF EventGroupInit
<1>3. /\ NoItem \in [set : BOOLEAN, request : Wanted \cup {{}}, bits : SUBSET Bit]
      /\ ~NoItem.set
      /\ NoWalk \in [before : SUBSET Bit, rest : Seq(Task), uxBitsToClear : SUBSET Bit,
                     woken : SUBSET Task, active : BOOLEAN]
      /\ NoWalk.rest = <<>> /\ NoWalk.woken = {} /\ NoWalk.active = FALSE
  BY DEF NoItem, NoWalk
<1>4. GroupType
  BY <1>2, <1>3 DEF GroupType, Steps
<1>5. \A t \in Task : CallOK(t) /\ ItemOK(t)
  BY <1>1, <1>2, <1>3 DEF CallOK, ItemOK, Unlocked, Nested
<1>6. DepthOK
  BY <1>1, <1>2 DEF DepthOK, Depth, Unlocked
<1>7. ~Walks /\ ~Drains
  BY <1>1, <1>2 DEF Walks, Drains
<1>8. WalkInv
  BY <1>1, <1>2, <1>3, <1>7, EmptySet DEF WalkInv
<1>9. TestInv /\ LeaveInv
  BY <1>1, <1>2, <1>7 DEF TestInv, LeaveInv
<1>. QED  BY <1>1, <1>4, <1>5, <1>6, <1>8, <1>9 DEF Inv, CallsInv

\* The invariant is inductive ...
LEMMA GroupStep == Inv /\ [EventGroupNext]_vars => Inv'
BY EventSchedulerKeeps, GroupStepKeeps, EventStutterKeeps DEF EventGroupNext

\* ... and so it holds at all times.
LEMMA GroupAlways == EventGroupSpec => []Inv
BY GroupInit, GroupStep, PTL DEF EventGroupSpec

-----------------------------------------------------------------------------
\* The group, its waiters and the calls agree: when the scheduler runs nobody
\* sleeps on bits that are set, whatever the calls are and however the walks of
\* xEventGroupSetBits interleave with timeouts and aborts; and no call that a
\* deletion has interrupted touches the group again.
THEOREM EventsNotMissed == EventGroupSpec => []EventGroupConsistent
<1>1. Inv => EventGroupConsistent
  <2>. SUFFICES ASSUME Inv PROVE EventGroupConsistent
    OBVIOUS
  <2>0. CallsInv /\ WalkInv /\ TestInv /\ LeaveInv /\ KernelInv /\ GroupType
    BY DEF Inv, CallsInv
  <2>1. EventGroupTypeOK
    <3>1. \A t \in Task : /\ step[t] \in Steps /\ call[t] \in CallRecords \cup {NoCall}
                          /\ xItemValue[t].bits \in SUBSET Bit
      BY <2>0 DEF GroupType
    <3>2. ASSUME NEW t \in Task, Waiting(t)
          PROVE  xItemValue[t].request \in Wanted /\ ~xItemValue[t].set
      <4>1. t \in InList /\ CallOK(t) /\ ItemOK(t)
        BY <2>0, <3>2, ListFacts DEF CallsInv
      <4>2. /\ step[t] \in {"item", "resume"}
            /\ xItemValue[t] = [set |-> FALSE, request |-> call[t].request, bits |-> {}]
        BY <4>1 DEF ItemOK
      <4>3. call[t] \in CallRecords /\ call[t].kind \in {"wait", "sync"}
        BY <2>0, <4>1, <4>2, InCall DEF CallOK
      <4>4. call[t].request \in Wanted
        BY <4>3, CallFacts
      <4>. QED  BY <4>2, <4>4
    <3>3. \A t \in Task : Contains(walk.rest, t) => Waiting(t)
      <4>1. walk.rest \in Seq(Task) /\ ToSet(walk.rest) \subseteq InList
        BY <2>0 DEF GroupType, WalkInv
      <4>. QED  BY <2>0, <4>1, Members, ListFacts
    <3>. QED  BY <2>0, <3>1, <3>2, <3>3 DEF EventGroupTypeOK, GroupType
  <2>2. NoneLeftWaiting
    <3>. SUFFICES ASSUME uxSchedulerSuspended = 0, NEW t \in Task, Waiting(t)
                  PROVE  ~prvTestWaitCondition(xItemValue[t].request, uxEventBits)
      BY DEF NoneLeftWaiting
    <3>1. t \in InList \ ToSet(walk.rest) /\ Shown = uxEventBits
      BY <2>0, Running, ListFacts
    <3>2. xItemValue[t].request = call[t].request
      <4>1. xItemValue[t] = [set |-> FALSE, request |-> call[t].request, bits |-> {}]
        BY <2>0, <3>1 DEF CallsInv, ItemOK
      <4>. QED  BY <4>1
    <3>. QED  BY <2>0, <3>1, <3>2 DEF TestInv
  <2>3. FreedNotTouched
    BY <2>0, ListFacts DEF FreedNotTouched, LeaveInv, CallsInv, ItemOK
  <2>. QED  BY <2>1, <2>2, <2>3 DEF EventGroupConsistent
<1>. QED  BY <1>1, GroupAlways, PTL


-----------------------------------------------------------------------------
(* The refinement of EventFlags *)

\* What EventFlags sees of a task.
Same(t) == Phase(t)' = Phase(t) /\ Wants(t)' = Wants(t) /\ Gets(t)' = Gets(t)

\* A task whose call is where it was.
LEMMA SameTask ==
  ASSUME NEW t, Sleeps(t)' <=> Sleeps(t), step'[t] = step[t], call'[t] = call[t],
         xItemValue'[t] = xItemValue[t]
  PROVE  Same(t)
BY DEF Same, Phase, Wants, Gets, Answered, IsLate

\* A step that EventFlags does not see.
LEMMA FlagsStutter ==
  ASSUME BitsSoFar' = BitsSoFar, \A t \in Task : Same(t)
  PROVE  UNCHANGED Flags!flagsVars
<1>1. \A t \in Task : Phase(t)' = Phase(t) /\ Wants(t)' = Wants(t) /\ Gets(t)' = Gets(t)
  BY DEF Same
<1>. QED  BY <1>1 DEF Flags!flagsVars

\* Those whom the walk has released are those whom the bits it shows serve.
LEMMA WalkServes ==
  ASSUME Inv, Walks, walk.rest = <<>>
  PROVE  /\ Flags!Served(Shown) = walk.woken
         /\ Flags!Left(Shown) = Shown \ walk.uxBitsToClear
         /\ walk.woken \subseteq Task
<1>0. CallsInv /\ WalkInv /\ TestInv /\ KernelInv /\ GroupType
  BY DEF Inv, CallsInv
<1>1. walk.woken \subseteq Task
  BY <1>0 DEF GroupType
<1>2. \A u \in Task : Flags!Holds(call[u].request, Shown) <=> prvTestWaitCondition(call[u].request, Shown)
  BY DEF Flags!Holds, prvTestWaitCondition
<1>3. \A u \in walk.woken : Sleeps(u) /\ prvTestWaitCondition(call[u].request, Shown)
  BY <1>0 DEF WalkInv, ReleasedOK, Sleeps
<1>4. \A u \in Task : Sleeps(u) /\ u \notin walk.woken => ~prvTestWaitCondition(call[u].request, Shown)
  BY <1>0, EmptySet, ListFacts DEF TestInv, Sleeps
<1>5. \A u \in Task : (Phase(u) = "waiting" <=> Sleeps(u)) /\ (Sleeps(u) => Wants(u) = call[u].request)
  BY DEF Phase, Wants
<1>6. Flags!Served(Shown) = walk.woken
  BY <1>1, <1>2, <1>3, <1>4, <1>5 DEF Flags!Served
<1>7. Flags!Left(Shown) = Shown \ UNION {Clears(call[u].request) : u \in walk.woken}
  <2>1. \A u \in walk.woken : Flags!Taken(Wants(u)) = Clears(call[u].request)
    BY <1>1, <1>3, <1>5 DEF Flags!Taken, Clears
  <2>2. Flags!Left(Shown) = Shown \ UNION {Flags!Taken(Wants(u)) : u \in walk.woken}
    BY <1>1, <1>6 DEF Flags!Left
  <2>3. {Flags!Taken(Wants(u)) : u \in walk.woken} = {Clears(call[u].request) : u \in walk.woken}
    BY <2>1
  <2>. QED  BY <2>2, <2>3
<1>. QED  BY <1>0, <1>1, <1>6, <1>7 DEF WalkInv

\* Who sleeps, for EventFlags.
SleepersKnown == \A u \in Task : Sleeps(u) <=> u \in InList \/ u \in walk.woken

\* A task sleeps for EventFlags while it is in the list, or is released by a walk
\* that is not over.
LEMMA SleepersNow == Inv => SleepersKnown
BY ListFacts DEF SleepersKnown, Sleeps, Inv, CallsInv

\* The same of the next state.
LEMMA SleepersNext == Inv' => SleepersKnown'
BY SleepersNow, PTL

\* The running task is in no phase of a wait unless it is at its end.
LEMMA CallerPhase ==
  ASSUME Inv
  PROVE  /\ pxCurrentTCB \in Task /\ pxCurrentTCB \notin walk.woken
         /\ (Walks \/ Drains \/ step[pxCurrentTCB] \notin {"item", "late", "resume"}) =>
              /\ pxCurrentTCB \notin InList /\ Phase(pxCurrentTCB) = "no"
              /\ Wants(pxCurrentTCB) = {} /\ Gets(pxCurrentTCB) = {}
<1>1. CallsInv /\ WalkInv /\ SleepersKnown /\ pxCurrentTCB \in Task
  BY SleepersNow, ListFacts DEF Inv, CallsInv
<1>2. pxCurrentTCB \notin walk.woken
  BY <1>1 DEF WalkInv, ReleasedOK
<1>3. ASSUME Walks \/ Drains \/ step[pxCurrentTCB] \notin {"item", "late", "resume"}
      PROVE  /\ pxCurrentTCB \notin InList /\ Phase(pxCurrentTCB) = "no"
             /\ Wants(pxCurrentTCB) = {} /\ Gets(pxCurrentTCB) = {}
  <2>1. step[pxCurrentTCB] \notin {"item", "late", "resume"}
    BY <1>3 DEF Walks, Drains
  <2>2. pxCurrentTCB \notin InList /\ ~xItemValue[pxCurrentTCB].set
    BY <1>1, <2>1 DEF CallsInv, ItemOK
  <2>3. ~Sleeps(pxCurrentTCB)
    BY <1>1, <1>2, <2>2 DEF SleepersKnown
  <2>. QED  BY <2>1, <2>2, <2>3 DEF Phase, Wants, Gets, Answered, IsLate
<1>. QED  BY <1>1, <1>2, <1>3

\* xEventGroupSetBits is done, for those who wait, when its walk is.
LEMMA EndWalkFlags ==
  ASSUME Inv, Inv', NEW t \in Task, EndWalk(t)
  PROVE  Flags!Next \/ UNCHANGED Flags!flagsVars
<1>0. CallsInv /\ WalkInv /\ KernelInv /\ GroupType /\ SleepersKnown /\ SleepersKnown'
  BY SleepersNow, SleepersNext DEF Inv, CallsInv
<1>1. /\ t = pxCurrentTCB /\ step[t] = "walk" /\ walk.rest = <<>>
      /\ uxEventBits' = uxEventBits \ walk.uxBitsToClear
      /\ walk' = IF call[t].kind = "sync" THEN walk ELSE NoWalk
      /\ call' = call /\ step' = [step EXCEPT ![t] = "setResume"]
      /\ UNCHANGED <<program, kernelVars, xItemValue, exists>>
  BY DEF EndWalk, At, AtCall, Goto
<1>2. /\ InList' = InList /\ pxCurrentTCB' = pxCurrentTCB
  BY <1>0, <1>1, GroupAlone
<1>3. step'[t] = "setResume" /\ \A u \in Task \ {t} : step'[u] = step[u]
  BY <1>0, <1>1 DEF GroupType
<1>4. Walks /\ walk.active /\ BitsSoFar = walk.before /\ uxEventBits = Shown
      /\ Shown = walk.before \cup call[t].bits
  BY <1>0, <1>1 DEF Walks, WalkInv, BitsSoFar, Shown
<1>5. Phase(t) = "no" /\ Wants(t) = {} /\ Gets(t) = {} /\ Phase(t)' = "no" /\ Wants(t)' = {} /\ Gets(t)' = {}
  <2>1. Phase(t) = "no" /\ Wants(t) = {} /\ Gets(t) = {} /\ t \notin InList /\ t \notin walk.woken
    BY <1>1, <1>4, CallerPhase
  <2>2. ~Sleeps(t)' /\ ~xItemValue[t].set
    BY <1>0, <1>1, <1>2, <2>1 DEF SleepersKnown, NoWalk, CallsInv, ItemOK
  <2>. QED  BY <1>1, <1>3, <2>1, <2>2 DEF Phase, Wants, Gets, Answered, IsLate
<1>6. CASE call[t].kind = "sync"
  <2>1. BitsSoFar' = BitsSoFar
    BY <1>1, <1>6, <1>4 DEF BitsSoFar
  <2>2. ASSUME NEW u \in Task PROVE Same(u)
    <3>1. CASE u = t
      BY <1>5, <3>1 DEF Same
    <3>2. CASE u # t
      <4>1. Sleeps(u)' <=> Sleeps(u)
        BY <1>0, <1>1, <1>2, <1>6 DEF SleepersKnown
      <4>. QED  BY <1>1, <1>3, <3>2, <4>1, SameTask
    <3>. QED  BY <3>1, <3>2
  <2>. QED  BY <2>1, <2>2, FlagsStutter
<1>7. CASE call[t].kind # "sync"
  <2>1. BitsSoFar' = uxEventBits' /\ walk'.woken = {}
    BY <1>1, <1>7 DEF BitsSoFar, NoWalk
  <2>2. /\ Flags!Served(Shown) = walk.woken /\ walk.woken \subseteq Task
        /\ Flags!Left(Shown) = Shown \ walk.uxBitsToClear
    BY <1>1, <1>4, WalkServes
  <2>3. ASSUME NEW u \in walk.woken
        PROVE  Phase(u)' = "released" /\ Wants(u)' = {} /\ Gets(u)' = Shown
    <3>1. u \in Task /\ u \notin InList /\ xItemValue[u].set /\ xItemValue[u].bits = Shown
      BY <1>0, <1>4, <2>2 DEF WalkInv, ReleasedOK
    <3>2. ~Sleeps(u)'
      BY <1>0, <1>2, <2>1, <3>1 DEF SleepersKnown
    <3>. QED  BY <1>1, <3>1, <3>2 DEF Phase, Wants, Gets, Answered, IsLate
  <2>4. ASSUME NEW u \in Task \ walk.woken
        PROVE  Same(u)
    <3>1. CASE u = t
      BY <1>5, <3>1 DEF Same
    <3>2. CASE u # t
      <4>1. Sleeps(u)' <=> Sleeps(u)
        BY <1>0, <1>2, <2>1 DEF SleepersKnown
      <4>. QED  BY <1>1, <1>3, <3>2, <4>1, SameTask
    <3>. QED  BY <3>1, <3>2
  <2>5. Flags!Release(walk.woken, Shown)
    BY <2>2, <2>3, <2>4 DEF Flags!Release, Same
  <2>6. call[t].bits \in SUBSET Bit /\ BitsSoFar \cup call[t].bits = Shown
    BY <1>0, <1>4, InCall
  <2>7. Flags!Set(call[t].bits)
    BY <1>1, <1>4, <2>1, <2>2, <2>5, <2>6 DEF Flags!Set
  <2>. QED  BY <2>6, <2>7 DEF Flags!Next
<1>. QED  BY <1>6, <1>7

\* A step of t that changes no wait, and not the bits those who wait know of.
LEMMA Unseen ==
  ASSUME Inv, Inv', NEW t \in Task, BitsSoFar' = BitsSoFar,
         \A u \in Task : u \in InList' \/ u \in walk'.woken <=> u \in InList \/ u \in walk.woken,
         \A u \in Task \ {t} : step'[u] = step[u] /\ call'[u] = call[u] /\ xItemValue'[u] = xItemValue[u],
         xItemValue'[t] = xItemValue[t],
         \/ step'[t] = step[t] /\ call'[t] = call[t]
         \/ /\ step[t] \notin {"item", "late"} /\ step'[t] \notin {"item", "late"}
            /\ t \notin InList /\ t \notin walk.woken
         \/ t \in InList /\ call'[t] = call[t]
  PROVE  UNCHANGED Flags!flagsVars
<1>1. \A u \in Task : Sleeps(u)' <=> Sleeps(u)
  BY SleepersNow, SleepersNext DEF SleepersKnown
<1>2. ASSUME NEW u \in Task \ {t} PROVE Same(u)
  BY <1>1, SameTask
<1>3. CASE step'[t] = step[t] /\ call'[t] = call[t]
  <2>1. Same(t)
    BY <1>1, <1>3, SameTask
  <2>. QED  BY <1>2, <2>1, FlagsStutter
<1>4. CASE /\ step[t] \notin {"item", "late"} /\ step'[t] \notin {"item", "late"}
           /\ t \notin InList /\ t \notin walk.woken
  <2>1. ~Sleeps(t) /\ ~Sleeps(t)'
    BY <1>1, <1>4, SleepersNow DEF SleepersKnown
  <2>2. Same(t)
    BY <1>4, <2>1 DEF Same, Phase, Wants, Gets, Answered, IsLate
  <2>. QED  BY <1>2, <2>2, FlagsStutter
<1>5. CASE t \in InList /\ call'[t] = call[t]
  <2>1. Sleeps(t) /\ Sleeps(t)'
    BY <1>1, <1>5, SleepersNow DEF SleepersKnown
  <2>2. Same(t)
    BY <1>5, <2>1 DEF Same, Phase, Wants, Gets, Answered, IsLate
  <2>. QED  BY <1>2, <2>2, FlagsStutter
<1>. QED  BY <1>3, <1>4, <1>5

\* Beginning a call, and the steps of a walk but its last.
LEMMA EnterFlags ==
  ASSUME Inv, Inv', NEW t \in Task, NEW c, NEW s \in {"set", "test", "original", "drain"}, Enter(t, c, s)
  PROVE  UNCHANGED Flags!flagsVars
<1>0. CallsInv /\ KernelInv /\ GroupType
  BY DEF Inv, CallsInv
<1>1. /\ t = pxCurrentTCB /\ step[t] = "none" /\ SuspendAll(t)
      /\ call' = [call EXCEPT ![t] = c] /\ step' = [step EXCEPT ![t] = s]
      /\ UNCHANGED <<program, uxEventBits, xItemValue, walk, exists>>
  BY DEF Enter, Between, At, AtCall
<1>2. InList' = InList
  BY <1>0, <1>1, SuspendList
<1>3. step'[t] = s /\ \A u \in Task \ {t} : step'[u] = step[u] /\ call'[u] = call[u]
  BY <1>0, <1>1 DEF GroupType
<1>4. t \notin InList /\ t \notin walk.woken
  BY <1>1, CallerPhase
<1>5. BitsSoFar' = BitsSoFar
  BY <1>1 DEF BitsSoFar
<1>. QED  BY <1>1, <1>2, <1>3, <1>4, <1>5, Unseen

\* The nested call of xEventGroupSync begins.
LEMMA SetInSyncFlags ==
  ASSUME Inv, Inv', NEW t \in Task, SetInSync(t)
  PROVE  UNCHANGED Flags!flagsVars
<1>0. CallsInv /\ KernelInv /\ GroupType
  BY DEF Inv, CallsInv
<1>1. /\ t = pxCurrentTCB /\ step[t] = "original" /\ SuspendAll(t)
      /\ call' = call /\ step' = [step EXCEPT ![t] = "set"]
      /\ UNCHANGED <<program, uxEventBits, xItemValue, walk, exists>>
  BY DEF SetInSync, At, AtCall, Goto
<1>2. InList' = InList
  BY <1>0, <1>1, SuspendList
<1>3. step'[t] = "set" /\ \A u \in Task \ {t} : step'[u] = step[u]
  BY <1>0, <1>1 DEF GroupType
<1>4. t \notin InList /\ t \notin walk.woken
  BY <1>1, CallerPhase
<1>5. BitsSoFar' = BitsSoFar
  BY <1>1 DEF BitsSoFar
<1>. QED  BY <1>1, <1>2, <1>3, <1>4, <1>5, Unseen

\* The bits are set: EventFlags learns of it when the walk is over.
LEMMA SetBitsFlags ==
  ASSUME Inv, Inv', NEW t \in Task, SetBits(t)
  PROVE  UNCHANGED Flags!flagsVars
<1>0. CallsInv /\ WalkInv /\ KernelInv /\ GroupType
  BY DEF Inv, CallsInv
<1>1. /\ t = pxCurrentTCB /\ step[t] = "set"
      /\ walk' = [NoWalk EXCEPT !.before = uxEventBits, !.rest = Waiters, !.active = TRUE]
      /\ call' = call /\ step' = [step EXCEPT ![t] = "walk"]
      /\ UNCHANGED <<program, kernelVars, xItemValue, exists>>
  BY DEF SetBits, At, AtCall, Goto
<1>2. InList' = InList
  BY <1>0, <1>1, GroupAlone
<1>3. step'[t] = "walk" /\ \A u \in Task \ {t} : step'[u] = step[u]
  BY <1>0, <1>1 DEF GroupType
<1>4. t \notin InList /\ t \notin walk.woken
  BY <1>1, CallerPhase
<1>5. walk = NoWalk
  BY <1>0, <1>1 DEF WalkInv, Walks, Drains
<1>6. BitsSoFar' = BitsSoFar /\ walk'.woken = walk.woken
  BY <1>1, <1>5 DEF BitsSoFar, NoWalk
<1>. QED  BY <1>1, <1>2, <1>3, <1>4, <1>6, Unseen

\* A waiter that the walk has released still sleeps for the others.
LEMMA WakeMatchingFlags ==
  ASSUME Inv, Inv', NEW t \in Task, WakeMatching(t)
  PROVE  UNCHANGED Flags!flagsVars
<1>0. CallsInv /\ KernelInv /\ GroupType
  BY DEF Inv, CallsInv
<1>1. PICK u : u = Head(walk.rest)
  OBVIOUS
<1>2. /\ t = pxCurrentTCB /\ step[t] = "walk" /\ walk.rest # <<>>
      /\ \E i : xItemValue' = [xItemValue EXCEPT ![u] = i]
      /\ RemoveFromUnorderedEventList(t, u, xTasksWaitingForBits)
      /\ \E S : walk' = [walk EXCEPT !.rest = Tail(@), !.woken = @ \cup {u}, !.uxBitsToClear = S]
      /\ call' = call /\ step' = [step EXCEPT ![t] = "walk"]
      /\ uxEventBits' = uxEventBits
  BY <1>1 DEF WakeMatching, At, AtCall, Goto, Onward, KeptForTheOthers
<1>3. u \in InList /\ u \in Task
  BY <1>1, <1>2, NextOnWalk
<1>4. InList' = InList \ {u}
  BY <1>0, <1>2, <1>3, RemoveFromList
<1>5. /\ step' = step /\ \A v \in Task \ {u} : xItemValue'[v] = xItemValue[v]
      /\ walk'.woken = walk.woken \cup {u}
      /\ walk'.active = walk.active /\ walk'.before = walk.before
  BY <1>0, <1>2 DEF GroupType
<1>6. BitsSoFar' = BitsSoFar
  BY <1>2, <1>5 DEF BitsSoFar
<1>7. \A v \in Task : Sleeps(v)' <=> Sleeps(v)
  BY <1>3, <1>4, <1>5, SleepersNow, SleepersNext DEF SleepersKnown
<1>8. ASSUME NEW v \in Task PROVE Same(v)
  <2>1. CASE v = u
    <3>1. Sleeps(v) /\ Sleeps(v)'
      BY <1>3, <1>7, <2>1, SleepersNow DEF SleepersKnown
    <3>. QED  BY <1>2, <3>1 DEF Same, Phase, Wants, Gets, Answered, IsLate
  <2>2. CASE v # u
    BY <1>2, <1>5, <1>7, <2>2, SameTask
  <2>. QED  BY <2>1, <2>2
<1>. QED  BY <1>6, <1>8, FlagsStutter

\* The walk passes over a waiter.
LEMMA PassOverFlags ==
  ASSUME Inv, Inv', NEW t \in Task, PassOver(t)
  PROVE  UNCHANGED Flags!flagsVars
<1>0. CallsInv /\ KernelInv /\ GroupType
  BY DEF Inv, CallsInv
<1>1. /\ t = pxCurrentTCB /\ step[t] = "walk"
      /\ walk' = [walk EXCEPT !.rest = Tail(@)]
      /\ call' = call /\ step' = [step EXCEPT ![t] = "walk"]
      /\ UNCHANGED <<program, kernelVars, uxEventBits, xItemValue, exists>>
  BY DEF PassOver, At, AtCall, Goto, Onward
<1>2. InList' = InList
  BY <1>0, <1>1, GroupAlone
<1>3. /\ step' = step /\ walk'.woken = walk.woken
      /\ walk'.active = walk.active /\ walk'.before = walk.before
  BY <1>0, <1>1 DEF GroupType
<1>4. BitsSoFar' = BitsSoFar
  BY <1>1, <1>3 DEF BitsSoFar
<1>. QED  BY <1>1, <1>2, <1>3, <1>4, Unseen

\* xTaskResumeAll behind the walk.
LEMMA ResumeAfterSetFlags ==
  ASSUME Inv, Inv', NEW t \in Task, ResumeAfterSet(t)
  PROVE  UNCHANGED Flags!flagsVars
<1>0. CallsInv /\ KernelInv /\ GroupType
  BY DEF Inv, CallsInv
<1>1. /\ t = pxCurrentTCB /\ step[t] = "setResume" /\ ResumeAll(t)
      /\ UNCHANGED <<program, uxEventBits, xItemValue, walk, exists>>
  BY DEF ResumeAfterSet, At, AtCall
<1>2. InList' = InList
  BY <1>0, <1>1, ResumeList
<1>3. PICK s \in {"test", "none"} : step' = [step EXCEPT ![t] = s]
  BY DEF ResumeAfterSet, Goto, Return
<1>4. \A u \in Task \ {t} : call'[u] = call[u]
  BY <1>0 DEF ResumeAfterSet, Goto, Return, GroupType
<1>5. step'[t] = s /\ \A u \in Task \ {t} : step'[u] = step[u]
  BY <1>0, <1>3 DEF GroupType
<1>6. t \notin InList /\ t \notin walk.woken
  BY <1>1, CallerPhase
<1>7. BitsSoFar' = BitsSoFar
  BY <1>1 DEF BitsSoFar
<1>. QED  BY <1>1, <1>2, <1>4, <1>5, <1>6, <1>7, Unseen

\* A task that sleeps, or has an answer, resumes the scheduler.
LEMMA ResumeAfterTestFlags ==
  ASSUME Inv, Inv', NEW t \in Task, ResumeAfterTest(t)
  PROVE  UNCHANGED Flags!flagsVars
<1>0. CallsInv /\ KernelInv /\ GroupType
  BY DEF Inv, CallsInv
<1>1. /\ t = pxCurrentTCB /\ step[t] = "resume" /\ ResumeAll(t)
      /\ UNCHANGED <<program, uxEventBits, xItemValue, walk, exists>>
  BY DEF ResumeAfterTest, At, AtCall
<1>2. InList' = InList
  BY <1>0, <1>1, ResumeList
<1>3. BitsSoFar' = BitsSoFar
  BY <1>1 DEF BitsSoFar
<1>4. (t \in InList <=> call[t].ticks > 0) /\ t \notin walk.woken
  BY <1>0, <1>1, CallerPhase DEF CallsInv, CallOK
<1>5. CASE t \in InList
  <2>1. call' = call /\ step' = [step EXCEPT ![t] = "item"]
    BY <1>4, <1>5 DEF ResumeAfterTest, Goto
  <2>2. \A u \in Task \ {t} : step'[u] = step[u]
    BY <1>0, <2>1 DEF GroupType
  <2>. QED  BY <1>1, <1>2, <1>3, <1>5, <2>1, <2>2, Unseen
<1>6. CASE t \notin InList
  <2>1. call' = [call EXCEPT ![t] = NoCall] /\ step' = [step EXCEPT ![t] = "none"]
    BY <1>4, <1>6 DEF ResumeAfterTest, Return
  <2>2. step'[t] = "none" /\ \A u \in Task \ {t} : step'[u] = step[u] /\ call'[u] = call[u]
    BY <1>0, <2>1 DEF GroupType
  <2>. QED  BY <1>1, <1>2, <1>3, <1>4, <1>6, <2>2, Unseen
<1>. QED  BY <1>5, <1>6

\* A deletion's loop wakes a waiter.
LEMMA DrainFlags ==
  ASSUME Inv, Inv', NEW t \in Task, Drain(t)
  PROVE  UNCHANGED Flags!flagsVars
<1>0. CallsInv /\ WalkInv /\ KernelInv /\ GroupType
  BY DEF Inv, CallsInv
<1>1. PICK u : u = Head(Waiters)
  OBVIOUS
<1>2. /\ t = pxCurrentTCB /\ step[t] = "drain" /\ Waiters # <<>>
      /\ xItemValue' = [xItemValue EXCEPT ![u] = ZeroForDeleted]
      /\ RemoveFromUnorderedEventList(t, u, xTasksWaitingForBits)
      /\ walk' = [walk EXCEPT !.before = uxEventBits, !.woken = @ \cup {u}, !.active = TRUE]
      /\ call' = call /\ step' = [step EXCEPT ![t] = "drain"]
      /\ UNCHANGED <<program, uxEventBits, exists>>
  BY <1>1 DEF Drain, At, AtCall, Goto
<1>3. u \in InList /\ u \in Task
  BY <1>0, <1>1, <1>2, ListFacts, HeadAndRest
<1>4. InList' = InList \ {u}
  BY <1>0, <1>2, <1>3, RemoveFromList
<1>5. /\ step' = step /\ \A v \in Task \ {u} : xItemValue'[v] = xItemValue[v]
      /\ walk'.woken = walk.woken \cup {u}
      /\ walk'.active = TRUE /\ walk'.before = uxEventBits
  BY <1>0, <1>2 DEF GroupType
<1>6. BitsSoFar' = BitsSoFar
  BY <1>0, <1>2, <1>5 DEF BitsSoFar, WalkInv, Drains
<1>7. \A v \in Task : Sleeps(v)' <=> Sleeps(v)
  BY <1>3, <1>4, <1>5, SleepersNow, SleepersNext DEF SleepersKnown
<1>8. ASSUME NEW v \in Task PROVE Same(v)
  <2>1. CASE v = u
    <3>1. Sleeps(v) /\ Sleeps(v)'
      BY <1>3, <1>7, <2>1, SleepersNow DEF SleepersKnown
    <3>. QED  BY <1>2, <3>1 DEF Same, Phase, Wants, Gets, Answered, IsLate
  <2>2. CASE v # u
    BY <1>2, <1>5, <1>7, <2>2, SameTask
  <2>. QED  BY <2>1, <2>2
<1>. QED  BY <1>6, <1>8, FlagsStutter

\* What the tasks do outside their calls.
LEMMA OutsideFlags ==
  ASSUME Inv, Inv', InList' = InList, UNCHANGED <<uxEventBits, xItemValue, call, step, walk>>
  PROVE  UNCHANGED Flags!flagsVars
<1>1. \A u \in Task : Sleeps(u)' <=> Sleeps(u)
  BY SleepersNow, SleepersNext DEF SleepersKnown
<1>2. BitsSoFar' = BitsSoFar /\ \A u \in Task : Same(u)
  BY <1>1, SameTask DEF BitsSoFar
<1>. QED  BY <1>2, FlagsStutter


\* A step that changes, of the waits, at most that of t.
LEMMA OthersSame ==
  ASSUME Inv, Inv', NEW t \in Task,
         \A u \in Task \ {t} : u \in InList' \/ u \in walk'.woken <=> u \in InList \/ u \in walk.woken,
         \A u \in Task \ {t} : step'[u] = step[u] /\ call'[u] = call[u] /\ xItemValue'[u] = xItemValue[u]
  PROVE  \A u \in Task \ {t} : Same(u)
<1>1. \A u \in Task \ {t} : Sleeps(u)' <=> Sleeps(u)
  BY SleepersNow, SleepersNext DEF SleepersKnown
<1>. QED  BY <1>1, SameTask

\* The test of a wait, and the step behind it, for the task that makes it.
LEMMA TestedCaller ==
  ASSUME Inv, Inv', NEW t \in Task, t = pxCurrentTCB, step[t] = "test",
         step' = [step EXCEPT ![t] = "resume"], walk' = NoWalk
  PROVE  /\ Phase(t) = "no" /\ Wants(t) = {} /\ Gets(t) = {} /\ t \notin InList
         /\ Gets(t)' = {}
         /\ t \in InList' => Phase(t)' = "waiting" /\ Wants(t)' = call'[t].request
         /\ t \notin InList' => Phase(t)' = "no" /\ Wants(t)' = {}
         /\ call[t] \in CallRecords /\ call[t].kind \in {"wait", "sync"}
         /\ walk.rest = <<>>
<1>1. /\ Phase(t) = "no" /\ Wants(t) = {} /\ Gets(t) = {} /\ t \notin InList
  BY CallerPhase
<1>2. step'[t] = "resume" /\ walk'.woken = {}
  BY DEF Inv, CallsInv, GroupType, NoWalk
<1>3. ~xItemValue'[t].set
  BY <1>2 DEF Inv, CallsInv, ItemOK
<1>4. Sleeps(t)' <=> t \in InList'
  BY <1>2, SleepersNext DEF SleepersKnown
<1>5. call[t] \in CallRecords /\ call[t].kind \in {"wait", "sync"} /\ walk.rest = <<>>
  BY InCall DEF Inv, CallsInv, CallOK, WalkInv
<1>6. Gets(t)' = {}
  BY <1>3 DEF Gets, Answered
<1>7. t \in InList' => Phase(t)' = "waiting" /\ Wants(t)' = call'[t].request
  BY <1>4 DEF Phase, Wants
<1>8. t \notin InList' => Phase(t)' = "no" /\ Wants(t)' = {}
  BY <1>2, <1>3, <1>4 DEF Phase, Wants, Answered, IsLate
<1>. QED  BY <1>1, <1>5, <1>6, <1>7, <1>8

\* xEventGroupSync, with its nested call, is one step to those who wait.
LEMMA ArriveFlags ==
  ASSUME Inv, Inv', NEW t \in Task, t = pxCurrentTCB, step[t] = "test", call[t].kind = "sync",
         NEW stays \in BOOLEAN,
         step' = [step EXCEPT ![t] = "resume"], walk' = NoWalk,
         \A u \in Task \ {t} : call'[u] = call[u] /\ xItemValue'[u] = xItemValue[u],
         call'[t].request = call[t].request,
         InList' = IF stays /\ ~ConditionMet(t) THEN InList \cup {t} ELSE InList,
         uxEventBits' = IF ConditionMet(t) THEN uxEventBits \ call[t].request.for ELSE uxEventBits
  PROVE  Flags!Next
<1>. DEFINE S == call[t].bits
            W == call[t].request.for
<1>0. CallsInv /\ WalkInv /\ KernelInv /\ GroupType
  BY DEF Inv, CallsInv
<1>1. Walks /\ walk.rest = <<>> /\ walk.active /\ Shown = walk.before \cup S
      /\ uxEventBits = Shown \ walk.uxBitsToClear
  BY <1>0, TestedCaller DEF Walks, WalkInv, Shown
<1>2. BitsSoFar \cup S = Shown /\ BitsSoFar' = uxEventBits'
  BY <1>1 DEF BitsSoFar, NoWalk
<1>3. /\ Flags!Served(Shown) = walk.woken /\ walk.woken \subseteq Task
      /\ Flags!Left(Shown) = uxEventBits
  BY <1>1, WalkServes
<1>4. call[t] \in CallRecords
  BY TestedCaller
<1>5. /\ S \in SUBSET Bit /\ call[t].request \in Wanted
      /\ call[t].request.clear = TRUE /\ call[t].request.all = TRUE
  BY <1>4, CallFacts DEF Wanted
<1>6. call[t].request = [for |-> W, clear |-> TRUE, all |-> TRUE] /\ W \in SUBSET Bit
  BY <1>5 DEF Wanted
<1>7. ConditionMet(t) <=> W \subseteq Shown
  BY <1>0, <1>5, ShownBits DEF ConditionMet, prvTestWaitCondition
<1>8. \A u \in Task \ {t} : step'[u] = step[u]
  BY <1>0 DEF GroupType
<1>9. ASSUME NEW u \in walk.woken
      PROVE  Phase(u)' = "released" /\ Wants(u)' = {} /\ Gets(u)' = Shown
  <2>1. /\ u \in Task /\ u \notin InList /\ xItemValue[u].set /\ xItemValue[u].bits = Shown /\ u # t
    BY <1>0, <1>1, <1>3 DEF WalkInv, ReleasedOK
  <2>2. ~Sleeps(u)' /\ xItemValue'[u] = xItemValue[u]
    BY <2>1, SleepersNext DEF SleepersKnown, NoWalk
  <2>. QED  BY <2>1, <2>2 DEF Phase, Wants, Gets, Answered, IsLate
<1>10. ASSUME NEW u \in Task \ {t}, u \notin walk.woken
       PROVE  Same(u)
  <2>1. Sleeps(u)' <=> Sleeps(u)
    BY <1>10, SleepersNow, SleepersNext DEF SleepersKnown, NoWalk
  <2>. QED  BY <1>8, <2>1, SameTask
<1>11. t \notin walk.woken
  BY CallerPhase
<1>12. /\ Phase(t) = "no" /\ Wants(t) = {} /\ Gets(t) = {} /\ Gets(t)' = {}
       /\ Phase(t)' = IF stays /\ ~ConditionMet(t) THEN "waiting" ELSE "no"
       /\ Wants(t)' = IF stays /\ ~ConditionMet(t) THEN call[t].request ELSE {}
  BY TestedCaller
<1>13. Flags!Arrive(t, S, W, stays)
  <2>1. \A u \in Task : Phase(u)' = IF u \in walk.woken THEN "released"
                                    ELSE IF u = t /\ (stays /\ ~(W \subseteq Shown)) THEN "waiting"
                                    ELSE Phase(u)
    BY <1>7, <1>9, <1>10, <1>11, <1>12 DEF Same
  <2>2. \A u \in Task : Wants(u)' = IF u \in walk.woken THEN {}
                                    ELSE IF u = t /\ (stays /\ ~(W \subseteq Shown))
                                         THEN [for |-> W, clear |-> TRUE, all |-> TRUE]
                                    ELSE Wants(u)
    BY <1>6, <1>7, <1>9, <1>10, <1>11, <1>12 DEF Same
  <2>3. \A u \in Task : Gets(u)' = IF u \in walk.woken THEN Shown ELSE Gets(u)
    BY <1>9, <1>10, <1>11, <1>12 DEF Same
  <2>4. BitsSoFar' = Flags!Left(Shown) \ (IF W \subseteq Shown THEN W ELSE {})
    BY <1>2, <1>3, <1>7
  <2>. DEFINE now == BitsSoFar \cup S
              joined == stays /\ ~(W \subseteq now)
  <2>5. [u \in Task |-> Phase(u)'] =
          [u \in Task |-> IF u \in Flags!Served(now) THEN "released"
                          ELSE IF u = t /\ joined THEN "waiting" ELSE [v \in Task |-> Phase(v)][u]]
    BY <1>2, <1>3, <2>1
  <2>6. [u \in Task |-> Wants(u)'] =
          [u \in Task |-> IF u \in Flags!Served(now) THEN {}
                          ELSE IF u = t /\ joined THEN [for |-> W, clear |-> TRUE, all |-> TRUE]
                          ELSE [v \in Task |-> Wants(v)][u]]
    BY <1>2, <1>3, <2>2
  <2>7. [u \in Task |-> Gets(u)'] =
          [u \in Task |-> IF u \in Flags!Served(now) THEN now ELSE [v \in Task |-> Gets(v)][u]]
    BY <1>2, <1>3, <2>3
  <2>8. [v \in Task |-> Phase(v)][t] = "no"
    BY <1>12
  <2>9. BitsSoFar' = Flags!Left(now) \ (IF W \subseteq now THEN W ELSE {})
    BY <1>2, <2>4
  <2>. QED  BY <2>5, <2>6, <2>7, <2>8, <2>9, Zenon DEF Flags!Arrive
<1>. QED  BY <1>5, <1>6, <1>13 DEF Flags!Next

\* A wait that begins has no walk around it.
LEMMA WaitAlone ==
  ASSUME Inv, NEW t \in Task, t = pxCurrentTCB, step[t] = "test", call[t].kind # "sync"
  PROVE  /\ walk = NoWalk /\ BitsSoFar = uxEventBits /\ Judged(t) = uxEventBits
<1>1. ~Walks /\ ~Drains
  BY DEF Walks, Drains
<1>2. walk = NoWalk
  BY <1>1 DEF Inv, WalkInv
<1>. QED  BY <1>2 DEF BitsSoFar, NoWalk, Judged

\* A request that is met at once.
LEMMA TakeAtOnceFlags ==
  ASSUME Inv, Inv', NEW t \in Task, TakeAtOnce(t)
  PROVE  Flags!Next
<1>. DEFINE r == call[t].request
<1>0. CallsInv /\ KernelInv /\ GroupType
  BY DEF Inv, CallsInv
<1>1. /\ t = pxCurrentTCB /\ step[t] = "test" /\ ConditionMet(t)
      /\ uxEventBits' = Remaining(r, uxEventBits)
      /\ walk' = NoWalk
      /\ call' = [call EXCEPT ![t].ticks = 0] /\ step' = [step EXCEPT ![t] = "resume"]
      /\ UNCHANGED <<program, kernelVars, xItemValue, exists>>
  BY DEF TakeAtOnce, At, AtCall
<1>2. InList' = InList
  BY <1>0, <1>1, GroupAlone
<1>3. call[t] \in CallRecords /\ call[t].kind \in {"wait", "sync"} /\ t \notin InList
  BY <1>1, TestedCaller
<1>4. r \in Wanted /\ (call[t].kind = "sync" => r.clear)
  BY <1>3, CallFacts
<1>5. call'[t] = [call[t] EXCEPT !.ticks = 0] /\ \A u \in Task \ {t} : call'[u] = call[u]
  BY <1>0, <1>1 DEF GroupType
<1>6. call'[t].request = r
  BY <1>3, <1>5 DEF CallRecords
<1>7. CASE call[t].kind = "sync"
  <2>1. uxEventBits' = uxEventBits \ call[t].request.for
    BY <1>1, <1>4, <1>7 DEF Remaining
  <2>2. /\ InList' = IF FALSE /\ ~ConditionMet(t) THEN InList \cup {t} ELSE InList
        /\ uxEventBits' = IF ConditionMet(t) THEN uxEventBits \ call[t].request.for ELSE uxEventBits
        /\ \A u \in Task \ {t} : call'[u] = call[u] /\ xItemValue'[u] = xItemValue[u]
    BY <1>1, <1>2, <1>5, <2>1
  <2>. QED  BY <1>1, <1>6, <1>7, <2>2, ArriveFlags
<1>8. CASE call[t].kind # "sync"
  <2>1. walk = NoWalk /\ BitsSoFar = uxEventBits /\ Judged(t) = uxEventBits
    BY <1>1, <1>8, WaitAlone
  <2>2. BitsSoFar' = uxEventBits'
    BY <1>1 DEF BitsSoFar, NoWalk
  <2>3. \A u \in Task \ {t} : step'[u] = step[u]
    BY <1>0, <1>1 DEF GroupType
  <2>4. \A u \in Task \ {t} : Same(u)
    BY <1>1, <1>2, <1>5, <2>1, <2>3, OthersSame
  <2>5. Same(t)
    BY <1>1, <1>2, <1>3, TestedCaller DEF Same
  <2>6. \A u \in Task : Phase(u)' = Phase(u) /\ Wants(u)' = Wants(u) /\ Gets(u)' = Gets(u)
    BY <2>4, <2>5 DEF Same
  <2>7. Flags!Holds(r, BitsSoFar) /\ BitsSoFar' = BitsSoFar \ Flags!Taken(r)
    BY <1>1, <2>1, <2>2 DEF ConditionMet, prvTestWaitCondition, Remaining, Flags!Holds, Flags!Taken
  <2>8. Flags!Take(r)
    BY <2>6, <2>7 DEF Flags!Take
  <2>. QED  BY <1>4, <2>8 DEF Flags!Next, Flags!Requests, Wanted
<1>. QED  BY <1>7, <1>8

\* A call that may not wait.
LEMMA FailAtOnceFlags ==
  ASSUME Inv, Inv', NEW t \in Task, FailAtOnce(t)
  PROVE  Flags!Next \/ UNCHANGED Flags!flagsVars
<1>0. CallsInv /\ KernelInv /\ GroupType
  BY DEF Inv, CallsInv
<1>1. /\ t = pxCurrentTCB /\ step[t] = "test" /\ ~ConditionMet(t)
      /\ walk' = NoWalk
      /\ call' = call /\ step' = [step EXCEPT ![t] = "resume"]
      /\ UNCHANGED <<program, kernelVars, uxEventBits, xItemValue, exists>>
  BY DEF FailAtOnce, At, AtCall, Goto
<1>2. InList' = InList
  BY <1>0, <1>1, GroupAlone
<1>3. t \notin InList /\ t \notin walk.woken
  BY <1>1, CallerPhase
<1>4. CASE call[t].kind = "sync"
  <2>1. /\ InList' = IF FALSE /\ ~ConditionMet(t) THEN InList \cup {t} ELSE InList
        /\ uxEventBits' = IF ConditionMet(t) THEN uxEventBits \ call[t].request.for ELSE uxEventBits
        /\ call'[t].request = call[t].request
        /\ \A u \in Task \ {t} : call'[u] = call[u] /\ xItemValue'[u] = xItemValue[u]
    BY <1>1, <1>2
  <2>. QED  BY <1>1, <1>4, <2>1, ArriveFlags
<1>5. CASE call[t].kind # "sync"
  <2>1. walk = NoWalk
    BY <1>1, <1>5, WaitAlone
  <2>2. BitsSoFar' = BitsSoFar
    BY <1>1, <2>1 DEF BitsSoFar
  <2>3. step'[t] = "resume" /\ \A u \in Task \ {t} : step'[u] = step[u]
    BY <1>0, <1>1 DEF GroupType
  <2>. QED  BY <1>1, <1>2, <1>3, <2>1, <2>2, <2>3, Unseen
<1>. QED  BY <1>4, <1>5

\* A call that waits.
LEMMA BlockFlags ==
  ASSUME Inv, Inv', NEW t \in Task, Block(t)
  PROVE  Flags!Next
<1>. DEFINE r == call[t].request
<1>0. CallsInv /\ KernelInv /\ GroupType
  BY DEF Inv, CallsInv
<1>1. /\ t = pxCurrentTCB /\ step[t] = "test" /\ ~ConditionMet(t) /\ call[t].ticks > 0
      /\ PlaceOnUnorderedEventList(t, xTasksWaitingForBits, call[t].ticks)
      /\ walk' = NoWalk
      /\ call' = call /\ step' = [step EXCEPT ![t] = "resume"]
      /\ UNCHANGED <<program, uxEventBits, exists>>
  BY DEF Block, At, AtCall, Goto
<1>2. /\ call[t] \in CallRecords /\ call[t].kind \in {"wait", "sync"}
      /\ Phase(t) = "no" /\ Wants(t) = {} /\ Gets(t) = {} /\ Gets(t)' = {}
  BY <1>1, TestedCaller
<1>3. r \in Wanted /\ call[t].ticks \in 1 .. portMAX_DELAY
  <2>1. r \in Wanted /\ call[t].ticks \in Ticks
    BY <1>2, CallFacts
  <2>2. call[t].ticks \in 0 .. portMAX_DELAY /\ portMAX_DELAY \in Nat
    BY <2>1, TickNumbers
  <2>. QED  BY <1>1, <2>1, <2>2
<1>4. InList' = InList \cup {t}
  BY <1>0, <1>1, <1>3, PlaceInList
<1>5. Phase(t)' = "waiting" /\ Wants(t)' = r
  BY <1>1, <1>4, TestedCaller
<1>6. \A u \in Task \ {t} : xItemValue'[u] = xItemValue[u] /\ step'[u] = step[u]
  BY <1>0, <1>1 DEF Block, GroupType
<1>7. CASE call[t].kind = "sync"
  <2>1. /\ InList' = IF TRUE /\ ~ConditionMet(t) THEN InList \cup {t} ELSE InList
        /\ uxEventBits' = IF ConditionMet(t) THEN uxEventBits \ call[t].request.for ELSE uxEventBits
        /\ call'[t].request = call[t].request
        /\ \A u \in Task \ {t} : call'[u] = call[u] /\ xItemValue'[u] = xItemValue[u]
    BY <1>1, <1>4, <1>6
  <2>. QED  BY <1>1, <1>7, <2>1, ArriveFlags
<1>8. CASE call[t].kind # "sync"
  <2>1. walk = NoWalk /\ BitsSoFar = uxEventBits /\ Judged(t) = uxEventBits
    BY <1>1, <1>8, WaitAlone
  <2>2. BitsSoFar' = BitsSoFar
    BY <1>1, <2>1 DEF BitsSoFar, NoWalk
  <2>3. \A u \in Task \ {t} : Same(u)
    BY <1>1, <1>4, <1>6, <2>1, OthersSame
  <2>4. ~Flags!Holds(r, BitsSoFar)
    BY <1>1, <2>1 DEF ConditionMet, prvTestWaitCondition, Flags!Holds
  <2>5. /\ \A u \in Task : Phase(u)' = IF u = t THEN "waiting" ELSE Phase(u)
        /\ \A u \in Task : Wants(u)' = IF u = t THEN r ELSE Wants(u)
        /\ \A u \in Task : Gets(u)' = Gets(u)
    BY <1>2, <1>5, <2>3 DEF Same
  <2>6. Flags!Block(t, r)
    BY <1>2, <2>2, <2>4, <2>5 DEF Flags!Block
  <2>. QED  BY <1>3, <2>6 DEF Flags!Next, Flags!Requests, Wanted
<1>. QED  BY <1>7, <1>8


\* Waits that end without an answer: their time is up, or they are aborted.
LEMMA GiveUpFlags ==
  ASSUME Inv, Inv', uxSchedulerSuspended = 0, InList' \subseteq InList,
         UNCHANGED <<uxEventBits, xItemValue, call, step, walk>>
  PROVE  Flags!Next
<1>. DEFINE S == InList \ InList'
<1>0. CallsInv /\ WalkInv /\ KernelInv
  BY DEF Inv, CallsInv
<1>1. walk = NoWalk /\ \A u \in Task : step[u] \in Unlocked
  BY <1>0, Running
<1>2. S \subseteq Task /\ walk.woken = {} /\ walk'.woken = {}
  BY <1>0, <1>1, ListFacts DEF NoWalk
<1>3. BitsSoFar' = BitsSoFar
  BY DEF BitsSoFar
<1>4. ASSUME NEW u \in S
      PROVE  /\ Phase(u) = "waiting" /\ Phase(u)' = "late"
             /\ Wants(u)' = Wants(u) /\ Gets(u)' = Gets(u)
  <2>1. u \in Task /\ step[u] = "item" /\ ~xItemValue[u].set
    BY <1>0, <1>1, <1>2 DEF CallsInv, ItemOK, Unlocked
  <2>2. Sleeps(u) /\ ~Sleeps(u)'
    BY <1>2, <2>1, SleepersNow, SleepersNext DEF SleepersKnown
  <2>. QED  BY <2>1, <2>2 DEF Phase, Wants, Gets, Answered, IsLate
<1>5. ASSUME NEW u \in Task \ S
      PROVE  Same(u)
  <2>1. Sleeps(u)' <=> Sleeps(u)
    BY <1>2, SleepersNow, SleepersNext DEF SleepersKnown
  <2>. QED  BY <2>1, SameTask
<1>6. /\ \A u \in S : Phase(u) = "waiting"
      /\ \A u \in Task : Phase(u)' = IF u \in S THEN "late" ELSE Phase(u)
      /\ \A u \in Task : Wants(u)' = Wants(u) /\ Gets(u)' = Gets(u)
  BY <1>4, <1>5 DEF Same
<1>7. Flags!GiveUp(S)
  BY <1>2, <1>3, <1>6 DEF Flags!GiveUp
<1>. QED  BY <1>2, <1>7 DEF Flags!Next

\* The woken task returns its answer, or goes to look again.
LEMMA ReadItemFlags ==
  ASSUME Inv, Inv', NEW t \in Task, ReadItem(t)
  PROVE  Flags!Next \/ UNCHANGED Flags!flagsVars
<1>0. CallsInv /\ WalkInv /\ KernelInv /\ GroupType
  BY DEF Inv, CallsInv
<1>1. /\ t = pxCurrentTCB /\ step[t] = "item" /\ ResetEventItemValue(t)
      /\ xItemValue' = [xItemValue EXCEPT ![t] = NoItem]
      /\ UNCHANGED <<program, uxEventBits, walk, exists>>
  BY DEF ReadItem, At, AtCall
<1>2. InList' = InList
  BY <1>0, <1>1, ResetInList
<1>3. uxSchedulerSuspended = 0 /\ t \notin InList
  <2>1. state[t] = "ready"
    BY <1>1 DEF ResetEventItemValue
  <2>. QED  BY <1>0, <1>1, <2>1, ListFacts DEF CallsInv, DepthOK, Depth, Unlocked
<1>4. walk = NoWalk /\ BitsSoFar' = BitsSoFar
  BY <1>0, <1>1, <1>3, Running DEF BitsSoFar
<1>5. ~Sleeps(t) /\ ~Sleeps(t)'
  BY <1>1, <1>2, <1>3, <1>4, SleepersNow, SleepersNext DEF SleepersKnown, NoWalk
<1>6. xItemValue'[t] = NoItem /\ ~xItemValue'[t].set /\ \A u \in Task \ {t} : xItemValue'[u] = xItemValue[u]
  BY <1>0, <1>1 DEF GroupType, NoItem
<1>7. CASE TimedOut(t)
  <2>1. call' = call /\ step' = [step EXCEPT ![t] = "late"]
    BY <1>7 DEF ReadItem, TimedOut, Goto
  <2>2. step'[t] = "late" /\ \A u \in Task \ {t} : step'[u] = step[u]
    BY <1>0, <2>1 DEF GroupType
  <2>3. Same(t)
    BY <1>1, <1>5, <1>6, <1>7, <2>1, <2>2 DEF Same, Phase, Wants, Gets, Answered, IsLate, TimedOut
  <2>4. \A u \in Task \ {t} : Same(u)
    BY <1>1, <1>2, <1>6, <2>1, <2>2, OthersSame
  <2>. QED  BY <1>4, <2>3, <2>4, FlagsStutter
<1>8. CASE ~TimedOut(t)
  <2>1. call' = [call EXCEPT ![t] = NoCall] /\ step' = [step EXCEPT ![t] = "none"]
    BY <1>8 DEF ReadItem, Return
  <2>2. step'[t] = "none" /\ \A u \in Task \ {t} : step'[u] = step[u] /\ call'[u] = call[u]
    BY <1>0, <2>1 DEF GroupType
  <2>3. /\ Phase(t) = "released" /\ Wants(t) = {}
        /\ Phase(t)' = "no" /\ Wants(t)' = {} /\ Gets(t)' = {}
    BY <1>1, <1>5, <1>6, <1>8, <2>2 DEF Phase, Wants, Gets, Answered, IsLate, TimedOut
  <2>4. \A u \in Task \ {t} : Same(u)
    BY <1>1, <1>2, <1>6, <2>2, OthersSame
  <2>5. /\ \A u \in Task : Phase(u)' = IF u = t THEN "no" ELSE Phase(u)
        /\ \A u \in Task : Wants(u)' = Wants(u)
        /\ \A u \in Task : Gets(u)' = IF u = t THEN {} ELSE Gets(u)
    BY <2>3, <2>4 DEF Same
  <2>6. Flags!Return(t)
    BY <1>4, <2>3, <2>5 DEF Flags!Return
  <2>. QED  BY <2>6 DEF Flags!Next
<1>. QED  BY <1>7, <1>8

\* ... and takes what it finds.
LEMMA LookAgainFlags ==
  ASSUME Inv, Inv', NEW t \in Task, LookAgain(t)
  PROVE  Flags!Next
<1>. DEFINE r == call[t].request
<1>0. CallsInv /\ WalkInv /\ KernelInv /\ GroupType
  BY DEF Inv, CallsInv
<1>1. /\ t = pxCurrentTCB /\ step[t] = "late"
      /\ uxEventBits' = IF prvTestWaitCondition(r, uxEventBits)
                          THEN Remaining(r, uxEventBits) ELSE uxEventBits
      /\ step' = [step EXCEPT ![t] = "none"] /\ call' = [call EXCEPT ![t] = NoCall]
      /\ UNCHANGED <<program, kernelVars, xItemValue, walk, exists>>
  BY DEF LookAgain, At, AtCall, Return
<1>2. InList' = InList
  BY <1>0, <1>1, GroupAlone
<1>3. uxSchedulerSuspended = 0 /\ t \notin InList /\ ~xItemValue[t].set
  BY <1>0, <1>1 DEF CallsInv, ItemOK, DepthOK, Depth, Unlocked
<1>4. walk = NoWalk /\ BitsSoFar = uxEventBits /\ BitsSoFar' = uxEventBits'
  BY <1>0, <1>1, <1>3, Running DEF BitsSoFar, NoWalk
<1>5. ~Sleeps(t) /\ ~Sleeps(t)'
  BY <1>1, <1>2, <1>3, <1>4, SleepersNow, SleepersNext DEF SleepersKnown, NoWalk
<1>6. step'[t] = "none" /\ \A u \in Task \ {t} : step'[u] = step[u] /\ call'[u] = call[u]
  BY <1>0, <1>1 DEF GroupType
<1>7. /\ Phase(t) = "late" /\ Wants(t) = r /\ Gets(t) = {}
      /\ Phase(t)' = "no" /\ Wants(t)' = {} /\ Gets(t)' = {}
  BY <1>1, <1>3, <1>5, <1>6 DEF Phase, Wants, Gets, Answered, IsLate
<1>8. \A u \in Task \ {t} : Same(u)
  BY <1>1, <1>2, <1>6, OthersSame
<1>9. /\ \A u \in Task : Phase(u)' = IF u = t THEN "no" ELSE Phase(u)
      /\ \A u \in Task : Wants(u)' = IF u = t THEN {} ELSE Wants(u)
      /\ \A u \in Task : Gets(u)' = Gets(u)
  BY <1>7, <1>8 DEF Same
<1>10. BitsSoFar' = IF Flags!Holds(r, BitsSoFar) THEN BitsSoFar \ Flags!Taken(r) ELSE BitsSoFar
  BY <1>1, <1>4 DEF prvTestWaitCondition, Remaining, Flags!Holds, Flags!Taken
<1>11. Flags!LookAgain(t)
  BY <1>7, <1>9, <1>10 DEF Flags!LookAgain
<1>. QED  BY <1>11 DEF Flags!Next

\* xEventGroupClearBits
LEMMA ClearBitsFlags ==
  ASSUME Inv, Inv', NEW t \in Task, NEW c \in program[t], xEventGroupClearBits(t, c)
  PROVE  Flags!Next
<1>0. CallsInv /\ WalkInv /\ KernelInv /\ GroupType
  BY DEF Inv, CallsInv
<1>1. /\ uxSchedulerSuspended = 0 /\ uxEventBits' = uxEventBits \ c.bits
      /\ UNCHANGED <<program, kernelVars, xItemValue, call, step, walk, exists>>
  BY DEF xEventGroupClearBits, Between
<1>2. c.bits \in SUBSET Bit
  <2>1. c \in CallRecords
    BY <1>0, EventGroupsAssumption DEF GroupType
  <2>. QED  BY <2>1, CallFacts
<1>3. InList' = InList
  BY <1>0, <1>1, GroupAlone
<1>4. walk = NoWalk /\ BitsSoFar = uxEventBits /\ BitsSoFar' = uxEventBits'
  BY <1>0, <1>1, Running DEF BitsSoFar, NoWalk
<1>5. \A u \in Task : Sleeps(u)' <=> Sleeps(u)
  BY <1>1, <1>3, SleepersNow, SleepersNext DEF SleepersKnown
<1>6. \A u \in Task : Phase(u)' = Phase(u) /\ Wants(u)' = Wants(u) /\ Gets(u)' = Gets(u)
  BY <1>1, <1>5, SameTask DEF Same
<1>7. Flags!Clear(c.bits)
  BY <1>1, <1>4, <1>6 DEF Flags!Clear
<1>. QED  BY <1>2, <1>7 DEF Flags!Next

\* A deletion answers all who wait with 0, in one step to them.
LEMMA EndDrainFlags ==
  ASSUME Inv, Inv', NEW t \in Task, EndDrain(t)
  PROVE  Flags!Next
<1>0. CallsInv /\ WalkInv /\ KernelInv /\ GroupType
  BY DEF Inv, CallsInv
<1>1. /\ t = pxCurrentTCB /\ step[t] = "drain" /\ Waiters = <<>>
      /\ uxEventBits' = {} /\ walk' = NoWalk
      /\ step' = [step EXCEPT ![t] = "none"] /\ call' = [call EXCEPT ![t] = NoCall]
      /\ UNCHANGED <<program, kernelVars, xItemValue>>
  BY DEF EndDrain, At, AtCall, Return
<1>2. InList = {} /\ InList' = {} /\ Drains
  BY <1>0, <1>1, ListFacts, GroupAlone DEF Drains
<1>3. step'[t] = "none" /\ \A u \in Task \ {t} : step'[u] = step[u] /\ call'[u] = call[u]
  BY <1>0, <1>1 DEF GroupType
<1>4. BitsSoFar' = {} /\ walk'.woken = {}
  BY <1>1 DEF BitsSoFar, NoWalk
<1>5. \A u \in Task : (Sleeps(u) <=> u \in walk.woken) /\ ~Sleeps(u)'
  BY <1>2, <1>4, SleepersNow, SleepersNext DEF SleepersKnown
<1>6. \A u \in Task : Phase(u) = "waiting" <=> u \in walk.woken
  BY <1>5 DEF Phase
<1>7. ASSUME NEW u \in Task, u \in walk.woken
      PROVE  Phase(u)' = "released" /\ Wants(u)' = {} /\ Gets(u)' = {}
  <2>1. xItemValue[u].set /\ xItemValue[u].bits = {}
    BY <1>0, <1>2, <1>7 DEF WalkInv, ReleasedOK
  <2>. QED  BY <1>1, <1>5, <2>1 DEF Phase, Wants, Gets, Answered, IsLate
<1>8. ASSUME NEW u \in Task, u \notin walk.woken
      PROVE  Same(u)
  <2>1. CASE u = t
    <3>1. Phase(t) = "no" /\ Wants(t) = {} /\ Gets(t) = {} /\ ~xItemValue[t].set
      BY <1>0, <1>1, <1>2, CallerPhase DEF CallsInv, ItemOK
    <3>. QED  BY <1>1, <1>3, <1>5, <2>1, <3>1 DEF Same, Phase, Wants, Gets, Answered, IsLate
  <2>2. CASE u # t
    BY <1>1, <1>3, <1>5, <1>8, <2>2, SameTask
  <2>. QED  BY <2>1, <2>2
<1>9. /\ \A u \in Task : Phase(u)' = IF u \in walk.woken THEN "released" ELSE Phase(u)
      /\ \A u \in Task : Wants(u)' = IF u \in walk.woken THEN {} ELSE Wants(u)
      /\ \A u \in Task : Gets(u)' = IF u \in walk.woken THEN {} ELSE Gets(u)
  BY <1>7, <1>8 DEF Same
<1>10. Flags!Delete
  BY <1>4, <1>6, <1>9 DEF Flags!Delete, Flags!Release
<1>. QED  BY <1>10 DEF Flags!Next

\* A group is created again without a bit.
LEMMA CreateFlags ==
  ASSUME Inv, Inv', NEW t \in Task, xEventGroupCreate(t)
  PROVE  UNCHANGED Flags!flagsVars
<1>1. /\ ~exists /\ uxEventBits' = {}
      /\ UNCHANGED <<program, kernelVars, xItemValue, call, step, walk>>
  BY DEF xEventGroupCreate
<1>2. InList' = InList
  BY <1>1, GroupAlone DEF Inv, CallsInv
<1>3. uxEventBits' = uxEventBits
  BY <1>1 DEF Inv, LeaveInv
<1>. QED  BY <1>1, <1>2, <1>3, OutsideFlags

\* What the tasks do outside their calls, and the scheduler.
LEMMA OtherStepsFlags ==
  ASSUME Inv, Inv',
         \/ Scheduler
         \/ \E t \in Task : \/ vTaskDelay(t) \/ ResumeScheduler(t)
                          \/ \E u \in Task : xTaskAbortDelay(t, u)
         \/ UNCHANGED vars
  PROVE  Flags!Next \/ UNCHANGED Flags!flagsVars
<1>0. KernelInv
  BY DEF Inv, CallsInv
<1>1. UNCHANGED <<uxEventBits, xItemValue, call, step, walk>>
  BY DEF Scheduler, vTaskDelay, ResumeScheduler, xTaskAbortDelay, vars, groupVars
<1>2. CASE Scheduler
  <2>1. InList' \subseteq InList /\ uxSchedulerSuspended = 0
    BY <1>0, <1>2, SwitchInList, TickInList DEF Scheduler
  <2>. QED  BY <1>1, <2>1, GiveUpFlags
<1>3. ASSUME NEW t \in Task, vTaskDelay(t) PROVE UNCHANGED Flags!flagsVars
  <2>1. InList' = InList
    BY <1>0, <1>3, TickNumbers, DelayOutsideList DEF vTaskDelay
  <2>. QED  BY <1>1, <2>1, OutsideFlags
<1>4. ASSUME NEW t \in Task, ResumeScheduler(t) PROVE UNCHANGED Flags!flagsVars
  <2>1. InList' = InList
    BY <1>0, <1>4, ResumeList DEF ResumeScheduler
  <2>. QED  BY <1>1, <2>1, OutsideFlags
<1>5. ASSUME NEW t \in Task, NEW u \in Task, xTaskAbortDelay(t, u) PROVE Flags!Next
  <2>1. InList' \subseteq InList /\ uxSchedulerSuspended = 0
    BY <1>0, <1>5, AbortInList DEF xTaskAbortDelay, Between
  <2>. QED  BY <1>1, <2>1, GiveUpFlags
<1>6. CASE UNCHANGED vars
  <2>1. InList' = InList
    BY <1>0, <1>6, GroupAlone DEF vars
  <2>. QED  BY <1>1, <2>1, OutsideFlags
<1>. QED  BY <1>2, <1>3, <1>4, <1>5, <1>6

\* Every step of a call is one of EventFlags, or none.
LEMMA CallStepFlags ==
  ASSUME Inv, Inv', NEW t \in Task, CallStep(t)
  PROVE  Flags!Next \/ UNCHANGED Flags!flagsVars
<1>1. CASE \E c \in program[t] : xEventGroupSetBits(t, c)
  BY <1>1, EnterFlags DEF xEventGroupSetBits
<1>2. CASE \E c \in program[t] : xEventGroupWaitBits(t, c)
  BY <1>2, EnterFlags DEF xEventGroupWaitBits
<1>3. CASE \E c \in program[t] : xEventGroupSync(t, c)
  BY <1>3, EnterFlags DEF xEventGroupSync
<1>4. CASE \E c \in program[t] : vEventGroupDelete(t, c)
  BY <1>4, EnterFlags DEF vEventGroupDelete
<1>5. CASE \E c \in program[t] : xEventGroupClearBits(t, c)
  BY <1>5, ClearBitsFlags
<1>6. CASE \/ SetInSync(t) \/ SetBits(t) \/ WakeMatching(t) \/ PassOver(t) \/ EndWalk(t)
           \/ ResumeAfterSet(t)
  BY <1>6, SetInSyncFlags, SetBitsFlags, WakeMatchingFlags, PassOverFlags, EndWalkFlags,
     ResumeAfterSetFlags
<1>7. CASE \/ TakeAtOnce(t) \/ FailAtOnce(t) \/ Block(t) \/ ResumeAfterTest(t)
           \/ ReadItem(t) \/ LookAgain(t)
  BY <1>7, TakeAtOnceFlags, FailAtOnceFlags, BlockFlags, ResumeAfterTestFlags, ReadItemFlags,
     LookAgainFlags
<1>8. CASE Drain(t) \/ EndDrain(t) \/ xEventGroupCreate(t)
  BY <1>8, DrainFlags, EndDrainFlags, CreateFlags
<1>9. CASE vTaskDelay(t) \/ ResumeScheduler(t) \/ \E u \in Task : xTaskAbortDelay(t, u)
  BY <1>9, OtherStepsFlags
<1>. QED  BY <1>1, <1>2, <1>3, <1>4, <1>5, <1>6, <1>7, <1>8, <1>9 DEF CallStep

\* Nobody waits at the start, and no bit is set.
LEMMA FlagsStart ==
  ASSUME EventGroupInit
  PROVE  Flags!Init
<1>1. Inv
  BY GroupInit
<1>2. /\ uxEventBits = {} /\ walk = NoWalk
      /\ xItemValue = [t \in Task |-> NoItem] /\ step = [t \in Task |-> "none"]
  BY DEF EventGroupInit
<1>3. InList = {}
  <2>1. Init
    BY DEF EventGroupInit
  <2>. QED  BY <2>1, KernelInit, OneList DEF InList
<1>4. \A t \in Task : ~Sleeps(t) /\ ~xItemValue[t].set /\ step[t] = "none"
  BY <1>1, <1>2, <1>3, SleepersNow DEF SleepersKnown, NoWalk, NoItem
<1>5. \A t \in Task : Phase(t) = "no" /\ Wants(t) = {} /\ Gets(t) = {}
  BY <1>4 DEF Phase, Wants, Gets, Answered, IsLate
<1>6. BitsSoFar = {}
  BY <1>2 DEF BitsSoFar, NoWalk
<1>. QED  BY <1>5, <1>6 DEF Flags!Init

\* The same, as one fact about the next-state relation.
LEMMA FlagsStep == Inv /\ Inv' /\ [EventGroupNext]_vars => [Flags!Next]_(Flags!flagsVars)
<1>. SUFFICES ASSUME Inv, Inv', [EventGroupNext]_vars
              PROVE  Flags!Next \/ UNCHANGED Flags!flagsVars
  OBVIOUS
<1>1. CASE Scheduler \/ UNCHANGED vars
  BY <1>1, OtherStepsFlags
<1>2. CASE \E t \in Task : CallStep(t)
  BY <1>2, CallStepFlags
<1>. QED  BY <1>1, <1>2 DEF EventGroupNext

\* The walk of xEventGroupSetBits, the nested call of xEventGroupSync and the
\* loop of vEventGroupDelete are each one step to those who wait: whatever is
\* preempted, times out or is aborted between their steps, nobody misses bits
\* that another waiter takes, and no bit is lost or taken twice.
THEOREM FlagsImplemented == EventGroupSpec => ImplementsFlags
<1>1. EventGroupInit => Flags!Init
  BY FlagsStart
<1>2. Inv /\ Inv' /\ [EventGroupNext]_vars => [Flags!Next]_(Flags!flagsVars)
  BY FlagsStep
<1>. QED  BY <1>1, <1>2, GroupAlways, PTL DEF EventGroupSpec, ImplementsFlags, Flags!Spec

-----------------------------------------------------------------------------
(* Stream buffers: the invariant *)

\* Index i of a ring of L cells, moved on by n; how many cells lie between the
\* indices t and h.
Turn(L, i, n)  == IF i + n >= L THEN i + n - L ELSE i + n
Count(L, h, t) == IF h >= t THEN h - t ELSE L + h - t

\* The count cells from index t on are whole messages: S is where they begin
\* and the last one ends.
Framed(L, buffer, t, count) ==
  \E S \in SUBSET (0 .. count) :
    /\ 0 \in S
    /\ \A s \in S : s < count =>
         buffer[Turn(L, t, s)] >= 1 /\ s + 1 + buffer[Turn(L, t, s)] \in S

CallRecord == [step : StreamSteps, size : Nat, ticks : Int, elapsed : Int, amount : Nat,
               data : Seq(Nat)]

ShapeInv ==
  /\ use \in Uses
  /\ xHead \in 0 .. xLength - 1 /\ xTail \in 0 .. xLength - 1
  /\ pucBuffer \in [0 .. xLength - 1 -> Nat]
  /\ xTriggerLevelBytes \in 1 .. xLength - 1
  /\ next \in Nat /\ tx \in CallRecord /\ rx \in CallRecord
  /\ tx.step # "none" => Writer # NULL /\ tx.size \in use.sendSizes
  /\ rx.step # "none" => Reader # NULL /\ rx.size \in use.receiveSizes

\* The scheduler is suspended by the side that is about to notify the other,
\* and by nobody else.
Suspending == {"notify", "unlock"}

TasksOK ==
  /\ state \in [Task -> States] /\ ucNotifyState \in [Task -> NotifyStates]
  /\ pending \in SUBSET Task /\ uxSchedulerSuspended \in {0, 1}
  /\ pending # {} => uxSchedulerSuspended = 1

SchedulerInv ==
  /\ TasksOK
  /\ tx.step \in Suspending => pxCurrentTCB = Writer /\ uxSchedulerSuspended = 1
  /\ rx.step \in Suspending => pxCurrentTCB = Reader /\ uxSchedulerSuspended = 1
  /\ uxSchedulerSuspended = 1 => tx.step \in Suspending \/ rx.step \in Suspending

\* What the writer has measured is there, for only the reader makes space; what
\* it has copied lies behind the head, a message with its length in front.
Measured == {"wait", "woken", "clear", "timeout", "copy"}

Copied ==
  /\ Len(tx.data) > 0
  /\ Len(tx.data) + xBytesToStoreMessageLength <= xStreamBufferSpacesAvailable
  /\ tx.amount = Advance(xHead, Len(tx.data) + xBytesToStoreMessageLength)
  /\ tx.data = Numbered(Len(tx.data))
  /\ \A i \in 0 .. Len(tx.data) + xBytesToStoreMessageLength - 1 :
       pucBuffer[Advance(xHead, i)] = Cells(Len(tx.data))[i + 1]

WriterInv ==
  /\ tx.step \in Measured => tx.amount <= xStreamBufferSpacesAvailable
  /\ tx.step = "move" => Copied

\* What the reader has measured is there and, of messages, holds the first one;
\* what it has copied lies at the tail.
ReaderInv ==
  /\ rx.step = "copy" =>
       /\ xBytesToStoreMessageLength < rx.amount /\ rx.amount <= prvBytesInBuffer
       /\ IsMessageBuffer => pucBuffer[xTail] + 1 <= rx.amount
  /\ rx.step = "move" =>
       LET k == Len(rx.data)
       IN  /\ k > 0 /\ k + xBytesToStoreMessageLength <= prvBytesInBuffer
           /\ IsMessageBuffer => k = pucBuffer[xTail]
           /\ \A i \in 1 .. k :
                rx.data[i] = pucBuffer[Advance(xTail, xBytesToStoreMessageLength + i - 1)]

MessageInv == IsMessageBuffer => Framed(xLength, pucBuffer, xTail, prvBytesInBuffer)

RingInv == WriterInv /\ ReaderInv /\ MessageInv

\* A side is noted from its test to its waking, unless it was notified since;
\* it sleeps in between.
WaitOK(t, at, note) ==
  /\ note \in {NULL, t}
  /\ note # NULL => at \in {"wait", "woken", "clear"}
  /\ at = "wait" => note = t \/ ucNotifyState[t] = "received"
  /\ Sleeping(t) => at = "woken" /\ (t \in pending \/ (note = t /\ ucNotifyState[t] = "waiting"))

\* Nobody is noted for what is there already, unless the other side is on its
\* way to notify it.
ReaderTold ==
  xTaskWaitingToReceive # NULL /\ prvBytesInBuffer >= xTriggerLevelBytes =>
    tx.step \in {"trigger", "lock", "notify"}
WriterTold ==
  xTaskWaitingToSend # NULL /\ xStreamBufferSpacesAvailable >= xRequiredSpace(tx.size) =>
    rx.step \in {"lock", "notify"}

WaitsInv ==
  /\ WaitOK(Writer, tx.step, xTaskWaitingToSend)
  /\ WaitOK(Reader, rx.step, xTaskWaitingToReceive)
  /\ ReaderTold /\ WriterTold

StreamInv == ShapeInv /\ SchedulerInv /\ RingInv /\ WaitsInv

-----------------------------------------------------------------------------
(* The ring *)

\* An index that is moved on by at most a turn stays in the ring.
LEMMA TurnTypes ==
  ASSUME NEW L \in Nat, NEW i \in 0 .. L - 1, NEW n \in 0 .. L
  PROVE  Turn(L, i, n) \in 0 .. L - 1
BY DEF Turn

\* From the tail on, the head is as many cells away as there are bytes.
LEMMA CountTypes ==
  ASSUME NEW L \in Nat, NEW h \in 0 .. L - 1, NEW t \in 0 .. L - 1
  PROVE  Count(L, h, t) \in 0 .. L - 1 /\ Turn(L, t, Count(L, h, t)) = h
BY DEF Count, Turn

\* Two moves on are one.
LEMMA TurnTwice ==
  ASSUME NEW L \in Nat, NEW i \in 0 .. L - 1, NEW m \in 0 .. L, NEW n \in 0 .. L, m + n <= L
  PROVE  Turn(L, Turn(L, i, m), n) = Turn(L, i, m + n)
BY DEF Turn

\* Within a turn every cell has one place.
LEMMA TurnInjective ==
  ASSUME NEW L \in Nat, NEW i \in 0 .. L - 1, NEW m \in 0 .. L - 1, NEW n \in 0 .. L - 1,
         Turn(L, i, m) = Turn(L, i, n)
  PROVE  m = n
BY DEF Turn

\* A head moved on by n cells of the space adds n cells to the content.
LEMMA HeadMoves ==
  ASSUME NEW L \in Nat, NEW h \in 0 .. L - 1, NEW t \in 0 .. L - 1,
         NEW n \in 0 .. L - 1 - Count(L, h, t)
  PROVE  Count(L, Turn(L, h, n), t) = Count(L, h, t) + n
BY DEF Count, Turn

\* A tail moved on by n cells of the content takes n cells from it.
LEMMA TailMoves ==
  ASSUME NEW L \in Nat, NEW h \in 0 .. L - 1, NEW t \in 0 .. L - 1,
         NEW n \in 0 .. Count(L, h, t)
  PROVE  Count(L, h, Turn(L, t, n)) = Count(L, h, t) - n
BY DEF Count, Turn

\* Less than two turns: the remainder subtracts one, or none.
LEMMA Remainder ==
  ASSUME NEW L \in Nat, NEW x \in 0 .. 2 * L - 1
  PROVE  x % L = IF x < L THEN x ELSE x - L
<1>1. L > 0
  OBVIOUS
<1>2. CASE x < L
  BY <1>1, <1>2
<1>3. CASE x >= L
  <2>1. PICK y \in 0 .. L - 1 : x = y + L
    <3>1. x - L \in 0 .. L - 1 /\ x = (x - L) + L
      BY <1>3
    <3>. QED  BY <3>1
  <2>2. (y + L) % L = y
    BY <1>1
  <2>. QED  BY <2>1, <2>2
<1>. QED  BY <1>2, <1>3

\* The copying counts its cells with a remainder, the indices with a
\* comparison: they agree within a turn.
LEMMA TurnIsRemainder ==
  ASSUME NEW L \in Nat, NEW i \in 0 .. L - 1, NEW n \in 0 .. L - 1
  PROVE  (i + n) % L = Turn(L, i, n)
<1>1. PICK x \in 0 .. 2 * L - 1 : x = i + n
  OBVIOUS
<1>2. x % L = IF x < L THEN x ELSE x - L
  BY Remainder
<1>. QED  BY <1>1, <1>2 DEF Turn

\* The same of the k-th cell, counted from one.
LEMMA CellIsTurn ==
  ASSUME NEW L \in Nat, NEW i \in 0 .. L - 1, NEW k \in 1 .. L
  PROVE  (i + k - 1) % L = Turn(L, i, k - 1) /\ Turn(L, i, k - 1) \in 0 .. L - 1
<1>1. PICK n \in 0 .. L - 1 : n = k - 1
  OBVIOUS
<1>2. i + k - 1 = i + n
  BY <1>1
<1>3. Turn(L, i, n) \in 0 .. L - 1
  BY DEF Turn
<1>. QED  BY <1>1, <1>2, <1>3, TurnIsRemainder

-----------------------------------------------------------------------------
(* Messages behind each other *)

\* No cells are no messages.
LEMMA FramedEmpty ==
  ASSUME NEW L, NEW buffer, NEW t
  PROVE  Framed(L, buffer, t, 0)
<1>1. {0} \in SUBSET (0 .. 0) /\ \A s \in {0} : ~(s < 0)
  OBVIOUS
<1>. QED  BY <1>1 DEF Framed

\* Cells of other places may be written.
LEMMA FramedKept ==
  ASSUME NEW L, NEW t, NEW count \in Nat, NEW buffer, NEW other, Framed(L, buffer, t, count),
         \A i \in 0 .. count - 1 : other[Turn(L, t, i)] = buffer[Turn(L, t, i)]
  PROVE  Framed(L, other, t, count)
<1>1. PICK S \in SUBSET (0 .. count) :
        /\ 0 \in S
        /\ \A s \in S : s < count =>
             buffer[Turn(L, t, s)] >= 1 /\ s + 1 + buffer[Turn(L, t, s)] \in S
  BY DEF Framed
<1>2. \A s \in S : s < count =>
        other[Turn(L, t, s)] >= 1 /\ s + 1 + other[Turn(L, t, s)] \in S
  <2>. SUFFICES ASSUME NEW s \in S, s < count
                PROVE  other[Turn(L, t, s)] >= 1 /\ s + 1 + other[Turn(L, t, s)] \in S
    OBVIOUS
  <2>1. s \in 0 .. count - 1
    OBVIOUS
  <2>2. other[Turn(L, t, s)] = buffer[Turn(L, t, s)]
    BY <2>1
  <2>. QED  BY <1>1, <2>2
<1>. QED  BY <1>1, <1>2 DEF Framed

\* The first message and what is behind it.
LEMMA FramedFirst ==
  ASSUME NEW L \in Nat, NEW t \in 0 .. L - 1, NEW count \in 1 .. L,
         NEW buffer \in [0 .. L - 1 -> Nat], Framed(L, buffer, t, count)
  PROVE  /\ buffer[t] >= 1 /\ buffer[t] + 1 <= count
         /\ Framed(L, buffer, Turn(L, t, buffer[t] + 1), count - (buffer[t] + 1))
<1>1. PICK S \in SUBSET (0 .. count) :
        /\ 0 \in S
        /\ \A s \in S : s < count =>
             buffer[Turn(L, t, s)] >= 1 /\ s + 1 + buffer[Turn(L, t, s)] \in S
  BY DEF Framed
<1>2. Turn(L, t, 0) = t
  BY DEF Turn
<1>3. buffer[t] >= 1 /\ buffer[t] + 1 \in S
  <2>1. buffer[Turn(L, t, 0)] >= 1 /\ 0 + 1 + buffer[Turn(L, t, 0)] \in S
    BY <1>1
  <2>. QED  BY <1>2, <2>1
<1>. PICK n \in Nat : n = buffer[t] + 1
  BY <1>3
<1>4. n \in S /\ n \in 2 .. count
  BY <1>3
<1>. DEFINE R == {s \in 0 .. count - n : s + n \in S}
<1>5. R \in SUBSET (0 .. count - n) /\ 0 \in R
  BY <1>4
<1>6. \A s \in R : s < count - n =>
        /\ buffer[Turn(L, Turn(L, t, n), s)] >= 1
        /\ s + 1 + buffer[Turn(L, Turn(L, t, n), s)] \in R
  <2>. SUFFICES ASSUME NEW s \in R, s < count - n
                PROVE  /\ buffer[Turn(L, Turn(L, t, n), s)] >= 1
                       /\ s + 1 + buffer[Turn(L, Turn(L, t, n), s)] \in R
    OBVIOUS
  <2>1. s \in Nat /\ s + n \in S /\ s + n < count /\ s + n \in 0 .. L
    <3>1. s \in Nat /\ s + n \in S /\ s + n < count
      BY <1>4
    <3>. HIDE DEF R
    <3>2. count <= L
      OBVIOUS
    <3>3. s + n >= 0
      BY <3>1
    <3>4. s + n <= L
      BY <1>4, <3>1, <3>2
    <3>5. s + n \in Int
      BY <1>4, <3>1
    <3>. QED  BY <3>1, <3>3, <3>4, <3>5
  <2>2. Turn(L, Turn(L, t, n), s) = Turn(L, t, s + n)
    BY <1>4, <2>1, TurnTwice
  <2>3. PICK v \in Nat : v = buffer[Turn(L, t, s + n)]
    <3>1. Turn(L, t, s + n) \in 0 .. L - 1
      BY <2>1, TurnTypes
    <3>. QED  BY <3>1
  <2>4. v >= 1 /\ s + n + 1 + v \in S
    BY <1>1, <2>1, <2>3
  <2>5. (s + 1 + v) + n \in S /\ s + n + 1 + v \in 0 .. count
    <3>1. (s + 1 + v) + n = s + n + 1 + v
      BY <1>4, <2>1
    <3>. QED  BY <1>1, <2>4, <3>1
  <2>6. s + 1 + v \in 0 .. count - n
    BY <1>4, <2>1, <2>5
  <2>. QED  BY <2>2, <2>3, <2>4, <2>5, <2>6
<1>7. Framed(L, buffer, Turn(L, t, n), count - n)
  BY <1>5, <1>6 DEF Framed
<1>. QED  BY <1>3, <1>4, <1>7

\* One more message.
LEMMA FramedLast ==
  ASSUME NEW L \in Nat, NEW t \in 0 .. L - 1, NEW count \in Nat, NEW k \in Nat \ {0},
         NEW buffer, Framed(L, buffer, t, count), buffer[Turn(L, t, count)] = k
  PROVE  Framed(L, buffer, t, count + k + 1)
<1>1. PICK S \in SUBSET (0 .. count) :
        /\ 0 \in S
        /\ \A s \in S : s < count =>
             buffer[Turn(L, t, s)] >= 1 /\ s + 1 + buffer[Turn(L, t, s)] \in S
  BY DEF Framed
<1>. DEFINE R == S \cup {count + k + 1}
<1>2. R \in SUBSET (0 .. count + k + 1) /\ 0 \in R
  BY <1>1
<1>3. \A s \in R : s < count + k + 1 =>
        buffer[Turn(L, t, s)] >= 1 /\ s + 1 + buffer[Turn(L, t, s)] \in R
  <2>. SUFFICES ASSUME NEW s \in R, s < count + k + 1
                PROVE  buffer[Turn(L, t, s)] >= 1 /\ s + 1 + buffer[Turn(L, t, s)] \in R
    OBVIOUS
  <2>1. s \in S
    OBVIOUS
  <2>2. CASE s < count
    BY <1>1, <2>1, <2>2
  <2>3. CASE s = count
    <3>1. s + 1 + k = count + k + 1
      BY <2>3
    <3>. QED  BY <2>3, <3>1
  <2>. QED  BY <2>1, <2>2, <2>3
<1>. QED  BY <1>2, <1>3 DEF Framed

-----------------------------------------------------------------------------
(* What the invariant says of the ring and of its two sides *)

\* The smaller of two numbers.
LEMMA MinOfTwo ==
  ASSUME NEW a \in Int, NEW b \in Int
  PROVE  Min({a, b}) = IF a <= b THEN a ELSE b
<1>. DEFINE m == IF a <= b THEN a ELSE b
<1>1. m \in {a, b} /\ \A y \in {a, b} : m =< y
  OBVIOUS
<1>2. \A x \in {a, b} : (\A y \in {a, b} : x =< y) => x = m
  OBVIOUS
<1>. QED  BY <1>1, <1>2 DEF Min

\* What the assumption says of one use.
LEMMA UsesAre ==
  ASSUME NEW u \in Uses
  PROVE  /\ u.writer \in Task \cup {NULL} /\ u.reader \in Task \cup {NULL}
         /\ u.writer = u.reader => u.writer = NULL
         /\ u.isMessageBuffer \in BOOLEAN
         /\ u.length \in Nat /\ u.length >= 2 /\ u.trigger \in 1 .. u.length - 1
         /\ u.triggers \subseteq Nat
         /\ u.sendTimes \subseteq Nat /\ u.receiveTimes \subseteq Nat
         /\ u.sendSizes \subseteq Nat \ {0} /\ u.receiveSizes \subseteq Nat \ {0}
<1>1. portMAX_DELAY \in Int
  BY KernelAssumption DEF portMAX_DELAY
<1>2. u.length \in 1 .. Numbers - 1 /\ u.trigger \in 1 .. u.length - 1 /\ Numbers \in Nat
  BY StreamBuffersAssumption
<1>3. u.length \in Nat /\ u.length >= 2
  BY <1>2
<1>4. u.sendTimes \subseteq Nat /\ u.receiveTimes \subseteq Nat
  BY <1>1, StreamBuffersAssumption
<1>5. u.sendSizes \subseteq Nat \ {0} /\ u.receiveSizes \subseteq Nat \ {0}
  BY StreamBuffersAssumption
<1>. QED  BY <1>2, <1>3, <1>4, <1>5, StreamBuffersAssumption

\* What it says of the buffer in use: writer and reader are two.
LEMMA Sides ==
  ASSUME use \in Uses
  PROVE  /\ Writer \in Task \cup {NULL} /\ Reader \in Task \cup {NULL} /\ NULL \notin Task
         /\ Writer = Reader => Writer = NULL
         /\ IsMessageBuffer \in BOOLEAN /\ xLength \in Nat /\ xLength >= 2
         /\ xBytesToStoreMessageLength = IF IsMessageBuffer THEN 1 ELSE 0
         /\ xBytesToStoreMessageLength \in {0, 1}
BY UsesAre, StreamBuffersAssumption
   DEF Writer, Reader, IsMessageBuffer, xLength, xBytesToStoreMessageLength

\* The bytes and the spaces: together they are all cells but one.
LEMMA RingIs ==
  ASSUME ShapeInv
  PROVE  /\ prvBytesInBuffer = Count(xLength, xHead, xTail)
         /\ prvBytesInBuffer \in 0 .. xLength - 1
         /\ xStreamBufferSpacesAvailable = xLength - 1 - prvBytesInBuffer
         /\ xStreamBufferSpacesAvailable \in 0 .. xLength - 1
<1>1. xLength \in Nat /\ xHead \in 0 .. xLength - 1 /\ xTail \in 0 .. xLength - 1
  BY Sides DEF ShapeInv
<1>2. prvBytesInBuffer = Count(xLength, xHead, xTail)
  BY <1>1 DEF prvBytesInBuffer, Count
<1>3. xStreamBufferSpacesAvailable = xLength - 1 - Count(xLength, xHead, xTail)
  BY <1>1 DEF xStreamBufferSpacesAvailable, Count
<1>4. Count(xLength, xHead, xTail) \in 0 .. xLength - 1
  BY <1>1, CountTypes
<1>. QED  BY <1>1, <1>2, <1>3, <1>4

\* What a send waits for: a message with its length, or what fits of a stream.
LEMMA Required ==
  ASSUME use \in Uses, NEW n \in Nat \ {0}
  PROVE  /\ xRequiredSpace(n) \in Nat
         /\ IsMessageBuffer => xRequiredSpace(n) = n + 1
         /\ ~IsMessageBuffer => xRequiredSpace(n) = IF n <= xLength - 1 THEN n ELSE xLength - 1
<1>1. Min({n, xLength - 1}) = IF n <= xLength - 1 THEN n ELSE xLength - 1
  BY Sides, MinOfTwo
<1>. QED  BY <1>1, Sides DEF xRequiredSpace, xMaxReportedSpace

\* What is not the buffer's leaves it alone.
LEMMA SameBuffer ==
  ASSUME UNCHANGED <<use, bufferVars>>
  PROVE  /\ Writer' = Writer /\ Reader' = Reader /\ xLength' = xLength
         /\ IsMessageBuffer' = IsMessageBuffer
         /\ xBytesToStoreMessageLength' = xBytesToStoreMessageLength
         /\ prvBytesInBuffer' = prvBytesInBuffer
         /\ xStreamBufferSpacesAvailable' = xStreamBufferSpacesAvailable
         /\ xHead' = xHead /\ xTail' = xTail /\ pucBuffer' = pucBuffer
         /\ xTriggerLevelBytes' = xTriggerLevelBytes
         /\ \A n : xRequiredSpace(n)' = xRequiredSpace(n)
BY DEF xRequiredSpace, xMaxReportedSpace, bufferVars, Writer, Reader, xLength, IsMessageBuffer, xBytesToStoreMessageLength,
       prvBytesInBuffer, xStreamBufferSpacesAvailable

-----------------------------------------------------------------------------
(* Steps that leave the buffer alone *)

\* Where there is something to read there is a whole message, or a byte.
LEMMA FirstMessage ==
  ASSUME ShapeInv, MessageInv, ~NothingToRead
  PROVE  /\ xBytesToStoreMessageLength < prvBytesInBuffer
         /\ IsMessageBuffer => pucBuffer[xTail] >= 1 /\ pucBuffer[xTail] + 1 <= prvBytesInBuffer
<1>1. xBytesToStoreMessageLength < prvBytesInBuffer
  BY RingIs, Sides DEF NothingToRead, ShapeInv
<1>2. ASSUME IsMessageBuffer
      PROVE  pucBuffer[xTail] >= 1 /\ pucBuffer[xTail] + 1 <= prvBytesInBuffer
  <2>1. /\ xLength \in Nat /\ xTail \in 0 .. xLength - 1 /\ pucBuffer \in [0 .. xLength - 1 -> Nat]
        /\ prvBytesInBuffer \in 1 .. xLength
    BY <1>1, RingIs, Sides DEF ShapeInv
  <2>2. Framed(xLength, pucBuffer, xTail, prvBytesInBuffer)
    BY <1>2 DEF MessageInv
  <2>. QED  BY <2>1, <2>2, FramedFirst
<1>. QED  BY <1>1, <1>2

\* Each side keeps what it measured, or measures.
LEMMA QuietRing ==
  ASSUME ShapeInv, RingInv, UNCHANGED <<use, bufferVars, next>>,
         tx'.step \in Measured => \/ tx.step \in Measured /\ tx'.amount = tx.amount
                                  \/ tx'.amount = xStreamBufferSpacesAvailable,
         tx'.step = "move" => tx.step = "move" /\ tx'.amount = tx.amount /\ tx'.data = tx.data,
         rx'.step = "copy" => rx' = rx \/ (~NothingToRead /\ rx'.amount = prvBytesInBuffer),
         rx'.step = "move" => rx' = rx
  PROVE  RingInv'
<1>. USE SameBuffer
<1>1. WriterInv'
  <2>1. tx'.step \in Measured => tx'.amount <= xStreamBufferSpacesAvailable
    BY RingIs DEF RingInv, WriterInv
  <2>2. ASSUME tx'.step = "move"
        PROVE  Copied'
    <3>1. Copied /\ tx'.amount = tx.amount /\ tx'.data = tx.data
      BY <2>2 DEF RingInv, WriterInv
    <3>2. \A i, n : Advance(i, n)' = Advance(i, n)
      BY DEF Advance
    <3>3. \A k : Numbered(k)' = Numbered(k) /\ Cells(k)' = Cells(k)
      BY DEF Numbered, Cells
    <3>. QED  BY <3>1, <3>2, <3>3 DEF Copied
  <2>. QED  BY <2>1, <2>2 DEF WriterInv
<1>2. ReaderInv'
  <2>1. CASE rx' = rx
    BY <2>1 DEF RingInv, ReaderInv, Advance
  <2>2. CASE rx'.step = "copy" /\ ~NothingToRead /\ rx'.amount = prvBytesInBuffer
    BY <2>2, FirstMessage, RingIs DEF RingInv, ReaderInv
  <2>3. CASE rx'.step \notin {"copy", "move"}
    BY <2>3 DEF ReaderInv
  <2>. QED  BY <2>1, <2>2, <2>3
<1>3. MessageInv'
  BY DEF RingInv, MessageInv
<1>. QED  BY <1>1, <1>2, <1>3 DEF RingInv

\* A step that leaves the scheduler alone and keeps both sides where they
\* have suspended it, or have not.
LEMMA QuietScheduler ==
  ASSUME SchedulerInv, UNCHANGED <<use, kernelVars>>,
         tx'.step \in Suspending <=> tx.step \in Suspending,
         rx'.step \in Suspending <=> rx.step \in Suspending
  PROVE  SchedulerInv'
BY DEF SchedulerInv, TasksOK, kernelVars, flagVars, Writer, Reader

\* The updates that the steps make of a call keep it a call.
LEMMA StreamCallRecords ==
  /\ Idling \in CallRecord
  /\ \A c \in CallRecord, s \in StreamSteps : [c EXCEPT !.step = s] \in CallRecord
  /\ \A c \in CallRecord, s \in StreamSteps, n \in Nat, k \in Int :
       [c EXCEPT !.step = s, !.size = n, !.ticks = k] \in CallRecord
  /\ \A c \in CallRecord, s \in StreamSteps, k \in Int, e \in Int :
       [c EXCEPT !.ticks = k, !.elapsed = e, !.step = s] \in CallRecord
  /\ \A c \in CallRecord, s \in StreamSteps, m \in Nat :
       [c EXCEPT !.amount = m, !.step = s] \in CallRecord
  /\ \A c \in CallRecord, s \in StreamSteps, m \in Nat, d \in Seq(Nat) :
       [c EXCEPT !.data = d, !.step = s, !.amount = m] \in CallRecord
  /\ \A c \in CallRecord, s \in StreamSteps, d \in Seq(Nat) :
       [c EXCEPT !.data = d, !.step = s] \in CallRecord
  /\ \A c \in CallRecord, e \in Int : [c EXCEPT !.elapsed = e] \in CallRecord
<1>1. <<>> \in Seq(Nat) /\ "none" \in StreamSteps
  BY DEF StreamSteps
<1>2. Idling \in CallRecord
  BY <1>1 DEF Idling, CallRecord
<1>3. \A c \in CallRecord, s \in StreamSteps : [c EXCEPT !.step = s] \in CallRecord
  BY DEF CallRecord
<1>4. \A c \in CallRecord, s \in StreamSteps, n \in Nat, k \in Int :
        [c EXCEPT !.step = s, !.size = n, !.ticks = k] \in CallRecord
  BY DEF CallRecord
<1>5. \A c \in CallRecord, s \in StreamSteps, k \in Int, e \in Int :
        [c EXCEPT !.ticks = k, !.elapsed = e, !.step = s] \in CallRecord
  BY DEF CallRecord
<1>6. \A c \in CallRecord, s \in StreamSteps, m \in Nat :
        [c EXCEPT !.amount = m, !.step = s] \in CallRecord
  BY DEF CallRecord
<1>7. \A c \in CallRecord, s \in StreamSteps, m \in Nat, d \in Seq(Nat) :
        [c EXCEPT !.data = d, !.step = s, !.amount = m] \in CallRecord
  BY DEF CallRecord
<1>8. \A c \in CallRecord, s \in StreamSteps, d \in Seq(Nat) :
        [c EXCEPT !.data = d, !.step = s] \in CallRecord
  BY DEF CallRecord
<1>9. \A c \in CallRecord, e \in Int : [c EXCEPT !.elapsed = e] \in CallRecord
  BY DEF CallRecord
<1>. QED  BY <1>2, <1>3, <1>4, <1>5, <1>6, <1>7, <1>8, <1>9

\* A step that moves only the calls.
LEMMA ShapeKept ==
  ASSUME ShapeInv, UNCHANGED <<use, bufferVars, next>>, tx' \in CallRecord, rx' \in CallRecord,
         tx'.step # "none" => Writer # NULL /\ tx'.size \in use.sendSizes,
         rx'.step # "none" => Reader # NULL /\ rx'.size \in use.receiveSizes
  PROVE  ShapeInv'
BY SameBuffer DEF ShapeInv, bufferVars

\* A call begins.
LEMMA SendKeeps ==
  ASSUME StreamInv, NEW n \in use.sendSizes, NEW ticks \in use.sendTimes, xStreamBufferSend(n, ticks)
  PROVE  StreamInv'
<1>. USE SameBuffer DEF StreamInv
<1>. DEFINE waits == ticks > 0 /\ (IsMessageBuffer => xRequiredSpace(n) <= xMaxReportedSpace)
<1>1. /\ tx.step = "none" /\ Writer # NULL
      /\ tx' = [Idling EXCEPT !.step = IF waits THEN "check" ELSE "measure", !.size = n,
                              !.ticks = IF waits THEN ticks ELSE 0]
      /\ UNCHANGED <<use, kernelVars, bufferVars, waiterVars, rx, next>>
  BY DEF xStreamBufferSend, WriterAt, dataVars
<1>. HIDE DEF waits
<1>2. n \in Nat /\ ticks \in Nat
  BY UsesAre DEF ShapeInv
<1>3. tx'.step \in {"check", "measure"} /\ tx'.size = n
  BY <1>1 DEF Idling
<1>4. tx' \in CallRecord
  <2>1. PICK s \in {"check", "measure"}, k \in Nat :
          tx' = [Idling EXCEPT !.step = s, !.size = n, !.ticks = k]
    BY <1>1, <1>2
  <2>2. s \in StreamSteps /\ k \in Int
    BY <2>1 DEF StreamSteps
  <2>. QED  BY <1>2, <2>1, <2>2, StreamCallRecords
<1>5. ShapeInv'
  BY <1>1, <1>3, <1>4, ShapeKept DEF ShapeInv
<1>6. SchedulerInv'
  BY <1>1, <1>3, QuietScheduler DEF Suspending
<1>7. RingInv'
  BY <1>1, <1>3, QuietRing DEF Measured
<1>8. WaitsInv'
  BY <1>1, <1>3 DEF WaitsInv, ReaderTold, WriterTold, WaitOK, waiterVars, kernelVars, flagVars, Sleeping
<1>. QED  BY <1>5, <1>6, <1>7, <1>8

\* What a side does to its own notification and its own sleep.
LEMMA OwnSteps ==
  ASSUME TasksOK, NEW t \in Task, NEW n,
         ClearNotification(t) \/ NotifyWait(t, n) \/ SetNotifyState(t, "notWaiting")
  PROVE  /\ TasksOK' /\ UNCHANGED <<pending, uxSchedulerSuspended, pxCurrentTCB>>
         /\ \A u \in Task \ {t} : state'[u] = state[u] /\ ucNotifyState'[u] = ucNotifyState[u]
<1>1. CASE ClearNotification(t)
  BY <1>1 DEF ClearNotification, NotifyStateClear, TasksOK, NotifyStates, kernelVars, flagVars
<1>2. CASE NotifyWait(t, n)
  BY <1>2 DEF NotifyWait, NotifyBlock, MoveTo, TasksOK, NotifyStates, States, kernelVars, flagVars
<1>3. CASE SetNotifyState(t, "notWaiting")
  BY <1>3 DEF SetNotifyState, TasksOK, NotifyStates
<1>. QED  BY <1>1, <1>2, <1>3

\* The same of a step that puts a task to sleep or changes its notification.
LEMMA OwnScheduler ==
  ASSUME SchedulerInv, UNCHANGED use, TasksOK', UNCHANGED <<uxSchedulerSuspended, pxCurrentTCB>>,
         tx'.step \in Suspending <=> tx.step \in Suspending,
         rx'.step \in Suspending <=> rx.step \in Suspending
  PROVE  SchedulerInv'
BY DEF SchedulerInv, Writer, Reader

\* The test of the space and the note are one critical section: who is noted
\* has seen too little space.
LEMMA SendCheckKeeps ==
  ASSUME StreamInv, SendCheck
  PROVE  StreamInv'
<1>. USE SameBuffer DEF StreamInv
<1>1. /\ tx.step = "check" /\ Writer # NULL /\ Writer \in Task /\ tx \in CallRecord
      /\ UNCHANGED <<use, bufferVars, xTaskWaitingToReceive, rx, next>>
  BY Sides DEF SendCheck, WriterAt, dataVars, ShapeInv
<1>0. xStreamBufferSpacesAvailable \in Nat
  BY RingIs, Sides DEF ShapeInv
<1>2. CASE xStreamBufferSpacesAvailable < xRequiredSpace(tx.size)
  <2>1. /\ ClearNotification(Writer) /\ xTaskWaitingToSend' = Writer
        /\ tx' = [tx EXCEPT !.amount = xStreamBufferSpacesAvailable, !.step = "wait"]
    BY <1>2 DEF SendCheck
  <2>2. /\ tx' \in CallRecord /\ tx'.step = "wait" /\ tx'.size = tx.size
        /\ tx'.amount = xStreamBufferSpacesAvailable
    <3>1. tx' \in CallRecord
      BY <1>0, <1>1, <2>1, StreamCallRecords, Zenon DEF StreamSteps
    <3>. QED  BY <1>1, <2>1, <3>1, Zenon DEF CallRecord
  <2>3. ShapeInv'
    BY <1>1, <2>2, ShapeKept DEF ShapeInv
  <2>4. /\ TasksOK' /\ UNCHANGED <<pending, uxSchedulerSuspended, pxCurrentTCB>>
        /\ \A u \in Task \ {Writer} : state'[u] = state[u] /\ ucNotifyState'[u] = ucNotifyState[u]
    BY <1>1, <2>1, OwnSteps DEF SchedulerInv
  <2>5. SchedulerInv'
    BY <1>1, <2>2, <2>4, OwnScheduler DEF Suspending
  <2>6. RingInv'
    BY <1>1, <2>2, QuietRing DEF Measured
  <2>7. state' = state
    BY <2>1 DEF ClearNotification, NotifyStateClear, kernelVars
  <2>8. WaitOK(Writer, tx.step, xTaskWaitingToSend)'
    BY <1>1, <2>1, <2>2, <2>7 DEF WaitsInv, WaitOK, Sleeping
  <2>9. WaitOK(Reader, rx.step, xTaskWaitingToReceive)'
    BY <1>1, <2>4, <2>7, Sides DEF WaitsInv, WaitOK, Sleeping, ShapeInv
  <2>10. WriterTold'
    <3>1. xRequiredSpace(tx.size) \in Nat
      BY <1>1, Required, UsesAre DEF ShapeInv
    <3>2. xRequiredSpace(tx.size)' = xRequiredSpace(tx.size)
      BY <1>1, <2>2
    <3>. QED  BY <1>0, <1>1, <1>2, <3>1, <3>2 DEF WriterTold
  <2>11. WaitsInv'
    BY <1>1, <2>2, <2>8, <2>9, <2>10 DEF WaitsInv, ReaderTold
  <2>. QED  BY <2>3, <2>5, <2>6, <2>11
<1>3. CASE ~(xStreamBufferSpacesAvailable < xRequiredSpace(tx.size))
  <2>1. /\ tx' = [tx EXCEPT !.amount = xStreamBufferSpacesAvailable, !.step = "copy"]
        /\ UNCHANGED <<kernelVars, xTaskWaitingToSend>>
    BY <1>3 DEF SendCheck
  <2>2. /\ tx' \in CallRecord /\ tx'.step = "copy" /\ tx'.size = tx.size
        /\ tx'.amount = xStreamBufferSpacesAvailable
    <3>1. tx' \in CallRecord
      BY <1>0, <1>1, <2>1, StreamCallRecords, Zenon DEF StreamSteps
    <3>. QED  BY <1>1, <2>1, <3>1, Zenon DEF CallRecord
  <2>3. ShapeInv'
    BY <1>1, <2>2, ShapeKept DEF ShapeInv
  <2>4. SchedulerInv'
    BY <1>1, <2>1, <2>2, QuietScheduler DEF Suspending
  <2>5. RingInv'
    BY <1>1, <2>2, QuietRing DEF Measured
  <2>6. WaitsInv'
    BY <1>1, <2>1, <2>2 DEF WaitsInv, ReaderTold, WriterTold, WaitOK, Sleeping, kernelVars, flagVars
  <2>. QED  BY <2>3, <2>4, <2>5, <2>6
<1>. QED  BY <1>2, <1>3

\* A step of the writer among its own variables, outside of its wait.
LEMMA SendQuietly ==
  ASSUME StreamInv, Writer # NULL,
         UNCHANGED <<use, kernelVars, bufferVars, xTaskWaitingToReceive, rx, next>>,
         xTaskWaitingToSend' \in {xTaskWaitingToSend, NULL},
         xTaskWaitingToSend' # NULL => tx'.step = "clear",
         tx.step \notin Suspending \cup {"none", "wait", "woken"},
         tx'.step \notin Suspending \cup {"move", "wait", "woken"},
         tx' \in CallRecord, tx'.step # "none" => tx'.size = tx.size,
         tx'.step \in Measured => \/ tx.step \in Measured /\ tx'.amount = tx.amount
                                  \/ tx'.amount = xStreamBufferSpacesAvailable,
         tx.step = "trigger" => tx'.step = "lock" \/ prvBytesInBuffer < xTriggerLevelBytes,
         tx.step # "lock"
  PROVE  StreamInv'
<1>. USE SameBuffer DEF StreamInv
<1>1. ShapeInv'
  BY ShapeKept DEF ShapeInv
<1>2. SchedulerInv'
  BY QuietScheduler
<1>3. RingInv'
  BY QuietRing
<1>4. WaitOK(Writer, tx.step, xTaskWaitingToSend)'
  BY DEF WaitsInv, WaitOK, Sleeping, kernelVars, flagVars
<1>5. WaitOK(Reader, rx.step, xTaskWaitingToReceive)'
  BY DEF WaitsInv, WaitOK, Sleeping, kernelVars, flagVars
<1>6. WriterTold'
  <2>. SUFFICES ASSUME xTaskWaitingToSend' # NULL,
                       (xStreamBufferSpacesAvailable >= xRequiredSpace(tx.size))'
                PROVE  rx'.step \in {"lock", "notify"}
    BY DEF WriterTold
  <2>1. xRequiredSpace(tx.size)' = xRequiredSpace(tx.size) /\ xTaskWaitingToSend # NULL
    OBVIOUS
  <2>. QED  BY <2>1 DEF WaitsInv, WriterTold
<1>7. ReaderTold'
  <2>. SUFFICES ASSUME xTaskWaitingToReceive # NULL, prvBytesInBuffer >= xTriggerLevelBytes
                PROVE  tx'.step \in {"trigger", "lock", "notify"}
    BY DEF ReaderTold
  <2>1. tx.step = "trigger"
    BY DEF WaitsInv, ReaderTold, Suspending
  <2>2. prvBytesInBuffer \in Int /\ xTriggerLevelBytes \in Int
    BY RingIs DEF ShapeInv
  <2>. QED  BY <2>1, <2>2
<1>. QED  BY <1>1, <1>2, <1>3, <1>4, <1>5, <1>6, <1>7 DEF WaitsInv

\* The same of the reader.
LEMMA ReceiveQuietly ==
  ASSUME StreamInv, Reader # NULL,
         UNCHANGED <<use, kernelVars, bufferVars, xTaskWaitingToSend, tx, next>>,
         xTaskWaitingToReceive' \in {xTaskWaitingToReceive, NULL},
         xTaskWaitingToReceive' # NULL => rx'.step = "clear",
         rx.step \notin Suspending \cup {"none", "lock", "wait", "woken"},
         rx'.step \notin Suspending \cup {"move", "wait", "woken"},
         rx' \in CallRecord, rx'.step # "none" => rx'.size = rx.size,
         rx'.step = "copy" => ~NothingToRead /\ rx'.amount = prvBytesInBuffer
  PROVE  StreamInv'
<1>. USE SameBuffer DEF StreamInv
<1>1. ShapeInv'
  BY ShapeKept DEF ShapeInv
<1>2. SchedulerInv'
  BY QuietScheduler
<1>3. RingInv'
  BY QuietRing
<1>4. WaitOK(Writer, tx.step, xTaskWaitingToSend)'
  BY DEF WaitsInv, WaitOK, Sleeping, kernelVars, flagVars
<1>5. WaitOK(Reader, rx.step, xTaskWaitingToReceive)'
  BY DEF WaitsInv, WaitOK, Sleeping, kernelVars, flagVars
<1>6. WriterTold'
  <2>1. xRequiredSpace(tx.size)' = xRequiredSpace(tx.size)
    OBVIOUS
  <2>. QED  BY <2>1 DEF WaitsInv, WriterTold, Suspending
<1>7. ReaderTold'
  BY DEF WaitsInv, ReaderTold
<1>. QED  BY <1>1, <1>2, <1>3, <1>4, <1>5, <1>6, <1>7 DEF WaitsInv

\* The note is cleared.
LEMMA SendClearKeeps ==
  ASSUME StreamInv, SendClear
  PROVE  StreamInv'
<1>1. /\ tx.step = "clear" /\ Writer # NULL /\ tx \in CallRecord
      /\ tx' = [tx EXCEPT !.step = "timeout"] /\ xTaskWaitingToSend' = NULL
      /\ UNCHANGED <<use, kernelVars, bufferVars, xTaskWaitingToReceive, rx, next>>
  BY Zenon DEF SendClear, WriterAt, TxGoto, dataVars, StreamInv, ShapeInv
<1>2. tx' \in CallRecord
  BY <1>1, StreamCallRecords, Zenon DEF StreamSteps
<1>3. tx'.step = "timeout" /\ tx'.size = tx.size /\ tx'.amount = tx.amount
  BY <1>1 DEF CallRecord
<1>. QED  BY <1>1, <1>2, <1>3, SendQuietly DEF Suspending, Measured

\* The time left: the space measured before the wait is still there.
LEMMA SendTimeOutKeeps ==
  ASSUME StreamInv, SendTimeOut
  PROVE  StreamInv'
<1>1. /\ tx.step = "timeout" /\ Writer # NULL /\ tx \in CallRecord
      /\ UNCHANGED <<use, kernelVars, bufferVars, waiterVars, rx, next>>
  BY DEF SendTimeOut, WriterAt, dataVars, StreamInv, ShapeInv
<1>2. PICK s \in {"check", "measure", "copy"} :
        tx' = [tx EXCEPT !.ticks = TimeLeft, !.elapsed = 0, !.step = s]
  BY DEF SendTimeOut
<1>3. TimeLeft \in Int
  BY <1>1, KernelAssumption DEF TimeLeft, portMAX_DELAY, CallRecord
<1>4. tx' \in CallRecord
  <2>1. s \in StreamSteps /\ 0 \in Int
    BY <1>2 DEF StreamSteps
  <2>2. PICK k \in Int : k = TimeLeft
    BY <1>3
  <2>3. [tx EXCEPT !.ticks = k, !.elapsed = 0, !.step = s] \in CallRecord
    BY <1>1, <2>1, StreamCallRecords
  <2>. QED  BY <1>2, <2>2, <2>3
<1>5. tx'.step = s /\ tx'.size = tx.size /\ tx'.amount = tx.amount
  BY <1>1, <1>2 DEF CallRecord
<1>6. xTaskWaitingToSend = NULL /\ UNCHANGED <<xTaskWaitingToReceive, xTaskWaitingToSend>>
  BY <1>1 DEF StreamInv, WaitsInv, WaitOK, waiterVars
<1>. QED  BY <1>1, <1>2, <1>4, <1>5, <1>6, SendQuietly DEF Suspending, Measured

\* The space is measured once more.
LEMMA SendMeasureKeeps ==
  ASSUME StreamInv, SendMeasure
  PROVE  StreamInv'
<1>1. /\ tx.step = "measure" /\ Writer # NULL /\ tx \in CallRecord
      /\ tx' = [tx EXCEPT !.amount = xStreamBufferSpacesAvailable, !.step = "copy"]
      /\ UNCHANGED <<use, kernelVars, bufferVars, waiterVars, rx, next>>
  BY DEF SendMeasure, WriterAt, dataVars, StreamInv, ShapeInv
<1>2. xStreamBufferSpacesAvailable \in Nat
  BY RingIs, Sides DEF ShapeInv, StreamInv
<1>3. tx' \in CallRecord
  BY <1>1, <1>2, StreamCallRecords, Zenon DEF StreamSteps
<1>4. tx'.step = "copy" /\ tx'.size = tx.size /\ tx'.amount = xStreamBufferSpacesAvailable
  BY <1>1 DEF CallRecord
<1>5. xTaskWaitingToSend = NULL /\ UNCHANGED <<xTaskWaitingToReceive, xTaskWaitingToSend>>
  BY <1>1 DEF StreamInv, WaitsInv, WaitOK, waiterVars
<1>. QED  BY <1>1, <1>3, <1>4, <1>5, SendQuietly DEF Suspending

\* Below the trigger level nobody has to be told.
LEMMA SendTriggerKeeps ==
  ASSUME StreamInv, SendTrigger
  PROVE  StreamInv'
<1>1. /\ tx.step = "trigger" /\ Writer # NULL /\ tx \in CallRecord
      /\ UNCHANGED <<use, kernelVars, bufferVars, waiterVars, rx, next>>
  BY DEF SendTrigger, WriterAt, dataVars, StreamInv, ShapeInv
<1>2. prvBytesInBuffer \in Int /\ xTriggerLevelBytes \in Int
  BY RingIs, Sides DEF ShapeInv, StreamInv
<1>3. \/ tx' = [tx EXCEPT !.step = "lock"]
      \/ prvBytesInBuffer < xTriggerLevelBytes /\ tx' = Idling
  BY <1>2 DEF SendTrigger, TriggerReached, TxGoto
<1>4. tx' \in CallRecord
  BY <1>1, <1>3, StreamCallRecords, Zenon DEF StreamSteps
<1>5. \/ tx'.step = "lock" /\ tx'.size = tx.size
      \/ tx'.step = "none" /\ prvBytesInBuffer < xTriggerLevelBytes
  BY <1>1, <1>3 DEF CallRecord, Idling
<1>6. xTaskWaitingToSend = NULL /\ UNCHANGED <<xTaskWaitingToReceive, xTaskWaitingToSend>>
  BY <1>1 DEF StreamInv, WaitsInv, WaitOK, waiterVars
<1>. QED  BY <1>1, <1>4, <1>5, <1>6, SendQuietly DEF Suspending, Measured

\* The note is cleared.
LEMMA ReceiveClearKeeps ==
  ASSUME StreamInv, ReceiveClear
  PROVE  StreamInv'
<1>1. /\ rx.step = "clear" /\ Reader # NULL /\ rx \in CallRecord
      /\ rx' = [rx EXCEPT !.step = "measure"] /\ xTaskWaitingToReceive' = NULL
      /\ UNCHANGED <<use, kernelVars, bufferVars, xTaskWaitingToSend, tx, next>>
  BY Zenon DEF ReceiveClear, ReaderAt, RxGoto, dataVars, StreamInv, ShapeInv
<1>2. rx' \in CallRecord
  BY <1>1, StreamCallRecords, Zenon DEF StreamSteps
<1>3. rx'.step = "measure" /\ rx'.size = rx.size
  BY <1>1 DEF CallRecord
<1>. QED  BY <1>1, <1>2, <1>3, ReceiveQuietly DEF Suspending

\* The bytes are counted again.
LEMMA ReceiveMeasureKeeps ==
  ASSUME StreamInv, ReceiveMeasure
  PROVE  StreamInv'
<1>1. /\ rx.step = "measure" /\ Reader # NULL /\ rx \in CallRecord
      /\ UNCHANGED <<use, kernelVars, bufferVars, waiterVars, tx, next>>
  BY DEF ReceiveMeasure, ReaderAt, dataVars, StreamInv, ShapeInv
<1>2. prvBytesInBuffer \in Nat
  BY RingIs, Sides DEF ShapeInv, StreamInv
<1>3. \/ rx' = Idling
      \/ ~NothingToRead /\ rx' = [rx EXCEPT !.amount = prvBytesInBuffer, !.step = "copy"]
  BY DEF ReceiveMeasure
<1>6. xTaskWaitingToReceive = NULL /\ UNCHANGED <<xTaskWaitingToReceive, xTaskWaitingToSend>>
  BY <1>1 DEF StreamInv, WaitsInv, WaitOK, waiterVars
<1>4. CASE rx' = Idling
  <2>1. rx' \in CallRecord /\ rx'.step = "none"
    BY <1>4, StreamCallRecords DEF Idling
  <2>. QED  BY <1>1, <1>6, <2>1, ReceiveQuietly DEF Suspending
<1>5. CASE ~NothingToRead /\ rx' = [rx EXCEPT !.amount = prvBytesInBuffer, !.step = "copy"]
  <2>1. rx' \in CallRecord
    BY <1>1, <1>2, <1>5, StreamCallRecords, Zenon DEF StreamSteps
  <2>2. rx'.step = "copy" /\ rx'.size = rx.size /\ rx'.amount = prvBytesInBuffer
    BY <1>1, <1>5 DEF CallRecord
  <2>. QED  BY <1>1, <1>5, <1>6, <2>1, <2>2, ReceiveQuietly, Zenon DEF Suspending
<1>. QED  BY <1>3, <1>4, <1>5

-----------------------------------------------------------------------------
(* Sleeping and waking *)

\* Who is notified does not sleep on.
LEMMA NotifySteps ==
  ASSUME TasksOK, NEW t, NEW u \in Task, Notify(t, u) \/ NotifyFromISR(u)
  PROVE  /\ TasksOK' /\ UNCHANGED <<uxSchedulerSuspended, pxCurrentTCB>>
         /\ \A v \in Task \ {u} : /\ state'[v] = state[v] /\ ucNotifyState'[v] = ucNotifyState[v]
                                  /\ v \in pending' <=> v \in pending
         /\ ucNotifyState'[u] = "received" /\ (u \in pending => u \in pending')
         /\ state'[u] \in {state[u], "ready"}
         /\ ucNotifyState[u] = "waiting" => state'[u] = "ready" \/ u \in pending'
<1>1. CASE Notify(t, u)
  BY <1>1 DEF Notify, MoveTo, TasksOK, States, NotifyStates
<1>2. CASE NotifyFromISR(u)
  BY <1>2 DEF NotifyFromISR, Wake, MoveTo, TasksOK, States, NotifyStates
<1>. QED  BY <1>1, <1>2

\* Resuming the scheduler readies those that were notified meanwhile.
LEMMA ResumeSteps ==
  ASSUME TasksOK, NEW t, ResumeAll(t), uxSchedulerSuspended = 1
  PROVE  /\ TasksOK' /\ UNCHANGED <<pxCurrentTCB, ucNotifyState>>
         /\ uxSchedulerSuspended' = 0
         /\ \A u \in Task : state'[u] = IF u \in pending THEN "ready" ELSE state[u]
BY DEF ResumeAll, TasksOK, States, flagVars

\* A tick wakes, and puts nobody to sleep.
LEMMA SchedulerSteps ==
  ASSUME TasksOK, IncrementTick \/ SwitchContext
  PROVE  /\ TasksOK' /\ UNCHANGED <<ucNotifyState, uxSchedulerSuspended>>
         /\ uxSchedulerSuspended = 0 /\ pending = {}
         /\ \A u \in Task : state'[u] \in {state[u], "ready"}
<1>1. CASE IncrementTick
  <2>1. /\ uxSchedulerSuspended = 0 /\ pending = {} /\ pending' = {}
        /\ UNCHANGED <<ucNotifyState, uxSchedulerSuspended>>
    BY <1>1 DEF IncrementTick, LeaveEventLists, TasksOK, flagVars
  <2>2. PICK due : state' = [t \in Task |-> IF t \in due THEN "ready" ELSE state[t]]
    BY <1>1 DEF IncrementTick
  <2>. QED  BY <2>1, <2>2 DEF TasksOK, States
<1>2. CASE SwitchContext
  BY <1>2 DEF SwitchContext, TasksOK, flagVars
<1>. QED  BY <1>1, <1>2

\* The writer sleeps only if it is still noted: a notification since its test
\* is in its notification state.
LEMMA SendWaitKeeps ==
  ASSUME StreamInv, SendWait
  PROVE  StreamInv'
<1>. USE SameBuffer DEF StreamInv
<1>1. /\ tx.step = "wait" /\ Writer # NULL /\ Writer \in Task /\ tx \in CallRecord
      /\ tx' = [tx EXCEPT !.step = "woken"] /\ NotifyWait(Writer, tx.ticks)
      /\ UNCHANGED <<use, bufferVars, xTaskWaitingToReceive, xTaskWaitingToSend, rx, next>>
  BY Sides, Zenon DEF SendWait, WriterAt, TxGoto, dataVars, waiterVars, ShapeInv
<1>2. tx' \in CallRecord
  BY <1>1, StreamCallRecords, Zenon DEF StreamSteps
<1>3. tx'.step = "woken" /\ tx'.size = tx.size /\ tx'.amount = tx.amount
  BY <1>1 DEF CallRecord
<1>4. /\ TasksOK' /\ UNCHANGED <<pending, uxSchedulerSuspended, pxCurrentTCB>>
      /\ \A u \in Task \ {Writer} : state'[u] = state[u] /\ ucNotifyState'[u] = ucNotifyState[u]
  BY <1>1, OwnSteps DEF SchedulerInv
<1>5. ShapeInv'
  BY <1>1, <1>2, <1>3, ShapeKept DEF ShapeInv
<1>6. SchedulerInv'
  BY <1>1, <1>3, <1>4, OwnScheduler DEF Suspending
<1>7. RingInv'
  BY <1>1, <1>3, QuietRing DEF Measured
<1>8. WaitOK(Writer, tx.step, xTaskWaitingToSend)'
  <2>1. CASE ucNotifyState[Writer] = "received"
    <3>1. state' = state /\ ucNotifyState' = ucNotifyState
      BY <1>1, <2>1 DEF NotifyWait, kernelVars, flagVars
    <3>. QED  BY <1>1, <1>3, <3>1 DEF WaitsInv, WaitOK, Sleeping
  <2>2. CASE ucNotifyState[Writer] # "received"
    <3>1. ucNotifyState'[Writer] = "waiting"
      BY <1>1, <2>2 DEF NotifyWait, NotifyBlock, SchedulerInv, TasksOK
    <3>. QED  BY <1>1, <1>3, <2>2, <3>1 DEF WaitsInv, WaitOK
  <2>. QED  BY <2>1, <2>2
<1>9. WaitOK(Reader, rx.step, xTaskWaitingToReceive)'
  BY <1>1, <1>4, Sides DEF WaitsInv, WaitOK, Sleeping, ShapeInv
<1>10. WriterTold' /\ ReaderTold'
  <2>1. xRequiredSpace(tx.size)' = xRequiredSpace(tx.size)
    BY <1>1, <1>3
  <2>. QED  BY <1>1, <1>3, <2>1 DEF WaitsInv, WriterTold, ReaderTold
<1>. QED  BY <1>5, <1>6, <1>7, <1>8, <1>9, <1>10 DEF WaitsInv

\* The writer runs again.
LEMMA SendWokenKeeps ==
  ASSUME StreamInv, SendWoken
  PROVE  StreamInv'
<1>. USE SameBuffer DEF StreamInv
<1>1. /\ tx.step = "woken" /\ Writer # NULL /\ Writer \in Task /\ tx \in CallRecord
      /\ tx' = [tx EXCEPT !.step = "clear"] /\ SetNotifyState(Writer, "notWaiting")
      /\ UNCHANGED <<use, bufferVars, xTaskWaitingToReceive, xTaskWaitingToSend, rx, next>>
  BY Sides, Zenon DEF SendWoken, WriterAt, TxGoto, dataVars, waiterVars, ShapeInv
<1>2. tx' \in CallRecord
  BY <1>1, StreamCallRecords, Zenon DEF StreamSteps
<1>3. tx'.step = "clear" /\ tx'.size = tx.size /\ tx'.amount = tx.amount
  BY <1>1 DEF CallRecord
<1>4. /\ TasksOK' /\ UNCHANGED <<pending, uxSchedulerSuspended, pxCurrentTCB>>
      /\ \A u \in Task \ {Writer} : state'[u] = state[u] /\ ucNotifyState'[u] = ucNotifyState[u]
  BY <1>1, OwnSteps DEF SchedulerInv
<1>5. ShapeInv'
  BY <1>1, <1>2, <1>3, ShapeKept DEF ShapeInv
<1>6. SchedulerInv'
  BY <1>1, <1>3, <1>4, OwnScheduler DEF Suspending
<1>7. RingInv'
  BY <1>1, <1>3, QuietRing DEF Measured
<1>8. WaitOK(Writer, tx.step, xTaskWaitingToSend)'
  <2>1. state'[Writer] = "ready"
    BY <1>1 DEF SetNotifyState
  <2>. QED  BY <1>1, <1>3, <2>1 DEF WaitsInv, WaitOK, Sleeping
<1>9. WaitOK(Reader, rx.step, xTaskWaitingToReceive)'
  BY <1>1, <1>4, Sides DEF WaitsInv, WaitOK, Sleeping, ShapeInv
<1>10. WriterTold' /\ ReaderTold'
  <2>1. xRequiredSpace(tx.size)' = xRequiredSpace(tx.size)
    BY <1>1, <1>3
  <2>. QED  BY <1>1, <1>3, <2>1 DEF WaitsInv, WriterTold, ReaderTold
<1>. QED  BY <1>5, <1>6, <1>7, <1>8, <1>9, <1>10 DEF WaitsInv

\* sbSEND_COMPLETED suspends the scheduler.
LEMMA SendLockKeeps ==
  ASSUME StreamInv, SendLock
  PROVE  StreamInv'
<1>. USE SameBuffer DEF StreamInv
<1>1. /\ tx.step = "lock" /\ Writer # NULL /\ Writer \in Task /\ tx \in CallRecord
      /\ tx' = [tx EXCEPT !.step = "notify"] /\ SuspendAll(Writer) /\ pxCurrentTCB = Writer
      /\ UNCHANGED <<use, bufferVars, xTaskWaitingToReceive, xTaskWaitingToSend, rx, next>>
  BY Sides, Zenon DEF SendLock, WriterAt, AtCall, TxGoto, dataVars, waiterVars, ShapeInv
<1>2. tx' \in CallRecord
  BY <1>1, StreamCallRecords, Zenon DEF StreamSteps
<1>3. tx'.step = "notify" /\ tx'.size = tx.size /\ tx'.amount = tx.amount
  BY <1>1 DEF CallRecord
<1>4. /\ uxSchedulerSuspended' = uxSchedulerSuspended + 1 /\ pxCurrentTCB' = pxCurrentTCB
      /\ state' = state /\ ucNotifyState' = ucNotifyState /\ pending' = pending
  BY <1>1 DEF SuspendAll, flagVars
<1>5. ShapeInv'
  BY <1>1, <1>2, <1>3, ShapeKept DEF ShapeInv
<1>6. SchedulerInv'
  <2>1. uxSchedulerSuspended = 0 /\ rx.step \notin Suspending
    BY <1>1, Sides DEF SchedulerInv, TasksOK, Suspending, ShapeInv
  <2>2. TasksOK'
    BY <1>4, <2>1 DEF SchedulerInv, TasksOK
  <2>. QED  BY <1>1, <1>3, <1>4, <2>1, <2>2 DEF SchedulerInv, Suspending
<1>7. RingInv'
  BY <1>1, <1>3, QuietRing DEF Measured
<1>8. WaitOK(Writer, tx.step, xTaskWaitingToSend)'
  BY <1>1, <1>3, <1>4 DEF WaitsInv, WaitOK, Sleeping
<1>9. WaitOK(Reader, rx.step, xTaskWaitingToReceive)'
  BY <1>1, <1>4 DEF WaitsInv, WaitOK, Sleeping
<1>10. WriterTold' /\ ReaderTold'
  <2>1. xRequiredSpace(tx.size)' = xRequiredSpace(tx.size)
    BY <1>1, <1>3
  <2>. QED  BY <1>1, <1>3, <2>1 DEF WaitsInv, WriterTold, ReaderTold
<1>. QED  BY <1>5, <1>6, <1>7, <1>8, <1>9, <1>10 DEF WaitsInv

\* The other side, if it is noted, is not any more, and does not sleep on.
LEMMA NotifiedWaits ==
  ASSUME TasksOK, NEW t \in Task, NEW u \in Task \cup {NULL}, NEW note, NEW at, t # u,
         NULL \notin Task, WaitOK(u, at, note),
         IF note # NULL THEN Notify(t, note) \/ NotifyFromISR(note) ELSE UNCHANGED kernelVars
  PROVE  /\ TasksOK' /\ UNCHANGED <<uxSchedulerSuspended, pxCurrentTCB>>
         /\ state'[t] = state[t] /\ ucNotifyState'[t] = ucNotifyState[t]
         /\ t \in pending' <=> t \in pending
         /\ WaitOK(u, at, NULL)'
<1>1. CASE note = NULL
  BY <1>1 DEF WaitOK, Sleeping, TasksOK, kernelVars, flagVars
<1>2. CASE note # NULL
  <2>1. note = u /\ u \in Task
    BY <1>2 DEF WaitOK
  <2>2. /\ TasksOK' /\ UNCHANGED <<uxSchedulerSuspended, pxCurrentTCB>>
        /\ \A v \in Task \ {u} : /\ state'[v] = state[v] /\ ucNotifyState'[v] = ucNotifyState[v]
                                 /\ v \in pending' <=> v \in pending
        /\ ucNotifyState'[u] = "received" /\ (u \in pending => u \in pending')
        /\ state'[u] \in {state[u], "ready"}
        /\ ucNotifyState[u] = "waiting" => state'[u] = "ready" \/ u \in pending'
    BY <1>2, <2>1, NotifySteps
  <2>3. WaitOK(u, at, NULL)'
    BY <2>1, <2>2 DEF WaitOK, Sleeping
  <2>. QED  BY <2>1, <2>2, <2>3
<1>. QED  BY <1>1, <1>2

\* The reader that is noted is notified, asleep or not, and no longer noted.
LEMMA SendNotifyKeeps ==
  ASSUME StreamInv, SendNotify
  PROVE  StreamInv'
<1>. USE SameBuffer DEF StreamInv
<1>1. /\ tx.step = "notify" /\ Writer # NULL /\ Writer \in Task /\ tx \in CallRecord
      /\ tx' = [tx EXCEPT !.step = "unlock"] /\ xTaskWaitingToReceive' = NULL
      /\ NotifyWaiter(Writer, xTaskWaitingToReceive)
      /\ UNCHANGED <<use, bufferVars, xTaskWaitingToSend, rx, next>>
  BY Sides, Zenon DEF SendNotify, WriterAt, TxGoto, dataVars, ShapeInv
<1>2. tx' \in CallRecord
  BY <1>1, StreamCallRecords, Zenon DEF StreamSteps
<1>3. tx'.step = "unlock" /\ tx'.size = tx.size /\ tx'.amount = tx.amount
  BY <1>1 DEF CallRecord
<1>4. /\ TasksOK' /\ UNCHANGED <<uxSchedulerSuspended, pxCurrentTCB>>
      /\ state'[Writer] = state[Writer] /\ ucNotifyState'[Writer] = ucNotifyState[Writer]
      /\ Writer \in pending' <=> Writer \in pending
      /\ WaitOK(Reader, rx.step, NULL)'
  <2>1. TasksOK /\ WaitOK(Reader, rx.step, xTaskWaitingToReceive)
    BY DEF SchedulerInv, WaitsInv
  <2>2. Writer # Reader /\ Reader \in Task \cup {NULL} /\ NULL \notin Task
    BY <1>1, Sides DEF ShapeInv
  <2>3. /\ xTaskWaitingToReceive # NULL => Notify(Writer, xTaskWaitingToReceive)
        /\ xTaskWaitingToReceive = NULL => UNCHANGED kernelVars
    BY <1>1 DEF NotifyWaiter, Told
  <2>4. PICK t, u, s, note : t = Writer /\ u = Reader /\ s = rx.step /\ note = xTaskWaitingToReceive
    OBVIOUS
  <2>5. /\ TasksOK' /\ UNCHANGED <<uxSchedulerSuspended, pxCurrentTCB>>
        /\ state'[t] = state[t] /\ ucNotifyState'[t] = ucNotifyState[t]
        /\ t \in pending' <=> t \in pending
        /\ WaitOK(u, s, NULL)'
    BY <1>1, <2>1, <2>2, <2>3, <2>4, NotifiedWaits
  <2>6. WaitOK(Reader, rx.step, NULL)'
    BY <1>1, <2>4, <2>5 DEF WaitOK, Sleeping
  <2>. QED  BY <2>4, <2>5, <2>6
<1>5. ShapeInv'
  BY <1>1, <1>2, <1>3, ShapeKept DEF ShapeInv
<1>6. SchedulerInv'
  BY <1>1, <1>3, <1>4, OwnScheduler DEF Suspending
<1>7. RingInv'
  BY <1>1, <1>3, QuietRing DEF Measured
<1>8. WaitOK(Writer, tx.step, xTaskWaitingToSend)'
  BY <1>1, <1>3, <1>4 DEF WaitsInv, WaitOK, Sleeping
<1>9. WaitOK(Reader, rx.step, xTaskWaitingToReceive)'
  BY <1>1, <1>4 DEF WaitOK, Sleeping
<1>10. WriterTold' /\ ReaderTold'
  <2>1. xRequiredSpace(tx.size)' = xRequiredSpace(tx.size)
    BY <1>1, <1>3
  <2>. QED  BY <1>1, <1>3, <2>1 DEF WaitsInv, WriterTold, ReaderTold
<1>. QED  BY <1>5, <1>6, <1>7, <1>8, <1>9, <1>10 DEF WaitsInv

\* The scheduler resumes: the reader is ready, and nobody else was pending.
LEMMA SendUnlockKeeps ==
  ASSUME StreamInv, SendUnlock
  PROVE  StreamInv'
<1>. USE SameBuffer DEF StreamInv
<1>1. /\ tx.step = "unlock" /\ Writer # NULL /\ Writer \in Task
      /\ tx' = Idling /\ ResumeAll(Writer) /\ pxCurrentTCB = Writer
      /\ UNCHANGED <<use, bufferVars, xTaskWaitingToReceive, xTaskWaitingToSend, rx, next>>
  BY Sides DEF SendUnlock, WriterAt, AtCall, dataVars, waiterVars, ShapeInv
<1>2. tx' \in CallRecord /\ tx'.step = "none"
  BY <1>1, StreamCallRecords DEF Idling
<1>3. uxSchedulerSuspended = 1 /\ TasksOK /\ rx.step \notin Suspending
  BY <1>1, Sides DEF SchedulerInv, Suspending, ShapeInv
<1>4. /\ TasksOK' /\ UNCHANGED <<pxCurrentTCB, ucNotifyState>>
      /\ uxSchedulerSuspended' = 0
      /\ \A u \in Task : state'[u] = IF u \in pending THEN "ready" ELSE state[u]
  BY <1>1, <1>3, ResumeSteps
<1>5. ShapeInv'
  BY <1>1, <1>2, ShapeKept DEF ShapeInv
<1>6. SchedulerInv'
  BY <1>1, <1>2, <1>3, <1>4 DEF SchedulerInv, Suspending
<1>7. RingInv'
  BY <1>1, <1>2, QuietRing DEF Measured
<1>8. xTaskWaitingToSend = NULL
  BY <1>1 DEF WaitsInv, WaitOK
<1>9. WaitOK(Writer, tx.step, xTaskWaitingToSend)'
  BY <1>1, <1>2, <1>4, <1>8 DEF WaitsInv, WaitOK, Sleeping
<1>10. WaitOK(Reader, rx.step, xTaskWaitingToReceive)'
  BY <1>1, <1>4, Sides DEF WaitsInv, WaitOK, Sleeping, ShapeInv
<1>11. WriterTold' /\ ReaderTold'
  BY <1>1, <1>8 DEF WaitsInv, WriterTold, ReaderTold
<1>. QED  BY <1>5, <1>6, <1>7, <1>9, <1>10, <1>11 DEF WaitsInv

\* The reader sleeps only if it is still noted.
LEMMA ReceiveWaitKeeps ==
  ASSUME StreamInv, ReceiveWait
  PROVE  StreamInv'
<1>. USE SameBuffer DEF StreamInv
<1>1. /\ rx.step = "wait" /\ Reader # NULL /\ Reader \in Task /\ rx \in CallRecord
      /\ rx' = [rx EXCEPT !.step = "woken"] /\ NotifyWait(Reader, rx.ticks)
      /\ UNCHANGED <<use, bufferVars, xTaskWaitingToSend, xTaskWaitingToReceive, tx, next>>
  BY Sides, Zenon DEF ReceiveWait, ReaderAt, RxGoto, dataVars, waiterVars, ShapeInv
<1>2. rx' \in CallRecord
  BY <1>1, StreamCallRecords, Zenon DEF StreamSteps
<1>3. rx'.step = "woken" /\ rx'.size = rx.size /\ rx'.amount = rx.amount
  BY <1>1 DEF CallRecord
<1>4. /\ TasksOK' /\ UNCHANGED <<pending, uxSchedulerSuspended, pxCurrentTCB>>
      /\ \A u \in Task \ {Reader} : state'[u] = state[u] /\ ucNotifyState'[u] = ucNotifyState[u]
  BY <1>1, OwnSteps DEF SchedulerInv
<1>5. ShapeInv'
  BY <1>1, <1>2, <1>3, ShapeKept DEF ShapeInv
<1>6. SchedulerInv'
  BY <1>1, <1>3, <1>4, OwnScheduler DEF Suspending
<1>7. RingInv'
  BY <1>1, <1>3, QuietRing DEF Measured
<1>8. WaitOK(Reader, rx.step, xTaskWaitingToReceive)'
  <2>1. CASE ucNotifyState[Reader] = "received"
    <3>1. state' = state /\ ucNotifyState' = ucNotifyState
      BY <1>1, <2>1 DEF NotifyWait, kernelVars, flagVars
    <3>. QED  BY <1>1, <1>3, <3>1 DEF WaitsInv, WaitOK, Sleeping
  <2>2. CASE ucNotifyState[Reader] # "received"
    <3>1. ucNotifyState'[Reader] = "waiting"
      BY <1>1, <2>2 DEF NotifyWait, NotifyBlock, SchedulerInv, TasksOK
    <3>. QED  BY <1>1, <1>3, <2>2, <3>1 DEF WaitsInv, WaitOK
  <2>. QED  BY <2>1, <2>2
<1>9. WaitOK(Writer, tx.step, xTaskWaitingToSend)'
  BY <1>1, <1>4, Sides DEF WaitsInv, WaitOK, Sleeping, ShapeInv
<1>10. WriterTold' /\ ReaderTold'
  <2>1. xRequiredSpace(tx.size)' = xRequiredSpace(tx.size)
    BY <1>1, <1>3
  <2>. QED  BY <1>1, <1>3, <2>1 DEF WaitsInv, WriterTold, ReaderTold
<1>. QED  BY <1>5, <1>6, <1>7, <1>8, <1>9, <1>10 DEF WaitsInv

\* The reader runs again.
LEMMA ReceiveWokenKeeps ==
  ASSUME StreamInv, ReceiveWoken
  PROVE  StreamInv'
<1>. USE SameBuffer DEF StreamInv
<1>1. /\ rx.step = "woken" /\ Reader # NULL /\ Reader \in Task /\ rx \in CallRecord
      /\ rx' = [rx EXCEPT !.step = "clear"] /\ SetNotifyState(Reader, "notWaiting")
      /\ UNCHANGED <<use, bufferVars, xTaskWaitingToSend, xTaskWaitingToReceive, tx, next>>
  BY Sides, Zenon DEF ReceiveWoken, ReaderAt, RxGoto, dataVars, waiterVars, ShapeInv
<1>2. rx' \in CallRecord
  BY <1>1, StreamCallRecords, Zenon DEF StreamSteps
<1>3. rx'.step = "clear" /\ rx'.size = rx.size /\ rx'.amount = rx.amount
  BY <1>1 DEF CallRecord
<1>4. /\ TasksOK' /\ UNCHANGED <<pending, uxSchedulerSuspended, pxCurrentTCB>>
      /\ \A u \in Task \ {Reader} : state'[u] = state[u] /\ ucNotifyState'[u] = ucNotifyState[u]
  BY <1>1, OwnSteps DEF SchedulerInv
<1>5. ShapeInv'
  BY <1>1, <1>2, <1>3, ShapeKept DEF ShapeInv
<1>6. SchedulerInv'
  BY <1>1, <1>3, <1>4, OwnScheduler DEF Suspending
<1>7. RingInv'
  BY <1>1, <1>3, QuietRing DEF Measured
<1>8. WaitOK(Reader, rx.step, xTaskWaitingToReceive)'
  <2>1. state'[Reader] = "ready"
    BY <1>1 DEF SetNotifyState
  <2>. QED  BY <1>1, <1>3, <2>1 DEF WaitsInv, WaitOK, Sleeping
<1>9. WaitOK(Writer, tx.step, xTaskWaitingToSend)'
  BY <1>1, <1>4, Sides DEF WaitsInv, WaitOK, Sleeping, ShapeInv
<1>10. WriterTold' /\ ReaderTold'
  <2>1. xRequiredSpace(tx.size)' = xRequiredSpace(tx.size)
    BY <1>1, <1>3
  <2>. QED  BY <1>1, <1>3, <2>1 DEF WaitsInv, WriterTold, ReaderTold
<1>. QED  BY <1>5, <1>6, <1>7, <1>8, <1>9, <1>10 DEF WaitsInv

\* sbRECEIVE_COMPLETED suspends the scheduler.
LEMMA ReceiveLockKeeps ==
  ASSUME StreamInv, ReceiveLock
  PROVE  StreamInv'
<1>. USE SameBuffer DEF StreamInv
<1>1. /\ rx.step = "lock" /\ Reader # NULL /\ Reader \in Task /\ rx \in CallRecord
      /\ rx' = [rx EXCEPT !.step = "notify"] /\ SuspendAll(Reader) /\ pxCurrentTCB = Reader
      /\ UNCHANGED <<use, bufferVars, xTaskWaitingToSend, xTaskWaitingToReceive, tx, next>>
  BY Sides, Zenon DEF ReceiveLock, ReaderAt, AtCall, RxGoto, dataVars, waiterVars, ShapeInv
<1>2. rx' \in CallRecord
  BY <1>1, StreamCallRecords, Zenon DEF StreamSteps
<1>3. rx'.step = "notify" /\ rx'.size = rx.size /\ rx'.amount = rx.amount
  BY <1>1 DEF CallRecord
<1>4. /\ uxSchedulerSuspended' = uxSchedulerSuspended + 1 /\ pxCurrentTCB' = pxCurrentTCB
      /\ state' = state /\ ucNotifyState' = ucNotifyState /\ pending' = pending
  BY <1>1 DEF SuspendAll, flagVars
<1>5. ShapeInv'
  BY <1>1, <1>2, <1>3, ShapeKept DEF ShapeInv
<1>6. SchedulerInv'
  <2>1. uxSchedulerSuspended = 0 /\ tx.step \notin Suspending
    BY <1>1, Sides DEF SchedulerInv, TasksOK, Suspending, ShapeInv
  <2>2. TasksOK'
    BY <1>4, <2>1 DEF SchedulerInv, TasksOK
  <2>. QED  BY <1>1, <1>3, <1>4, <2>1, <2>2 DEF SchedulerInv, Suspending
<1>7. RingInv'
  BY <1>1, <1>3, QuietRing DEF Measured
<1>8. WaitOK(Reader, rx.step, xTaskWaitingToReceive)'
  BY <1>1, <1>3, <1>4 DEF WaitsInv, WaitOK, Sleeping
<1>9. WaitOK(Writer, tx.step, xTaskWaitingToSend)'
  BY <1>1, <1>4 DEF WaitsInv, WaitOK, Sleeping
<1>10. WriterTold' /\ ReaderTold'
  <2>1. xRequiredSpace(tx.size)' = xRequiredSpace(tx.size)
    BY <1>1, <1>3
  <2>. QED  BY <1>1, <1>3, <2>1 DEF WaitsInv, WriterTold, ReaderTold
<1>. QED  BY <1>5, <1>6, <1>7, <1>8, <1>9, <1>10 DEF WaitsInv

\* The writer that is noted is notified, and no longer noted.
LEMMA ReceiveNotifyKeeps ==
  ASSUME StreamInv, ReceiveNotify
  PROVE  StreamInv'
<1>. USE SameBuffer DEF StreamInv
<1>1. /\ rx.step = "notify" /\ Reader # NULL /\ Reader \in Task /\ rx \in CallRecord
      /\ rx' = [rx EXCEPT !.step = "unlock"] /\ xTaskWaitingToSend' = NULL
      /\ NotifyWaiter(Reader, xTaskWaitingToSend)
      /\ UNCHANGED <<use, bufferVars, xTaskWaitingToReceive, tx, next>>
  BY Sides, Zenon DEF ReceiveNotify, ReaderAt, RxGoto, dataVars, ShapeInv
<1>2. rx' \in CallRecord
  BY <1>1, StreamCallRecords, Zenon DEF StreamSteps
<1>3. rx'.step = "unlock" /\ rx'.size = rx.size /\ rx'.amount = rx.amount
  BY <1>1 DEF CallRecord
<1>4. /\ TasksOK' /\ UNCHANGED <<uxSchedulerSuspended, pxCurrentTCB>>
      /\ state'[Reader] = state[Reader] /\ ucNotifyState'[Reader] = ucNotifyState[Reader]
      /\ Reader \in pending' <=> Reader \in pending
      /\ WaitOK(Writer, tx.step, NULL)'
  <2>1. TasksOK /\ WaitOK(Writer, tx.step, xTaskWaitingToSend)
    BY DEF SchedulerInv, WaitsInv
  <2>2. Reader # Writer /\ Writer \in Task \cup {NULL} /\ NULL \notin Task
    BY <1>1, Sides DEF ShapeInv
  <2>3. /\ xTaskWaitingToSend # NULL => Notify(Reader, xTaskWaitingToSend)
        /\ xTaskWaitingToSend = NULL => UNCHANGED kernelVars
    BY <1>1 DEF NotifyWaiter, Told
  <2>4. PICK t, u, s, note : t = Reader /\ u = Writer /\ s = tx.step /\ note = xTaskWaitingToSend
    OBVIOUS
  <2>5. /\ TasksOK' /\ UNCHANGED <<uxSchedulerSuspended, pxCurrentTCB>>
        /\ state'[t] = state[t] /\ ucNotifyState'[t] = ucNotifyState[t]
        /\ t \in pending' <=> t \in pending
        /\ WaitOK(u, s, NULL)'
    BY <1>1, <2>1, <2>2, <2>3, <2>4, NotifiedWaits
  <2>6. WaitOK(Writer, tx.step, NULL)'
    BY <1>1, <2>4, <2>5 DEF WaitOK, Sleeping
  <2>. QED  BY <2>4, <2>5, <2>6
<1>5. ShapeInv'
  BY <1>1, <1>2, <1>3, ShapeKept DEF ShapeInv
<1>6. SchedulerInv'
  BY <1>1, <1>3, <1>4, OwnScheduler DEF Suspending
<1>7. RingInv'
  BY <1>1, <1>3, QuietRing DEF Measured
<1>8. WaitOK(Reader, rx.step, xTaskWaitingToReceive)'
  BY <1>1, <1>3, <1>4 DEF WaitsInv, WaitOK, Sleeping
<1>9. WaitOK(Writer, tx.step, xTaskWaitingToSend)'
  BY <1>1, <1>4 DEF WaitOK, Sleeping
<1>10. WriterTold' /\ ReaderTold'
  <2>1. xRequiredSpace(tx.size)' = xRequiredSpace(tx.size)
    BY <1>1, <1>3
  <2>. QED  BY <1>1, <1>3, <2>1 DEF WaitsInv, WriterTold, ReaderTold
<1>. QED  BY <1>5, <1>6, <1>7, <1>8, <1>9, <1>10 DEF WaitsInv

\* The scheduler resumes.
LEMMA ReceiveUnlockKeeps ==
  ASSUME StreamInv, ReceiveUnlock
  PROVE  StreamInv'
<1>. USE SameBuffer DEF StreamInv
<1>1. /\ rx.step = "unlock" /\ Reader # NULL /\ Reader \in Task
      /\ rx' = Idling /\ ResumeAll(Reader) /\ pxCurrentTCB = Reader
      /\ UNCHANGED <<use, bufferVars, xTaskWaitingToSend, xTaskWaitingToReceive, tx, next>>
  BY Sides DEF ReceiveUnlock, ReaderAt, AtCall, dataVars, waiterVars, ShapeInv
<1>2. rx' \in CallRecord /\ rx'.step = "none"
  BY <1>1, StreamCallRecords DEF Idling
<1>3. uxSchedulerSuspended = 1 /\ TasksOK /\ tx.step \notin Suspending
  BY <1>1, Sides DEF SchedulerInv, Suspending, ShapeInv
<1>4. /\ TasksOK' /\ UNCHANGED <<pxCurrentTCB, ucNotifyState>>
      /\ uxSchedulerSuspended' = 0
      /\ \A u \in Task : state'[u] = IF u \in pending THEN "ready" ELSE state[u]
  BY <1>1, <1>3, ResumeSteps
<1>5. ShapeInv'
  BY <1>1, <1>2, ShapeKept DEF ShapeInv
<1>6. SchedulerInv'
  BY <1>1, <1>2, <1>3, <1>4 DEF SchedulerInv, Suspending
<1>7. RingInv'
  BY <1>1, <1>2, QuietRing DEF Measured
<1>8. xTaskWaitingToReceive = NULL
  BY <1>1 DEF WaitsInv, WaitOK
<1>9. WaitOK(Reader, rx.step, xTaskWaitingToReceive)'
  BY <1>1, <1>2, <1>4, <1>8 DEF WaitsInv, WaitOK, Sleeping
<1>10. WaitOK(Writer, tx.step, xTaskWaitingToSend)'
  BY <1>1, <1>4, Sides DEF WaitsInv, WaitOK, Sleeping, ShapeInv
<1>11. WriterTold' /\ ReaderTold'
  BY <1>1, <1>8 DEF WaitsInv, WriterTold, ReaderTold
<1>. QED  BY <1>5, <1>6, <1>7, <1>9, <1>10, <1>11 DEF WaitsInv

\* A receive begins.
LEMMA ReceiveKeeps ==
  ASSUME StreamInv, NEW n \in use.receiveSizes, NEW ticks \in use.receiveTimes,
         xStreamBufferReceive(n, ticks)
  PROVE  StreamInv'
<1>. USE SameBuffer DEF StreamInv
<1>1. PICK s \in {"check", "measure"} :
        /\ rx.step = "none" /\ Reader # NULL
        /\ rx' = [Idling EXCEPT !.step = s, !.size = n, !.ticks = ticks]
        /\ UNCHANGED <<use, kernelVars, bufferVars, waiterVars, tx, next>>
  BY DEF xStreamBufferReceive, ReaderAt, dataVars
<1>2. n \in Nat /\ ticks \in Int
  BY UsesAre DEF ShapeInv
<1>3. rx'.step = s /\ rx'.size = n
  BY <1>1 DEF Idling
<1>4. rx' \in CallRecord
  <2>1. s \in StreamSteps
    BY <1>1 DEF StreamSteps
  <2>. QED  BY <1>1, <1>2, <2>1, StreamCallRecords
<1>5. ShapeInv'
  BY <1>1, <1>3, <1>4, ShapeKept DEF ShapeInv
<1>6. SchedulerInv'
  BY <1>1, <1>3, QuietScheduler DEF Suspending
<1>7. RingInv'
  BY <1>1, <1>3, QuietRing DEF Measured
<1>8. WaitsInv'
  <2>1. xRequiredSpace(tx.size)' = xRequiredSpace(tx.size)
    BY <1>1
  <2>. QED  BY <1>1, <1>3, <2>1
            DEF WaitsInv, ReaderTold, WriterTold, WaitOK, waiterVars, kernelVars, flagVars, Sleeping
<1>. QED  BY <1>5, <1>6, <1>7, <1>8

\* The count of the bytes and the note are one critical section.
LEMMA ReceiveCheckKeeps ==
  ASSUME StreamInv, ReceiveCheck
  PROVE  StreamInv'
<1>. USE SameBuffer DEF StreamInv
<1>1. /\ rx.step = "check" /\ Reader # NULL /\ Reader \in Task /\ rx \in CallRecord
      /\ UNCHANGED <<use, bufferVars, xTaskWaitingToSend, tx, next>>
  BY Sides DEF ReceiveCheck, ReaderAt, dataVars, ShapeInv
<1>2. prvBytesInBuffer \in Nat
  BY RingIs, Sides DEF ShapeInv
<1>3. CASE NothingToRead
  <2>1. /\ ClearNotification(Reader) /\ xTaskWaitingToReceive' = Reader
        /\ rx' = [rx EXCEPT !.step = "wait"]
    BY <1>3, Zenon DEF ReceiveCheck, RxGoto
  <2>2. rx' \in CallRecord
    BY <1>1, <2>1, StreamCallRecords, Zenon DEF StreamSteps
  <2>3. rx'.step = "wait" /\ rx'.size = rx.size
    BY <1>1, <2>1 DEF CallRecord
  <2>4. ShapeInv'
    BY <1>1, <2>2, <2>3, ShapeKept DEF ShapeInv
  <2>5. /\ TasksOK' /\ UNCHANGED <<pending, uxSchedulerSuspended, pxCurrentTCB>>
        /\ \A u \in Task \ {Reader} : state'[u] = state[u] /\ ucNotifyState'[u] = ucNotifyState[u]
    BY <1>1, <2>1, OwnSteps DEF SchedulerInv
  <2>6. SchedulerInv'
    BY <1>1, <2>3, <2>5, OwnScheduler DEF Suspending
  <2>7. RingInv'
    BY <1>1, <2>3, QuietRing DEF Measured
  <2>8. state' = state
    BY <2>1 DEF ClearNotification, NotifyStateClear, kernelVars
  <2>9. WaitOK(Reader, rx.step, xTaskWaitingToReceive)'
    BY <1>1, <2>1, <2>3, <2>8 DEF WaitsInv, WaitOK, Sleeping
  <2>10. WaitOK(Writer, tx.step, xTaskWaitingToSend)'
    BY <1>1, <2>5, <2>8, Sides DEF WaitsInv, WaitOK, Sleeping, ShapeInv
  <2>11. ReaderTold'
    \* Behind the messages there is no single cell.
    <3>1. prvBytesInBuffer = 0
      <4>1. CASE IsMessageBuffer
        <5>1. prvBytesInBuffer # 1
          <6>1. /\ xLength \in Nat /\ xTail \in 0 .. xLength - 1 /\ 1 \in 1 .. xLength
                /\ pucBuffer \in [0 .. xLength - 1 -> Nat]
            BY Sides DEF ShapeInv
          <6>2. ASSUME prvBytesInBuffer = 1
                PROVE  FALSE
            <7>1. Framed(xLength, pucBuffer, xTail, 1)
              BY <4>1, <6>2 DEF RingInv, MessageInv
            <7>2. pucBuffer[xTail] >= 1 /\ pucBuffer[xTail] + 1 <= 1
              BY <6>1, <7>1, FramedFirst
            <7>. QED  BY <6>1, <7>2
          <6>. QED  BY <6>2
        <5>. QED  BY <1>2, <1>3, <4>1, <5>1, Sides DEF NothingToRead, ShapeInv
      <4>2. CASE ~IsMessageBuffer
        BY <1>2, <1>3, <4>2, Sides DEF NothingToRead, ShapeInv
      <4>. QED  BY <4>1, <4>2
    <3>2. ~(prvBytesInBuffer >= xTriggerLevelBytes)
      BY <3>1, Sides DEF ShapeInv
    <3>. QED  BY <1>1, <3>2 DEF ReaderTold
  <2>12. WriterTold'
    <3>1. xRequiredSpace(tx.size)' = xRequiredSpace(tx.size)
      BY <1>1
    <3>. QED  BY <1>1, <3>1 DEF WaitsInv, WriterTold
  <2>. QED  BY <2>4, <2>6, <2>7, <2>9, <2>10, <2>11, <2>12 DEF WaitsInv
<1>4. CASE ~NothingToRead
  <2>1. /\ rx' = [rx EXCEPT !.amount = prvBytesInBuffer, !.step = "copy"]
        /\ UNCHANGED <<kernelVars, xTaskWaitingToReceive>>
    BY <1>4, Zenon DEF ReceiveCheck
  <2>2. rx' \in CallRecord
    BY <1>1, <1>2, <2>1, StreamCallRecords, Zenon DEF StreamSteps
  <2>3. rx'.step = "copy" /\ rx'.size = rx.size /\ rx'.amount = prvBytesInBuffer
    BY <1>1, <2>1 DEF CallRecord
  <2>4. xTaskWaitingToReceive = NULL
    BY <1>1 DEF WaitsInv, WaitOK
  <2>. QED  BY <1>1, <1>4, <2>1, <2>2, <2>3, <2>4, ReceiveQuietly DEF Suspending
<1>. QED  BY <1>3, <1>4

\* An interrupt notifies one side, if it is noted; the other does not notice.
LEMMA InterruptWaits ==
  ASSUME TasksOK, NEW u \in Task \cup {NULL}, NEW note, NEW at, WaitOK(u, at, note),
         NEW v \in Task \cup {NULL}, NEW note2, NEW at2, WaitOK(v, at2, note2),
         u = v => u = NULL, NULL \notin Task,
         IF note # NULL THEN NotifyFromISR(note) ELSE UNCHANGED kernelVars
  PROVE  /\ TasksOK' /\ UNCHANGED <<uxSchedulerSuspended, pxCurrentTCB>>
         /\ WaitOK(u, at, NULL)' /\ WaitOK(v, at2, note2)'
<1>1. CASE note = NULL
  BY <1>1 DEF WaitOK, Sleeping, TasksOK, kernelVars, flagVars
<1>2. CASE note # NULL
  <2>1. note = u /\ u \in Task
    BY <1>2 DEF WaitOK
  <2>2. /\ TasksOK' /\ UNCHANGED <<uxSchedulerSuspended, pxCurrentTCB>>
        /\ \A w \in Task \ {u} : /\ state'[w] = state[w] /\ ucNotifyState'[w] = ucNotifyState[w]
                                 /\ w \in pending' <=> w \in pending
        /\ ucNotifyState'[u] = "received" /\ (u \in pending => u \in pending')
        /\ state'[u] \in {state[u], "ready"}
        /\ ucNotifyState[u] = "waiting" => state'[u] = "ready" \/ u \in pending'
    BY <1>2, <2>1, NotifySteps
  <2>3. WaitOK(u, at, NULL)'
    BY <2>1, <2>2 DEF WaitOK, Sleeping
  <2>4. WaitOK(v, at2, note2)'
    BY <2>1, <2>2 DEF WaitOK, Sleeping
  <2>. QED  BY <2>2, <2>3, <2>4
<1>. QED  BY <1>1, <1>2

\* What an interrupt does to the two sides.
LEMMA ReaderInterrupted ==
  ASSUME StreamInv, NotifyWaiterFromISR(xTaskWaitingToReceive), UNCHANGED use
  PROVE  /\ TasksOK' /\ UNCHANGED <<uxSchedulerSuspended, pxCurrentTCB>>
         /\ UNCHANGED rx /\ xTaskWaitingToReceive' = NULL =>
              WaitOK(Reader, rx.step, xTaskWaitingToReceive)'
         /\ UNCHANGED <<tx, xTaskWaitingToSend>> => WaitOK(Writer, tx.step, xTaskWaitingToSend)'
<1>1. /\ TasksOK /\ WaitOK(Reader, rx.step, xTaskWaitingToReceive)
      /\ WaitOK(Writer, tx.step, xTaskWaitingToSend)
  BY DEF StreamInv, SchedulerInv, WaitsInv
<1>2. /\ Reader \in Task \cup {NULL} /\ Writer \in Task \cup {NULL} /\ NULL \notin Task
      /\ Reader = Writer => Reader = NULL
  BY Sides DEF StreamInv, ShapeInv
<1>3. /\ xTaskWaitingToReceive # NULL => NotifyFromISR(xTaskWaitingToReceive)
      /\ xTaskWaitingToReceive = NULL => UNCHANGED kernelVars
  BY DEF NotifyWaiterFromISR, Told
<1>4. PICK u, v, s, s2, note, note2 :
        /\ u = Reader /\ s = rx.step /\ note = xTaskWaitingToReceive
        /\ v = Writer /\ s2 = tx.step /\ note2 = xTaskWaitingToSend
  OBVIOUS
<1>5. /\ TasksOK' /\ UNCHANGED <<uxSchedulerSuspended, pxCurrentTCB>>
      /\ WaitOK(u, s, NULL)' /\ WaitOK(v, s2, note2)'
  BY <1>1, <1>2, <1>3, <1>4, InterruptWaits
<1>6. Reader' = Reader /\ Writer' = Writer
  BY DEF Reader, Writer
<1>. QED  BY <1>4, <1>5, <1>6 DEF WaitOK, Sleeping

\* The same of the writer, notified by an interrupt that reads.
LEMMA WriterInterrupted ==
  ASSUME StreamInv, NotifyWaiterFromISR(xTaskWaitingToSend), UNCHANGED use
  PROVE  /\ TasksOK' /\ UNCHANGED <<uxSchedulerSuspended, pxCurrentTCB>>
         /\ UNCHANGED tx /\ xTaskWaitingToSend' = NULL =>
              WaitOK(Writer, tx.step, xTaskWaitingToSend)'
         /\ UNCHANGED <<rx, xTaskWaitingToReceive>> =>
              WaitOK(Reader, rx.step, xTaskWaitingToReceive)'
<1>1. /\ TasksOK /\ WaitOK(Reader, rx.step, xTaskWaitingToReceive)
      /\ WaitOK(Writer, tx.step, xTaskWaitingToSend)
  BY DEF StreamInv, SchedulerInv, WaitsInv
<1>2. /\ Reader \in Task \cup {NULL} /\ Writer \in Task \cup {NULL} /\ NULL \notin Task
      /\ Reader = Writer => Reader = NULL
  BY Sides DEF StreamInv, ShapeInv
<1>3. /\ xTaskWaitingToSend # NULL => NotifyFromISR(xTaskWaitingToSend)
      /\ xTaskWaitingToSend = NULL => UNCHANGED kernelVars
  BY DEF NotifyWaiterFromISR, Told
<1>4. PICK u, v, s, s2, note, note2 :
        /\ u = Writer /\ s = tx.step /\ note = xTaskWaitingToSend
        /\ v = Reader /\ s2 = rx.step /\ note2 = xTaskWaitingToReceive
  OBVIOUS
<1>5. /\ TasksOK' /\ UNCHANGED <<uxSchedulerSuspended, pxCurrentTCB>>
      /\ WaitOK(u, s, NULL)' /\ WaitOK(v, s2, note2)'
  BY <1>1, <1>2, <1>3, <1>4, InterruptWaits
<1>6. Reader' = Reader /\ Writer' = Writer
  BY DEF Reader, Writer
<1>. QED  BY <1>4, <1>5, <1>6 DEF WaitOK, Sleeping

\* A reader that is woken for nothing is not noted any more and tests again.
LEMMA SendCompletedKeeps ==
  ASSUME StreamInv, xStreamBufferSendCompletedFromISR
  PROVE  StreamInv'
<1>. USE SameBuffer
<1>1. /\ NotifyWaiterFromISR(xTaskWaitingToReceive) /\ xTaskWaitingToReceive' = NULL
      /\ UNCHANGED <<use, bufferVars, xTaskWaitingToSend, tx, rx, next>>
  BY DEF xStreamBufferSendCompletedFromISR, NotifyWaiterFromISR, Told, dataVars
<1>2. ShapeInv'
  BY <1>1, ShapeKept DEF ShapeInv, StreamInv
<1>3. /\ TasksOK' /\ UNCHANGED <<uxSchedulerSuspended, pxCurrentTCB>>
      /\ WaitOK(Reader, rx.step, xTaskWaitingToReceive)'
      /\ WaitOK(Writer, tx.step, xTaskWaitingToSend)'
  BY <1>1, ReaderInterrupted
<1>4. SchedulerInv'
  BY <1>1, <1>3, OwnScheduler DEF StreamInv
<1>5. RingInv'
  BY <1>1, QuietRing DEF StreamInv
<1>6. WriterTold' /\ ReaderTold'
  BY <1>1 DEF StreamInv, WaitsInv, WriterTold, ReaderTold
<1>. QED  BY <1>2, <1>3, <1>4, <1>5, <1>6 DEF StreamInv, WaitsInv

\* The same of a writer.
LEMMA ReceiveCompletedKeeps ==
  ASSUME StreamInv, xStreamBufferReceiveCompletedFromISR
  PROVE  StreamInv'
<1>. USE SameBuffer
<1>1. /\ NotifyWaiterFromISR(xTaskWaitingToSend) /\ xTaskWaitingToSend' = NULL
      /\ UNCHANGED <<use, bufferVars, xTaskWaitingToReceive, tx, rx, next>>
  BY DEF xStreamBufferReceiveCompletedFromISR, NotifyWaiterFromISR, Told, dataVars
<1>2. ShapeInv'
  BY <1>1, ShapeKept DEF ShapeInv, StreamInv
<1>3. /\ TasksOK' /\ UNCHANGED <<uxSchedulerSuspended, pxCurrentTCB>>
      /\ WaitOK(Reader, rx.step, xTaskWaitingToReceive)'
      /\ WaitOK(Writer, tx.step, xTaskWaitingToSend)'
  BY <1>1, WriterInterrupted
<1>4. SchedulerInv'
  BY <1>1, <1>3, OwnScheduler DEF StreamInv
<1>5. RingInv'
  BY <1>1, QuietRing DEF StreamInv
<1>6. WriterTold' /\ ReaderTold'
  BY <1>1 DEF StreamInv, WaitsInv, WriterTold, ReaderTold
<1>. QED  BY <1>2, <1>3, <1>4, <1>5, <1>6 DEF StreamInv, WaitsInv

\* Time and the processor: they put nobody to sleep.
LEMMA StreamSchedulerKeeps ==
  ASSUME StreamInv, StreamScheduler
  PROVE  StreamInv'
<1>. USE SameBuffer
<1>1. /\ IncrementTick \/ SwitchContext
      /\ UNCHANGED <<use, bufferVars, xTaskWaitingToReceive, xTaskWaitingToSend, rx, next>>
      /\ tx \in CallRecord
  BY DEF StreamScheduler, waiterVars, dataVars, StreamInv, ShapeInv
<1>2. /\ TasksOK' /\ UNCHANGED <<ucNotifyState, uxSchedulerSuspended>>
      /\ uxSchedulerSuspended = 0 /\ pending = {}
      /\ \A u \in Task : state'[u] \in {state[u], "ready"}
  BY <1>1, SchedulerSteps DEF StreamInv, SchedulerInv
<1>3. PICK e \in Int : tx' = tx \/ tx' = [tx EXCEPT !.elapsed = e]
  <2>1. tx.elapsed \in Int /\ tx.ticks \in Int
    BY <1>1 DEF CallRecord
  <2>2. Min({tx.elapsed + 1, tx.ticks}) \in Int
    BY <2>1, MinOfTwo
  <2>3. tx' = tx \/ tx' = [tx EXCEPT !.elapsed = Min({tx.elapsed + 1, tx.ticks})]
    BY DEF StreamScheduler
  <2>. QED  BY <2>2, <2>3
<1>4. tx' \in CallRecord
  BY <1>1, <1>3, StreamCallRecords
<1>5. tx'.step = tx.step /\ tx'.size = tx.size /\ tx'.amount = tx.amount /\ tx'.data = tx.data
  BY <1>1, <1>3 DEF CallRecord
<1>6. ShapeInv'
  BY <1>1, <1>4, <1>5, ShapeKept DEF ShapeInv, StreamInv
<1>7. SchedulerInv'
  BY <1>1, <1>2, <1>5 DEF SchedulerInv, StreamInv
<1>8. RingInv'
  BY <1>1, <1>5, QuietRing DEF StreamInv
<1>9. WaitOK(Writer, tx.step, xTaskWaitingToSend)'
  BY <1>1, <1>2, <1>5, Sides DEF StreamInv, ShapeInv, WaitsInv, WaitOK, Sleeping
<1>10. WaitOK(Reader, rx.step, xTaskWaitingToReceive)'
  BY <1>1, <1>2, Sides DEF StreamInv, ShapeInv, WaitsInv, WaitOK, Sleeping
<1>11. WriterTold' /\ ReaderTold'
  <2>1. xRequiredSpace(tx.size)' = xRequiredSpace(tx.size)
    BY <1>1, <1>5
  <2>. QED  BY <1>1, <1>5, <2>1 DEF StreamInv, WaitsInv, WriterTold, ReaderTold
<1>. QED  BY <1>6, <1>7, <1>8, <1>9, <1>10, <1>11 DEF StreamInv, WaitsInv

\* An interrupt writes to a buffer that is reset: no send is under way.
LEMMA ResetKeeps ==
  ASSUME StreamInv, xStreamBufferReset, use.resets => Writer = NULL
  PROVE  StreamInv'
<1>1. /\ Writer = NULL /\ tx.step = "none" /\ rx.step = "none"
      /\ xTaskWaitingToReceive = NULL /\ xTaskWaitingToSend = NULL
      /\ xHead' = 0 /\ xTail' = 0
      /\ UNCHANGED <<use, kernelVars, pucBuffer, xTriggerLevelBytes, xTaskWaitingToReceive,
                     xTaskWaitingToSend, tx, rx, next>>
  BY DEF xStreamBufferReset, ReaderAt, waiterVars, dataVars, StreamInv, ShapeInv
<1>2. /\ Writer' = Writer /\ Reader' = Reader /\ xLength' = xLength
      /\ IsMessageBuffer' = IsMessageBuffer
  BY <1>1 DEF Writer, Reader, xLength, IsMessageBuffer
<1>3. xLength \in Nat /\ 0 \in 0 .. xLength - 1
  BY Sides DEF StreamInv, ShapeInv
<1>4. ShapeInv'
  BY <1>1, <1>2, <1>3 DEF ShapeInv, StreamInv
<1>5. SchedulerInv'
  BY <1>1, QuietScheduler DEF StreamInv
<1>6. RingInv'
  <2>1. prvBytesInBuffer' = 0
    BY <1>1, <1>2, <1>3 DEF prvBytesInBuffer
  <2>2. MessageInv'
    BY <2>1, FramedEmpty DEF MessageInv
  <2>3. WriterInv' /\ ReaderInv'
    BY <1>1 DEF WriterInv, ReaderInv, Measured
  <2>. QED  BY <2>2, <2>3 DEF RingInv
<1>7. WaitsInv'
  BY <1>1, <1>2 DEF StreamInv, WaitsInv, WaitOK, Sleeping, ReaderTold, WriterTold, kernelVars, flagVars
<1>. QED  BY <1>4, <1>5, <1>6, <1>7 DEF StreamInv

\* The reader sets the trigger level: it does not wait then.
LEMMA SetTriggerLevelKeeps ==
  ASSUME StreamInv, NEW n \in use.triggers, xStreamBufferSetTriggerLevel(n), use.setter = Reader
  PROVE  StreamInv'
<1>1. /\ rx.step = "none" /\ n < xLength
      /\ xTriggerLevelBytes' = IF n = 0 THEN 1 ELSE n
      /\ UNCHANGED <<use, kernelVars, xHead, xTail, pucBuffer, xTaskWaitingToReceive,
                     xTaskWaitingToSend, tx, rx, next>>
  BY Sides DEF xStreamBufferSetTriggerLevel, ReaderAt, WriterAt, waiterVars, dataVars, StreamInv,
     ShapeInv
<1>2. /\ Writer' = Writer /\ Reader' = Reader /\ xLength' = xLength
      /\ IsMessageBuffer' = IsMessageBuffer /\ prvBytesInBuffer' = prvBytesInBuffer
      /\ xStreamBufferSpacesAvailable' = xStreamBufferSpacesAvailable
      /\ xBytesToStoreMessageLength' = xBytesToStoreMessageLength
      /\ \A k : xRequiredSpace(k)' = xRequiredSpace(k)
  BY <1>1 DEF Writer, Reader, xLength, IsMessageBuffer, prvBytesInBuffer,
     xStreamBufferSpacesAvailable, xBytesToStoreMessageLength, xRequiredSpace, xMaxReportedSpace
<1>3. ShapeInv'
  <2>1. n \in Nat /\ xLength \in Nat /\ xLength >= 2
    BY UsesAre, Sides DEF StreamInv, ShapeInv
  <2>2. xTriggerLevelBytes' \in 1 .. xLength - 1
    BY <1>1, <2>1
  <2>. QED  BY <1>1, <1>2, <2>2 DEF ShapeInv, StreamInv
<1>4. SchedulerInv'
  BY <1>1, QuietScheduler DEF StreamInv
<1>5. RingInv'
  <2>1. Copied' <=> Copied
    BY <1>1, <1>2 DEF Copied, Advance, Cells, Numbered
  <2>2. ReaderInv' /\ MessageInv'
    BY <1>1, <1>2 DEF StreamInv, RingInv, ReaderInv, MessageInv
  <2>. QED  BY <1>1, <1>2, <2>1, <2>2 DEF StreamInv, RingInv, WriterInv
<1>6. WaitsInv'
  BY <1>1, <1>2 DEF StreamInv, WaitsInv, WaitOK, Sleeping, ReaderTold, WriterTold, kernelVars, flagVars
<1>. QED  BY <1>3, <1>4, <1>5, <1>6 DEF StreamInv

\* An empty buffer, and nobody calls.
LEMMA StreamInitHolds ==
  StreamInit => StreamInv
<1>. SUFFICES ASSUME StreamInit PROVE StreamInv
  OBVIOUS
<1>1. /\ use \in Uses /\ xHead = 0 /\ xTail = 0 /\ pucBuffer = [i \in 0 .. xLength - 1 |-> 0]
      /\ xTriggerLevelBytes = use.trigger /\ next = 0 /\ tx = Idling /\ rx = Idling
      /\ xTaskWaitingToReceive = NULL /\ xTaskWaitingToSend = NULL
  BY DEF StreamInit
<1>2. tx.step = "none" /\ rx.step = "none"
  BY <1>1 DEF Idling
<1>3. xLength \in Nat /\ xLength >= 2 /\ use.trigger \in 1 .. xLength - 1
  BY <1>1, UsesAre DEF xLength
<1>4. ShapeInv
  <2>1. pucBuffer \in [0 .. xLength - 1 -> Nat]
    BY <1>1
  <2>2. tx \in CallRecord /\ rx \in CallRecord
    BY <1>1, StreamCallRecords
  <2>3. 0 \in 0 .. xLength - 1 /\ 0 \in Nat
    BY <1>3
  <2>. QED  BY <1>1, <1>2, <1>3, <2>1, <2>2, <2>3 DEF ShapeInv
<1>5. /\ TasksOK /\ uxSchedulerSuspended = 0
      /\ \A t \in Task : state[t] \in {"ready", "none"}
  BY DEF StreamInit, Init, TasksOK, States, NotifyStates
<1>6. SchedulerInv
  BY <1>2, <1>5 DEF SchedulerInv, Suspending
<1>7. prvBytesInBuffer = 0
  BY <1>1, <1>3 DEF prvBytesInBuffer
<1>8. RingInv
  BY <1>2, <1>7, FramedEmpty DEF RingInv, WriterInv, ReaderInv, MessageInv, Measured
<1>9. WaitsInv
  BY <1>1, <1>2, <1>5, Sides DEF WaitsInv, WaitOK, Sleeping, ReaderTold, WriterTold
<1>. QED  BY <1>4, <1>6, <1>8, <1>9 DEF StreamInv

-----------------------------------------------------------------------------
(* Writing and reading *)

\* The copying finds the i-th cell from the head on as the i-th.
LEMMA OffsetFromHead ==
  ASSUME NEW L \in Nat, NEW h \in 0 .. L - 1, NEW i \in 0 .. L - 1
  PROVE  (Turn(L, h, i) + L - h) % L = i
<1>1. PICK x \in Nat : x = Turn(L, h, i) + L - h
  BY DEF Turn
<1>2. x \in 0 .. 2 * L - 1 /\ (x = i \/ x = L + i)
  BY <1>1 DEF Turn
<1>3. x % L = IF x < L THEN x ELSE x - L
  BY <1>2, Remainder
<1>. QED  BY <1>1, <1>2, <1>3

\* What the buffer holds is as far from the head, going on, as a full turn.
LEMMA OffsetOfContent ==
  ASSUME NEW L \in Nat, NEW h \in 0 .. L - 1, NEW t \in 0 .. L - 1,
         NEW i \in 0 .. Count(L, h, t) - 1
  PROVE  (Turn(L, t, i) + L - h) % L >= L - Count(L, h, t)
<1>1. PICK c \in 0 .. L - 1 : c = Count(L, h, t)
  BY CountTypes
<1>2. i \in 0 .. c - 1 /\ i \in Int /\ Turn(L, t, c) = h
  BY <1>1, CountTypes
<1>3. PICK x \in Nat : x = Turn(L, t, i) + L - h
  <2>1. Turn(L, t, i) \in Nat
    BY <1>1, <1>2 DEF Turn
  <2>. QED  BY <2>1
<1>4. x \in 0 .. 2 * L - 1 /\ (x = L - c + i \/ x = L + L - c + i)
  BY <1>1, <1>2, <1>3 DEF Turn
<1>5. x % L = IF x < L THEN x ELSE x - L
  BY <1>4, Remainder
<1>6. PICK y : y = x % L
  OBVIOUS
<1>7. y = IF x < L THEN x ELSE x - L
  BY <1>5, <1>6
<1>8. y >= L - c
  BY <1>1, <1>2, <1>4, <1>7
<1>. QED  BY <1>1, <1>3, <1>6, <1>8

\* What is written: the bytes and, before those of a message, their number.
LEMMA CellsAre ==
  ASSUME use \in Uses, next \in Nat, NEW n \in Nat
  PROVE  /\ Numbered(n) \in Seq(Nat) /\ Len(Numbered(n)) = n
         /\ Cells(n) \in Seq(Nat) /\ Len(Cells(n)) = n + xBytesToStoreMessageLength
         /\ IsMessageBuffer => Cells(n)[1] = n
<1>1. Numbers \in Nat /\ Numbers > 0
  <2>1. Numbers \in Nat /\ use.length \in 1 .. Numbers - 1
    BY StreamBuffersAssumption
  <2>. QED  BY <2>1
<1>2. \A i \in 1 .. n : (next + i - 1) % Numbers \in Nat
  BY <1>1
<1>3. Numbered(n) \in Seq(Nat) /\ Len(Numbered(n)) = n
  BY <1>2 DEF Numbered
<1>4. /\ <<n>> \o Numbered(n) \in Seq(Nat) /\ Len(<<n>> \o Numbered(n)) = n + 1
      /\ (<<n>> \o Numbered(n))[1] = n
  BY <1>3
<1>. QED  BY <1>3, <1>4, Sides DEF Cells, xBytesToStoreMessageLength

\* Cells that fit the space are stored from the head on, and the content is
\* not touched.
LEMMA StoredCells ==
  ASSUME ShapeInv, NEW bytes \in Seq(Nat), Len(bytes) <= xStreamBufferSpacesAvailable
  PROVE  /\ Stored(bytes) \in [0 .. xLength - 1 -> Nat]
         /\ \A i \in 0 .. Len(bytes) - 1 : Stored(bytes)[Advance(xHead, i)] = bytes[i + 1]
         /\ \A i \in 0 .. prvBytesInBuffer - 1 :
              Stored(bytes)[Turn(xLength, xTail, i)] = pucBuffer[Turn(xLength, xTail, i)]
<1>1. /\ xLength \in Nat /\ xLength >= 2 /\ xHead \in 0 .. xLength - 1 /\ xTail \in 0 .. xLength - 1
      /\ pucBuffer \in [0 .. xLength - 1 -> Nat]
  BY Sides DEF ShapeInv
<1>2. PICK c \in 0 .. xLength - 1 :
        /\ c = Count(xLength, xHead, xTail) /\ prvBytesInBuffer = c
        /\ xStreamBufferSpacesAvailable = xLength - 1 - c
  BY RingIs
<1>3. PICK m \in Nat : m = Len(bytes) /\ m <= xLength - 1 - c
  BY <1>2
<1>. DEFINE offset(i) == (i + xLength - xHead) % xLength
<1>4. \A i \in 0 .. xLength - 1 : offset(i) \in Nat
  BY <1>1
<1>5. Stored(bytes) =
        [i \in 0 .. xLength - 1 |-> IF offset(i) < m THEN bytes[offset(i) + 1] ELSE pucBuffer[i]]
  BY <1>3 DEF Stored
<1>6. \A i \in 0 .. xLength - 1 : offset(Turn(xLength, xHead, i)) = i
  BY <1>1, OffsetFromHead
<1>7. \A i \in 0 .. c - 1 : offset(Turn(xLength, xTail, i)) >= xLength - c
  BY <1>1, <1>2, OffsetOfContent
<1>8. \A i \in 0 .. xLength - 1 : /\ Turn(xLength, xHead, i) \in 0 .. xLength - 1
                                  /\ Turn(xLength, xTail, i) \in 0 .. xLength - 1
  BY <1>1 DEF Turn
<1>. HIDE DEF offset
<1>9. Stored(bytes) \in [0 .. xLength - 1 -> Nat]
  <2>1. ASSUME NEW i \in 0 .. xLength - 1
        PROVE  (IF offset(i) < m THEN bytes[offset(i) + 1] ELSE pucBuffer[i]) \in Nat
    <3>1. offset(i) \in Nat /\ pucBuffer[i] \in Nat
      BY <1>1, <1>4
    <3>2. CASE offset(i) < m
      <4>1. offset(i) + 1 \in 1 .. Len(bytes)
        BY <1>3, <3>1, <3>2
      <4>2. bytes[offset(i) + 1] \in Nat
        BY <4>1
      <4>. QED  BY <3>2, <4>2
    <3>. QED  BY <3>1, <3>2
  <2>. QED  BY <1>5, <2>1
<1>10. ASSUME NEW i \in 0 .. m - 1
       PROVE  Stored(bytes)[Advance(xHead, i)] = bytes[i + 1]
  <2>1. i \in 0 .. xLength - 1
    BY <1>1, <1>3
  <2>2. PICK k \in 0 .. xLength - 1 : k = Turn(xLength, xHead, i) /\ offset(k) = i
    BY <1>6, <1>8, <2>1
  <2>3. Stored(bytes)[k] = bytes[i + 1]
    BY <1>5, <2>2
  <2>4. Advance(xHead, i) = k
    BY <2>2 DEF Advance, Turn
  <2>. QED  BY <2>3, <2>4
<1>11. ASSUME NEW i \in 0 .. c - 1
       PROVE  Stored(bytes)[Turn(xLength, xTail, i)] = pucBuffer[Turn(xLength, xTail, i)]
  <2>0. i \in 0 .. xLength - 1
    BY <1>1
  <2>1. PICK k \in 0 .. xLength - 1 : k = Turn(xLength, xTail, i)
    BY <1>8, <2>0
  <2>2. offset(k) >= xLength - c /\ offset(k) \in Nat
    BY <1>4, <1>7, <2>1
  <2>3. ~(offset(k) < m)
    BY <1>1, <1>3, <2>2
  <2>. QED  BY <1>5, <2>1, <2>3
<1>. QED  BY <1>2, <1>3, <1>9, <1>10, <1>11

\* What a send accepts fits the space, with its length.
LEMMA AcceptedFits ==
  ASSUME use \in Uses, NEW size \in Nat \ {0}, NEW space \in Nat
  PROVE  /\ Accepted(size, space) \in Nat
         /\ Accepted(size, space) # 0 =>
              Accepted(size, space) + xBytesToStoreMessageLength <= space
<1>1. CASE IsMessageBuffer
  BY <1>1, Required, Sides DEF Accepted
<1>2. CASE ~IsMessageBuffer
  BY <1>2, MinOfTwo, Sides DEF Accepted
<1>. QED  BY <1>1, <1>2

\* What is read: the cells from the tail on, behind the length of a message.
LEMMA BytesFromTail ==
  ASSUME ShapeInv, NEW n \in Nat, n + xBytesToStoreMessageLength <= prvBytesInBuffer
  PROVE  LET data == BytesFrom((xTail + xBytesToStoreMessageLength) % xLength, n)
         IN  /\ data \in Seq(Nat) /\ Len(data) = n
             /\ \A i \in 1 .. n :
                  data[i] = pucBuffer[Advance(xTail, xBytesToStoreMessageLength + i - 1)]
<1>1. /\ xLength \in Nat /\ xLength >= 2 /\ xTail \in 0 .. xLength - 1
      /\ pucBuffer \in [0 .. xLength - 1 -> Nat]
      /\ prvBytesInBuffer \in 0 .. xLength - 1
  BY Sides, RingIs DEF ShapeInv
<1>2. PICK b \in {0, 1} : b = xBytesToStoreMessageLength
  BY Sides DEF ShapeInv
<1>3. n + b <= xLength - 1
  BY <1>1, <1>2
<1>4. PICK s \in 0 .. xLength - 1 :
        s = (xTail + xBytesToStoreMessageLength) % xLength /\ s = Turn(xLength, xTail, b)
  <2>1. b \in 0 .. xLength - 1
    BY <1>1
  <2>2. (xTail + b) % xLength = Turn(xLength, xTail, b)
    BY <1>1, <2>1, TurnIsRemainder
  <2>3. Turn(xLength, xTail, b) \in 0 .. xLength - 1
    BY <1>1, <2>1 DEF Turn
  <2>. QED  BY <1>2, <2>2, <2>3
<1>5. ASSUME NEW i \in 1 .. n
      PROVE  /\ (s + i - 1) % xLength = Advance(xTail, b + i - 1)
             /\ (s + i - 1) % xLength \in 0 .. xLength - 1
  <2>1. i \in 1 .. xLength
    BY <1>1, <1>3
  <2>2. /\ (s + i - 1) % xLength = Turn(xLength, s, i - 1)
        /\ Turn(xLength, s, i - 1) \in 0 .. xLength - 1
    BY <1>1, <2>1, CellIsTurn
  <2>3. PICK j \in 0 .. xLength : j = i - 1 /\ b + j <= xLength /\ b + j = b + i - 1
    BY <1>1, <1>3
  <2>4. b \in 0 .. xLength
    BY <1>1
  <2>5. Turn(xLength, s, j) = Turn(xLength, xTail, b + j)
    BY <1>1, <1>4, <2>3, <2>4, TurnTwice
  <2>6. Turn(xLength, xTail, b + j) = Advance(xTail, b + j)
    BY DEF Turn, Advance
  <2>. QED  BY <2>2, <2>3, <2>5, <2>6
<1>6. BytesFrom(s, n) = [i \in 1 .. n |-> pucBuffer[(s + i - 1) % xLength]]
  BY DEF BytesFrom
<1>7. \A i \in 1 .. n : pucBuffer[(s + i - 1) % xLength] \in Nat
  BY <1>1, <1>5
<1>8. BytesFrom(s, n) \in Seq(Nat) /\ Len(BytesFrom(s, n)) = n
  BY <1>6, <1>7
<1>9. \A i \in 1 .. n : BytesFrom(s, n)[i] = pucBuffer[Advance(xTail, b + i - 1)]
  BY <1>5, <1>6
<1>. QED  BY <1>2, <1>4, <1>8, <1>9

\* What is received is in the buffer, a message as a whole or not at all.
LEMMA TakenIs ==
  ASSUME ShapeInv, NEW size \in Nat \ {0}, NEW available \in Nat,
         xBytesToStoreMessageLength < available, available <= prvBytesInBuffer,
         IsMessageBuffer => pucBuffer[xTail] + 1 <= available
  PROVE  LET data == Taken(size, available)
         IN  /\ data \in Seq(Nat) /\ Len(data) + xBytesToStoreMessageLength <= prvBytesInBuffer
             /\ IsMessageBuffer /\ Len(data) > 0 => Len(data) = pucBuffer[xTail]
             /\ \A i \in 1 .. Len(data) :
                  data[i] = pucBuffer[Advance(xTail, xBytesToStoreMessageLength + i - 1)]
<1>1. /\ pucBuffer[xTail] \in Nat /\ prvBytesInBuffer \in Nat
  <2>1. xLength \in Nat /\ xTail \in 0 .. xLength - 1 /\ pucBuffer \in [0 .. xLength - 1 -> Nat]
    BY Sides DEF ShapeInv
  <2>. QED  BY <2>1, RingIs
<1>2. PICK b \in {0, 1} : b = xBytesToStoreMessageLength /\ (IsMessageBuffer <=> b = 1)
  BY Sides DEF ShapeInv
<1>. DEFINE length == IF IsMessageBuffer THEN pucBuffer[xTail] ELSE size
            most   == IF length > size THEN 0 ELSE length
            count  == Min({most, available - b})
<1>3. most \in Nat /\ (IsMessageBuffer => most \in {0, pucBuffer[xTail]})
  BY <1>1
<1>4. IsMessageBuffer => most <= available - b
  BY <1>1, <1>2
<1>. HIDE DEF most
<1>5. count = IF most <= available - b THEN most ELSE available - b
  BY <1>2, <1>3, MinOfTwo
<1>6. /\ count \in Nat /\ count + b <= prvBytesInBuffer
      /\ IsMessageBuffer /\ count > 0 => count = pucBuffer[xTail]
  BY <1>1, <1>2, <1>3, <1>4, <1>5
<1>7. Taken(size, available) = BytesFrom((xTail + xBytesToStoreMessageLength) % xLength, count)
  BY <1>2 DEF Taken, most
<1>. HIDE DEF count
<1>. QED  BY <1>2, <1>6, <1>7, BytesFromTail

\* What the reader knows, when more is written behind it.
LEMMA ReaderKept ==
  ASSUME ShapeInv, ReaderInv, UNCHANGED <<use, xTail, rx>>, prvBytesInBuffer' \in Int,
         prvBytesInBuffer' >= prvBytesInBuffer,
         \A i \in 0 .. prvBytesInBuffer - 1 :
           pucBuffer'[Turn(xLength, xTail, i)] = pucBuffer[Turn(xLength, xTail, i)]
  PROVE  ReaderInv'
<1>1. /\ xBytesToStoreMessageLength' = xBytesToStoreMessageLength
      /\ IsMessageBuffer' = IsMessageBuffer /\ \A i, n : Advance(i, n)' = Advance(i, n)
  BY DEF xBytesToStoreMessageLength, IsMessageBuffer, Advance, xLength
<1>2. xLength \in Nat /\ xTail \in 0 .. xLength - 1 /\ prvBytesInBuffer \in Nat
  BY Sides, RingIs DEF ShapeInv
<1>3. prvBytesInBuffer > 0 => pucBuffer'[xTail] = pucBuffer[xTail]
  <2>1. Turn(xLength, xTail, 0) = xTail
    BY <1>2 DEF Turn
  <2>2. prvBytesInBuffer > 0 => 0 \in 0 .. prvBytesInBuffer - 1
    BY <1>2
  <2>. QED  BY <2>1, <2>2
<1>4. PICK b \in {0, 1} : b = xBytesToStoreMessageLength
  BY Sides DEF ShapeInv
<1>5. rx.amount \in Nat /\ Len(rx.data) \in Nat
  BY DEF ShapeInv, CallRecord
<1>6. ASSUME rx.step = "copy"
      PROVE  /\ b < rx.amount /\ rx.amount <= prvBytesInBuffer'
             /\ IsMessageBuffer => pucBuffer'[xTail] + 1 <= rx.amount
  <2>1. /\ b < rx.amount /\ rx.amount <= prvBytesInBuffer
        /\ IsMessageBuffer => pucBuffer[xTail] + 1 <= rx.amount
    BY <1>4, <1>6 DEF ReaderInv
  <2>. QED  BY <1>2, <1>3, <1>5, <2>1
<1>7. ASSUME rx.step = "move"
      PROVE  LET k == Len(rx.data)
             IN  /\ k > 0 /\ k + b <= prvBytesInBuffer'
                 /\ IsMessageBuffer => k = pucBuffer'[xTail]
                 /\ \A i \in 1 .. k : rx.data[i] = pucBuffer'[Advance(xTail, b + i - 1)]
  <2>1. PICK k \in Nat : k = Len(rx.data)
    BY <1>5
  <2>2. /\ k > 0 /\ k + b <= prvBytesInBuffer
        /\ IsMessageBuffer => k = pucBuffer[xTail]
        /\ \A i \in 1 .. k : rx.data[i] = pucBuffer[Advance(xTail, b + i - 1)]
    BY <1>4, <1>7, <2>1 DEF ReaderInv
  <2>3. ASSUME NEW i \in 1 .. k
        PROVE  rx.data[i] = pucBuffer'[Advance(xTail, b + i - 1)]
    <3>1. b + i - 1 \in 0 .. prvBytesInBuffer - 1
      BY <1>2, <2>2
    <3>2. Advance(xTail, b + i - 1) = Turn(xLength, xTail, b + i - 1)
      BY DEF Advance, Turn
    <3>. QED  BY <2>2, <3>1, <3>2
  <2>. QED  BY <1>2, <1>3, <2>1, <2>2, <2>3
<1>. QED  BY <1>1, <1>4, <1>6, <1>7 DEF ReaderInv

\* What the writer knows, when more is read before it.
LEMMA WriterKept ==
  ASSUME ShapeInv, WriterInv, UNCHANGED <<use, xHead, pucBuffer, tx, next>>,
         xStreamBufferSpacesAvailable' \in Int,
         xStreamBufferSpacesAvailable' >= xStreamBufferSpacesAvailable
  PROVE  WriterInv'
<1>1. /\ xBytesToStoreMessageLength' = xBytesToStoreMessageLength
      /\ \A i, n : Advance(i, n)' = Advance(i, n)
      /\ \A k : Numbered(k)' = Numbered(k) /\ Cells(k)' = Cells(k)
  BY DEF xBytesToStoreMessageLength, IsMessageBuffer, Advance, xLength, Numbered, Cells
<1>2. xStreamBufferSpacesAvailable \in Int /\ xBytesToStoreMessageLength \in Int
  BY RingIs, Sides DEF ShapeInv
<1>3. tx.amount \in Int /\ Len(tx.data) \in Int
  BY DEF ShapeInv, CallRecord
<1>4. tx.step \in Measured => tx.amount <= xStreamBufferSpacesAvailable'
  BY <1>2, <1>3 DEF WriterInv
<1>5. ASSUME tx.step = "move"
      PROVE  Copied'
  <2>1. Copied
    BY <1>5 DEF WriterInv
  <2>2. Len(tx.data) + xBytesToStoreMessageLength <= xStreamBufferSpacesAvailable'
    BY <1>2, <1>3, <2>1 DEF Copied
  <2>. QED  BY <1>1, <2>1, <2>2 DEF Copied
<1>. QED  BY <1>4, <1>5 DEF WriterInv

\* The bytes are copied behind the head, into space that was measured and that
\* only the reader changes, upwards.
LEMMA SendCopyKeeps ==
  ASSUME StreamInv, SendCopy
  PROVE  StreamInv'
<1>. DEFINE n == Accepted(tx.size, tx.amount)
            bytes == Cells(n)
<1>1. /\ tx.step = "copy" /\ Writer # NULL /\ tx \in CallRecord
      /\ IF n = 0
           THEN tx' = Idling /\ UNCHANGED pucBuffer
           ELSE /\ pucBuffer' = Stored(Cells(n))
                /\ tx' = [tx EXCEPT !.data = Numbered(n), !.step = "move",
                                    !.amount = Advance(xHead, Len(Cells(n)))]
      /\ UNCHANGED <<use, kernelVars, xHead, xTail, xTriggerLevelBytes, xTaskWaitingToReceive,
                     xTaskWaitingToSend, rx, next>>
  BY DEF SendCopy, WriterAt, waiterVars, dataVars, StreamInv, ShapeInv
<1>2. xTaskWaitingToSend = NULL
  BY <1>1 DEF StreamInv, WaitsInv, WaitOK
<1>3. n \in Nat /\ (n # 0 => n + xBytesToStoreMessageLength <= xStreamBufferSpacesAvailable)
  <2>1. tx.size \in Nat \ {0} /\ tx.amount \in Nat
    BY <1>1, UsesAre DEF StreamInv, ShapeInv, CallRecord
  <2>2. tx.amount <= xStreamBufferSpacesAvailable
    BY <1>1 DEF StreamInv, RingInv, WriterInv, Measured
  <2>3. n \in Nat /\ (n # 0 => n + xBytesToStoreMessageLength <= tx.amount)
    BY <2>1, AcceptedFits DEF StreamInv, ShapeInv
  <2>4. xBytesToStoreMessageLength \in Nat /\ xStreamBufferSpacesAvailable \in Int
    BY Sides, RingIs DEF StreamInv, ShapeInv
  <2>. HIDE DEF n
  <2>. QED  BY <2>1, <2>2, <2>3, <2>4
<1>4. CASE n = 0
  <2>1. tx' = Idling /\ UNCHANGED bufferVars
    BY <1>1, <1>4 DEF bufferVars
  <2>2. tx' \in CallRecord /\ tx'.step = "none"
    BY <2>1, StreamCallRecords DEF Idling
  <2>. QED  BY <1>1, <1>2, <2>1, <2>2, SendQuietly DEF Suspending, Measured
<1>5. CASE n # 0
  <2>1. /\ pucBuffer' = Stored(bytes)
        /\ tx' = [tx EXCEPT !.data = Numbered(n), !.step = "move",
                            !.amount = Advance(xHead, Len(bytes))]
    BY <1>1, <1>5
  <2>. HIDE DEF n
  <2>2. /\ Numbered(n) \in Seq(Nat) /\ Len(Numbered(n)) = n
        /\ bytes \in Seq(Nat) /\ Len(bytes) = n + xBytesToStoreMessageLength
    BY <1>3, CellsAre DEF StreamInv, ShapeInv
  <2>3. Len(bytes) <= xStreamBufferSpacesAvailable
    BY <1>3, <1>5, <2>2
  <2>. HIDE DEF bytes
  <2>4. /\ pucBuffer' \in [0 .. xLength - 1 -> Nat]
        /\ \A i \in 0 .. Len(bytes) - 1 : pucBuffer'[Advance(xHead, i)] = bytes[i + 1]
        /\ \A i \in 0 .. prvBytesInBuffer - 1 :
             pucBuffer'[Turn(xLength, xTail, i)] = pucBuffer[Turn(xLength, xTail, i)]
    BY <2>1, <2>2, <2>3, StoredCells DEF StreamInv
  <2>5. Advance(xHead, Len(bytes)) \in Nat
    <3>1. xLength \in Nat /\ xHead \in 0 .. xLength - 1
      BY Sides DEF StreamInv, ShapeInv
    <3>2. PICK m \in Nat : m = Len(bytes)
      BY <2>2
    <3>3. Advance(xHead, m) \in Nat
      BY <3>1 DEF Advance
    <3>. QED  BY <3>2, <3>3
  <2>6. tx' \in CallRecord
    BY <1>1, <2>1, <2>2, <2>5, StreamCallRecords, Zenon DEF StreamSteps
  <2>7. /\ tx'.step = "move" /\ tx'.size = tx.size /\ tx'.data = Numbered(n)
        /\ tx'.amount = Advance(xHead, Len(bytes))
    BY <1>1, <2>1 DEF CallRecord
  <2>8. /\ Writer' = Writer /\ Reader' = Reader /\ xLength' = xLength
        /\ IsMessageBuffer' = IsMessageBuffer
        /\ xBytesToStoreMessageLength' = xBytesToStoreMessageLength
        /\ prvBytesInBuffer' = prvBytesInBuffer
        /\ xStreamBufferSpacesAvailable' = xStreamBufferSpacesAvailable
        /\ \A i, k : Advance(i, k)' = Advance(i, k)
        /\ \A k : Numbered(k)' = Numbered(k) /\ Cells(k)' = Cells(k)
    BY <1>1 DEF Writer, Reader, xLength, IsMessageBuffer, xBytesToStoreMessageLength,
       prvBytesInBuffer, xStreamBufferSpacesAvailable, Advance, Numbered, Cells
  <2>9. ShapeInv'
    BY <1>1, <2>4, <2>6, <2>7, <2>8 DEF StreamInv, ShapeInv
  <2>10. SchedulerInv'
    BY <1>1, <2>7, QuietScheduler DEF StreamInv, Suspending
  <2>11. WriterInv'
    <3>1. Len(tx'.data) = n
      BY <2>2, <2>7
    <3>2. n > 0 /\ n + xBytesToStoreMessageLength <= xStreamBufferSpacesAvailable
      BY <1>3, <1>5
    <3>3. PICK m \in Nat : m = Len(bytes) /\ m = n + xBytesToStoreMessageLength
      BY <2>2
    <3>4. \A i \in 0 .. m - 1 : pucBuffer'[Advance(xHead, i)] = Cells(n)[i + 1]
      BY <2>4, <3>3 DEF bytes
    <3>5. tx'.amount = Advance(xHead, m)
      BY <2>7, <3>3
    <3>6. PICK p, h, b :
            p \in Nat /\ p = n /\ h = xHead /\ h = xHead' /\ b = xBytesToStoreMessageLength
            /\ b = xBytesToStoreMessageLength' /\ m = p + b /\ p = Len(tx'.data)
      BY <1>1, <2>1, <2>8, <3>1, <3>3 DEF bufferVars
    <3>7. Advance(h, m)' = Advance(h, m) /\ \A i : Advance(h, i)' = Advance(h, i)
      BY <2>8
    <3>8. Numbered(p)' = Numbered(p) /\ Cells(p)' = Cells(p)
      BY <2>8
    <3>9. Len(tx'.data) + xBytesToStoreMessageLength' = m
      BY <3>6
    <3>10. tx'.data = Numbered(p)'
      BY <2>7, <3>6, <3>8
    <3>11. tx'.amount = Advance(h, m)'
      BY <3>5, <3>6, <3>7
    <3>12. \A i \in 0 .. m - 1 : pucBuffer'[Advance(h, i)'] = Cells(p)'[i + 1]
      BY <3>4, <3>6, <3>7, <3>8
    <3>13. p > 0 /\ m <= xStreamBufferSpacesAvailable'
      BY <2>8, <3>2, <3>3, <3>6
    <3>14. (Len(tx.data) > 0)' /\ (Len(tx.data) + xBytesToStoreMessageLength
                                     <= xStreamBufferSpacesAvailable)'
      BY <3>6, <3>9, <3>13
    <3>15. (tx.amount = Advance(xHead, Len(tx.data) + xBytesToStoreMessageLength))'
      BY <3>6, <3>9, <3>11
    <3>16. (tx.data = Numbered(Len(tx.data)))'
      BY <3>6, <3>10
    <3>17. ASSUME NEW i \in 0 .. Len(tx'.data) + xBytesToStoreMessageLength' - 1
           PROVE  (pucBuffer[Advance(xHead, i)] = Cells(Len(tx.data))[i + 1])'
      <4>1. i \in 0 .. m - 1
        <5>1. b \in {0, 1}
          BY <3>6, Sides DEF StreamInv, ShapeInv
        <5>2. i \in 0 .. p + b - 1
          BY <3>6, <3>17
        <5>. QED  BY <3>6, <5>1, <5>2
      <4>2. pucBuffer'[Advance(h, i)'] = Cells(p)'[i + 1]
        BY <3>12, <4>1
      <4>. QED  BY <3>6, <4>2
    <3>18. Copied'
      BY <3>14, <3>15, <3>16, <3>17, Zenon DEF Copied
    <3>. QED  BY <2>7, <3>18 DEF WriterInv, Measured
  <2>12. prvBytesInBuffer \in Nat
    BY RingIs, Sides DEF StreamInv, ShapeInv
  <2>13. ReaderInv'
    BY <1>1, <2>4, <2>8, <2>12, ReaderKept DEF StreamInv, RingInv
  <2>14. MessageInv'
    BY <1>1, <2>4, <2>8, <2>12, FramedKept DEF StreamInv, RingInv, MessageInv
  <2>15. WaitsInv'
    BY <1>1, <1>2, <2>7, <2>8
       DEF StreamInv, WaitsInv, WaitOK, Sleeping, ReaderTold, WriterTold, kernelVars, flagVars
  <2>. QED  BY <2>9, <2>10, <2>11, <2>13, <2>14, <2>15 DEF StreamInv, RingInv
<1>. QED  BY <1>4, <1>5

\* More is in the buffer: one message, or some bytes.
LEMMA HeadMoved ==
  ASSUME ShapeInv, MessageInv, UNCHANGED <<use, xTail>>, NEW k \in Nat \ {0},
         k + xBytesToStoreMessageLength <= xStreamBufferSpacesAvailable,
         xHead' = Advance(xHead, k + xBytesToStoreMessageLength),
         \A i \in 0 .. prvBytesInBuffer - 1 :
           pucBuffer'[Turn(xLength, xTail, i)] = pucBuffer[Turn(xLength, xTail, i)],
         IsMessageBuffer => pucBuffer'[xHead] = k
  PROVE  /\ xHead' \in 0 .. xLength - 1
         /\ prvBytesInBuffer' = prvBytesInBuffer + k + xBytesToStoreMessageLength
         /\ MessageInv'
<1>1. /\ xLength \in Nat /\ xHead \in 0 .. xLength - 1 /\ xTail \in 0 .. xLength - 1
      /\ xLength >= 2
  BY Sides DEF ShapeInv
<1>2. PICK c \in 0 .. xLength - 1 :
        /\ c = Count(xLength, xHead, xTail) /\ prvBytesInBuffer = c
        /\ xStreamBufferSpacesAvailable = xLength - 1 - c
  BY RingIs
<1>3. PICK b \in {0, 1} : b = xBytesToStoreMessageLength /\ (IsMessageBuffer <=> b = 1)
  BY Sides DEF ShapeInv
<1>4. PICK n \in 0 .. xLength - 1 - c : n = k + b
  BY <1>2, <1>3
<1>5. xHead' = Turn(xLength, xHead, n)
  BY <1>3, <1>4 DEF Advance, Turn
<1>6. xHead' \in 0 .. xLength - 1
  BY <1>1, <1>2, <1>4, <1>5 DEF Turn
<1>7. Count(xLength, xHead', xTail) = c + n
  BY <1>1, <1>2, <1>4, <1>5, HeadMoves
<1>8. xLength' = xLength /\ IsMessageBuffer' = IsMessageBuffer
  BY DEF xLength, IsMessageBuffer
<1>9. prvBytesInBuffer' = c + n
  <2>1. prvBytesInBuffer' = Count(xLength, xHead', xTail)
    BY <1>1, <1>6, <1>8 DEF prvBytesInBuffer, Count
  <2>. QED  BY <1>7, <2>1
<1>10. ASSUME IsMessageBuffer
       PROVE  Framed(xLength, pucBuffer', xTail, prvBytesInBuffer')
  <2>1. Framed(xLength, pucBuffer', xTail, c)
    BY <1>2, <1>10, FramedKept DEF MessageInv
  <2>2. pucBuffer'[Turn(xLength, xTail, c)] = k
    BY <1>1, <1>2, <1>10, CountTypes
  <2>3. Framed(xLength, pucBuffer', xTail, c + k + 1)
    BY <1>1, <2>1, <2>2, FramedLast
  <2>4. prvBytesInBuffer' = c + k + 1
    BY <1>3, <1>4, <1>9, <1>10
  <2>. QED  BY <2>3, <2>4
<1>11. MessageInv'
  BY <1>8, <1>10 DEF MessageInv
<1>. QED  BY <1>2, <1>3, <1>4, <1>6, <1>9, <1>11

\* The first message, or some bytes, are gone.
LEMMA TailMoved ==
  ASSUME ShapeInv, MessageInv, UNCHANGED <<use, xHead, pucBuffer>>, NEW k \in Nat \ {0},
         k + xBytesToStoreMessageLength <= prvBytesInBuffer,
         xTail' = Advance(xTail, k + xBytesToStoreMessageLength),
         IsMessageBuffer => k = pucBuffer[xTail]
  PROVE  /\ xTail' \in 0 .. xLength - 1
         /\ prvBytesInBuffer' = prvBytesInBuffer - (k + xBytesToStoreMessageLength)
         /\ MessageInv'
<1>1. /\ xLength \in Nat /\ xHead \in 0 .. xLength - 1 /\ xTail \in 0 .. xLength - 1
      /\ xLength >= 2 /\ pucBuffer \in [0 .. xLength - 1 -> Nat]
  BY Sides DEF ShapeInv
<1>2. PICK c \in 0 .. xLength - 1 :
        c = Count(xLength, xHead, xTail) /\ prvBytesInBuffer = c
  BY RingIs
<1>3. PICK b \in {0, 1} : b = xBytesToStoreMessageLength /\ (IsMessageBuffer <=> b = 1)
  BY Sides DEF ShapeInv
<1>4. PICK n \in 0 .. c : n = k + b
  BY <1>2, <1>3
<1>5. xTail' = Turn(xLength, xTail, n)
  BY <1>3, <1>4 DEF Advance, Turn
<1>6. xTail' \in 0 .. xLength - 1
  <2>1. n \in 0 .. xLength
    BY <1>1, <1>2, <1>4
  <2>2. Turn(xLength, xTail, n) \in 0 .. xLength - 1
    BY <1>1, <2>1, TurnTypes
  <2>. QED  BY <1>5, <2>2
<1>7. Count(xLength, xHead, xTail') = c - n
  BY <1>1, <1>2, <1>4, <1>5, TailMoves
<1>8. xLength' = xLength /\ IsMessageBuffer' = IsMessageBuffer
  BY DEF xLength, IsMessageBuffer
<1>9. prvBytesInBuffer' = c - n
  <2>1. prvBytesInBuffer' = Count(xLength, xHead, xTail')
    BY <1>1, <1>6, <1>8 DEF prvBytesInBuffer, Count
  <2>. QED  BY <1>7, <2>1
<1>10. ASSUME IsMessageBuffer
       PROVE  Framed(xLength, pucBuffer, xTail', prvBytesInBuffer')
  <2>1. Framed(xLength, pucBuffer, xTail, c) /\ c \in 1 .. xLength
    BY <1>1, <1>2, <1>4, <1>10 DEF MessageInv
  <2>2. n = pucBuffer[xTail] + 1
    BY <1>3, <1>4, <1>10
  <2>3. Framed(xLength, pucBuffer, Turn(xLength, xTail, n), c - n)
    BY <1>1, <2>1, <2>2, FramedFirst
  <2>. QED  BY <1>5, <1>9, <2>3
<1>11. MessageInv'
  BY <1>8, <1>10 DEF MessageInv
<1>. QED  BY <1>2, <1>3, <1>4, <1>6, <1>9, <1>11

\* The two formulas of the code, for the bytes and for the spaces, add up.
LEMMA RingFormulas ==
  ASSUME NEW L \in Nat, NEW h \in 0 .. L - 1, NEW t \in 0 .. L - 1, NEW i, NEW k,
         i = L + h - t, k = L + t - h - 1
  PROVE  (IF k >= L THEN k - L ELSE k) = L - 1 - (IF i >= L THEN i - L ELSE i)
OBVIOUS

\* The same after a step that moved an index.
LEMMA SpacesFollow ==
  ASSUME ShapeInv, UNCHANGED use, xHead' \in 0 .. xLength - 1, xTail' \in 0 .. xLength - 1
  PROVE  xStreamBufferSpacesAvailable' = xLength - 1 - prvBytesInBuffer'
<1>1. xLength \in Nat /\ xHead' \in 0 .. xLength - 1 /\ xTail' \in 0 .. xLength - 1
  BY Sides DEF ShapeInv
<1>2. xLength' = xLength
  BY DEF xLength
<1>3. PICK i, k : i = xLength + xHead' - xTail' /\ i = xLength' + xHead' - xTail'
                  /\ k = xLength + xTail' - xHead' - 1 /\ k = xLength' + xTail' - xHead' - 1
  BY <1>2, Zenon
<1>4. prvBytesInBuffer' = IF i >= xLength' THEN i - xLength' ELSE i
  BY <1>3, Zenon DEF prvBytesInBuffer
<1>5. xStreamBufferSpacesAvailable' = IF k >= xLength' THEN k - xLength' ELSE k
  BY <1>3, Zenon DEF xStreamBufferSpacesAvailable
<1>6. (IF k >= xLength THEN k - xLength ELSE k)
        = xLength - 1 - (IF i >= xLength THEN i - xLength ELSE i)
  <2>1. PICK L \in Nat : L = xLength
    BY <1>1
  <2>2. PICK h \in 0 .. L - 1, t \in 0 .. L - 1 : h = xHead' /\ t = xTail'
    BY <1>1, <2>1
  <2>3. i = L + h - t /\ k = L + t - h - 1
    BY <1>3, <2>1, <2>2, Zenon
  <2>4. (IF k >= L THEN k - L ELSE k) = L - 1 - (IF i >= L THEN i - L ELSE i)
    BY <2>3, RingFormulas
  <2>. QED  BY <2>1, <2>4
<1>. QED  BY <1>2, <1>4, <1>5, <1>6, Zenon

\* The head moves on behind what was copied, and the reader may have to be
\* told.
LEMMA SendMoveKeeps ==
  ASSUME StreamInv, SendMove
  PROVE  StreamInv'
<1>1. /\ tx.step = "move" /\ Writer # NULL /\ tx \in CallRecord
      /\ xHead' = tx.amount /\ next' = (next + Len(tx.data)) % Numbers
      /\ tx' = [tx EXCEPT !.step = "trigger"]
      /\ UNCHANGED <<use, kernelVars, xTail, pucBuffer, xTriggerLevelBytes, xTaskWaitingToReceive,
                     xTaskWaitingToSend, rx>>
  BY Zenon DEF SendMove, WriterAt, TxGoto, waiterVars, StreamInv, ShapeInv
<1>2. tx' \in CallRecord
  BY <1>1, StreamCallRecords, Zenon DEF StreamSteps
<1>3. tx'.step = "trigger" /\ tx'.size = tx.size
  BY <1>1 DEF CallRecord
<1>4. xTaskWaitingToSend = NULL
  BY <1>1 DEF StreamInv, WaitsInv, WaitOK
<1>5. PICK k \in Nat \ {0} : k = Len(tx.data)
  BY <1>1 DEF StreamInv, RingInv, WriterInv, Copied, CallRecord
<1>6. PICK b \in {0, 1} : b = xBytesToStoreMessageLength /\ (IsMessageBuffer <=> b = 1)
  BY Sides DEF StreamInv, ShapeInv
<1>7. /\ k + xBytesToStoreMessageLength <= xStreamBufferSpacesAvailable
      /\ xHead' = Advance(xHead, k + xBytesToStoreMessageLength)
      /\ \A i \in 0 .. k + b - 1 : pucBuffer[Advance(xHead, i)] = Cells(k)[i + 1]
  BY <1>1, <1>5, <1>6 DEF StreamInv, RingInv, WriterInv, Copied
<1>8. /\ xLength \in Nat /\ xLength >= 2 /\ xHead \in 0 .. xLength - 1
      /\ prvBytesInBuffer \in Nat
  BY Sides, RingIs DEF StreamInv, ShapeInv
<1>9. IsMessageBuffer => pucBuffer'[xHead] = k
  <2>. SUFFICES ASSUME IsMessageBuffer PROVE pucBuffer[xHead] = k
    BY <1>1
  <2>1. Cells(k)[1] = k
    BY CellsAre DEF StreamInv, ShapeInv
  <2>2. 0 \in 0 .. k + b - 1
    BY <1>6
  <2>3. Advance(xHead, 0) = xHead
    BY <1>8 DEF Advance
  <2>4. pucBuffer[Advance(xHead, 0)] = Cells(k)[0 + 1]
    BY <1>7, <2>2
  <2>. QED  BY <2>1, <2>3, <2>4
<1>10. /\ xHead' \in 0 .. xLength - 1
       /\ prvBytesInBuffer' = prvBytesInBuffer + k + xBytesToStoreMessageLength
       /\ MessageInv'
  BY <1>1, <1>5, <1>7, <1>9, HeadMoved DEF StreamInv, RingInv
<1>11. /\ Writer' = Writer /\ Reader' = Reader /\ xLength' = xLength
  BY <1>1 DEF Writer, Reader, xLength
<1>12. next' \in Nat
  <2>1. Numbers \in Nat /\ Numbers > 0
    <3>1. Numbers \in Nat /\ use.length \in 1 .. Numbers - 1
      BY StreamBuffersAssumption DEF StreamInv, ShapeInv
    <3>. QED  BY <3>1
  <2>2. next \in Nat
    BY DEF StreamInv, ShapeInv
  <2>. QED  BY <1>1, <1>5, <2>1, <2>2
<1>13. ShapeInv'
  BY <1>1, <1>2, <1>3, <1>10, <1>11, <1>12 DEF StreamInv, ShapeInv
<1>14. SchedulerInv'
  BY <1>1, <1>3, QuietScheduler DEF StreamInv, Suspending
<1>15. WriterInv'
  BY <1>3 DEF WriterInv, Measured
<1>16. ReaderInv'
  <2>1. prvBytesInBuffer' \in Int /\ prvBytesInBuffer' >= prvBytesInBuffer
    BY <1>5, <1>6, <1>8, <1>10
  <2>. QED  BY <1>1, <2>1, ReaderKept DEF StreamInv, RingInv
<1>17. WaitsInv'
  BY <1>1, <1>3, <1>4, <1>11
     DEF StreamInv, WaitsInv, WaitOK, Sleeping, ReaderTold, WriterTold, kernelVars, flagVars
<1>. QED  BY <1>10, <1>13, <1>14, <1>15, <1>16, <1>17 DEF StreamInv, RingInv

\* The first message, or some bytes, are copied from the tail on.
LEMMA ReceiveCopyKeeps ==
  ASSUME StreamInv, ReceiveCopy
  PROVE  StreamInv'
<1>. USE SameBuffer
<1>. DEFINE data == Taken(rx.size, rx.amount)
<1>1. /\ rx.step = "copy" /\ Reader # NULL /\ rx \in CallRecord
      /\ rx' = IF data = <<>> THEN Idling ELSE [rx EXCEPT !.data = data, !.step = "move"]
      /\ UNCHANGED <<use, kernelVars, bufferVars, xTaskWaitingToReceive, xTaskWaitingToSend,
                     tx, next>>
  BY DEF ReceiveCopy, ReaderAt, waiterVars, dataVars, StreamInv, ShapeInv
<1>2. xTaskWaitingToReceive = NULL
  BY <1>1 DEF StreamInv, WaitsInv, WaitOK
<1>3. /\ data \in Seq(Nat) /\ Len(data) + xBytesToStoreMessageLength <= prvBytesInBuffer
      /\ IsMessageBuffer /\ Len(data) > 0 => Len(data) = pucBuffer[xTail]
      /\ \A i \in 1 .. Len(data) :
           data[i] = pucBuffer[Advance(xTail, xBytesToStoreMessageLength + i - 1)]
  <2>1. rx.size \in Nat \ {0} /\ rx.amount \in Nat
    BY <1>1, UsesAre DEF StreamInv, ShapeInv, CallRecord
  <2>2. /\ xBytesToStoreMessageLength < rx.amount /\ rx.amount <= prvBytesInBuffer
        /\ IsMessageBuffer => pucBuffer[xTail] + 1 <= rx.amount
    BY <1>1 DEF StreamInv, RingInv, ReaderInv
  <2>. QED  BY <2>1, <2>2, TakenIs DEF StreamInv
<1>. HIDE DEF data
<1>4. CASE data = <<>>
  <2>1. rx' \in CallRecord /\ rx'.step = "none"
    BY <1>1, <1>4, StreamCallRecords DEF Idling
  <2>. QED  BY <1>1, <1>2, <2>1, ReceiveQuietly DEF Suspending
<1>5. CASE data # <<>>
  <2>1. rx' = [rx EXCEPT !.data = data, !.step = "move"]
    BY <1>1, <1>5
  <2>2. rx' \in CallRecord
    <3>1. "move" \in StreamSteps /\ data \in Seq(Nat)
      BY <1>3 DEF StreamSteps
    <3>2. PICK c \in CallRecord, d \in Seq(Nat), t \in StreamSteps :
            c = rx /\ d = data /\ t = "move"
      BY <1>1, <3>1
    <3>3. [c EXCEPT !.data = d, !.step = t] \in CallRecord
      BY StreamCallRecords
    <3>. QED  BY <2>1, <3>2, <3>3
  <2>3. rx'.step = "move" /\ rx'.size = rx.size /\ rx'.data = data
    BY <1>1, <2>1 DEF CallRecord
  <2>4. ShapeInv'
    BY <1>1, <2>2, <2>3, ShapeKept DEF StreamInv, ShapeInv
  <2>5. SchedulerInv'
    BY <1>1, <2>3, QuietScheduler DEF StreamInv, Suspending
  <2>6. WriterInv'
    <3>1. xStreamBufferSpacesAvailable' \in Int /\ xStreamBufferSpacesAvailable \in Int
      BY <1>1, RingIs DEF StreamInv
    <3>2. UNCHANGED <<xHead, pucBuffer>>
      BY <1>1
    <3>3. xStreamBufferSpacesAvailable' >= xStreamBufferSpacesAvailable
      BY <1>1, <3>1
    <3>. QED  BY <1>1, <3>1, <3>2, <3>3, WriterKept DEF StreamInv, RingInv
  <2>7. ReaderInv'
    <3>1. Len(data) > 0
      BY <1>3, <1>5
    <3>2. \A i, k : Advance(i, k)' = Advance(i, k)
      BY <1>1 DEF Advance
    <3>. QED  BY <1>1, <1>3, <2>3, <3>1, <3>2 DEF ReaderInv
  <2>8. MessageInv'
    BY <1>1 DEF StreamInv, RingInv, MessageInv
  <2>9. WaitsInv'
    <3>1. xRequiredSpace(tx.size)' = xRequiredSpace(tx.size)
      BY <1>1
    <3>. QED  BY <1>1, <1>2, <2>3, <3>1
              DEF StreamInv, WaitsInv, WaitOK, Sleeping, ReaderTold, WriterTold, kernelVars, flagVars
  <2>. QED  BY <2>4, <2>5, <2>6, <2>7, <2>8, <2>9 DEF StreamInv, RingInv
<1>. QED  BY <1>4, <1>5

\* The tail moves on behind what was copied, and the writer may have to be
\* told.
LEMMA ReceiveMoveKeeps ==
  ASSUME StreamInv, ReceiveMove
  PROVE  StreamInv'
<1>1. /\ rx.step = "move" /\ Reader # NULL /\ rx \in CallRecord
      /\ xTail' = Advance(xTail, Len(rx.data) + xBytesToStoreMessageLength)
      /\ rx' = [rx EXCEPT !.step = "lock"]
      /\ UNCHANGED <<use, kernelVars, xHead, pucBuffer, xTriggerLevelBytes, xTaskWaitingToReceive,
                     xTaskWaitingToSend, tx, next>>
  BY Zenon DEF ReceiveMove, ReaderAt, RxGoto, waiterVars, StreamInv, ShapeInv
<1>2. rx' \in CallRecord
  BY <1>1, StreamCallRecords, Zenon DEF StreamSteps
<1>3. rx'.step = "lock" /\ rx'.size = rx.size
  BY <1>1 DEF CallRecord
<1>4. xTaskWaitingToReceive = NULL
  BY <1>1 DEF StreamInv, WaitsInv, WaitOK
<1>5. PICK k \in Nat \ {0} : k = Len(rx.data)
  <2>1. rx.data \in Seq(Nat)
    BY <1>1 DEF CallRecord
  <2>2. Len(rx.data) > 0
    BY <1>1 DEF StreamInv, RingInv, ReaderInv
  <2>3. Len(rx.data) \in Nat \ {0}
    BY <2>1, <2>2
  <2>. QED  BY <2>3
<1>6. /\ k + xBytesToStoreMessageLength <= prvBytesInBuffer
      /\ IsMessageBuffer => k = pucBuffer[xTail]
  BY <1>1, <1>5 DEF StreamInv, RingInv, ReaderInv
<1>7. /\ xTail' \in 0 .. xLength - 1
      /\ prvBytesInBuffer' = prvBytesInBuffer - (k + xBytesToStoreMessageLength)
      /\ MessageInv'
  BY <1>1, <1>5, <1>6, TailMoved DEF StreamInv, RingInv
<1>8. /\ Writer' = Writer /\ Reader' = Reader /\ xLength' = xLength
      /\ xLength \in Nat /\ xHead' \in 0 .. xLength - 1
  BY <1>1, Sides DEF Writer, Reader, xLength, StreamInv, ShapeInv
<1>9. ShapeInv'
  BY <1>1, <1>2, <1>3, <1>7, <1>8 DEF StreamInv, ShapeInv
<1>10. SchedulerInv'
  BY <1>1, <1>3, QuietScheduler DEF StreamInv, Suspending
<1>11. WriterInv'
  <2>1. xStreamBufferSpacesAvailable' = xLength - 1 - prvBytesInBuffer'
    BY <1>1, <1>7, <1>8, SpacesFollow DEF StreamInv
  <2>2. /\ xStreamBufferSpacesAvailable = xLength - 1 - prvBytesInBuffer
        /\ prvBytesInBuffer \in Int /\ xBytesToStoreMessageLength \in Nat
    BY RingIs, Sides DEF StreamInv, ShapeInv
  <2>3. /\ xStreamBufferSpacesAvailable' \in Int
        /\ xStreamBufferSpacesAvailable' >= xStreamBufferSpacesAvailable
    <3>1. PICK b \in Nat : b = xBytesToStoreMessageLength
      BY <2>2
    <3>2. prvBytesInBuffer' = prvBytesInBuffer - (k + b)
      BY <1>7, <3>1
    <3>. QED  BY <1>8, <2>1, <2>2, <3>2
  <2>. QED  BY <1>1, <2>3, WriterKept DEF StreamInv, RingInv
<1>12. ReaderInv'
  BY <1>3 DEF ReaderInv
<1>13. WaitsInv'
  BY <1>1, <1>3, <1>4, <1>8
     DEF StreamInv, WaitsInv, WaitOK, Sleeping, ReaderTold, WriterTold, kernelVars, flagVars
<1>. QED  BY <1>7, <1>9, <1>10, <1>11, <1>12, <1>13 DEF StreamInv, RingInv

\* An interrupt writes: the copy, the move and the notification are one step.
LEMMA SendFromISRKeeps ==
  ASSUME StreamInv, NEW n \in use.sendSizes, xStreamBufferSendFromISR(n)
  PROVE  StreamInv'
<1>. DEFINE k == Accepted(n, xStreamBufferSpacesAvailable)
            bytes == Cells(k)
<1>1. /\ Writer = NULL /\ k > 0 /\ pucBuffer' = Stored(bytes)
      /\ xHead' = Advance(xHead, Len(bytes)) /\ next' = (next + k) % Numbers
      /\ IF TriggerReached(prvBytesInBuffer + Len(bytes))
           THEN NotifyWaiterFromISR(xTaskWaitingToReceive) /\ xTaskWaitingToReceive' = NULL
           ELSE UNCHANGED <<kernelVars, xTaskWaitingToReceive>>
      /\ UNCHANGED <<use, xTail, xTriggerLevelBytes, xTaskWaitingToSend, tx, rx>>
  BY DEF xStreamBufferSendFromISR
<1>2. /\ xLength \in Nat /\ xLength >= 2 /\ xHead \in 0 .. xLength - 1
      /\ prvBytesInBuffer \in Nat /\ xStreamBufferSpacesAvailable \in Nat
      /\ xTriggerLevelBytes \in Int
  BY Sides, RingIs DEF StreamInv, ShapeInv
<1>3. k \in Nat \ {0} /\ k + xBytesToStoreMessageLength <= xStreamBufferSpacesAvailable
  <2>1. n \in Nat \ {0}
    BY UsesAre DEF StreamInv, ShapeInv
  <2>2. /\ k \in Nat
        /\ k # 0 => k + xBytesToStoreMessageLength <= xStreamBufferSpacesAvailable
    BY <1>2, <2>1, AcceptedFits DEF StreamInv, ShapeInv
  <2>. HIDE DEF k
  <2>. QED  BY <1>1, <2>2
<1>. HIDE DEF k
<1>4. /\ bytes \in Seq(Nat) /\ Len(bytes) = k + xBytesToStoreMessageLength
      /\ IsMessageBuffer => bytes[1] = k
  BY <1>3, CellsAre DEF StreamInv, ShapeInv
<1>. HIDE DEF bytes
<1>5. Len(bytes) <= xStreamBufferSpacesAvailable
  BY <1>3, <1>4
<1>6. /\ pucBuffer' \in [0 .. xLength - 1 -> Nat]
      /\ \A i \in 0 .. Len(bytes) - 1 : pucBuffer'[Advance(xHead, i)] = bytes[i + 1]
      /\ \A i \in 0 .. prvBytesInBuffer - 1 :
           pucBuffer'[Turn(xLength, xTail, i)] = pucBuffer[Turn(xLength, xTail, i)]
  BY <1>1, <1>4, <1>5, StoredCells DEF StreamInv
<1>7. PICK b \in {0, 1} : b = xBytesToStoreMessageLength /\ (IsMessageBuffer <=> b = 1)
  BY Sides DEF StreamInv, ShapeInv
<1>8. IsMessageBuffer => pucBuffer'[xHead] = k
  <2>1. 0 \in 0 .. Len(bytes) - 1
    BY <1>3, <1>4, <1>7
  <2>2. Advance(xHead, 0) = xHead
    BY <1>2 DEF Advance
  <2>3. pucBuffer'[Advance(xHead, 0)] = bytes[0 + 1]
    BY <1>6, <2>1
  <2>. QED  BY <1>4, <2>2, <2>3
<1>9. /\ xHead' \in 0 .. xLength - 1
      /\ prvBytesInBuffer' = prvBytesInBuffer + k + xBytesToStoreMessageLength
      /\ MessageInv'
  BY <1>1, <1>3, <1>4, <1>6, <1>8, HeadMoved DEF StreamInv, RingInv
<1>10. Writer' = Writer /\ Reader' = Reader /\ xLength' = xLength
  BY <1>1 DEF Writer, Reader, xLength
<1>11. next' \in Nat
  <2>1. Numbers \in Nat /\ Numbers > 0
    <3>1. Numbers \in Nat /\ use.length \in 1 .. Numbers - 1
      BY StreamBuffersAssumption DEF StreamInv, ShapeInv
    <3>. QED  BY <3>1
  <2>2. next \in Nat
    BY DEF StreamInv, ShapeInv
  <2>. QED  BY <1>1, <1>3, <2>1, <2>2
<1>12. ShapeInv'
  BY <1>1, <1>6, <1>9, <1>10, <1>11 DEF StreamInv, ShapeInv
<1>13. tx.step = "none" /\ xTaskWaitingToSend = NULL
  BY <1>1 DEF StreamInv, ShapeInv, WaitsInv, WaitOK
<1>14. WriterInv'
  BY <1>1, <1>13 DEF WriterInv, Measured
<1>15. ReaderInv'
  <2>1. prvBytesInBuffer' \in Int /\ prvBytesInBuffer' >= prvBytesInBuffer
    BY <1>2, <1>3, <1>7, <1>9
  <2>. QED  BY <1>1, <1>6, <2>1, ReaderKept DEF StreamInv, RingInv
<1>16. WriterTold'
  BY <1>1, <1>13 DEF WriterTold
<1>17. CASE TriggerReached(prvBytesInBuffer + Len(bytes))
  <2>1. NotifyWaiterFromISR(xTaskWaitingToReceive) /\ xTaskWaitingToReceive' = NULL
    BY <1>1, <1>17
  <2>2. /\ TasksOK' /\ UNCHANGED <<uxSchedulerSuspended, pxCurrentTCB>>
        /\ WaitOK(Reader, rx.step, xTaskWaitingToReceive)'
        /\ WaitOK(Writer, tx.step, xTaskWaitingToSend)'
    BY <1>1, <2>1, ReaderInterrupted
  <2>3. SchedulerInv'
    BY <1>1, <2>2, OwnScheduler DEF StreamInv
  <2>4. ReaderTold'
    BY <2>1 DEF ReaderTold
  <2>. QED  BY <1>9, <1>12, <1>14, <1>15, <1>16, <2>2, <2>3, <2>4 DEF StreamInv, RingInv, WaitsInv
<1>18. CASE ~TriggerReached(prvBytesInBuffer + Len(bytes))
  <2>1. UNCHANGED <<kernelVars, xTaskWaitingToReceive>>
    BY <1>1, <1>18
  <2>2. SchedulerInv'
    BY <1>1, <2>1, QuietScheduler DEF StreamInv
  <2>3. ~(prvBytesInBuffer' >= xTriggerLevelBytes)
    BY <1>2, <1>3, <1>4, <1>7, <1>9, <1>18 DEF TriggerReached
  <2>4. ReaderTold'
    BY <1>1, <2>3 DEF ReaderTold
  <2>5. /\ WaitOK(Reader, rx.step, xTaskWaitingToReceive)'
        /\ WaitOK(Writer, tx.step, xTaskWaitingToSend)'
    BY <1>1, <1>10, <2>1 DEF StreamInv, WaitsInv, WaitOK, Sleeping, kernelVars, flagVars
  <2>. QED  BY <1>9, <1>12, <1>14, <1>15, <1>16, <2>2, <2>4, <2>5 DEF StreamInv, RingInv, WaitsInv
<1>. QED  BY <1>17, <1>18

\* An interrupt reads, in one step.
LEMMA ReceiveFromISRKeeps ==
  ASSUME StreamInv, NEW n \in use.receiveSizes, xStreamBufferReceiveFromISR(n)
  PROVE  StreamInv'
<1>. DEFINE data == Taken(n, prvBytesInBuffer)
<1>1. /\ Reader = NULL /\ ~NothingToRead /\ data # <<>>
      /\ xTail' = Advance(xTail, Len(data) + xBytesToStoreMessageLength)
      /\ NotifyWaiterFromISR(xTaskWaitingToSend) /\ xTaskWaitingToSend' = NULL
      /\ UNCHANGED <<use, xHead, pucBuffer, xTriggerLevelBytes, xTaskWaitingToReceive, tx, rx, next>>
  BY DEF xStreamBufferReceiveFromISR
<1>2. /\ data \in Seq(Nat) /\ Len(data) + xBytesToStoreMessageLength <= prvBytesInBuffer
      /\ IsMessageBuffer /\ Len(data) > 0 => Len(data) = pucBuffer[xTail]
  <2>1. n \in Nat \ {0} /\ prvBytesInBuffer \in Nat
    BY UsesAre, RingIs, Sides DEF StreamInv, ShapeInv
  <2>2. /\ xBytesToStoreMessageLength < prvBytesInBuffer /\ prvBytesInBuffer <= prvBytesInBuffer
        /\ IsMessageBuffer => pucBuffer[xTail] + 1 <= prvBytesInBuffer
    BY <1>1, <2>1, FirstMessage DEF StreamInv, RingInv
  <2>. QED  BY <2>1, <2>2, TakenIs DEF StreamInv
<1>. HIDE DEF data
<1>3. PICK k \in Nat \ {0} : k = Len(data)
  BY <1>1, <1>2
<1>4. /\ xTail' \in 0 .. xLength - 1
      /\ prvBytesInBuffer' = prvBytesInBuffer - (k + xBytesToStoreMessageLength)
      /\ MessageInv'
  BY <1>1, <1>2, <1>3, TailMoved DEF StreamInv, RingInv
<1>5. /\ Writer' = Writer /\ Reader' = Reader /\ xLength' = xLength
      /\ xLength \in Nat /\ xHead' \in 0 .. xLength - 1
  BY <1>1, Sides DEF Writer, Reader, xLength, StreamInv, ShapeInv
<1>6. ShapeInv'
  BY <1>1, <1>4, <1>5 DEF StreamInv, ShapeInv
<1>7. /\ TasksOK' /\ UNCHANGED <<uxSchedulerSuspended, pxCurrentTCB>>
      /\ WaitOK(Reader, rx.step, xTaskWaitingToReceive)'
      /\ WaitOK(Writer, tx.step, xTaskWaitingToSend)'
  BY <1>1, WriterInterrupted
<1>8. SchedulerInv'
  BY <1>1, <1>7, OwnScheduler DEF StreamInv
<1>9. rx.step = "none" /\ xTaskWaitingToReceive = NULL
  BY <1>1 DEF StreamInv, ShapeInv, WaitsInv, WaitOK
<1>10. WriterInv'
  <2>1. xStreamBufferSpacesAvailable' = xLength - 1 - prvBytesInBuffer'
    BY <1>1, <1>4, <1>5, SpacesFollow DEF StreamInv
  <2>2. /\ xStreamBufferSpacesAvailable = xLength - 1 - prvBytesInBuffer
        /\ prvBytesInBuffer \in Int /\ xBytesToStoreMessageLength \in Nat
    BY RingIs, Sides DEF StreamInv, ShapeInv
  <2>3. /\ xStreamBufferSpacesAvailable' \in Int
        /\ xStreamBufferSpacesAvailable' >= xStreamBufferSpacesAvailable
    BY <1>3, <1>4, <1>5, <2>1, <2>2
  <2>. QED  BY <1>1, <2>3, WriterKept DEF StreamInv, RingInv
<1>11. ReaderInv'
  BY <1>1, <1>9 DEF ReaderInv
<1>12. ReaderTold' /\ WriterTold'
  BY <1>1, <1>9 DEF ReaderTold, WriterTold
<1>. QED  BY <1>4, <1>6, <1>7, <1>8, <1>10, <1>11, <1>12 DEF StreamInv, RingInv, WaitsInv

-----------------------------------------------------------------------------
(* Every step, and the theorem *)

\* A buffer is reset by a task only when an interrupt writes to it, and the
\* trigger level is set by the reader.
SafeUses ==
  \A u \in Uses : (u.resets => u.writer = NULL) /\ (u.triggers # {} => u.setter = u.reader)

\* Every step keeps the invariant.
LEMMA StreamStepKeeps ==
  ASSUME StreamInv, [StreamNext]_streamBufferVars, SafeUses
  PROVE  StreamInv'
<1>1. CASE StreamScheduler
  BY <1>1, StreamSchedulerKeeps
<1>2. CASE SendStep
  BY <1>2, SendKeeps, SendCheckKeeps, SendWaitKeeps, SendWokenKeeps, SendClearKeeps,
     SendTimeOutKeeps, SendMeasureKeeps, SendCopyKeeps, SendMoveKeeps, SendTriggerKeeps,
     SendLockKeeps, SendNotifyKeeps, SendUnlockKeeps DEF SendStep
<1>3. CASE ReceiveStep
  BY <1>3, ReceiveKeeps, ReceiveCheckKeeps, ReceiveWaitKeeps, ReceiveWokenKeeps,
     ReceiveClearKeeps, ReceiveMeasureKeeps, ReceiveCopyKeeps, ReceiveMoveKeeps,
     ReceiveLockKeeps, ReceiveNotifyKeeps, ReceiveUnlockKeeps DEF ReceiveStep
<1>4. CASE InterruptStep
  BY <1>4, SendFromISRKeeps, ReceiveFromISRKeeps, SendCompletedKeeps, ReceiveCompletedKeeps
     DEF InterruptStep
<1>5. CASE xStreamBufferReset
  <2>1. use.resets /\ use \in Uses
    BY <1>5 DEF xStreamBufferReset, StreamInv, ShapeInv
  <2>2. Writer = NULL
    BY <2>1 DEF SafeUses, Writer
  <2>. QED  BY <1>5, <2>2, ResetKeeps
<1>6. ASSUME NEW n \in use.triggers, xStreamBufferSetTriggerLevel(n)
      PROVE  StreamInv'
  <2>1. use.triggers # {} /\ use \in Uses
    BY DEF StreamInv, ShapeInv
  <2>2. use.setter = Reader
    BY <2>1 DEF SafeUses, Reader
  <2>. QED  BY <1>6, <2>2, SetTriggerLevelKeeps
<1>7. CASE UNCHANGED streamBufferVars
  <2>1. UNCHANGED <<use, kernelVars, bufferVars, xTaskWaitingToReceive, xTaskWaitingToSend,
                    tx, rx, next>>
    BY <1>7 DEF streamBufferVars, waiterVars, dataVars
  <2>2. ShapeInv'
    BY <2>1, ShapeKept DEF StreamInv, ShapeInv
  <2>3. SchedulerInv'
    BY <2>1, QuietScheduler DEF StreamInv
  <2>4. RingInv'
    BY <2>1, QuietRing DEF StreamInv
  <2>5. WaitsInv'
    BY <2>1, SameBuffer
       DEF StreamInv, WaitsInv, WaitOK, Sleeping, ReaderTold, WriterTold, kernelVars, flagVars
  <2>. QED  BY <2>2, <2>3, <2>4, <2>5 DEF StreamInv
<1>. QED  BY <1>1, <1>2, <1>3, <1>4, <1>5, <1>6, <1>7 DEF StreamNext

\* The invariant says that nobody sleeps on what the other side has done.
LEMMA StreamInvImplies ==
  StreamInv => StreamConsistent
<1>. SUFFICES ASSUME StreamInv PROVE StreamConsistent
  OBVIOUS
<1>. USE DEF StreamInv
<1>1. StreamTypeOK
  BY DEF StreamTypeOK, ShapeInv, CallRecord, WaitsInv, WaitOK
<1>2. ReaderNotStranded
  BY DEF ReaderNotStranded, WaitsInv, WaitOK, ReaderTold, Sleeping
<1>3. WriterNotStranded
  BY DEF WriterNotStranded, WaitsInv, WaitOK, WriterTold, Sleeping
<1>4. ASSUME \A n \in use.sendSizes : xRequiredSpace(n) <= xLength - xTriggerLevelBytes,
             Sleeping(Writer), Sleeping(Reader)
      PROVE  FALSE
  <2>1. tx.step = "woken" /\ rx.step = "woken" /\ Writer # NULL /\ Reader # NULL
    BY <1>4 DEF WaitsInv, WaitOK, Sleeping
  <2>2. pending = {}
    BY <2>1 DEF SchedulerInv, TasksOK, Suspending
  <2>3. xTaskWaitingToSend # NULL /\ xTaskWaitingToReceive # NULL
    BY <1>4, <2>1, <2>2 DEF WaitsInv, WaitOK
  <2>4. /\ ~(prvBytesInBuffer >= xTriggerLevelBytes)
        /\ ~(xStreamBufferSpacesAvailable >= xRequiredSpace(tx.size))
    BY <2>1, <2>3 DEF WaitsInv, ReaderTold, WriterTold
  <2>5. /\ tx.size \in use.sendSizes /\ tx.size \in Nat \ {0}
    BY <2>1, UsesAre DEF ShapeInv
  <2>6. xRequiredSpace(tx.size) \in Int
    BY <2>5, Required DEF ShapeInv
  <2>7. /\ prvBytesInBuffer \in Int /\ xTriggerLevelBytes \in Int /\ xLength \in Int
        /\ xStreamBufferSpacesAvailable = xLength - 1 - prvBytesInBuffer
    BY RingIs, Sides DEF ShapeInv
  <2>8. xRequiredSpace(tx.size) <= xLength - xTriggerLevelBytes
    BY <1>4, <2>5
  <2>. QED  BY <2>4, <2>6, <2>7, <2>8
<1>5. NeverBothAsleep
  BY <1>4 DEF NeverBothAsleep
<1>. QED  BY <1>1, <1>2, <1>3, <1>5 DEF StreamConsistent

\* Neither side of a buffer sleeps on what the other has done: the test that
\* sends a task to sleep and its note are one critical section, and the side
\* that moves an index looks for the note afterwards, so that whatever comes
\* between note and sleep the notification is found (stream_buffer.c:703-737,
\* 903-933, sbSEND_COMPLETED, sbRECEIVE_COMPLETED); and the two never wait for
\* each other, unless a send is larger than the room below the trigger level.
THEOREM StreamNotStranded ==
  ASSUME SafeUses
  PROVE  StreamSpec => []StreamConsistent
<1>1. StreamInit => StreamInv
  BY StreamInitHolds
<1>2. StreamInv /\ [StreamNext]_streamBufferVars => StreamInv'
  BY StreamStepKeeps
<1>3. StreamInv => StreamConsistent
  BY StreamInvImplies
<1>. QED  BY <1>1, <1>2, <1>3, PTL DEF StreamSpec

-----------------------------------------------------------------------------
(* What is sent is received *)

\* What is between tail and head.
LEMMA ContentIs ==
  ASSUME ShapeInv, ~IsMessageBuffer
  PROVE  /\ Content \in Seq(Nat) /\ Len(Content) = prvBytesInBuffer
         /\ \A i \in 1 .. prvBytesInBuffer : Content[i] = pucBuffer[Advance(xTail, i - 1)]
<1>1. Content = BytesFrom(xTail, prvBytesInBuffer)
  BY DEF Content
<1>2. /\ xLength \in Nat /\ xLength >= 2 /\ xTail \in 0 .. xLength - 1
      /\ prvBytesInBuffer \in 0 .. xLength - 1 /\ xBytesToStoreMessageLength = 0
  BY Sides, RingIs DEF ShapeInv
<1>3. (xTail + 0) % xLength = xTail
  BY <1>2
<1>4. PICK c \in 0 .. xLength - 1 : c = prvBytesInBuffer
  BY <1>2
<1>5. /\ BytesFrom(xTail, c) \in Seq(Nat) /\ Len(BytesFrom(xTail, c)) = c
      /\ \A i \in 1 .. c : BytesFrom(xTail, c)[i] = pucBuffer[Advance(xTail, 0 + i - 1)]
  <2>1. c \in Nat /\ c + xBytesToStoreMessageLength <= prvBytesInBuffer
    BY <1>2, <1>4
  <2>. QED  BY <1>2, <1>3, <2>1, BytesFromTail
<1>6. \A i \in 1 .. c : 0 + i - 1 = i - 1
  OBVIOUS
<1>. QED  BY <1>1, <1>4, <1>5, <1>6

\* The cells of the content are the same: so is the content.
LEMMA SameContent ==
  ASSUME UNCHANGED <<use, xHead, xTail>>, ShapeInv, ~IsMessageBuffer,
         \A i \in 0 .. prvBytesInBuffer - 1 :
           pucBuffer'[Turn(xLength, xTail, i)] = pucBuffer[Turn(xLength, xTail, i)]
  PROVE  Content' = Content
<1>1. /\ IsMessageBuffer' = IsMessageBuffer /\ xLength' = xLength
      /\ prvBytesInBuffer' = prvBytesInBuffer
  BY DEF IsMessageBuffer, xLength, prvBytesInBuffer
<1>2. /\ xLength \in Nat /\ xLength >= 2 /\ xTail \in 0 .. xLength - 1
  BY Sides DEF ShapeInv
<1>3. PICK c \in 0 .. xLength - 1 : c = prvBytesInBuffer
  BY RingIs
<1>4. ASSUME NEW i \in 1 .. c
      PROVE  pucBuffer'[(xTail + i - 1) % xLength] = pucBuffer[(xTail + i - 1) % xLength]
  <2>1. i \in 1 .. xLength /\ i - 1 \in 0 .. c - 1
    BY <1>2
  <2>2. (xTail + i - 1) % xLength = Turn(xLength, xTail, i - 1)
    BY <1>2, <2>1, CellIsTurn
  <2>. QED  BY <1>3, <2>1, <2>2
<1>5. Content = [i \in 1 .. c |-> pucBuffer[(xTail + i - 1) % xLength]]
  BY <1>3 DEF Content, BytesFrom
<1>6. Content' = [i \in 1 .. c |-> pucBuffer'[(xTail + i - 1) % xLength]]
  BY <1>1, <1>3 DEF Content, BytesFrom
<1>. QED  BY <1>4, <1>5, <1>6

\* Two sequences in a row.
LEMMA Joined ==
  ASSUME NEW s \in Seq(Nat), NEW r \in Seq(Nat)
  PROVE  /\ Len(s \o r) = Len(s) + Len(r)
         /\ s \o r = [i \in 1 .. Len(s) + Len(r) |-> (s \o r)[i]]
<1>1. s \o r \in Seq(Nat) /\ Len(s \o r) = Len(s) + Len(r)
  OBVIOUS
<1>2. PICK q \in Seq(Nat) : q = s \o r
  BY <1>1
<1>3. q = [i \in 1 .. Len(q) |-> q[i]]
  OBVIOUS
<1>. QED  BY <1>1, <1>2, <1>3

\* The first k elements.
LEMMA FirstOf ==
  ASSUME NEW s \in Seq(Nat), NEW k \in 1 .. Len(s)
  PROVE  /\ SubSeq(s, 1, k) \in Seq(Nat) /\ Len(SubSeq(s, 1, k)) = k
         /\ \A i \in 1 .. k : SubSeq(s, 1, k)[i] = s[i]
<1>1. SubSeq(s, 1, k) \in Seq(Nat) /\ Len(SubSeq(s, 1, k)) = k
  OBVIOUS
<1>2. ASSUME NEW i \in 1 .. k
      PROVE  SubSeq(s, 1, k)[i] = s[i]
  <2>1. 1 + i - 1 = i
    OBVIOUS
  <2>. QED  BY <2>1
<1>. QED  BY <1>1, <1>2

\* What follows them.
LEMMA RestOf ==
  ASSUME NEW s \in Seq(Nat), NEW k \in 1 .. Len(s)
  PROVE  /\ SubSeq(s, k + 1, Len(s)) \in Seq(Nat)
         /\ Len(SubSeq(s, k + 1, Len(s))) = Len(s) - k
         /\ \A i \in 1 .. Len(s) - k : SubSeq(s, k + 1, Len(s))[i] = s[k + i]
<1>1. SubSeq(s, k + 1, Len(s)) \in Seq(Nat) /\ Len(SubSeq(s, k + 1, Len(s))) = Len(s) - k
  OBVIOUS
<1>2. ASSUME NEW i \in 1 .. Len(s) - k
      PROVE  SubSeq(s, k + 1, Len(s))[i] = s[k + i]
  <2>1. k + 1 + i - 1 = k + i
    OBVIOUS
  <2>. QED  BY <2>1
<1>. QED  BY <1>1, <1>2

\* The content after a step, cell by cell.
LEMMA NextContent ==
  ASSUME UNCHANGED use, use \in Uses, ~IsMessageBuffer, xTail' \in 0 .. xLength - 1,
         NEW c \in 0 .. xLength - 1, prvBytesInBuffer' = c
  PROVE  /\ DOMAIN Content' = 1 .. c
         /\ Content' = [i \in 1 .. c |-> Content'[i]]
         /\ \A i \in 1 .. c : Content'[i] = pucBuffer'[Turn(xLength, xTail', i - 1)]
<1>1. IsMessageBuffer' = IsMessageBuffer /\ xLength' = xLength /\ xLength \in Nat /\ xLength >= 2
  BY Sides DEF IsMessageBuffer, xLength
<1>2. Content' = [i \in 1 .. c |-> pucBuffer'[(xTail' + i - 1) % xLength]]
  BY <1>1 DEF Content, BytesFrom
<1>3. ASSUME NEW i \in 1 .. c
      PROVE  (xTail' + i - 1) % xLength = Turn(xLength, xTail', i - 1)
  <2>1. i \in 1 .. xLength
    BY <1>1
  <2>. QED  BY <1>1, <2>1, CellIsTurn
<1>4. \A i \in 1 .. c : Content'[i] = pucBuffer'[Turn(xLength, xTail', i - 1)]
  BY <1>2, <1>3
<1>. QED  BY <1>2, <1>4

\* The head moves behind bytes that were stored.
LEMMA BytesSent ==
  ASSUME ShapeInv, ~IsMessageBuffer, UNCHANGED <<use, xTail, received>>, NEW k \in Nat \ {0},
         k <= xStreamBufferSpacesAvailable,
         xHead' = Advance(xHead, k), next' = (next + k) % Numbers,
         prvBytesInBuffer' = prvBytesInBuffer + k,
         \A i \in 0 .. prvBytesInBuffer - 1 :
           pucBuffer'[Turn(xLength, xTail, i)] = pucBuffer[Turn(xLength, xTail, i)],
         \A i \in 0 .. k - 1 : pucBuffer'[Advance(xHead, i)] = Numbered(k)[i + 1]
  PROVE  Stream!Next
<1>1. /\ xLength \in Nat /\ xLength >= 2 /\ xTail \in 0 .. xLength - 1
      /\ xHead \in 0 .. xLength - 1
  BY Sides DEF ShapeInv
<1>2. PICK c \in 0 .. xLength - 1 : /\ c = prvBytesInBuffer /\ c = Count(xLength, xHead, xTail)
                                    /\ xStreamBufferSpacesAvailable = xLength - 1 - c
  BY RingIs
<1>3. Content \in Seq(Nat) /\ Len(Content) = c
      /\ \A i \in 1 .. c : Content[i] = pucBuffer[Advance(xTail, i - 1)]
  BY <1>2, ContentIs
<1>4. Numbered(k) \in Seq(Nat) /\ Len(Numbered(k)) = k
  BY CellsAre DEF ShapeInv
<1>5. c + k \in 0 .. xLength - 1 /\ k \in 1 .. xLength - 1
  BY <1>1, <1>2
<1>6. /\ DOMAIN Content' = 1 .. c + k
      /\ Content' = [i \in 1 .. c + k |-> Content'[i]]
      /\ \A i \in 1 .. c + k : Content'[i] = pucBuffer'[Turn(xLength, xTail, i - 1)]
  <2>1. prvBytesInBuffer' = c + k /\ xTail' = xTail
    BY <1>2
  <2>. QED  BY <1>1, <1>5, <2>1, NextContent DEF ShapeInv
<1>7. ASSUME NEW i \in 1 .. c + k
      PROVE  Content'[i] = (Content \o Numbered(k))[i]
  <2>1. CASE i <= c
    <3>1. i \in 1 .. c /\ i - 1 \in 0 .. c - 1
      BY <1>5, <2>1
    <3>2. Content'[i] = pucBuffer[Turn(xLength, xTail, i - 1)]
      BY <1>2, <1>6, <3>1
    <3>3. Content[i] = pucBuffer[Turn(xLength, xTail, i - 1)]
      BY <1>3, <3>1 DEF Advance, Turn
    <3>. QED  BY <1>3, <1>4, <3>1, <3>2, <3>3
  <2>2. CASE i > c
    <3>0. /\ i \in Int /\ c \in Nat /\ i > c /\ i <= c + k /\ k <= xLength - 1
          /\ k \in Nat /\ xLength \in Nat
      BY <1>1, <1>5, <2>2
    <3>1. i - c \in 1 .. k /\ i - 1 - c \in 0 .. k - 1 /\ i - 1 - c \in 0 .. xLength - 1
      BY <3>0
    <3>2. Turn(xLength, Turn(xLength, xTail, c), i - 1 - c) = Turn(xLength, xTail, c + (i - 1 - c))
      BY <1>1, <1>5, <3>1, TurnTwice
    <3>3. Turn(xLength, xTail, c) = xHead /\ c + (i - 1 - c) = i - 1
      BY <1>1, <1>2, CountTypes
    <3>4. Turn(xLength, xTail, i - 1) = Advance(xHead, i - 1 - c)
      BY <3>2, <3>3 DEF Advance, Turn
    <3>5. pucBuffer'[Advance(xHead, i - 1 - c)] = Numbered(k)[i - 1 - c + 1]
      BY <3>1
    <3>6. i - 1 - c + 1 = i - c
      BY <1>2
    <3>7. Content'[i] = Numbered(k)[i - c]
      BY <1>6, <3>4, <3>5, <3>6
    <3>8. (Content \o Numbered(k))[i] = Numbered(k)[i - c]
      <4>1. i \in 1 .. Len(Content) + Len(Numbered(k)) /\ ~(i <= Len(Content))
        BY <1>3, <1>4, <3>0
      <4>. QED  BY <1>3, <1>4, <4>1
    <3>. QED  BY <3>7, <3>8
  <2>3. i <= c \/ i > c
    BY <1>2
  <2>. QED  BY <2>1, <2>2, <2>3
<1>8. Content' = Content \o Numbered(k)
  <2>1. /\ Len(Content \o Numbered(k)) = Len(Content) + Len(Numbered(k))
        /\ Content \o Numbered(k) =
             [i \in 1 .. Len(Content) + Len(Numbered(k)) |-> (Content \o Numbered(k))[i]]
    BY <1>3, <1>4, Joined
  <2>2. Content \o Numbered(k) = [i \in 1 .. c + k |-> (Content \o Numbered(k))[i]]
    BY <1>3, <1>4, <2>1
  <2>. QED  BY <1>6, <1>7, <2>2
<1>9. xMaxReportedSpace = xLength - 1 /\ UNCHANGED <<IsMessageBuffer, xMaxReportedSpace>>
  BY DEF xMaxReportedSpace, IsMessageBuffer, xLength
<1>10. Stream!Numbered(k) = Numbered(k)
  BY DEF Stream!Numbered, Numbered
<1>11. Stream!Size(Content') = Len(Content') /\ Len(Content') = c + k
  <2>1. Len(Content \o Numbered(k)) = Len(Content) + Len(Numbered(k))
    BY <1>3, <1>4, Joined
  <2>. QED  BY <1>3, <1>4, <1>8, <2>1 DEF Stream!Size
<1>12. Stream!Send(k)
  BY <1>5, <1>6, <1>8, <1>9, <1>10, <1>11 DEF Stream!Send, Stream!typeVars
<1>. QED  BY <1>5, <1>9, <1>12 DEF Stream!Next

\* The tail moves over bytes that were copied.
LEMMA BytesReceived ==
  ASSUME ShapeInv, ~IsMessageBuffer, UNCHANGED <<use, xHead, pucBuffer, next>>, NEW k \in Nat \ {0},
         k <= prvBytesInBuffer, xTail' = Advance(xTail, k), xTail' \in 0 .. xLength - 1,
         prvBytesInBuffer' = prvBytesInBuffer - k,
         received' \in Seq(Nat), Len(received') = k,
         \A i \in 1 .. k : received'[i] = pucBuffer[Advance(xTail, i - 1)]
  PROVE  Stream!Next
<1>1. /\ xLength \in Nat /\ xLength >= 2 /\ xTail \in 0 .. xLength - 1
      /\ xHead \in 0 .. xLength - 1
  BY Sides DEF ShapeInv
<1>2. PICK c \in 0 .. xLength - 1 : c = prvBytesInBuffer
  BY RingIs
<1>3. Content \in Seq(Nat) /\ Len(Content) = c
      /\ \A i \in 1 .. c : Content[i] = pucBuffer[Advance(xTail, i - 1)]
  BY <1>2, ContentIs
<1>4. c - k \in 0 .. xLength - 1 /\ k \in 1 .. c
  BY <1>1, <1>2
<1>5. /\ DOMAIN Content' = 1 .. c - k
      /\ Content' = [i \in 1 .. c - k |-> Content'[i]]
      /\ \A i \in 1 .. c - k : Content'[i] = pucBuffer[Turn(xLength, xTail', i - 1)]
  <2>1. prvBytesInBuffer' = c - k
    BY <1>2
  <2>. QED  BY <1>4, <2>1, NextContent DEF ShapeInv
<1>6. received' = SubSeq(Content, 1, k)
  <2>1. /\ SubSeq(Content, 1, k) \in Seq(Nat) /\ Len(SubSeq(Content, 1, k)) = k
        /\ \A i \in 1 .. k : SubSeq(Content, 1, k)[i] = Content[i]
    BY <1>3, <1>4, FirstOf
  <2>2. \A i \in 1 .. k : received'[i] = Content[i]
    <3>1. 1 .. k \subseteq 1 .. c
      BY <1>4
    <3>. QED  BY <1>3, <3>1
  <2>3. /\ received' = [i \in 1 .. k |-> received'[i]]
        /\ SubSeq(Content, 1, k) = [i \in 1 .. k |-> SubSeq(Content, 1, k)[i]]
    BY <2>1
  <2>. QED  BY <2>1, <2>2, <2>3
<1>7. Content' = SubSeq(Content, k + 1, Len(Content))
  <2>. DEFINE rest == SubSeq(Content, k + 1, Len(Content))
  <2>1. /\ rest \in Seq(Nat) /\ Len(rest) = c - k
        /\ \A i \in 1 .. c - k : rest[i] = Content[k + i]
    BY <1>3, <1>4, RestOf
  <2>. HIDE DEF rest
  <2>2. ASSUME NEW i \in 1 .. c - k
        PROVE  Content'[i] = Content[k + i]
    <3>1. k + i \in 1 .. c /\ k \in 0 .. xLength /\ i - 1 \in 0 .. xLength /\ k + (i - 1) <= xLength
      BY <1>1, <1>4
    <3>2. Turn(xLength, Turn(xLength, xTail, k), i - 1) = Turn(xLength, xTail, k + (i - 1))
      BY <1>1, <3>1, TurnTwice
    <3>3. Turn(xLength, xTail, k) = xTail'
      BY DEF Advance, Turn
    <3>4. Turn(xLength, xTail, k + (i - 1)) = Advance(xTail, k + i - 1)
      BY <1>1 DEF Advance, Turn
    <3>5. Content'[i] = pucBuffer[Advance(xTail, k + i - 1)]
      BY <1>5, <3>2, <3>3, <3>4
    <3>6. Content[k + i] = pucBuffer[Advance(xTail, k + i - 1)]
      <4>1. PICK j \in 1 .. c : j = k + i
        BY <3>1
      <4>2. Content[j] = pucBuffer[Advance(xTail, j - 1)]
        BY <1>3
      <4>. QED  BY <4>1, <4>2
    <3>. QED  BY <3>5, <3>6
  <2>3. rest = [i \in 1 .. c - k |-> rest[i]]
    BY <2>1
  <2>4. \A i \in 1 .. c - k : Content'[i] = rest[i]
    BY <2>1, <2>2
  <2>5. Content' = rest
    BY <1>5, <2>3, <2>4
  <2>. QED  BY <2>5 DEF rest
<1>8. xMaxReportedSpace = xLength - 1 /\ UNCHANGED <<IsMessageBuffer, xMaxReportedSpace>>
  BY DEF xMaxReportedSpace, IsMessageBuffer, xLength
<1>9. k \in 1 .. Len(Content) /\ k \in 1 .. xMaxReportedSpace
  BY <1>1, <1>3, <1>4, <1>8
<1>10. Stream!Receive(k)
  BY <1>6, <1>7, <1>8, <1>9 DEF Stream!Receive, Stream!typeVars
<1>. QED  BY <1>9, <1>10 DEF Stream!Next

\* A step that touches neither the ring nor what was sent and received.
LEMMA StreamQuiet ==
  ASSUME UNCHANGED <<use, xHead, xTail, pucBuffer, next, received>>
  PROVE  UNCHANGED Stream!streamVars
BY DEF Stream!streamVars, Stream!typeVars, Content, BytesFrom, prvBytesInBuffer, xMaxReportedSpace,
       xLength, IsMessageBuffer

\* Of the steps of a send, the move of the head is the one that sends.
LEMMA SendImplements ==
  ASSUME StreamInv, ~IsMessageBuffer, SendStep
  PROVE  Stream!Next \/ UNCHANGED Stream!streamVars
<1>. USE DEF bufferVars, dataVars
<1>1. CASE \/ \E n \in use.sendSizes, ticks \in use.sendTimes : xStreamBufferSend(n, ticks)
           \/ SendCheck \/ SendWait \/ SendWoken \/ SendClear \/ SendTimeOut \/ SendMeasure
           \/ SendTrigger \/ SendLock \/ SendNotify \/ SendUnlock
  <2>1. UNCHANGED <<use, xHead, xTail, pucBuffer, next, received>>
    BY <1>1 DEF xStreamBufferSend, SendCheck, SendWait, SendWoken, SendClear, SendTimeOut,
       SendMeasure, SendTrigger, SendLock, SendNotify, SendUnlock
  <2>. QED  BY <2>1, StreamQuiet
<1>2. CASE SendCopy
  <2>. DEFINE n == Accepted(tx.size, tx.amount)
  <2>1. /\ tx.step = "copy" /\ UNCHANGED <<use, xHead, xTail, next, received>>
        /\ (n = 0 => UNCHANGED pucBuffer) /\ (n # 0 => pucBuffer' = Stored(Cells(n)))
    BY <1>2 DEF SendCopy, WriterAt
  <2>2. n \in Nat /\ (n # 0 => n + xBytesToStoreMessageLength <= xStreamBufferSpacesAvailable)
    <3>1. tx.size \in Nat \ {0} /\ tx.amount \in Nat
      BY <2>1, UsesAre DEF StreamInv, ShapeInv, CallRecord
    <3>2. tx.amount <= xStreamBufferSpacesAvailable
      BY <2>1 DEF StreamInv, RingInv, WriterInv, Measured
    <3>3. n \in Nat /\ (n # 0 => n + xBytesToStoreMessageLength <= tx.amount)
      BY <3>1, AcceptedFits DEF StreamInv, ShapeInv
    <3>4. xBytesToStoreMessageLength \in Nat /\ xStreamBufferSpacesAvailable \in Int
      BY Sides, RingIs DEF StreamInv, ShapeInv
    <3>. HIDE DEF n
    <3>. QED  BY <3>1, <3>2, <3>3, <3>4
  <2>. HIDE DEF n
  <2>3. CASE n = 0
    BY <2>1, <2>3, StreamQuiet
  <2>4. CASE n # 0
    <3>1. Cells(n) \in Seq(Nat) /\ Len(Cells(n)) = n + xBytesToStoreMessageLength
      BY <2>2, CellsAre DEF StreamInv, ShapeInv
    <3>2. \A i \in 0 .. prvBytesInBuffer - 1 :
            pucBuffer'[Turn(xLength, xTail, i)] = pucBuffer[Turn(xLength, xTail, i)]
      BY <2>1, <2>2, <2>4, <3>1, StoredCells DEF StreamInv
    <3>3. Content' = Content
      BY <2>1, <3>2, SameContent DEF StreamInv
    <3>. QED  BY <2>1, <3>3 DEF Stream!streamVars, Stream!typeVars, xMaxReportedSpace, xLength,
                               IsMessageBuffer
  <2>. QED  BY <2>3, <2>4
<1>3. CASE SendMove
  <2>1. /\ tx.step = "move" /\ xHead' = tx.amount /\ next' = (next + Len(tx.data)) % Numbers
        /\ UNCHANGED <<use, xTail, pucBuffer, received>>
    BY <1>3 DEF SendMove, WriterAt
  <2>2. xBytesToStoreMessageLength = 0
    BY Sides DEF StreamInv, ShapeInv
  <2>3. PICK k \in Nat \ {0} : k = Len(tx.data)
    BY <2>1 DEF StreamInv, ShapeInv, RingInv, WriterInv, Copied, CallRecord
  <2>4. /\ k + 0 <= xStreamBufferSpacesAvailable /\ xHead' = Advance(xHead, k + 0)
        /\ \A i \in 0 .. k + 0 - 1 : pucBuffer[Advance(xHead, i)] = Cells(k)[i + 1]
    BY <2>1, <2>2, <2>3 DEF StreamInv, RingInv, WriterInv, Copied
  <2>5. /\ k <= xStreamBufferSpacesAvailable /\ xHead' = Advance(xHead, k)
        /\ \A i \in 0 .. k - 1 : pucBuffer[Advance(xHead, i)] = Numbered(k)[i + 1]
    <3>1. Cells(k) = Numbered(k) /\ k + 0 = k
      BY DEF Cells
    <3>. QED  BY <2>4, <3>1
  <2>6. prvBytesInBuffer' = prvBytesInBuffer + k
    <3>1. prvBytesInBuffer' = prvBytesInBuffer + k + 0
      BY <2>1, <2>2, <2>4, HeadMoved DEF StreamInv, RingInv
    <3>2. prvBytesInBuffer \in Int
      BY RingIs, Sides DEF StreamInv, ShapeInv
    <3>. QED  BY <3>1, <3>2
  <2>. QED  BY <2>1, <2>3, <2>5, <2>6, BytesSent DEF StreamInv
<1>. QED  BY <1>1, <1>2, <1>3 DEF SendStep

\* Of the steps of a receive, the move of the tail is the one that receives.
LEMMA ReceiveImplements ==
  ASSUME StreamInv, ~IsMessageBuffer, ReceiveStep
  PROVE  Stream!Next \/ UNCHANGED Stream!streamVars
<1>. USE DEF bufferVars, dataVars
<1>1. CASE \/ \E n \in use.receiveSizes, ticks \in use.receiveTimes : xStreamBufferReceive(n, ticks)
           \/ ReceiveCheck \/ ReceiveWait \/ ReceiveWoken \/ ReceiveClear \/ ReceiveMeasure
           \/ ReceiveCopy \/ ReceiveLock \/ ReceiveNotify \/ ReceiveUnlock
  <2>1. UNCHANGED <<use, xHead, xTail, pucBuffer, next, received>>
    BY <1>1 DEF xStreamBufferReceive, ReceiveCheck, ReceiveWait, ReceiveWoken, ReceiveClear,
       ReceiveMeasure, ReceiveCopy, ReceiveLock, ReceiveNotify, ReceiveUnlock
  <2>. QED  BY <2>1, StreamQuiet
<1>2. CASE ReceiveMove
  <2>1. /\ rx.step = "move" /\ received' = rx.data
        /\ xTail' = Advance(xTail, Len(rx.data) + xBytesToStoreMessageLength)
        /\ UNCHANGED <<use, xHead, pucBuffer, next>>
    BY <1>2 DEF ReceiveMove, ReaderAt
  <2>2. xBytesToStoreMessageLength = 0
    BY Sides DEF StreamInv, ShapeInv
  <2>3. rx.data \in Seq(Nat)
    BY DEF StreamInv, ShapeInv, CallRecord
  <2>4. PICK k \in Nat \ {0} : k = Len(rx.data)
    BY <2>1, <2>3 DEF StreamInv, RingInv, ReaderInv
  <2>5. /\ k + 0 <= prvBytesInBuffer
        /\ \A i \in 1 .. k : rx.data[i] = pucBuffer[Advance(xTail, 0 + i - 1)]
    BY <2>1, <2>2, <2>4 DEF StreamInv, RingInv, ReaderInv
  <2>6. /\ xTail' \in 0 .. xLength - 1 /\ prvBytesInBuffer' = prvBytesInBuffer - (k + 0)
    BY <2>1, <2>2, <2>4, <2>5, TailMoved DEF StreamInv, RingInv
  <2>7. k + 0 = k /\ \A i \in 1 .. k : 0 + i - 1 = i - 1
    OBVIOUS
  <2>. QED  BY <2>1, <2>2, <2>3, <2>4, <2>5, <2>6, <2>7, BytesReceived DEF StreamInv
<1>. QED  BY <1>1, <1>2 DEF ReceiveStep

\* An interrupt sends, receives, or wakes somebody.
LEMMA InterruptImplements ==
  ASSUME StreamInv, ~IsMessageBuffer, InterruptStep
  PROVE  Stream!Next \/ UNCHANGED Stream!streamVars
<1>0. xBytesToStoreMessageLength = 0 /\ prvBytesInBuffer \in Nat
      /\ xStreamBufferSpacesAvailable \in Nat
  BY Sides, RingIs DEF StreamInv, ShapeInv
<1>1. ASSUME NEW n \in use.sendSizes, xStreamBufferSendFromISR(n)
      PROVE  Stream!Next
  <2>. DEFINE k == Accepted(n, xStreamBufferSpacesAvailable)
  <2>1. /\ k > 0 /\ pucBuffer' = Stored(Cells(k)) /\ xHead' = Advance(xHead, Len(Cells(k)))
        /\ next' = (next + k) % Numbers /\ UNCHANGED <<use, xTail, received>>
    BY <1>1 DEF xStreamBufferSendFromISR
  <2>2. k \in Nat \ {0} /\ k + xBytesToStoreMessageLength <= xStreamBufferSpacesAvailable
    <3>1. n \in Nat \ {0}
      BY UsesAre DEF StreamInv, ShapeInv
    <3>2. /\ k \in Nat
          /\ k # 0 => k + xBytesToStoreMessageLength <= xStreamBufferSpacesAvailable
      BY <1>0, <3>1, AcceptedFits DEF StreamInv, ShapeInv
    <3>. HIDE DEF k
    <3>. QED  BY <2>1, <3>2
  <2>. HIDE DEF k
  <2>3. k <= xStreamBufferSpacesAvailable
    BY <1>0, <2>2
  <2>4. Cells(k) = Numbered(k) /\ Numbered(k) \in Seq(Nat) /\ Len(Numbered(k)) = k
    BY <2>2, CellsAre DEF StreamInv, ShapeInv, Cells
  <2>5. /\ \A i \in 0 .. k - 1 : pucBuffer'[Advance(xHead, i)] = Numbered(k)[i + 1]
        /\ \A i \in 0 .. prvBytesInBuffer - 1 :
             pucBuffer'[Turn(xLength, xTail, i)] = pucBuffer[Turn(xLength, xTail, i)]
    BY <2>1, <2>3, <2>4, StoredCells DEF StreamInv
  <2>6. xHead' = Advance(xHead, k) /\ k + 0 = k
    BY <2>1, <2>2, <2>4
  <2>7. prvBytesInBuffer' = prvBytesInBuffer + k
    <3>1. prvBytesInBuffer' = prvBytesInBuffer + k + 0
      BY <1>0, <2>1, <2>2, <2>5, <2>6, HeadMoved DEF StreamInv, RingInv
    <3>. QED  BY <1>0, <2>2, <3>1
  <2>. QED  BY <2>1, <2>2, <2>3, <2>5, <2>6, <2>7, BytesSent DEF StreamInv
<1>2. ASSUME NEW n \in use.receiveSizes, xStreamBufferReceiveFromISR(n)
      PROVE  Stream!Next
  <2>. DEFINE data == Taken(n, prvBytesInBuffer)
  <2>1. /\ ~NothingToRead /\ data # <<>> /\ received' = data
        /\ xTail' = Advance(xTail, Len(data) + xBytesToStoreMessageLength)
        /\ UNCHANGED <<use, xHead, pucBuffer, next>>
    BY <1>2 DEF xStreamBufferReceiveFromISR
  <2>2. /\ data \in Seq(Nat) /\ Len(data) + xBytesToStoreMessageLength <= prvBytesInBuffer
        /\ \A i \in 1 .. Len(data) :
             data[i] = pucBuffer[Advance(xTail, xBytesToStoreMessageLength + i - 1)]
    <3>1. n \in Nat \ {0}
      BY UsesAre DEF StreamInv, ShapeInv
    <3>2. xBytesToStoreMessageLength < prvBytesInBuffer /\ prvBytesInBuffer <= prvBytesInBuffer
      BY <1>0, <2>1, FirstMessage DEF StreamInv, RingInv
    <3>. QED  BY <1>0, <3>1, <3>2, TakenIs DEF StreamInv
  <2>. HIDE DEF data
  <2>3. PICK k \in Nat \ {0} : k = Len(data)
    BY <2>1, <2>2
  <2>4. k + 0 = k /\ \A i \in 1 .. k : 0 + i - 1 = i - 1
    OBVIOUS
  <2>5. /\ k <= prvBytesInBuffer /\ xTail' = Advance(xTail, k)
        /\ \A i \in 1 .. k : received'[i] = pucBuffer[Advance(xTail, i - 1)]
    BY <1>0, <2>1, <2>2, <2>3, <2>4
  <2>6. /\ xTail' \in 0 .. xLength - 1 /\ prvBytesInBuffer' = prvBytesInBuffer - (k + 0)
    BY <1>0, <2>1, <2>2, <2>3, TailMoved DEF StreamInv, RingInv
  <2>. QED  BY <2>1, <2>2, <2>3, <2>4, <2>5, <2>6, BytesReceived DEF StreamInv
<1>3. CASE xStreamBufferSendCompletedFromISR \/ xStreamBufferReceiveCompletedFromISR
  <2>1. UNCHANGED <<use, xHead, xTail, pucBuffer, next, received>>
    BY <1>3 DEF xStreamBufferSendCompletedFromISR, xStreamBufferReceiveCompletedFromISR,
       bufferVars, dataVars
  <2>. QED  BY <2>1, StreamQuiet
<1>. QED  BY <1>1, <1>2, <1>3 DEF InterruptStep

\* Every step on a buffer of bytes is a step of ByteStream, or none.
LEMMA StreamStepImplements ==
  ASSUME StreamInv, ~IsMessageBuffer, [StreamNext]_streamBufferVars
  PROVE  [Stream!Next]_(Stream!streamVars)
<1>1. CASE SendStep
  BY <1>1, SendImplements
<1>2. CASE ReceiveStep
  BY <1>2, ReceiveImplements
<1>3. CASE InterruptStep
  BY <1>3, InterruptImplements
<1>4. CASE xStreamBufferReset
  <2>1. xHead' = 0 /\ xTail' = 0 /\ UNCHANGED <<use, next, received>>
    BY <1>4 DEF xStreamBufferReset, dataVars
  <2>2. xLength' = xLength /\ IsMessageBuffer' = IsMessageBuffer /\ xLength \in Nat
    BY <2>1, Sides DEF xLength, IsMessageBuffer, StreamInv, ShapeInv
  <2>3. prvBytesInBuffer' = 0
    BY <2>1, <2>2 DEF prvBytesInBuffer
  <2>4. Content' = <<>>
    <3>1. Content' = [i \in 1 .. 0 |-> pucBuffer'[(xTail' + i - 1) % xLength]]
      BY <2>2, <2>3 DEF Content, BytesFrom
    <3>. QED  BY <3>1
  <2>5. Stream!Reset
    BY <2>1, <2>2, <2>4 DEF Stream!Reset, Stream!typeVars, xMaxReportedSpace
  <2>. QED  BY <2>5 DEF Stream!Next
<1>5. CASE \/ StreamScheduler \/ UNCHANGED streamBufferVars
           \/ \E n \in use.triggers : xStreamBufferSetTriggerLevel(n)
  <2>1. UNCHANGED <<use, xHead, xTail, pucBuffer, next, received>>
    BY <1>5 DEF StreamScheduler, xStreamBufferSetTriggerLevel, streamBufferVars, bufferVars, dataVars
  <2>. QED  BY <2>1, StreamQuiet
<1>. QED  BY <1>1, <1>2, <1>3, <1>4, <1>5 DEF StreamNext

\* An empty stream.
LEMMA StreamInitImplements ==
  ASSUME StreamInit, ~IsMessageBuffer
  PROVE  Stream!Init
<1>1. /\ use \in Uses /\ xHead = 0 /\ xTail = 0 /\ next = 0 /\ received = <<>>
  BY DEF StreamInit
<1>2. xLength \in Nat /\ xLength >= 2
  BY <1>1, Sides
<1>3. prvBytesInBuffer = 0
  BY <1>1, <1>2 DEF prvBytesInBuffer
<1>4. Content = <<>>
  <2>1. Content = [i \in 1 .. 0 |-> pucBuffer[(xTail + i - 1) % xLength]]
    BY <1>3 DEF Content, BytesFrom
  <2>. QED  BY <2>1
<1>5. IsMessageBuffer \in BOOLEAN /\ xMaxReportedSpace \in Nat
  BY <1>1, <1>2, Sides DEF xMaxReportedSpace
<1>. QED  BY <1>1, <1>4, <1>5 DEF Stream!Init

\* A buffer stays what it was created as.
LEMMA UseKept ==
  ASSUME [StreamNext]_streamBufferVars
  PROVE  UNCHANGED use
<1>1. CASE \E n \in use.sendSizes, ticks \in use.sendTimes : xStreamBufferSend(n, ticks)
  BY <1>1 DEF xStreamBufferSend
<1>2. CASE SendCheck \/ SendWait \/ SendWoken \/ SendClear
  BY <1>2 DEF SendCheck, SendWait, SendWoken, SendClear
<1>3. CASE SendTimeOut \/ SendMeasure \/ SendCopy \/ SendMove
  BY <1>3 DEF SendTimeOut, SendMeasure, SendCopy, SendMove
<1>4. CASE SendTrigger \/ SendLock \/ SendNotify \/ SendUnlock
  BY <1>4 DEF SendTrigger, SendLock, SendNotify, SendUnlock
<1>5. CASE \E n \in use.receiveSizes, ticks \in use.receiveTimes : xStreamBufferReceive(n, ticks)
  BY <1>5 DEF xStreamBufferReceive
<1>6. CASE ReceiveCheck \/ ReceiveWait \/ ReceiveWoken \/ ReceiveClear \/ ReceiveMeasure
  BY <1>6 DEF ReceiveCheck, ReceiveWait, ReceiveWoken, ReceiveClear, ReceiveMeasure
<1>7. CASE ReceiveCopy \/ ReceiveMove \/ ReceiveLock \/ ReceiveNotify \/ ReceiveUnlock
  BY <1>7 DEF ReceiveCopy, ReceiveMove, ReceiveLock, ReceiveNotify, ReceiveUnlock
<1>8. CASE InterruptStep
  BY <1>8 DEF InterruptStep, xStreamBufferSendFromISR, xStreamBufferReceiveFromISR,
     xStreamBufferSendCompletedFromISR, xStreamBufferReceiveCompletedFromISR
<1>9. CASE \/ StreamScheduler \/ xStreamBufferReset \/ UNCHANGED streamBufferVars
           \/ \E n \in use.triggers : xStreamBufferSetTriggerLevel(n)
  BY <1>9 DEF StreamScheduler, xStreamBufferReset, xStreamBufferSetTriggerLevel, streamBufferVars
<1>. QED  BY <1>1, <1>2, <1>3, <1>4, <1>5, <1>6, <1>7, <1>8, <1>9
            DEF StreamNext, SendStep, ReceiveStep

\* What is sent through a stream buffer is received, once and in order, though
\* both sides copy without a lock and move their index afterwards, around the
\* end of the ring too (prvWriteBytesToBuffer, prvReadBytesFromBuffer,
\* stream_buffer.c:1248, 1294): the steps on a buffer of bytes implement
\* ByteStream.
THEOREM StreamIsFIFO ==
  ASSUME SafeUses
  PROVE  StreamSpec /\ ~IsMessageBuffer => ImplementsStream
<1>. DEFINE Plain == StreamInv /\ ~IsMessageBuffer
<1>1. StreamInit /\ ~IsMessageBuffer => Plain /\ Stream!Init
  BY StreamInitHolds, StreamInitImplements
<1>2. Plain /\ [StreamNext]_streamBufferVars => Plain'
  BY StreamStepKeeps, UseKept DEF IsMessageBuffer
<1>3. Plain /\ [StreamNext]_streamBufferVars => [Stream!Next]_(Stream!streamVars)
  BY StreamStepImplements
<1>. QED  BY <1>1, <1>2, <1>3, PTL DEF StreamSpec, ImplementsStream, Stream!Spec

=============================================================================
