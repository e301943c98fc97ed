---------------------------- MODULE EventGroups ----------------------------
(***************************************************************************)
(* One event group of kernel/FreeRTOS/event_groups.c, over the scheduler   *)
(* Kernel: tasks that wait for bits, set and clear them, meet in           *)
(* xEventGroupSync, abort each other's waits, and delete the group.        *)
(*                                                                         *)
(* uxEventBits is a set of bits.  The xEventListItem of a task that waits  *)
(* holds what it waits for, and, once a task has woken it, the value it    *)
(* returns (xItemValue below; Kernel knows the item as InUse).  A set call *)
(* walks the list with the scheduler suspended, one waiter a step; the     *)
(* bits that waiters want cleared go at the end of the walk.               *)
(*                                                                         *)
(* A task deletes the group only while every other call on it sleeps or    *)
(* was answered: the code has no protection against others.                *)
(***************************************************************************)
EXTENDS Kernel

CONSTANTS
  Bit,
  Programs      \* bound: the calls each task makes, one way or another; see CallRecords

xTasksWaitingForBits == "xTasksWaitingForBits"

Ticks == 0 .. portMAX_DELAY
Wanted == [for : (SUBSET Bit) \ {{}}, clear : BOOLEAN, all : BOOLEAN]

\* kind, and what the call is made with: bits to set or clear, a request.
\* xEventGroupSync waits for all its bits, and clears them.
CallRecords ==
  [kind : {"set", "clear", "delete", "abort", "delay"}, bits : SUBSET Bit]
    \cup [kind : {"wait"}, bits : SUBSET Bit, request : Wanted, ticks : Ticks]
    \cup [kind : {"sync"}, bits : SUBSET Bit, request : {r \in Wanted : r.clear /\ r.all},
          ticks : Ticks]

ASSUME EventGroupsAssumption ==
  /\ EventList = {xTasksWaitingForBits} /\ Unordered = EventList
  /\ portMAX_DELAY > 0
  /\ \A p \in Programs, t \in Task : p[t] \subseteq CallRecords

NoCall == [kind |-> "none", bits |-> {}]
NoItem == [set |-> FALSE, request |-> {}, bits |-> {}]
NoWalk == [before |-> {}, rest |-> <<>>, uxBitsToClear |-> {}, woken |-> {}, active |-> FALSE]

VARIABLES
  program,       \* what never changes: the calls that each task makes
  uxEventBits,
  xItemValue,    \* of each task: [set, request, bits], "set" being eventUNBLOCKED_DUE_TO_BIT_SET
  call,          \* the call each task is in
  step,          \* ... and how far
  walk,          \* locals of xEventGroupSetBits, and of the xEventGroupSync around it
  exists         \* the group is created

\* "original": xEventGroupSync, before the nested call; "set": the scheduler is
\* suspended; "walk", "setResume": the loop over the list and the xTaskResumeAll
\* behind it; "test", "resume": of a wait; "item": uxTaskResetEventItemValue;
\* "late": the critical section after a timeout; "drain": the loop of a deletion.
Steps == {"none", "original", "set", "walk", "setResume", "test", "resume", "item", "late", "drain"}

groupVars == <<uxEventBits, xItemValue, call, step, walk, exists>>
vars == <<program, kernelVars, groupVars>>

EventGroupInit ==
  /\ Init /\ program \in Programs
  /\ uxEventBits = {} /\ exists = TRUE
  /\ xItemValue = [t \in Task |-> NoItem]
  /\ call = [t \in Task |-> NoCall] /\ step = [t \in Task |-> "none"]
  /\ walk = NoWalk

Waiters == xEventLists[xTasksWaitingForBits]
Waiting(t) == Contains(Waiters, t)

At(t, s) == AtCall(t) /\ step[t] = s /\ (switchDue => uxSchedulerSuspended > 0)
Between(t) == At(t, "none") /\ uxSchedulerSuspended = 0

Goto(t, s) == step' = [step EXCEPT ![t] = s] /\ UNCHANGED call

Return(t) == step' = [step EXCEPT ![t] = "none"] /\ call' = [call EXCEPT ![t] = NoCall]

\* A call that suspends the scheduler first goes on with step s.
Enter(t, c, s) ==
  /\ Between(t) /\ exists /\ c \in program[t]
  /\ SuspendAll(t)
  /\ call' = [call EXCEPT ![t] = c] /\ step' = [step EXCEPT ![t] = s]
  /\ UNCHANGED <<program, uxEventBits, xItemValue, walk, exists>>

-----------------------------------------------------------------------------
(* xEventGroupSetBits *)

\* Mutant: one of the bits is enough for everyone.
AnyWillDo(r, v) == r.for \cap v # {}
\* prvTestWaitCondition, and the same test in the walk.
prvTestWaitCondition(r, v) == IF r.all THEN r.for \subseteq v ELSE r.for \cap v # {}

xEventGroupSetBits(t, c) == c.kind = "set" /\ Enter(t, c, "set")

SetBits(t) ==
  /\ At(t, "set")
  /\ uxEventBits' = uxEventBits \cup call[t].bits
  /\ walk' = [NoWalk EXCEPT !.before = uxEventBits, !.rest = Waiters, !.active = TRUE]
  /\ Goto(t, "walk")
  /\ UNCHANGED <<program, kernelVars, xItemValue, exists>>

\* Mutant: a waiter's bits go at once, and those behind it miss them.
ClearedAtOnce(r) == uxEventBits' = uxEventBits \ (IF r.clear THEN r.for ELSE {})
\* The bits stay until the walk is over.
KeptForTheOthers(r) == UNCHANGED uxEventBits

\* Mutant: the next item is looked up from where the woken one was.
SkipsOne(s) == IF Len(s) = 1 THEN <<>> ELSE Tail(Tail(s))
\* pxNext, read before the item may leave the list.
Onward(s) == Tail(s)

WakeMatching(t) ==
  LET u == Head(walk.rest)
      r == xItemValue[u].request
  IN  /\ At(t, "walk") /\ walk.rest # <<>>
      /\ prvTestWaitCondition(r, uxEventBits)
      /\ xItemValue' = [xItemValue EXCEPT ![u] =
                          [set |-> TRUE, request |-> {}, bits |-> uxEventBits]]
      /\ RemoveFromUnorderedEventList(t, u, xTasksWaitingForBits)
      /\ walk' = [walk EXCEPT !.rest = Onward(@), !.woken = @ \cup {u},
                              !.uxBitsToClear = @ \cup (IF r.clear THEN r.for ELSE {})]
      /\ KeptForTheOthers(r)
      /\ Goto(t, "walk")
      /\ UNCHANGED <<program, exists>>

PassOver(t) ==
  /\ At(t, "walk") /\ walk.rest # <<>>
  /\ ~prvTestWaitCondition(xItemValue[Head(walk.rest)].request, uxEventBits)
  /\ walk' = [walk EXCEPT !.rest = Onward(@)]
  /\ Goto(t, "walk")
  /\ UNCHANGED <<program, kernelVars, uxEventBits, xItemValue, exists>>

EndWalk(t) ==
  /\ At(t, "walk") /\ walk.rest = <<>>
  /\ uxEventBits' = uxEventBits \ walk.uxBitsToClear
  /\ walk' = IF call[t].kind = "sync" THEN walk ELSE NoWalk
  /\ Goto(t, "setResume")
  /\ UNCHANGED <<program, kernelVars, xItemValue, exists>>

ResumeAfterSet(t) ==
  /\ At(t, "setResume")
  /\ ResumeAll(t)
  /\ IF call[t].kind = "sync" THEN Goto(t, "test") ELSE Return(t)
  /\ UNCHANGED <<program, uxEventBits, xItemValue, walk, exists>>

-----------------------------------------------------------------------------
(* xEventGroupWaitBits and xEventGroupSync *)

xEventGroupWaitBits(t, c) == c.kind = "wait" /\ Enter(t, c, "test")
xEventGroupSync(t, c) == c.kind = "sync" /\ Enter(t, c, "original")

\* The nested call of xEventGroupSetBits.
SetInSync(t) ==
  /\ At(t, "original")
  /\ SuspendAll(t)
  /\ Goto(t, "set")
  /\ UNCHANGED <<program, uxEventBits, xItemValue, walk, exists>>

\* Mutant: the bits as the nested call left them, cleared for those it woke.
AsLeft(t) == uxEventBits
\* The value a call is judged by: xEventGroupSync has it from before its walk.
Judged(t) == IF call[t].kind = "sync" THEN walk.before \cup call[t].bits ELSE uxEventBits

ConditionMet(t) == prvTestWaitCondition(call[t].request, Judged(t))

\* What is left of v when a request is granted.
Remaining(r, v) == IF r.clear THEN v \ r.for ELSE v

TakeAtOnce(t) ==
  /\ At(t, "test") /\ ConditionMet(t)
  /\ uxEventBits' = Remaining(call[t].request, uxEventBits)
  /\ walk' = NoWalk
  /\ call' = [call EXCEPT ![t].ticks = 0] /\ step' = [step EXCEPT ![t] = "resume"]
  /\ UNCHANGED <<program, kernelVars, xItemValue, exists>>

FailAtOnce(t) ==
  /\ At(t, "test") /\ ~ConditionMet(t) /\ call[t].ticks = 0
  /\ walk' = NoWalk
  /\ Goto(t, "resume")
  /\ UNCHANGED <<program, kernelVars, uxEventBits, xItemValue, exists>>

Block(t) ==
  /\ At(t, "test") /\ ~ConditionMet(t) /\ call[t].ticks > 0
  /\ PlaceOnUnorderedEventList(t, xTasksWaitingForBits, call[t].ticks)
  /\ xItemValue' = [xItemValue EXCEPT ![t] =
                      [set |-> FALSE, request |-> call[t].request, bits |-> {}]]
  /\ walk' = NoWalk
  /\ Goto(t, "resume")
  /\ UNCHANGED <<program, uxEventBits, exists>>

ResumeAfterTest(t) ==
  /\ At(t, "resume")
  /\ ResumeAll(t)
  /\ IF call[t].ticks > 0 THEN Goto(t, "item") ELSE Return(t)
  /\ UNCHANGED <<program, uxEventBits, xItemValue, walk, exists>>

\* The task was not woken by a task that set the bits, or deleted the group.
TimedOut(t) == ~xItemValue[t].set

ReadItem(t) ==
  /\ At(t, "item")
  /\ ResetEventItemValue(t)
  /\ IF TimedOut(t) THEN Goto(t, "late") ELSE Return(t)
  /\ xItemValue' = [xItemValue EXCEPT ![t] = NoItem]
  /\ UNCHANGED <<program, uxEventBits, walk, exists>>

\* The bits may have been set since its time was up.
LookAgain(t) ==
  /\ At(t, "late")
  /\ uxEventBits' = IF prvTestWaitCondition(call[t].request, uxEventBits)
                      THEN Remaining(call[t].request, uxEventBits) ELSE uxEventBits
  /\ Return(t)
  /\ UNCHANGED <<program, kernelVars, xItemValue, walk, exists>>

-----------------------------------------------------------------------------
(* Clearing, creating, deleting; what else the tasks do *)

xEventGroupClearBits(t, c) ==
  /\ Between(t) /\ exists /\ c.kind = "clear" /\ c \in program[t]
  /\ uxEventBits' = uxEventBits \ c.bits
  /\ UNCHANGED <<program, kernelVars, xItemValue, call, step, walk, exists>>

vEventGroupDelete(t, c) ==
  /\ c.kind = "delete"
  /\ \A u \in Task \ {t} : step[u] = "none" \/ Waiting(u) \/ xItemValue[u].set
  /\ Enter(t, c, "drain")

ZeroForDeleted == [set |-> TRUE, request |-> {}, bits |-> {}]

Drain(t) ==
  LET u == Head(Waiters)
  IN  /\ At(t, "drain") /\ Waiters # <<>>
      /\ xItemValue' = [xItemValue EXCEPT ![u] = ZeroForDeleted]
      /\ RemoveFromUnorderedEventList(t, u, xTasksWaitingForBits)
      /\ walk' = [walk EXCEPT !.before = uxEventBits, !.woken = @ \cup {u}, !.active = TRUE]
      /\ Goto(t, "drain")
      /\ UNCHANGED <<program, uxEventBits, exists>>

\* xTaskResumeAll and vPortFree follow; nobody uses the group any more.
EndDrain(t) ==
  /\ At(t, "drain") /\ Waiters = <<>>
  /\ exists' = FALSE /\ uxEventBits' = {} /\ walk' = NoWalk
  /\ Return(t)
  /\ UNCHANGED <<program, kernelVars, xItemValue>>

xEventGroupCreate(t) ==
  /\ Between(t) /\ ~exists
  /\ exists' = TRUE /\ uxEventBits' = {}
  /\ UNCHANGED <<program, kernelVars, xItemValue, call, step, walk>>

xTaskAbortDelay(t, u) ==
  /\ Between(t) /\ Waiting(u)
  /\ \E c \in program[t] : c.kind = "abort"
  /\ AbortDelay(t, u)
  /\ UNCHANGED <<program, groupVars>>

vTaskDelay(t) ==
  /\ Between(t)
  /\ \E c \in program[t] : c.kind = "delay"
  /\ Delay(t, 1)
  /\ UNCHANGED <<program, groupVars>>

\* The end of a delay's, an abort's and a deletion's suspension.
ResumeScheduler(t) ==
  /\ At(t, "none")
  /\ ResumeAll(t)
  /\ UNCHANGED <<program, groupVars>>

Scheduler == (SwitchContext \/ IncrementTick) /\ UNCHANGED <<program, groupVars>>

CallStep(t) ==
  \/ \E c \in program[t] : \/ xEventGroupSetBits(t, c) \/ xEventGroupWaitBits(t, c)
                           \/ xEventGroupSync(t, c) \/ xEventGroupClearBits(t, c)
                           \/ vEventGroupDelete(t, c)
  \/ SetInSync(t) \/ SetBits(t) \/ WakeMatching(t) \/ PassOver(t) \/ EndWalk(t)
  \/ ResumeAfterSet(t) \/ TakeAtOnce(t) \/ FailAtOnce(t) \/ Block(t) \/ ResumeAfterTest(t)
  \/ ReadItem(t) \/ LookAgain(t) \/ Drain(t) \/ EndDrain(t) \/ xEventGroupCreate(t)
  \/ vTaskDelay(t) \/ ResumeScheduler(t)
  \/ \E u \in Task : xTaskAbortDelay(t, u)

EventGroupNext == Scheduler \/ \E t \in Task : CallStep(t)

EventGroupSpec == EventGroupInit /\ [][EventGroupNext]_vars

\* Time passes, tasks of one priority take turns (TimeSliced of Tasks), and a task
\* does not lose each of its turns before its first step; and one that takes part
\* in a rendezvous comes back to it, whatever it does between.
EventGroupFairSpec ==
  /\ EventGroupSpec
  /\ WF_vars(IncrementTick /\ UNCHANGED <<program, groupVars>>)
  /\ \A t \in Task : /\ SF_vars(CallStep(t))
                     /\ SF_vars(SwitchContext /\ pxCurrentTCB' = t /\ UNCHANGED <<program, groupVars>>)
                     /\ SF_vars(\E c \in program[t] : xEventGroupSync(t, c))

-----------------------------------------------------------------------------
EventGroupTypeOK ==
  /\ uxEventBits \in SUBSET Bit /\ exists \in BOOLEAN
  /\ \A t \in Task :
       /\ step[t] \in Steps /\ call[t] \in CallRecords \cup {NoCall}
       /\ xItemValue[t].bits \in SUBSET Bit
       /\ Waiting(t) => xItemValue[t].request \in Wanted /\ ~xItemValue[t].set
       /\ Contains(walk.rest, t) => Waiting(t)

\* No lost wake-up: when the scheduler runs, nobody sleeps with its condition met.
NoneLeftWaiting ==
  uxSchedulerSuspended = 0 =>
    \A t \in Task : Waiting(t) => ~prvTestWaitCondition(xItemValue[t].request, uxEventBits)

\* A group that was deleted is not touched again: the calls it interrupted
\* return the value they were given, and go nowhere near its bits or its list
\* (vEventGroupDelete wakes them with the flag set for this).
FreedNotTouched ==
  ~exists =>
    /\ Waiters = <<>>
    /\ \A t \in Task : step[t] = "none" \/ (step[t] = "item" /\ xItemValue[t].set)

\* The group, its waiters and the calls agree: nobody sleeps on bits that are
\* set, and nobody is left with a group that is gone.
EventGroupConsistent == EventGroupTypeOK /\ NoneLeftWaiting /\ FreedNotTouched

\* A rendezvous is met by all: when a task is released from xEventGroupSync,
\* every task that takes part has arrived in a call that has not returned yet.
\* It holds of tasks that wait for ever: one that gives up leaves its bit behind.
OnlyMeet == \A t \in Task : \A c \in program[t] :
              c.kind = "delay" \/ (c.kind = "sync" /\ c.ticks = portMAX_DELAY)
Arrived(u) == call[u].kind = "sync" /\ step[u] \notin {"original", "set"}
Granted(t) == \/ xItemValue'[t].set /\ ~xItemValue[t].set
              \/ step[t] = "test" /\ call'[t] # call[t]
AllArrived(t) ==
  call[t].kind = "sync" /\ Granted(t) =>
    \A u \in Task : (\E c \in program[u] : c.kind = "sync") => Arrived(u)
SyncMadeByAll == [][OnlyMeet => \A t \in Task : AllArrived(t)]_vars

\* The example of event_groups.h (:680) relies on the same although one of its
\* tasks waits for 100 ms.
RendezvousOfAll == [][\A t \in Task : AllArrived(t)]_vars

\* Nobody waits for ever at a rendezvous to which everybody keeps coming.
RendezvousHappens == OnlyMeet => \A t \in Task : Waiting(t) ~> ~Waiting(t)

\* The walk of xEventGroupSetBits, the nested call of xEventGroupSync and the
\* loop of vEventGroupDelete are each one step to those who wait: nobody misses
\* bits that another waiter takes, a wait that is over by timeout is judged by
\* the bits at its end, and no bit is lost or taken twice.
Sleeps(t) == Waiting(t) \/ t \in walk.woken
Answered(t) == ~Sleeps(t) /\ xItemValue[t].set
IsLate(t) == ~Sleeps(t) /\ ~xItemValue[t].set /\ step[t] \in {"item", "late"}
BitsSoFar == IF walk.active THEN walk.before ELSE uxEventBits
Phase(t) == IF Sleeps(t) THEN "waiting" ELSE IF Answered(t) THEN "released"
            ELSE IF IsLate(t) THEN "late" ELSE "no"
Wants(t) == IF Sleeps(t) \/ IsLate(t) THEN call[t].request ELSE {}
Gets(t)  == IF Answered(t) THEN xItemValue[t].bits ELSE {}
Flags == INSTANCE EventFlags WITH
  bits   <- BitsSoFar,
  waits  <- [t \in Task |-> Phase(t)],
  wanted <- [t \in Task |-> Wants(t)],
  got    <- [t \in Task |-> Gets(t)]
ImplementsFlags == Flags!Spec
=============================================================================
