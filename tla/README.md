# Formal models of RTOS-SDK

RTOS-SDK is a small SDK for the STM32F407 (Cortex-M4): FreeRTOS V10.5.1 with
its own configuration, the board's start-up code, drivers (serial flash over
SPI, USART, GPIO, key, LED, clock), a command line and a C library. This
directory holds TLA+ models of the parts that carry its logic, the TLC runs
that check them and proofs of what matters most.

`PROJECT.json` lists components, runs, mutants, findings, hazards and
theorems, and maps every definition to the lines it models.

## 1. Inventory

| Component | State | Operations | Interacts with | Status |
|---|---|---|---|---|
| Scheduler, `tasks.c` | TCBs (priorities, the list each is on, wake time), ready, delayed, overflow and pending lists, tick count, next unblock time, suspension, pended ticks and yield | delay, block, suspend, resume, abort, create, delete, set priority, suspend and resume the scheduler, tick, switch | called by tasks, by interrupts (`...FromISR`), by SysTick and PendSV | `Kernel`, `Tasks`; queries and statistics left out |
| Lists, `list.c` | a circular list with a cursor | insert at the end, insert by value, remove, next | every kernel object | partly: `Lists` |
| Port, `portable/GCC/ARM_CM4F/port.c` | BASEPRI, pended interrupts | SysTick, PendSV, critical sections | scheduler | partly: in `Tasks` |
| Queues, semaphores, `queue.c` | items, two waiter lists, two lock counters, the time each call has left | send, receive, peek, take, reset, the ISR calls | scheduler (event lists, suspension, timeout) | partly: `Queues` |
| Mutexes, `queue.c` and `tasks.c` | holder, mutexes held, inherited priority | take, give, inherit, disinherit | scheduler, priorities | partly: `Mutexes` |
| Task notifications, `tasks.c` | state per task | notify, wait, clear, from tasks and interrupts | scheduler, stream buffers | `Kernel`, `Tasks`; the values left out |
| Event groups, `event_groups.c` | bits, one unordered waiter list | set, clear, wait, sync, delete | scheduler (event items carry the bits) | `EventGroups` |
| Stream and message buffers, `stream_buffer.c` | ring, head, tail, trigger level, one waiter a side | send, receive, reset, set trigger level, the ISR calls | notifications | partly: `StreamBuffers` |
| Software timers, `timers.c` | two timer lists, a queue of commands, the daemon | create, start, stop, change period, delete, expire | queues, tick count | `Timers` |
| Heap, `heap_5.c` | free list by address, counts | define regions, allocate, free | create and delete of everything | `Heap` |
| Flash driver, `drivers/flash/flash.c` | two static flags, a sector buffer; the chip | write, erase sector, erase chip | SPI, command line | partly: `Flash` |
| Command line, `cli.c`, `FreeRTOS_CLI.c`, the parser in `flash.c` | line buffer, list of commands, the words of a flash command | edit, look up, run, register | USART, flash, heap | partly: `CommandLine` |
| USART, `usart.c` | one received character | poll, send | command line | partly: in `CommandLine` |
| Demo, `products/demo/main.c` | two tasks | start, delete itself | scheduler | not modelled: straight-line code, then one call of `vTaskDelete`, which `Tasks` has |
| Start-up, init calls, NVIC, EXTI, clock, GPIO, key, LED, SPI | registers | written once, or polled | — | not modelled: no state of their own, or straight-line code |
| FileX, USB, nanoprintf, `sm_libc`, scripts, co-routines | — | — | — | not modelled: third-party, pure functions, tools, or not built |

Most of the repository's lines are not this program: ports of FreeRTOS to other
processors with their register headers, FileX and the vendor's USB library.

What each must do to be correct:

* **Scheduler**: the lists agree with the tasks' states; a delay ends at the
  tick it was asked for, also over the wrap of the count; the ready task of the
  highest priority runs, equals share the time; what interrupts do while the
  scheduler is suspended touches no list that is being walked and is made up
  for afterwards.
* **Queues**: no wake-up is lost between the test for an item and going to
  sleep; a call waits for the time it was given, no less.
* **Mutexes**: a holder keeps the priority it was lent while it is needed and no
  longer; a free mutex is taken.
* **Flash**: what a successful call wrote is there, nothing else changed, and a
  power failure costs no more than the sector in work.
* **Notifications**: nobody is notified and sleeps on; the event item an
  interrupt may use is free.
* **Event groups**: a set releases everybody whose condition holds, with the bits
  they see before any is cleared; a rendezvous is passed by all or nobody; a group
  deleted under its waiters is not touched again.
* **Stream buffers**: bytes arrive once and in order, messages whole; neither
  side sleeps on what the other has done.
* **Timers**: one callback for each expiry, never early, none slept past.
* **Heap**: blocks neither overlap nor get lost; a request that fits is served.
* **Command line**: what is shown is what is run, with its own words.

The hard behaviour is the interleaving: interrupts between any two critical
sections, preemption at each of them, the scheduler suspended with interrupts
running, loops inside masked sections, 32-bit time that wraps, state cached to
save a walk through a list, waits that end for three reasons at once, power loss.
`PROJECT.json` lists 40 such hazards at their lines.

The configuration modelled is that of `boards/arm/stm32/FreeRTOSConfig.h`: preemption, time
slicing, generic task selection, no tickless idle, mutexes but not recursive
ones, no queue sets, `configASSERT` compiled out. An operation whose failed
assertion would be undefined behaviour is guarded by the assertion: the tasks
are taken to keep the rules of the API (not to block with the scheduler
suspended, not to suspend the idle task).

## 2. Modules

    Lists               list.c as operators on sequences with a cursor
      ListsProof        lemmas about them, for all the proofs below
      Kernel            what the scheduler promises: the abstract specification
        KernelProof     what its steps keep: lemmas for the objects over it
        Queues          one queue or semaphore over it
          QueuesProof       theorems about Queues
        Mutexes         mutexes with priority inheritance over it
          MutexesProof      theorems about Mutexes
        EventGroups     an event group over it; implements EventFlags
        StreamBuffers   a stream or message buffer over it; implements ByteStream
          EventsAndStreamsProof  theorems about EventGroups and StreamBuffers, and those
                            two refinements
      Tasks             the code of the scheduler; implements Kernel
        TasksProof      theorems about Tasks: types, time, what pends, lists, selection, waits
    Timers              the timer daemon and its lists
      TimersProof       theorems about Timers, and its arithmetic of wrapping tick counts
    Heap                heap_5.c; implements MemoryPool
    Flash               the flash driver and the chip
      FlashProof        theorems about Flash
    CommandLine         the line editor and the commands; implements LineEditor
    MC...               instances for TLC

The modules over `Kernel` rest on what `Tasks` implements: each takes whole calls of
the scheduler as steps, and `ImplementsKernel` shows that these are what the code
of `tasks.c` amounts to.

**Tasks.** A step is one critical section, one stretch with the scheduler
suspended, or one round of a loop inside a masked section. `kernel` says which
loop runs; while it is not `"none"` nothing else moves. `pc` says what a task has
left to do of a call that is made of several sections. `xStateList` is the list
that holds a task's state item: the code's test on the container of the item.
The delayed lists are sets ordered by `xWakeTime`, their order among equals is
left open, which allows every order the code has; ready lists and event lists
are sequences. `xNumOfOverflows` is left to `Queues`, where it is read. Time
values are `0 .. TickRange - 1`, wrapping. `PendSV` is the pended switch: it
comes before the next step of any task, but ticks and other interrupts may come
first. The tasks are the most general client: at every point they may make any
call. `left` is a history variable: the ticks a delayed task has still to sleep.

**Kernel.** The same calls without lists by wake time, overflow list, unblock
time, pended ticks or loops: a delayed task becomes ready at its tick, all the
tasks due at once; a switch goes to a ready task of the highest priority.
`Tasks` implements it (`ImplementsKernel`) with the refinement mapping at its
end: a task the masked loops have yet to move counts as ready from their first
step on. `Queues` and `Mutexes` extend `Kernel`, so that what they show rests on
what `Tasks` implements.

**Queues.** One task step is one critical section or one call of the kernel, so
that `prvLockQueue`, the timeout check, the test, the sleep, the two sections of
`prvUnlockQueue` and `xTaskResumeAll` are separate and interrupts run between
them. The storage is the number of items. Counting and binary semaphores are
queues of items without size, with the same code path. `waited`, `requested`,
`aborted` and `stranding` are history variables. A reset wakes one sender, however
many items it throws away (`queue.c:325-336`); the senders that one of several items leaves asleep
are excepted by `stranding`, those under a reset of one item or none are not.

**Mutexes.** The same for `xQueueSemaphoreTake` on a mutex and the give. No
interrupt touches a mutex, so the queue lock is left out, and the time left is
counted down directly (what `Queues` shows of the `TimeOut_t`). A task that waits for
one mutex while it holds another may come to run below a waiter of the latter
(`MutexInversion.cfg`); what the code keeps, and `LentWhileNeeded` says, is that a priority
once lent is not taken back early.

**Notifications** are in `Tasks` and `Kernel`: `ucNotifyState` with the wait in
its two critical sections (`tasks.c:4778-4838`), `xTaskGenericNotify`, the two
calls from interrupts, `xTaskNotifyStateClear`, and what suspension does to a
wait. Only `Notifiable` tasks wait so, only `Waiter` tasks wait on event lists.

**EventGroups.** The calls run with the scheduler suspended, and each access to
the bits, the list or an event item is a step, with interrupts and ticks between;
`walk` is the loop of `xEventGroupSetBits` over the waiters, one round a step.
`program` is what the tasks do. A task deletes the group only while every other call on it
sleeps on the list or was answered, as its documentation asks.
`xEventGroupSetBits` reads the bits once more after `xTaskResumeAll` for its
return value; that a task it woke deletes the group at that very moment is excluded.
`EventFlags` is the abstract group: each call takes effect in one step.

**StreamBuffers.** Writer and reader take no lock: each test, `memcpy`, move of
an index, and each of the sections of `sbSEND_COMPLETED` is a step of its own, and
either side may preempt the other or be an interrupt. Bytes are numbered modulo
`Numbers`, so that loss, doubling and change of order show. Creation and
deletion and the queries are left out.
`ByteStream` is the abstract buffer: a bounded sequence of bytes or messages.
With a trigger level above 1 and sends larger than what is free below
it, writer and reader can sleep on each other for ever; `NeverBothAsleep`
says so by its condition.

**Timers.** The daemon's loop is cut wherever another task, a callback or an
interrupt may come in: reading the next expiry, sampling the time, sleeping,
receiving a command, reloading, calling a callback. `owed` counts the callbacks a timer
should have had (history, bounded by `MaxOwed`), `remaining` the ticks to its next expiry; the code
knows neither. Assumed: the daemon has the highest priority and is held up at
most `MaxStall` ticks (by suspended scheduling); a period is at most
`TickRange - 1 - MaxStall`, since a stalled daemon cannot see a period that
wraps to its start. `xTimerStart` reads the tick count before it may wait for
room in the queue (`SendDelays`). `vTimerSetReloadMode` runs in a critical section while the
daemon changes `ucStatus` outside of one; the update is taken as atomic.
Endless commands can keep the daemon from expiries; `NeverLate` speaks of when it sleeps.

**Heap.** Addresses and sizes are bytes, the headers are 8; `vPortFree` is two steps
because it changes the header before it suspends the scheduler.
`MemoryPool` is the abstract heap: aligned, disjoint pieces inside the regions.

**CommandLine.** `USART1_DR` holds one character; one that comes while it is full is
lost, as with this receiver. Taking a character and editing the buffer
is one step, as nobody else looks at the buffer; the walk over the commands
takes one step a command, since a task may register one meanwhile. `shown` is what the
terminal displays behind the prompt, by what the task echoes. The memory for the words of a flash
command is never freed; `room` counts it down. With `flash` alone the code
compares a null pointer, which reads as an empty string here since
the vector table lies at address 0. A line of more than four words after `flash` writes
behind the four entries of `flash_sub_cmd_para` (`flash.c:585`, `flash.c:740-757`): a defect of the code,
whose outcome is undefined, and left out. So are a received character 0, which the code stores in the
line (`NUL` stands for the end of a string and for an empty receiver), and the
escape sequences of the cursor keys, which it stores character by character while the terminal moves its
cursor: `shown` holds for the keys of `Key`. `LineEditor` is the abstract editor, with words in place of the
buffer and the scan. What a sub command does is in `Flash`.

**Flash.** A step is one command the chip carries out. `cmd`, `need_erase`
and `accross_sector_flag` are kept as the code keeps them, since what they hold when
a call begins, or a round of its loop, matters. The chip clears bits only: a
byte programmed twice is `Mixed`. Bytes behind the caller's data are any byte.
Arguments that the checks refuse change nothing and are no step. The check of the length (`flash.c:179`) and the end of the
data in the sector (`flash.c:306`) are sums of `unsigned int`, and wrap: a length near 2^32, as
`flash write` makes of a negative one, passes. `Unsigned` is the width, scaled to four
chips; it is a multiple of the chip's size, as 2^32 is of 8 MB. To such a call the data is what
lies in memory behind its pointer.

## 3. Runs

Passing runs:

| Run | Instance and bounds | Shows |
|---|---|---|
| `tasks` | idle and two tasks; 2 priorities, 1 event list, `TickRange` 3, block times 1, 2 and for ever, 1 pended tick, no nested suspension, symmetry on the two tasks | the invariants of the scheduler, two action properties, the refinement of `Kernel`; 590 000 states |
| `tasks_live` | idle and two tasks, all of priority 0, one created late, no event list, `TickRange` 3 | every delay ends, every task gets its turn, a task that deleted itself is freed |
| `tasks_waits` | idle, one task that waits for notifications, one that waits on an unordered list; `TickRange` 3, no pended ticks, nobody resumes from an interrupt what was not suspended | event items keep their bits and are free for interrupts, no notification is slept through, the refinement of `Kernel` for these calls; 430 000 states |
| `queues` | three uses of a queue: two readers that also peek and a sender that also resets, 2 items, waiting for ever; two readers and an aborter, 1 item, waits of 0 and 2 ticks; two senders with waits of 2 ticks, under whom a third task resets the queue; `TickRange` 4 | no lost wake-up, none by a reset of one item, the lock always has its owner, no wait is shortened or begun anew; 700 000 states |
| `mutexes` | 4 priorities, 2 mutexes, waits of 0, 1 and 2 ticks (2 is `portMAX_DELAY`), symmetry on the mutexes; the value of the tick count, which no step reads, is left out of the states compared (`MCView`) | priorities lent while they are needed, and given back; no free mutex slept on; 1 775 000 states |
| `event_groups` | three programs of three tasks on three priorities: waiting in every way with timeouts and aborts; a meeting of three for ever; a group deleted and created again; `TickRange` 4 | nobody sleeps on set bits, every call takes effect at once, nobody passes a meeting alone, every meeting takes place |
| `stream_buffers` | a stream of 3 bytes with trigger level 2 and a message buffer of 4 cells between two tasks of one priority; the same stream with an interrupt as writer (and resets and trigger levels by the reader) and as reader; waits of 0, 1 and 2 ticks | no lost wake-up, no byte lost, doubled or out of order |
| `timers` | 2 timers, periods 1 and 2, `TickRange` 4, commands sent up to 1 tick late, a queue of 1, a daemon held up for 1 tick, 2 callbacks owed, symmetry on the timers | callbacks neither early nor slept past, the lists agree with what is active |
| `heap` | two regions, one not aligned, the second right behind the first; requests from 0 to the largest, two that overflow; 2 frees under way | blocks tile the regions, what fits is served, the refinement of `MemoryPool` |
| `flash` | 2 sectors of 2 pages of 2 bytes, addresses of any unsigned value (32), lengths 1, 3, 4, 6 and 31, with power loss, sector and chip erase | what is stored, what is damaged; 2 300 000 states |
| `command_line` | 2 letters, lines of up to 5 characters, `help`, `flash` with 2 sub commands and a third command registered at any time; memory for 2 words | a line runs what is shown, with its own words, or nothing |

Why the bounds are enough: with three tick values every wake time lies before,
at or after the wrap, and the count wraps again and again; two tasks of one
priority are the fewest that share time, change places in a ready list or be
due at the same tick, and with idle below them every choice of priority is met;
one event list is enough for a task is on one at most, and `Queues` and `Mutexes`
use two. One pended tick already makes `xTaskResumeAll` replay one that wakes
tasks. In the queue runs one more reader than a wake-up serves is the case in
which a wake-up can be lost; four tick values let a wait of two be resumed
before, at and after the wrap. Three priorities above idle are what an inversion
needs, two mutexes what giving back in another order, or waiting for one while
holding the other, needs. Two waiters behind each other
are what a walk over a list can get wrong. A ring of three bytes wraps at every
second send. Two timers share a list, pass each other and meet on one tick; four tick
values put a command, its expiry and its processing on either side of the
wrap. Two regions that touch are the one place where blocks must not be joined. In the flash two
pages and two sectors are the fewest with a first, a last and a next one, and the lengths are those of half
a page, a page and a half, a sector, a sector and a page, and one that wraps every sum it is in. Five
characters hold a command, its sub command and a parameter, and a sixth is too many.

The liveness run has one priority: a task of a higher one may take all the time, and
nothing is claimed then.

The states TLC compares leave out, by a `VIEW`, what no step reads again; each view says
what in its MC module.

Each property has a mutant, a plausible bug put into the model's translation of
the code, under which TLC finds the property violated (`PROJECT.json`,
"mutants"; the definitions commented "Mutant:").

### Where the code does otherwise than it says

Each of these configurations makes TLC find a behaviour of the code that a comment of the code
excludes. `flash_stale` is listed in `PROJECT.json` as a run; the others are run by hand.

* `FlashStale.cfg`: the static `accross_sector_flag` left set by a write over a sector's
  end makes the next call, within one sector, go on into the sector behind (`flash.c:336`).
* `FlashPages.cfg`: a write of several pages on an erased sector programs the pages up to
  the end of the sector, whatever its length, and returns 0 without going on to
  the next sector (`flash.c:287`); `flash.c:152` promises multi-page
  programming and `flash.c:158` "0:success".
* `FlashAcross.cfg`: in the second round of the loop the byte sent as the command is
  what `PAGE_PROGRAM` left in `cmd`; a tail on an empty page of the next sector is
  not programmed (`flash.c:231`), and the call returns 0.
* `FlashLength.cfg`: the length check adds two `unsigned int`s (`flash.c:179`); a length near 2^32
  wraps the sum, is not refused as "The data length is too long!" (`flash.c:178-181`), and
  the call erases and programs.
* `MutexYield.cfg`: `xQueueGenericSend` ignores the answer of
  `xTaskPriorityDisinherit` when a task waits for the mutex (`queue.c:949`, an
  `else if`). The giver of its last mutex falls back to its own priority and runs on
  although a ready task has a higher one, up to the next tick or switch.
  The comment at `tasks.c:4201-4208` says a switch should occur "whether a task is
  waiting on it or not".
* `MutexInversion.cfg`: a task that holds one mutex and waits for another has its place in the list
  of the latter by the priority lent to it when it began to wait. When that is taken back by a
  timeout (`tasks.c:4287` sets the value of the event item and leaves it where it is)
  it still gets the mutex before a waiter of higher priority, and runs below it: against
  `queue.c:1556`, "must be the highest priority task wanting to access the queue", and `queue.c:1705`.
* `QueueAbort.cfg`: `ucDelayAborted` set for a call that then succeeds makes a later
  call fail before its time; the comment at `tasks.c:5304-5306` describes a
  flag that belongs to the wait just entered.
* `TasksResume.cfg`: `prvTaskIsTaskSuspended` takes a task that waits for a notification for
  ever for a suspended one (`tasks.c:1795` asks the question);
  `xTaskResumeFromISR` with the scheduler suspended then puts it on `xPendingReadyList`, and a
  notification inserts the same item again, against `tasks.c:4926`.
* `EventGroupLeave.cfg`: a task whose `xEventGroupSync` times out leaves its bit in the group
  (`event_groups.c:277`), and the others meet without it; the example at
  `event_groups.h:680` says that all three must have come.
* `StreamReset.cfg`: `xStreamBufferReset` looks only for waiting tasks; a writer preempted
  between its copy and the move of the head brings discarded bytes back
  (`stream_buffer.c:510`, `stream_buffer.h:705`).
* `StreamTrigger.cfg`: `xStreamBufferSetTriggerLevel` wakes nobody, so that a reader may sleep with
  what the new level asks for in the buffer (`stream_buffer.c:585`, `stream_buffer.h:770`).
* `HeapStats.cfg`: `xNumberOfFreeBlocks` counts the end marker of each region but the last
  (`heap_5.c:555`, `portable.h:147`).
* `CommandParameters.cfg`: `cli.c:112` hands the command's name to
  `FreeRTOS_CLIProcessCommand` for the line, so that a command with a fixed number of
  parameters, as `FreeRTOS_CLI.h:46` has them, is always refused. Both commands of
  the repository take any number.

`StoredExactly` and `DamageConfined` therefore speak of the calls that none of
the four of the flash touches (`Plain`): those that fit the chip, within a page or a sector to be
rewritten, with no flag left over and no chip erase under way; any calls, those that wrap included, may
have come before them. `SyncMadeByAll` speaks of
tasks that only meet and wait for ever, and the resets and trigger levels in
`stream_buffers` are those of a reader whose writer is an interrupt.

## 4. Fairness

`FairSpec` of `Tasks`, used by `tasks_live` only:

* weak fairness of the masked loops (`KernelStep`): they run on the processor
  with nothing to stop them;
* strong fairness of SysTick and of PendSV: the timer is periodic and both stay
  pended in the hardware until the interrupts are unmasked. Strong, since every
  masked section takes the enabling away for a moment. SysTick pends once: the
  bound on pended ticks disables it while the scheduler is suspended, no longer;
* strong fairness of `xTaskResumeAll` and of the rest of a call begun: a task that runs
  finishes its call and resumes the scheduler it suspended (a rule of the API);
* strong fairness of the idle task's clean-up: it is what its loop does
  whenever it runs.

`EventGroupFairSpec` of `EventGroups`, needed by `RendezvousHappens` only: the tick goes on,
a call that a task is in goes on when the task runs, every
ready task gets the processor again and again, and each task comes back to the meeting.
The second and third are what `TimeSliced` shows of tasks of one priority; the tasks that
meet block, so that none keeps the processor from the others. The last is the
program of the example in `event_groups.h`. The passing runs of the other modules claim
no liveness.

Nothing else is assumed of what the application's tasks call, and nothing of the
other interrupts.

## 5. Proofs

Every theorem holds for any number of tasks, priorities, lists and bits, any width of the tick
count and any bound on the application, from the assumptions on the constants
that the modules state (`KernelAssumption`, `TasksAssumption`, `QueueAssumption`,
`MutexAssumption`, `EventGroupsAssumption`, `StreamBuffersAssumption`, `TimersAssumption`,
`FlashAssumption`): finitely many tasks, priorities that exist, block times and periods that fit the count, which list is which, a chip
of whole sectors of whole pages, lengths and positions in the data that are unsigned numbers. TLC evaluates them in every run.

| Module | Theorem | States |
|---|---|---|
| `TasksProof` | `WakesOnTime` | `Spec => []WakeOnTime`: wake times denote the right tick over any number of wraps |
| | `UnblocksNotLate` | `Spec => []UnblockTimeNotLate`: the cached unblock time is never late |
| | `WakesNotEarly` | `Spec => WakeNotEarly` (action property) |
| | `TypeCorrect` | `Spec => []TypeOK` |
| | `NothingStaysPending` | `Spec => []PendedWorkDrained` |
| | `ReadyTasksOnLists` | `Spec => []ReadyLists` |
| | `HighestRuns` | `Spec => []HighestPriorityRuns` |
| | `SuspensionFreezes` | `Spec => SuspendedListsFrozen` (action property) |
| | `WaitersOnOneList` | `Spec => []WaitersBlocked`, if no task that waits for notifications is resumed |
| | `EventItemsLeftAlone` | `Spec => []EventItemsKept`, under the same condition |
| | `NotifiedWakes` | `Spec => []NotifiedIsAwake`, without it |
| `QueuesProof` | `WakeUpsNotLost` | `QueueSpec => []NobodyStranded` |
| | `QueueIsConsistent` | `QueueSpec => []QueueConsistent` |
| | `SleepsAsLongAsAsked` | `QueueSpec => []SleepsForTheRest` |
| | `FailsInTime` | `QueueSpec => NoEarlyFailure` (action property) |
| `MutexesProof` | `LentPrioritiesGivenBack` | `MutexSpec => []PriorityGivenBack` |
| | `FreeMutexesOffered` | `MutexSpec => []MutexConsistent` |
| | `LentUntilGiven` | `MutexSpec => LentWhileNeeded` (action property) |
| `EventsAndStreamsProof` | `EventsNotMissed` | `EventGroupSpec => []EventGroupConsistent` |
| | `FlagsImplemented` | `EventGroupSpec => ImplementsFlags`: the refinement of `EventFlags` |
| | `StreamNotStranded` | `StreamSpec => []StreamConsistent`, if the uses are safe (below) |
| | `StreamIsFIFO` | `StreamSpec /\ ~IsMessageBuffer => ImplementsStream`: the refinement of `ByteStream`, under the same condition |
| `TimersProof` | `CallbacksNotEarly` | `Spec => []NeverEarly` |
| | `DaemonNotLate` | `Spec => []NeverLate` |
| | `ListsConsistent` | `Spec => []TimersConsistent` |
| | `PlacementIsExact` | the comparisons of `prvInsertTimerInActiveList` (`timers.c:716-757`) process a timer at once exactly if its period has gone by, and otherwise put it on the list on which it expires in time |
| `FlashProof` | `DamageIsConfined` | `Spec => []FlashConsistent` |
| | `PlainCallsStore` | `Spec => StoredExactly` (action property) |
| | `OnlyErasedIsProgrammed` | `Spec => ProgramsErased` (action property) |

`ListsProof` has what all of them need of sequences: what the elements of a list are after each
operation, that it holds nothing twice, where the cursor is, the order of an insertion by
priority. Induction over data is out of the prover's reach (section below); where a list is
built by recursion the facts come from a least counterexample, bounded by the list's length.
`KernelProof` says the same of each step of `Kernel`: which task enters or leaves which list of
waiters, and that who is in one sleeps, on that one only (`KernelInv`). The modules over
`Kernel` cite it and never look at lists again.

Each inductive invariant was checked with TLC before it was proved. It has a
lemma `...Init`, a lemma `...Step` with one step per action, and its theorems combine the two.

### The scheduler

*Time.* `WakeOnTime` is not inductive: a task could be overdue when the tick moves on.
That it is not follows from the loop that empties the delayed list having run, and
it has run since `xNextTaskUnblockTime` was not late. `TimeInv` joins the two
with the types of the variables they speak of. `AdvanceKeepsTime` is the heart:
at a wrap the delayed list is empty since its tasks would have to wake beyond
the largest tick, and the overflow list takes its place with the same values.

*Types and pending work.* The type of the current task rests on the cursor of each ready list
lying within it (`ListInv`): otherwise `vTaskSwitchContext` might select something
that is no task. `DrainInv` says how far the masked loops of `xTaskResumeAll` are: no task pends
once ticks are replayed, and a tick handled by SysTick finds nothing pending. `TypeInv` is
their conjunction with `FlagType`.

*Ready lists.* `ReadyLists` is inductive relative to `TypeInv`: a step leaves the lists alone, takes
one task out, puts one in or moves a cursor, and there is a lemma for each of the four.

*Who runs.* `TopInv`: when no switch is due, no ready task is above the running one. "Due"
collects the pended switch, `xYieldPending`, what a tick under way has found, and a
task on its way to yield. `RunnerInv` says where a running task may be that is no longer ready.
`HighestPriorityRuns` follows, since nothing is due where it speaks.

*Waits.* `WaitInv` says of each task that it is in one list of waiters at most and asleep there,
that one that waits for a notification is in none and does not pend, and that the event item
of an unordered list is marked in use. It does not hold if a task that waits for a
notification may be resumed from an interrupt: the code takes it for suspended, and
`TasksResume.cfg` shows how it comes to be on `xPendingReadyList` twice. The theorems therefore
assume `Resumable \cap Notifiable = {}`, as `tasks_waits` does. `AwakeInv`, for
`NotifiedIsAwake`, needs no such condition.

### Queues

`CallInv`: only the running task is in the locked part of a call, the two halves of the lock are held
exactly there, and who sleeps is in the list of what its call waits for. `AccountInv` is why no
wake-up is lost, as a balance for each list while somebody sleeps in it: the items (or the room)
are no more than the tasks on their way to look, plus the wake-ups that the lock counter owes,
unless the counter owes one to every task (`prvIncrementQueueTxLock` stops there). The
other half is a task between its test and its sleep, `PlaceOK`: what has come since is in the lock
counter. `NobodyStranded` is this balance of an unlocked queue. `TimeInv` does the same for time: what
a call has waited, what is left of it, and what has passed since its `TimeOut_t` was set add up
to what was asked, across a wrap of the count (`xNumOfOverflows`).

### Mutexes

`HoldInv`: `uxMutexesHeld` is the number of mutexes held, so that the last one given back is noticed;
no task runs below its own priority and one without a mutex runs at it. `OfferInv`: a free mutex
with waiters has been offered to a task that is awake, past its sleep and not able to fail. `CallInv` has the places.

### Event groups

The invariant is `Inv`, in four parts. `CallsInv`: who runs, how often the scheduler is suspended
at each step, and that an event item holds what its task's call waits for. `WalkInv`: during
the walk the bits are those the walk shows, everybody it has released was due, and `uxBitsToClear` is
what the released asked to have cleared, no more; those still to be looked at are in the list.
`TestInv`: who sleeps and was looked at has no reason to be awake, judged by the bits shown and not
by those that are left. `LeaveInv`: nobody is in a call on a group that is being deleted or is gone.

`FlagsImplemented` goes through the actions with it: the end of a walk is `Set`,
for those it has released still count as waiting until then; the test of `xEventGroupSync`
is `Arrive`, which comprises the nested call (`ArriveFlags`, for its three outcomes); the end of a
deletion is `Delete`; a tick or an abort is `GiveUp`; the other steps are one step of the
abstract group or invisible. `WalkServes` relates the two: those the walk released are those
whom the bits it shows serve.

### Stream buffers

The invariant is `StreamInv`, in four parts. `ShapeInv` has the types. `SchedulerInv`: the scheduler is
suspended exactly while a side notifies the other, so that nobody pends at any other step. `RingInv`
is what makes two sides without a lock safe: what the writer has measured is still there when it copies, since the
reader only makes more, and the reverse; what has been copied lies behind the head, or is what lies at the
tail, until the index is moved. For messages the content is cut into whole messages (`Framed`:
the places where they begin, a set, where the code walks from one to the next). Moving an index by the
size of the first message, or of a new last one, keeps it so (`FramedFirst`, `FramedLast`).
`WaitsInv` is why no notification falls between test and sleep: a side is noted from its test on, until it
has been notified; before it sleeps it is noted or its notification is there already (`WaitOK`); and who is noted
is noted for something that is not there yet, unless the other side has moved its index and is
on its way to look for the note (`ReaderTold`, `WriterTold`). `StreamConsistent` follows, the last of its
parts since bytes and spaces together are all cells but one.

Both theorems assume `SafeUses`: a buffer is reset by a reader whose writer is an
interrupt, and the trigger level is set by the reader. Without the first, `StreamReset.cfg` shows discarded bytes come
back, without the second, `StreamTrigger.cfg` shows a reader asleep on what it asked for;
neither is a rule the code enforces. All uses of `stream_buffers` are safe ones.

`StreamIsFIFO` maps the move of the head to `Send`, that of the tail to `Receive`; the cells in between
are the content, and copying behind the head does not touch them (`StoredCells`).

### Software timers

The items of the two lists hold wrapped tick values and what is owed to a timer is counted in ticks,
so the invariant `TimersInv` needs a time that both can be compared with. `xNow` is a clock that does
not wrap within a turn of the count: `xLastTime` plus what has passed since, and one turn more between
the daemon's seeing that the count has wrapped and its exchanging the lists. An item of the current list stands for the
tick it says, one of the overflow list for the tick a turn later (`ExpiresAt`). `TimerDue` is the heart:
a listed timer expires at `xNow + DueIn`, where `DueIn` is what the history variables `remaining` and `owed` say.
It is this equation that breaks if a comparison of `prvInsertTimerInActiveList` is wrong,
and `PlacementIsExact` with `PeriodsMissed` (the rounds of `prvReloadTimer`) shows that it is not.
`ClockInv` bounds how far the clock may run ahead of what the daemon has seen: the count cannot
pass `xLastTime` unseen while the daemon is held up at most `MaxStall` ticks and periods leave room for
that. `QueueInv` says of each command how long it has been under way, `SleepInv` that the
daemon wakes no later than the first expiry or the wrap. `NeverLate` is `TimerDue`, `ListInv`
and `SleepInv` put together when the daemon sleeps.

### Flash

The bulk is arithmetic of sectors and pages, for any sizes: which sector and page an address is in, that
a piece of a call stays in one page or sector, that the address of a page is a multiple of its size. `FlashInv` says on top
of the types: where each loop is in its sector (`CallInv`); that whatever a step is about to program
is erased (`BlankInv`), either because the driver has just looked or has erased the sector itself, and
`cmd` says which, whatever the two static flags hold; and for a plain call how far it has got
(`PlainInv`): everything but the sector in work is as before, and `flash_buffer` holds what is wanted
of that one. That a plain call fits the chip is what keeps its sums from wrapping; `BlankInv` needs nothing
of the kind. `ProgramsErased` follows from `BlankInv`, the other two from `PlainInv`.

### What stays with TLC

* Liveness (`tasks_live`, `RendezvousHappens`): fairness and `ENABLED` are out of the prover's reach.
* `SyncMadeByAll`: it holds for the programs of the run, where all who take part set different
  bits and wait for all of them; for arbitrary programs it is not a theorem.
* `ImplementsStream` of message buffers: the messages in the ring are a sequence computed by recursion
  over its bytes, and that a send appends to it is an induction over them. That the ring holds
  whole messages is proved (`Framed`), that they come out in order is checked.
* The refinement of `Kernel` by `Tasks`: not attempted. `MemoryPool` by `Heap` and `LineEditor` by
  `CommandLine`, and the invariants of these two: they compute with recursion over data.

## 6. What the models leave out

* In all: stacks, names, trace hooks, statistics, handles and their checks.
* `Tasks`: the values of notifications, `xTaskDelayUntil` (not built), the queries.
  The memory of a TCB deleted by another task is freed at once.
* `Queues`: one queue; what the items are and where; overwrite, delete, registry.
  Tasks are neither suspended, deleted nor given other priorities in a call. The lock counters do
  not wrap: an `int8_t` would with more than 127 tasks.
* `Mutexes`: deletion and suspension of a holder, `vTaskPrioritySet` on one; aborted waits.
* `Flash`: initialisation, partitions, the SPI transfers, commands refused by the
  driver, more than one user.
* `EventGroups`: the calls from interrupts, which need `xTimerPendFunctionCall` (not built).
* `StreamBuffers`: creation, deletion, the queries; more than one writer or reader, which the
  documentation excludes.
* `Timers`: pended function calls (not built), statically allocated timers (not built).
* `Heap`: the hook for failed requests; the hand-over between tasks, since all of it runs with the
  scheduler suspended.
* `CommandLine`: what commands print, `FreeRTOS_CLIGetParameter` (not called), lines of more than
  four words after `flash`, received characters 0 and escape sequences.

## 7. Plan

Modelled so far: everything the first plan named but these, in the order in which they
would come:

1. `QueueStorage`: the ring buffer, with send to front, peek and overwrite, shown to
   implement a sequence; then queue contents in order under two ends.
2. `ListLinks`: `list.c` with its links, implementing `Lists`.
3. Suspension, deletion and changes of priority of tasks inside calls on queues and mutexes.
4. The flash driver's partitions and start-up.

Proofs: the refinement of `Kernel` by `Tasks`, the calls first
and the masked loops last; for `Heap` that the blocks tile the regions.

## 8. Running

    tlc -workers 2 -config Tasks.cfg MCTasks.tla
    tlapm TasksProof.tla
    tlapm QueuesProof.tla           # and so on: a module of proofs at a time

Each run takes at most about four minutes. The proofs take, from nothing, about seven minutes for
`TasksProof`, a quarter of an hour for `EventsAndStreamsProof`, four minutes for `QueuesProof` and
`TimersProof` each, two for `MutexesProof`, and less for the others.
