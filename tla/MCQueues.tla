------------------------------ MODULE MCQueues ------------------------------
(* Instances of Queues for TLC. *)
EXTENDS Queues

CONSTANTS idle, a, b, c

MCTask == {idle, a, b, c}
MCPriorities == [t \in MCTask |-> IF t = idle THEN 0 ELSE 1]
MCEventList == {ToSend, ToReceive}

\* A sender, which also resets the queue, and two readers, which also peek; all
\* wait for ever.
Readers ==
  [length |-> 2, senders |-> {a}, receivers |-> {b, c}, peekers |-> {b, c}, resetters |-> {a},
   aborters |-> {}, waitTimes |-> [t \in Task |-> {portMAX_DELAY}]]
\* Two readers, of which one waits for two ticks and the other never, so that it
\* may take what the first was woken for; a third task aborts the wait.  Two
\* senders that wait for two ticks and take each other's room, while a third
\* task resets the queue.
TimedReads ==
  [Readers EXCEPT !.length = 1, !.senders = {}, !.receivers = {a, b}, !.peekers = {a},
                  !.resetters = {}, !.aborters = {c},
                  !.waitTimes = (a :> {0, 2}) @@ [t \in Task |-> {0}]]
TimedSends == [TimedReads EXCEPT !.senders = {a, b}, !.receivers = {}, !.peekers = {},
                                !.resetters = {c}, !.aborters = {},
                                !.waitTimes = [t \in Task |-> {2}]]
\* A sender and a reader that wait for two ticks or for ever; the sender aborts
\* the reader's wait.
Aborts ==
  [Readers EXCEPT !.length = 1, !.receivers = {b}, !.peekers = {}, !.resetters = {},
                  !.aborters = {a}, !.waitTimes = [t \in Task |-> {2, portMAX_DELAY}]]

MCUses   == {Readers, TimedReads, TimedSends}
MCAborts == {Aborts}

\* The time matters only where a call may time out, and its TimeOut_t only to
\* such a call that has noted it.
Timed(t) == step[t] \notin {"none", "first"} /\ requested[t] # portMAX_DELAY
MCView ==
  <<use, pxCurrentTCB, state, left, ucDelayAborted, xEventLists, pending, uxSchedulerSuspended,
    switchDue, op, step, expired, xTicksToWait, requested, waited, aborted, storeVars, stranding,
    [t \in {u \in Task : Timed(u)} |-> xTimeOut[t]],
    IF \A t \in Task : use.waitTimes[t] \subseteq {portMAX_DELAY} THEN 0 ELSE xTickCount>>
=============================================================================
