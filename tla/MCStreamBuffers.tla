--------------------------- MODULE MCStreamBuffers ---------------------------
(* Instances of StreamBuffers for TLC. *)
EXTENDS StreamBuffers

CONSTANTS idle, writer, reader

MCTask == {idle, writer, reader}
MCEqual == (idle :> 0) @@ (writer :> 1) @@ (reader :> 1)

\* Two tasks share a stream, or messages; or one side is an interrupt.
StreamUse ==
  [writer |-> writer, reader |-> reader, isMessageBuffer |-> FALSE, length |-> 4, trigger |-> 2,
   setter |-> NULL, triggers |-> {}, resets |-> FALSE, nudges |-> FALSE,
   sendSizes |-> {1, 2}, receiveSizes |-> {1, 3}, sendTimes |-> {0, 1, 2}, receiveTimes |-> {0, 1, 2}]
MessageUse ==
  [StreamUse EXCEPT !.isMessageBuffer = TRUE, !.length = 5, !.trigger = 1,
                    !.sendSizes = {1, 2, 4}, !.receiveSizes = {1, 2},
                    !.sendTimes = {1, 2}, !.receiveTimes = {0, 1}]
FromISRUse ==
  [StreamUse EXCEPT !.writer = NULL, !.resets = TRUE, !.nudges = TRUE, !.setter = reader,
                    !.triggers = {0, 3}]
ToISRUse == [StreamUse EXCEPT !.reader = NULL, !.nudges = TRUE]

MCUses     == {StreamUse, MessageUse, FromISRUse, ToISRUse}
\* A reader that resets the buffer, or a writer that sets the trigger level,
\* while the other side is at work.
MCResets   == {[StreamUse EXCEPT !.resets = TRUE]}
MCTriggers == {[StreamUse EXCEPT !.setter = writer, !.triggers = {1, 3}]}

\* States that differ only in what nobody reads again, the cells outside the
\* ring's content and the last value received, or in the numbers the bytes of a
\* stream began with, are one.
Since(bytes) == [i \in DOMAIN bytes |-> (bytes[i] + Numbers - next) % Numbers]
MCView ==
  <<use, pxCurrentTCB, state, left, ucNotifyState, pending, uxSchedulerSuspended, switchDue,
    xHead, xTail, xTriggerLevelBytes, waiterVars, [tx EXCEPT !.data = Len(@)],
    [rx EXCEPT !.data = Since(@)],
    IF IsMessageBuffer THEN [i \in DOMAIN Content |-> Since(Content[i])] ELSE Since(Content)>>
=============================================================================
