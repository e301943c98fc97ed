--------------------------- MODULE StreamBuffers ---------------------------
(***************************************************************************)
(* A stream buffer, or a message buffer, of kernel/FreeRTOS/stream_buffer.c *)
(* over the scheduler Kernel: one writer and one reader, each a task or an *)
(* interrupt, that share the ring pucBuffer without a lock.  Each side     *)
(* moves one of the two indices; a task that finds no space, or no data,   *)
(* notes itself in the buffer and waits for a task notification, which the *)
(* other side sends it.                                                    *)
(*                                                                         *)
(* The bytes are numbered by the writer.  Where a message buffer stores    *)
(* the length of a message, one cell of the ring stands for the            *)
(* sbBYTES_TO_STORE_MESSAGE_LENGTH of the code.                            *)
(***************************************************************************)
EXTENDS Kernel

CONSTANTS
  NULL,
  Uses,      \* bound: the buffers created, and who calls what on them
  Numbers    \* bytes are numbered modulo this

\* Writer and reader are two tasks, or a task and an interrupt.
ASSUME StreamBuffersAssumption ==
  /\ NULL \notin Task /\ Numbers \in Nat
  /\ \A u \in Uses :
       /\ {u.writer, u.reader, u.setter} \subseteq Task \cup {NULL}
       /\ u.writer = u.reader => u.writer = NULL
       /\ {u.writer, u.reader} \cap Task \subseteq Notifiable
       /\ {u.isMessageBuffer, u.resets, u.nudges} \subseteq BOOLEAN
       /\ u.length \in 1 .. Numbers - 1 /\ u.trigger \in 1 .. u.length - 1
       /\ u.triggers \subseteq Nat
       /\ u.sendTimes \cup u.receiveTimes \subseteq 0 .. portMAX_DELAY
       /\ u.sendSizes \cup u.receiveSizes \subseteq 1 .. Numbers

VARIABLES
  use,          \* what never changes: the buffer as it was created, its callers
  xHead, xTail, pucBuffer, xTriggerLevelBytes,
  xTaskWaitingToReceive, xTaskWaitingToSend,
  tx,           \* the writer's call: step, xDataLengthBytes, xTicksToWait, xSpace; ticks since xTimeOut
  rx,           \* the reader's: step, xBufferLengthBytes, xTicksToWait, xBytesAvailable, pvRxData
  next,         \* the number of the next byte to send
  received      \* what the last receive returned

\* "check": the critical section; "wait", "woken": the two of xTaskNotifyWait;
\* "clear": xTaskWaitingTo... = NULL; "timeout": xTaskCheckForTimeOut;
\* "measure": the space or the bytes; "copy": memcpy; "move": of the index;
\* "trigger": the trigger level; "lock", "notify", "unlock": sbSEND_COMPLETED
\* and sbRECEIVE_COMPLETED.
StreamSteps == {"none", "check", "wait", "woken", "clear", "timeout", "measure", "copy", "move",
          "trigger", "lock", "notify", "unlock"}

Idling == [step |-> "none", size |-> 0, ticks |-> 0, elapsed |-> 0, amount |-> 0, data |-> <<>>]

\* Tasks, or NULL when an interrupt writes, or reads.
Writer == use.writer
Reader == use.reader
IsMessageBuffer == use.isMessageBuffer      \* ucFlags & sbFLAGS_IS_MESSAGE_BUFFER
xLength == use.length

bufferVars == <<xHead, xTail, pucBuffer, xTriggerLevelBytes>>
waiterVars == <<xTaskWaitingToReceive, xTaskWaitingToSend>>
dataVars   == <<next, received>>
streamBufferVars == <<use, kernelVars, bufferVars, waiterVars, tx, rx, dataVars>>

\* prvInitialiseNewStreamBuffer
StreamInit ==
  /\ Init /\ use \in Uses
  /\ xHead = 0 /\ xTail = 0 /\ pucBuffer = [i \in 0 .. xLength - 1 |-> 0]
  /\ xTriggerLevelBytes = use.trigger
  /\ xTaskWaitingToReceive = NULL /\ xTaskWaitingToSend = NULL
  /\ tx = Idling /\ rx = Idling /\ next = 0 /\ received = <<>>

-----------------------------------------------------------------------------
(* The ring *)

xBytesToStoreMessageLength == IF IsMessageBuffer THEN 1 ELSE 0

prvBytesInBuffer ==
  LET xCount == xLength + xHead - xTail IN IF xCount >= xLength THEN xCount - xLength ELSE xCount

xStreamBufferSpacesAvailable ==
  LET xSpace == xLength + xTail - xHead - 1 IN IF xSpace >= xLength THEN xSpace - xLength ELSE xSpace

xMaxReportedSpace == xLength - 1

\* A message that never fits is not waited for; a stream is cut to what fits.
xRequiredSpace(size) ==
  IF IsMessageBuffer THEN size + xBytesToStoreMessageLength ELSE Min({size, xMaxReportedSpace})

Advance(i, n) == IF i + n >= xLength THEN i + n - xLength ELSE i + n

\* prvWriteBytesToBuffer, prvReadBytesFromBuffer: two memcpy around the end.
Stored(bytes) ==
  [i \in 0 .. xLength - 1 |->
     LET k == (i + xLength - xHead) % xLength
     IN  IF k < Len(bytes) THEN bytes[k + 1] ELSE pucBuffer[i]]
BytesFrom(i, n) == [k \in 1 .. n |-> pucBuffer[(i + k - 1) % xLength]]

Numbered(k) == [i \in 1 .. k |-> (next + i - 1) % Numbers]

\* Mutant: the room for the length of the message is forgotten.
WithoutLength(size, space) == IF IsMessageBuffer /\ space < size THEN 0 ELSE Min({size, space})
\* prvWriteMessageToBuffer: how many bytes of data go in, given the space.
Accepted(size, space) ==
  IF IsMessageBuffer THEN (IF space >= xRequiredSpace(size) THEN size ELSE 0)
                     ELSE Min({size, space})

\* The cells that n accepted bytes take: a message with its length in front.
Cells(n) == IF IsMessageBuffer THEN <<n>> \o Numbered(n) ELSE Numbered(n)

\* prvReadMessageFromBuffer: what is received into room for size bytes.
Taken(size, available) ==
  LET length == IF IsMessageBuffer THEN pucBuffer[xTail] ELSE size
      count  == Min({IF length > size THEN 0 ELSE length, available - xBytesToStoreMessageLength})
  IN  BytesFrom((xTail + xBytesToStoreMessageLength) % xLength, count)

-----------------------------------------------------------------------------
(* xStreamBufferSend *)

WriterAt(s) == Writer # NULL /\ AtCall(Writer) /\ tx.step = s
               /\ (switchDue => uxSchedulerSuspended > 0)
ReaderAt(s) == Reader # NULL /\ AtCall(Reader) /\ rx.step = s
               /\ (switchDue => uxSchedulerSuspended > 0)

TxGoto(s) == tx' = [tx EXCEPT !.step = s]
RxGoto(s) == rx' = [rx EXCEPT !.step = s]

xStreamBufferSend(n, ticks) ==
  LET waits == ticks > 0 /\ (IsMessageBuffer => xRequiredSpace(n) <= xMaxReportedSpace)
  IN  /\ WriterAt("none")
      /\ tx' = [Idling EXCEPT !.step = IF waits THEN "check" ELSE "measure", !.size = n,
                              !.ticks = IF waits THEN ticks ELSE 0]
      /\ UNCHANGED <<use, kernelVars, bufferVars, waiterVars, rx, dataVars>>

\* xTaskNotifyStateClear(NULL)
ClearNotification(t) == IF ucNotifyState[t] = "received" THEN NotifyStateClear(t, t)
                                                          ELSE UNCHANGED kernelVars

SendCheck ==
  /\ WriterAt("check")
  /\ IF xStreamBufferSpacesAvailable < xRequiredSpace(tx.size)
       THEN /\ ClearNotification(Writer)
            /\ xTaskWaitingToSend' = Writer
            /\ tx' = [tx EXCEPT !.amount = xStreamBufferSpacesAvailable, !.step = "wait"]
       ELSE /\ tx' = [tx EXCEPT !.amount = xStreamBufferSpacesAvailable, !.step = "copy"]
            /\ UNCHANGED <<kernelVars, xTaskWaitingToSend>>
  /\ UNCHANGED <<use, bufferVars, xTaskWaitingToReceive, rx, dataVars>>

\* xTaskNotifyWait: it sleeps unless it was notified already.
NotifyWait(t, ticks) == IF ucNotifyState[t] = "received" THEN UNCHANGED kernelVars
                                                          ELSE NotifyBlock(t, ticks)

SendWait ==
  /\ WriterAt("wait")
  /\ NotifyWait(Writer, tx.ticks)
  /\ TxGoto("woken")
  /\ UNCHANGED <<use, bufferVars, waiterVars, rx, dataVars>>

SendWoken ==
  /\ WriterAt("woken")
  /\ SetNotifyState(Writer, "notWaiting")
  /\ TxGoto("clear")
  /\ UNCHANGED <<use, bufferVars, waiterVars, rx, dataVars>>

SendClear ==
  /\ WriterAt("clear")
  /\ xTaskWaitingToSend' = NULL
  /\ TxGoto("timeout")
  /\ UNCHANGED <<use, kernelVars, bufferVars, xTaskWaitingToReceive, rx, dataVars>>

\* xTaskCheckForTimeOut: what is left of the time; none is up for portMAX_DELAY.
TimeLeft == IF tx.ticks = portMAX_DELAY THEN portMAX_DELAY ELSE tx.ticks - tx.elapsed

\* A space measured in vain before the last wait is used as it is.
SendTimeOut ==
  /\ WriterAt("timeout")
  /\ tx' = [tx EXCEPT !.ticks = TimeLeft, !.elapsed = 0,
                      !.step = IF TimeLeft > 0 THEN "check"
                               ELSE IF tx.amount = 0 THEN "measure" ELSE "copy"]
  /\ UNCHANGED <<use, kernelVars, bufferVars, waiterVars, rx, dataVars>>

SendMeasure ==
  /\ WriterAt("measure")
  /\ tx' = [tx EXCEPT !.amount = xStreamBufferSpacesAvailable, !.step = "copy"]
  /\ UNCHANGED <<use, kernelVars, bufferVars, waiterVars, rx, dataVars>>

SendCopy ==
  LET n == Accepted(tx.size, tx.amount)
  IN  /\ WriterAt("copy")
      /\ IF n = 0
           THEN tx' = Idling /\ UNCHANGED pucBuffer
           ELSE /\ pucBuffer' = Stored(Cells(n))
                /\ tx' = [tx EXCEPT !.data = Numbered(n), !.step = "move",
                                    !.amount = Advance(xHead, Len(Cells(n)))]
      /\ UNCHANGED <<use, kernelVars, xHead, xTail, xTriggerLevelBytes, waiterVars, rx, dataVars>>

SendMove ==
  /\ WriterAt("move")
  /\ xHead' = tx.amount
  /\ next' = (next + Len(tx.data)) % Numbers
  /\ TxGoto("trigger")
  /\ UNCHANGED <<use, kernelVars, xTail, pucBuffer, xTriggerLevelBytes, waiterVars, rx, received>>

TriggerReached(bytes) == bytes >= xTriggerLevelBytes

SendTrigger ==
  /\ WriterAt("trigger")
  /\ IF TriggerReached(prvBytesInBuffer) THEN TxGoto("lock") ELSE tx' = Idling
  /\ UNCHANGED <<use, kernelVars, bufferVars, waiterVars, rx, dataVars>>

SendLock ==
  /\ WriterAt("lock")
  /\ SuspendAll(Writer)
  /\ TxGoto("notify")
  /\ UNCHANGED <<use, bufferVars, waiterVars, rx, dataVars>>

Sleeping(t) == t # NULL /\ state[t] \in {"blocked", "suspended"}

\* Mutant: a task that is noted but does not sleep yet is not notified.
ToldIfAsleep(waiter) == Sleeping(waiter)
Told(waiter) == waiter # NULL

\* xTaskNotify with eNoAction, if anyone waits.
NotifyWaiter(t, waiter) == IF Told(waiter) THEN Notify(t, waiter) ELSE UNCHANGED kernelVars

SendNotify ==
  /\ WriterAt("notify")
  /\ NotifyWaiter(Writer, xTaskWaitingToReceive)
  /\ xTaskWaitingToReceive' = NULL
  /\ TxGoto("unlock")
  /\ UNCHANGED <<use, bufferVars, xTaskWaitingToSend, rx, dataVars>>

SendUnlock ==
  /\ WriterAt("unlock")
  /\ ResumeAll(Writer)
  /\ tx' = Idling
  /\ UNCHANGED <<use, bufferVars, waiterVars, rx, dataVars>>

-----------------------------------------------------------------------------
(* xStreamBufferReceive *)

xStreamBufferReceive(n, ticks) ==
  /\ ReaderAt("none")
  /\ rx' = [Idling EXCEPT !.step = IF ticks > 0 THEN "check" ELSE "measure", !.size = n,
                          !.ticks = ticks]
  /\ UNCHANGED <<use, kernelVars, bufferVars, waiterVars, tx, dataVars>>

NothingToRead == prvBytesInBuffer <= xBytesToStoreMessageLength

ReceiveCheck ==
  /\ ReaderAt("check")
  /\ IF NothingToRead
       THEN /\ ClearNotification(Reader)
            /\ xTaskWaitingToReceive' = Reader
            /\ RxGoto("wait")
       ELSE /\ rx' = [rx EXCEPT !.amount = prvBytesInBuffer, !.step = "copy"]
            /\ UNCHANGED <<kernelVars, xTaskWaitingToReceive>>
  /\ UNCHANGED <<use, bufferVars, xTaskWaitingToSend, tx, dataVars>>

ReceiveWait ==
  /\ ReaderAt("wait")
  /\ NotifyWait(Reader, rx.ticks)
  /\ RxGoto("woken")
  /\ UNCHANGED <<use, bufferVars, waiterVars, tx, dataVars>>

ReceiveWoken ==
  /\ ReaderAt("woken")
  /\ SetNotifyState(Reader, "notWaiting")
  /\ RxGoto("clear")
  /\ UNCHANGED <<use, bufferVars, waiterVars, tx, dataVars>>

ReceiveClear ==
  /\ ReaderAt("clear")
  /\ xTaskWaitingToReceive' = NULL
  /\ RxGoto("measure")
  /\ UNCHANGED <<use, kernelVars, bufferVars, xTaskWaitingToSend, tx, dataVars>>

\* It waits once: what is there now is what it gets.
ReceiveMeasure ==
  /\ ReaderAt("measure")
  /\ rx' = IF NothingToRead THEN Idling
           ELSE [rx EXCEPT !.amount = prvBytesInBuffer, !.step = "copy"]
  /\ UNCHANGED <<use, kernelVars, bufferVars, waiterVars, tx, dataVars>>

ReceiveCopy ==
  /\ ReaderAt("copy")
  /\ rx' = IF Taken(rx.size, rx.amount) = <<>> THEN Idling
           ELSE [rx EXCEPT !.data = Taken(rx.size, rx.amount), !.step = "move"]
  /\ UNCHANGED <<use, kernelVars, bufferVars, waiterVars, tx, dataVars>>

ReceiveMove ==
  /\ ReaderAt("move")
  /\ xTail' = Advance(xTail, Len(rx.data) + xBytesToStoreMessageLength)
  /\ received' = rx.data
  /\ RxGoto("lock")
  /\ UNCHANGED <<use, kernelVars, xHead, pucBuffer, xTriggerLevelBytes, waiterVars, tx, next>>

ReceiveLock ==
  /\ ReaderAt("lock")
  /\ SuspendAll(Reader)
  /\ RxGoto("notify")
  /\ UNCHANGED <<use, bufferVars, waiterVars, tx, dataVars>>

ReceiveNotify ==
  /\ ReaderAt("notify")
  /\ NotifyWaiter(Reader, xTaskWaitingToSend)
  /\ xTaskWaitingToSend' = NULL
  /\ RxGoto("unlock")
  /\ UNCHANGED <<use, bufferVars, xTaskWaitingToReceive, tx, dataVars>>

ReceiveUnlock ==
  /\ ReaderAt("unlock")
  /\ ResumeAll(Reader)
  /\ rx' = Idling
  /\ UNCHANGED <<use, bufferVars, waiterVars, tx, dataVars>>

-----------------------------------------------------------------------------
(* From interrupts: in one go *)

NotifyWaiterFromISR(waiter) == IF Told(waiter) THEN NotifyFromISR(waiter) ELSE UNCHANGED kernelVars

xStreamBufferSendFromISR(n) ==
  LET k == Accepted(n, xStreamBufferSpacesAvailable)
      cells == Cells(k)
      bytes == prvBytesInBuffer + Len(cells)
  IN  /\ Writer = NULL /\ k > 0
      /\ pucBuffer' = Stored(cells)
      /\ xHead' = Advance(xHead, Len(cells))
      /\ next' = (next + k) % Numbers
      /\ IF TriggerReached(bytes)
           THEN NotifyWaiterFromISR(xTaskWaitingToReceive) /\ xTaskWaitingToReceive' = NULL
           ELSE UNCHANGED <<kernelVars, xTaskWaitingToReceive>>
      /\ UNCHANGED <<use, xTail, xTriggerLevelBytes, xTaskWaitingToSend, tx, rx, received>>

xStreamBufferReceiveFromISR(n) ==
  LET data == Taken(n, prvBytesInBuffer)
  IN  /\ Reader = NULL /\ ~NothingToRead /\ data # <<>>
      /\ xTail' = Advance(xTail, Len(data) + xBytesToStoreMessageLength)
      /\ received' = data
      /\ NotifyWaiterFromISR(xTaskWaitingToSend) /\ xTaskWaitingToSend' = NULL
      /\ UNCHANGED <<use, xHead, pucBuffer, xTriggerLevelBytes, xTaskWaitingToReceive, tx, rx, next>>

\* For buffers shared with another processor: here they wake for nothing.
xStreamBufferSendCompletedFromISR ==
  /\ use.nudges /\ xTaskWaitingToReceive # NULL
  /\ NotifyFromISR(xTaskWaitingToReceive) /\ xTaskWaitingToReceive' = NULL
  /\ UNCHANGED <<use, bufferVars, xTaskWaitingToSend, tx, rx, dataVars>>

xStreamBufferReceiveCompletedFromISR ==
  /\ use.nudges /\ xTaskWaitingToSend # NULL
  /\ NotifyFromISR(xTaskWaitingToSend) /\ xTaskWaitingToSend' = NULL
  /\ UNCHANGED <<use, bufferVars, xTaskWaitingToReceive, tx, rx, dataVars>>

-----------------------------------------------------------------------------
(* Reset, the trigger level, and the scheduler *)

\* By the reader, between its calls.
xStreamBufferReset ==
  /\ use.resets /\ ReaderAt("none")
  /\ xTaskWaitingToReceive = NULL /\ xTaskWaitingToSend = NULL
  /\ xHead' = 0 /\ xTail' = 0
  /\ UNCHANGED <<use, kernelVars, pucBuffer, xTriggerLevelBytes, waiterVars, tx, rx, dataVars>>

\* By one of the two, between its calls.
xStreamBufferSetTriggerLevel(n) ==
  /\ (use.setter = Writer /\ WriterAt("none")) \/ (use.setter = Reader /\ ReaderAt("none"))
  /\ n < xLength
  /\ xTriggerLevelBytes' = IF n = 0 THEN 1 ELSE n
  /\ UNCHANGED <<use, kernelVars, xHead, xTail, pucBuffer, waiterVars, tx, rx, dataVars>>

\* A tick counts for a send that waits with a timeout.
StreamScheduler ==
  /\ IncrementTick \/ SwitchContext
  /\ tx' = IF xTickCount' # xTickCount /\ tx.ticks # portMAX_DELAY
             THEN [tx EXCEPT !.elapsed = Min({@ + 1, tx.ticks})] ELSE tx
  /\ UNCHANGED <<use, bufferVars, waiterVars, rx, dataVars>>

SendStep ==
  \/ \E n \in use.sendSizes, ticks \in use.sendTimes : xStreamBufferSend(n, ticks)
  \/ SendCheck \/ SendWait \/ SendWoken \/ SendClear \/ SendTimeOut \/ SendMeasure
  \/ SendCopy \/ SendMove \/ SendTrigger \/ SendLock \/ SendNotify \/ SendUnlock

ReceiveStep ==
  \/ \E n \in use.receiveSizes, ticks \in use.receiveTimes : xStreamBufferReceive(n, ticks)
  \/ ReceiveCheck \/ ReceiveWait \/ ReceiveWoken \/ ReceiveClear \/ ReceiveMeasure
  \/ ReceiveCopy \/ ReceiveMove \/ ReceiveLock \/ ReceiveNotify \/ ReceiveUnlock

InterruptStep ==
  \/ \E n \in use.sendSizes : xStreamBufferSendFromISR(n)
  \/ \E n \in use.receiveSizes : xStreamBufferReceiveFromISR(n)
  \/ xStreamBufferSendCompletedFromISR \/ xStreamBufferReceiveCompletedFromISR

StreamNext ==
  \/ StreamScheduler \/ SendStep \/ ReceiveStep \/ InterruptStep
  \/ xStreamBufferReset
  \/ \E n \in use.triggers : xStreamBufferSetTriggerLevel(n)

StreamSpec == StreamInit /\ [][StreamNext]_streamBufferVars

-----------------------------------------------------------------------------
StreamTypeOK ==
  /\ xHead \in 0 .. xLength - 1 /\ xTail \in 0 .. xLength - 1
  /\ xTriggerLevelBytes \in 1 .. xLength - 1
  /\ xTaskWaitingToReceive \in {NULL, Reader} /\ xTaskWaitingToSend \in {NULL, Writer}
  /\ tx.step \in StreamSteps /\ rx.step \in StreamSteps

\* The reader does not sleep on data: when it sleeps with the trigger level
\* reached, the writer is on its way to notify it.
ReaderNotStranded ==
  Sleeping(Reader) /\ prvBytesInBuffer >= xTriggerLevelBytes =>
    tx.step \in {"trigger", "lock", "notify"} \/ Reader \in pending

\* The writer does not sleep with the space it waits for free.
WriterNotStranded ==
  Sleeping(Writer) /\ xStreamBufferSpacesAvailable >= xRequiredSpace(tx.size) =>
    rx.step \in {"lock", "notify"} \/ Writer \in pending

\* The two never wait for each other, as long as no call sends more than the
\* ring has room for below the trigger level.
NeverBothAsleep ==
  (\A n \in use.sendSizes : xRequiredSpace(n) <= xLength - xTriggerLevelBytes) =>
    ~(Sleeping(Writer) /\ Sleeping(Reader))

\* The indexes stay in the ring and neither side sleeps on what the other has
\* done: no notification falls between the test and the sleep
\* (stream_buffer.c:703-737, 903-933).
StreamConsistent ==
  StreamTypeOK /\ ReaderNotStranded /\ WriterNotStranded /\ NeverBothAsleep

\* What is between tail and head, as bytes or as messages.
Content ==
  LET bytes == BytesFrom(xTail, prvBytesInBuffer)
      Messages[i \in 1 .. Len(bytes) + 1] ==
        IF i > Len(bytes) THEN <<>>
        ELSE <<SubSeq(bytes, i + 1, i + bytes[i])>> \o Messages[i + bytes[i] + 1]
  IN  IF IsMessageBuffer THEN Messages[1] ELSE bytes

\* What is sent is received, once and in order; a message as a whole.
Stream == INSTANCE ByteStream WITH
  isMessageBuffer <- IsMessageBuffer, capacity <- xMaxReportedSpace, content <- Content
ImplementsStream == Stream!Spec
=============================================================================
