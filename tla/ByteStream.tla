----------------------------- MODULE ByteStream -----------------------------
(***************************************************************************)
(* What a stream buffer or a message buffer promises                       *)
(* (kernel/FreeRTOS/stream_buffer.c): what one side sends the other        *)
(* receives, once, in order and, in a message buffer, message by message.  *)
(* The bytes sent are numbered, modulo Numbers.                            *)
(***************************************************************************)
EXTENDS Naturals, Sequences, SequencesExt

CONSTANT Numbers

VARIABLES isMessageBuffer,
          capacity,  \* in bytes, the lengths of messages (one byte each) included
          content,   \* bytes, or messages
          next,      \* the number of the next byte to be sent
          received   \* what the last call to receive anything returned

typeVars == <<isMessageBuffer, capacity>>
streamVars == <<typeVars, content, next, received>>

Init == isMessageBuffer \in BOOLEAN /\ capacity \in Nat
        /\ content = <<>> /\ next = 0 /\ received = <<>>

Numbered(k) == [i \in 1 .. k |-> (next + i - 1) % Numbers]

Size(c) == IF isMessageBuffer THEN FoldLeft(LAMBDA n, m : n + Len(m) + 1, 0, c) ELSE Len(c)

Send(k) ==
  /\ content' = content \o (IF isMessageBuffer THEN <<Numbered(k)>> ELSE Numbered(k))
  /\ Size(content') <= capacity
  /\ next' = (next + k) % Numbers
  /\ UNCHANGED <<typeVars, received>>

Receive(k) ==
  /\ k \in 1 .. Len(content)
  /\ received' = IF isMessageBuffer THEN content[1] ELSE SubSeq(content, 1, k)
  /\ content' = SubSeq(content, k + 1, Len(content))
  /\ UNCHANGED <<typeVars, next>>

Reset == content' = <<>> /\ UNCHANGED <<typeVars, next, received>>

Next ==
  \/ \E k \in 1 .. capacity : Send(k) \/ (Receive(k) /\ (isMessageBuffer => k = 1))
  \/ Reset

Spec == Init /\ [][Next]_streamVars
=============================================================================
