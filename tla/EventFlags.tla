----------------------------- MODULE EventFlags -----------------------------
(***************************************************************************)
(* What an event group promises (kernel/FreeRTOS/event_groups.c): a set of *)
(* bits that tasks set, clear and wait for, each call in one step.         *)
(*                                                                         *)
(* A set call releases, with the same value, every task whose condition    *)
(* holds, and takes away the bits they asked to have cleared only then.  A *)
(* task that gives up waiting looks at the bits once more, later.          *)
(* EventGroups, with its walk over the waiting tasks, implements this.     *)
(***************************************************************************)
EXTENDS FiniteSets

CONSTANTS Task, Bit

Requests == [for : (SUBSET Bit) \ {{}}, clear : BOOLEAN, all : BOOLEAN]

VARIABLES
  bits,
  waits,     \* of each task: "no", "waiting", "released", "late" (it has given up)
  wanted,    \* what a task that waits, or is late, waits for
  got        \* the value a released task returns

flagsVars == <<bits, waits, wanted, got>>

Init ==
  /\ bits = {} /\ waits = [t \in Task |-> "no"]
  /\ wanted = [t \in Task |-> {}] /\ got = [t \in Task |-> {}]

Holds(r, v) == IF r.all THEN r.for \subseteq v ELSE r.for \cap v # {}

Taken(r) == IF r.clear THEN r.for ELSE {}

\* The tasks that wait and whose condition the value v meets.
Served(v) == {t \in Task : waits[t] = "waiting" /\ Holds(wanted[t], v)}

\* v minus what the tasks served by it take.
Left(v) == v \ UNION {Taken(wanted[t]) : t \in Served(v)}

Release(S, v) ==
  /\ waits' = [t \in Task |-> IF t \in S THEN "released" ELSE waits[t]]
  /\ wanted' = [t \in Task |-> IF t \in S THEN {} ELSE wanted[t]]
  /\ got' = [t \in Task |-> IF t \in S THEN v ELSE got[t]]

Set(S) == bits' = Left(bits \cup S) /\ Release(Served(bits \cup S), bits \cup S)

Clear(S) == bits' = bits \ S /\ UNCHANGED <<waits, wanted, got>>

Take(r) == Holds(r, bits) /\ bits' = bits \ Taken(r) /\ UNCHANGED <<waits, wanted, got>>

Block(t, r) ==
  /\ waits[t] = "no" /\ ~Holds(r, bits)
  /\ waits' = [waits EXCEPT ![t] = "waiting"] /\ wanted' = [wanted EXCEPT ![t] = r]
  /\ UNCHANGED <<bits, got>>

\* xEventGroupSync: set, then wait for all of W, judged by the value before
\* anyone served took bits away.
Arrive(t, S, W, stays) ==
  LET now == bits \cup S
      met == W \subseteq now
      r   == [for |-> W, clear |-> TRUE, all |-> TRUE]
      joined == stays /\ ~met
  IN  /\ waits[t] = "no"
      /\ bits' = Left(now) \ (IF met THEN W ELSE {})
      /\ waits' = [u \in Task |-> IF u \in Served(now) THEN "released"
                                  ELSE IF u = t /\ joined THEN "waiting" ELSE waits[u]]
      /\ wanted' = [u \in Task |-> IF u \in Served(now) THEN {}
                                   ELSE IF u = t /\ joined THEN r ELSE wanted[u]]
      /\ got' = [u \in Task |-> IF u \in Served(now) THEN now ELSE got[u]]

\* Its time is up, or its wait was aborted.
GiveUp(S) ==
  /\ \A t \in S : waits[t] = "waiting"
  /\ waits' = [t \in Task |-> IF t \in S THEN "late" ELSE waits[t]]
  /\ UNCHANGED <<bits, wanted, got>>

LookAgain(t) ==
  /\ waits[t] = "late"
  /\ bits' = IF Holds(wanted[t], bits) THEN bits \ Taken(wanted[t]) ELSE bits
  /\ waits' = [waits EXCEPT ![t] = "no"] /\ wanted' = [wanted EXCEPT ![t] = {}]
  /\ UNCHANGED got

Return(t) ==
  /\ waits[t] = "released"
  /\ waits' = [waits EXCEPT ![t] = "no"] /\ got' = [got EXCEPT ![t] = {}]
  /\ UNCHANGED <<bits, wanted>>

\* Those who wait obtain 0.
Delete ==
  /\ bits' = {}
  /\ Release({t \in Task : waits[t] = "waiting"}, {})

Next ==
  \/ Delete
  \/ \E S \in SUBSET Bit : Set(S) \/ Clear(S)
  \/ \E r \in Requests : Take(r) \/ \E t \in Task : Block(t, r)
  \/ \E t \in Task, S, W \in SUBSET Bit, stays \in BOOLEAN : Arrive(t, S, W, stays)
  \/ \E S \in SUBSET Task : GiveUp(S)
  \/ \E t \in Task : LookAgain(t) \/ Return(t)

Spec == Init /\ [][Next]_flagsVars
=============================================================================
