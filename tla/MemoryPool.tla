----------------------------- MODULE MemoryPool -----------------------------
(***************************************************************************)
(* What a caller of a memory allocator may count on, whatever the          *)
(* allocator's own data structures: it hands out aligned pieces of the     *)
(* memory it was given, of at least the size asked for, and no byte twice  *)
(* until it is given back.                                                 *)
(***************************************************************************)
EXTENDS Integers, Functions

CONSTANTS
  Memory,   \* the bytes the pool was given
  Align,    \* every piece starts at a multiple of it
  Sizes     \* bound: the sizes asked for

VARIABLE held   \* from the pointers given out to the sizes asked for

Init == held = [p \in {} |-> 0]

Allocate(n) ==
  \E p \in Memory :
    /\ p % Align = 0
    /\ p .. p + n - 1 \subseteq Memory
    /\ \A q \in DOMAIN held : p + n <= q \/ q + held[q] <= p
    /\ held' = [q \in DOMAIN held \cup {p} |-> IF q = p THEN n ELSE held[q]]

Release(p) == held' = Restrict(held, DOMAIN held \ {p})

Next ==
  \/ \E n \in Sizes : Allocate(n)
  \/ \E p \in DOMAIN held : Release(p)

Spec == Init /\ [][Next]_held

=============================================================================
