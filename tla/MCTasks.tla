------------------------------ MODULE MCTasks ------------------------------
(* Instances of Tasks for TLC. *)
EXTENDS Tasks

CONSTANTS idle, a, b, event1

MCTask == {idle, a, b}
MCPriorities == (idle :> 0) @@ (a :> 1) @@ (b :> 1)
MCSymmetry == Permutations({a, b})
MCOnePriority == [t \in MCTask |-> 0]
=============================================================================
