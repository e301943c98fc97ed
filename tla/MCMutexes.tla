----------------------------- MODULE MCMutexes -----------------------------
(* Instances of Mutexes for TLC. *)
EXTENDS Mutexes

CONSTANTS idle, low, mid, high, m1, m2

MCTask == {idle, low, mid, high}
MCPriorities == (idle :> 0) @@ (low :> 1) @@ (mid :> 2) @@ (high :> 3)
MCMutex == {m1, m2}
MCSymmetry == Permutations(MCMutex)
\* Nothing reads the value of the tick count here: states that differ in it only
\* are one.
MCView == <<pxCurrentTCB, priorityVars, ucDelayAborted, state, left, xEventLists, pending,
            uxSchedulerSuspended, switchDue, callVars, holdVars>>
=============================================================================
