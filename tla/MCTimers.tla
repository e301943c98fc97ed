------------------------------ MODULE MCTimers ------------------------------
(* Instances of Timers for TLC. *)
EXTENDS Timers

TimerSymmetry == Permutations(Timer)

\* The item of a timer on no list does not tell two states apart.
MCView == <<clockVars, pxCurrentTimerList, pxOverflowTimerList, timerVars, xTimerQueue, xLastTime,
            daemon, [t \in Timer |-> IF Listed(t) THEN xItemValue[t] ELSE 0]>>
=============================================================================
