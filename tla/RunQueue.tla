------------------------------ MODULE RunQueue ------------------------------
(***************************************************************************)
(* What the rest of the kernel relies on the scheduler for: the processor  *)
(* only ever goes to a thread that is listed as ready, and to the idle     *)
(* thread when none is.  Scheduler implements it; ThreadSync assumes it.   *)
(***************************************************************************)
CONSTANTS Thread, Idle

VARIABLES ready,    \* the threads the scheduler lists
          running   \* the thread on the processor

rqVars == <<ready, running>>

Init == ready \subseteq Thread /\ running = Idle

\* A handler lists and delists threads, and may end with a switch.
Step ==
    /\ ready' \subseteq Thread
    /\ \/ running' = running
       \/ running' \in ready'
       \/ running' = Idle /\ ready' = {}

Spec == Init /\ [][Step]_rqVars
=============================================================================
