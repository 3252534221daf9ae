------------------------------- MODULE UpDown -------------------------------
(***************************************************************************)
(* programs/upDown.c: threads that raise and threads that lower one        *)
(* variable under a mutex.  ThreadSync has the mutex itself; here it is    *)
(* the line of those who called mutex_lock, the first of which holds it.   *)
(* The variable and the mutex outlive a run.                               *)
(***************************************************************************)
EXTENDS Integers, SequencesExt

CONSTANTS N,      \* threads of each kind, 5
          Rounds, \* of each thread, 1000
          MaxDrift \* how far from 0 the variable is when a run begins, for TLC

UpDownAssumption == N \in Nat \ {0} /\ Rounds \in Nat \ {0}

VARIABLES main,    \* threads created so far, then threads joined so far
          threads, \* where each thread is, its rounds left, what it read of global
          global,
          queue,   \* of the mutex
          began    \* history: the variable when the run began

vars == <<main, threads, global, queue, began>>

\* In the order of their creation, and of the joins: ups and downs by turns.
Thread == 1 .. 2 * N
Delta(t) == IF t % 2 = 1 THEN 1 ELSE -1

\* Who died with the mutex: a thread of a run that Ctrl-C ended, here or in prodCons, whose
\* mutex it is too.
Gone == 0
Queues == {<<>>, <<Gone>>}

Fresh == [t \in Thread |-> [pc |-> "none", left |-> Rounds, seen |-> 0]]

Init ==
    /\ main = [created |-> 0, joined |-> 0] /\ threads = Fresh
    /\ global = 0 /\ queue = <<>> /\ began = 0

Create ==
    /\ main.created < 2 * N
    /\ main' = [main EXCEPT !.created = @ + 1]
    /\ threads' = [threads EXCEPT ![main.created + 1].pc = "lock"]
    /\ UNCHANGED <<global, queue, began>>

Join ==
    /\ main.created = 2 * N /\ main.joined < 2 * N
    /\ threads[main.joined + 1].pc = "ended"
    /\ main' = [main EXCEPT !.joined = @ + 1]
    /\ UNCHANGED <<threads, global, queue, began>>

Lock(t) ==
    /\ threads[t].pc = "lock"
    /\ queue' = Append(queue, t)
    /\ threads' = [threads EXCEPT ![t].pc = "read"]
    /\ UNCHANGED <<main, global, began>>

\* Mutant of Reads: the thread goes on although another one has the mutex.
ReadsUnlocked(t) ==
    /\ threads[t].pc = "read"
    /\ threads' = [threads EXCEPT ![t].pc = "write", ![t].seen = global]
    /\ UNCHANGED <<main, global, queue, began>>

Reads(t) ==
    /\ threads[t].pc = "read" /\ Head(queue) = t
    /\ threads' = [threads EXCEPT ![t].pc = "write", ![t].seen = global]
    /\ UNCHANGED <<main, global, queue, began>>

Writes(t) ==
    /\ threads[t].pc = "write"
    /\ global' = threads[t].seen + Delta(t)
    /\ threads' = [threads EXCEPT ![t].pc = "unlock"]
    /\ UNCHANGED <<main, queue, began>>

Unlock(t) ==
    /\ threads[t].pc = "unlock"
    /\ queue' = Tail(queue)
    /\ threads' = [threads EXCEPT ![t].left = @ - 1,
                                  ![t].pc = IF threads[t].left = 1 THEN "done" ELSE "lock"]
    /\ UNCHANGED <<main, global, began>>

\* threadWrapper: the end of a thread, or a tick within it (see ThreadLife).
Ends(t) ==
    /\ threads[t].pc = "done"
    /\ \E end \in {"ended", "stuck"} : threads' = [threads EXCEPT ![t].pc = end]
    /\ UNCHANGED <<main, global, queue, began>>

\* The run is over, or Ctrl-C ends it anywhere, and another one begins: with the variable
\* as it is and, if rm has not taken it away, with the mutex.
Again ==
    /\ main.created > 0 /\ global \in -MaxDrift .. MaxDrift
    /\ main' = [created |-> 0, joined |-> 0] /\ threads' = Fresh
    /\ queue' \in Queues /\ began' = global
    /\ UNCHANGED global

Main == Create \/ Join
Run(t) == Lock(t) \/ Reads(t) \/ Writes(t) \/ Unlock(t) \/ Ends(t)

Next == Main \/ Again \/ \E t \in Thread : Run(t)

Fairness == WF_vars(main.created > 0 /\ Main) /\ \A t \in Thread : WF_vars(Run(t))

Spec == Init /\ [][Next]_vars /\ Fairness

-----------------------------------------------------------------------------
\* upDown: once all threads are joined the variable is what it was when they began, however
\* the runs before ended.
EndsAsBegun == main.joined = 2 * N => global = began

\* And that moment comes, unless the run is killed, a tick stops a thread on its way out, or
\* the mutex is still that of a dead thread.
AllJoined ==
    (main.created > 0) ~> \/ main.joined = 2 * N \/ main.created = 0
                          \/ \E t \in Thread : threads[t].pc = "stuck"
                          \/ Len(queue) > 0 /\ Head(queue) = Gone
=============================================================================
