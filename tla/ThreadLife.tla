----------------------------- MODULE ThreadLife -----------------------------
(***************************************************************************)
(* The threads of a process: createThread, killThread and threadJoin of    *)
(* process.c, with their TCBs as memory that is allocated and freed.       *)
(*                                                                         *)
(* System calls run with interrupts disabled: one step, or two for a join  *)
(* that sleeps.  A thread that returns ends in threadWrapper, with         *)
(* interrupts enabled: a tick after it has left the scheduler is its last, *)
(* and the rest never runs.  The main thread, whose end is that of the     *)
(* process (see ProcessTable), goes on.  A thread leaves the scheduler for *)
(* a while to sleep, or to wait for something else than a thread.          *)
(***************************************************************************)
EXTENDS Integers, SequencesExt

CONSTANTS Tcb,     \* allocations, MainTcb among them
          MainTcb, \* of thread 0
          MaxTid,  \* MAX_THREAD_COUNT - 1
          Careful  \* a thread is joined once, by another one, and then cancelled by no
                   \* other; nor is its joiner cancelled

ASSUME ThreadLifeAssumption == MainTcb \in Tcb /\ 0 \notin Tcb /\ MaxTid \in Nat /\ Careful \in BOOLEAN

VARIABLES threadList,  \* for each tid from 1 on, 0 for NULL
          status,      \* of a TCB: "free" memory, "ready" in the scheduler, "away" in a list of
                       \* sleepers or waiters, "dead" there, or "ended"; "off" from when
                       \* a thread that returns leaves the scheduler, "lost" if it is
                       \* cancelled after that
          joining,     \* is_someone_joining
          value, queue, \* of finishedSem
          join,        \* what the threadJoin a thread is in waits for
          ending       \* the thread inside of threadWrapper's killThread, 0 for none

vars == <<threadList, status, joining, value, queue, join, ending>>

Tid == 1 .. MaxTid
Nothing == [tid |-> 0, tcb |-> 0]

Init ==
    /\ threadList = [tid \in Tid |-> 0]
    /\ status = [t \in Tcb |-> IF t = MainTcb THEN "ready" ELSE "free"]
    /\ joining = [t \in Tcb |-> FALSE]
    /\ value = [t \in Tcb |-> 0] /\ queue = [t \in Tcb |-> <<>>]
    /\ join = [t \in Tcb |-> Nothing]
    /\ ending = 0

Runs(c) == status[c] = "ready" /\ join[c] = Nothing

-----------------------------------------------------------------------------
\* createThread, with getFreeTID, in memory that nobody refers to.
CreateThread(c, t, tid) ==
    /\ Runs(c)
    /\ threadList[tid] = 0 /\ \A n \in 1 .. tid - 1 : threadList[n] # 0
    /\ status[t] = "free" /\ queue[t] = <<>> /\ \A d \in Tcb : join[d].tcb # t
    /\ threadList' = [threadList EXCEPT ![tid] = t]
    /\ status' = [status EXCEPT ![t] = "ready"]
    /\ joining' = [joining EXCEPT ![t] = FALSE]
    /\ value' = [value EXCEPT ![t] = 0]
    /\ join' = [join EXCEPT ![t] = Nothing]
    /\ UNCHANGED <<queue, ending>>

Sleep(c) ==
    /\ Runs(c) /\ c # MainTcb
    /\ status' = [status EXCEPT ![c] = "away"]
    /\ UNCHANGED <<threadList, joining, value, queue, join, ending>>

\* What it was away for is over: a thread killed meanwhile is freed.
Back(t) ==
    /\ join[t] = Nothing
    /\ \/ status[t] = "away" /\ status' = [status EXCEPT ![t] = "ready"]
       \/ status[t] = "dead" /\ status' = [status EXCEPT ![t] = "free"]
    /\ UNCHANGED <<threadList, joining, value, queue, join, ending>>

\* sem_signal of finishedSem: waiters that were killed are freed, the first other one wakes.
Signal(t, now) ==
    LET q == queue[t]
        k == SelectInSeq(q, LAMBDA c : now[c] # "dead")
        passed == {q[i] : i \in {i \in DOMAIN q : k = 0 \/ i < k}}
    IN  /\ queue' = [queue EXCEPT ![t] = IF k = 0 THEN <<>> ELSE SubSeq(q, k + 1, Len(q))]
        /\ value' = [value EXCEPT ![t] = IF k = 0 THEN @ + 1 ELSE @]
        /\ status' = [c \in Tcb |-> IF c \in passed THEN "free"
                                    ELSE IF k # 0 /\ c = q[k] THEN "ready" ELSE now[c]]
        /\ join' = [c \in Tcb |-> IF c \in passed THEN Nothing ELSE join[c]]

\* A thread that is killed: out of the scheduler, and kept or freed; or marked for who
\* finds it away; one that a tick has stopped on its way out is in no list to be found in.
After(was, kept) == IF was = "ready" THEN kept ELSE IF was = "away" THEN "dead" ELSE "lost"

\* The end of t, or its joiner wakes.
Finish(tid, t) ==
    IF ~joining[t]
    THEN /\ threadList' = [threadList EXCEPT ![tid] = 0]
         /\ status' = [status EXCEPT ![t] = After(@, "free")]
         /\ UNCHANGED <<joining, value, queue, join>>
    ELSE /\ Signal(t, [status EXCEPT ![t] = After(@, "ended")])
         /\ UNCHANGED <<threadList, joining>>

\* pthread_cancel, of another thread or of itself: killThread as a system call.
KillThread(c, tid) ==
    LET t == threadList[tid]
    IN  /\ Runs(c) /\ t # 0 /\ status[t] \notin {"dead", "lost"}
        /\ Careful => (joining[t] => c = t) /\ join[t] = Nothing
        /\ Finish(tid, t) /\ UNCHANGED ending

-----------------------------------------------------------------------------
\* threadWrapper: killThread takes the thread out of the run queue first.  Up to its end
\* nothing else runs, but for a tick.
Return(c, tid) ==
    /\ Runs(c) /\ threadList[tid] = c
    /\ status' = [status EXCEPT ![c] = "off"] /\ ending' = c
    /\ UNCHANGED <<threadList, joining, value, queue, join>>

\* Nobody joins: out of the table, and then out of memory.
EndUnlist(tid) ==
    /\ ending # 0 /\ threadList[tid] = ending /\ ~joining[ending]
    /\ threadList' = [threadList EXCEPT ![tid] = 0]
    /\ UNCHANGED <<status, joining, value, queue, join, ending>>

EndErase ==
    /\ ending # 0 /\ ~joining[ending] /\ \A tid \in Tid : threadList[tid] # ending
    /\ status' = [status EXCEPT ![ending] = "free"] /\ ending' = 0
    /\ UNCHANGED <<threadList, joining, value, queue, join>>

\* Mutant of EndSignal: a token is left, whoever waits.
EndSignalNobody ==
    /\ ending # 0 /\ joining[ending]
    /\ value' = [value EXCEPT ![ending] = @ + 1]
    /\ status' = [status EXCEPT ![ending] = "ended"] /\ ending' = 0
    /\ UNCHANGED <<threadList, joining, queue, join>>

\* Somebody joins, and wakes.
EndSignal ==
    /\ ending # 0 /\ joining[ending]
    /\ Signal(ending, [status EXCEPT ![ending] = "ended"]) /\ ending' = 0
    /\ UNCHANGED <<threadList, joining>>

\* The tick: the thread is never dispatched again.
EndTick == ending # 0 /\ ending' = 0 /\ UNCHANGED <<threadList, status, joining, value, queue, join>>

End == EndErase \/ EndSignal \/ EndTick \/ \E tid \in Tid : EndUnlist(tid)

-----------------------------------------------------------------------------
\* threadJoin.  What follows the wait names the thread by its tid again.
Join(c, tid) ==
    LET t == threadList[tid]
    IN  /\ Runs(c) /\ t # 0
        /\ Careful => ~joining[t] /\ t # c
        /\ joining' = [joining EXCEPT ![t] = TRUE]
        /\ IF value[t] = 0
           THEN /\ queue' = [queue EXCEPT ![t] = Append(@, c)]
                /\ status' = [status EXCEPT ![c] = "away"]
                /\ join' = [join EXCEPT ![c] = [tid |-> tid, tcb |-> t]]
                /\ UNCHANGED <<threadList, value>>
           ELSE /\ value' = [value EXCEPT ![t] = @ - 1]
                /\ threadList' = [threadList EXCEPT ![tid] = 0]
                /\ status' = [status EXCEPT ![t] = IF @ \in {"dead", "lost"} THEN @ ELSE "free"]
                /\ UNCHANGED <<queue, join>>
        /\ UNCHANGED ending

JoinReturn(c) ==
    LET t == join[c].tcb
    IN  /\ status[c] = "ready" /\ join[c] # Nothing
        /\ threadList' = [threadList EXCEPT ![join[c].tid] = 0]
        /\ status' = [status EXCEPT ![t] = IF @ \in {"dead", "lost"} THEN @ ELSE "free"]
        /\ join' = [join EXCEPT ![c] = Nothing]
        /\ UNCHANGED <<joining, value, queue, ending>>

Next ==
    \/ End
    \/ ending = 0 /\ \E c \in Tcb :
        \/ Sleep(c) \/ Back(c) \/ JoinReturn(c)
        \/ \E tid \in Tid : \/ \E t \in Tcb : CreateThread(c, t, tid)
                            \/ KillThread(c, tid) \/ Return(c, tid) \/ Join(c, tid)

Spec == Init /\ [][Next]_vars

-----------------------------------------------------------------------------
\* killThread and threadJoin: a joiner waits for a thread that goes on, or that has begun to
\* return ("off": it may be stopped there by a tick, and then its joiner waits for ever), and wakes
\* while its thread's TCB is still in memory and under its tid.  No TCB is lost but for those
\* that a tick stopped: each is in the table, or in a list whose owner will free it.  Without
\* Careful a second joiner waits for ever or finds the memory freed, as does the joiner of
\* a thread cancelled while it was away.
JoinsExact ==
    /\ \A c \in Tcb : join[c] # Nothing =>
          LET t == join[c].tcb
          IN  /\ threadList[join[c].tid] = t /\ status[t] # "free"
              /\ status[c] = "away" => status[t] \in {"ready", "away", "off"}
    /\ \A t \in Tcb \ {MainTcb} :
          status[t] \in {"free", "dead", "off", "lost"} \/ \E tid \in Tid : threadList[tid] = t
    /\ \A tid \in Tid : threadList[tid] # 0 => status[threadList[tid]] # "free"
    /\ \A t \in Tcb : status[t] = "ended" => \E c \in Tcb : join[c].tcb = t /\ status[c] = "ready"
=============================================================================
