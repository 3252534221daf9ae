----------------------------- MODULE ThreadSync -----------------------------
(***************************************************************************)
(* Threads, mutexes, semaphores and sleep of the Leah kernel: mutex.c,     *)
(* sem.c, sleep.c and the thread half of process.c, as they act on the     *)
(* scheduler's membership.                                                 *)
(*                                                                         *)
(* System calls enter through interrupt gates, so interrupts stay disabled *)
(* until _force_scheduler: one system call, up to the switch it ends with, *)
(* is one step, and so is one timer interrupt.  WHICH ready thread runs    *)
(* next is left open here (module Scheduler says which).                   *)
(*                                                                         *)
(* A thread is a TCB (an address) and not its <<pid, tid>>: a tid is       *)
(* reused while the TCB of a killed thread still hangs in a wait queue.    *)
(***************************************************************************)
EXTENDS Integers, Sequences

CONSTANTS Tcb,          \* addresses the allocator can give to a TCB
          Pid, Tid,     \* process slots other than Init's, thread slots
          Mutex, Sem,   \* user mutexes and semaphores (files of /dev/shm)
          MaxValue,     \* bound: largest semaphore value explored
          MaxTicks,     \* bound: longest sleep explored
          NoThread,     \* NULL
          Idle          \* thread 0 of process 0, in no run queue (initThread)

ASSUME ThreadSyncAssumption ==
    /\ Pid \subseteq Nat /\ Tid \subseteq Nat /\ 0 \in Tid
    /\ MaxValue \in Nat /\ MaxTicks \in Nat \ {0}
    /\ NoThread \notin Tcb /\ Idle \notin Tcb
    /\ Mutex \cap Sem = {}

VARIABLES
    status,       \* thread->status, or "FREE" for memory that holds no TCB
    idOf,         \* <<thread->process, thread->tid>>
    threadList,   \* process->threadList[tid]
    runs,         \* how many times the scheduler's queues list the thread
    current,      \* currentThread
    value,        \* mutex->value and sem->value
    owner,        \* <<mutex->ownerPID, mutex->ownerTID>>
    lockedQueue,  \* mutex->lockedQueue and sem->lockedQueue, head first
    ticksLeft,    \* ticks_remaining in the sleeping list, 0 if not there
    locking       \* history: mutexes the thread called lock and not unlock on

vars == <<status, idOf, threadList, runs, current, value, owner, lockedQueue,
          ticksLeft, locking>>

Object   == Mutex \cup Sem
ThreadId == Pid \X Tid
NoOwner  == <<-1, -1>>

Queued(t, o) == \E i \in DOMAIN lockedQueue[o] : lockedQueue[o][i] = t

TypeOK ==
    /\ status \in [Tcb -> {"FREE", "READY", "SLEEPING", "DEAD"}]
    /\ idOf \in [Tcb -> ThreadId]
    /\ threadList \in [ThreadId -> Tcb \cup {NoThread}]
    /\ runs \in [Tcb -> Nat]
    /\ current \in Tcb \cup {Idle}
    /\ value \in [Object -> Nat]
    /\ owner \in [Mutex -> ThreadId \cup {NoOwner}]
    /\ lockedQueue \in [Object -> Seq(Tcb)]
    /\ ticksLeft \in [Tcb -> Nat]
    /\ locking \in [Tcb -> SUBSET Mutex]

\* Init has started the first process: its main thread is ready, the kernel
\* still runs Init's thread.
Init ==
    \E t \in Tcb, p \in Pid :
        /\ status = [u \in Tcb |-> IF u = t THEN "READY" ELSE "FREE"]
        /\ idOf = [u \in Tcb |-> <<p, 0>>]
        /\ threadList = [x \in ThreadId |-> IF x = <<p, 0>> THEN t ELSE NoThread]
        /\ runs = [u \in Tcb |-> IF u = t THEN 1 ELSE 0]
        /\ current = Idle
        /\ value \in {f \in [Object -> 0 .. MaxValue] : \A m \in Mutex : f[m] = 0}
        /\ owner = [m \in Mutex |-> NoOwner]
        /\ lockedQueue = [o \in Object |-> <<>>]
        /\ ticksLeft = [u \in Tcb |-> 0]
        /\ locking = [u \in Tcb |-> {}]

-----------------------------------------------------------------------------
\* What the scheduler may answer: any thread it lists, Init's if it lists none.
\* That it does so is Scheduler's RunsListed.
Dispatch ==
    \/ current' \in Tcb /\ runs'[current'] > 0
    \/ current' = Idle /\ \A t \in Tcb : runs'[t] = 0

\* scheduler_dequeue_current and _force_scheduler, the end of a blocking call.
BlockCurrent ==
    /\ runs' = [runs EXCEPT ![current] = IF @ = 0 THEN 0 ELSE @ - 1]
    /\ Dispatch

\* The loop of mutex_unlock and sem_signal pops killed waiters (eraseTCB) up to
\* the first live one, at place k; k = Len + 1 if there is none.
FirstLive(q, k) ==
    /\ k \in 1 .. Len(q) + 1
    /\ \A i \in 1 .. k - 1 : status[q[i]] = "DEAD"
    /\ k <= Len(q) => status[q[k]] # "DEAD"

PopTo(o, k) ==
    LET q == lockedQueue[o] IN
    /\ lockedQueue' = [lockedQueue EXCEPT ![o] = SubSeq(q, k + 1, Len(q))]
    /\ status' = [t \in Tcb |->
                    IF \E i \in 1 .. k - 1 : q[i] = t THEN "FREE" ELSE status[t]]
    /\ runs' = IF k <= Len(q) THEN [runs EXCEPT ![q[k]] = @ + 1] ELSE runs

\* Mutant of MutexLockFree: the owner fields are not written.
MutexLockNoOwner(m) ==
    /\ current # Idle
    /\ value[m] = 0
    /\ value' = [value EXCEPT ![m] = 1]
    /\ locking' = [locking EXCEPT ![current] = @ \cup {m}]
    /\ UNCHANGED <<status, idOf, threadList, runs, current, owner, lockedQueue,
                   ticksLeft>>

MutexLockFree(m) ==
    /\ current # Idle
    /\ value[m] = 0
    /\ value' = [value EXCEPT ![m] = 1]
    /\ owner' = [owner EXCEPT ![m] = idOf[current]]
    /\ locking' = [locking EXCEPT ![current] = @ \cup {m}]
    /\ UNCHANGED <<status, idOf, threadList, runs, current, lockedQueue, ticksLeft>>

MutexLockContended(m) ==
    /\ current # Idle
    /\ value[m] # 0
    /\ lockedQueue' = [lockedQueue EXCEPT ![m] = Append(@, current)]
    /\ locking' = [locking EXCEPT ![current] = @ \cup {m}]
    /\ BlockCurrent
    /\ UNCHANGED <<status, idOf, threadList, value, owner, ticksLeft>>

\* Mutant of MutexUnlock: the lock word is cleared even when a waiter is woken.
MutexUnlockClears(m) ==
    /\ current # Idle
    /\ owner[m] = idOf[current]
    /\ \E k \in 1 .. Len(lockedQueue[m]) + 1 :
        /\ FirstLive(lockedQueue[m], k)
        /\ PopTo(m, k)
        /\ owner' = IF k <= Len(lockedQueue[m])
                    THEN [owner EXCEPT ![m] = idOf[lockedQueue[m][k]]] ELSE owner
    /\ value' = [value EXCEPT ![m] = 0]
    /\ locking' = [locking EXCEPT ![current] = @ \ {m}]
    /\ UNCHANGED <<idOf, threadList, current, ticksLeft>>

\* The caller must be the owner by <<pid, tid>>; otherwise nothing happens.
MutexUnlock(m) ==
    /\ current # Idle
    /\ owner[m] = idOf[current]
    /\ \E k \in 1 .. Len(lockedQueue[m]) + 1 :
        /\ FirstLive(lockedQueue[m], k)
        /\ PopTo(m, k)
        /\ IF k <= Len(lockedQueue[m])
           THEN /\ owner' = [owner EXCEPT ![m] = idOf[lockedQueue[m][k]]]
                /\ value' = value
           ELSE /\ value' = [value EXCEPT ![m] = 0]
                /\ owner' = owner
    /\ locking' = [locking EXCEPT ![current] = @ \ {m}]
    /\ UNCHANGED <<idOf, threadList, current, ticksLeft>>

\* Mutant of SemWaitTake: the test of the value is missing.
SemWaitUntested(s) ==
    /\ current # Idle
    /\ value' = [value EXCEPT ![s] = @ - 1]
    /\ UNCHANGED <<status, idOf, threadList, runs, current, owner, lockedQueue,
                   ticksLeft, locking>>

SemWaitTake(s) ==
    /\ current # Idle
    /\ value[s] # 0
    /\ value' = [value EXCEPT ![s] = @ - 1]
    /\ UNCHANGED <<status, idOf, threadList, runs, current, owner, lockedQueue,
                   ticksLeft, locking>>

SemWaitBlock(s) ==
    /\ current # Idle
    /\ value[s] = 0
    /\ lockedQueue' = [lockedQueue EXCEPT ![s] = Append(@, current)]
    /\ BlockCurrent
    /\ UNCHANGED <<status, idOf, threadList, value, owner, ticksLeft, locking>>

\* Mutant of SemSignal: the token is both handed to a waiter and counted.
SemSignalTwice(s) ==
    /\ current # Idle
    /\ value[s] < MaxValue
    /\ \E k \in 1 .. Len(lockedQueue[s]) + 1 :
        /\ FirstLive(lockedQueue[s], k)
        /\ PopTo(s, k)
    /\ value' = [value EXCEPT ![s] = @ + 1]
    /\ UNCHANGED <<idOf, threadList, current, owner, ticksLeft, locking>>

\* sem_set_value is a row of these: the argument is added, not assigned.
SemSignal(s) ==
    /\ current # Idle
    /\ \E k \in 1 .. Len(lockedQueue[s]) + 1 :
        /\ FirstLive(lockedQueue[s], k)
        /\ PopTo(s, k)
        /\ IF k <= Len(lockedQueue[s])
           THEN value' = value
           ELSE value[s] < MaxValue /\ value' = [value EXCEPT ![s] = @ + 1]
    /\ UNCHANGED <<idOf, threadList, current, owner, ticksLeft, locking>>

\* Half a tick still counts as one: calMillis > 0 ? calMillis : 1.
SleepCurrentThread(n) ==
    /\ current # Idle
    /\ status' = [status EXCEPT ![current] = "SLEEPING"]
    /\ ticksLeft' = [ticksLeft EXCEPT ![current] = n]
    /\ BlockCurrent
    /\ UNCHANGED <<idOf, threadList, value, owner, lockedQueue, locking>>

-----------------------------------------------------------------------------
\* A timer interrupt: sleep_update, then the scheduler.
Tick ==
    LET wakes == {t \in Tcb : ticksLeft[t] = 1} IN
    /\ ticksLeft' = [t \in Tcb |-> IF ticksLeft[t] = 0 THEN 0 ELSE ticksLeft[t] - 1]
    /\ status' = [t \in Tcb |->
                    IF t \notin wakes THEN status[t]
                    ELSE IF status[t] = "DEAD" THEN "FREE" ELSE "READY"]
    /\ runs' = [t \in Tcb |-> IF t \in wakes /\ status[t] # "DEAD"
                              THEN runs[t] + 1 ELSE runs[t]]
    /\ Dispatch
    /\ UNCHANGED <<idOf, threadList, value, owner, lockedQueue, locking>>

\* Init's thread calls _force_scheduler for ever.
IdleYield ==
    /\ current = Idle
    /\ UNCHANGED <<status, idOf, threadList, runs, value, owner, lockedQueue,
                   ticksLeft, locking>>
    /\ Dispatch

-----------------------------------------------------------------------------
NewThread(t, x) ==
    /\ status[t] = "FREE"
    /\ status' = [status EXCEPT ![t] = "READY"]
    /\ idOf' = [idOf EXCEPT ![t] = x]
    /\ threadList' = [threadList EXCEPT ![x] = t]
    /\ runs' = [runs EXCEPT ![t] = @ + 1]
    /\ locking' = [locking EXCEPT ![t] = {}]
    /\ UNCHANGED <<current, value, owner, lockedQueue, ticksLeft>>

\* A thread of the caller's process, in its first free slot (getFreeTID).
CreateThread(t, tid) ==
    /\ current # Idle
    /\ LET pid == idOf[current][1] IN
        /\ threadList[<<pid, tid>>] = NoThread
        /\ \A n \in Tid : n < tid => threadList[<<pid, n>>] # NoThread
        /\ NewThread(t, <<pid, tid>>)

\* createProcess, called by a thread, or by Init when it is the only process.
CreateProcess(t, pid) ==
    /\ \A n \in Tid : threadList[<<pid, n>>] = NoThread
    /\ current = Idle => \A x \in ThreadId : threadList[x] = NoThread
    /\ NewThread(t, <<pid, 0>>)

\* Mutant of Kill: a ready thread too is only marked, as if it had a waker.
KillMarksAll(K) ==
    /\ status' = [t \in Tcb |-> IF t \in K THEN "DEAD" ELSE status[t]]
    /\ runs' = [t \in Tcb |-> IF t \in K /\ runs[t] > 0 THEN runs[t] - 1 ELSE runs[t]]
    /\ threadList' = [x \in ThreadId |-> IF threadList[x] \in K THEN NoThread
                                         ELSE threadList[x]]
    /\ locking' = [t \in Tcb |-> IF t \in K THEN {} ELSE locking[t]]
    /\ IF current \in K THEN Dispatch ELSE current' = current
    /\ UNCHANGED <<idOf, value, owner, lockedQueue, ticksLeft>>

\* killThread of the threads in K: one that a run queue lists is freed at
\* once, one that waits or sleeps is left DEAD for its waker to free.  If the
\* caller is one of them the scheduler takes over.
Kill(K) ==
    /\ status' = [t \in Tcb |-> IF t \notin K THEN status[t]
                                ELSE IF runs[t] > 0 THEN "FREE" ELSE "DEAD"]
    /\ runs' = [t \in Tcb |-> IF t \in K /\ runs[t] > 0 THEN runs[t] - 1 ELSE runs[t]]
    /\ threadList' = [x \in ThreadId |-> IF threadList[x] \in K THEN NoThread
                                         ELSE threadList[x]]
    /\ locking' = [t \in Tcb |-> IF t \in K THEN {} ELSE locking[t]]
    /\ IF current \in K THEN Dispatch ELSE current' = current
    /\ UNCHANGED <<idOf, value, owner, lockedQueue, ticksLeft>>

\* pthread_cancel of a thread that nobody joins; threadWrapper, which ends a
\* thread in several preemptible steps, is not here.
KillThread(tid) ==
    /\ current # Idle
    /\ tid # 0
    /\ LET x == <<idOf[current][1], tid>> IN
        /\ threadList[x] # NoThread
        /\ Kill({threadList[x]})

\* kill, exit, Ctrl-C and exceptions; processWrapper, which ends a main thread in
\* several preemptible steps, is not here, nor the wait for the end of a process.
KillProcess(pid) ==
    /\ threadList[<<pid, 0>>] # NoThread
    /\ Kill({threadList[<<pid, n>>] : n \in Tid} \ {NoThread})

Next ==
    \/ \E m \in Mutex : \/ MutexLockFree(m)
                        \/ MutexLockContended(m)
                        \/ MutexUnlock(m)
    \/ \E s \in Sem : \/ SemWaitTake(s)
                      \/ SemWaitBlock(s)
                      \/ SemSignal(s)
    \/ \E n \in 1 .. MaxTicks : SleepCurrentThread(n)
    \/ Tick
    \/ IdleYield
    \/ \E t \in Tcb, n \in Tid : CreateThread(t, n)
    \/ \E t \in Tcb, p \in Pid : CreateProcess(t, p)
    \/ \E n \in Tid : KillThread(n)
    \/ \E p \in Pid : KillProcess(p)

Spec == Init /\ [][Next]_vars

-----------------------------------------------------------------------------
\* setNiceness: every thread of the process is taken out of its queue and then
\* EVERY thread is enqueued, those that wait or sleep included.
SetNiceness(pid) ==
    LET P == {threadList[<<pid, n>>] : n \in Tid} \ {NoThread} IN
    /\ current # Idle
    /\ P # {}
    /\ runs' = [t \in Tcb |-> IF t \in P /\ runs[t] = 0 THEN 1 ELSE runs[t]]
    /\ UNCHANGED <<status, idOf, threadList, current, value, owner, lockedQueue,
                   ticksLeft, locking>>

NextNice == Next \/ \E p \in Pid : SetNiceness(p)
SpecNice == Init /\ [][NextNice]_vars

-----------------------------------------------------------------------------
\* The thread's mutex_lock has returned, or will as soon as it is dispatched.
InCriticalSection(t, m) ==
    m \in locking[t] /\ (runs[t] > 0 \/ ~ Queued(t, m))

\* The promise of mutex.c: two threads are never both past lock and before
\* unlock of one mutex, whoever was killed and whichever tid was reused.
MutualExclusion ==
    \A m \in Mutex, t, u \in Tcb :
        InCriticalSection(t, m) /\ InCriticalSection(u, m) => t = u

\* The lock word and the owner fields agree with the thread that is inside:
\* its unlock will be accepted, and no other thread finds the mutex free.
HolderOwns ==
    \A m \in Mutex, t \in Tcb :
        InCriticalSection(t, m) => value[m] = 1 /\ owner[m] = idOf[t]

\* scheduler_enqueue, the wait queues and the sleeping list: a live thread is
\* in exactly one of them, once, so that a waker can neither list it twice nor
\* wake it from a place it has left.
OnePlace ==
    /\ \A o, p \in Object : \A i \in DOMAIN lockedQueue[o], j \in DOMAIN lockedQueue[p] :
        lockedQueue[o][i] = lockedQueue[p][j] => o = p /\ i = j
    /\ \A t \in Tcb :
        /\ runs[t] <= 1
        /\ runs[t] = 1 => ticksLeft[t] = 0 /\ \A o \in Object : ~ Queued(t, o)
        /\ ticksLeft[t] > 0 => \A o \in Object : ~ Queued(t, o)

\* eraseTCB: a freed TCB is in no kernel structure, a killed one is in no run
\* queue (it is never dispatched again), and the slots name live threads only.
NoDanglingTcb ==
    /\ \A t \in Tcb : status[t] = "FREE" =>
        runs[t] = 0 /\ ticksLeft[t] = 0 /\ \A o \in Object : ~ Queued(t, o)
    /\ \A t \in Tcb : status[t] = "DEAD" => runs[t] = 0
    /\ \A x \in ThreadId : threadList[x] # NoThread =>
        idOf[threadList[x]] = x /\ status[threadList[x]] \notin {"FREE", "DEAD"}
    /\ current # Idle => runs[current] = 1

\* No TCB leaks and no thread is lost: what is allocated can be reached from
\* the structure whose handler will free it or make it ready.
NoLostTcb ==
    \A t \in Tcb :
        /\ status[t] = "READY" => runs[t] = 1 \/ \E o \in Object : Queued(t, o)
        /\ status[t] = "SLEEPING" => ticksLeft[t] > 0
        /\ status[t] = "DEAD" => ticksLeft[t] > 0 \/ \E o \in Object : Queued(t, o)
        /\ status[t] \in {"READY", "SLEEPING"} => threadList[idOf[t]] = t

\* The three: every TCB is in the one structure that its state calls for.
TcbsExact == OnePlace /\ NoDanglingTcb /\ NoLostTcb

\* No lost wake-up: while a thread waits, the semaphore has no token to give
\* and the mutex is not free.
NoLostWakeup ==
    \A o \in Object : lockedQueue[o] # <<>> => IF o \in Sem THEN value[o] = 0
                                               ELSE value[o] = 1

=============================================================================
