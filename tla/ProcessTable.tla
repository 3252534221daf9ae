---------------------------- MODULE ProcessTable ----------------------------
(***************************************************************************)
(* Processes of the Leah kernel: createProcess, killProcess, waitpid and   *)
(* processWrapper of process.c, and initThread of kernel.c.                *)
(*                                                                         *)
(* A process has its main thread only.  An element of Proc stands for all  *)
(* that createProcess allocates: the PCB, its semaphore finishedSem (which *)
(* is never freed) and the TCB; a pid is reused when the PCB is erased.    *)
(* System calls and interrupts are one step, waitpid is two if it sleeps,  *)
(* and processWrapper, which runs with interrupts enabled, is several.     *)
(* Any ready thread may run next.                                          *)
(***************************************************************************)
EXTENDS Integers, Sequences, FiniteSets

CONSTANTS Pid,        \* slots of processList other than Init's
          Proc,       \* allocations
          NoProc,     \* NULL
          MaxSignals, \* bound: largest value of a finishedSem explored
          MaxDrift    \* bound: kills of zombies explored, a count is lost by each

ASSUME ProcessTableAssumption ==
    /\ Pid \subseteq Nat \ {0} /\ IsFiniteSet(Pid)
    /\ Proc \subseteq Nat /\ IsFiniteSet(Proc) /\ NoProc \notin Proc
    /\ MaxSignals \in Nat /\ MaxDrift \in Nat

VARIABLES
    processList,          \* what each pid names
    status,               \* process->status, "NONE" for an erased PCB
    thread,               \* the main thread: listed, in a wait queue, killed
                          \* in it, or not there
    finishedSem,          \* its value
    lockedQueue,          \* its wait queue, head first
    waiting,              \* the pid in the waitpid the thread is in, 0 if none
    process_count,
    alive_process_count,
    ending,               \* the process inside processWrapper's killProcess
    awaited,              \* history: the process that pid named at the call
    reaperKilled          \* history: who was to reap it was killed after its
                          \* waking, and it has not been signalled again

table == <<processList, status, process_count, alive_process_count>>
vars  == <<table, thread, finishedSem, lockedQueue, waiting, ending, awaited,
           reaperKilled>>

Alive == {b \in Proc : status[b] = "ALIVE"}

TypeOK ==
    /\ processList \in [Pid -> Proc \cup {NoProc}]
    /\ status \in [Proc -> {"NONE", "ALIVE", "ZOMBIE"}]
    /\ thread \in [Proc -> {"NONE", "READY", "WAITING", "DEAD"}]
    /\ finishedSem \in [Proc -> 0 .. MaxSignals]
    /\ lockedQueue \in [Proc -> Seq(Proc)]
    /\ waiting \in [Proc -> Pid \cup {0}]
    /\ process_count \in 0 .. 1 + Cardinality(Pid)
    /\ alive_process_count \in Int
    /\ ending \in Proc \cup {NoProc}
    /\ awaited \in [Proc -> Proc \cup {NoProc}]
    /\ reaperKilled \subseteq Proc

\* Init is running and has started nothing yet.
Init ==
    /\ processList = [p \in Pid |-> NoProc]
    /\ status = [b \in Proc |-> "NONE"]
    /\ thread = [b \in Proc |-> "NONE"]
    /\ finishedSem = [b \in Proc |-> 0]
    /\ lockedQueue = [b \in Proc |-> <<>>]
    /\ waiting = [b \in Proc |-> 0]
    /\ process_count = 1
    /\ alive_process_count = 1
    /\ ending = NoProc
    /\ awaited = [b \in Proc |-> NoProc]
    /\ reaperKilled = {}

\* The thread may run user code, and so make a call.
InUserMode(c) == thread[c] = "READY" /\ waiting[c] = 0 /\ ending = NoProc

-----------------------------------------------------------------------------
\* Mutant of FreePid: the slot of a zombie counts as free.
FreePidOrZombie(p) ==
    LET free == {n \in Pid : \/ processList[n] = NoProc
                             \/ status[processList[n]] = "ZOMBIE"}
    IN  p \in free /\ \A n \in free : p <= n

\* getFreePID: the first free slot.
FreePid(p) ==
    /\ processList[p] = NoProc
    /\ \A n \in Pid : n < p => processList[n] # NoProc

\* Memory that nothing refers to any more, wait queues included.
Unused(b) ==
    /\ status[b] = "NONE" /\ thread[b] = "NONE" /\ lockedQueue[b] = <<>>
    /\ \A c \in Proc : thread[c] = "WAITING" => awaited[c] # b

\* Allocations are not told apart: the first unused one stands for any.
CreateProcess(b, p) ==
    /\ FreePid(p)
    /\ Unused(b) /\ \A c \in Proc : c < b => ~Unused(c)
    /\ processList' = [processList EXCEPT ![p] = b]
    /\ status' = [status EXCEPT ![b] = "ALIVE"]
    /\ thread' = [thread EXCEPT ![b] = "READY"]
    /\ finishedSem' = [finishedSem EXCEPT ![b] = 0]
    /\ process_count' = process_count + 1
    /\ alive_process_count' = alive_process_count + 1
    /\ UNCHANGED <<lockedQueue, waiting, ending, awaited, reaperKilled>>

NewProcess(c, b, p) == InUserMode(c) /\ CreateProcess(b, p)

\* initThread, which the scheduler runs when no thread is listed.
StartShell(b, p) ==
    /\ alive_process_count = 1
    /\ ending = NoProc
    /\ \A c \in Proc : thread[c] # "READY"
    /\ CreateProcess(b, p)

-----------------------------------------------------------------------------
\* Mutant of FirstLive: the head is woken without a look at its status.
FirstEvenDead(q, k, killed) == k = 1

\* The first waiter of q that is not killed, Len + 1 if there is none.
FirstLive(q, k, killed) ==
    /\ k \in 1 .. Len(q) + 1
    /\ \A i \in 1 .. k - 1 : q[i] \in killed
    /\ k <= Len(q) => q[k] \notin killed

\* sem_signal of b's finishedSem, when the threads in killed are DEAD: killed
\* waiters are freed, the first live one is made ready.
Signal(b, killed) ==
    LET q == lockedQueue[b] IN
    \E k \in 1 .. Len(q) + 1 :
        /\ FirstLive(q, k, killed)
        /\ lockedQueue' = [lockedQueue EXCEPT ![b] = SubSeq(q, k + 1, Len(q))]
        /\ thread' = [c \in Proc |->
                IF \E i \in 1 .. k - 1 : q[i] = c THEN "NONE"
                ELSE IF k <= Len(q) /\ q[k] = c THEN "READY"
                ELSE IF c \in killed THEN "DEAD"
                ELSE IF c = b THEN "NONE" ELSE thread[c]]
        /\ IF k <= Len(q) THEN finishedSem' = finishedSem
           ELSE /\ finishedSem[b] < MaxSignals
                /\ finishedSem' = [finishedSem EXCEPT ![b] = @ + 1]

Killed == {c \in Proc : thread[c] = "DEAD"}

\* killProcess, run by kill, exit, an exception, or Ctrl-C at any time and for
\* any pid, as system call 48 gives the foreground to any.  It asks for a valid
\* pid only: a zombie is counted out and signalled again.
KillProcess(p) ==
    LET b == processList[p] IN
    /\ b # NoProc
    /\ b \notin Alive => 1 + Cardinality(Alive) - alive_process_count < MaxDrift
    /\ status' = [status EXCEPT ![b] = "ZOMBIE"]
    /\ alive_process_count' = alive_process_count - 1
    /\ Signal(b, Killed \cup (IF thread[b] = "WAITING" THEN {b} ELSE {}))
    /\ reaperKilled' = (IF waiting[b] # 0 /\ thread[b] = "READY" /\ finishedSem[awaited[b]] = 0
                        THEN reaperKilled \cup {awaited[b]} ELSE reaperKilled) \ {b}
    /\ waiting' = [waiting EXCEPT ![b] = 0]
    /\ awaited' = [awaited EXCEPT ![b] = NoProc]
    /\ ending' = IF ending = b THEN NoProc ELSE ending
    /\ UNCHANGED <<processList, process_count>>

-----------------------------------------------------------------------------
\* Mutant of Reap: the slot is not cleared.
ReapKeepsSlot(p) ==
    /\ processList' = processList
    /\ status' = [status EXCEPT ![processList[p]] = "NONE"]
    /\ process_count' = process_count - 1
    /\ reaperKilled' = reaperKilled \ {processList[p]}

\* The end of waitpid: the PCB that the pid names NOW is erased.
Reap(p) ==
    /\ processList' = [processList EXCEPT ![p] = NoProc]
    /\ status' = [status EXCEPT ![processList[p]] = "NONE"]
    /\ process_count' = process_count - 1
    /\ reaperKilled' = reaperKilled \ {processList[p]}

\* waitpid when sem_wait finds a token.
WaitTake(c, p) ==
    LET b == processList[p] IN
    /\ InUserMode(c)
    /\ b # NoProc
    /\ finishedSem[b] > 0
    /\ finishedSem' = [finishedSem EXCEPT ![b] = @ - 1]
    /\ Reap(p)
    /\ UNCHANGED <<thread, lockedQueue, waiting, alive_process_count,
                   ending, awaited>>

\* waitpid when it finds none.
WaitBlock(c, p) ==
    LET b == processList[p] IN
    /\ InUserMode(c)
    /\ b # NoProc
    /\ finishedSem[b] = 0
    /\ lockedQueue' = [lockedQueue EXCEPT ![b] = Append(@, c)]
    /\ thread' = [thread EXCEPT ![c] = "WAITING"]
    /\ waiting' = [waiting EXCEPT ![c] = p]
    /\ awaited' = [awaited EXCEPT ![c] = b]
    /\ UNCHANGED <<table, finishedSem, ending, reaperKilled>>

\* The rest of waitpid, when the thread is dispatched again.
WaitReturn(c) ==
    /\ thread[c] = "READY" /\ waiting[c] # 0 /\ ending = NoProc
    /\ processList[waiting[c]] # NoProc
    /\ Reap(waiting[c])
    /\ waiting' = [waiting EXCEPT ![c] = 0]
    /\ awaited' = [awaited EXCEPT ![c] = NoProc]
    /\ UNCHANGED <<thread, finishedSem, lockedQueue, alive_process_count, ending>>

-----------------------------------------------------------------------------
\* The clients of the passing runs wait as the shell does: nobody waits for a
\* process that another one waits for, nor for itself.
OneWaiter(c, p) ==
    /\ processList[p] # c
    /\ \A d \in Proc : waiting[d] # p

Shared == \/ \E b \in Proc, p \in Pid : \/ StartShell(b, p)
                                        \/ \E c \in Proc : NewProcess(c, b, p)
          \/ \E p \in Pid : KillProcess(p)
          \/ \E c \in Proc : WaitReturn(c)

Next == \/ Shared
        \/ \E c \in Proc, p \in Pid :
            OneWaiter(c, p) /\ (WaitTake(c, p) \/ WaitBlock(c, p))

Spec == Init /\ [][Next]_vars

\* waitpid checks no parenthood: several threads may wait for one process.
NextAnyWaiter == Shared \/ \E c \in Proc, p \in Pid : WaitTake(c, p) \/ WaitBlock(c, p)
SpecAnyWaiter == Init /\ [][NextAnyWaiter]_vars

-----------------------------------------------------------------------------
\* processWrapper, when the main routine returns: killProcess with interrupts
\* enabled.  Its first step takes the running thread out of the run queue.
EndPurge(c) ==
    /\ InUserMode(c)
    /\ thread' = [thread EXCEPT ![c] = "NONE"]
    /\ ending' = c
    /\ UNCHANGED <<table, finishedSem, lockedQueue, waiting, awaited, reaperKilled>>

EndMark(c) ==
    /\ ending = c /\ status[c] = "ALIVE"
    /\ status' = [status EXCEPT ![c] = "ZOMBIE"]
    /\ alive_process_count' = alive_process_count - 1
    /\ UNCHANGED <<processList, process_count, thread, finishedSem,
                   lockedQueue, waiting, ending, awaited, reaperKilled>>

EndSignal(c) ==
    /\ ending = c /\ status[c] = "ZOMBIE"
    /\ Signal(c, Killed)
    /\ ending' = NoProc
    /\ UNCHANGED <<table, waiting, awaited, reaperKilled>>

\* A timer interrupt meanwhile: the thread is listed nowhere and never comes back.
EndTick ==
    /\ ending # NoProc
    /\ ending' = NoProc
    /\ UNCHANGED <<table, thread, finishedSem, lockedQueue, waiting, awaited,
                   reaperKilled>>

NextWrapper == Next \/ EndTick \/ \E c \in Proc : EndPurge(c) \/ EndMark(c) \/ EndSignal(c)
SpecWrapper == Init /\ [][NextWrapper]_vars

-----------------------------------------------------------------------------
\* waitpid reads processList[pid] before and after it sleeps: the process it is
\* about to erase is the one it waited for, and has ended.
ReapsItsOwn ==
    \A c \in Proc :
        thread[c] = "READY" /\ waiting[c] # 0 =>
            processList[waiting[c]] = awaited[c] /\ status[awaited[c]] = "ZOMBIE"

\* createProcess and waitpid keep the table: a pid names a PCB, a PCB has one
\* pid, none is lost, and process_count is the number of slots in use.
SlotsExact ==
    /\ \A p \in Pid : processList[p] # NoProc =>
        /\ status[processList[p]] # "NONE"
        /\ \A n \in Pid : processList[n] = processList[p] => n = p
    /\ \A b \in Proc : status[b] # "NONE" => \E p \in Pid : processList[p] = b
    /\ process_count = 1 + Cardinality({p \in Pid : processList[p] # NoProc})

\* There is a token for the next waitpid, or a thread on its way to reap it.
Reapable(b) ==
    \/ finishedSem[b] > 0
    \/ \E c \in Proc : thread[c] = "READY" /\ waiting[c] # 0 /\ awaited[c] = b

\* killProcess and waitpid: the zombies that nobody can reap, whose waitpid would
\* sleep for ever, are exactly those whose reaper was killed between its waking
\* and its reaping, until they are killed again.  No other end is lost, and no
\* such zombie is found by a later waitpid.
ZombieReapable ==
    reaperKilled = {b \in Proc : status[b] = "ZOMBIE" /\ ~ Reapable(b)}

\* initThread tests alive_process_count: it never counts a process that ended, so
\* that the shell is started again, and not beside another process, unless a
\* zombie was killed (a second token).
NeverOvercounted ==
    alive_process_count <= 1 + Cardinality(Alive)

\* The table, its types and its counts.
TableExact == TypeOK /\ SlotsExact /\ NeverOvercounted

\* TP2: waitpid sleeps until the process ends: no thread waits for one that has.
NoMissedEnd ==
    \A c \in Proc : thread[c] = "WAITING" => status[awaited[c]] = "ALIVE"

\* TP2: the wrapper guarantees the call to killProcess: a process without its main
\* thread has ended, or its killProcess is under way.
WrapperReleases ==
    \A b \in Proc : status[b] = "ALIVE" /\ thread[b] = "NONE" => ending = b
=============================================================================
