----------------------------- MODULE Scheduler ------------------------------
(***************************************************************************)
(* The two-level scheduler of the Leah kernel: scheduler.c over            *)
(* roundRobinWithPriority.c (queue 0, the threads with a niceness) and     *)
(* roundRobin.c (queue 1, the others).                                     *)
(*                                                                         *)
(* An unlisted thread is one not created yet or one that waits; which      *)
(* handlers list and delist threads is the matter of ThreadSync.  A call   *)
(* that blocks is two steps, the delisting and the forced switch.          *)
(***************************************************************************)
EXTENDS Integers, SequencesExt

CONSTANTS Thread, Process,
          ProcessOf,    \* [Thread -> Process]
          ThreadOrder,  \* every thread once, those of a process by tid
          MaxPriority,  \* MAX_PRIORITY: the niceness goes from 0 to it
          Quantum,      \* queueQuantum of queue 0 and of queue 1
          MaxNiced,     \* bound: calls of setNiceness explored
          Idle          \* thread 0 of process 0, in no list (initThread)

ASSUME SchedulerAssumption ==
    /\ ProcessOf \in [Thread -> Process]
    /\ ThreadOrder \in Seq(Thread)
    /\ \A t \in Thread : \E i \in DOMAIN ThreadOrder : ThreadOrder[i] = t
    /\ \A i, j \in DOMAIN ThreadOrder : ThreadOrder[i] = ThreadOrder[j] => i = j
    /\ MaxPriority \in Nat \ {0}
    /\ Quantum \in [{0, 1} -> Nat \ {0}]
    /\ MaxNiced \in Nat
    /\ Idle \notin Thread

VARIABLES
    nice,             \* process->nice
    roundRobin,       \* data->queue of queue 1, the head first
    queues,           \* data->queues of queue 0, one for each niceness above 0
    backupQueue,      \* data->backupQueue: those of the level that had their turn
    currentPriority,  \* data->currentPriority
    threadCount,      \* q->threadCount of queue 0
    queueID,          \* thread->queueID
    timeSlice,        \* thread->currTimeSlice
    currQueue, currTimeSlice, FORCE,
    current,          \* currentThread
    niced             \* calls of setNiceness so far

lists == <<roundRobin, queues, backupQueue, threadCount, queueID>>
vars  == <<nice, lists, currentPriority, timeSlice, currQueue, currTimeSlice,
           FORCE, current, niced>>

Level == 0 .. MaxPriority - 1
Holds(q, t) == \E i \in DOMAIN q : q[i] = t
Listed(t) == Holds(roundRobin, t) \/ Holds(backupQueue, t) \/ \E l \in Level : Holds(queues[l], t)

\* An int is 32 bits wide: the slice counters stay far below that.
TypeOK ==
    /\ nice \in [Process -> 0 .. MaxPriority]
    /\ roundRobin \in Seq(Thread) /\ backupQueue \in Seq(Thread)
    /\ queues \in [Level -> Seq(Thread)]
    /\ currentPriority \in Level
    /\ threadCount \in Nat
    /\ queueID \in [Thread -> {0, 1}] /\ timeSlice \in [Thread -> Nat]
    /\ currQueue \in {0, 1} /\ currTimeSlice \in Nat /\ FORCE \in BOOLEAN
    /\ current \in Thread \cup {Idle}
    /\ niced \in 0 .. MaxNiced

\* Init's thread runs, the first process has just been created.  Nobody clears
\* the currTimeSlice of a new thread: it is whatever the memory held.
Init ==
    /\ nice = [p \in Process |-> 0]
    /\ \E t \in Thread : roundRobin = <<t>>
    /\ queues = [l \in Level |-> <<>>] /\ backupQueue = <<>>
    /\ currentPriority = MaxPriority - 1
    /\ threadCount = 0
    /\ queueID = [t \in Thread |-> 1]
    /\ timeSlice \in [Thread -> {0, 1}]
    /\ currQueue = 0 /\ currTimeSlice = 0 /\ FORCE = FALSE
    /\ current = Idle
    /\ niced = 0

-----------------------------------------------------------------------------
\* Mutant of Enqueue: every level's threads wait in the backup queue.
EnqueueInBackup(t) ==
    LET n == nice[ProcessOf[t]] IN
    /\ ~ Listed(t) /\ t # current
    /\ queueID' = [queueID EXCEPT ![t] = IF n = 0 THEN 1 ELSE 0]
    /\ roundRobin' = IF n = 0 THEN Append(roundRobin, t) ELSE roundRobin
    /\ backupQueue' = IF n > 0 THEN Append(backupQueue, t) ELSE backupQueue
    /\ threadCount' = IF n = 0 THEN threadCount ELSE threadCount + 1
    /\ UNCHANGED <<nice, queues, currentPriority, timeSlice, currQueue,
                   currTimeSlice, FORCE, current, niced>>

\* scheduler_enqueue(t, 0).  A thread of the level that has the turn waits in
\* the backup queue for the next one.
Enqueue(t) ==
    LET n == nice[ProcessOf[t]]
        late == n > 0 /\ n - 1 = currentPriority
    IN
    /\ ~ Listed(t) /\ t # current
    /\ queueID' = [queueID EXCEPT ![t] = IF n = 0 THEN 1 ELSE 0]
    /\ roundRobin' = IF n = 0 THEN Append(roundRobin, t) ELSE roundRobin
    /\ backupQueue' = IF late THEN Append(backupQueue, t) ELSE backupQueue
    /\ queues' = IF n > 0 /\ ~ late THEN [queues EXCEPT ![n - 1] = Append(@, t)]
                 ELSE queues
    /\ threadCount' = IF n = 0 THEN threadCount ELSE threadCount + 1
    /\ UNCHANGED <<nice, currentPriority, timeSlice, currQueue, currTimeSlice,
                   FORCE, current, niced>>

\* q->removeThread: the list is found by queueID, niceness and currentPriority.
Delist(t) ==
    LET l == nice[ProcessOf[t]] - 1
        inLevel  == queueID[t] = 0 /\ Holds(queues[l], t)
        inBackup == queueID[t] = 0 /\ ~ inLevel /\ currentPriority = l
                    /\ Holds(backupQueue, t)
    IN
    /\ roundRobin' = IF queueID[t] = 1 THEN RemoveFirst(roundRobin, t) ELSE roundRobin
    /\ queues' = IF inLevel THEN [queues EXCEPT ![l] = RemoveFirst(@, t)] ELSE queues
    /\ backupQueue' = IF inBackup THEN RemoveFirst(backupQueue, t) ELSE backupQueue
    /\ threadCount' = IF inLevel \/ inBackup THEN threadCount - 1 ELSE threadCount
    /\ UNCHANGED queueID

\* A waiter or a killed thread is delisted.  The running thread's own delisting
\* asks for a switch, if its list had it.
Dequeue(t) ==
    /\ Listed(t)
    /\ Delist(t)
    /\ FORCE' = IF t = current /\ lists' # lists THEN TRUE ELSE FORCE
    /\ UNCHANGED <<nice, currentPriority, timeSlice, currQueue, currTimeSlice,
                   current, niced>>

\* nice > 5 || nice < 0 is refused.
NiceInRange(n) == n <= MaxPriority

\* The members of q that are in P, in their order.
Among(q, P) ==
    LET Kept[i \in 0 .. Len(q)] ==
            IF i = 0 THEN <<>>
            ELSE IF q[i] \in P THEN Append(Kept[i - 1], q[i]) ELSE Kept[i - 1]
    IN  Kept[Len(q)]

\* setNiceness, called by the running thread for a process none of whose threads
\* waits: its listed threads leave their list and join the one of the new
\* niceness, in the order of their tids.
SetNiceness(p, n) ==
    LET P == {t \in Thread : ProcessOf[t] = p /\ Listed(t)}
        moved == Among(ThreadOrder, P)
        Without(q) == Among(q, Thread \ P)
        late == n > 0 /\ n - 1 = currentPriority
    IN
    /\ niced < MaxNiced /\ niced' = niced + 1
    /\ current # Idle /\ Listed(current)
    /\ P # {} /\ NiceInRange(n) /\ nice[p] # n
    /\ nice' = [nice EXCEPT ![p] = n]
    /\ queueID' = [t \in Thread |-> IF t \notin P THEN queueID[t] ELSE IF n = 0 THEN 1 ELSE 0]
    /\ roundRobin' = Without(roundRobin) \o (IF n = 0 THEN moved ELSE <<>>)
    /\ backupQueue' = Without(backupQueue) \o (IF late THEN moved ELSE <<>>)
    /\ queues' = [l \in Level |-> Without(queues[l])
                    \o (IF n > 0 /\ ~ late /\ l = n - 1 THEN moved ELSE <<>>)]
    /\ threadCount' = threadCount + (IF n > 0 THEN Cardinality(P) ELSE 0)
                                  - (IF nice[p] > 0 THEN Cardinality(P) ELSE 0)
    /\ FORCE' = (FORCE \/ current \in P)
    /\ UNCHANGED <<currentPriority, timeSlice, currQueue, currTimeSlice, current>>

-----------------------------------------------------------------------------
\* queueSchedule of queue 1.
PickRoundRobin ==
    /\ roundRobin # <<>>
    /\ current' = Head(roundRobin)
    /\ roundRobin' = Append(Tail(roundRobin), Head(roundRobin))
    /\ UNCHANGED <<queues, backupQueue, threadCount, queueID, currentPriority, timeSlice>>

Below(l, k) == (l - k + MaxPriority) % MaxPriority

\* getNext: the level that has the turn, and once it is used up the next level
\* below it (above the lowest comes the highest) that lists a thread.
GetNext ==
    LET used  == queues[currentPriority] = <<>> /\ backupQueue # <<>>
        full  == IF used THEN [queues EXCEPT ![currentPriority] = backupQueue] ELSE queues
        after == IF used THEN <<>> ELSE backupQueue
        start == IF used THEN Below(currentPriority, 1) ELSE currentPriority
    IN
    \E k \in Level :
        LET l == Below(start, k) IN
        /\ full[l] # <<>>
        /\ \A j \in 0 .. k - 1 : full[Below(start, j)] = <<>>
        /\ currentPriority' = l
        /\ current' = Head(full[l])
        /\ queues' = [full EXCEPT ![l] = Tail(@)]
        /\ backupQueue' = Append(after, Head(full[l]))
        /\ timeSlice' = [timeSlice EXCEPT ![Head(full[l])] = 0]
        /\ UNCHANGED <<roundRobin, threadCount, queueID>>

\* Mutant of PickByPriority: the running thread keeps its turn even when it asked
\* for the switch because it delisted itself.
PickStaleCurrent(forced) ==
    /\ threadCount > 0
    /\ IF current # Idle /\ queueID[current] = 0
       THEN /\ timeSlice' = [timeSlice EXCEPT ![current] = @ + 1]
            /\ UNCHANGED <<lists, currentPriority, current>>
       ELSE GetNext

\* rrwp_queueSchedule.
PickByPriority(forced) ==
    LET keeps == /\ current # Idle /\ queueID[current] = 0 /\ ~ forced
                 /\ timeSlice[current] % (nice[ProcessOf[current]] + 3) # 0
    IN
    /\ threadCount > 0
    /\ IF keeps
       THEN /\ timeSlice' = [timeSlice EXCEPT ![current] = @ + 1]
            /\ UNCHANGED <<lists, currentPriority, current>>
       ELSE GetNext

\* Mutant of ShortTerm: the used up slice does not hand the turn over.
ShortTermSameQueue(forced) ==
    LET Empty(q) == IF q = 0 THEN threadCount = 0 ELSE roundRobin = <<>>
    IN
    /\ currQueue' = IF Empty(currQueue) /\ ~ Empty(1 - currQueue)
                    THEN 1 - currQueue ELSE currQueue
    /\ currTimeSlice' = IF currTimeSlice > Quantum[currQueue] THEN 0
                        ELSE currTimeSlice + IF forced THEN 0 ELSE 1
    /\ FORCE' = FALSE
    /\ \/ currQueue' = 0 /\ PickByPriority(forced)
       \/ currQueue' = 1 /\ PickRoundRobin
       \/ Empty(0) /\ Empty(1) /\ current' = Idle
          /\ UNCHANGED <<lists, currentPriority, timeSlice>>
    /\ UNCHANGED <<nice, niced>>

\* scheduler_shortTerm: a used up slice hands the turn to the other queue, an
\* empty queue passes it on with what is left of the slice.
ShortTerm(forced) ==
    LET over == currTimeSlice > Quantum[currQueue]
        first == IF over THEN 1 - currQueue ELSE currQueue
        slice == IF over THEN 0 ELSE currTimeSlice
        Empty(q) == IF q = 0 THEN threadCount = 0 ELSE roundRobin = <<>>
    IN
    /\ currQueue' = IF Empty(first) /\ ~ Empty(1 - first) THEN 1 - first ELSE first
    /\ currTimeSlice' = IF forced THEN slice ELSE slice + 1
    /\ FORCE' = FALSE
    /\ \/ currQueue' = 0 /\ PickByPriority(forced)
       \/ currQueue' = 1 /\ PickRoundRobin
       \/ Empty(0) /\ Empty(1) /\ current' = Idle
          /\ UNCHANGED <<lists, currentPriority, timeSlice>>
    /\ UNCHANGED <<nice, niced>>

\* The timer interrupts the running thread, also one that has just delisted
\* itself, in a wrapper, where interrupts are enabled.
Tick == ShortTerm(FORCE)

\* _force_scheduler: by a thread that delisted itself, and by Init's for ever.
\* noTimer sets FORCE, so that the switch does not count as a tick.
Yield == (current = Idle \/ ~ Listed(current)) /\ ShortTerm(TRUE)

Next ==
    \/ \E t \in Thread : Enqueue(t) \/ Dequeue(t)
    \/ \E p \in Process, n \in 0 .. MaxPriority + 1 : SetNiceness(p, n)
    \/ Tick
    \/ Yield

\* Interrupts are disabled inside a handler only, and the PIT's request stays
\* pending meanwhile: if threads run again and again, a tick comes that finds one
\* that has not just delisted itself.
Fairness == WF_vars(Yield) /\ SF_vars(Listed(current) /\ Tick)
Spec == Init /\ [][Next]_vars /\ Fairness

-----------------------------------------------------------------------------
\* The lists by their place: queue 1, the backup queue, and the levels of queue 0.
ListAt(place) ==
    IF place = -1 THEN roundRobin ELSE IF place = -2 THEN backupQueue ELSE queues[place]
Place == {-1, -2} \cup Level

Once(q, t) == \E i \in DOMAIN q : q[i] = t /\ \A j \in DOMAIN q : q[j] = t => j = i

\* rrwp_removeThread and removeThread look in one place: the one list that names
\* the thread, once.  Otherwise a killed thread stays listed.
FoundByRemove ==
    \A t \in Thread : Listed(t) =>
        LET l == nice[ProcessOf[t]] - 1 IN
        \E place \in Place :
            /\ Once(ListAt(place), t)
            /\ \A other \in Place \ {place} : ~ Holds(ListAt(other), t)
            /\ IF queueID[t] = 1 THEN place = -1 /\ l = -1
               ELSE place # -1 /\ (place = l \/ (place = -2 /\ currentPriority = l))

\* getNext searches until it meets a thread: with a count above what its queues
\* list it would search for ever, with one below it threads would be passed over.
CountExact ==
    threadCount = Cardinality({t \in Thread : \E place \in Place \ {-1} : Holds(ListAt(place), t)})

\* The lists, their counts and their types.
QueuesExact == TypeOK /\ FoundByRemove /\ CountExact

\* Every dispatch, forced or not, ends with a listed thread, or with Init's when
\* none is: a thread that has delisted itself is not kept by the rule that lets
\* the running thread go on.
DispatchesListed ==
    [][ Tick \/ Yield =>
            IF current' = Idle THEN \A t \in Thread : ~ Listed(t)' ELSE Listed(current)' ]_vars

\* The kernel's promise to ThreadSync: only a listed thread gets the processor.
RQ == INSTANCE RunQueue WITH ready <- {t \in Thread : Listed(t)}, running <- current
ImplementsRunQueue == RQ!Spec

\* The two: what the kernel relies on when it forces a dispatch.
RunsListed == ImplementsRunQueue /\ DispatchesListed

\* TP3: "la inanicion es, bajo este esquema, imposible".  A listed thread runs
\* unless it is delisted, whatever the others do and whatever its niceness.
NoStarvation == \A t \in Thread : Listed(t) ~> (current = t \/ ~ Listed(t))

-----------------------------------------------------------------------------
\* TP3: a thread of queue 0 runs for nice + 3 ticks before another one of the
\* queue does.  timeSlice is the code's own count of the ticks it has run.
QuantumOfNice ==
    [][ Tick /\ current # Idle /\ ~ FORCE /\ queueID[current] = 0
        /\ current' # Idle /\ currQueue' = 0 /\ current' # current
        => timeSlice[current] + 1 >= nice[ProcessOf[current]] + 3 ]_vars
=============================================================================
