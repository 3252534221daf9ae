----------------------------- MODULE DataProofs -----------------------------
(***************************************************************************)
(* Proofs about the parts of Data, each with its inductive invariant: the  *)
(* processes, the heap, the terminal, the keyboard, the table of commands  *)
(* and the digital clock.                                                  *)
(***************************************************************************)
EXTENDS Data, SequenceTheorems, FiniteSetTheorems, WellFoundedInduction, TLAPS

-----------------------------------------------------------------------------
(* Processes: any number of pids and allocations, clients that wait as the *)
(* shell does (Spec).                                                      *)

\* The inductive strengthening.  Who is in waitpid names a process that its pid still
\* names, and is the only one to wait for it.
WaitersNamed ==
    /\ ending = NoProc
    /\ \A c \in Proc :
        /\ waiting[c] # 0 => awaited[c] # NoProc /\ processList[waiting[c]] = awaited[c]
        /\ thread[c] \in {"NONE", "DEAD"} => waiting[c] = 0
        /\ thread[c] = "WAITING" => waiting[c] # 0
    /\ \A c, d \in Proc : waiting[c] # 0 /\ waiting[c] = waiting[d] => c = d

\* The entries of a wait queue wait for its process or were killed.
EntriesWait ==
    \A b \in Proc : \A i \in 1 .. Len(lockedQueue[b]) :
        /\ thread[lockedQueue[b][i]] \in {"WAITING", "DEAD"}
        /\ thread[lockedQueue[b][i]] = "WAITING" => awaited[lockedQueue[b][i]] = b

\* A thread is in one queue, once.
QueuedOnce ==
    \A b, c \in Proc : \A i \in 1 .. Len(lockedQueue[b]) : \A j \in 1 .. Len(lockedQueue[c]) :
        lockedQueue[b][i] = lockedQueue[c][j] => b = c /\ i = j

\* finishedSem has no token before the end.
NoEarlyToken == \A b \in Proc : status[b] = "ALIVE" => finishedSem[b] = 0

Waits == WaitersNamed /\ EntriesWait /\ QueuedOnce /\ NoEarlyToken /\ ReapsItsOwn /\ ZombieReapable
IInv  == TypeOK /\ SlotsExact /\ NeverOvercounted /\ Waits

-----------------------------------------------------------------------------
\* The slots in use are counted one up when a free one is taken.
LEMMA SlotTaken ==
    ASSUME TypeOK, NEW p \in Pid, NEW b \in Proc,
           processList[p] = NoProc, processList' = [processList EXCEPT ![p] = b]
    PROVE  Cardinality({n \in Pid : processList'[n] # NoProc})
             = Cardinality({n \in Pid : processList[n] # NoProc}) + 1
  <1> DEFINE U == {n \in Pid : processList[n] # NoProc}
  <1>1. IsFiniteSet(U)
    BY FS_Subset, ProcessTableAssumption
  <1>2. {n \in Pid : processList'[n] # NoProc} = U \cup {p}
    BY ProcessTableAssumption DEF TypeOK
  <1>3. p \notin U
    OBVIOUS
  <1>4. QED
    BY <1>1, <1>2, <1>3, FS_AddElement

\* And one down when one is cleared.
LEMMA SlotCleared ==
    ASSUME TypeOK, NEW p \in Pid,
           processList[p] # NoProc, processList' = [processList EXCEPT ![p] = NoProc]
    PROVE  Cardinality({n \in Pid : processList'[n] # NoProc})
             = Cardinality({n \in Pid : processList[n] # NoProc}) - 1
  <1> DEFINE U == {n \in Pid : processList[n] # NoProc}
  <1>1. IsFiniteSet(U)
    BY FS_Subset, ProcessTableAssumption
  <1>2. {n \in Pid : processList'[n] # NoProc} = U \ {p}
    BY ProcessTableAssumption DEF TypeOK
  <1>3. p \in U
    OBVIOUS
  <1>4. QED
    BY <1>1, <1>2, <1>3, FS_RemoveElement

\* process_count stays within its type, as it counts slots.
LEMMA CountInRange ==
    ASSUME NEW U \in SUBSET Pid
    PROVE  /\ Cardinality(U) \in Nat
           /\ 1 + Cardinality(U) \in 0 .. 1 + Cardinality(Pid)
  <1>1. IsFiniteSet(Pid)
    BY ProcessTableAssumption
  <1>2. Cardinality(U) <= Cardinality(Pid) /\ IsFiniteSet(U)
    BY <1>1, FS_Subset
  <1>3. Cardinality(U) \in Nat /\ Cardinality(Pid) \in Nat
    BY <1>1, <1>2, FS_CardinalityType
  <1>4. QED
    BY <1>2, <1>3

\* The processes that are alive are finitely many.
LEMMA AliveFinite ==
    IsFiniteSet(Alive) /\ Cardinality(Alive) \in Nat
  BY FS_Subset, FS_CardinalityType, ProcessTableAssumption DEF Alive

\* Wait queues hold threads.
LEMMA QueueEntries ==
    ASSUME TypeOK, NEW b \in Proc
    PROVE  /\ lockedQueue[b] \in Seq(Proc) /\ Len(lockedQueue[b]) \in Nat
           /\ \A i \in 1 .. Len(lockedQueue[b]) : lockedQueue[b][i] \in Proc
  <1>1. lockedQueue[b] \in Seq(Proc)
    BY DEF TypeOK
  <1>2. QED
    BY <1>1

-----------------------------------------------------------------------------
\* createProcess keeps the invariant.
LEMMA CreateStep ==
    ASSUME IInv, NEW b \in Proc, NEW p \in Pid, CreateProcess(b, p)
    PROVE  IInv'
  <1> USE DEF IInv, Waits
  <1>0. NoProc \notin Proc /\ 0 \notin Pid /\ MaxSignals \in Nat
    BY ProcessTableAssumption
  <1>1. /\ processList[p] = NoProc /\ status[b] = "NONE" /\ thread[b] = "NONE"
        /\ lockedQueue[b] = <<>> /\ waiting[b] = 0
    BY <1>0 DEF CreateProcess, FreePid, Unused, WaitersNamed
  <1>2. \A n \in Pid : processList[n] # b
    BY <1>0, <1>1 DEF SlotsExact, TypeOK
  <1>3. SlotsExact'
    <2>1. process_count' = 1 + Cardinality({n \in Pid : processList'[n] # NoProc})
      <3>1. Cardinality({n \in Pid : processList[n] # NoProc}) \in Nat
        BY CountInRange
      <3>2. Cardinality({n \in Pid : processList'[n] # NoProc})
              = Cardinality({n \in Pid : processList[n] # NoProc}) + 1
        BY <1>1, SlotTaken DEF CreateProcess
      <3>3. QED
        BY <3>1, <3>2 DEF CreateProcess, SlotsExact
    <2>2. \A n \in Pid : processList'[n] # NoProc =>
            /\ status'[processList'[n]] # "NONE"
            /\ \A m \in Pid : processList'[m] = processList'[n] => m = n
      BY <1>1, <1>2 DEF CreateProcess, SlotsExact, TypeOK
    <2>3. ASSUME NEW c \in Proc, status'[c] # "NONE"
          PROVE  \E n \in Pid : processList'[n] = c
      <3>1. CASE c = b
        BY <3>1 DEF CreateProcess, TypeOK
      <3>2. CASE c # b
        <4>1. PICK n \in Pid : processList[n] = c
          BY <2>3, <3>2 DEF CreateProcess, SlotsExact, TypeOK
        <4>2. n # p
          BY <1>0, <1>1, <4>1
        <4>3. QED
          BY <4>1, <4>2 DEF CreateProcess, TypeOK
      <3>3. QED
        BY <3>1, <3>2
    <2>4. QED
      BY <2>1, <2>2, <2>3 DEF SlotsExact
  <1>4. TypeOK'
    <2>1. process_count' \in 0 .. 1 + Cardinality(Pid)
      BY <1>3, CountInRange DEF SlotsExact
    <2>2. QED
      BY <1>0, <2>1 DEF CreateProcess, TypeOK
  <1>5. NeverOvercounted'
    <2>1. Alive' = Alive \cup {b} /\ b \notin Alive
      BY <1>1 DEF CreateProcess, Alive, TypeOK
    <2>2. Cardinality(Alive') = Cardinality(Alive) + 1
      BY <2>1, AliveFinite, FS_AddElement
    <2>3. QED
      BY <2>2, AliveFinite DEF CreateProcess, NeverOvercounted, TypeOK
  <1>6. WaitersNamed'
    BY <1>1, <1>2 DEF CreateProcess, WaitersNamed, TypeOK
  <1>7. EntriesWait' /\ QueuedOnce'
    <2>1. lockedQueue' = lockedQueue
      BY DEF CreateProcess
    <2>2. QueuedOnce'
      BY <2>1 DEF QueuedOnce
    <2>3. ASSUME NEW x \in Proc, NEW i \in 1 .. Len(lockedQueue[x])
          PROVE  lockedQueue[x][i] \in Proc /\ lockedQueue[x][i] # b
      BY <1>1, <2>3, QueueEntries DEF EntriesWait
    <2>4. awaited' = awaited /\ \A c \in Proc : c # b => thread'[c] = thread[c]
      BY DEF CreateProcess, TypeOK
    <2>5. EntriesWait'
      BY <2>1, <2>3, <2>4 DEF EntriesWait
    <2>6. QED
      BY <2>2, <2>5
  <1>8. NoEarlyToken'
    BY DEF CreateProcess, NoEarlyToken, TypeOK
  <1>9. ReapsItsOwn'
    BY <1>1, <1>2 DEF CreateProcess, ReapsItsOwn, WaitersNamed, TypeOK
  <1>10. ZombieReapable'
    <2>1. \A x \in Proc : x # b => status'[x] = status[x] /\ finishedSem'[x] = finishedSem[x]
      BY DEF CreateProcess, TypeOK
    <2>2. \A c \in Proc : c # b => thread'[c] = thread[c]
      BY DEF CreateProcess, TypeOK
    <2>3. waiting' = waiting /\ awaited' = awaited /\ reaperKilled' = reaperKilled
      BY DEF CreateProcess
    <2>4. \A x \in Proc : x # b => (Reapable(x)' <=> Reapable(x))
      BY <1>1, <2>1, <2>2, <2>3 DEF Reapable
    <2>5. status'[b] = "ALIVE"
      BY DEF CreateProcess, TypeOK
    <2>6. QED
      BY <1>1, <2>1, <2>3, <2>4, <2>5 DEF ZombieReapable
  <1>11. QED
    BY <1>3, <1>4, <1>5, <1>6, <1>7, <1>8, <1>9, <1>10

-----------------------------------------------------------------------------
\* The erasing of a PCB keeps the table and its types.
LEMMA ReapTable ==
    ASSUME TypeOK, SlotsExact, NEW p \in Pid,
           processList[p] # NoProc, Reap(p)
    PROVE  /\ SlotsExact'
           /\ process_count' \in 0 .. 1 + Cardinality(Pid)
           /\ processList' \in [Pid -> Proc \cup {NoProc}]
           /\ status' \in [Proc -> {"NONE", "ALIVE", "ZOMBIE"}]
           /\ reaperKilled' \subseteq Proc
  <1> DEFINE b == processList[p]
  <1>1. b \in Proc /\ NoProc \notin Proc
    BY ProcessTableAssumption DEF TypeOK
  <1>2. /\ processList' \in [Pid -> Proc \cup {NoProc}]
        /\ status' \in [Proc -> {"NONE", "ALIVE", "ZOMBIE"}]
        /\ reaperKilled' \subseteq Proc
    BY DEF Reap, TypeOK
  <1>3. process_count' = 1 + Cardinality({n \in Pid : processList'[n] # NoProc})
    <2>1. Cardinality({n \in Pid : processList[n] # NoProc}) \in Nat
      BY CountInRange
    <2>2. Cardinality({n \in Pid : processList'[n] # NoProc})
            = Cardinality({n \in Pid : processList[n] # NoProc}) - 1
      BY SlotCleared DEF Reap
    <2>3. QED
      BY <2>1, <2>2 DEF Reap, SlotsExact
  <1>4. process_count' \in 0 .. 1 + Cardinality(Pid)
    BY <1>3, CountInRange
  <1>5. \A n \in Pid : processList'[n] # NoProc =>
            /\ status'[processList'[n]] # "NONE"
            /\ \A m \in Pid : processList'[m] = processList'[n] => m = n
    BY <1>1 DEF Reap, SlotsExact, TypeOK
  <1>6. ASSUME NEW c \in Proc, status'[c] # "NONE"
        PROVE  \E n \in Pid : processList'[n] = c
    <2>1. c # b /\ status[c] # "NONE"
      BY <1>1, <1>6 DEF Reap, TypeOK
    <2>2. PICK n \in Pid : processList[n] = c
      BY <2>1 DEF SlotsExact
    <2>3. n # p
      BY <2>1, <2>2
    <2>4. QED
      BY <2>2, <2>3 DEF Reap, TypeOK
  <1>7. QED
    BY <1>2, <1>3, <1>4, <1>5, <1>6 DEF SlotsExact

\* Nor does it change who is alive, when it is the PCB of a zombie.
LEMMA ReapAlive ==
    ASSUME TypeOK, NEW p \in Pid, processList[p] # NoProc,
           status[processList[p]] = "ZOMBIE", Reap(p)
    PROVE  Alive' = Alive
  BY DEF Reap, Alive, TypeOK

\* waitpid that finds a token keeps the invariant.
LEMMA TakeStep ==
    ASSUME IInv, NEW c \in Proc, NEW p \in Pid,
           OneWaiter(c, p), WaitTake(c, p)
    PROVE  IInv'
  <1> USE DEF IInv, Waits
  <1> DEFINE b == processList[p]
  <1>0. NoProc \notin Proc /\ 0 \notin Pid
    BY ProcessTableAssumption
  <1>1. b # NoProc /\ finishedSem[b] > 0 /\ \A d \in Proc : waiting[d] # p
    BY DEF WaitTake, OneWaiter
  <1>2. b \in Proc
    BY <1>1 DEF TypeOK
  <1>3. status[b] = "ZOMBIE"
    BY <1>1, <1>2 DEF SlotsExact, NoEarlyToken, TypeOK
  <1>4. Reap(p)
    BY DEF WaitTake
  <1>5. SlotsExact' /\ TypeOK'
    <2>1. finishedSem[b] \in 0 .. MaxSignals /\ MaxSignals \in Nat
      BY <1>2, ProcessTableAssumption DEF TypeOK
    <2>2. finishedSem[b] - 1 \in 0 .. MaxSignals
      BY <1>1, <2>1
    <2>3. QED
      BY <1>1, <1>4, <2>2, ReapTable DEF WaitTake, TypeOK
  <1>6. NeverOvercounted'
    BY <1>1, <1>3, <1>4, ReapAlive DEF NeverOvercounted, WaitTake
  <1>7. \A d \in Proc : waiting[d] # 0 => awaited[d] \in Proc /\ awaited[d] # b
    BY <1>0, <1>1 DEF WaitersNamed, SlotsExact, TypeOK
  <1>8. WaitersNamed'
    BY <1>1, <1>4, <1>7 DEF WaitTake, Reap, WaitersNamed, TypeOK
  <1>9. EntriesWait' /\ QueuedOnce'
    BY DEF WaitTake, EntriesWait, QueuedOnce
  <1>10. NoEarlyToken'
    BY <1>2, <1>4 DEF WaitTake, Reap, NoEarlyToken, TypeOK
  <1>11. ReapsItsOwn'
    BY <1>1, <1>4, <1>7 DEF WaitTake, Reap, ReapsItsOwn, WaitersNamed, TypeOK
  <1>12. ZombieReapable'
    <2>1. \A x \in Proc : x # b => status'[x] = status[x] /\ finishedSem'[x] = finishedSem[x]
      BY <1>4 DEF WaitTake, Reap, TypeOK
    <2>2. /\ thread' = thread /\ waiting' = waiting /\ awaited' = awaited
          /\ reaperKilled' = reaperKilled \ {b} /\ status'[b] = "NONE"
      BY <1>2, <1>4 DEF WaitTake, Reap, TypeOK
    <2>3. \A x \in Proc : x # b => (Reapable(x)' <=> Reapable(x))
      BY <2>1, <2>2 DEF Reapable
    <2>4. QED
      BY <2>1, <2>2, <2>3 DEF ZombieReapable
  <1>13. QED
    BY <1>5, <1>6, <1>8, <1>9, <1>10, <1>11, <1>12

\* waitpid that sleeps keeps it.
LEMMA BlockStep ==
    ASSUME IInv, NEW c \in Proc, NEW p \in Pid,
           OneWaiter(c, p), WaitBlock(c, p)
    PROVE  IInv'
  <1> USE DEF IInv, Waits
  <1> DEFINE b == processList[p]
  <1>0. NoProc \notin Proc /\ 0 \notin Pid
    BY ProcessTableAssumption
  <1>1. /\ b # NoProc /\ thread[c] = "READY" /\ waiting[c] = 0
        /\ \A d \in Proc : waiting[d] # p
    BY DEF WaitBlock, OneWaiter, InUserMode
  <1>2. b \in Proc
    BY <1>1 DEF TypeOK
  <1>3. SlotsExact'
    BY DEF WaitBlock, SlotsExact, table
  <1>4. TypeOK'
    <2>1. Append(lockedQueue[b], c) \in Seq(Proc)
      BY <1>2, QueueEntries
    <2>2. QED
      BY <1>2, <2>1 DEF WaitBlock, TypeOK, table
  <1>5. NeverOvercounted'
    BY DEF WaitBlock, NeverOvercounted, Alive, table
  <1>6. WaitersNamed'
    BY <1>0, <1>1, <1>2 DEF WaitBlock, WaitersNamed, TypeOK, table
  <1>7. \A x \in Proc : \A i \in 1 .. Len(lockedQueue[x]) :
            lockedQueue[x][i] \in Proc /\ lockedQueue[x][i] # c
    <2>1. TAKE x \in Proc
    <2>2. TAKE i \in 1 .. Len(lockedQueue[x])
    <2>3. QED
      BY <1>1, QueueEntries DEF EntriesWait
  <1>8. /\ Len(lockedQueue'[b]) = Len(lockedQueue[b]) + 1
        /\ lockedQueue'[b][Len(lockedQueue[b]) + 1] = c
        /\ \A i \in 1 .. Len(lockedQueue[b]) : lockedQueue'[b][i] = lockedQueue[b][i]
        /\ \A x \in Proc : x # b => lockedQueue'[x] = lockedQueue[x]
        /\ Len(lockedQueue[b]) \in Nat
    <2>1. lockedQueue[b] \in Seq(Proc)
      BY <1>2, QueueEntries
    <2>2. lockedQueue' = [lockedQueue EXCEPT ![b] = Append(lockedQueue[b], c)]
      BY DEF WaitBlock
    <2>3. lockedQueue'[b] = Append(lockedQueue[b], c)
          /\ \A x \in Proc : x # b => lockedQueue'[x] = lockedQueue[x]
      BY <1>2, <2>2 DEF TypeOK
    <2>4. QED
      BY <2>1, <2>3
  <1>9. EntriesWait'
    <2> SUFFICES ASSUME NEW x \in Proc, NEW i \in 1 .. Len(lockedQueue'[x])
                 PROVE  /\ thread'[lockedQueue'[x][i]] \in {"WAITING", "DEAD"}
                        /\ thread'[lockedQueue'[x][i]] = "WAITING" => awaited'[lockedQueue'[x][i]] = x
      BY DEF EntriesWait
    <2>1. thread'[c] = "WAITING" /\ awaited'[c] = b
      BY DEF WaitBlock, TypeOK
    <2>2. \A d \in Proc : d # c => thread'[d] = thread[d] /\ awaited'[d] = awaited[d]
      BY DEF WaitBlock, TypeOK
    <2>3. CASE x = b /\ i = Len(lockedQueue[b]) + 1
      BY <1>8, <2>1, <2>3
    <2>4. CASE ~ (x = b /\ i = Len(lockedQueue[b]) + 1)
      <3>1. i \in 1 .. Len(lockedQueue[x]) /\ lockedQueue'[x][i] = lockedQueue[x][i]
        BY <1>8, <2>4
      <3>2. QED
        BY <1>7, <2>2, <3>1 DEF EntriesWait
    <2>5. QED
      BY <2>3, <2>4
  <1>10. QueuedOnce'
    <2> SUFFICES ASSUME NEW x \in Proc, NEW y \in Proc,
                        NEW i \in 1 .. Len(lockedQueue'[x]), NEW j \in 1 .. Len(lockedQueue'[y]),
                        lockedQueue'[x][i] = lockedQueue'[y][j]
                 PROVE  x = y /\ i = j
      BY DEF QueuedOnce
    <2>1. \A z \in Proc : \A k \in 1 .. Len(lockedQueue'[z]) :
            \/ z = b /\ k = Len(lockedQueue[b]) + 1 /\ lockedQueue'[z][k] = c
            \/ /\ k \in 1 .. Len(lockedQueue[z])
               /\ lockedQueue'[z][k] = lockedQueue[z][k] /\ lockedQueue[z][k] # c
      <3>1. TAKE z \in Proc
      <3>2. TAKE k \in 1 .. Len(lockedQueue'[z])
      <3>3. CASE z = b
        BY <1>7, <1>8, <3>3
      <3>4. CASE z # b
        BY <1>7, <1>8, <3>4
      <3>5. QED
        BY <3>3, <3>4
    <2>2. CASE lockedQueue'[x][i] = c
      <3>1. lockedQueue'[y][j] = c
        BY <2>2
      <3>2. x = b /\ i = Len(lockedQueue[b]) + 1
        BY <2>1, <2>2
      <3>3. y = b /\ j = Len(lockedQueue[b]) + 1
        BY <2>1, <3>1
      <3>4. QED
        BY <3>2, <3>3
    <2>3. CASE lockedQueue'[x][i] # c
      <3>1. /\ i \in 1 .. Len(lockedQueue[x]) /\ lockedQueue'[x][i] = lockedQueue[x][i]
            /\ j \in 1 .. Len(lockedQueue[y]) /\ lockedQueue'[y][j] = lockedQueue[y][j]
        BY <2>1, <2>3
      <3>2. lockedQueue[x][i] = lockedQueue[y][j]
        BY <3>1
      <3>3. QED
        BY <3>1, <3>2 DEF QueuedOnce
    <2>4. QED
      BY <2>2, <2>3
  <1>11. NoEarlyToken'
    BY DEF WaitBlock, NoEarlyToken, table
  <1>12. ReapsItsOwn'
    BY DEF WaitBlock, ReapsItsOwn, TypeOK, table
  <1>13. ZombieReapable'
    <2>1. \A d \in Proc : d # c =>
            thread'[d] = thread[d] /\ waiting'[d] = waiting[d] /\ awaited'[d] = awaited[d]
      BY DEF WaitBlock, TypeOK
    <2>2. /\ thread'[c] = "WAITING"
          /\ status' = status /\ finishedSem' = finishedSem /\ reaperKilled' = reaperKilled
      BY DEF WaitBlock, TypeOK, table
    <2>3. \A x \in Proc : Reapable(x)' <=> Reapable(x)
      BY <1>1, <2>1, <2>2 DEF Reapable
    <2>4. QED
      BY <2>2, <2>3 DEF ZombieReapable
  <1>14. QED
    BY <1>3, <1>4, <1>5, <1>6, <1>9, <1>10, <1>11, <1>12, <1>13

\* The rest of waitpid keeps it.
LEMMA ReturnStep ==
    ASSUME IInv, NEW c \in Proc, WaitReturn(c)
    PROVE  IInv'
  <1> USE DEF IInv, Waits
  <1> DEFINE p == waiting[c]
             b == processList[p]
  <1>0. NoProc \notin Proc /\ 0 \notin Pid
    BY ProcessTableAssumption
  <1>1. thread[c] = "READY" /\ p \in Pid /\ b # NoProc /\ b = awaited[c]
    BY DEF WaitReturn, WaitersNamed, TypeOK
  <1>2. b \in Proc /\ status[b] = "ZOMBIE"
    BY <1>0, <1>1 DEF TypeOK, ReapsItsOwn
  <1>3. Reap(p)
    BY DEF WaitReturn
  <1>4. SlotsExact' /\ TypeOK'
    BY <1>1, <1>3, ReapTable DEF WaitReturn, TypeOK
  <1>5. NeverOvercounted'
    BY <1>1, <1>2, <1>3, ReapAlive DEF NeverOvercounted, WaitReturn
  <1>6. \A d \in Proc : d # c /\ waiting[d] # 0 =>
            waiting[d] # p /\ awaited[d] \in Proc /\ awaited[d] # b
    BY <1>0, <1>1 DEF WaitersNamed, SlotsExact, TypeOK
  <1>7. \A d \in Proc : d # c => waiting'[d] = waiting[d] /\ awaited'[d] = awaited[d]
    BY DEF WaitReturn, TypeOK
  <1>8. waiting'[c] = 0
    BY DEF WaitReturn, TypeOK
  <1>9. WaitersNamed'
    BY <1>1, <1>3, <1>6, <1>7, <1>8 DEF WaitReturn, Reap, WaitersNamed, TypeOK
  <1>10. EntriesWait'
    <2>1. thread' = thread /\ lockedQueue' = lockedQueue
      BY DEF WaitReturn
    <2>2. ASSUME NEW x \in Proc, NEW i \in 1 .. Len(lockedQueue[x])
          PROVE  lockedQueue[x][i] \in Proc /\ lockedQueue[x][i] # c
      BY <1>1, <2>2, QueueEntries DEF EntriesWait
    <2>3. QED
      BY <1>7, <2>1, <2>2 DEF EntriesWait
  <1>11. QueuedOnce'
    BY DEF WaitReturn, QueuedOnce
  <1>12. NoEarlyToken'
    BY <1>2, <1>3 DEF WaitReturn, Reap, NoEarlyToken, TypeOK
  <1>13. ReapsItsOwn'
    BY <1>1, <1>3, <1>6, <1>7, <1>8 DEF WaitReturn, Reap, ReapsItsOwn, TypeOK
  <1>14. ZombieReapable'
    <2>1. \A x \in Proc : x # b => status'[x] = status[x]
      BY <1>3 DEF Reap, TypeOK
    <2>2. /\ thread' = thread /\ finishedSem' = finishedSem
          /\ reaperKilled' = reaperKilled \ {b} /\ status'[b] = "NONE"
      BY <1>2, <1>3 DEF WaitReturn, Reap, TypeOK
    <2>3. \A x \in Proc : x # b => (Reapable(x)' <=> Reapable(x))
      BY <1>1, <1>7, <1>8, <2>2 DEF Reapable
    <2>4. QED
      BY <2>1, <2>2, <2>3 DEF ZombieReapable
  <1>15. QED
    BY <1>4, <1>5, <1>9, <1>10, <1>11, <1>12, <1>13, <1>14

-----------------------------------------------------------------------------
\* What sem_signal leaves of a wait queue, entry by entry.
LEMMA RestOfQueue ==
    ASSUME NEW q \in Seq(Proc), NEW k \in 1 .. Len(q) + 1
    PROVE  LET r == SubSeq(q, k + 1, Len(q))
           IN  /\ r \in Seq(Proc)
               /\ \A i \in 1 .. Len(r) : k + i \in 1 .. Len(q) /\ r[i] = q[k + i]
  <1> DEFINE r == SubSeq(q, k + 1, Len(q))
  <1>1. r \in Seq(Proc)
    OBVIOUS
  <1>2. CASE k < Len(q)
    <2>1. Len(r) = Len(q) - k /\ \A i \in 1 .. Len(r) : r[i] = q[k + i]
      BY <1>2
    <2>2. \A i \in 1 .. Len(r) : k + i \in 1 .. Len(q)
      <3>1. Len(q) \in Nat /\ k \in Nat /\ Len(r) = Len(q) - k
        BY <2>1
      <3> HIDE DEF r
      <3>2. QED
        BY <3>1
    <2>3. QED
      BY <1>1, <2>1, <2>2
  <1>3. CASE k >= Len(q)
    <2>1. Len(r) = 0
      BY <1>3
    <2>2. 1 .. Len(r) = {}
      BY <2>1
    <2>3. QED
      BY <1>1, <2>2
  <1>4. QED
    BY <1>2, <1>3

\* killProcess keeps the invariant.
LEMMA KillStep ==
    ASSUME IInv, NEW p \in Pid, KillProcess(p)
    PROVE  IInv'
  <1> USE DEF IInv, Waits
  <1> DEFINE b == processList[p]
             q == lockedQueue[b]
             killed == Killed \cup (IF thread[b] = "WAITING" THEN {b} ELSE {})
  <1>0. NoProc \notin Proc /\ MaxSignals \in Nat
    BY ProcessTableAssumption
  <1>1. b \in Proc /\ status[b] # "NONE"
    BY DEF KillProcess, TypeOK, SlotsExact
  <1>2. q \in Seq(Proc) /\ Len(q) \in Nat /\ \A i \in 1 .. Len(q) : q[i] \in Proc
    BY <1>1, QueueEntries
  <1>3. PICK k \in 1 .. Len(q) + 1 :
        /\ FirstLive(q, k, killed)
        /\ lockedQueue' = [lockedQueue EXCEPT ![b] = SubSeq(q, k + 1, Len(q))]
        /\ thread' = [c \in Proc |->
                IF \E i \in 1 .. k - 1 : q[i] = c THEN "NONE"
                ELSE IF k <= Len(q) /\ q[k] = c THEN "READY"
                ELSE IF c \in killed THEN "DEAD"
                ELSE IF c = b THEN "NONE" ELSE thread[c]]
        /\ IF k <= Len(q) THEN finishedSem' = finishedSem
           ELSE /\ finishedSem[b] < MaxSignals
                /\ finishedSem' = [finishedSem EXCEPT ![b] = @ + 1]
    BY DEF KillProcess, Signal
  <1> DEFINE Popped(c) == \E i \in 1 .. k - 1 : q[i] = c
             Woken(c)  == k <= Len(q) /\ q[k] = c
  <1>4. \A c \in Proc : c \in killed <=> thread[c] = "DEAD" \/ (c = b /\ thread[b] = "WAITING")
    BY <1>1 DEF Killed
  <1>5. \A c \in Proc : Popped(c) => c \in killed
    BY <1>3 DEF FirstLive
  <1>6. \A c \in Proc : Woken(c) =>
            c # b /\ ~ Popped(c) /\ thread[c] = "WAITING" /\ awaited[c] = b
    <2> SUFFICES ASSUME NEW c \in Proc, Woken(c)
                 PROVE  c # b /\ ~ Popped(c) /\ thread[c] = "WAITING" /\ awaited[c] = b
      OBVIOUS
    <2>1. c \notin killed
      BY <1>3 DEF FirstLive
    <2>2. k \in 1 .. Len(q) /\ lockedQueue[b][k] = c
      BY <1>2
    <2>3. thread[c] \in {"WAITING", "DEAD"} /\ (thread[c] = "WAITING" => awaited[c] = b)
      BY <1>1, <2>2 DEF EntriesWait
    <2>4. QED
      BY <1>4, <1>5, <2>1, <2>3
  <1>7. \A c \in Proc : c # b =>
            \/ Popped(c) /\ thread[c] = "DEAD" /\ thread'[c] = "NONE"
            \/ Woken(c) /\ thread[c] = "WAITING" /\ awaited[c] = b /\ thread'[c] = "READY"
            \/ ~ Popped(c) /\ ~ Woken(c) /\ thread'[c] = thread[c]
    BY <1>3, <1>4, <1>5, <1>6
  <1>8. /\ thread'[b] \in {"NONE", "DEAD"}
        /\ thread[b] \in {"WAITING", "DEAD"} /\ ~ Popped(b) => thread'[b] = "DEAD"
    BY <1>1, <1>3, <1>4, <1>6
  <1>9. /\ waiting'[b] = 0
        /\ \A c \in Proc : c # b => waiting'[c] = waiting[c] /\ awaited'[c] = awaited[c]
    BY <1>1 DEF KillProcess, TypeOK
  <1>10. processList' = processList /\ ending' = NoProc /\ status' = [status EXCEPT ![b] = "ZOMBIE"]
    BY DEF KillProcess, WaitersNamed
  <1>11. SlotsExact'
    BY <1>0, <1>1, <1>10 DEF KillProcess, SlotsExact, TypeOK
  <1>12. TypeOK'
    <2>1. /\ processList' \in [Pid -> Proc \cup {NoProc}]
          /\ status' \in [Proc -> {"NONE", "ALIVE", "ZOMBIE"}]
          /\ waiting' \in [Proc -> Pid \cup {0}]
          /\ process_count' \in 0 .. 1 + Cardinality(Pid)
          /\ alive_process_count' \in Int
          /\ ending' \in Proc \cup {NoProc}
          /\ awaited' \in [Proc -> Proc \cup {NoProc}]
      BY <1>1, <1>10 DEF KillProcess, TypeOK
    <2>2. thread' \in [Proc -> {"NONE", "READY", "WAITING", "DEAD"}]
      BY <1>3 DEF TypeOK
    <2>3. lockedQueue' \in [Proc -> Seq(Proc)]
      <3>1. SubSeq(q, k + 1, Len(q)) \in Seq(Proc)
        BY <1>2, RestOfQueue
      <3>2. QED
        BY <1>1, <1>3, <3>1 DEF TypeOK
    <2>4. finishedSem' \in [Proc -> 0 .. MaxSignals]
      <3>1. finishedSem[b] < MaxSignals => finishedSem[b] + 1 \in 0 .. MaxSignals
        BY <1>0, <1>1 DEF TypeOK
      <3>2. QED
        BY <1>3, <3>1 DEF TypeOK
    <2>5. reaperKilled' \subseteq Proc
      BY <1>1 DEF KillProcess, WaitersNamed, TypeOK
    <2>6. QED
      BY <2>1, <2>2, <2>3, <2>4, <2>5 DEF TypeOK
  <1>13. NeverOvercounted'
    <2>1. Alive' = Alive \ {b}
      BY <1>1, <1>10 DEF Alive, TypeOK
    <2>2. Cardinality(Alive') = IF b \in Alive THEN Cardinality(Alive) - 1 ELSE Cardinality(Alive)
      <3>1. IsFiniteSet(Alive)
        BY AliveFinite
      <3>2. Cardinality(Alive \ {b})
              = IF b \in Alive THEN Cardinality(Alive) - 1 ELSE Cardinality(Alive)
        BY <3>1, FS_RemoveElement
      <3>3. QED
        BY <2>1, <3>2
    <2>3. alive_process_count' = alive_process_count - 1 /\ alive_process_count \in Int
      BY DEF KillProcess, TypeOK
    <2>4. QED
      BY <2>2, <2>3, AliveFinite DEF NeverOvercounted
  <1>14. WaitersNamed'
    <2>1. \A c \in Proc : c # b => (thread'[c] \in {"NONE", "DEAD"} => waiting[c] = 0)
                                   /\ (thread'[c] = "WAITING" => waiting[c] # 0)
      BY <1>7 DEF WaitersNamed
    <2>2. QED
      BY <1>8, <1>9, <1>10, <2>1 DEF WaitersNamed
  <1>15. /\ \A x \in Proc : x # b => lockedQueue'[x] = lockedQueue[x]
         /\ \A i \in 1 .. Len(lockedQueue'[b]) :
                k + i \in 1 .. Len(q) /\ lockedQueue'[b][i] = q[k + i]
    <2>1. lockedQueue'[b] = SubSeq(q, k + 1, Len(q))
      BY <1>1, <1>3 DEF TypeOK
    <2>2. \A i \in 1 .. Len(lockedQueue'[b]) :
                k + i \in 1 .. Len(q) /\ lockedQueue'[b][i] = q[k + i]
      BY <1>2, <2>1, RestOfQueue
    <2>3. QED
      BY <1>3, <2>2 DEF TypeOK
  <1>16. ASSUME NEW x \in Proc, NEW i \in 1 .. Len(lockedQueue'[x])
         PROVE  \E j \in 1 .. Len(lockedQueue[x]) :
                    /\ lockedQueue'[x][i] = lockedQueue[x][j] /\ lockedQueue[x][j] \in Proc
                    /\ j = IF x = b THEN k + i ELSE i
    <2>1. CASE x = b
      BY <1>2, <1>15, <2>1
    <2>2. CASE x # b
      <3>1. lockedQueue'[x] = lockedQueue[x]
        BY <1>15, <2>2
      <3>2. QED
        BY <2>2, <3>1, QueueEntries
    <2>3. QED
      BY <2>1, <2>2
  <1>17. EntriesWait'
    <2> SUFFICES ASSUME NEW x \in Proc, NEW i \in 1 .. Len(lockedQueue'[x])
                 PROVE  /\ thread'[lockedQueue'[x][i]] \in {"WAITING", "DEAD"}
                        /\ thread'[lockedQueue'[x][i]] = "WAITING" => awaited'[lockedQueue'[x][i]] = x
      BY DEF EntriesWait
    <2> DEFINE c == lockedQueue'[x][i]
    <2>1. PICK j \in 1 .. Len(lockedQueue[x]) :
                c = lockedQueue[x][j] /\ c \in Proc /\ j = IF x = b THEN k + i ELSE i
      BY <1>16
    <2>2. thread[c] \in {"WAITING", "DEAD"} /\ (thread[c] = "WAITING" => awaited[c] = x)
      BY <2>1 DEF EntriesWait
    <2>3. \A n \in 1 .. Len(q) : q[n] = c => x = b /\ n = j
      BY <1>1, <2>1 DEF QueuedOnce
    <2>4. ~ Popped(c) /\ ~ Woken(c)
      <3>1. x = b => j > k
        BY <2>1
      <3>2. \A n \in 1 .. k : n <= Len(q) => q[n] # c
        BY <1>2, <2>3, <3>1
      <3>3. QED
        BY <1>2, <3>2
    <2>5. CASE c = b
      BY <1>8, <2>2, <2>4, <2>5
    <2>6. CASE c # b
      BY <1>7, <1>9, <2>1, <2>2, <2>4, <2>6
    <2>7. QED
      BY <2>5, <2>6
  <1>18. QueuedOnce'
    <2> SUFFICES ASSUME NEW x \in Proc, NEW y \in Proc,
                        NEW i \in 1 .. Len(lockedQueue'[x]), NEW j \in 1 .. Len(lockedQueue'[y]),
                        lockedQueue'[x][i] = lockedQueue'[y][j]
                 PROVE  x = y /\ i = j
      BY DEF QueuedOnce
    <2>1. PICK m \in 1 .. Len(lockedQueue[x]) :
            lockedQueue'[x][i] = lockedQueue[x][m] /\ m = IF x = b THEN k + i ELSE i
      BY <1>16
    <2>2. PICK n \in 1 .. Len(lockedQueue[y]) :
            lockedQueue'[y][j] = lockedQueue[y][n] /\ n = IF y = b THEN k + j ELSE j
      BY <1>16
    <2>3. lockedQueue[x][m] = lockedQueue[y][n]
      BY <2>1, <2>2
    <2>4. x = y /\ m = n
      BY <2>3 DEF QueuedOnce
    <2>5. QED
      BY <2>1, <2>2, <2>4
  <1>19. NoEarlyToken'
    BY <1>1, <1>3, <1>10 DEF NoEarlyToken, TypeOK
  <1>20. ReapsItsOwn'
    <2> SUFFICES ASSUME NEW c \in Proc, thread'[c] = "READY", waiting'[c] # 0
                 PROVE  processList'[waiting'[c]] = awaited'[c] /\ status'[awaited'[c]] = "ZOMBIE"
      BY DEF ReapsItsOwn
    <2>1. c # b
      BY <1>9
    <2>2. /\ processList[waiting[c]] = awaited[c] /\ awaited[c] \in Proc
          /\ waiting'[c] = waiting[c] /\ awaited'[c] = awaited[c]
      BY <1>9, <2>1 DEF WaitersNamed, TypeOK
    <2>3. awaited[c] = b \/ status[awaited[c]] = "ZOMBIE"
      BY <1>7, <2>1, <2>2 DEF ReapsItsOwn
    <2>4. QED
      BY <1>1, <1>10, <2>2, <2>3 DEF TypeOK
  <1>21. ZombieReapable'
    <2> SUFFICES ASSUME NEW x \in Proc
                 PROVE  x \in reaperKilled' <=> status'[x] = "ZOMBIE" /\ ~ Reapable(x)'
      BY <1>12 DEF ZombieReapable, TypeOK
    <2>1. CASE x = b /\ k <= Len(q)
      <3>1. q[k] \in Proc /\ Woken(q[k])
        BY <1>2, <2>1
      <3>2. q[k] # b /\ thread[q[k]] = "WAITING" /\ awaited[q[k]] = b
        BY <1>6, <3>1
      <3>3. thread'[q[k]] = "READY"
        BY <1>7, <3>1, <3>2
      <3>4. waiting'[q[k]] # 0 /\ awaited'[q[k]] = b
        BY <1>9, <3>1, <3>2 DEF WaitersNamed
      <3>5. Reapable(x)'
        BY <2>1, <3>1, <3>3, <3>4 DEF Reapable
      <3>6. QED
        BY <2>1, <3>5 DEF KillProcess
    <2>2. CASE x = b /\ ~ (k <= Len(q))
      <3>1. finishedSem[b] \in 0 .. MaxSignals /\ finishedSem'[b] = finishedSem[b] + 1
        BY <1>1, <1>3, <2>2 DEF TypeOK
      <3>2. Reapable(x)'
        BY <2>2, <3>1 DEF Reapable
      <3>3. QED
        BY <2>2, <3>2 DEF KillProcess
    <2>3. CASE x # b
      <3>1. status'[x] = status[x] /\ finishedSem'[x] = finishedSem[x]
        BY <1>3, <1>10, <2>3 DEF TypeOK
      <3>2. \A c \in Proc : c # b =>
                (thread'[c] = "READY" /\ waiting'[c] # 0 /\ awaited'[c] = x
                   <=> thread[c] = "READY" /\ waiting[c] # 0 /\ awaited[c] = x)
        BY <1>7, <1>9, <2>3
      <3>3. CASE thread[b] = "READY" /\ waiting[b] # 0 /\ awaited[b] = x
        <4>1. status[x] = "ZOMBIE" /\ processList[waiting[b]] = x /\ waiting[b] \in Pid
          BY <1>1, <3>3 DEF ReapsItsOwn, TypeOK
        <4>2. \A c \in Proc : waiting[c] # 0 /\ awaited[c] = x => c = b
          <5> SUFFICES ASSUME NEW c \in Proc, waiting[c] # 0, awaited[c] = x
                       PROVE  c = b
            OBVIOUS
          <5>1. processList[waiting[c]] = x /\ waiting[c] \in Pid
            BY DEF WaitersNamed, TypeOK
          <5>2. waiting[c] = waiting[b]
            BY <1>0, <4>1, <5>1 DEF SlotsExact
          <5>3. QED
            BY <1>1, <3>3, <5>2 DEF WaitersNamed
        <4>3. Reapable(x)' <=> finishedSem[x] > 0
          BY <1>9, <3>1, <3>2, <4>2 DEF Reapable
        <4>4. Reapable(x)
          BY <1>1, <3>3 DEF Reapable
        <4>5. x \in reaperKilled' <=> finishedSem[x] = 0
          BY <2>3, <3>3, <4>4 DEF KillProcess, ZombieReapable
        <4>6. finishedSem[x] \in Nat
          BY <1>0 DEF TypeOK
        <4>7. QED
          BY <3>1, <4>1, <4>3, <4>5, <4>6
      <3>4. CASE ~ (thread[b] = "READY" /\ waiting[b] # 0 /\ awaited[b] = x)
        <4>1. Reapable(x)' <=> Reapable(x)
          BY <1>9, <3>1, <3>2, <3>4 DEF Reapable
        <4>2. x \in reaperKilled' <=> x \in reaperKilled
          BY <2>3, <3>4 DEF KillProcess
        <4>3. QED
          BY <3>1, <4>1, <4>2 DEF ZombieReapable
      <3>5. QED
        BY <3>3, <3>4
    <2>4. QED
      BY <2>1, <2>2, <2>3
  <1>22. QED
    BY <1>11, <1>12, <1>13, <1>14, <1>17, <1>18, <1>19, <1>20, <1>21

-----------------------------------------------------------------------------
\* The first state: no process but Init's.
LEMMA InitInvariant == Init => IInv
  <1> SUFFICES ASSUME Init PROVE IInv
    OBVIOUS
  <1> USE DEF Init
  <1>1. NoProc \notin Proc /\ 0 \notin Pid /\ MaxSignals \in Nat
    BY ProcessTableAssumption
  <1>2. {n \in Pid : processList[n] # NoProc} = {} /\ Alive = {}
    BY DEF Alive
  <1>3. Cardinality({}) = 0 /\ Cardinality(Pid) \in Nat
    BY FS_EmptySet, FS_CardinalityType, ProcessTableAssumption
  <1>4. SlotsExact
    <2>1. process_count = 1 + Cardinality({n \in Pid : processList[n] # NoProc})
      <3>1. Cardinality({n \in Pid : processList[n] # NoProc}) = Cardinality({})
        BY <1>2, Zenon
      <3>2. QED
        BY <1>3, <3>1
    <2>2. (\A n \in Pid : processList[n] = NoProc) /\ \A c \in Proc : status[c] = "NONE"
      OBVIOUS
    <2>3. QED
      BY <2>1, <2>2 DEF SlotsExact
  <1>5. NeverOvercounted
    BY <1>2, <1>3 DEF NeverOvercounted
  <1>6. TypeOK
    BY <1>1, <1>3 DEF TypeOK
  <1>7. WaitersNamed /\ ReapsItsOwn /\ ZombieReapable /\ NoEarlyToken
    BY DEF WaitersNamed, ReapsItsOwn, ZombieReapable, Reapable, NoEarlyToken
  <1>8. EntriesWait /\ QueuedOnce
    <2>1. \A b \in Proc : Len(lockedQueue[b]) = 0
      OBVIOUS
    <2>2. QED
      BY <2>1 DEF EntriesWait, QueuedOnce
  <1>9. QED
    BY <1>4, <1>5, <1>6, <1>7, <1>8 DEF IInv, Waits

\* Every step keeps the invariant.
LEMMA Step == IInv /\ [Next]_vars => IInv'
  <1> SUFFICES ASSUME IInv, [Next]_vars PROVE IInv'
    OBVIOUS
  <1>1. ASSUME NEW b \in Proc, NEW p \in Pid, StartShell(b, p) PROVE IInv'
    BY <1>1, CreateStep DEF StartShell
  <1>2. ASSUME NEW b \in Proc, NEW p \in Pid, NEW c \in Proc, NewProcess(c, b, p) PROVE IInv'
    BY <1>2, CreateStep DEF NewProcess
  <1>3. ASSUME NEW p \in Pid, KillProcess(p) PROVE IInv'
    BY <1>3, KillStep
  <1>4. ASSUME NEW c \in Proc, WaitReturn(c) PROVE IInv'
    BY <1>4, ReturnStep
  <1>5. ASSUME NEW c \in Proc, NEW p \in Pid, OneWaiter(c, p), WaitTake(c, p) PROVE IInv'
    BY <1>5, TakeStep
  <1>6. ASSUME NEW c \in Proc, NEW p \in Pid, OneWaiter(c, p), WaitBlock(c, p) PROVE IInv'
    BY <1>6, BlockStep
  <1>7. CASE UNCHANGED vars
    BY <1>7 DEF vars, table, IInv, Waits, TypeOK, SlotsExact, NeverOvercounted, Alive,
               WaitersNamed, EntriesWait, QueuedOnce, NoEarlyToken, ReapsItsOwn, ZombieReapable, Reapable
  <1>8. QED
    BY <1>1, <1>2, <1>3, <1>4, <1>5, <1>6, <1>7 DEF Next, Shared

\* The inductive invariant of createProcess, killProcess and waitpid.
THEOREM Invariance == Spec => []IInv
  <1>1. QED
    BY InitInvariant, Step, PTL DEF Spec

\* waitpid erases the process it waited for, which has ended, whatever happened
\* while it slept.
THEOREM ReapsRight == Spec => []ReapsItsOwn
  <1>1. IInv => ReapsItsOwn
    BY DEF IInv, Waits
  <1>2. QED
    BY <1>1, Invariance, PTL

\* createProcess and waitpid keep the table, its counts and their types.
THEOREM TableKept == Spec => []TableExact
  <1>1. IInv => TableExact
    BY DEF IInv, TableExact
  <1>2. QED
    BY <1>1, Invariance, PTL

\* killProcess and waitpid: nobody can reap a zombie exactly when who was about to
\* reap it was killed, and it has not been killed again since.
THEOREM ZombiesReapable == Spec => []ZombieReapable
  <1>1. IInv => ZombieReapable
    BY DEF IInv, Waits
  <1>2. QED
    BY <1>1, Invariance, PTL

\* Beside the other parts the processes do nothing else: what is proved of Spec holds there.
THEOREM ProcessesBeside == PartSpec => Spec
  <1>1. PartInit => Init
    BY DEF PartInit, Begin
  <1>2. [PartNext]_partVars => [Next]_vars
    BY DEF PartNext, partVars
  <1>3. QED
    BY <1>1, <1>2, PTL DEF PartSpec, Spec

-----------------------------------------------------------------------------
(* Functions defined by recursion over 0 .. n.                             *)

\* Induction up to n, with the set of those for which it holds.
LEMMA Induct ==
    ASSUME NEW n \in Nat, NEW T, 0 \in T, \A i \in 1 .. n : i - 1 \in T => i \in T
    PROVE  \A i \in 0 .. n : i \in T
  <1> DEFINE F == {i \in 0 .. n : i \notin T}
  <1> SUFFICES ASSUME F # {} PROVE FALSE
    OBVIOUS
  <1>1. F \subseteq Nat
    OBVIOUS
  <1>2. \E x \in F : \A y \in F : ~ (<<y, x>> \in OpToRel(<, Nat))
    <2> HIDE DEF F
    <2> QED
      BY <1>1, NatLessThanWellFounded, WFMin
  <1>3. PICK x \in F : \A y \in F : ~ (<<y, x>> \in OpToRel(<, Nat))
    BY <1>2
  <1>4. x \in Nat /\ x # 0 /\ x - 1 \in 0 .. n /\ x \in 1 .. n
    OBVIOUS
  <1>5. x - 1 \notin T
    BY <1>4
  <1>6. x - 1 \in F /\ x - 1 \in Nat /\ x - 1 < x
    BY <1>4, <1>5
  <1>7. <<x - 1, x>> \in OpToRel(<, Nat)
    BY <1>4, <1>6 DEF OpToRel
  <1>8. QED
    BY <1>3, <1>6, <1>7

\* f is what g makes step by step of base.
Follows(f, n, V, base, g) ==
    f \in [0 .. n -> V] /\ f[0] = base /\ \A i \in 1 .. n : f[i] = g[<<i, f[i - 1]>>]

\* What is defined step by step up to n exists.
LEMMA Recursion ==
    ASSUME NEW n \in Nat, NEW V, NEW base \in V, NEW g \in [(1 .. n) \X V -> V]
    PROVE  \E f : Follows(f, n, V, base, g)
  <1> DEFINE Is(f, k) == f[0] = base /\ \A i \in 1 .. k : f[i] = g[<<i, f[i - 1]>>]
             T == {k \in 0 .. n : \E f \in [0 .. k -> V] : Is(f, k)}
  <1>1. 0 \in T
    <2>1. [i \in 0 .. 0 |-> base] \in [0 .. 0 -> V] /\ Is([i \in 0 .. 0 |-> base], 0)
      OBVIOUS
    <2>2. \E f \in [0 .. 0 -> V] : Is(f, 0)
      <3> HIDE DEF Is
      <3> QED
        BY <2>1
    <2>3. 0 \in 0 .. n
      OBVIOUS
    <2>4. QED
      BY <2>2, <2>3
  <1>2. ASSUME NEW k \in 1 .. n, k - 1 \in T
        PROVE  k \in T
    <2>1. PICK f \in [0 .. k - 1 -> V] : Is(f, k - 1)
      BY <1>2
    <2> DEFINE h == [i \in 0 .. k |-> IF i = k THEN g[<<k, f[k - 1]>>] ELSE f[i]]
    <2>2. f[k - 1] \in V /\ g[<<k, f[k - 1]>>] \in V
      BY <2>1
    <2>3. h \in [0 .. k -> V]
      BY <2>1, <2>2
    <2>4. h[k] = g[<<k, f[k - 1]>>] /\ \A i \in 0 .. k - 1 : h[i] = f[i]
      OBVIOUS
    <2>5. Is(h, k)
      <3> HIDE DEF h
      <3>1. h[0] = base
        BY <2>1, <2>4
      <3>2. ASSUME NEW i \in 1 .. k
            PROVE  h[i] = g[<<i, h[i - 1]>>]
        <4>1. i - 1 \in 0 .. k - 1 /\ h[i - 1] = f[i - 1]
          BY <2>4
        <4>2. CASE i = k
          BY <4>1, <4>2, <2>4
        <4>3. CASE i # k
          <5>1. i \in 1 .. k - 1 /\ i \in 0 .. k - 1
            BY <4>3
          <5>2. QED
            BY <5>1, <4>1, <2>1, <2>4
        <4>4. QED
          BY <4>2, <4>3
      <3>3. QED
        BY <3>1, <3>2
    <2>6. \E e \in [0 .. k -> V] : Is(e, k)
      <3> HIDE DEF Is, h
      <3> QED
        BY <2>3, <2>5
    <2>7. k \in 0 .. n
      OBVIOUS
    <2>8. QED
      BY <2>6, <2>7
  <1>3. n \in T
    <2> HIDE DEF T
    <2>1. \A i \in 0 .. n : i \in T
      BY <1>1, <1>2, Induct
    <2>2. QED
      BY <2>1
  <1>4. PICK f \in [0 .. n -> V] : Is(f, n)
    BY <1>3
  <1>5. QED
    BY <1>4 DEF Follows

-----------------------------------------------------------------------------
(* The heap of malloc and free.                                            *)

Header == [size : Nat, next : Int, prev : Int, state : {"FREE", "USED"}]
End(h, b) == b + 1 + h[b].size
List(h) == H!Reached(h, {})

HeapShape(h) ==
    /\ h \in [DOMAIN h -> Header] /\ DOMAIN h \subseteq 0 .. HeapSize - 2 /\ 0 \in DOMAIN h
    /\ h[0].size >= 1
    /\ \A b \in DOMAIN h : h[b].next # -1 => h[b].next > b
    /\ \A b \in List(h) : h[b].next \in DOMAIN h \cup {-1}

Tiles(h) ==
    /\ \A b \in List(h) : /\ End(h, b) <= HeapSize
                          /\ h[b].next = IF End(h, b) = HeapSize THEN -1 ELSE End(h, b)
    /\ \A a, b \in List(h) : a < b => End(h, a) <= b

\* What has left the list stays free; who is used is in it.
Owned(h, d) == d = {b \in DOMAIN h : h[b].state = "USED"} /\ d \subseteq List(h)

HeapGood(h, d) == HeapShape(h) /\ Tiles(h) /\ Owned(h, d)

HeapInv ==
    /\ user \in Blocks
    /\ \/ user.lazy /\ heap = H!Zeros /\ given = {}
       \/ HeapGood(heap, given)
       \/ heap = H!Lost

LEMMA HeapConstants ==
  /\ HeapSize \in Nat \ {0, 1}
  /\ \A c \in Blocks : c.sizes \subseteq Nat \ {0} /\ c.frees \in BOOLEAN /\ c.lazy \in BOOLEAN
  /\ H!Null = -1 /\ H!H = 1
BY DataAssumption DEF H!HeapAssumption, H!Null, H!H

\* The list holds the first block and, of each block, the next; and nothing but those.
LEMMA ListCloses ==
  ASSUME NEW h, HeapShape(h)
  PROVE  /\ List(h) \subseteq DOMAIN h /\ 0 \in List(h)
         /\ \A b \in List(h) : h[b].next \in List(h) \cup {-1}
<1>1. List(h) \subseteq DOMAIN h /\ 0 \in List(h)
  BY DEF List, H!Reached, HeapShape
<1>2. ASSUME NEW b \in List(h), h[b].next # -1 PROVE h[b].next \in List(h)
  <2>1. b \in DOMAIN h /\ h[b].next \in DOMAIN h
    BY <1>1, <1>2 DEF HeapShape
  <2>2. SUFFICES ASSUME NEW S \in SUBSET DOMAIN h, 0 \in S, \A a \in S : h[a].next \in S \cup {-1}
                 PROVE  h[b].next \in S
    BY <2>1, HeapConstants DEF List, H!Reached
  <2>3. b \in S
    BY <2>2, HeapConstants DEF List, H!Reached
  <2>4. QED
    BY <1>2, <2>2, <2>3
<1>3. QED
  BY <1>1, <1>2

LEMMA ListLeast ==
  ASSUME NEW h, NEW S \in SUBSET DOMAIN h, 0 \in S, \A a \in S : h[a].next \in S \cup {-1}
  PROVE  List(h) \subseteq S
BY HeapConstants DEF List, H!Reached

\* Headers with the same links have the same list, whatever else is there.
LEMMA SameList ==
  ASSUME NEW h, NEW j, HeapShape(h), List(h) \subseteq DOMAIN j, \A a \in List(h) : j[a].next = h[a].next
  PROVE  List(j) = List(h) /\ \A b \in List(j) : j[b].next \in DOMAIN j \cup {-1}
<1>1. List(h) \subseteq DOMAIN h /\ 0 \in List(h) /\ \A b \in List(h) : h[b].next \in List(h) \cup {-1}
  BY ListCloses
<1>2. List(j) \subseteq List(h)
  <2> DEFINE S == List(h)
  <2>1. S \in SUBSET DOMAIN j /\ 0 \in S /\ \A a \in S : j[a].next \in S \cup {-1}
    BY <1>1
  <2> HIDE DEF S
  <2>2. List(j) \subseteq S
    BY <2>1, ListLeast
  <2>3. QED
    BY <2>2 DEF S
<1>3. List(h) \subseteq List(j)
  <2>1. ASSUME NEW S \in SUBSET DOMAIN j, 0 \in S, \A a \in S : j[a].next \in S \cup {-1}
        PROVE  List(h) \subseteq S
    <3> DEFINE I == S \cap List(h)
    <3>1. I \in SUBSET DOMAIN h /\ 0 \in I /\ \A a \in I : h[a].next \in I \cup {-1}
      BY <1>1, <2>1
    <3> HIDE DEF I
    <3>2. List(h) \subseteq I
      BY <3>1, ListLeast
    <3>3. QED
      BY <3>2 DEF I
  <2>2. QED
    BY <2>1, HeapConstants DEF List, H!Reached
<1>4. QED
  BY <1>1, <1>2, <1>3

-----------------------------------------------------------------------------
LEMMA OneBlockGood == HeapGood(H!OneBlock, {})
<1> USE HeapConstants
<1> DEFINE h == H!OneBlock
<1>1. h = [a \in {0} |-> [size |-> HeapSize - 1, next |-> -1, prev |-> -1, state |-> "FREE"]]
  BY DEF H!OneBlock
<1> HIDE DEF h
<1>2. List(h) \subseteq {0} /\ DOMAIN h = {0}
  BY <1>1 DEF List, H!Reached
<1>3. HeapShape(h)
  BY <1>1, <1>2 DEF HeapShape, Header
<1>4. List(h) = {0}
  BY <1>2, <1>3, ListCloses
<1>5. Tiles(h) /\ Owned(h, {})
  BY <1>1, <1>4 DEF Tiles, Owned, End
<1>6. QED
  BY <1>3, <1>5 DEF HeapGood, h

LEMMA HeapReady == HeapInv /\ heap # H!Lost => HeapGood(H!Ready, given)
<1>1. SUFFICES ASSUME HeapInv, heap # H!Lost PROVE HeapGood(H!Ready, given)
  OBVIOUS
<1> USE HeapConstants
<1>2. CASE user.lazy /\ heap = H!Zeros /\ given = {}
  <2>1. H!Ready = H!OneBlock
    BY <1>2 DEF H!Ready, H!Zeros
  <2>2. QED
    BY <1>2, <2>1, OneBlockGood
<1>3. CASE HeapGood(heap, given)
  <2>1. heap[0].size # 0
    BY <1>3 DEF HeapGood, HeapShape
  <2>2. QED
    BY <1>3, <2>1 DEF H!Ready
<1>4. QED
  BY <1>1, <1>2, <1>3 DEF HeapInv

\* The block that malloc finds is in the list, free and large enough.
LEMMA Found ==
  ASSUME NEW h, NEW d, HeapGood(h, d), NEW size \in Nat, H!FirstFit(h, size) # -1
  PROVE  LET b == H!FirstFit(h, size) IN b \in List(h) /\ h[b].state = "FREE" /\ h[b].size >= size
<1> DEFINE fits == {b \in DOMAIN h : h[b].state # "USED" /\ h[b].size >= size}
           found == H!Reached(h, fits) \cap fits
           b == H!FirstFit(h, size)
<1>1. b = CHOOSE x \in found : TRUE
  BY HeapConstants DEF H!FirstFit
<1>2. found # {}
  BY HeapConstants DEF H!FirstFit
<1>3. b \in found
  BY <1>1, <1>2
<1>4. H!Reached(h, fits) \subseteq List(h)
  BY DEF List, H!Reached
<1>5. h[b].state \in {"FREE", "USED"}
  BY <1>3 DEF HeapGood, HeapShape, Header
<1>6. QED
  BY <1>3, <1>4, <1>5

\* What the caller writes over is in nobody's list.
LEMMA WrittenGood ==
  ASSUME NEW h, NEW d, HeapGood(h, d), NEW b \in List(h)
  PROVE  HeapGood(H!Written(h, b), d)
<1> DEFINE j == H!Written(h, b)
<1> USE HeapConstants
<1>1. /\ List(h) \subseteq DOMAIN h /\ 0 \in List(h) /\ DOMAIN h \subseteq Nat /\ HeapShape(h) /\ Tiles(h)
      /\ Owned(h, d) /\ b \in Nat /\ h[b].size \in Nat
  BY ListCloses DEF HeapGood, HeapShape, Header
<1>2. \A c \in List(h) : c \notin H!Payload(h, b)
  <2>1. H!Payload(h, b) = b + 1 .. b + 1 + h[b].size - 1
    BY DEF H!Payload
  <2>2. ASSUME NEW c \in List(h), c \in b + 1 .. b + 1 + h[b].size - 1 PROVE FALSE
    <3>1. b < c /\ c < b + 1 + h[b].size
      BY <1>1, <2>2
    <3>2. b + 1 + h[b].size <= c
      BY <1>1, <3>1 DEF Tiles, End
    <3>3. QED
      BY <1>1, <3>1, <3>2
  <2>3. QED
    BY <2>1, <2>2
<1>3. /\ DOMAIN j = DOMAIN h \ H!Payload(h, b) /\ \A a \in DOMAIN j : j[a] = h[a]
      /\ j = [a \in DOMAIN j |-> j[a]]
  BY DEF H!Written
<1> HIDE DEF j
<1>4. List(h) \subseteq DOMAIN j
  BY <1>1, <1>2, <1>3
<1>5. List(j) = List(h) /\ \A a \in List(j) : j[a].next \in DOMAIN j \cup {-1}
  BY <1>1, <1>3, <1>4, SameList
<1>6. HeapShape(j)
  BY <1>1, <1>3, <1>4, <1>5 DEF HeapShape
<1>7. Tiles(j)
  BY <1>1, <1>3, <1>4, <1>5 DEF Tiles, End
<1>8. Owned(j, d)
  BY <1>1, <1>3, <1>4, <1>5 DEF Owned
<1>9. QED
  BY <1>6, <1>7, <1>8 DEF HeapGood, j

LEMMA TakesWhole ==
  ASSUME NEW h, NEW d, HeapGood(h, d), NEW b \in List(h)
  PROVE  LET j == [h EXCEPT ![b].state = "USED"] IN b \in List(j) /\ HeapGood(j, d \cup {b})
<1> DEFINE j == [h EXCEPT ![b].state = "USED"]
<1> USE HeapConstants
<1>1. b \in DOMAIN h /\ h[b] \in Header /\ b \in Nat /\ HeapShape(h) /\ DOMAIN h \subseteq Nat
      /\ List(h) \subseteq DOMAIN h
  BY ListCloses DEF HeapGood, HeapShape
<1>2. /\ DOMAIN j = DOMAIN h
      /\ \A a \in DOMAIN h : j[a] = IF a = b THEN [size |-> h[b].size, next |-> h[b].next, prev |-> h[b].prev, state |-> "USED"] ELSE h[a]
      /\ j = [a \in DOMAIN h |-> j[a]]
  BY <1>1 DEF Header, HeapShape
<1> HIDE DEF j
<1>3. \A a \in DOMAIN h : /\ j[a].size = h[a].size /\ j[a].next = h[a].next /\ j[a].prev = h[a].prev
                          /\ j[a].state = IF a = b THEN "USED" ELSE h[a].state
                          /\ j[a] \in Header
  BY <1>1, <1>2 DEF Header, HeapShape
<1>4. List(j) = List(h) /\ \A a \in List(j) : j[a].next \in DOMAIN j \cup {-1}
  BY <1>1, <1>2, <1>3, SameList
<1>5. HeapShape(j)
  BY <1>1, <1>2, <1>3, <1>4 DEF HeapShape
<1>6. Tiles(j)
  BY <1>1, <1>3, <1>4 DEF Tiles, End, HeapGood
<1>7. Owned(j, d \cup {b})
  BY <1>1, <1>2, <1>3, <1>4 DEF Owned, HeapGood
<1>8. QED
  BY <1>4, <1>5, <1>6, <1>7 DEF HeapGood, j

\* What malloc leaves when it cuts the block b.
Cut(h, b, size) ==
  [a \in DOMAIN h \cup {b + 1 + size} |->
     IF a = b + 1 + size THEN [size |-> h[b].size - size - 1, next |-> h[b].next, prev |-> b, state |-> "FREE"]
     ELSE IF a = b THEN [size |-> size, next |-> b + 1 + size, prev |-> h[b].prev, state |-> "USED"]
     ELSE h[a]]

LEMMA CutList ==
  ASSUME NEW h, NEW d, HeapGood(h, d), NEW b \in List(h), NEW size \in Nat \ {0}, h[b].size - size > 1
  PROVE  LET j == Cut(h, b, size)
         IN  /\ HeapShape(j) /\ b + 1 + size \notin List(h) /\ List(j) = List(h) \cup {b + 1 + size}
<1> DEFINE j == Cut(h, b, size)
           rest == b + 1 + size
<1> USE HeapConstants
<1>1. /\ List(h) \subseteq DOMAIN h /\ 0 \in List(h) /\ b \in DOMAIN h
      /\ h[b].size \in Nat /\ h[b].prev \in Int /\ h[b].next \in Int
      /\ b \in Nat /\ DOMAIN h \subseteq Nat /\ HeapShape(h) /\ Tiles(h)
      /\ \A a \in List(h) : h[a].next \in List(h) \cup {-1}
  BY ListCloses DEF HeapGood, HeapShape, Header
<1>2. End(h, b) <= HeapSize /\ (h[b].next = IF End(h, b) = HeapSize THEN -1 ELSE End(h, b))
      /\ \A c \in List(h) : b < c => End(h, b) <= c
  BY <1>1 DEF Tiles
<1>3. /\ rest \in Nat /\ rest > b /\ rest < End(h, b) /\ rest <= HeapSize - 2 /\ rest # b
      /\ h[b].next # -1 => h[b].next > rest
  BY <1>1, <1>2 DEF End
<1>4. rest \notin List(h)
  BY <1>1, <1>2, <1>3
<1>5. /\ DOMAIN j = DOMAIN h \cup {rest}
      /\ j = [a \in DOMAIN j |-> j[a]]
      /\ j[rest] = [size |-> h[b].size - size - 1, next |-> h[b].next, prev |-> b, state |-> "FREE"]
      /\ j[b] = [size |-> size, next |-> rest, prev |-> h[b].prev, state |-> "USED"]
      /\ \A a \in DOMAIN h \ {b, rest} : j[a] = h[a]
  BY <1>1, <1>3 DEF Cut
<1> HIDE DEF j
<1>5a. List(j) \subseteq List(h) \cup {rest}
  <2> DEFINE S == List(h) \cup {rest}
  <2>1. S \in SUBSET DOMAIN j /\ 0 \in S
    BY <1>1, <1>5
  <2>2. \A a \in S : j[a].next \in S \cup {-1}
    <3>1. j[rest].next \in S \cup {-1}
      BY <1>1, <1>5
    <3>2. j[b].next \in S
      BY <1>5
    <3>3. \A a \in S \ {b, rest} : j[a].next \in S \cup {-1}
      BY <1>1, <1>5
    <3>4. QED
      BY <3>1, <3>2, <3>3
  <2> HIDE DEF S
  <2>3. List(j) \subseteq S
    BY <2>1, <2>2, ListLeast
  <2>4. QED
    BY <2>3 DEF S
<1>6. HeapShape(j)
  <2> HIDE DEF rest
  <2>1. \A a \in DOMAIN j : j[a] \in Header
    <3>1. j[rest] \in Header
      BY <1>1, <1>5 DEF Header
    <3>2. j[b] \in Header
      BY <1>1, <1>3, <1>5 DEF Header
    <3>3. \A a \in DOMAIN h \ {b, rest} : j[a] \in Header
      BY <1>1, <1>5 DEF HeapShape
    <3>4. QED
      BY <3>1, <3>2, <3>3, <1>5
  <2>2. j \in [DOMAIN j -> Header]
    BY <2>1, <1>5
  <2>3. DOMAIN j \subseteq 0 .. HeapSize - 2 /\ 0 \in DOMAIN j
    BY <1>1, <1>3, <1>5 DEF HeapShape
  <2>4. j[0].size >= 1
    <3>1. 0 # rest
      BY <1>1, <1>3
    <3>2. CASE b = 0
      BY <3>2, <1>5
    <3>3. CASE b # 0
      BY <3>1, <3>3, <1>1, <1>5 DEF HeapShape
    <3>4. QED
      BY <3>2, <3>3
  <2>5. ASSUME NEW a \in DOMAIN j
        PROVE  j[a].next # -1 => j[a].next > a
    <3>1. CASE a = rest
      BY <3>1, <1>1, <1>3, <1>5
    <3>2. CASE a = b
      BY <3>2, <1>1, <1>3, <1>5
    <3>3. CASE a # rest /\ a # b
      BY <3>3, <1>1, <1>5, <2>5 DEF HeapShape
    <3>4. QED
      BY <3>1, <3>2, <3>3
  <2>6. ASSUME NEW a \in List(j) PROVE j[a].next \in DOMAIN j \cup {-1}
    <3>1. CASE a = rest
      BY <3>1, <1>1, <1>5
    <3>2. CASE a = b
      BY <3>2, <1>5
    <3>3. CASE a # rest /\ a # b
      BY <3>3, <1>1, <1>5, <1>5a
    <3>4. QED
      BY <3>1, <3>2, <3>3
  <2>7. QED
    BY <2>2, <2>3, <2>4, <2>5, <2>6 DEF HeapShape
<1>7. /\ List(j) \subseteq DOMAIN j /\ 0 \in List(j)
      /\ \A a \in List(j) : j[a].next \in List(j) \cup {-1}
  BY <1>6, ListCloses
<1>9. List(h) \subseteq List(j)
  <2> DEFINE S == List(h) \cap List(j)
  <2>1. S \in SUBSET DOMAIN h /\ 0 \in S
    BY <1>1, <1>7
  <2>2. ASSUME NEW a \in S PROVE h[a].next \in S \cup {-1}
    <3>1. CASE a = b
      <4>1. rest \in List(j)
        BY <3>1, <1>5, <1>7, <1>3, <1>1
      <4>2. h[b].next \in List(j) \cup {-1}
        BY <4>1, <1>5, <1>7
      <4>3. QED
        BY <3>1, <4>2, <1>1
    <3>2. CASE a # b
      <4>1. j[a] = h[a]
        BY <3>2, <1>1, <1>4, <1>5
      <4>2. QED
        BY <4>1, <1>1, <1>7
    <3>3. QED
      BY <3>1, <3>2
  <2> HIDE DEF S
  <2>3. List(h) \subseteq S
    BY <2>1, <2>2, ListLeast
  <2>4. QED
    BY <2>3 DEF S
<1>10. rest \in List(j)
  BY <1>5, <1>7, <1>9, <1>3, <1>1
<1>11. QED
  BY <1>4, <1>6, <1>5a, <1>9, <1>10 DEF j

LEMMA CutGood ==
  ASSUME NEW h, NEW d, HeapGood(h, d), NEW b \in List(h), NEW size \in Nat \ {0}, h[b].size - size > 1
  PROVE  LET j == Cut(h, b, size) IN b \in List(j) /\ HeapGood(j, d \cup {b})
<1> DEFINE j == Cut(h, b, size)
           rest == b + 1 + size
<1> USE HeapConstants
<1>1. size \in Nat \ {0}
  OBVIOUS
<1>2. /\ List(h) \subseteq DOMAIN h /\ 0 \in List(h) /\ b \in DOMAIN h
      /\ h[b].size \in Nat /\ h[b].prev \in Int /\ h[b].next \in Int
      /\ b \in Nat /\ DOMAIN h \subseteq Nat /\ HeapShape(h) /\ Tiles(h)
      /\ Owned(h, d)
  BY ListCloses DEF HeapGood, HeapShape, Header
<1>3. HeapShape(j) /\ rest \notin List(h) /\ List(j) = List(h) \cup {rest}
  BY <1>1, CutList
<1>4. rest \in Nat /\ rest > b
  BY <1>1, <1>2
<1>5. /\ DOMAIN j = DOMAIN h \cup {rest}
      /\ j = [a \in DOMAIN j |-> j[a]]
      /\ j[rest] = [size |-> h[b].size - size - 1, next |-> h[b].next, prev |-> b, state |-> "FREE"]
      /\ j[b] = [size |-> size, next |-> rest, prev |-> h[b].prev, state |-> "USED"]
      /\ \A a \in DOMAIN h \ {b, rest} : j[a] = h[a]
  BY <1>2, <1>4 DEF Cut
<1> HIDE DEF j
<1>6. /\ \A a \in List(h) \ {b} : End(j, a) = End(h, a) /\ j[a] = h[a]
      /\ End(j, b) = rest /\ End(j, rest) = End(h, b)
  <2>1. \A a \in List(h) \ {b} : j[a] = h[a]
    BY <1>2, <1>3, <1>5
  <2>2. End(j, b) = rest
    BY <1>5, <1>1, <1>2 DEF End
  <2>3. j[rest].size = h[b].size - size - 1
    BY <1>5
  <2>4. End(j, rest) = b + 1 + size + 1 + (h[b].size - size - 1)
    BY <2>3 DEF End
  <2>5. End(j, rest) = End(h, b)
    BY <2>4, <1>1, <1>2 DEF End
  <2>6. QED
    BY <2>1, <2>2, <2>5 DEF End
<1>7. \A a \in List(h) : End(h, a) \in Nat /\ End(h, a) > a
  BY <1>2 DEF End, HeapShape, Header
<1>8. Tiles(j)
  <2> HIDE DEF rest
  <2>1. ASSUME NEW a \in List(j)
        PROVE  End(j, a) <= HeapSize /\ (j[a].next = IF End(j, a) = HeapSize THEN -1 ELSE End(j, a))
    <3>1. CASE a = rest
      BY <3>1, <1>2, <1>5, <1>6 DEF Tiles
    <3>2. CASE a = b
      <4>1. rest < End(h, b) /\ End(h, b) <= HeapSize
        BY <1>1, <1>2 DEF Tiles, End, rest
      <4>2. End(j, b) = rest /\ j[b].next = rest /\ rest # HeapSize /\ rest <= HeapSize
        BY <4>1, <1>4, <1>5, <1>6, <1>7
      <4>3. QED
        BY <3>2, <4>2
    <3>3. CASE a # rest /\ a # b
      BY <3>3, <1>2, <1>3, <1>6 DEF Tiles
    <3>4. QED
      BY <3>1, <3>2, <3>3
  <2>2. ASSUME NEW a \in List(j), NEW c \in List(j), a < c PROVE End(j, a) <= c
    <3>0. rest < End(h, b)
      BY <1>1, <1>2 DEF End, rest
    <3>1. CASE a = rest
      <4>1. c \in List(h) /\ c > b
        BY <2>2, <3>1, <1>2, <1>3, <1>4
      <4>2. QED
        BY <3>1, <4>1, <1>2, <1>6 DEF Tiles
    <3>2. CASE a = b
      <4>1. CASE c = rest
        BY <3>2, <4>1, <1>4, <1>6
      <4>2. CASE c # rest
        <5>1. c \in List(h)
          BY <4>2, <1>3
        <5>2. End(h, b) <= c
          BY <5>1, <3>2, <2>2, <1>2 DEF Tiles
        <5>3. QED
          BY <5>1, <5>2, <3>0, <3>2, <1>2, <1>4, <1>6, <1>7
      <4>3. QED
        BY <4>1, <4>2
    <3>3. CASE a # rest /\ a # b
      <4>0. a \in List(h) /\ End(j, a) = End(h, a)
        BY <3>3, <1>3, <1>6
      <4>1. CASE c = rest
        <5>1. a < b
          <6>1. SUFFICES ASSUME a > b PROVE FALSE
            BY <3>3, <4>0, <1>2
          <6>2. End(h, b) <= a
            BY <6>1, <4>0, <1>2 DEF Tiles
          <6>3. QED
            BY <6>2, <3>0, <4>1, <2>2, <4>0, <1>2, <1>4, <1>7
        <5>2. End(h, a) <= b
          BY <5>1, <4>0, <1>2 DEF Tiles
        <5>3. QED
          BY <5>2, <4>0, <4>1, <1>2, <1>4, <1>7
      <4>2. CASE c # rest
        BY <4>0, <4>2, <2>2, <1>2, <1>3 DEF Tiles
      <4>3. QED
        BY <4>1, <4>2
    <3>4. QED
      BY <3>1, <3>2, <3>3
  <2>3. QED
    BY <2>1, <2>2 DEF Tiles
<1>9. Owned(j, d \cup {b})
  <2>1. \A a \in DOMAIN j : j[a].state = "USED" <=> (a = b \/ (a # rest /\ a \in DOMAIN h /\ h[a].state = "USED"))
    BY <1>4, <1>5
  <2>2. \A a \in DOMAIN j : j[a].state = "USED" <=> a \in d \cup {b}
    BY <2>1, <1>2, <1>3, <1>5 DEF Owned
  <2>3. d \cup {b} \subseteq List(j) /\ List(j) \subseteq DOMAIN j
    BY <1>2, <1>3, ListCloses DEF Owned
  <2>4. QED
    BY <2>2, <2>3 DEF Owned
<1>10. QED
  BY <1>3, <1>8, <1>9 DEF HeapGood, j

LEMMA MallocKeeps == HeapInv /\ heap # H!Lost /\ (\E size \in user.sizes : H!Malloc(size)) => HeapInv'
<1>1. SUFFICES ASSUME HeapInv, heap # H!Lost, NEW size \in user.sizes, H!Malloc(size) PROVE HeapInv'
  OBVIOUS
<1> USE HeapConstants
<1>2. user' = user /\ user \in Blocks /\ size \in Nat \ {0}
  BY <1>1 DEF H!Malloc, HeapInv
<1> DEFINE h == H!Ready
           b == H!FirstFit(h, size)
           cut == H!Split(h, b, size)
           j == [cut EXCEPT ![b].state = "USED"]
<1>3. HeapGood(h, given)
  BY <1>1, HeapReady
<1>4. CASE b = -1
  <2>1. heap' = h /\ given' = given
    BY <1>1, <1>4 DEF H!Malloc
  <2> HIDE DEF h
  <2>2. HeapGood(heap', given')
    BY <1>3, <2>1
  <2>3. QED
    BY <1>2, <2>2 DEF HeapInv
<1>5. CASE b # -1
  <2>1. heap' = H!Written(j, b) /\ given' = given \cup {b}
    BY <1>1, <1>5 DEF H!Malloc
  <2> HIDE DEF h
  <2>2. b \in List(h) /\ h[b].size >= size
    BY <1>2, <1>3, <1>5, Found
  <2>3. b \in DOMAIN h /\ h[b] \in Header /\ DOMAIN h \subseteq Nat /\ b \in Nat /\ b \in Int
    BY <1>3, <2>2, ListCloses DEF HeapGood, HeapShape
  <2> HIDE DEF b
  <2>4. ASSUME h[b].size - size <= 1 PROVE HeapGood(heap', given')
    <3>1. cut = h
      BY <2>4 DEF H!Split
    <3> HIDE DEF cut
    <3>2. b \in List(j) /\ HeapGood(j, given \cup {b})
      BY <1>3, <2>2, <3>1, TakesWhole
    <3> HIDE DEF j
    <3>3. QED
      BY <2>1, <3>2, WrittenGood
  <2>5. ASSUME h[b].size - size > 1 PROVE HeapGood(heap', given')
    <3> DEFINE rest == b + 1 + size
               header == [size |-> h[b].size - size - 1, next |-> h[b].next, prev |-> b, state |-> "FREE"]
               over == H!Overwrite(h, rest, header)
    <3>1. cut = [over EXCEPT ![b].size = size, ![b].next = rest]
      <4>1. ~(h[b].size - size <= H!H)
        BY <2>3, <2>5, <1>2 DEF Header
      <4>2. QED
        BY <4>1 DEF H!Split
    <3> HIDE DEF cut, header
    <3>2. rest # b
      BY <2>3, <1>2
    <3> HIDE DEF rest
    <3>3. over = [a \in DOMAIN h \cup {rest} |-> IF a = rest THEN header ELSE h[a]]
      BY DEF H!Overwrite
    <3> HIDE DEF over
    <3>4. /\ b \in DOMAIN over /\ over[b] = h[b]
          /\ over[b] = [size |-> h[b].size, next |-> h[b].next, prev |-> h[b].prev, state |-> h[b].state]
      BY <2>3, <3>2, <3>3 DEF Header
    <3> DEFINE made == [size |-> size, next |-> rest, prev |-> h[b].prev, state |-> h[b].state]
    <3>5. cut = [over EXCEPT ![b] = made]
      <4>1. [[over[b] EXCEPT !.size = size] EXCEPT !.next = rest] = made
        <5> DEFINE old == [size |-> h[b].size, next |-> h[b].next, prev |-> h[b].prev, state |-> h[b].state]
                   mid == [size |-> size, next |-> h[b].next, prev |-> h[b].prev, state |-> h[b].state]
        <5>1. [old EXCEPT !.size = size] = mid
          OBVIOUS
        <5>2. [mid EXCEPT !.next = rest] = made
          OBVIOUS
        <5>3. over[b] = old
          BY <3>4
        <5> HIDE DEF old, mid, made
        <5>4. QED
          BY <5>1, <5>2, <5>3
      <4>2. cut = [over EXCEPT ![b] = [[over[b] EXCEPT !.size = size] EXCEPT !.next = rest]]
        BY <3>1, <3>3, <3>4
      <4>3. QED
        BY <4>1, <4>2
    <3>6. j = [over EXCEPT ![b] = [made EXCEPT !.state = "USED"]]
      BY <3>3, <3>4, <3>5
    <3>7. [made EXCEPT !.state = "USED"] = [size |-> size, next |-> rest, prev |-> h[b].prev, state |-> "USED"]
      OBVIOUS
    <3> HIDE DEF made, j
    <3>8. j = [a \in DOMAIN h \cup {rest} |-> IF a = rest THEN header ELSE
                 IF a = b THEN [size |-> size, next |-> rest, prev |-> h[b].prev, state |-> "USED"] ELSE h[a]]
      BY <3>2, <3>3, <3>6, <3>7
    <3>9. j = Cut(h, b, size)
      BY <3>8 DEF Cut, rest, header
    <3>10. b \in List(j) /\ HeapGood(j, given \cup {b})
      BY <1>2, <1>3, <2>2, <2>5, <3>9, CutGood
    <3>11. QED
      BY <2>1, <3>10, WrittenGood
  <2>6. HeapGood(heap', given')
    BY <2>3, <2>4, <2>5, <1>2 DEF Header
  <2>7. QED
    BY <1>2, <2>6 DEF HeapInv
<1>6. QED
  BY <1>4, <1>5

-----------------------------------------------------------------------------
\* What is left when a free block takes in the next, where the next is free.
LEMMA JoinedParts ==
  ASSUME NEW h, NEW d, HeapGood(h, d), NEW p \in DOMAIN h, h[p].state = "FREE",
         h[p].next \in DOMAIN h, h[h[p].next].state = "FREE"
  PROVE  LET j == H!Joined(h, p)
             n == h[p].next
         IN  /\ n \in DOMAIN h /\ n > p /\ n \in Nat /\ p \in Nat
             /\ DOMAIN j = DOMAIN h
             /\ j[p] = [size |-> h[p].size + h[n].size + 1, next |-> h[n].next, prev |-> h[p].prev, state |-> "FREE"]
             /\ \A a \in DOMAIN h \ {p} : /\ j[a].size = h[a].size /\ j[a].next = h[a].next /\ j[a].state = h[a].state
                                          /\ j[a].prev = IF a = h[n].next THEN p ELSE h[a].prev
             /\ j \in [DOMAIN h -> Header]
<1> DEFINE j == H!Joined(h, p)
           n == h[p].next
<1> USE HeapConstants
<1>1. /\ n \in DOMAIN h /\ n # -1 /\ n > p /\ n \in Nat /\ p \in Nat
      /\ \A a \in DOMAIN h : h[a] = [size |-> h[a].size, next |-> h[a].next, prev |-> h[a].prev, state |-> h[a].state]
      /\ \A a \in DOMAIN h : h[a] \in Header
  BY DEF HeapGood, HeapShape, Header
<1>2. j = [a \in DOMAIN h |->
                IF a = p THEN [h[p] EXCEPT !.size = @ + h[n].size + 1, !.next = h[n].next]
                ELSE IF a = h[n].next THEN [h[a] EXCEPT !.prev = p] ELSE h[a]]
  <2>1. ~ (h[p].next = H!Null \/ h[h[p].next].state # "FREE")
    BY <1>1
  <2>2. QED
    BY <2>1 DEF H!Joined
<1> HIDE DEF j, n
<1>3. [h[p] EXCEPT !.size = @ + h[n].size + 1, !.next = h[n].next] =
        [size |-> h[p].size + h[n].size + 1, next |-> h[n].next, prev |-> h[p].prev, state |-> "FREE"]
  <2> DEFINE old == [size |-> h[p].size, next |-> h[p].next, prev |-> h[p].prev, state |-> h[p].state]
             mid == [size |-> h[p].size + h[n].size + 1, next |-> h[p].next, prev |-> h[p].prev, state |-> h[p].state]
  <2>1. [old EXCEPT !.size = @ + h[n].size + 1] = mid
    OBVIOUS
  <2>2. [mid EXCEPT !.next = h[n].next] = [size |-> h[p].size + h[n].size + 1, next |-> h[n].next, prev |-> h[p].prev, state |-> h[p].state]
    OBVIOUS
  <2>3. h[p] = old
    BY <1>1
  <2> HIDE DEF old, mid
  <2>4. QED
    BY <2>1, <2>2, <2>3
<1>4. \A a \in DOMAIN h : [h[a] EXCEPT !.prev = p] = [size |-> h[a].size, next |-> h[a].next, prev |-> p, state |-> h[a].state]
  BY <1>1
<1>5. j[p] = [size |-> h[p].size + h[n].size + 1, next |-> h[n].next, prev |-> h[p].prev, state |-> "FREE"]
  BY <1>2, <1>3
<1>6. ASSUME NEW a \in DOMAIN h \ {p}
      PROVE  /\ j[a].size = h[a].size /\ j[a].next = h[a].next /\ j[a].state = h[a].state
             /\ j[a].prev = IF a = h[n].next THEN p ELSE h[a].prev
             /\ j[a] \in Header
  <2>1. CASE a = h[n].next
    <3>1. j[a] = [size |-> h[a].size, next |-> h[a].next, prev |-> p, state |-> h[a].state]
      BY <2>1, <1>2, <1>4
    <3>2. h[a].size \in Nat /\ h[a].next \in Int /\ h[a].state \in {"FREE", "USED"}
      BY <1>1 DEF Header
    <3>3. j[a] \in Header
      BY <3>1, <3>2, <1>1 DEF Header
    <3>4. QED
      BY <2>1, <3>1, <3>3
  <2>2. CASE a # h[n].next
    BY <2>2, <1>1, <1>2
  <2>3. QED
    BY <2>1, <2>2
<1>7. j[p] \in Header
  BY <1>1, <1>5 DEF Header
<1>9. DOMAIN j = DOMAIN h /\ j = [a \in DOMAIN h |-> j[a]]
  BY <1>2
<1>10. j \in [DOMAIN h -> Header]
  BY <1>6, <1>7, <1>9
<1>11. QED
  BY <1>1, <1>5, <1>6, <1>9, <1>10 DEF j, n

LEMMA JoinedKeeps ==
  ASSUME NEW h, NEW d, HeapGood(h, d), NEW p \in DOMAIN h, h[p].state = "FREE", H!Intact(h, p)
  PROVE  LET j == H!Joined(h, p) IN HeapGood(j, d) /\ DOMAIN j = DOMAIN h /\ j[p].state = "FREE"
<1> DEFINE j == H!Joined(h, p)
           n == h[p].next
<1> USE HeapConstants
<1>1. CASE n = -1 \/ h[n].state # "FREE"
  <2>1. j = h
    BY <1>1 DEF H!Joined
  <2>2. QED
    BY <2>1
<1>2. CASE ~ (n = -1 \/ h[n].state # "FREE")
  <2>1. /\ n \in DOMAIN h /\ n > p /\ n \in Nat /\ p \in Nat /\ h[n].state = "FREE"
        /\ DOMAIN j = DOMAIN h
        /\ j[p] = [size |-> h[p].size + h[n].size + 1, next |-> h[n].next, prev |-> h[p].prev, state |-> "FREE"]
        /\ \A a \in DOMAIN h \ {p} : /\ j[a].size = h[a].size /\ j[a].next = h[a].next /\ j[a].state = h[a].state
                                     /\ j[a].prev = IF a = h[n].next THEN p ELSE h[a].prev
        /\ j \in [DOMAIN h -> Header]
    <3>1. n \in DOMAIN h /\ h[n].state = "FREE"
      BY <1>2 DEF H!Intact
    <3>2. QED
      BY <3>1, JoinedParts
  <2> HIDE DEF j
  <2>2. /\ HeapShape(h) /\ Tiles(h) /\ Owned(h, d)
        /\ List(h) \subseteq DOMAIN h /\ 0 \in List(h) /\ DOMAIN h \subseteq Nat
        /\ \A a \in List(h) : h[a].next \in List(h) \cup {-1}
        /\ \A a \in DOMAIN h : h[a] \in Header /\ h[a].size \in Nat
    BY ListCloses DEF HeapGood, HeapShape, Header
  <2>3. h[n].next # -1 => h[n].next > n
    BY <2>1, <2>2 DEF HeapShape
  <2>3a. p \in List(h) => n \in List(h)
    BY <2>1, <2>2
  <2> HIDE DEF n
  <2>3b. List(j) \subseteq List(h) /\ \A a \in List(h) : j[a].next \in List(h) \cup {-1}
    <3>1. \A a \in List(h) : j[a].next \in List(h) \cup {-1}
      <4>1. ASSUME NEW a \in List(h) PROVE j[a].next \in List(h) \cup {-1}
        <5>1. CASE a = p
          BY <5>1, <2>1, <2>2, <2>3a
        <5>2. CASE a # p
          BY <5>2, <2>1, <2>2
        <5>3. QED
          BY <5>1, <5>2
      <4>2. QED
        BY <4>1
    <3> DEFINE S == List(h)
    <3>2. S \in SUBSET DOMAIN j /\ 0 \in S /\ \A a \in S : j[a].next \in S \cup {-1}
      BY <2>1, <2>2, <3>1
    <3> HIDE DEF S
    <3>3. List(j) \subseteq S
      BY <3>2, ListLeast
    <3>4. QED
      BY <3>1, <3>3 DEF S
  <2>4. HeapShape(j)
    <3>1. j[0].size >= 1
      BY <2>1, <2>2 DEF HeapShape
    <3>2. ASSUME NEW a \in DOMAIN j
          PROVE  j[a].next # -1 => j[a].next > a
      <4>1. CASE a = p
        <5>1. j[a].next = h[n].next /\ h[n].next \in Int /\ n \in Nat /\ p \in Nat /\ n > p
          BY <4>1, <2>1, <2>2 DEF Header
        <5>2. QED
          BY <4>1, <5>1, <2>3
      <4>2. CASE a # p
        BY <4>2, <3>2, <2>1, <2>2, <2>3 DEF HeapShape
      <4>3. QED
        BY <4>1, <4>2
    <3>3. DOMAIN j \subseteq 0 .. HeapSize - 2 /\ 0 \in DOMAIN j /\ j \in [DOMAIN j -> Header]
      BY <2>1, <2>2 DEF HeapShape
    <3>4. \A a \in List(j) : j[a].next \in DOMAIN j \cup {-1}
      BY <2>1, <2>2, <2>3b
    <3>5. QED
      BY <3>1, <3>2, <3>3, <3>4 DEF HeapShape
  <2>6. \A a \in DOMAIN h : j[a].state = h[a].state
    BY <2>1
  <2>7. /\ List(j) \subseteq DOMAIN h /\ 0 \in List(j)
        /\ \A a \in List(j) : j[a].next \in List(j) \cup {-1}
    BY <2>1, <2>4, ListCloses
  <2>8. ASSUME p \notin List(h) PROVE HeapGood(j, d)
    <3>1. List(j) = List(h)
      <4>1. \A a \in List(h) : j[a].next = h[a].next
        BY <2>1, <2>2, <2>8
      <4>2. QED
        BY <4>1, <2>1, <2>2, <2>4, SameList
    <3>2. \A a \in List(h) : j[a].size = h[a].size /\ j[a].next = h[a].next
      BY <2>1, <2>2, <2>8
    <3>3. Tiles(j)
      BY <3>1, <3>2, <2>2 DEF Tiles, End
    <3>4. Owned(j, d)
      BY <3>1, <2>1, <2>2, <2>6 DEF Owned
    <3>5. QED
      BY <3>3, <3>4, <2>4 DEF HeapGood
  <2>9. ASSUME p \in List(h) PROVE HeapGood(j, d)
    <3>0. n \in List(h) /\ n # -1 /\ h[p].next = n
      BY <2>9, <2>1, <2>2, <2>3a DEF n
    <3>1. End(h, p) = n
      BY <3>0, <2>9, <2>2 DEF Tiles
    <3>2. \A a \in List(h) : End(h, a) \in Nat /\ End(h, a) > a
      BY <2>2 DEF End
    <3>3. ASSUME NEW a \in List(h), a # p PROVE h[a].next # n
      <4>1. SUFFICES ASSUME h[a].next = n PROVE FALSE
        OBVIOUS
      <4>2. End(h, a) = n
        BY <4>1, <3>0, <2>2 DEF Tiles
      <4>3. CASE a < p
        BY <4>2, <4>3, <2>1, <2>2, <2>9 DEF Tiles
      <4>4. CASE a > p
        <5>1. n <= a
          BY <4>4, <3>1, <2>2, <2>9 DEF Tiles
        <5>2. QED
          BY <5>1, <4>2, <3>2, <2>2, <2>1
      <4>5. QED
        BY <3>3, <4>3, <4>4, <2>1, <2>2
    <3>4. List(j) \subseteq List(h) \ {n}
      <4> DEFINE S == List(h) \ {n}
      <4>1. S \in SUBSET DOMAIN j /\ 0 \in S
        BY <2>1, <2>2
      <4>2. ASSUME NEW a \in S PROVE j[a].next \in S \cup {-1}
        <5>1. CASE a = p
          BY <5>1, <3>0, <2>1, <2>2, <2>3
        <5>2. CASE a # p
          BY <5>2, <3>3, <2>1, <2>2
        <5>3. QED
          BY <5>1, <5>2
      <4> HIDE DEF S
      <4>3. List(j) \subseteq S
        BY <4>1, <4>2, ListLeast
      <4>4. QED
        BY <4>3 DEF S
    <3>5. List(h) \ {n} \subseteq List(j)
      <4> DEFINE S == (List(j) \cap List(h)) \cup (IF p \in List(j) THEN {n} ELSE {})
      <4>1. S \in SUBSET DOMAIN h /\ 0 \in S
        BY <2>1, <2>2, <2>7
      <4>2. ASSUME NEW a \in S PROVE h[a].next \in S \cup {-1}
        <5>1. CASE a = p
          <6>1. p \in List(j)
            BY <5>1, <2>1
          <6>2. QED
            BY <6>1, <5>1, <3>0
        <5>2. CASE a = n
          <6>1. p \in List(j)
            BY <5>2, <3>4
          <6>2. h[n].next \in List(j) \cup {-1}
            BY <6>1, <2>1, <2>7
          <6>3. QED
            BY <6>2, <5>2, <3>0, <2>2
        <5>3. CASE a # p /\ a # n
          <6>1. a \in List(j) /\ a \in List(h)
            BY <5>3
          <6>2. h[a].next \in List(j) \cup {-1} /\ h[a].next \in List(h) \cup {-1}
            BY <6>1, <5>3, <2>1, <2>2, <2>7
          <6>3. QED
            BY <6>2
        <5>4. QED
          BY <5>1, <5>2, <5>3
      <4> HIDE DEF S
      <4>3. List(h) \subseteq S
        BY <4>1, <4>2, ListLeast
      <4>4. QED
        BY <4>3 DEF S
    <3>6. List(j) = List(h) \ {n}
      BY <3>4, <3>5
    <3>7. End(j, p) = End(h, n) /\ \A a \in List(h) \ {p} : End(j, a) = End(h, a)
      <4>1. j[p].size = h[p].size + h[n].size + 1
        BY <2>1
      <4>2. QED
        BY <4>1, <3>1, <2>1, <2>2 DEF End
    <3>8. Tiles(j)
      <4>1. ASSUME NEW a \in List(j)
            PROVE  End(j, a) <= HeapSize /\ (j[a].next = IF End(j, a) = HeapSize THEN -1 ELSE End(j, a))
        <5>1. CASE a = p
          BY <5>1, <3>0, <3>7, <2>1, <2>2 DEF Tiles
        <5>2. CASE a # p
          BY <5>2, <3>6, <3>7, <2>1, <2>2 DEF Tiles
        <5>3. QED
          BY <5>1, <5>2
      <4>2. ASSUME NEW a \in List(j), NEW c \in List(j), a < c PROVE End(j, a) <= c
        <5>0. a \in List(h) /\ c \in List(h) /\ a # n /\ c # n
          BY <3>6
        <5>1. CASE a = p
          <6>1. n <= c
            BY <5>0, <5>1, <4>2, <3>1, <2>2, <2>9 DEF Tiles
          <6>2. n < c
            BY <6>1, <5>0, <2>1, <2>2
          <6>3. QED
            BY <6>2, <5>0, <5>1, <3>0, <3>7, <2>2 DEF Tiles
        <5>2. CASE a # p
          BY <5>0, <5>2, <4>2, <3>7, <2>2 DEF Tiles
        <5>3. QED
          BY <5>1, <5>2
      <4>3. QED
        BY <4>1, <4>2 DEF Tiles
    <3>9. Owned(j, d)
      BY <3>6, <2>1, <2>2, <2>6 DEF Owned
    <3>10. QED
      BY <3>8, <3>9, <2>4 DEF HeapGood
  <2>10. j[p].state = "FREE"
    BY <2>1
  <2>11. QED
    BY <2>1, <2>8, <2>9, <2>10 DEF j
<1>3. QED
  BY <1>1, <1>2

LEMMA FreeKeeps == HeapInv /\ heap # H!Lost /\ (\E b \in given : H!Free(b)) => HeapInv'
<1>1. SUFFICES ASSUME HeapInv, heap # H!Lost, NEW b \in given, H!Free(b) PROVE HeapInv'
  OBVIOUS
<1> USE HeapConstants
<1>2. HeapGood(heap, given) /\ user' = user /\ user \in Blocks
  BY <1>1 DEF H!Free, HeapInv
<1> DEFINE h == [heap EXCEPT ![b].state = "FREE"]
           d == given \ {b}
           dom == DOMAIN heap
<1>3. /\ b \in dom /\ b \in Nat /\ HeapShape(heap) /\ Tiles(heap) /\ Owned(heap, given)
      /\ List(heap) \subseteq dom
  BY <1>2, ListCloses DEF HeapGood, Owned, HeapShape
<1>4. heap' = H!Merge(heap, b) /\ given' = d
  BY <1>1 DEF H!Free
<1>5. HeapGood(h, d) /\ DOMAIN h = dom /\ h[b].state = "FREE"
  <2>1. \A a \in dom : heap[a] = [size |-> heap[a].size, next |-> heap[a].next, prev |-> heap[a].prev, state |-> heap[a].state]
                       /\ heap[a] \in Header
    BY <1>3 DEF HeapShape, Header
  <2>2. h = [a \in dom |-> IF a = b THEN [heap[b] EXCEPT !.state = "FREE"] ELSE heap[a]]
    BY <1>3 DEF HeapShape
  <2> HIDE DEF h
  <2>3. h[b] = [size |-> heap[b].size, next |-> heap[b].next, prev |-> heap[b].prev, state |-> "FREE"]
    BY <1>3, <2>1, <2>2
  <2>4. h[b] \in Header
    BY <1>3, <2>1, <2>3 DEF Header
  <2>5. \A a \in dom : /\ h[a].size = heap[a].size /\ h[a].next = heap[a].next /\ h[a].prev = heap[a].prev
                       /\ h[a].state = IF a = b THEN "FREE" ELSE heap[a].state
                       /\ h[a] \in Header
    BY <2>1, <2>2, <2>3, <2>4
  <2>6. DOMAIN h = dom /\ h \in [dom -> Header]
    BY <2>2, <2>5
  <2>7. List(h) = List(heap) /\ \A a \in List(h) : h[a].next \in DOMAIN h \cup {-1}
    BY <1>3, <2>5, <2>6, SameList
  <2>8. HeapShape(h)
    BY <1>3, <2>5, <2>6, <2>7 DEF HeapShape
  <2>9. Tiles(h)
    BY <1>3, <2>5, <2>7 DEF Tiles, End
  <2>10. Owned(h, d)
    BY <1>3, <2>5, <2>6, <2>7 DEF Owned
  <2>11. QED
    BY <1>3, <2>3, <2>6, <2>8, <2>9, <2>10 DEF HeapGood
<1> HIDE DEF h
<1> DEFINE V == {c \in [heap : [dom -> Header] \cup {H!Lost}, block : Int] :
                   c.heap = H!Lost \/ (/\ c.heap \in [dom -> Header] /\ c.block \in dom /\ HeapGood(c.heap, d)
                                       /\ c.heap[c.block].state = "FREE")}
           base == [heap |-> H!Join(h, b), block |-> b]
           Up(c) == LET p == c.heap[c.block].prev
                    IN  IF c.heap = H!Lost \/ p = H!Null THEN c
                        ELSE IF p \notin DOMAIN c.heap THEN [heap |-> H!Lost, block |-> p]
                        ELSE IF c.heap[p].state = "FREE" THEN [heap |-> H!Join(c.heap, p), block |-> p]
                        ELSE c
           g == [x \in (1 .. b) \X V |-> Up(x[2])]
           Is(f) == f = [i \in 0 .. b |-> IF i = 0 THEN [heap |-> H!Join([heap EXCEPT ![b].state = "FREE"], b), block |-> b]
                                          ELSE LET c == f[i - 1]
                                                   p == c.heap[c.block].prev
                                               IN  IF c.heap = H!Lost \/ p = H!Null THEN c
                                                   ELSE IF p \notin DOMAIN c.heap THEN [heap |-> H!Lost, block |-> p]
                                                   ELSE IF c.heap[p].state = "FREE"
                                                        THEN [heap |-> H!Join(c.heap, p), block |-> p]
                                                   ELSE c]
           F == CHOOSE f : Is(f)
<1>6. ASSUME NEW e, NEW p \in dom, HeapGood(e, d), DOMAIN e = dom, e[p].state = "FREE"
      PROVE  [heap |-> H!Join(e, p), block |-> p] \in V
  <2>1. p \in Int
    BY <1>3 DEF HeapShape
  <2>2. CASE ~ H!Intact(e, p)
    BY <2>1, <2>2 DEF H!Join
  <2>3. CASE H!Intact(e, p)
    <3> DEFINE j == H!Joined(e, p)
    <3>1. H!Join(e, p) = j
      BY <2>3 DEF H!Join
    <3>2. HeapGood(j, d) /\ DOMAIN j = dom /\ j[p].state = "FREE"
      BY <1>6, <2>3, JoinedKeeps
    <3> HIDE DEF j
    <3>3. j \in [dom -> Header]
      BY <3>2 DEF HeapGood, HeapShape
    <3>4. QED
      BY <2>1, <3>1, <3>2, <3>3
  <2>4. QED
    BY <2>2, <2>3
<1>7. base \in V
  BY <1>3, <1>5, <1>6
<1>8. ASSUME NEW c \in V PROVE Up(c) \in V
  <2> DEFINE p == c.heap[c.block].prev
  <2>1. CASE c.heap = H!Lost \/ p = H!Null
    BY <2>1
  <2>2. CASE ~ (c.heap = H!Lost \/ p = H!Null)
    <3>1. /\ c.heap \in [dom -> Header] /\ c.block \in dom /\ HeapGood(c.heap, d) /\ DOMAIN c.heap = dom
      BY <2>2
    <3>2. p \in Int
      BY <3>1 DEF Header
    <3>3. CASE p \notin dom
      <4>1. Up(c) = [heap |-> H!Lost, block |-> p]
        BY <2>2, <3>1, <3>3
      <4> HIDE DEF Up, p
      <4>2. QED
        BY <3>2, <4>1
    <3>4. CASE p \in dom /\ c.heap[p].state = "FREE"
      <4>1. Up(c) = [heap |-> H!Join(c.heap, p), block |-> p]
        BY <2>2, <3>1, <3>4
      <4>2. [heap |-> H!Join(c.heap, p), block |-> p] \in V
        <5> HIDE DEF p, V
        <5> QED
          BY <3>1, <3>4, <1>6
      <4>3. QED
        BY <4>1, <4>2
    <3>5. CASE p \in dom /\ c.heap[p].state # "FREE"
      <4>1. Up(c) = c
        BY <2>2, <3>1, <3>5
      <4>2. QED
        BY <4>1
    <3>6. QED
      BY <3>3, <3>4, <3>5
  <2>3. QED
    BY <2>1, <2>2
<1>9. g \in [(1 .. b) \X V -> V]
  <2> HIDE DEF V, Up
  <2>1. \A x \in (1 .. b) \X V : Up(x[2]) \in V
    BY <1>8
  <2>2. QED
    BY <2>1
<1>10. PICK f : Follows(f, b, V, base, g)
  <2> HIDE DEF V, g, base
  <2> QED
    BY <1>3, <1>7, <1>9, Recursion
<1>11. \A i \in 1 .. b : f[i] = Up(f[i - 1])
  <2> HIDE DEF V, Up, base
  <2>1. ASSUME NEW i \in 1 .. b PROVE f[i] = Up(f[i - 1])
    <3>1. f[i - 1] \in V /\ f[i] = g[<<i, f[i - 1]>>] /\ <<i, f[i - 1]>> \in (1 .. b) \X V
      <4>1. i - 1 \in 0 .. b
        BY <1>3
      <4>2. f \in [0 .. b -> V] /\ f[i] = g[<<i, f[i - 1]>>]
        <5> HIDE DEF g
        <5> QED
          BY <1>10 DEF Follows
      <4>3. QED
        BY <4>1, <4>2
    <3>2. QED
      BY <3>1
  <2>2. QED
    BY <2>1
<1>12. Is(f)
  <2>1. f = [i \in 0 .. b |-> f[i]] /\ f[0] = base
    <3> HIDE DEF V, base, g
    <3> QED
      BY <1>10 DEF Follows
  <2>2. ASSUME NEW i \in 0 .. b
        PROVE  f[i] = IF i = 0 THEN [heap |-> H!Join([heap EXCEPT ![b].state = "FREE"], b), block |-> b]
                                          ELSE LET c == f[i - 1]
                                                   p == c.heap[c.block].prev
                                               IN  IF c.heap = H!Lost \/ p = H!Null THEN c
                                                   ELSE IF p \notin DOMAIN c.heap THEN [heap |-> H!Lost, block |-> p]
                                                   ELSE IF c.heap[p].state = "FREE"
                                                        THEN [heap |-> H!Join(c.heap, p), block |-> p]
                                                   ELSE c
    <3>1. CASE i = 0
      BY <3>1, <2>1 DEF h
    <3>2. CASE i # 0
      <4>1. i \in 1 .. b
        BY <3>2, <1>3
      <4>2. f[i] = Up(f[i - 1])
        BY <4>1, <1>11
      <4>3. QED
        BY <3>2, <4>2
    <3>3. QED
      BY <3>1, <3>2
  <2>3. QED
    BY <2>1, <2>2
<1>13. Is(F)
  <2> HIDE DEF Is
  <2> QED
    BY <1>12
<1>14. F[0] = base /\ \A i \in 1 .. b : F[i] = Up(F[i - 1])
  <2> HIDE DEF F
  <2>1. F[0] = base
    BY <1>3, <1>13 DEF h
  <2>2. ASSUME NEW i \in 1 .. b PROVE F[i] = Up(F[i - 1])
    <3>1. i \in 0 .. b /\ i # 0
      BY <1>3
    <3>2. QED
      BY <1>13, <3>1
  <2>3. QED
    BY <2>1, <2>2
<1> DEFINE T == {i \in 0 .. b : F[i] \in V}
<1>15. 0 \in T
  <2> HIDE DEF F, V, base
  <2> QED
    BY <1>3, <1>7, <1>14
<1>16. ASSUME NEW i \in 1 .. b, i - 1 \in T PROVE i \in T
  <2> HIDE DEF F, V, Up
  <2>1. F[i - 1] \in V /\ F[i] = Up(F[i - 1]) /\ i \in 0 .. b
    BY <1>3, <1>14, <1>16
  <2>2. QED
    BY <2>1, <1>8
<1>17. F[b] \in V
  <2> HIDE DEF T
  <2>1. \A i \in 0 .. b : i \in T
    BY <1>3, <1>15, <1>16, Induct
  <2>2. b \in T
    BY <1>3, <2>1
  <2>3. QED
    BY <2>2 DEF T
<1>18. H!Merge(heap, b) = F[b].heap
  BY DEF H!Merge
<1>19. heap' = H!Lost \/ HeapGood(heap', given')
  <2> HIDE DEF F
  <2> QED
    BY <1>4, <1>17, <1>18
<1>20. QED
  BY <1>2, <1>19 DEF HeapInv

LEMMA HeapInit == H!Init => HeapInv
<1>1. SUFFICES ASSUME H!Init PROVE HeapInv
  OBVIOUS
<1> USE HeapConstants
<1>2. user \in Blocks /\ given = {}
  BY <1>1 DEF H!Init
<1>3. CASE user.lazy
  BY <1>1, <1>2, <1>3 DEF H!Init, HeapInv
<1>4. CASE ~user.lazy
  <2>1. heap = H!OneBlock
    BY <1>1, <1>4 DEF H!Init
  <2>2. QED
    BY <1>2, <2>1, OneBlockGood DEF HeapInv
<1>5. QED
  BY <1>3, <1>4

LEMMA HeapStep == HeapInv /\ [H!Next]_malloc => HeapInv'
<1>1. HeapInv /\ H!Next => HeapInv'
  BY MallocKeeps, FreeKeeps DEF H!Next
<1>2. HeapInv /\ UNCHANGED malloc => HeapInv'
  BY DEF malloc, HeapInv, HeapGood, Tiles, HeapShape, Owned
<1>3. QED
  BY <1>1, <1>2

LEMMA HeapRight == HeapInv => HeapExact
<1>1. SUFFICES ASSUME HeapInv PROVE H!HeapExact
  BY DEF HeapExact
<1> USE HeapConstants
<1>2. CASE heap = H!Zeros
  BY <1>2 DEF H!Zeros, H!HeapExact
<1>2a. CASE heap = H!Lost
  BY <1>2a DEF H!HeapExact
<1>3. CASE HeapGood(heap, given)
  <2>1. H!Listed = List(heap) /\ List(heap) \subseteq DOMAIN heap /\ DOMAIN heap \subseteq Nat
    BY <1>3, ListCloses DEF H!Listed, List, HeapGood, HeapShape
  <2>2. {b \in List(heap) : heap[b].state = "USED"} = given
    BY <1>3, <2>1 DEF HeapGood, Owned
  <2>3. ASSUME NEW b \in List(heap)
        PROVE  heap[b].next = IF b + H!H + heap[b].size = HeapSize THEN H!Null ELSE b + H!H + heap[b].size
    BY <1>3, <2>1, <2>3 DEF HeapGood, Tiles, End
  <2>4. QED
    BY <2>1, <2>2, <2>3 DEF H!HeapExact
<1>4. QED
  BY <1>1, <1>2, <1>2a, <1>3 DEF HeapInv

\* malloc and free of the kernel and of the user library: whatever the size of the memory, the
\* sizes asked for and the order of the calls, the list goes through blocks that fill the memory
\* end to end, and those in use are the callers', until a merge goes by a header that a caller
\* has written over.
THEOREM HeapSound == PartSpec => []HeapExact
<1>1. PartInit => HeapInv
  BY HeapInit DEF PartInit, Begin
<1>2. [PartNext]_partVars => [H!Next]_malloc
  BY DEF PartNext, partVars, malloc
<1>3. HeapInv /\ [PartNext]_partVars => HeapInv'
  BY <1>2, HeapStep
<1>4. QED
  BY <1>1, <1>3, HeapRight, PTL DEF PartSpec

-----------------------------------------------------------------------------
(* The terminal.                                                           *)

LEMMA TermConstants ==
  /\ {Rows, Cols, MaxLine, HistLines, MaxFunctions, CursorTicks, BeepTicks, DrawTicks} \subseteq Nat \ {0}
  /\ Letter \cap {" ", "block", "prompt", "enter", "back", "bell", "nul"} = {}
  /\ MaxTyped \in Nat /\ FillsLastRow \in BOOLEAN
BY DataAssumption DEF E!TerminalAssumption

LEMMA Sizes ==
  /\ Rows \in Nat /\ Cols \in Nat /\ MaxLine \in Nat /\ HistLines \in Nat /\ MaxFunctions \in Nat
  /\ MaxTyped \in Nat /\ CursorTicks \in Nat \ {0} /\ BeepTicks \in Nat \ {0} /\ DrawTicks \in Nat \ {0}
  /\ Rows > 0 /\ Cols > 0 /\ MaxLine > 0 /\ HistLines > 0
<1>1. {Rows, Cols, MaxLine, HistLines, MaxFunctions, CursorTicks, BeepTicks, DrawTicks} \subseteq Nat \ {0}
      /\ MaxTyped \in Nat
  BY TermConstants, Zenon
<1>2. QED
  BY <1>1

Callback == [f : {"nosound", "cursorTick", "drawMe"}, ticks : Nat \ {0}, remaining : Nat \ {0}]
Sign == Letter \cup {" ", "block", "prompt"}
Tty == [timer : Seq(Callback), sound : BOOLEAN, screen : [E!Cells -> Sign], pos : E!Cells,
        status : 0 .. 1, enabled : BOOLEAN]

Has(t, f) == \E i \in 1 .. Len(t) : t[i].f = f

\* Each callback is in the table once and its time is within its period.
Single(t) ==
    /\ \A i \in 1 .. Len(t) : t[i].remaining <= t[i].ticks
    /\ \A i, j \in 1 .. Len(t) : t[i].f = t[j].f => i = j

Callbacks(m) == /\ Single(m.timer)
                /\ m.sound = TRUE <=> Has(m.timer, "nosound")
                /\ m.enabled = TRUE <=> Has(m.timer, "cursorTick")

\* The table has room for another one.
LEMMA Room == ASSUME MaxFunctions > 3, NEW t \in Seq(Callback), Single(t) PROVE Len(t) <= 3
<1>1. SUFFICES ASSUME Len(t) >= 4 PROVE FALSE
  OBVIOUS
<1>2. 1 \in 1 .. Len(t) /\ 2 \in 1 .. Len(t) /\ 3 \in 1 .. Len(t) /\ 4 \in 1 .. Len(t)
  BY <1>1
<1>3. \A i \in 1 .. Len(t) : t[i].f \in {"nosound", "cursorTick", "drawMe"}
  <2>1. \A i \in 1 .. Len(t) : t[i] \in Callback
    OBVIOUS
  <2>2. QED
    BY <2>1 DEF Callback
<1>4. QED
  BY <1>2, <1>3 DEF Single

LEMMA Added ==
  ASSUME MaxFunctions > 3, NEW t \in Seq(Callback), Single(t),
         NEW f \in {"nosound", "cursorTick", "drawMe"}, NEW ticks \in Nat \ {0}, ~ Has(t, f)
  PROVE  LET n == E!AppendFunction(t, f, ticks)
         IN  n \in Seq(Callback) /\ Single(n) /\ Has(n, f) /\ \A g : g # f => Has(n, g) = Has(t, g)
<1> DEFINE e == [f |-> f, ticks |-> ticks, remaining |-> ticks]
           n == E!AppendFunction(t, f, ticks)
<1>1. Len(t) <= 3 /\ Len(t) \in Nat
  BY Room
<1>2. n = Append(t, e)
  <2>1. Len(t) < MaxFunctions
    BY <1>1, Sizes
  <2>2. QED
    BY <2>1 DEF E!AppendFunction
<1>3. e \in Callback /\ e.f = f /\ e.ticks = ticks /\ e.remaining = ticks
  BY DEF Callback
<1> HIDE DEF e, n
<1>4. n \in Seq(Callback) /\ Len(n) = Len(t) + 1 /\ n[Len(t) + 1] = e /\ \A i \in 1 .. Len(t) : n[i] = t[i]
  BY <1>1, <1>2, <1>3
<1>5. \A i \in 1 .. Len(n) : i = Len(t) + 1 \/ i \in 1 .. Len(t)
  BY <1>1, <1>4
<1>6. Single(n)
  <2>1. \A i \in 1 .. Len(n) : n[i].remaining <= n[i].ticks
    BY <1>3, <1>4, <1>5 DEF Single
  <2>2. \A i, j \in 1 .. Len(n) : n[i].f = n[j].f => i = j
    BY <1>3, <1>4, <1>5 DEF Single, Has
  <2>3. QED
    BY <2>1, <2>2 DEF Single
<1>7. Has(n, f)
  BY <1>1, <1>3, <1>4 DEF Has
<1>8. \A g : g # f => Has(n, g) = Has(t, g)
  BY <1>1, <1>3, <1>4, <1>5 DEF Has
<1>9. QED
  BY <1>4, <1>6, <1>7, <1>8 DEF n

LEMMA TakenOut ==
  ASSUME MaxFunctions > 3, NEW t \in Seq(Callback), Single(t), NEW f
  PROVE  LET n == E!RemoveFunction(t, f)
         IN  n \in Seq(Callback) /\ Single(n) /\ ~ Has(n, f) /\ \A g : g # f => Has(n, g) = Has(t, g)
<1> DEFINE n == E!RemoveFunction(t, f)
           I == {i \in 1 .. Len(t) : t[i].f = f}
           i == E!SelectInSeq(t, LAMBDA e : e.f = f)
<1>1. Len(t) <= 3 /\ Len(t) \in Nat
  BY Room
<1>2. i = IF I # {} THEN CHOOSE x \in I : \A y \in I : x <= y ELSE 0
  BY DEF E!SelectInSeq, E!Min
<1>3. n = IF i = 0 THEN t
          ELSE IF Len(t) = MaxFunctions /\ i < Len(t) THEN Append(E!RemoveAt(t, i), E!Last(t))
          ELSE E!RemoveAt(t, i)
  BY DEF E!RemoveFunction
<1> HIDE DEF i, n
<1>4. CASE I = {}
  <2>1. n = t
    BY <1>2, <1>3, <1>4
  <2>2. QED
    BY <2>1, <1>4 DEF Has, n
<1>5. CASE I # {}
  <2>1. PICK k \in I : TRUE
    BY <1>5
  <2>2. \A x \in I : x = k
    BY <2>1 DEF Single
  <2>3. i = k
    BY <1>2, <2>1, <2>2
  <2>4. k \in 1 .. Len(t) /\ t[k].f = f
    BY <2>1
  <2> HIDE DEF I
  <2>5. n = SubSeq(t, 1, k - 1) \o SubSeq(t, k + 1, Len(t))
    <3>1. Len(t) # MaxFunctions /\ i # 0
      BY <1>1, <2>3, <2>4, Sizes
    <3>2. n = E!RemoveAt(t, i)
      BY <1>3, <3>1
    <3>3. QED
      BY <3>2, <2>3 DEF E!RemoveAt
  <2>6. /\ n \in Seq(Callback) /\ Len(n) = Len(t) - 1
        /\ \A j \in 1 .. Len(n) : n[j] = IF j < k THEN t[j] ELSE t[j + 1]
    <3>1. SubSeq(t, 1, k - 1) \in Seq(Callback) /\ Len(SubSeq(t, 1, k - 1)) = k - 1
          /\ \A j \in 1 .. k - 1 : SubSeq(t, 1, k - 1)[j] = t[j]
      BY <1>1, <2>4
    <3>2. SubSeq(t, k + 1, Len(t)) \in Seq(Callback) /\ Len(SubSeq(t, k + 1, Len(t))) = Len(t) - k
          /\ \A j \in 1 .. Len(t) - k : SubSeq(t, k + 1, Len(t))[j] = t[j + k]
      BY <1>1, <2>4
    <3> DEFINE a == SubSeq(t, 1, k - 1)
               b == SubSeq(t, k + 1, Len(t))
    <3> HIDE DEF a, b
    <3>3. n = a \o b /\ a \in Seq(Callback) /\ b \in Seq(Callback) /\ Len(a) = k - 1 /\ Len(b) = Len(t) - k
      BY <2>5, <3>1, <3>2 DEF a, b
    <3>4. n \in Seq(Callback) /\ Len(n) = Len(t) - 1
      BY <1>1, <2>4, <3>3
    <3>5. ASSUME NEW j \in 1 .. Len(n) PROVE n[j] = IF j < k THEN t[j] ELSE t[j + 1]
      <4>1. CASE j < k
        <5>1. j \in 1 .. Len(a) /\ n[j] = a[j]
          BY <4>1, <2>4, <3>3, <3>4
        <5>2. QED
          BY <4>1, <5>1, <3>1, <3>3 DEF a
      <4>2. CASE ~ (j < k)
        <5>1. n[j] = b[j - (k - 1)] /\ j - (k - 1) \in 1 .. Len(t) - k
          BY <4>2, <1>1, <2>4, <3>3, <3>4
        <5>2. b[j - (k - 1)] = t[j - (k - 1) + k]
          BY <5>1, <3>2 DEF b
        <5>3. j - (k - 1) + k = j + 1
          BY <2>4
        <5>4. QED
          BY <4>2, <5>1, <5>2, <5>3
      <4>3. QED
        BY <4>1, <4>2
    <3>6. QED
      BY <3>4, <3>5
  <2>7. \A j \in 1 .. Len(n) : \E l \in 1 .. Len(t) : l # k /\ n[j] = t[l] /\ l = IF j < k THEN j ELSE j + 1
    BY <1>1, <2>4, <2>6
  <2>8. \A l \in 1 .. Len(t) : l # k => \E j \in 1 .. Len(n) : n[j] = t[l]
    <3>1. ASSUME NEW l \in 1 .. Len(t), l # k PROVE \E j \in 1 .. Len(n) : n[j] = t[l]
      <4>1. CASE l < k
        BY <4>1, <1>1, <2>4, <2>6
      <4>2. CASE l > k
        <5>1. l - 1 \in 1 .. Len(n) /\ ~ (l - 1 < k) /\ l - 1 + 1 = l
          BY <4>2, <1>1, <2>4, <2>6
        <5>2. n[l - 1] = t[l]
          BY <5>1, <2>6
        <5>3. QED
          BY <5>1, <5>2
      <4>3. QED
        BY <3>1, <4>1, <4>2, <2>4
    <3>2. QED
      BY <3>1
  <2>9. Single(n)
    <3>1. \A j \in 1 .. Len(n) : n[j].remaining <= n[j].ticks
      BY <2>7 DEF Single
    <3>2. ASSUME NEW a \in 1 .. Len(n), NEW b \in 1 .. Len(n), n[a].f = n[b].f PROVE a = b
      <4>1. (IF a < k THEN a ELSE a + 1) = (IF b < k THEN b ELSE b + 1)
        BY <3>2, <2>7 DEF Single
      <4>2. QED
        BY <4>1, <2>4, <1>1, <2>6
    <3>3. QED
      BY <3>1, <3>2 DEF Single
  <2>10. ~ Has(n, f)
    BY <2>4, <2>7 DEF Has, Single
  <2>11. \A g : g # f => Has(n, g) = Has(t, g)
    BY <2>4, <2>7, <2>8 DEF Has
  <2>12. QED
    BY <2>6, <2>9, <2>10, <2>11 DEF n
<1>6. QED
  BY <1>4, <1>5

-----------------------------------------------------------------------------
Rec(a, b, c, p, q, r) == [timer |-> a, sound |-> b, screen |-> c, pos |-> p, status |-> q, enabled |-> r]

LEMMA TtyIs == ASSUME NEW m \in Tty
  PROVE /\ m.timer \in Seq(Callback) /\ m.sound \in BOOLEAN /\ m.screen \in [E!Cells -> Sign] /\ m.pos \in E!Cells
        /\ m.status \in {0, 1} /\ m.enabled \in BOOLEAN
  BY DEF Tty, Rec

LEMMA IsTty ==
  ASSUME NEW a \in Seq(Callback), NEW b \in BOOLEAN, NEW c \in [E!Cells -> Sign], NEW p \in E!Cells, NEW q \in {0, 1},
         NEW r \in BOOLEAN
  PROVE  /\ Rec(a, b, c, p, q, r) \in Tty
         /\ Rec(a, b, c, p, q, r).timer = a /\ Rec(a, b, c, p, q, r).sound = b /\ Rec(a, b, c, p, q, r).screen = c
         /\ Rec(a, b, c, p, q, r).pos = p /\ Rec(a, b, c, p, q, r).status = q /\ Rec(a, b, c, p, q, r).enabled = r
  BY DEF Tty, Rec

LEMMA NewTimer == ASSUME NEW m \in Tty, NEW x PROVE [m EXCEPT !.timer = x] = Rec(x, m.sound, m.screen, m.pos, m.status, m.enabled)
  BY DEF Tty, Rec

LEMMA NewSound == ASSUME NEW m \in Tty, NEW x PROVE [m EXCEPT !.sound = x] = Rec(m.timer, x, m.screen, m.pos, m.status, m.enabled)
  BY DEF Tty, Rec

LEMMA NewScreen == ASSUME NEW m \in Tty, NEW x PROVE [m EXCEPT !.screen = x] = Rec(m.timer, m.sound, x, m.pos, m.status, m.enabled)
  BY DEF Tty, Rec

LEMMA NewPos == ASSUME NEW m \in Tty, NEW x PROVE [m EXCEPT !.pos = x] = Rec(m.timer, m.sound, m.screen, x, m.status, m.enabled)
  BY DEF Tty, Rec

LEMMA NewTimerSound ==
  ASSUME NEW m \in Tty, NEW x, NEW y
  PROVE  [m EXCEPT !.timer = x, !.sound = y] = Rec(x, y, m.screen, m.pos, m.status, m.enabled)
<1>1. [m EXCEPT !.timer = x, !.sound = y] = [[m EXCEPT !.timer = x] EXCEPT !.sound = y]
  OBVIOUS
<1>2. [Rec(x, m.sound, m.screen, m.pos, m.status, m.enabled) EXCEPT !.sound = y] = Rec(x, y, m.screen, m.pos, m.status, m.enabled)
  BY DEF Rec
<1>3. QED
  BY <1>1, <1>2, NewTimer

LEMMA NewTimerEnabled ==
  ASSUME NEW m \in Tty, NEW x, NEW y
  PROVE  [m EXCEPT !.timer = x, !.enabled = y] = Rec(x, m.sound, m.screen, m.pos, m.status, y)
<1>1. [m EXCEPT !.timer = x, !.enabled = y] = [[m EXCEPT !.timer = x] EXCEPT !.enabled = y]
  OBVIOUS
<1>2. [Rec(x, m.sound, m.screen, m.pos, m.status, m.enabled) EXCEPT !.enabled = y] = Rec(x, m.sound, m.screen, m.pos, m.status, y)
  BY DEF Rec
<1>3. QED
  BY <1>1, <1>2, NewTimer

LEMMA NewScreenStatus ==
  ASSUME NEW m \in Tty, NEW x, NEW y
  PROVE  [m EXCEPT !.screen = x, !.status = y] = Rec(m.timer, m.sound, x, m.pos, y, m.enabled)
<1>1. [m EXCEPT !.screen = x, !.status = y] = [[m EXCEPT !.screen = x] EXCEPT !.status = y]
  OBVIOUS
<1>2. [Rec(m.timer, m.sound, x, m.pos, m.status, m.enabled) EXCEPT !.status = y] = Rec(m.timer, m.sound, x, m.pos, y, m.enabled)
  BY DEF Rec
<1>3. QED
  BY <1>1, <1>2, NewScreen

LEMMA NewScreenPos ==
  ASSUME NEW m \in Tty, NEW x, NEW y
  PROVE  [m EXCEPT !.screen = x, !.pos = y] = Rec(m.timer, m.sound, x, y, m.status, m.enabled)
<1>1. [m EXCEPT !.screen = x, !.pos = y] = [[m EXCEPT !.screen = x] EXCEPT !.pos = y]
  OBVIOUS
<1>2. [Rec(m.timer, m.sound, x, m.pos, m.status, m.enabled) EXCEPT !.pos = y] = Rec(m.timer, m.sound, x, y, m.status, m.enabled)
  BY DEF Rec
<1>3. QED
  BY <1>1, <1>2, NewScreen

Good(m) == m \in Tty /\ Callbacks(m)

\* The block is at the cursor, where cursorStatus says, and behind it there is nothing.
Clean(m) ==
    /\ m.screen[m.pos] \in {" ", "block"} /\ (m.screen[m.pos] = "block" => m.status = 1)
    /\ \A i \in E!Cells : /\ i > m.pos => m.screen[i] = " "
                          /\ i # m.pos => m.screen[i] # "block"

\* The cursor stays, and nothing changes but its cell.
Stays(m, n) == /\ n.pos = m.pos /\ (Clean(m) => Clean(n))
               /\ \A i \in E!Cells : i # m.pos => n.screen[i] = m.screen[i]

LEMMA Still == ASSUME NEW m, NEW n, n.screen = m.screen, n.pos = m.pos, n.status = m.status PROVE Stays(m, n)
BY DEF Stays, Clean

LEMMA BeepGood ==
  ASSUME MaxFunctions > 3, NEW m, Good(m)
  PROVE  Good(E!Beep(m, BeepTicks)) /\ Stays(m, E!Beep(m, BeepTicks))
<1> DEFINE t == E!RemoveFunction(m.timer, "nosound")
           u == E!AppendFunction(t, "nosound", BeepTicks)
           n == E!Beep(m, BeepTicks)
<1>1. /\ m \in Tty /\ Callbacks(m) /\ Single(m.timer)
      /\ m.timer \in Seq(Callback) /\ m.sound \in BOOLEAN /\ m.screen \in [E!Cells -> Sign] /\ m.pos \in E!Cells
      /\ m.status \in {0, 1} /\ m.enabled \in BOOLEAN
  BY TtyIs DEF Good, Callbacks
<1>2. t \in Seq(Callback) /\ Single(t) /\ ~ Has(t, "nosound") /\ Has(t, "cursorTick") = Has(m.timer, "cursorTick")
  BY <1>1, TakenOut
<1>3. n = Rec(u, TRUE, m.screen, m.pos, m.status, m.enabled)
  <2>1. n = [m EXCEPT !.timer = u, !.sound = TRUE]
    BY DEF E!Beep
  <2> HIDE DEF n, u
  <2>2. QED
    BY <1>1, <2>1, NewTimerSound
<1> HIDE DEF t
<1>4. u \in Seq(Callback) /\ Single(u) /\ Has(u, "nosound") /\ Has(u, "cursorTick") = Has(t, "cursorTick")
  BY <1>2, Added, Sizes
<1> HIDE DEF u, n
<1>5. /\ n \in Tty /\ n.timer = u /\ n.sound = TRUE /\ n.screen = m.screen /\ n.pos = m.pos /\ n.status = m.status
      /\ n.enabled = m.enabled
  <2>1. \A b \in BOOLEAN : LET k == Rec(u, b, m.screen, m.pos, m.status, m.enabled)
                           IN  /\ k \in Tty /\ k.timer = u /\ k.sound = b /\ k.screen = m.screen /\ k.pos = m.pos
                               /\ k.status = m.status /\ k.enabled = m.enabled
    BY <1>1, <1>4, IsTty
  <2>2. TRUE \in BOOLEAN
    OBVIOUS
  <2>3. QED
    BY <2>1, <2>2, <1>3, Zenon
<1>6. Callbacks(n)
  BY <1>1, <1>2, <1>4, <1>5 DEF Callbacks
<1>7. QED
  BY <1>5, <1>6, Still DEF Good, n

LEMMA NoSoundGood ==
  ASSUME MaxFunctions > 3, NEW m, Good(m)
  PROVE  Good(E!NoSound(m)) /\ Stays(m, E!NoSound(m))
<1> DEFINE t == E!RemoveFunction(m.timer, "nosound")
           n == E!NoSound(m)
<1>1. /\ m \in Tty /\ Callbacks(m) /\ Single(m.timer)
      /\ m.timer \in Seq(Callback) /\ m.sound \in BOOLEAN /\ m.screen \in [E!Cells -> Sign] /\ m.pos \in E!Cells
      /\ m.status \in {0, 1} /\ m.enabled \in BOOLEAN
  BY TtyIs DEF Good, Callbacks
<1>2. t \in Seq(Callback) /\ Single(t) /\ ~ Has(t, "nosound") /\ Has(t, "cursorTick") = Has(m.timer, "cursorTick")
  BY <1>1, TakenOut
<1>3. n = Rec(t, FALSE, m.screen, m.pos, m.status, m.enabled)
  <2>1. n = [m EXCEPT !.timer = t, !.sound = FALSE]
    BY DEF E!NoSound
  <2> HIDE DEF n, t
  <2>2. QED
    BY <1>1, <2>1, NewTimerSound
<1> HIDE DEF t, n
<1>5. /\ n \in Tty /\ n.timer = t /\ n.sound = FALSE /\ n.screen = m.screen /\ n.pos = m.pos /\ n.status = m.status
      /\ n.enabled = m.enabled
  <2>1. \A b \in BOOLEAN : LET k == Rec(t, b, m.screen, m.pos, m.status, m.enabled)
                           IN  /\ k \in Tty /\ k.timer = t /\ k.sound = b /\ k.screen = m.screen /\ k.pos = m.pos
                               /\ k.status = m.status /\ k.enabled = m.enabled
    BY <1>1, <1>2, IsTty
  <2>2. FALSE \in BOOLEAN
    OBVIOUS
  <2>3. QED
    BY <2>1, <2>2, <1>3, Zenon
<1>6. Callbacks(n)
  BY <1>1, <1>2, <1>5 DEF Callbacks
<1>7. QED
  BY <1>5, <1>6, Still DEF Good, n

\* A program's callback.
LEMMA OthersGood ==
  ASSUME MaxFunctions > 3, NEW m, Good(m)
  PROVE  LET a == [m EXCEPT !.timer = E!AppendFunction(@, "drawMe", DrawTicks)]
             b == [m EXCEPT !.timer = E!RemoveFunction(@, "drawMe")]
         IN  /\ ~ Has(m.timer, "drawMe") => Good(a) /\ Stays(m, a)
             /\ Good(b) /\ Stays(m, b)
<1>1. /\ m \in Tty /\ Callbacks(m) /\ Single(m.timer)
      /\ m.timer \in Seq(Callback) /\ m.sound \in BOOLEAN /\ m.screen \in [E!Cells -> Sign] /\ m.pos \in E!Cells
      /\ m.status \in {0, 1} /\ m.enabled \in BOOLEAN
  BY TtyIs DEF Good, Callbacks
<1>2. ASSUME NEW t \in Seq(Callback), Single(t), Has(t, "nosound") = Has(m.timer, "nosound"),
             Has(t, "cursorTick") = Has(m.timer, "cursorTick")
      PROVE  LET n == [m EXCEPT !.timer = t] IN Good(n) /\ Stays(m, n)
  <2> DEFINE n == [m EXCEPT !.timer = t]
  <2>1. n = Rec(t, m.sound, m.screen, m.pos, m.status, m.enabled)
    BY <1>1, NewTimer
  <2> HIDE DEF n
  <2>2. /\ n \in Tty /\ n.timer = t /\ n.sound = m.sound /\ n.screen = m.screen /\ n.pos = m.pos /\ n.status = m.status
        /\ n.enabled = m.enabled
    BY <1>1, <2>1, IsTty
  <2>3. Callbacks(n)
    BY <1>1, <1>2, <2>2 DEF Callbacks
  <2>4. QED
    BY <2>2, <2>3, Still DEF Good, n
<1>3. ASSUME ~ Has(m.timer, "drawMe")
      PROVE  LET a == [m EXCEPT !.timer = E!AppendFunction(@, "drawMe", DrawTicks)] IN Good(a) /\ Stays(m, a)
  <2> DEFINE t == E!AppendFunction(m.timer, "drawMe", DrawTicks)
  <2>1. t \in Seq(Callback) /\ Single(t) /\ Has(t, "nosound") = Has(m.timer, "nosound")
        /\ Has(t, "cursorTick") = Has(m.timer, "cursorTick")
    BY <1>1, <1>3, Added, Sizes
  <2> HIDE DEF t
  <2>2. Good([m EXCEPT !.timer = t]) /\ Stays(m, [m EXCEPT !.timer = t])
    BY <2>1, <1>2
  <2>3. QED
    BY <2>2 DEF t
<1>4. LET b == [m EXCEPT !.timer = E!RemoveFunction(@, "drawMe")] IN Good(b) /\ Stays(m, b)
  <2> DEFINE t == E!RemoveFunction(m.timer, "drawMe")
  <2>1. t \in Seq(Callback) /\ Single(t) /\ Has(t, "nosound") = Has(m.timer, "nosound")
        /\ Has(t, "cursorTick") = Has(m.timer, "cursorTick")
    BY <1>1, TakenOut
  <2> HIDE DEF t
  <2>2. Good([m EXCEPT !.timer = t]) /\ Stays(m, [m EXCEPT !.timer = t])
    BY <2>1, <1>2
  <2>3. QED
    BY <2>2 DEF t
<1>5. QED
  BY <1>3, <1>4

LEMMA CursorGood ==
  ASSUME NEW m, Good(m)
  PROVE  LET n == E!CursorTick(m)
         IN  /\ Good(n) /\ Stays(m, n) /\ n.timer = m.timer /\ n.enabled = m.enabled
             /\ m.status = 1 => n.status = 0 /\ n.screen[n.pos] = " "
<1> DEFINE c == IF m.status = 0 THEN "block" ELSE " "
           x == [m.screen EXCEPT ![m.pos] = c]
           q == 1 - m.status
           n == E!CursorTick(m)
<1>1. /\ m \in Tty /\ Callbacks(m)
      /\ m.timer \in Seq(Callback) /\ m.sound \in BOOLEAN /\ m.screen \in [E!Cells -> Sign] /\ m.pos \in E!Cells
      /\ m.status \in {0, 1} /\ m.enabled \in BOOLEAN
  BY TtyIs DEF Good, Callbacks
<1>2. n = Rec(m.timer, m.sound, x, m.pos, q, m.enabled)
  <2>1. n = [m EXCEPT !.screen = x, !.status = q]
    BY DEF E!CursorTick
  <2> HIDE DEF x, n, q
  <2>2. QED
    BY <1>1, <2>1, NewScreenStatus
<1>3. x \in [E!Cells -> Sign] /\ x[m.pos] = c /\ \A i \in E!Cells : i # m.pos => x[i] = m.screen[i]
  BY <1>1 DEF Sign
<1>4. q \in {0, 1} /\ (q = 1 <=> m.status = 0)
  BY <1>1
<1>4a. c \in {" ", "block"} /\ (c = "block" => q = 1) /\ (m.status = 1 => c = " ")
  BY <1>1, <1>4 DEF q
<1> HIDE DEF x, n, q, c
<1>5. /\ n \in Tty /\ n.timer = m.timer /\ n.sound = m.sound /\ n.screen = x /\ n.pos = m.pos
      /\ n.status = q /\ n.enabled = m.enabled
  BY <1>1, <1>2, <1>3, <1>4, IsTty
<1>6. Callbacks(n)
  BY <1>1, <1>5 DEF Callbacks
<1>7. Stays(m, n)
  <2>1. Clean(m) => Clean(n)
    <3>1. \A i \in E!Cells : i \in Int
      BY DEF E!Cells
    <3>2. \A i \in E!Cells : i > m.pos => i # m.pos
      BY <1>1, <3>1
    <3>3. QED
      BY <1>1, <1>3, <1>5, <1>4a, <3>2 DEF Clean
  <2>2. QED
    BY <1>3, <1>5, <2>1 DEF Stays
<1>8. m.status = 1 => n.status = 0 /\ n.screen[n.pos] = " "
  BY <1>1, <1>3, <1>4, <1>5, <1>4a
<1>9. QED
  BY <1>5, <1>6, <1>7, <1>8 DEF Good, n

LEMMA EnableGood ==
  ASSUME MaxFunctions > 3, NEW m, Good(m), NEW on \in BOOLEAN
  PROVE  LET n == E!SetGraphicCursorStatus(m, on) IN Good(n) /\ Stays(m, n)
<1> DEFINE t == IF on THEN E!AppendFunction(m.timer, "cursorTick", CursorTicks)
                ELSE E!RemoveFunction(m.timer, "cursorTick")
           n == E!SetGraphicCursorStatus(m, on)
<1>1. /\ m \in Tty /\ Callbacks(m) /\ Single(m.timer)
      /\ m.timer \in Seq(Callback) /\ m.sound \in BOOLEAN /\ m.screen \in [E!Cells -> Sign] /\ m.pos \in E!Cells
      /\ m.status \in {0, 1} /\ m.enabled \in BOOLEAN
  BY TtyIs DEF Good, Callbacks
<1>2. CASE m.enabled = on
  <2>1. n = m
    BY <1>2 DEF E!SetGraphicCursorStatus
  <2>2. QED
    BY <2>1, Still
<1>3. CASE m.enabled # on
  <2>1. (on = TRUE) <=> ~ Has(m.timer, "cursorTick")
    BY <1>1, <1>3 DEF Callbacks
  <2>2. /\ t \in Seq(Callback) /\ Single(t) /\ ((on = TRUE) <=> Has(t, "cursorTick"))
        /\ Has(t, "nosound") = Has(m.timer, "nosound")
    <3>1. CASE on = TRUE
      <4>1. t = E!AppendFunction(m.timer, "cursorTick", CursorTicks)
        BY <3>1
      <4> HIDE DEF t
      <4>2. QED
        BY <1>1, <2>1, <3>1, <4>1, Added, Sizes
    <3>2. CASE on = FALSE
      <4>1. t = E!RemoveFunction(m.timer, "cursorTick")
        BY <3>2
      <4> HIDE DEF t
      <4>2. QED
        BY <1>1, <3>2, <4>1, TakenOut
    <3>3. QED
      BY <3>1, <3>2
  <2>3. n = Rec(t, m.sound, m.screen, m.pos, m.status, on)
    <3>1. n = [m EXCEPT !.timer = t, !.enabled = on]
      BY <1>3 DEF E!SetGraphicCursorStatus
    <3> HIDE DEF t, n
    <3>2. QED
      BY <1>1, <3>1, NewTimerEnabled
  <2> HIDE DEF t, n
  <2>5. /\ n \in Tty /\ n.timer = t /\ n.sound = m.sound /\ n.screen = m.screen /\ n.pos = m.pos /\ n.status = m.status
        /\ n.enabled = on
    BY <1>1, <2>2, <2>3, IsTty
  <2>6. Callbacks(n)
    BY <1>1, <2>2, <2>5 DEF Callbacks
  <2>7. QED
    BY <2>5, <2>6, Still DEF Good, n
<1>4. QED
  BY <1>2, <1>3

LEMMA StaysOn == ASSUME NEW a, NEW b, NEW c, Stays(a, b), Stays(b, c) PROVE Stays(a, c)
BY DEF Stays

\* One slot of the table, in a tick.
LEMMA SlotGood ==
  ASSUME MaxFunctions > 3, NEW m, Good(m), NEW i \in Nat \ {0}
  PROVE  LET n == E!TickSlot(m, i) IN Good(n) /\ Stays(m, n)
<1>1. /\ m \in Tty /\ Callbacks(m) /\ Single(m.timer)
      /\ m.timer \in Seq(Callback) /\ m.sound \in BOOLEAN /\ m.screen \in [E!Cells -> Sign] /\ m.pos \in E!Cells
      /\ m.status \in {0, 1} /\ m.enabled \in BOOLEAN
  BY TtyIs DEF Good, Callbacks
<1>2. CASE i > Len(m.timer)
  <2>1. E!TickSlot(m, i) = m
    BY <1>2 DEF E!TickSlot
  <2>2. QED
    BY <2>1, Still
<1>3. CASE ~ (i > Len(m.timer))
  <2> DEFINE e == m.timer[i]
             k == IF e.remaining = 1 THEN e.ticks ELSE e.remaining - 1
             t == [m.timer EXCEPT ![i].remaining = k]
             counted == [m EXCEPT !.timer = t]
  <2>1. i \in 1 .. Len(m.timer) /\ e \in Callback
    BY <1>1, <1>3
  <2>2. E!TickSlot(m, i) = IF e.remaining = 1 THEN E!Call(counted, e.f) ELSE counted
    BY <1>3 DEF E!TickSlot
  <2>3. k \in Nat \ {0} /\ k <= e.ticks
    BY <1>1, <2>1 DEF Callback, Single
  <2> HIDE DEF k
  <2>4. [e EXCEPT !.remaining = k] = [f |-> e.f, ticks |-> e.ticks, remaining |-> k]
    BY <2>1 DEF Callback
  <2>5. [f |-> e.f, ticks |-> e.ticks, remaining |-> k] \in Callback
    BY <2>1, <2>3 DEF Callback
  <2>6. t = [m.timer EXCEPT ![i] = [f |-> e.f, ticks |-> e.ticks, remaining |-> k]]
    BY <2>4
  <2> DEFINE r == [f |-> e.f, ticks |-> e.ticks, remaining |-> k]
  <2>7. r.f = e.f /\ r.ticks = e.ticks /\ r.remaining = k
    OBVIOUS
  <2> HIDE DEF r, t
  <2>8. t \in Seq(Callback) /\ Len(t) = Len(m.timer) /\ t[i] = r
        /\ \A j \in 1 .. Len(t) : j # i => t[j] = m.timer[j]
    BY <1>1, <2>1, <2>5, <2>6 DEF r
  <2> HIDE DEF e
  <2>9. \A j \in 1 .. Len(t) : t[j].f = m.timer[j].f /\ t[j].remaining <= t[j].ticks
    BY <1>1, <2>1, <2>3, <2>7, <2>8 DEF Single, e
  <2>10. Single(t) /\ \A f : Has(t, f) = Has(m.timer, f)
    BY <1>1, <2>8, <2>9 DEF Single, Has
  <2>11. Good(counted) /\ Stays(m, counted)
    <3>1. counted = Rec(t, m.sound, m.screen, m.pos, m.status, m.enabled)
      BY <1>1, NewTimer
    <3> HIDE DEF counted
    <3>2. /\ counted \in Tty /\ counted.timer = t /\ counted.sound = m.sound /\ counted.screen = m.screen
          /\ counted.pos = m.pos /\ counted.status = m.status /\ counted.enabled = m.enabled
      BY <1>1, <2>8, <3>1, IsTty
    <3>3. Callbacks(counted)
      BY <1>1, <2>10, <3>2 DEF Callbacks
    <3>4. QED
      BY <3>2, <3>3, Still DEF Good
  <2> HIDE DEF counted
  <2>12. Good(E!Call(counted, e.f)) /\ Stays(counted, E!Call(counted, e.f))
    <3>1. CASE e.f = "cursorTick"
      <4>1. E!Call(counted, e.f) = E!CursorTick(counted)
        BY <3>1 DEF E!Call
      <4>2. QED
        BY <4>1, <2>11, CursorGood
    <3>2. CASE e.f = "nosound"
      <4>1. E!Call(counted, e.f) = E!NoSound(counted)
        BY <3>2 DEF E!Call
      <4>2. QED
        BY <4>1, <2>11, NoSoundGood
    <3>3. CASE e.f # "cursorTick" /\ e.f # "nosound"
      <4>1. E!Call(counted, e.f) = counted
        BY <3>3 DEF E!Call
      <4>2. QED
        BY <4>1, <2>11, Still
    <3>4. QED
      BY <3>1, <3>2, <3>3
  <2>13. QED
    BY <2>2, <2>11, <2>12, StaysOn
<1>4. QED
  BY <1>2, <1>3

\* The slots of the table one after the other.
LEMMA TickGood ==
  ASSUME MaxFunctions > 3, NEW m, Good(m)
  PROVE  LET n == E!TimerTick(m) IN Good(n) /\ Stays(m, n)
<1> DEFINE V == {n \in Tty : Good(n) /\ Stays(m, n)}
           g == [x \in (1 .. MaxFunctions) \X V |-> E!TickSlot(x[2], x[1])]
           Is(f) == f = [i \in 0 .. MaxFunctions |-> IF i = 0 THEN m ELSE E!TickSlot(f[i - 1], i)]
           F == CHOOSE f : Is(f)
<1>0. MaxFunctions \in Nat
  BY Sizes
<1>1. m \in V
  BY Still DEF Good
<1>2. ASSUME NEW n \in V, NEW i \in 1 .. MaxFunctions PROVE E!TickSlot(n, i) \in V
  <2>1. Good(n) /\ Stays(m, n) /\ i \in Nat \ {0}
    BY <1>0
  <2>2. Good(E!TickSlot(n, i)) /\ Stays(n, E!TickSlot(n, i))
    BY <2>1, SlotGood
  <2>3. QED
    BY <2>1, <2>2, StaysOn DEF Good
<1>3. g \in [(1 .. MaxFunctions) \X V -> V]
  <2> HIDE DEF V
  <2>1. \A x \in (1 .. MaxFunctions) \X V : E!TickSlot(x[2], x[1]) \in V
    BY <1>2
  <2>2. QED
    BY <2>1
<1>4. PICK f : Follows(f, MaxFunctions, V, m, g)
  <2> HIDE DEF V, g
  <2> QED
    BY <1>0, <1>1, <1>3, Recursion
<1>5. ASSUME NEW i \in 0 .. MaxFunctions PROVE f[i] = IF i = 0 THEN m ELSE E!TickSlot(f[i - 1], i)
  <2> HIDE DEF V
  <2>1. CASE i = 0
    BY <2>1, <1>4 DEF Follows
  <2>2. CASE i # 0
    <3>1. i \in 1 .. MaxFunctions /\ i - 1 \in 0 .. MaxFunctions
      BY <2>2, <1>0
    <3>2. f \in [0 .. MaxFunctions -> V] /\ f[i] = g[<<i, f[i - 1]>>]
      <4> HIDE DEF g
      <4> QED
        BY <3>1, <1>4 DEF Follows
    <3>3. f[i - 1] \in V /\ <<i, f[i - 1]>> \in (1 .. MaxFunctions) \X V
      BY <3>1, <3>2
    <3>4. QED
      BY <3>2, <3>3, <2>2
  <2>3. QED
    BY <2>1, <2>2
<1>6. Is(f)
  <2>1. f = [i \in 0 .. MaxFunctions |-> f[i]]
    <3> HIDE DEF V, g
    <3> QED
      BY <1>4 DEF Follows
  <2>2. QED
    BY <2>1, <1>5
<1>7. Is(F)
  <2> HIDE DEF Is
  <2> QED
    BY <1>6
<1>8. F[0] = m /\ \A i \in 1 .. MaxFunctions : F[i] = E!TickSlot(F[i - 1], i)
  <2> HIDE DEF F
  <2>1. F[0] = m
    BY <1>0, <1>7
  <2>2. ASSUME NEW i \in 1 .. MaxFunctions PROVE F[i] = E!TickSlot(F[i - 1], i)
    <3>1. i \in 0 .. MaxFunctions /\ i # 0
      BY <1>0
    <3>2. QED
      BY <1>7, <3>1
  <2>3. QED
    BY <2>1, <2>2
<1> DEFINE T == {i \in 0 .. MaxFunctions : F[i] \in V}
<1>9. 0 \in T
  <2> HIDE DEF F, V
  <2> QED
    BY <1>0, <1>1, <1>8
<1>10. ASSUME NEW i \in 1 .. MaxFunctions, i - 1 \in T PROVE i \in T
  <2> HIDE DEF F, V
  <2>1. F[i - 1] \in V /\ F[i] = E!TickSlot(F[i - 1], i) /\ i \in 0 .. MaxFunctions
    BY <1>0, <1>8, <1>10
  <2>2. QED
    BY <2>1, <1>2
<1>11. F[MaxFunctions] \in V
  <2> HIDE DEF T
  <2>1. \A i \in 0 .. MaxFunctions : i \in T
    BY <1>0, <1>9, <1>10, Induct
  <2>2. MaxFunctions \in T
    BY <1>0, <2>1
  <2>3. QED
    BY <2>2 DEF T
<1>12. E!TimerTick(m) = F[MaxFunctions]
  BY DEF E!TimerTick
<1>13. QED
  <2> HIDE DEF F
  <2> QED
    BY <1>11, <1>12

-----------------------------------------------------------------------------
\* The line of a cell, and the first cell of a line.
LEMMA RowOf ==
  ASSUME NEW n \in Nat \ {0}, NEW w \in Nat \ {0}, NEW p \in 0 .. n * w - 1
  PROVE  LET r == p \div w IN r \in 0 .. n - 1 /\ r * w <= p /\ p < r * w + w
<1> DEFINE r == p \div w
<1>1. p = w * r + (p % w) /\ p % w \in 0 .. w - 1 /\ r \in Int
  <2>1. r \in Int /\ n * w \in Int /\ p \in Int
    OBVIOUS
  <2>2. p % w \in 0 .. w - 1
    BY <2>1
  <2>3. p = w * r + (p % w)
    BY <2>1
  <2>4. QED
    BY <2>1, <2>2, <2>3
<1>2. r * w <= p /\ p < r * w + w
  BY <1>1
<1>3. r >= 0
  <2>1. SUFFICES ASSUME r <= -1 PROVE FALSE
    BY <1>1
  <2>2. r * w <= -w
    BY <1>1, <2>1
  <2>3. QED
    BY <1>2, <2>2, <1>1
<1>4. r < n
  <2>1. SUFFICES ASSUME r >= n PROVE FALSE
    BY <1>1
  <2>2. r * w >= n * w
    BY <1>1, <2>1
  <2>3. QED
    BY <1>2, <2>2, <1>1
<1>5. QED
  BY <1>1, <1>2, <1>3, <1>4
LEMMA RowIn ==
  ASSUME NEW n \in Nat \ {0}, NEW w \in Nat \ {0}, NEW r \in 0 .. n - 1
  PROVE  r * w \in 0 .. n * w - 1 /\ r * w + w <= n * w /\ (r + 1) * w = r * w + w
<1>1. n - 1 - r \in Nat /\ n = (n - 1 - r) + r + 1
  OBVIOUS
<1>2. \A d \in Nat : (d + r + 1) * w = d * w + r * w + w /\ d * w >= 0 /\ r * w >= 0
  OBVIOUS
<1>3. n * w = (n - 1 - r) * w + r * w + w /\ (n - 1 - r) * w >= 0 /\ r * w >= 0
  BY <1>1, <1>2
<1>4. QED
  BY <1>3

LineStart(p) == \E r \in 0 .. Rows - 1 : p = r * Cols

LEMMA CellsAre == E!Cells = 0 .. Rows * Cols - 1 /\ Rows * Cols \in Nat /\ E!Cells \subseteq Int
<1>1. Rows * Cols \in Nat
  BY Sizes
<1>2. QED
  BY <1>1 DEF E!Cells

LEMMA Redrawn ==
  ASSUME NEW m, Good(m), NEW x \in [E!Cells -> Sign], NEW p \in E!Cells
  PROVE  LET n == Rec(m.timer, m.sound, x, p, m.status, m.enabled)
         IN  Good(n) /\ n.screen = x /\ n.pos = p /\ n.status = m.status /\ n.timer = m.timer /\ n.enabled = m.enabled
<1> DEFINE n == Rec(m.timer, m.sound, x, p, m.status, m.enabled)
<1>1. /\ m \in Tty /\ Callbacks(m) /\ Single(m.timer)
      /\ m.timer \in Seq(Callback) /\ m.sound \in BOOLEAN /\ m.screen \in [E!Cells -> Sign] /\ m.pos \in E!Cells
      /\ m.status \in {0, 1} /\ m.enabled \in BOOLEAN
  BY TtyIs DEF Good, Callbacks
<1>2. /\ n \in Tty /\ n.timer = m.timer /\ n.sound = m.sound /\ n.screen = x /\ n.pos = p
      /\ n.status = m.status /\ n.enabled = m.enabled
  BY <1>1, IsTty
<1> HIDE DEF n
<1>3. Callbacks(n)
  BY <1>1, <1>2 DEF Callbacks
<1>4. QED
  BY <1>2, <1>3 DEF Good, n

LEMMA DrawGood ==
  ASSUME NEW m, Good(m), NEW c \in Sign
  PROVE  LET n == E!DrawChar(m, c)
         IN  /\ Good(n) /\ n.screen = [m.screen EXCEPT ![m.pos] = c] /\ n.pos = m.pos /\ n.status = m.status
             /\ n.enabled = m.enabled
<1> DEFINE x == [m.screen EXCEPT ![m.pos] = c]
           n == E!DrawChar(m, c)
<1>1. m \in Tty /\ m.screen \in [E!Cells -> Sign] /\ m.pos \in E!Cells
  BY TtyIs DEF Good
<1>2. x \in [E!Cells -> Sign]
  BY <1>1
<1>3. n = [m EXCEPT !.screen = x]
  BY DEF E!DrawChar
<1> HIDE DEF x, n
<1>4. n = Rec(m.timer, m.sound, x, m.pos, m.status, m.enabled)
  BY <1>1, <1>3, NewScreen
<1>5. QED
  BY <1>1, <1>2, <1>4, Redrawn DEF x, n

LEMMA ShiftGood ==
  ASSUME NEW m, Good(m), NEW k \in Int
  PROVE  LET n == E!ShiftCursor(m, k)
         IN  /\ Good(n) /\ n.screen = m.screen /\ n.status = m.status /\ n.enabled = m.enabled
             /\ n.pos = IF m.pos + k \in E!Cells THEN m.pos + k ELSE m.pos
<1> DEFINE n == E!ShiftCursor(m, k)
<1>1. m \in Tty /\ m.screen \in [E!Cells -> Sign] /\ m.pos \in E!Cells
  BY TtyIs DEF Good
<1>2. CASE m.pos + k \in E!Cells
  <2>1. n = [m EXCEPT !.pos = m.pos + k]
    BY <1>2 DEF E!ShiftCursor
  <2> DEFINE p == m.pos + k
  <2> HIDE DEF n, p
  <2>2. n = Rec(m.timer, m.sound, m.screen, p, m.status, m.enabled)
    BY <1>1, <2>1, NewPos DEF p
  <2>3. p \in E!Cells
    BY <1>2 DEF p
  <2>4. QED
    BY <1>1, <1>2, <2>2, <2>3, Redrawn DEF n, p
<1>3. CASE m.pos + k \notin E!Cells
  <2>1. n = m
    BY <1>3 DEF E!ShiftCursor
  <2>2. QED
    BY <1>3, <2>1
<1>4. QED
  BY <1>2, <1>3

LEMMA ResetGood ==
  ASSUME NEW m, Good(m)
  PROVE  LET n == E!ResetCursor(m)
         IN  Good(n) /\ Stays(m, n) /\ n.status = 0 /\ (Clean(m) => n.screen[n.pos] = " ") /\ n.enabled = m.enabled
<1>1. m.status \in {0, 1}
  BY TtyIs DEF Good
<1>2. CASE m.status = 1
  BY <1>2, CursorGood DEF E!ResetCursor
<1>3. CASE m.status = 0
  <2>1. E!ResetCursor(m) = m
    BY <1>3 DEF E!ResetCursor
  <2>2. Stays(m, m)
    BY Still
  <2>3. Clean(m) => m.screen[m.pos] = " "
    <3>1. Clean(m) => m.screen[m.pos] \in {" ", "block"} /\ (m.screen[m.pos] = "block" => m.status = 1)
      BY DEF Clean
    <3>2. m.status # 1
      BY <1>3
    <3>3. QED
      BY <3>1, <3>2
  <2>4. QED
    BY <1>3, <2>1, <2>2, <2>3
<1>4. QED
  BY <1>1, <1>2, <1>3

\* A character goes to the cursor, which goes on if there is room.
LEMMA LetterPut ==
  ASSUME NEW m, Good(m), NEW c \in Letter \cup {"prompt"}
  PROVE  LET n == E!PrintChar(m, c)
         IN  /\ Good(n) /\ n.screen[m.pos] = c /\ \A i \in E!Cells : i # m.pos => n.screen[i] = m.screen[i]
             /\ m.pos + 1 \in E!Cells => n.pos = m.pos + 1 /\ (Clean(m) => Clean(n))
<1> DEFINE d == E!DrawChar(m, c)
           n == E!PrintChar(m, c)
<1>1. m \in Tty /\ m.screen \in [E!Cells -> Sign] /\ m.pos \in E!Cells /\ m.pos \in Int
  BY TtyIs, CellsAre DEF Good
<1>2. c \notin {"enter", "back", "bell", "block", " "} /\ c \in Sign
  BY TermConstants DEF Sign
<1>3. n = E!ShiftCursor(d, 1)
  BY <1>2 DEF E!PrintChar
<1>4. /\ Good(d) /\ d.screen = [m.screen EXCEPT ![m.pos] = c] /\ d.pos = m.pos /\ d.status = m.status
      /\ d.enabled = m.enabled
  BY <1>2, DrawGood
<1> HIDE DEF d
<1>5. /\ Good(n) /\ n.screen = d.screen /\ n.status = d.status
      /\ n.pos = IF d.pos + 1 \in E!Cells THEN d.pos + 1 ELSE d.pos
  BY <1>3, <1>4, ShiftGood
<1> HIDE DEF n
<1>6. n.screen[m.pos] = c /\ \A i \in E!Cells : i # m.pos => n.screen[i] = m.screen[i]
  BY <1>1, <1>4, <1>5
<1>7. ASSUME m.pos + 1 \in E!Cells PROVE n.pos = m.pos + 1 /\ (Clean(m) => Clean(n))
  <2>1. n.pos = m.pos + 1
    BY <1>4, <1>5, <1>7
  <2>2. \A i \in E!Cells : i \in Int /\ (i > m.pos + 1 => i > m.pos) /\ m.pos + 1 > m.pos /\ m.pos + 1 # m.pos
    BY <1>1, CellsAre
  <2>3. ASSUME Clean(m) PROVE Clean(n)
    <3>1. n.screen[n.pos] = " "
      BY <1>6, <1>7, <2>1, <2>2, <2>3 DEF Clean
    <3>2. ASSUME NEW i \in E!Cells
          PROVE  /\ i > n.pos => n.screen[i] = " "
                 /\ i # n.pos => n.screen[i] # "block"
      <4>1. CASE i = m.pos
        <5>1. ~ (i > n.pos)
          BY <4>1, <1>1, <2>1
        <5>2. n.screen[i] = c
          BY <4>1, <1>6
        <5>3. QED
          BY <5>1, <5>2, <1>2
      <4>2. CASE i # m.pos
        <5>1. n.screen[i] = m.screen[i] /\ m.screen[i] # "block"
          BY <4>2, <1>6, <2>3 DEF Clean
        <5>2. i > n.pos => n.screen[i] = " "
          BY <5>1, <2>1, <2>2, <2>3 DEF Clean
        <5>3. QED
          BY <5>1, <5>2
      <4>3. QED
        BY <4>1, <4>2
    <3>3. QED
      BY <3>1, <3>2 DEF Clean
  <2>4. QED
    BY <2>1, <2>3
<1>8. QED
  BY <1>5, <1>6, <1>7 DEF n

\* Backspace leaves the cell before the cursor empty, and the cursor there.
LEMMA BackPut ==
  ASSUME NEW m, Good(m)
  PROVE  LET n == E!PrintChar(m, "back")
         IN  /\ Good(n)
             /\ Clean(m) /\ m.pos - 1 \in E!Cells =>
                  /\ n.pos = m.pos - 1 /\ Clean(n)
                  /\ \A i \in E!Cells : i < m.pos - 1 => n.screen[i] = m.screen[i]
<1> DEFINE a == E!ResetCursor(m)
           b == E!ShiftCursor(a, -1)
           n == E!PrintChar(m, "back")
<1>1. m \in Tty /\ m.screen \in [E!Cells -> Sign] /\ m.pos \in E!Cells /\ m.pos \in Int
  BY TtyIs, CellsAre DEF Good
<1>2. n = E!DrawChar(b, " ")
  BY DEF E!PrintChar
<1>3. Good(a) /\ Stays(m, a) /\ a.status = 0 /\ (Clean(m) => a.screen[a.pos] = " ")
  BY ResetGood
<1> HIDE DEF a
<1>4. /\ Good(b) /\ b.screen = a.screen /\ b.status = a.status
      /\ b.pos = IF a.pos + (-1) \in E!Cells THEN a.pos + (-1) ELSE a.pos
  <2>1. -1 \in Int
    OBVIOUS
  <2>2. QED
    BY <1>3, <2>1, ShiftGood
<1> HIDE DEF b
<1>5. Good(n) /\ n.screen = [b.screen EXCEPT ![b.pos] = " "] /\ n.pos = b.pos /\ n.status = b.status
  <2>1. " " \in Sign
    BY DEF Sign
  <2>2. QED
    <3>1. Good(b)
      BY <1>4
    <3> DEFINE k == E!DrawChar(b, " ")
    <3>2. Good(k) /\ k.screen = [b.screen EXCEPT ![b.pos] = " "] /\ k.pos = b.pos /\ k.status = b.status
      BY <2>1, <3>1, DrawGood
    <3> HIDE DEF k
    <3>3. n = k
      BY <1>2 DEF k
    <3> HIDE DEF n
    <3>4. QED
      BY <3>2, <3>3
<1> HIDE DEF n
<1>6. ASSUME Clean(m), m.pos - 1 \in E!Cells
      PROVE  /\ n.pos = m.pos - 1 /\ Clean(n)
             /\ \A i \in E!Cells : i < m.pos - 1 => n.screen[i] = m.screen[i]
  <2>1. a.pos = m.pos /\ Clean(a) /\ a.screen[m.pos] = " " /\ \A i \in E!Cells : i # m.pos => a.screen[i] = m.screen[i]
    BY <1>3, <1>6 DEF Stays
  <2>2. n.pos = m.pos - 1
    <3>1. a.pos + (-1) = m.pos - 1
      BY <1>1, <2>1
    <3>2. QED
      BY <1>4, <1>5, <1>6, <3>1
  <2>3. b.screen \in [E!Cells -> Sign] /\ b.pos \in E!Cells
    BY <1>4, TtyIs DEF Good
  <2>4. n.screen[n.pos] = " " /\ \A i \in E!Cells : i # n.pos => n.screen[i] = a.screen[i]
    BY <1>4, <1>5, <2>3
  <2>5. \A i \in E!Cells : i \in Int
    BY CellsAre
  <2>6. ASSUME NEW i \in E!Cells, i >= m.pos PROVE a.screen[i] = " "
    <3>1. i = m.pos \/ i > a.pos
      <4>1. a.pos = m.pos /\ i \in Int /\ m.pos \in Int
        BY <2>1, <2>5, <1>1
      <4>2. QED
        BY <4>1, <2>6
    <3>2. QED
      BY <2>1, <3>1 DEF Clean
  <2>7. ASSUME NEW i \in E!Cells, i > n.pos PROVE n.screen[i] = " "
    <3>1. i >= m.pos /\ i # n.pos
      BY <2>2, <2>5, <2>7, <1>1
    <3>2. QED
      BY <2>4, <2>6, <3>1
  <2>8. \A i \in E!Cells : i # n.pos => n.screen[i] # "block"
    BY <2>1, <2>4 DEF Clean
  <2>9. Clean(n)
    BY <2>4, <2>7, <2>8 DEF Clean
  <2>10. ASSUME NEW i \in E!Cells, i < m.pos - 1 PROVE n.screen[i] = m.screen[i]
    <3>1. i # m.pos /\ i # n.pos
      BY <1>1, <2>2, <2>5, <2>10
    <3>2. QED
      BY <2>1, <2>4, <3>1
  <2>11. QED
    BY <2>2, <2>9, <2>10
<1>7. QED
  BY <1>5, <1>6 DEF n

\* A new line begins below, or at the last one when the screen has been moved up.
LEMMA EnterPut ==
  ASSUME NEW m, Good(m)
  PROVE  LET n == E!PrintChar(m, "enter") IN Good(n) /\ LineStart(n.pos) /\ (Clean(m) => Clean(n))
<1> DEFINE a == E!ResetCursor(m)
           n == E!PrintChar(m, "enter")
           row == a.pos \div Cols
<1>1. n = E!IncLine(a)
  BY DEF E!PrintChar
<1>2. Good(a) /\ Stays(m, a) /\ a.status = 0 /\ (Clean(m) => a.screen[a.pos] = " ")
  BY ResetGood
<1> HIDE DEF a
<1>3. a \in Tty /\ a.screen \in [E!Cells -> Sign] /\ a.pos \in E!Cells /\ a.pos \in Int
  BY <1>2, TtyIs, CellsAre DEF Good
<1>4. row \in 0 .. Rows - 1 /\ row * Cols <= a.pos /\ a.pos < row * Cols + Cols
  <2>1. Rows \in Nat \ {0} /\ Cols \in Nat \ {0} /\ a.pos \in 0 .. Rows * Cols - 1
    BY <1>3, CellsAre, Sizes
  <2>2. QED
    BY <2>1, RowOf
<1>5. row * Cols \in E!Cells /\ row * Cols \in Int
  BY <1>4, CellsAre, Sizes, RowIn
<1>6. Clean(m) => Clean(a) /\ \A i \in E!Cells : i >= a.pos => a.screen[i] = " "
  <2>1. \A i \in E!Cells : i \in Int
    BY CellsAre
  <2>2. SUFFICES ASSUME Clean(m) PROVE Clean(a) /\ \A i \in E!Cells : i >= a.pos => a.screen[i] = " "
    OBVIOUS
  <2>3. Clean(a) /\ a.screen[a.pos] = " "
    BY <1>2, <2>2 DEF Stays
  <2>4. ASSUME NEW i \in E!Cells, i >= a.pos PROVE a.screen[i] = " "
    <3>1. i = a.pos \/ i > a.pos
      BY <1>3, <2>1, <2>4
    <3>2. QED
      BY <2>3, <3>1 DEF Clean
  <2>5. QED
    BY <2>3, <2>4
<1> HIDE DEF row
<1>7. CASE row + 1 >= Rows
  <2> DEFINE x == E!ScrollUp(a.screen)
             p == row * Cols
  <2>1. n = [a EXCEPT !.screen = x, !.pos = p]
    BY <1>1, <1>7 DEF E!IncLine, row
  <2>2. x \in [E!Cells -> Sign]
    BY <1>3 DEF E!ScrollUp, Sign
  <2>3. \A i \in E!Cells : x[i] = IF i + Cols \in E!Cells THEN a.screen[i + Cols] ELSE " "
    BY DEF E!ScrollUp
  <2>4. p \in E!Cells /\ p \in Int /\ p + Cols = Rows * Cols
    <3>1. row = Rows - 1
      BY <1>4, <1>7, Sizes
    <3>2. (row + 1) * Cols = row * Cols + Cols
      BY <1>4, Sizes, RowIn
    <3>3. QED
      BY <1>5, <3>1, <3>2, Sizes
  <2>5. LineStart(p)
    BY <1>4 DEF LineStart
  <2> HIDE DEF x, p, n
  <2>6. n = Rec(a.timer, a.sound, x, p, a.status, a.enabled)
    BY <1>3, <2>1, NewScreenPos
  <2>7. Good(n) /\ n.screen = x /\ n.pos = p /\ n.status = a.status
    BY <1>2, <2>2, <2>4, <2>6, Redrawn
  <2>8. ASSUME Clean(m) PROVE Clean(n)
    <3>1. \A i \in E!Cells : i >= p => ~ (i + Cols \in E!Cells)
      BY <2>4, CellsAre, Sizes
    <3>2. \A i \in E!Cells : i >= p => x[i] = " "
      BY <2>3, <3>1
    <3>3. \A i \in E!Cells : x[i] # "block"
      <4>1. \A i \in E!Cells : a.screen[i] # "block"
        BY <1>2, <1>6, <2>8 DEF Clean
      <4>2. QED
        BY <2>3, <4>1
    <3>4. p >= p /\ \A i \in E!Cells : i > p => i >= p
      BY <2>4, CellsAre
    <3>5. QED
      BY <2>4, <2>7, <3>2, <3>3, <3>4 DEF Clean
  <2>9. QED
    BY <2>5, <2>7, <2>8 DEF n
<1>8. CASE ~ (row + 1 >= Rows)
  <2> DEFINE p == (row + 1) * Cols
  <2>1. n = [a EXCEPT !.pos = p]
    BY <1>1, <1>8 DEF E!IncLine, row
  <2>2. row + 1 \in 0 .. Rows - 1 /\ p = row * Cols + Cols /\ p \in E!Cells
    <3>1. row + 1 \in 0 .. Rows - 1
      BY <1>4, <1>8, Sizes
    <3>2. p = row * Cols + Cols
      BY <1>4, Sizes, RowIn
    <3>3. p \in E!Cells
      BY <3>1, CellsAre, Sizes, RowIn
    <3>4. QED
      BY <3>1, <3>2, <3>3
  <2>3. LineStart(p) /\ p > a.pos /\ p \in Int
    BY <1>3, <1>4, <1>5, <2>2, Sizes DEF LineStart
  <2> HIDE DEF p, n
  <2>4. n = Rec(a.timer, a.sound, a.screen, p, a.status, a.enabled)
    BY <1>3, <2>1, NewPos
  <2>5. Good(n) /\ n.screen = a.screen /\ n.pos = p /\ n.status = a.status
    BY <1>2, <1>3, <2>2, <2>4, Redrawn
  <2>6. ASSUME Clean(m) PROVE Clean(n)
    <3>1. \A i \in E!Cells : i \in Int
      BY CellsAre
    <3>2. ASSUME NEW i \in E!Cells, i >= p PROVE a.screen[i] = " "
      <4>1. i >= a.pos
        BY <1>3, <2>3, <3>1, <3>2
      <4>2. QED
        BY <4>1, <1>6, <2>6
    <3>3. \A i \in E!Cells : a.screen[i] # "block"
      BY <1>2, <1>6, <2>6 DEF Clean
    <3>4. p >= p /\ \A i \in E!Cells : i > p => i >= p
      BY <2>3, <3>1
    <3>5. QED
      BY <2>2, <2>5, <3>2, <3>3, <3>4 DEF Clean
  <2>7. QED
    BY <2>3, <2>5, <2>6 DEF n
<1>9. QED
  BY <1>7, <1>8

LEMMA ClearPut ==
  ASSUME NEW m, Good(m)
  PROVE  LET n == E!ClearScreen(m) IN Good(n) /\ LineStart(n.pos) /\ Clean(n)
<1> DEFINE n == E!ClearScreen(m)
<1>1. m \in Tty
  BY DEF Good
<1>2. 0 \in E!Cells /\ 0 \in 0 .. Rows - 1 /\ 0 = 0 * Cols
  <2>1. 0 \in 0 .. Rows - 1 /\ 0 = 0 * Cols
    BY Sizes
  <2>2. QED
    BY <2>1, RowIn, CellsAre, Sizes
<1>3. E!Blank \in [E!Cells -> Sign] /\ \A i \in E!Cells : E!Blank[i] = " "
  BY DEF E!Blank, Sign
<1>4. n = [m EXCEPT !.screen = E!Blank, !.pos = 0]
  BY DEF E!ClearScreen
<1> HIDE DEF n
<1>5. n = Rec(m.timer, m.sound, E!Blank, 0, m.status, m.enabled)
  BY <1>1, <1>4, NewScreenPos
<1>6. Good(n) /\ n.screen = E!Blank /\ n.pos = 0
  BY <1>2, <1>3, <1>5, Redrawn
<1>7. QED
  BY <1>2, <1>3, <1>6 DEF Clean, LineStart, n

-----------------------------------------------------------------------------
(* The history of lines.                                                   *)

Lines == {s \in Seq(Letter) : Len(s) <= MaxTyped}
Holds(h, l, s) ==
    /\ \A j \in 0 .. Len(s) - 1 : h[l * MaxLine + j] = s[j + 1]
    /\ h[l * MaxLine + Len(s)] = "nul"

\* Where the k-th line before the next one is.
LineOf(c, k) == IF k <= c THEN c - k ELSE c - k + HistLines

History ==
    /\ hist \in [E!Memory -> Letter \cup {"nul"}]
    /\ histCurrentIndex \in 0 .. HistLines /\ histAccessIndex \in 0 .. HistLines /\ histSize \in 0 .. HistLines
    /\ cmd \in Lines /\ entered \in Seq(Lines) /\ Len(entered) = histSize
    /\ histSize < HistLines => histCurrentIndex = histSize
    /\ \A l \in 0 .. HistLines - 1 : \E s \in Lines : Holds(hist, l, s)
    /\ \A k \in 1 .. histSize : Holds(hist, LineOf(histCurrentIndex, k), entered[k])

LEMMA LinesApart ==
  ASSUME NEW n \in Nat, NEW a \in Nat, NEW b \in Nat, a < b
  PROVE  a * n + n <= b * n /\ a * n \in Nat
<1>1. \A d \in Nat : (a + 1 + d) * n = a * n + n + d * n /\ d * n >= 0 /\ a * n \in Nat
  OBVIOUS
<1>2. b - a - 1 \in Nat /\ b = a + 1 + (b - a - 1)
  OBVIOUS
<1>3. QED
  BY <1>1, <1>2

\* The characters of a line are inside the memory of the history.
LEMMA InMemory ==
  ASSUME NEW l \in 0 .. HistLines - 1
  PROVE  /\ l * MaxLine \in Nat /\ HistLines * MaxLine \in Nat /\ l * MaxLine + MaxLine <= HistLines * MaxLine
         /\ \A j \in 0 .. MaxLine - 1 : l * MaxLine + j \in E!Memory
<1>1. MaxLine \in Nat /\ MaxLine > 0 /\ HistLines \in Nat /\ l \in Nat /\ l < HistLines
  BY Sizes
<1>2. l * MaxLine + MaxLine <= HistLines * MaxLine /\ l * MaxLine \in Nat
  BY <1>1, LinesApart
<1>3. HistLines * MaxLine \in Nat
  BY <1>1
<1>4. \A j \in 0 .. MaxLine - 1 : l * MaxLine + j \in 0 .. HistLines * MaxLine - 1
  BY <1>1, <1>2, <1>3
<1>5. QED
  BY <1>2, <1>3, <1>4 DEF E!Memory

\* What is read from it is what is there up to the first nul.
LEMMA EntryIs ==
  ASSUME MaxTyped < MaxLine, NEW l \in 0 .. HistLines - 1, NEW s \in Lines, Holds(hist, l, s)
  PROVE  E!Entry(l) = s
<1> DEFINE a == l * MaxLine
           n == HistLines * MaxLine - a
           rest == [i \in 1 .. n |-> hist[a + i - 1]]
           I == {i \in 1 .. Len(rest) : rest[i] = "nul"}
           k == E!SelectInSeq(rest, LAMBDA c : c = "nul")
<1>1. a \in Nat /\ n \in Nat /\ n >= MaxLine /\ s \in Seq(Letter) /\ Len(s) \in Nat /\ Len(s) + 1 <= n
  BY InMemory, Sizes DEF Lines
<1>2. E!Entry(l) = SubSeq(rest, 1, k - 1)
  BY DEF E!Entry
<1>3. k = IF I # {} THEN CHOOSE x \in I : \A y \in I : x <= y ELSE 0
  BY DEF E!SelectInSeq, E!Min
<1> HIDE DEF k
<1>4. Len(rest) = n
  <2> HIDE DEF n
  <2>1. QED
    BY <1>1
<1>5. \A j \in 1 .. Len(s) : rest[j] = s[j] /\ rest[j] # "nul"
  <2>1. ASSUME NEW j \in 1 .. Len(s) PROVE rest[j] = s[j] /\ rest[j] # "nul"
    <3>1. j - 1 \in 0 .. Len(s) - 1 /\ a + j - 1 = a + (j - 1) /\ j - 1 + 1 = j /\ j \in 1 .. n
      BY <1>1
    <3>2. hist[a + (j - 1)] = s[j]
      BY <3>1 DEF Holds
    <3>3. s[j] # "nul"
      <4>1. s[j] \in Letter
        BY <1>1
      <4>2. QED
        BY <4>1, TermConstants
    <3>4. rest[j] = hist[a + (j - 1)]
      <4> HIDE DEF n, a
      <4>1. QED
        BY <3>1
    <3>5. QED
      BY <3>2, <3>3, <3>4
  <2>2. QED
    BY <2>1
<1>6. rest[Len(s) + 1] = "nul"
  <2>1. Len(s) + 1 \in 1 .. n /\ a + (Len(s) + 1) - 1 = a + Len(s)
    BY <1>1
  <2>2. rest[Len(s) + 1] = hist[a + Len(s)]
    <3> HIDE DEF n, a
    <3>1. QED
      BY <2>1
  <2>3. QED
    BY <2>2 DEF Holds
<1>7. k = Len(s) + 1
  <2> HIDE DEF rest, n
  <2>1. Len(s) + 1 \in I
    BY <1>1, <1>4, <1>6
  <2>2. \A y \in I : y \in Nat /\ Len(s) + 1 <= y
    BY <1>1, <1>4, <1>5
  <2> HIDE DEF I
  <2>3. \A x \in I : (\A y \in I : x <= y) => x = Len(s) + 1
    BY <1>1, <2>1, <2>2
  <2>4. \E x \in I : \A y \in I : x <= y
    BY <2>1, <2>2
  <2>5. QED
    BY <1>3, <2>1, <2>3, <2>4
<1>8. SubSeq(rest, 1, Len(s)) = s
  <2> DEFINE u == SubSeq(rest, 1, Len(s))
  <2>2. u = [i \in 1 .. Len(s) |-> rest[i]]
    <3>1. u = [i \in 1 .. Len(s) - 1 + 1 |-> rest[i + 1 - 1]]
      <4> HIDE DEF rest
      <4>1. QED
        BY <1>1
    <3>2. QED
      BY <1>1, <3>1
  <2> HIDE DEF u, rest
  <2>3. u = [i \in 1 .. Len(s) |-> s[i]]
    BY <2>2, <1>5
  <2>4. s = [i \in 1 .. Len(s) |-> s[i]]
    BY <1>1
  <2>5. QED
    BY <2>3, <2>4 DEF u
<1>9. k - 1 = Len(s)
  BY <1>1, <1>7
<1>10. QED
  BY <1>2, <1>8, <1>9

\* A copy fills its line and no other.
LEMMA Copied ==
  ASSUME MaxTyped < MaxLine, NEW l \in 0 .. HistLines - 1, NEW s \in Lines,
         hist \in [E!Memory -> Letter \cup {"nul"}]
  PROVE  LET h == E!StrCpy(hist, l, s)
         IN  /\ h \in [E!Memory -> Letter \cup {"nul"}] /\ Holds(h, l, s)
             /\ \A b \in 0 .. HistLines - 1, t \in Lines : b # l /\ Holds(hist, b, t) => Holds(h, b, t)
<1> DEFINE h == E!StrCpy(hist, l, s)
           a == l * MaxLine
<1>1. s \in Seq(Letter) /\ Len(s) \in Nat /\ Len(s) < MaxLine /\ MaxLine \in Nat /\ a \in Nat
  BY InMemory, Sizes DEF Lines
<1>2. /\ Len(Append(s, "nul")) = Len(s) + 1 /\ Append(s, "nul")[Len(s) + 1] = "nul"
      /\ \A j \in 1 .. Len(s) : Append(s, "nul")[j] = s[j]
      /\ \A j \in 1 .. Len(s) + 1 : Append(s, "nul")[j] \in Letter \cup {"nul"}
  BY <1>1
<1> DEFINE u == Append(s, "nul")
<1> HIDE DEF u
<1>3. h = [i \in E!Memory |-> IF i - a \in 0 .. Len(s) THEN u[i - a + 1] ELSE hist[i]]
  BY DEF E!StrCpy, u
<1> HIDE DEF h
<1>3a. \A i \in E!Memory : h[i] = IF i - a \in 0 .. Len(s) THEN u[i - a + 1] ELSE hist[i]
  BY <1>3
<1>4. \A i \in E!Memory : i \in Int
  BY DEF E!Memory
<1>5. h \in [E!Memory -> Letter \cup {"nul"}]
  <2>1. ASSUME NEW i \in E!Memory PROVE (IF i - a \in 0 .. Len(s) THEN u[i - a + 1] ELSE hist[i]) \in Letter \cup {"nul"}
    <3>1. CASE i - a \in 0 .. Len(s)
      <4>1. i - a + 1 \in 1 .. Len(s) + 1
        BY <3>1, <1>1, <1>4
      <4>2. QED
        BY <3>1, <4>1, <1>2 DEF u
    <3>2. CASE i - a \notin 0 .. Len(s)
      BY <3>2
    <3>3. QED
      BY <3>1, <3>2
  <2>2. QED
    BY <2>1, <1>3
<1>6. Holds(h, l, s)
  <2>1. ASSUME NEW j \in 0 .. Len(s) PROVE h[a + j] = u[j + 1]
    <3>1. a + j \in E!Memory
      <4>1. j \in 0 .. MaxLine - 1
        BY <1>1
      <4>2. QED
        BY <4>1, InMemory
    <3> DEFINE i == a + j
    <3>2. i - a \in 0 .. Len(s) /\ i - a + 1 = j + 1
      BY <1>1
    <3> HIDE DEF i
    <3>3. i \in E!Memory
      BY <3>1 DEF i
    <3> HIDE DEF a
    <3>4. h[i] = u[i - a + 1]
      BY <3>2, <3>3, <1>3a
    <3>5. h[i] = u[j + 1]
      BY <3>2, <3>4
    <3>6. QED
      BY <3>5 DEF i
  <2>2. \A j \in 0 .. Len(s) - 1 : h[a + j] = s[j + 1]
    <3>1. \A j \in 0 .. Len(s) - 1 : j \in 0 .. Len(s) /\ j + 1 \in 1 .. Len(s)
      BY <1>1
    <3>2. QED
      BY <2>1, <3>1, <1>2 DEF u
  <2>3. h[a + Len(s)] = "nul"
    <3>1. Len(s) \in 0 .. Len(s)
      BY <1>1
    <3>2. QED
      BY <2>1, <3>1, <1>2 DEF u
  <2>4. QED
    BY <2>2, <2>3 DEF Holds
<1>7. ASSUME NEW b \in 0 .. HistLines - 1, NEW t \in Lines, b # l, Holds(hist, b, t) PROVE Holds(h, b, t)
  <2> DEFINE c == b * MaxLine
  <2>1. Len(t) \in Nat /\ Len(t) < MaxLine /\ c \in Nat
    BY InMemory, Sizes DEF Lines
  <2>2. c + MaxLine <= a \/ a + MaxLine <= c
    <3>1. b < l \/ l < b
      BY <1>7, Sizes
    <3>2. QED
      BY <3>1, <1>1, LinesApart
  <2>3. ASSUME NEW j \in 0 .. Len(t) PROVE h[c + j] = hist[c + j]
    <3>1. c + j \in E!Memory
      <4>1. j \in 0 .. MaxLine - 1
        BY <1>1, <2>1
      <4>2. QED
        BY <4>1, InMemory
    <3> DEFINE i == c + j
    <3>2. ~ (i - a \in 0 .. Len(s))
      BY <1>1, <2>1, <2>2
    <3> HIDE DEF i
    <3>3. i \in E!Memory
      BY <3>1 DEF i
    <3> HIDE DEF a, c
    <3>4. h[i] = hist[i]
      BY <3>2, <3>3, <1>3a
    <3>5. QED
      BY <3>4 DEF i
  <2>4. QED
    <3>1. \A j \in 0 .. Len(t) - 1 : j \in 0 .. Len(t)
      BY <2>1
    <3>2. Len(t) \in 0 .. Len(t)
      BY <2>1
    <3>3. QED
      BY <1>7, <2>3, <3>1, <3>2 DEF Holds
<1>8. QED
  BY <1>5, <1>6, <1>7 DEF h

LEMMA EnterKeeps == MaxTyped < MaxLine /\ History /\ E!Enter => History'
<1>1. SUFFICES ASSUME MaxTyped < MaxLine, History, E!Enter PROVE History'
  OBVIOUS
<1> DEFINE l == E!Slot
           c == histCurrentIndex
<1>2. HistLines \in Nat /\ HistLines > 0 /\ c \in 0 .. HistLines /\ histSize \in 0 .. HistLines
  BY <1>1, Sizes DEF History
<1>3. l \in 0 .. HistLines - 1 /\ l = IF c >= HistLines THEN 0 ELSE c
  BY <1>2 DEF E!Slot
<1>4. /\ hist' = E!StrCpy(hist, l, cmd) /\ histCurrentIndex' = l + 1 /\ histAccessIndex' = l + 1
      /\ histSize' = (IF histSize # HistLines THEN histSize + 1 ELSE histSize) /\ cmd' = cmd
  BY <1>1 DEF E!Enter
<1> DEFINE all == <<cmd>> \o entered
<1>5. entered' = SubSeq(all, 1, IF Len(all) < HistLines THEN Len(all) ELSE HistLines)
  BY <1>1 DEF E!Enter
<1> HIDE DEF l
<1>6. /\ all \in Seq(Lines) /\ Len(all) = histSize + 1 /\ all[1] = cmd
      /\ \A k \in 2 .. histSize + 1 : all[k] = entered[k - 1]
  BY <1>1, <1>2 DEF History
<1> HIDE DEF all
<1>7. histSize' \in 1 .. HistLines /\ histSize' <= histSize + 1
      /\ histSize' = IF Len(all) < HistLines THEN Len(all) ELSE HistLines
  BY <1>2, <1>4, <1>6
<1>8. entered' \in Seq(Lines) /\ Len(entered') = histSize' /\ \A k \in 1 .. histSize' : entered'[k] = all[k]
  <2>1. entered' = SubSeq(all, 1, histSize')
    BY <1>5, <1>7
  <2>2. histSize' \in 1 .. Len(all)
    BY <1>2, <1>6, <1>7
  <2> DEFINE n == histSize'
  <2> HIDE DEF n
  <2>3. n \in 1 .. Len(all) /\ entered' = SubSeq(all, 1, n)
    BY <2>1, <2>2 DEF n
  <2>4. SubSeq(all, 1, n) \in Seq(Lines) /\ Len(SubSeq(all, 1, n)) = n /\ \A k \in 1 .. n : SubSeq(all, 1, n)[k] = all[k]
    BY <2>3, <1>6
  <2>5. QED
    BY <2>3, <2>4 DEF n
<1>9. /\ hist' \in [E!Memory -> Letter \cup {"nul"}] /\ Holds(hist', l, cmd)
      /\ \A b \in 0 .. HistLines - 1, t \in Lines : b # l /\ Holds(hist, b, t) => Holds(hist', b, t)
  BY <1>1, <1>3, <1>4, Copied DEF History
<1>10. \A b \in 0 .. HistLines - 1 : \E s \in Lines : Holds(hist', b, s)
  BY <1>1, <1>9 DEF History
<1>11. ASSUME NEW k \in 1 .. histSize' PROVE Holds(hist', LineOf(histCurrentIndex', k), entered'[k])
  <2>1. CASE k = 1
    <3>1. LineOf(histCurrentIndex', k) = l
      BY <2>1, <1>3, <1>4, <1>2 DEF LineOf
    <3>2. entered'[k] = cmd
      BY <2>1, <1>6, <1>7, <1>8
    <3>3. QED
      BY <3>1, <3>2, <1>9
  <2>2. CASE k # 1
    <3>1. k - 1 \in 1 .. histSize /\ k \in 2 .. histSize + 1 /\ k - 1 < HistLines
      BY <2>2, <1>2, <1>7
    <3>2. entered'[k] = entered[k - 1] /\ entered[k - 1] \in Lines
      BY <3>1, <1>1, <1>6, <1>8 DEF History
    <3>3. LineOf(histCurrentIndex', k) = LineOf(c, k - 1)
      BY <3>1, <1>2, <1>3, <1>4 DEF LineOf
    <3>4. LineOf(c, k - 1) \in 0 .. HistLines - 1 /\ LineOf(c, k - 1) # l
      BY <3>1, <1>2, <1>3 DEF LineOf
    <3>5. Holds(hist, LineOf(c, k - 1), entered[k - 1])
      BY <3>1, <1>1 DEF History
    <3>6. QED
      BY <3>2, <3>3, <3>4, <3>5, <1>9
  <2>3. QED
    BY <2>1, <2>2
<1>12. histSize' < HistLines => histCurrentIndex' = histSize'
  BY <1>1, <1>2, <1>3, <1>4 DEF History
<1>13. histCurrentIndex' \in 0 .. HistLines /\ histAccessIndex' \in 0 .. HistLines /\ histSize' \in 0 .. HistLines
  BY <1>2, <1>3, <1>4, <1>7
<1>14. QED
  BY <1>1, <1>4, <1>8, <1>9, <1>10, <1>11, <1>12, <1>13 DEF History

\* Cursors of the history go round.
LEMMA Around ==
  ASSUME NEW c \in 0 .. HistLines, NEW k \in 1 .. HistLines
  PROVE  (c - k) % HistLines = LineOf(c, k) /\ LineOf(c, k) \in 0 .. HistLines - 1
<1>1. HistLines \in Nat \ {0}
  BY Sizes
<1>2. \A x \in 0 .. HistLines - 1 : x % HistLines = x
  BY <1>1
<1>3. \A x \in -HistLines .. -1 : x % HistLines = x + HistLines
  BY <1>1
<1>4. CASE k <= c
  <2>1. c - k \in 0 .. HistLines - 1
    BY <1>1, <1>4
  <2>2. QED
    BY <2>1, <1>2, <1>4 DEF LineOf
<1>5. CASE ~ (k <= c)
  <2>1. c - k \in -HistLines .. -1 /\ c - k + HistLines \in 0 .. HistLines - 1
    BY <1>1, <1>5
  <2>2. QED
    BY <2>1, <1>3, <1>5 DEF LineOf
<1>6. QED
  BY <1>4, <1>5

LEMMA HistoryRight == MaxTyped < MaxLine /\ History => E!HistoryExact
<1>1. SUFFICES ASSUME MaxTyped < MaxLine, History PROVE E!HistoryExact
  OBVIOUS
<1>2. ASSUME NEW k \in 1 .. histSize PROVE E!Entry((histCurrentIndex - k) % HistLines) = entered[k]
  <2>1. k \in 1 .. HistLines /\ histCurrentIndex \in 0 .. HistLines
    BY <1>1, Sizes DEF History
  <2>2. (histCurrentIndex - k) % HistLines = LineOf(histCurrentIndex, k) /\ LineOf(histCurrentIndex, k) \in 0 .. HistLines - 1
    BY <2>1, Around
  <2>3. entered[k] \in Lines /\ Holds(hist, LineOf(histCurrentIndex, k), entered[k])
    BY <1>1 DEF History
  <2>4. QED
    BY <1>1, <2>2, <2>3, EntryIs
<1>3. QED
  BY <1>1, <1>2 DEF E!HistoryExact, History

\* What the arrows put in the place of the line.
LEMMA EntryLine == MaxTyped < MaxLine /\ History => \A l \in 0 .. HistLines - 1 : E!Entry(l) \in Lines
<1>1. SUFFICES ASSUME MaxTyped < MaxLine, History, NEW l \in 0 .. HistLines - 1 PROVE E!Entry(l) \in Lines
  OBVIOUS
<1>2. PICK s \in Lines : Holds(hist, l, s)
  BY <1>1 DEF History
<1>3. QED
  BY <1>1, <1>2, EntryIs

-----------------------------------------------------------------------------
(* The steps of the terminal.                                              *)

Char == Letter \cup {"prompt", "enter", "back"}

ShellKept == Good(tty) /\ History /\ out \in Seq(Char) /\ pc \in {"prompt", "shown", "listen", "run"}
TermInv == ShellKept /\ timerSkip \in BOOLEAN /\ forced \in BOOLEAN

\* The table has a slot more than there are callbacks (that of the kernel has 255), and lines fit
\* into their buffer with the character that ends them.
Roomy == MaxFunctions > 3 /\ MaxTyped < MaxLine

LEMMA TermInit == Roomy /\ E!Init => TermInv
<1>1. SUFFICES ASSUME Roomy, E!Init PROVE TermInv
  OBVIOUS
<1>2. Good(tty)
  <2>1. 0 \in E!Cells
    <3>1. 0 \in 0 .. Rows - 1 /\ 0 * Cols = 0
      BY Sizes
    <3>2. QED
      BY <3>1, RowIn, CellsAre, Sizes
  <2>2. E!Blank \in [E!Cells -> Sign]
    BY DEF E!Blank, Sign
  <2>3. tty = [timer |-> <<>>, sound |-> FALSE, screen |-> E!Blank, pos |-> 0, status |-> 0, enabled |-> FALSE]
    BY <1>1 DEF E!Init
  <2>4. tty \in Tty
    BY <2>1, <2>2, <2>3 DEF Tty
  <2>5. tty.timer = <<>> /\ tty.sound = FALSE /\ tty.enabled = FALSE
    BY <2>3
  <2>6. Callbacks(tty)
    BY <2>5 DEF Callbacks, Single, Has
  <2>7. QED
    BY <2>4, <2>6 DEF Good
<1>3. History
  <2>1. /\ hist = [i \in E!Memory |-> "nul"] /\ histCurrentIndex = 0 /\ histAccessIndex = 0 /\ histSize = 0
        /\ entered = <<>> /\ cmd = <<>>
    BY <1>1 DEF E!Init
  <2>2. <<>> \in Lines
    BY Sizes DEF Lines
  <2>3. \A l \in 0 .. HistLines - 1 : Holds(hist, l, <<>>)
    <3>1. ASSUME NEW l \in 0 .. HistLines - 1 PROVE hist[l * MaxLine + 0] = "nul"
      <4>1. 0 \in 0 .. MaxLine - 1
        BY Sizes
      <4>2. l * MaxLine + 0 \in E!Memory
        BY <4>1, InMemory
      <4>3. QED
        BY <2>1, <4>2
    <3>2. QED
      BY <3>1 DEF Holds
  <2>4. QED
    BY <2>1, <2>2, <2>3, Sizes DEF History
<1>4. ShellKept
  <2>1. out = <<>> /\ pc = "prompt"
    BY <1>1 DEF E!Init
  <2>2. QED
    BY <1>2, <1>3, <2>1 DEF ShellKept
<1>5. timerSkip \in BOOLEAN /\ forced \in BOOLEAN
  BY <1>1 DEF E!Init
<1>6. QED
  BY <1>4, <1>5 DEF TermInv

\* Whatever is printed, the table and the screen are in order.
LEMMA PrintGood == ASSUME NEW m, Good(m), NEW c \in Char PROVE Good(E!PrintChar(m, c))
  BY LetterPut, BackPut, EnterPut DEF Char

LEMMA SameHistory ==
  ASSUME History, UNCHANGED <<hist, histCurrentIndex, histAccessIndex, histSize, entered>>, cmd' \in Lines
  PROVE  History'
  BY DEF History, Holds, LineOf

\* The arrows change one index.
LEMMA ArrowKeeps ==
  ASSUME Roomy, ShellKept, NEW l \in 0 .. HistLines - 1, E!Arrow(l)
  PROVE  ShellKept'
<1>1. /\ histAccessIndex' = l /\ cmd' = E!Entry(l) /\ out' = [i \in 1 .. Len(cmd) |-> "back"] \o E!Entry(l)
      /\ UNCHANGED <<tty, pc, hist, histCurrentIndex, histSize, entered>>
  BY DEF E!Arrow
<1>2. E!Entry(l) \in Lines
  BY EntryLine DEF Roomy, ShellKept
<1>3. History'
  <2>1. l \in 0 .. HistLines
    BY Sizes
  <2>2. QED
    BY <1>1, <1>2, <2>1 DEF History, ShellKept, Holds, LineOf
<1>4. QED
  <2>1. out' \in Seq(Char)
    <3>1. [i \in 1 .. Len(cmd) |-> "back"] \in Seq(Char)
      <4>1. Len(cmd) \in Nat
        BY DEF ShellKept, History, Lines
      <4>2. QED
        BY <4>1 DEF Char
    <3>2. E!Entry(l) \in Seq(Char)
      BY <1>2 DEF Lines, Char
    <3>3. QED
      BY <1>1, <3>1, <3>2
  <2>2. QED
    BY <1>1, <1>3, <2>1 DEF ShellKept

LEMMA ShellKeeps == Roomy /\ ShellKept /\ E!Shell => ShellKept'
<1>1. SUFFICES ASSUME Roomy, ShellKept, E!Shell PROVE ShellKept'
  OBVIOUS
<1>2. /\ Good(tty) /\ History /\ out \in Seq(Char) /\ pc \in {"prompt", "shown", "listen", "run"}
      /\ MaxFunctions > 3 /\ MaxTyped < MaxLine
  BY <1>1 DEF ShellKept, Roomy
<1>3. cmd \in Seq(Letter) /\ Len(cmd) \in Nat /\ Len(cmd) <= MaxTyped /\ cmd \in Lines
  BY <1>2 DEF History, Lines
<1>4. TRUE \in BOOLEAN /\ FALSE \in BOOLEAN
  OBVIOUS
<1>5. CASE E!Prompt
  <2>1. /\ cmd' = <<>> /\ out' = <<"prompt">> /\ pc' = "shown" /\ tty' = tty
        /\ UNCHANGED <<hist, histCurrentIndex, histAccessIndex, histSize, entered>>
    BY <1>5 DEF E!Prompt, E!History
  <2>2. cmd' \in Lines /\ out' \in Seq(Char)
    BY <2>1, Sizes DEF Lines, Char
  <2>3. QED
    BY <1>2, <2>1, <2>2, SameHistory DEF ShellKept
<1>6. CASE E!Enable
  <2>1. /\ tty' = E!SetGraphicCursorStatus(tty, TRUE) /\ pc' = "listen" /\ cmd' = cmd /\ out' = out
        /\ UNCHANGED <<hist, histCurrentIndex, histAccessIndex, histSize, entered>>
    BY <1>6 DEF E!Enable, E!History
  <2>2. Good(tty')
    BY <1>2, <1>4, <2>1, EnableGood
  <2>3. QED
    BY <1>2, <1>3, <2>1, <2>2, SameHistory DEF ShellKept
<1>7. CASE E!Backspace
  <2>1. /\ tty' = tty /\ pc' = pc /\ cmd' = SubSeq(cmd, 1, Len(cmd) - 1) /\ out' = <<"back">> /\ cmd # <<>>
        /\ UNCHANGED <<hist, histCurrentIndex, histAccessIndex, histSize, entered>>
    BY <1>7 DEF E!Backspace, E!History, E!Front
  <2>2. cmd' \in Lines /\ out' \in Seq(Char)
    <3>1. cmd' \in Seq(Letter) /\ Len(cmd') = Len(cmd) - 1
      BY <1>3, <2>1
    <3>2. QED
      BY <1>3, <2>1, <3>1, Sizes DEF Lines, Char
  <2>3. QED
    BY <1>2, <2>1, <2>2, SameHistory DEF ShellKept
<1>8. CASE E!Up
  <2> DEFINE l == IF histAccessIndex > 0 THEN histAccessIndex - 1 ELSE IF histSize > 0 THEN histSize - 1 ELSE 0
  <2>1. l \in 0 .. HistLines - 1
    BY <1>2, Sizes DEF History
  <2>2. E!Arrow(l)
    BY <1>8 DEF E!Up
  <2> HIDE DEF l
  <2>3. QED
    BY <1>1, <2>1, <2>2, ArrowKeeps
<1>9. CASE E!Down
  <2> DEFINE l == IF histAccessIndex < histSize - 1 THEN histAccessIndex + 1 ELSE 0
  <2>1. l \in 0 .. HistLines - 1
    BY <1>2, Sizes DEF History
  <2>2. E!Arrow(l)
    BY <1>9 DEF E!Down
  <2> HIDE DEF l
  <2>3. QED
    BY <1>1, <2>1, <2>2, ArrowKeeps
<1>10. CASE E!Enter
  <2>1. History'
    BY <1>2, <1>10, EnterKeeps
  <2>2. tty' = E!SetGraphicCursorStatus(tty, FALSE) /\ pc' = "run" /\ out' = <<"enter">>
    BY <1>10 DEF E!Enter
  <2>3. Good(tty')
    BY <1>2, <1>4, <2>2, EnableGood
  <2>4. out' \in Seq(Char)
    BY <2>2 DEF Char
  <2>5. QED
    BY <2>1, <2>2, <2>3, <2>4 DEF ShellKept
<1>11. CASE E!Run
  <2>1. /\ pc' = "prompt" /\ cmd' = cmd
        /\ UNCHANGED <<hist, histCurrentIndex, histAccessIndex, histSize, entered>>
    BY <1>11 DEF E!Run, E!History
  <2>2. /\ out' = out \/ out' = <<"enter">>
        /\ tty' = tty \/ tty' = E!ClearScreen(tty)
    BY <1>11 DEF E!Run
  <2>3. Good(tty')
    <3>1. Good(E!ClearScreen(tty))
      BY <1>2, ClearPut
    <3>2. QED
      BY <1>2, <2>2, <3>1
  <2>4. out' \in Seq(Char)
    <3>1. <<"enter">> \in Seq(Char)
      BY DEF Char
    <3>2. QED
      BY <1>2, <2>2, <3>1
  <2>5. QED
    BY <1>2, <1>3, <2>1, <2>3, <2>4, SameHistory DEF ShellKept
<1>12. CASE E!PutChar
  <2>1. /\ tty' = E!PrintChar(tty, Head(out)) /\ out' = Tail(out) /\ out # <<>> /\ pc' = pc /\ cmd' = cmd
        /\ UNCHANGED <<hist, histCurrentIndex, histAccessIndex, histSize, entered>>
    BY <1>12 DEF E!PutChar, E!History
  <2>2. Head(out) \in Char /\ out' \in Seq(Char)
    BY <1>2, <2>1
  <2>3. Good(tty')
    BY <1>2, <2>1, <2>2, PrintGood
  <2>4. QED
    BY <1>2, <1>3, <2>1, <2>2, <2>3, SameHistory DEF ShellKept
<1>13. ASSUME NEW c \in Letter, E!Type(c) PROVE ShellKept'
  <2>1. /\ tty' = tty /\ pc' = pc /\ cmd' = Append(cmd, c) /\ out' = <<c>> /\ Len(cmd) < MaxTyped
        /\ UNCHANGED <<hist, histCurrentIndex, histAccessIndex, histSize, entered>>
    BY <1>13 DEF E!Type, E!History
  <2>2. cmd' \in Lines /\ out' \in Seq(Char)
    <3>1. cmd' \in Seq(Letter) /\ Len(cmd') = Len(cmd) + 1
      BY <1>3, <2>1
    <3>2. QED
      BY <1>3, <2>1, <3>1, Sizes DEF Lines, Char
  <2>3. QED
    BY <1>2, <2>1, <2>2, SameHistory DEF ShellKept
<1>14. QED
  BY <1>1, <1>5, <1>6, <1>7, <1>8, <1>9, <1>10, <1>11, <1>12, <1>13 DEF E!Shell

\* What the other programs and the ticks do to the table and the screen.
LEMMA OutsideGood ==
  ASSUME Roomy, Good(tty), E!Programs \/ E!RealTick \/ E!SoftTick \/ E!NoTimer
  PROVE  Good(tty') /\ Stays(tty, tty')
<1>1. MaxFunctions > 3
  BY DEF Roomy
<1>2. Stays(tty, tty)
  BY Still
<1>3. CASE E!Programs
  <2>1. E!PrintChar(tty, "bell") = E!Beep(tty, BeepTicks)
    BY DEF E!PrintChar
  <2>2. (~ \E i \in DOMAIN tty.timer : tty.timer[i].f = "drawMe") => ~ Has(tty.timer, "drawMe")
    <3>1. tty.timer \in Seq(Callback)
      BY TtyIs DEF Good
    <3>2. QED
      BY <3>1 DEF Has
  <2>3. Good(E!Beep(tty, BeepTicks)) /\ Stays(tty, E!Beep(tty, BeepTicks))
    BY <1>1, BeepGood
  <2>4. Good(E!NoSound(tty)) /\ Stays(tty, E!NoSound(tty))
    BY <1>1, NoSoundGood
  <2> DEFINE a == [tty EXCEPT !.timer = E!AppendFunction(@, "drawMe", DrawTicks)]
             b == [tty EXCEPT !.timer = E!RemoveFunction(@, "drawMe")]
  <2>5. (~ Has(tty.timer, "drawMe") => Good(a) /\ Stays(tty, a)) /\ Good(b) /\ Stays(tty, b)
    BY <1>1, OthersGood
  <2>6. \/ tty' = E!Beep(tty, BeepTicks) \/ tty' = E!NoSound(tty)
        \/ (tty' = a /\ ~ \E i \in DOMAIN tty.timer : tty.timer[i].f = "drawMe") \/ tty' = b
    BY <1>3, <2>1, Zenon DEF E!Programs
  <2> HIDE DEF a, b
  <2>7. QED
    BY <2>2, <2>3, <2>4, <2>5, <2>6
<1>4. CASE E!RealTick \/ E!SoftTick
  <2>1. tty' = tty \/ tty' = E!TimerTick(tty)
    BY <1>4 DEF E!RealTick, E!SoftTick, E!Tick
  <2>2. QED
    BY <1>1, <1>2, <2>1, TickGood
<1>5. CASE E!NoTimer
  BY <1>2, <1>5 DEF E!NoTimer
<1>6. QED
  BY <1>3, <1>4, <1>5

LEMMA TermStep == Roomy /\ TermInv /\ [E!Next]_terminal => TermInv'
<1>1. SUFFICES ASSUME Roomy, TermInv, [E!Next]_terminal PROVE TermInv'
  OBVIOUS
<1>2. CASE E!Shell /\ UNCHANGED <<timerSkip, forced>>
  <2>1. ShellKept'
    BY <1>1, <1>2, ShellKeeps DEF TermInv
  <2>2. QED
    BY <1>1, <1>2, <2>1 DEF TermInv
<1>3. CASE (E!Programs /\ UNCHANGED <<timerSkip, forced, E!shell>>) \/ E!RealTick \/ E!SoftTick \/ E!NoTimer
  <2>1. Good(tty')
    BY <1>1, <1>3, OutsideGood DEF TermInv, ShellKept
  <2>2. /\ UNCHANGED <<pc, cmd, out, hist, histCurrentIndex, histAccessIndex, histSize, entered>>
        /\ timerSkip' \in BOOLEAN /\ forced' \in BOOLEAN
    <3>1. UNCHANGED E!shell
      BY <1>3 DEF E!RealTick, E!SoftTick, E!NoTimer
    <3>2. timerSkip \in BOOLEAN /\ forced \in BOOLEAN /\ TRUE \in BOOLEAN /\ FALSE \in BOOLEAN
      BY <1>1 DEF TermInv
    <3>3. timerSkip' = timerSkip \/ timerSkip' = TRUE \/ timerSkip' = FALSE
      BY <1>3 DEF E!RealTick, E!SoftTick, E!NoTimer, E!Tick
    <3>4. forced' = forced \/ forced' = TRUE \/ forced' = FALSE
      BY <1>3 DEF E!RealTick, E!SoftTick, E!NoTimer, E!Tick
    <3>5. timerSkip' \in BOOLEAN /\ forced' \in BOOLEAN
      BY <3>2, <3>3, <3>4, Zenon
    <3>6. QED
      BY <3>1, <3>5 DEF E!shell
  <2>3. History'
    BY <1>1, <2>2 DEF TermInv, ShellKept, History, Holds, LineOf
  <2>4. QED
    BY <1>1, <2>1, <2>2, <2>3 DEF TermInv, ShellKept
<1>4. CASE UNCHANGED terminal
  BY <1>1, <1>4 DEF terminal, TermInv, ShellKept, History, Holds, LineOf
<1>5. QED
  BY <1>1, <1>2, <1>3, <1>4 DEF E!Next

LEMMA TermRight == Roomy /\ TermInv => CallbacksExact /\ HistoryExact
<1>1. SUFFICES ASSUME Roomy, TermInv PROVE E!TypeOK /\ E!CallbacksExact /\ E!HistoryExact
  BY DEF CallbacksExact, HistoryExact
<1>2. E!HistoryExact
  BY <1>1, HistoryRight DEF TermInv, ShellKept, Roomy
<1>3. /\ tty \in Tty /\ Callbacks(tty) /\ Single(tty.timer) /\ tty.timer \in Seq(Callback)
      /\ tty.sound \in BOOLEAN /\ tty.enabled \in BOOLEAN /\ tty.screen \in [E!Cells -> Sign] /\ tty.pos \in E!Cells
      /\ tty.status \in {0, 1}
  BY <1>1, TtyIs DEF TermInv, ShellKept, Good, Callbacks
<1>4. \A f : LET I == {i \in DOMAIN tty.timer : tty.timer[i].f = f}
             IN  Cardinality(I) = IF Has(tty.timer, f) THEN 1 ELSE 0
  <2>1. SUFFICES ASSUME NEW f PROVE Cardinality({i \in DOMAIN tty.timer : tty.timer[i].f = f}) = IF Has(tty.timer, f) THEN 1 ELSE 0
    OBVIOUS
  <2> DEFINE I == {i \in DOMAIN tty.timer : tty.timer[i].f = f}
  <2>2. DOMAIN tty.timer = 1 .. Len(tty.timer)
    BY <1>3
  <2>3. CASE Has(tty.timer, f)
    <3>1. PICK k \in 1 .. Len(tty.timer) : tty.timer[k].f = f
      BY <2>3 DEF Has
    <3>2. I = {k}
      BY <1>3, <2>2, <3>1 DEF Single
    <3>3. QED
      BY <2>3, <3>2, FS_Singleton
  <2>4. CASE ~ Has(tty.timer, f)
    <3>1. I = {}
      BY <2>2, <2>4 DEF Has
    <3>2. QED
      BY <2>4, <3>1, FS_EmptySet
  <2>5. QED
    BY <2>3, <2>4
<1>5. E!CallbacksExact
  <2>1. \A f : E!Registered(f) = IF Has(tty.timer, f) THEN 1 ELSE 0
    BY <1>4 DEF E!Registered, Cardinality, E!Cardinality
  <2>2. QED
    BY <1>3, <2>1 DEF E!CallbacksExact, Callbacks
<1>6. E!TypeOK
  <2>1. \A i \in DOMAIN tty.timer : tty.timer[i].remaining \in 1 .. tty.timer[i].ticks
    <3>1. SUFFICES ASSUME NEW i \in DOMAIN tty.timer PROVE tty.timer[i].remaining \in 1 .. tty.timer[i].ticks
      OBVIOUS
    <3>2. i \in 1 .. Len(tty.timer) /\ tty.timer[i] \in Callback
      BY <1>3, <3>1
    <3>3. QED
      BY <1>3, <3>2 DEF Callback, Single
  <2>2. cmd \in E!BoundedSeq(Letter, MaxTyped)
    <3>1. cmd \in Seq(Letter) /\ Len(cmd) \in 0 .. MaxTyped
      BY <1>1, Sizes DEF TermInv, ShellKept, History, Lines
    <3>2. cmd \in [1 .. Len(cmd) -> Letter]
      BY <3>1
    <3>3. QED
      BY <3>1, <3>2 DEF E!BoundedSeq, E!SeqOf
  <2>3. /\ hist \in [E!Memory -> Letter \cup {"nul"}] /\ histCurrentIndex \in 0 .. HistLines
        /\ histAccessIndex \in 0 .. HistLines /\ histSize \in 0 .. HistLines
    BY <1>1 DEF TermInv, ShellKept, History
  <2>4. timerSkip \in BOOLEAN /\ forced \in BOOLEAN /\ pc \in {"prompt", "shown", "listen", "run"}
    BY <1>1 DEF TermInv, ShellKept
  <2>5. tty.status \in 0 .. 1
    BY <1>3
  <2>6. tty.screen \in [E!Cells -> Letter \cup {" ", "block", "prompt"}]
    BY <1>3 DEF Sign
  <2>7. QED
    BY <1>3, <2>1, <2>2, <2>3, <2>4, <2>5, <2>6 DEF E!TypeOK
<1>7. QED
  BY <1>2, <1>5, <1>6

\* timer.c: through ticks in which callbacks remove themselves and others are added, the
\* callback that ends a sound is in the table once while there is one, and no other time, and
\* the one that blinks while the cursor is enabled.
THEOREM CallbacksRight == Roomy /\ PartSpec => []CallbacksExact
<1> SUFFICES ASSUME Roomy PROVE PartSpec => []CallbacksExact
  OBVIOUS
<1> DEFINE V == part = "terminal" => TermInv
<1>1. PartInit => V
  BY TermInit DEF PartInit, Begin
<1>2. V /\ [PartNext]_partVars => V'
  <2>1. SUFFICES ASSUME V, [PartNext]_partVars, part' = "terminal" PROVE TermInv'
    OBVIOUS
  <2>2. part = "terminal" /\ [E!Next]_terminal
    BY <2>1 DEF PartNext, partVars
  <2>3. QED
    BY <2>1, <2>2, TermStep
<1>3. V => CallbacksExact
  BY TermRight DEF CallbacksExact
<1>4. QED
  BY <1>1, <1>2, <1>3, PTL DEF PartSpec

\* commandListener: hist holds the last lines entered, in their order, wherever it wraps.
THEOREM HistoryKept == Roomy /\ PartSpec => []HistoryExact
<1> SUFFICES ASSUME Roomy PROVE PartSpec => []HistoryExact
  OBVIOUS
<1> DEFINE V == part = "terminal" => TermInv
<1>1. PartInit => V
  BY TermInit DEF PartInit, Begin
<1>2. V /\ [PartNext]_partVars => V'
  <2>1. SUFFICES ASSUME V, [PartNext]_partVars, part' = "terminal" PROVE TermInv'
    OBVIOUS
  <2>2. part = "terminal" /\ [E!Next]_terminal
    BY <2>1 DEF PartNext, partVars
  <2>3. QED
    BY <2>1, <2>2, TermStep
<1>3. V => HistoryExact
  BY TermRight DEF HistoryExact
<1>4. QED
  BY <1>1, <1>2, <1>3, PTL DEF PartSpec

-----------------------------------------------------------------------------
\* The line on the screen.  The prompt is at s, behind it some of the line c; o, what
\* is still to be printed, is k backspaces and the rest of c.
Typing(m, c, o, k, s) ==
    LET p == m.pos - k - 1 - s IN
    /\ k \in 0 .. Len(o) /\ s \in E!Cells /\ s + 1 \in E!Cells
    /\ p \in Nat /\ p + Len(o) = k + Len(c)
    /\ \A i \in 1 .. k : o[i] = "back"
    /\ \A i \in k + 1 .. Len(o) : o[i] = c[p - k + i]
    /\ m.screen[s] = "prompt" /\ \A j \in 1 .. p : m.screen[s + j] = c[j]
    /\ c # <<>> => s + 1 + Len(c) < Rows * Cols - 1

Fresh == out = <<"enter">> \/ (out = <<>> /\ LineStart(tty.pos))

Display ==
    /\ Clean(tty)
    /\ pc \in {"prompt", "run"} => Fresh
    /\ pc = "shown" => /\ cmd = <<>>
                       /\ \/ out = <<"prompt">> /\ LineStart(tty.pos)
                          \/ out = <<>> /\ \E s \in Int : Typing(tty, cmd, out, 0, s)
    /\ pc = "listen" => \E k \in Int, s \in Int : Typing(tty, cmd, out, k, s)

\* No line reaches the last cell of the screen, and a row has room for the prompt.
Narrow == ~FillsLastRow /\ Cols >= 2

LEMMA TypedOn ==
  ASSUME NEW m, NEW n, Good(m), NEW c \in Seq(Letter), NEW o \in Seq(Char), NEW k \in Int, NEW s \in Int,
         Typing(m, c, o, k, s), Stays(m, n)
  PROVE  Typing(n, c, o, k, s)
<1> DEFINE p == m.pos - k - 1 - s
<1>1. m.pos \in Int /\ Len(o) \in Nat
  BY TtyIs, CellsAre DEF Good
<1>2. n.pos = m.pos /\ \A i \in E!Cells : i # m.pos => n.screen[i] = m.screen[i]
  BY DEF Stays
<1>3. p \in Nat /\ s \in E!Cells /\ k \in Nat /\ m.pos \in E!Cells
  BY TtyIs DEF Typing, Good
<1>4. n.screen[s] = m.screen[s]
  BY <1>1, <1>2, <1>3
<1>5. ASSUME NEW j \in 1 .. p PROVE n.screen[s + j] = m.screen[s + j]
  <2>1. s + j \in Int /\ s + j < m.pos /\ s + j >= 0
    BY <1>1, <1>3, CellsAre
  <2>2. s + j \in E!Cells
    BY <1>1, <1>3, <2>1, CellsAre
  <2>3. QED
    BY <1>1, <1>2, <2>1, <2>2
<1>6. QED
  BY <1>2, <1>4, <1>5 DEF Typing

LEMMA TypedBack ==
  ASSUME NEW m, Good(m), Clean(m), NEW c \in Seq(Letter), NEW o \in Seq(Char), NEW k \in Int, NEW s \in Int,
         Typing(m, c, o, k, s), k > 0
  PROVE  /\ Clean(E!PrintChar(m, Head(o))) /\ Typing(E!PrintChar(m, Head(o)), c, Tail(o), k - 1, s)
<1> DEFINE p == m.pos - k - 1 - s
           n == E!PrintChar(m, "back")
           t == Tail(o)
<1>1. k \in 0 .. Len(o) /\ s \in E!Cells /\ s + 1 \in E!Cells /\ p \in Nat /\ p + Len(o) = k + Len(c)
  BY DEF Typing
<1>2. /\ \A i \in 1 .. k : o[i] = "back"
      /\ \A i \in k + 1 .. Len(o) : o[i] = c[p - k + i]
      /\ m.screen[s] = "prompt" /\ \A j \in 1 .. p : m.screen[s + j] = c[j]
      /\ c # <<>> => s + 1 + Len(c) < Rows * Cols - 1
  BY DEF Typing
<1>3. /\ m.pos \in E!Cells /\ m.pos \in Int /\ Len(o) \in Nat /\ Len(c) \in Nat /\ s \in Int
      /\ m.pos = s + 1 + p + k
  <2>1. m.pos \in E!Cells /\ m.pos \in Int
    BY TtyIs, CellsAre DEF Good
  <2>2. p = m.pos - k - 1 - s
    OBVIOUS
  <2>3. Len(o) \in Nat /\ Len(c) \in Nat
    OBVIOUS
  <2>4. m.pos = s + 1 + p + k
    <3> HIDE DEF p
    <3>1. p \in Int
      BY <1>1
    <3>2. QED
      BY <2>1, <2>2, <3>1
  <2>5. QED
    BY <1>1, <2>1, <2>3, <2>4
<1> HIDE DEF p
<1>4. Head(o) = "back" /\ t \in Seq(Char) /\ Len(t) = Len(o) - 1 /\ \A i \in 1 .. Len(t) : t[i] = o[i + 1]
  <2>1. o # <<>> /\ Head(o) = o[1]
    BY <1>1, <1>2, <1>3
  <2>2. o[1] = "back"
    BY <1>1, <1>2, <1>3
  <2>3. QED
    BY <2>1, <2>2, HeadTailProperties
<1>5. m.pos - 1 \in E!Cells
  BY <1>1, <1>2, <1>3, CellsAre
<1>6. n.pos = m.pos - 1 /\ Clean(n) /\ \A i \in E!Cells : i < m.pos - 1 => n.screen[i] = m.screen[i]
  BY <1>5, BackPut
<1> HIDE DEF n, t
<1>7. n.pos - (k - 1) - 1 - s = p /\ n.pos - (k - 1) - 1 - s \in Nat /\ k - 1 \in 0 .. Len(t)
  BY <1>1, <1>2, <1>3, <1>4, <1>6
<1>8. n.screen[s] = m.screen[s]
  <2>1. s < m.pos - 1
    BY <1>1, <1>3
  <2>2. QED
    BY <1>1, <1>6, <2>1
<1>9. ASSUME NEW j \in 1 .. p PROVE n.screen[s + j] = m.screen[s + j]
  <2>1. s + j \in Int /\ s + j < m.pos - 1 /\ s + j >= 0
    BY <1>1, <1>2, <1>3, CellsAre
  <2>2. s + j \in E!Cells
    BY <1>1, <1>2, <1>3, <2>1, CellsAre
  <2>3. QED
    BY <1>6, <2>1, <2>2
<1>10. (\A i \in 1 .. k - 1 : t[i] = "back") /\ p + Len(t) = k - 1 + Len(c)
  <2>1. ASSUME NEW i \in 1 .. k - 1 PROVE t[i] = "back"
    <3>1. i \in 1 .. Len(t) /\ i + 1 \in 1 .. k
      BY <1>1, <1>2, <1>3, <1>4
    <3>2. QED
      BY <1>1, <1>2, <1>4, <3>1
  <2>2. QED
    BY <1>1, <1>2, <1>3, <1>4, <2>1
<1>11. ASSUME NEW i \in k - 1 + 1 .. Len(t) PROVE t[i] = c[p - (k - 1) + i]
  <2>1. i + 1 \in k + 1 .. Len(o) /\ i \in 1 .. Len(t) /\ p - (k - 1) + i = p - k + (i + 1)
    BY <1>1, <1>2, <1>3, <1>4
  <2>2. o[i + 1] = c[p - k + (i + 1)]
    BY <1>1, <1>2, <2>1
  <2>3. QED
    BY <1>4, <2>1, <2>2
<1>12. /\ s + 1 \in E!Cells /\ m.screen[s] = "prompt" /\ \A j \in 1 .. p : m.screen[s + j] = c[j]
       /\ c # <<>> => s + 1 + Len(c) < Rows * Cols - 1
  BY <1>1, <1>2
<1>13. Typing(n, c, t, k - 1, s)
  BY <1>1, <1>2, <1>3, <1>7, <1>8, <1>9, <1>10, <1>11, <1>12 DEF Typing, p
<1>14. QED
  BY <1>4, <1>6, <1>13 DEF n, t

LEMMA TypedLetter ==
  ASSUME NEW m, Good(m), Clean(m), NEW c \in Seq(Letter), NEW o \in Seq(Char), NEW s \in Int,
         Typing(m, c, o, 0, s), o # <<>>
  PROVE  /\ Clean(E!PrintChar(m, Head(o))) /\ Typing(E!PrintChar(m, Head(o)), c, Tail(o), 0, s)
<1> DEFINE p == m.pos - 0 - 1 - s
           n == E!PrintChar(m, Head(o))
           t == Tail(o)
<1>1. s \in E!Cells /\ s + 1 \in E!Cells /\ p \in Nat /\ p + Len(o) = 0 + Len(c)
  BY DEF Typing
<1>2. /\ \A i \in 0 + 1 .. Len(o) : o[i] = c[p - 0 + i]
      /\ m.screen[s] = "prompt" /\ \A j \in 1 .. p : m.screen[s + j] = c[j]
      /\ c # <<>> => s + 1 + Len(c) < Rows * Cols - 1
  BY DEF Typing
<1>3. /\ m.pos \in E!Cells /\ m.pos \in Int /\ Len(o) \in Nat /\ Len(o) > 0 /\ Len(c) \in Nat /\ s \in Int
      /\ m.pos = s + 1 + p
  <2>1. m.pos \in E!Cells /\ m.pos \in Int /\ Len(o) \in Nat /\ Len(o) > 0
    BY TtyIs, CellsAre DEF Good
  <2>2. p = m.pos - 0 - 1 - s
    OBVIOUS
  <2>3. Len(o) \in Nat /\ Len(c) \in Nat
    OBVIOUS
  <2>4. m.pos = s + 1 + p
    <3> HIDE DEF p
    <3>1. p \in Int
      BY <1>1
    <3>2. QED
      BY <2>1, <2>2, <3>1
  <2>5. QED
    BY <1>1, <2>1, <2>3, <2>4
<1> HIDE DEF p
<1>4. Head(o) = o[1] /\ t \in Seq(Char) /\ Len(t) = Len(o) - 1 /\ \A i \in 1 .. Len(t) : t[i] = o[i + 1]
  BY HeadTailProperties
<1>5. o[1] = c[p + 1] /\ c[p + 1] \in Letter
  <2>1. p + 1 \in 1 .. Len(c) /\ 1 \in 0 + 1 .. Len(o) /\ p - 0 + 1 = p + 1
    BY <1>1, <1>2, <1>3
  <2>2. o[1] = c[p - 0 + 1]
    BY <1>1, <1>2, <2>1
  <2>3. QED
    BY <2>1, <2>2
<1>6. m.pos + 1 \in E!Cells
  <2>1. c # <<>>
    BY <1>1, <1>2, <1>3
  <2>2. s + 1 + Len(c) < Rows * Cols - 1
    BY <1>1, <1>2, <2>1
  <2>3. QED
    BY <1>1, <1>2, <1>3, <2>2, CellsAre
<1>7. /\ n.pos = m.pos + 1 /\ Clean(n) /\ n.screen[m.pos] = c[p + 1]
      /\ \A i \in E!Cells : i # m.pos => n.screen[i] = m.screen[i]
  BY <1>4, <1>5, <1>6, LetterPut
<1> HIDE DEF n, t
<1>8. n.pos - 0 - 1 - s = p + 1
  BY <1>1, <1>2, <1>3, <1>7
<1>9. n.screen[s] = "prompt"
  <2>1. m.screen[s] = "prompt" /\ s # m.pos
    BY <1>1, <1>2, <1>3
  <2>2. QED
    BY <1>1, <1>2, <1>3, <1>7, <2>1
<1>10. ASSUME NEW j \in 1 .. p + 1 PROVE n.screen[s + j] = c[j]
  <2>1. CASE j = p + 1
    <3>1. s + j = m.pos
      BY <1>1, <1>2, <1>3, <2>1
    <3>2. QED
      BY <1>7, <2>1, <3>1
  <2>2. CASE j # p + 1
    <3>1. s >= 0 /\ m.pos < Rows * Cols /\ Rows * Cols \in Nat
      BY <1>1, <1>3, CellsAre
    <3>2. j \in 1 .. p /\ s + j \in Int /\ s + j < m.pos /\ s + j >= 0
      BY <1>1, <1>3, <2>2, <3>1
    <3>3. s + j \in E!Cells
      BY <1>3, <3>1, <3>2, CellsAre
    <3>4. m.screen[s + j] = c[j]
      BY <1>2, <3>2
    <3>5. QED
      BY <1>3, <1>7, <3>2, <3>3, <3>4
  <2>3. QED
    BY <2>1, <2>2
<1>11. ASSUME NEW i \in 0 + 1 .. Len(t) PROVE t[i] = c[p + 1 - 0 + i]
  <2>1. i + 1 \in 0 + 1 .. Len(o) /\ i \in 1 .. Len(t) /\ p + 1 - 0 + i = p - 0 + (i + 1)
    BY <1>1, <1>2, <1>3, <1>4
  <2>2. o[i + 1] = c[p - 0 + (i + 1)]
    BY <1>1, <1>2, <2>1
  <2>3. QED
    BY <1>4, <2>1, <2>2
<1>12. s + 1 \in E!Cells /\ (c # <<>> => s + 1 + Len(c) < Rows * Cols - 1)
  BY <1>1, <1>2
<1>13. p + 1 \in Nat /\ p + 1 + Len(t) = 0 + Len(c) /\ 0 \in 0 .. Len(t)
  <2>1. Len(t) = Len(o) - 1
    BY <1>4
  <2>2. QED
    BY <1>1, <1>3, <2>1
<1>14. Typing(n, c, t, 0, s)
  <2> DEFINE q == n.pos - 0 - 1 - s
  <2>1. q = p + 1
    BY <1>8
  <2> HIDE DEF q
  <2>2. /\ 0 \in 0 .. Len(t) /\ q \in Nat /\ q + Len(t) = 0 + Len(c) /\ \A j \in 1 .. q : n.screen[s + j] = c[j]
    BY <1>10, <1>13, <2>1
  <2>3. \A i \in 0 + 1 .. Len(t) : t[i] = c[q - 0 + i]
    BY <1>11, <2>1
  <2>4. \A i \in 1 .. 0 : t[i] = "back"
    OBVIOUS
  <2>5. QED
    BY <1>1, <1>9, <1>12, <2>2, <2>3, <2>4 DEF Typing, q
<1>15. QED
  BY <1>7, <1>14 DEF n, t

\* The keys change the line and leave to print what makes the screen follow.
LEMMA TypedKeys ==
  ASSUME Narrow, Roomy, TermInv, Clean(tty), NEW s \in Int, Typing(tty, cmd, <<>>, 0, s), out = <<>>
  PROVE  /\ \A c \in Letter : E!Type(c) => Typing(tty, cmd', out', 0, s)
         /\ E!Backspace => Typing(tty, cmd', out', 1, s)
         /\ \A l \in 0 .. HistLines - 1 : E!Arrow(l) => Typing(tty, cmd', out', Len(cmd), s)
<1> DEFINE p == tty.pos - 0 - 1 - s
<1>1. s \in E!Cells /\ s + 1 \in E!Cells /\ p \in Nat /\ p + Len(<<>>) = 0 + Len(cmd)
  BY DEF Typing
<1>2. /\ tty.screen[s] = "prompt" /\ \A j \in 1 .. p : tty.screen[s + j] = cmd[j]
  BY DEF Typing
<1>3. cmd \in Seq(Letter) /\ Len(cmd) \in Nat /\ p = Len(cmd) /\ tty.pos \in Int /\ tty.pos = s + 1 + Len(cmd)
  <2>1. cmd \in Seq(Letter) /\ tty.pos \in E!Cells
    BY TtyIs DEF TermInv, ShellKept, Good, History, Lines
  <2>2. tty.pos \in Int /\ Len(cmd) \in Nat
    BY <2>1, CellsAre
  <2>3. p = tty.pos - 0 - 1 - s /\ Len(<<>>) = 0
    OBVIOUS
  <2>4. p = Len(cmd)
    <3> HIDE DEF p
    <3> QED
      BY <1>1, <2>2, <2>3
  <2>5. tty.pos = s + 1 + Len(cmd)
    BY <2>2, <2>4
  <2>6. QED
    BY <2>1, <2>2, <2>4, <2>5
<1> HIDE DEF p
<1>4. Rows * Cols \in Int /\ ~FillsLastRow
  BY CellsAre DEF Narrow
<1>5. ASSUME NEW c \in Letter, E!Type(c) PROVE Typing(tty, cmd', out', 0, s)
  <2>1. cmd' = Append(cmd, c) /\ out' = <<c>> /\ tty.pos - Len(cmd) + Len(Append(cmd, c)) < Rows * Cols - 1
    BY <1>4, <1>5 DEF E!Type, E!Fits
  <2>2. /\ Len(cmd') = Len(cmd) + 1 /\ cmd'[Len(cmd) + 1] = c /\ \A j \in 1 .. Len(cmd) : cmd'[j] = cmd[j]
        /\ Len(out') = 1 /\ out'[1] = c
    BY <1>3, <2>1
  <2>3. s + 1 + Len(cmd') < Rows * Cols - 1
    BY <1>3, <1>4, <2>1, <2>2
  <2>4. tty.pos - 0 - 1 - s = Len(cmd)
    BY <1>3
  <2>5. \A i \in 0 + 1 .. Len(out') : out'[i] = cmd'[Len(cmd) - 0 + i]
    <3>1. SUFFICES ASSUME NEW i \in 0 + 1 .. Len(out') PROVE out'[i] = cmd'[Len(cmd) - 0 + i]
      OBVIOUS
    <3>2. i = 1 /\ Len(cmd) - 0 + i = Len(cmd) + 1
      BY <1>3, <2>2, <3>1
    <3>3. QED
      BY <2>2, <3>2
  <2>6. \A j \in 1 .. Len(cmd) : tty.screen[s + j] = cmd'[j]
    BY <1>2, <1>3, <2>2
  <2>7. 0 \in 0 .. Len(out') /\ Len(cmd) \in Nat /\ Len(cmd) + Len(out') = 0 + Len(cmd')
    BY <1>3, <2>2
  <2>8. \A i \in 1 .. 0 : out'[i] = "back"
    OBVIOUS
  <2>9. QED
    BY <1>1, <1>2, <2>3, <2>4, <2>5, <2>6, <2>7, <2>8 DEF Typing
<1>6. ASSUME E!Backspace PROVE Typing(tty, cmd', out', 1, s)
  <2>1. cmd' = SubSeq(cmd, 1, Len(cmd) - 1) /\ out' = <<"back">> /\ cmd # <<>>
    BY <1>6 DEF E!Backspace, E!Front
  <2>2. /\ Len(cmd') = Len(cmd) - 1 /\ \A j \in 1 .. Len(cmd) - 1 : cmd'[j] = cmd[j]
        /\ Len(out') = 1 /\ out'[1] = "back" /\ Len(cmd) - 1 \in Nat
    BY <1>3, <2>1
  <2>3. cmd' # <<>> => s + 1 + Len(cmd') < Rows * Cols - 1
    <3>1. s + 1 + Len(cmd) < Rows * Cols - 1
      BY <2>1 DEF Typing
    <3>2. QED
      BY <1>3, <1>4, <2>2, <3>1
  <2>4. tty.pos - 1 - 1 - s = Len(cmd) - 1
    BY <1>3
  <2>5. \A i \in 1 + 1 .. Len(out') : out'[i] = cmd'[Len(cmd) - 1 - 1 + i]
    BY <2>2
  <2>6. \A j \in 1 .. Len(cmd) - 1 : tty.screen[s + j] = cmd'[j]
    <3>1. SUFFICES ASSUME NEW j \in 1 .. Len(cmd) - 1 PROVE tty.screen[s + j] = cmd'[j]
      OBVIOUS
    <3>2. j \in 1 .. p
      BY <1>3, <3>1
    <3>3. QED
      BY <1>2, <2>2, <3>2
  <2>7. 1 \in 0 .. Len(out') /\ Len(cmd) - 1 \in Nat /\ Len(cmd) - 1 + Len(out') = 1 + Len(cmd')
    BY <1>3, <2>2
  <2>8. \A i \in 1 .. 1 : out'[i] = "back"
    BY <2>2
  <2>9. QED
    BY <1>1, <1>2, <2>3, <2>4, <2>5, <2>6, <2>7, <2>8 DEF Typing
<1>7. ASSUME NEW l \in 0 .. HistLines - 1, E!Arrow(l) PROVE Typing(tty, cmd', out', Len(cmd), s)
  <2>1. E!Entry(l) \in Lines
    BY EntryLine DEF Roomy, TermInv, ShellKept
  <2>2. /\ cmd' = E!Entry(l) /\ tty.pos - Len(cmd) + Len(E!Entry(l)) < Rows * Cols - 1
        /\ out' = [i \in 1 .. Len(cmd) |-> "back"] \o E!Entry(l)
    BY <1>4, <1>7 DEF E!Arrow, E!Fits
  <2> DEFINE b == [i \in 1 .. Len(cmd) |-> "back"]
             k == Len(cmd)
  <2>3. cmd' \in Seq(Letter) /\ Len(cmd') \in Nat /\ out' = b \o cmd' /\ s + 1 + Len(cmd') < Rows * Cols - 1
    BY <1>3, <1>4, <2>1, <2>2 DEF Lines
  <2>4. b \in Seq({"back"}) /\ Len(b) = k /\ \A i \in 1 .. k : b[i] = "back"
    BY <1>3
  <2>5. k \in Nat
    BY <1>3
  <2> HIDE DEF b
  <2>6. /\ Len(out') = k + Len(cmd') /\ \A i \in 1 .. k : out'[i] = "back"
        /\ \A i \in k + 1 .. k + Len(cmd') : out'[i] = cmd'[i - k]
    <3>1. b \in Seq({"back"} \cup Letter) /\ cmd' \in Seq({"back"} \cup Letter)
      BY <2>3, <2>4
    <3>2. /\ Len(b \o cmd') = Len(b) + Len(cmd')
          /\ \A i \in 1 .. Len(b) + Len(cmd') : (b \o cmd')[i] = IF i <= Len(b) THEN b[i] ELSE cmd'[i - Len(b)]
      BY <3>1
    <3>3. QED
      BY <2>3, <2>4, <2>5, <3>2
  <2>7. tty.pos - k - 1 - s = 0
    BY <1>3
  <2>8. \A i \in k + 1 .. Len(out') : out'[i] = cmd'[0 - k + i]
    <3>1. SUFFICES ASSUME NEW i \in k + 1 .. Len(out') PROVE out'[i] = cmd'[0 - k + i]
      OBVIOUS
    <3>2. i \in k + 1 .. k + Len(cmd') /\ 0 - k + i = i - k
      BY <2>5, <2>6, <3>1
    <3>3. QED
      BY <2>6, <3>2
  <2>9. k \in 0 .. Len(out') /\ 0 \in Nat /\ 0 + Len(out') = k + Len(cmd')
    BY <2>3, <2>5, <2>6
  <2>10. \A j \in 1 .. 0 : tty.screen[s + j] = cmd'[j]
    OBVIOUS
  <2>11. QED
    BY <1>1, <1>2, <2>3, <2>6, <2>7, <2>8, <2>9, <2>10 DEF Typing
<1>8. QED
  BY <1>5, <1>6, <1>7

\* What is shown when nothing is left to print.
LEMMA Shown ==
  ASSUME TermInv, Clean(tty), NEW k \in Int, NEW s \in Int, Typing(tty, cmd, <<>>, k, s)
  PROVE  /\ k = 0 /\ tty.pos - Len(cmd) - 1 = s /\ s >= 0 /\ tty.screen[s] = "prompt"
         /\ \A j \in 1 .. Len(cmd) : tty.screen[s + j] = cmd[j]
<1> DEFINE p == tty.pos - k - 1 - s
<1>1. s \in E!Cells /\ k \in 0 .. Len(<<>>) /\ p \in Nat /\ p + Len(<<>>) = k + Len(cmd)
  BY DEF Typing
<1>2. /\ tty.screen[s] = "prompt" /\ \A j \in 1 .. p : tty.screen[s + j] = cmd[j]
  BY DEF Typing
<1>3. Len(cmd) \in Nat /\ tty.pos \in Int
  <2>1. cmd \in Seq(Letter) /\ tty.pos \in E!Cells
    BY TtyIs DEF TermInv, ShellKept, Good, History, Lines
  <2>2. QED
    BY <2>1, CellsAre
<1>4. Len(<<>>) = 0 /\ p = tty.pos - k - 1 - s
  OBVIOUS
<1> HIDE DEF p
<1>5. k = 0 /\ p = Len(cmd) /\ tty.pos - Len(cmd) - 1 = s
  BY <1>1, <1>3, <1>4
<1>6. QED
  BY <1>1, <1>2, <1>5, CellsAre

LEMMA PromptPut ==
  ASSUME Narrow, NEW m, Good(m), Clean(m), LineStart(m.pos)
  PROVE  LET n == E!PrintChar(m, "prompt") IN Clean(n) /\ Typing(n, <<>>, <<>>, 0, m.pos)
<1> DEFINE n == E!PrintChar(m, "prompt")
<1>1. m.pos \in E!Cells /\ m.pos \in Int /\ Cols >= 2
  BY TtyIs, CellsAre DEF Good, Narrow
<1>2. m.pos + 1 \in E!Cells
  <2>1. PICK r \in 0 .. Rows - 1 : m.pos = r * Cols
    BY DEF LineStart
  <2>2. r * Cols + Cols <= Rows * Cols
    BY Sizes, RowIn
  <2>3. m.pos + Cols <= Rows * Cols
    BY <2>1, <2>2
  <2>4. QED
    BY <1>1, <2>3, Sizes, CellsAre
<1>3. n.screen[m.pos] = "prompt" /\ n.pos = m.pos + 1 /\ Clean(n)
  BY <1>2, LetterPut
<1> HIDE DEF n
<1>4. n.pos - 0 - 1 - m.pos = 0 /\ Len(<<>>) = 0
  BY <1>1, <1>3
<1>5. Typing(n, <<>>, <<>>, 0, m.pos)
  <2> DEFINE q == n.pos - 0 - 1 - m.pos
  <2>1. q = 0
    BY <1>4
  <2> HIDE DEF q
  <2>2. /\ 0 \in 0 .. Len(<<>>) /\ q \in Nat /\ q + Len(<<>>) = 0 + Len(<<>>)
        /\ \A j \in 1 .. q : n.screen[m.pos + j] = <<>>[j]
    BY <1>4, <2>1
  <2>3. (\A i \in 1 .. 0 : <<>>[i] = "back") /\ \A i \in 0 + 1 .. Len(<<>>) : <<>>[i] = <<>>[q - 0 + i]
    BY <1>4
  <2>4. QED
    BY <1>1, <1>2, <1>3, <2>2, <2>3 DEF Typing, q
<1>6. QED
  BY <1>3, <1>5 DEF n

LEMMA DisplayInit == E!Init => Display
<1>1. SUFFICES ASSUME E!Init PROVE Display
  OBVIOUS
<1>2. /\ tty.screen = E!Blank /\ tty.pos = 0 /\ tty.status = 0 /\ pc = "prompt" /\ out = <<>>
  BY <1>1 DEF E!Init
<1>3. 0 \in E!Cells /\ LineStart(0)
  <2>1. 0 \in 0 .. Rows - 1 /\ 0 * Cols = 0
    BY Sizes
  <2>2. 0 * Cols \in 0 .. Rows * Cols - 1
    BY <2>1, Sizes, RowIn
  <2>3. QED
    BY <2>1, <2>2, CellsAre DEF LineStart
<1>4. Clean(tty)
  BY <1>2, <1>3 DEF Clean, E!Blank
<1>5. QED
  BY <1>2, <1>3, <1>4 DEF Display, Fresh

LEMMA DisplayOn ==
  ASSUME TermInv, Display, Stays(tty, tty'), UNCHANGED <<pc, cmd, out>>
  PROVE  Display'
<1>1. Clean(tty') /\ tty'.pos = tty.pos
  BY DEF Display, Stays
<1>2. \A k \in Int, s \in Int : Typing(tty, cmd, out, k, s) => Typing(tty', cmd, out, k, s)
  BY TypedOn DEF TermInv, ShellKept, History, Lines
<1>3. Fresh => Fresh'
  BY <1>1 DEF Fresh
<1>4. pc = "listen" => \E k \in Int, s \in Int : Typing(tty', cmd, out, k, s)
  BY <1>2 DEF Display
<1>5. pc = "shown" => /\ cmd = <<>>
                      /\ \/ out = <<"prompt">> /\ LineStart(tty'.pos)
                         \/ out = <<>> /\ \E s \in Int : Typing(tty', cmd, out, 0, s)
  BY <1>1, <1>2 DEF Display
<1>6. QED
  BY <1>1, <1>3, <1>4, <1>5 DEF Display

LEMMA DisplayPut == Narrow /\ TermInv /\ Display /\ E!PutChar => Display'
<1>1. SUFFICES ASSUME Narrow, TermInv, Display, E!PutChar PROVE Display'
  OBVIOUS
<1>2. tty' = E!PrintChar(tty, Head(out)) /\ out' = Tail(out) /\ out # <<>> /\ pc' = pc /\ cmd' = cmd
  BY <1>1 DEF E!PutChar, E!History
<1>3. /\ Good(tty) /\ Clean(tty) /\ cmd \in Seq(Letter) /\ out \in Seq(Char)
      /\ pc \in {"prompt", "shown", "listen", "run"}
  BY <1>1 DEF TermInv, ShellKept, History, Lines, Display
<1>4. CASE pc \in {"prompt", "run"}
  <2>1. out = <<"enter">>
    BY <1>1, <1>2, <1>4 DEF Display, Fresh
  <2>2. Head(out) = "enter" /\ Tail(out) = <<>>
    BY <2>1
  <2>3. LineStart(tty'.pos) /\ Clean(tty')
    BY <1>2, <1>3, <2>2, EnterPut
  <2>4. QED
    BY <1>2, <1>4, <2>2, <2>3 DEF Display, Fresh
<1>5. CASE pc = "shown"
  <2>1. out = <<"prompt">> /\ LineStart(tty.pos) /\ cmd = <<>>
    BY <1>1, <1>2, <1>5 DEF Display
  <2>2. Head(out) = "prompt" /\ Tail(out) = <<>>
    BY <2>1
  <2>3. Clean(tty') /\ Typing(tty', <<>>, <<>>, 0, tty.pos)
    BY <1>1, <1>2, <1>3, <2>1, <2>2, PromptPut
  <2>4. tty.pos \in Int
    BY <1>3, TtyIs, CellsAre DEF Good
  <2>5. QED
    BY <1>2, <1>5, <2>1, <2>2, <2>3, <2>4 DEF Display
<1>6. CASE pc = "listen"
  <2>1. PICK k \in Int, s \in Int : Typing(tty, cmd, out, k, s)
    BY <1>1, <1>6 DEF Display
  <2>2. k \in Nat
    BY <2>1, <1>3 DEF Typing
  <2>3. Clean(tty') /\ \E h \in Int : Typing(tty', cmd, out', h, s)
    <3>1. CASE k > 0
      <4>1. Clean(tty') /\ Typing(tty', cmd, out', k - 1, s)
        BY <1>2, <1>3, <2>1, <3>1, TypedBack
      <4>2. QED
        BY <4>1
    <3>2. CASE k = 0
      <4>1. Clean(tty') /\ Typing(tty', cmd, out', 0, s)
        BY <1>2, <1>3, <2>1, <3>2, TypedLetter
      <4>2. QED
        BY <4>1
    <3>3. QED
      BY <2>2, <3>1, <3>2
  <2>4. QED
    BY <1>2, <1>6, <2>3 DEF Display
<1>7. QED
  BY <1>3, <1>4, <1>5, <1>6

LEMMA DisplayShell == Narrow /\ Roomy /\ TermInv /\ Display /\ E!Shell => Display'
<1>1. SUFFICES ASSUME Narrow, Roomy, TermInv, Display, E!Shell PROVE Display'
  OBVIOUS
<1>2. /\ Good(tty) /\ Clean(tty) /\ cmd \in Seq(Letter) /\ out \in Seq(Char) /\ MaxFunctions > 3
  BY <1>1 DEF TermInv, ShellKept, History, Lines, Display, Roomy
<1>3. E!Listens => \E s \in Int : Typing(tty, cmd, <<>>, 0, s)
  <2>1. SUFFICES ASSUME E!Listens PROVE \E s \in Int : Typing(tty, cmd, <<>>, 0, s)
    OBVIOUS
  <2>2. PICK k \in Int, s \in Int : Typing(tty, cmd, <<>>, k, s)
    BY <1>1, <2>1 DEF Display, E!Listens
  <2>3. k = 0
    BY <1>1, <1>2, <2>2, Shown
  <2>4. QED
    BY <2>2, <2>3
<1>4. CASE E!Prompt
  <2>1. out = <<>> /\ LineStart(tty.pos)
    BY <1>1, <1>4 DEF E!Prompt, Display, Fresh
  <2>2. pc' = "shown" /\ cmd' = <<>> /\ out' = <<"prompt">> /\ tty' = tty
    BY <1>4 DEF E!Prompt
  <2>3. QED
    BY <1>2, <2>1, <2>2 DEF Display
<1>5. CASE E!Enable
  <2>1. pc = "shown" /\ out = <<>> /\ pc' = "listen" /\ cmd' = cmd /\ out' = out
        /\ tty' = E!SetGraphicCursorStatus(tty, TRUE)
    BY <1>5 DEF E!Enable
  <2>2. PICK s \in Int : Typing(tty, cmd, out, 0, s)
    BY <1>1, <2>1 DEF Display
  <2>3. Stays(tty, tty')
    BY <1>2, <2>1, EnableGood
  <2>4. Clean(tty') /\ Typing(tty', cmd, out, 0, s)
    BY <1>2, <2>2, <2>3, TypedOn DEF Stays
  <2>5. \E k \in Int, r \in Int : Typing(tty', cmd', out', k, r)
    <3>1. cmd' = cmd /\ out' = out
      BY <2>1
    <3>2. \E r \in Int : Typing(tty', cmd', out', 0, r)
      BY <2>4, <3>1
    <3>3. QED
      BY <3>2
  <2>6. QED
    BY <2>1, <2>4, <2>5 DEF Display
<1>6. CASE E!Backspace \/ E!Up \/ E!Down \/ \E c \in Letter : E!Type(c)
  <2>1. E!Backspace \/ (\E c \in Letter : E!Type(c)) \/ \E l \in 0 .. HistLines - 1 : E!Arrow(l)
    <3>1. histAccessIndex \in 0 .. HistLines /\ histSize \in 0 .. HistLines
      BY <1>1 DEF TermInv, ShellKept, History
    <3>2. CASE E!Up
      <4> DEFINE l == IF histAccessIndex > 0 THEN histAccessIndex - 1 ELSE IF histSize > 0 THEN histSize - 1 ELSE 0
      <4>1. l \in 0 .. HistLines - 1
        BY <3>1, Sizes
      <4>2. E!Arrow(l)
        BY <3>2 DEF E!Up
      <4> HIDE DEF l
      <4>3. QED
        BY <4>1, <4>2
    <3>3. CASE E!Down
      <4> DEFINE l == IF histAccessIndex < histSize - 1 THEN histAccessIndex + 1 ELSE 0
      <4>1. l \in 0 .. HistLines - 1
        BY <3>1, Sizes
      <4>2. E!Arrow(l)
        BY <3>3 DEF E!Down
      <4> HIDE DEF l
      <4>3. QED
        BY <4>1, <4>2
    <3>4. QED
      BY <1>6, <3>2, <3>3
  <2>2. E!Listens /\ tty' = tty /\ pc' = pc
    BY <2>1 DEF E!Backspace, E!Type, E!Arrow
  <2>3. PICK s \in Int : Typing(tty, cmd, <<>>, 0, s)
    BY <1>3, <2>2
  <2>4. \E k \in Int : Typing(tty, cmd', out', k, s)
    <3>1. out = <<>> /\ Len(cmd) \in Int
      BY <1>2, <2>2 DEF E!Listens
    <3>2. /\ \A c \in Letter : E!Type(c) => Typing(tty, cmd', out', 0, s)
          /\ E!Backspace => Typing(tty, cmd', out', 1, s)
          /\ \A l \in 0 .. HistLines - 1 : E!Arrow(l) => Typing(tty, cmd', out', Len(cmd), s)
      BY <1>1, <1>2, <2>3, <3>1, TypedKeys
    <3>3. QED
      BY <2>1, <3>1, <3>2
  <2>5. QED
    BY <1>2, <2>2, <2>4 DEF Display, E!Listens
<1>7. CASE E!Enter
  <2>1. tty' = E!SetGraphicCursorStatus(tty, FALSE) /\ pc' = "run" /\ out' = <<"enter">>
    BY <1>7 DEF E!Enter
  <2>2. Stays(tty, tty')
    BY <1>2, <2>1, EnableGood
  <2>3. QED
    BY <1>2, <2>1, <2>2 DEF Display, Fresh, Stays
<1>8. CASE E!Run
  <2>1. pc = "run" /\ out = <<>> /\ pc' = "prompt"
    BY <1>8 DEF E!Run
  <2>2. LineStart(tty.pos)
    BY <1>1, <2>1 DEF Display, Fresh
  <2>3. \/ out' = <<>> /\ tty' = tty
        \/ out' = <<"enter">> /\ tty' = tty
        \/ out' = <<>> /\ tty' = E!ClearScreen(tty)
    BY <1>8, <2>1 DEF E!Run
  <2>4. LineStart(E!ClearScreen(tty).pos) /\ Clean(E!ClearScreen(tty))
    BY <1>2, ClearPut
  <2>5. Clean(tty') /\ Fresh'
    BY <1>2, <2>2, <2>3, <2>4 DEF Fresh
  <2>6. QED
    BY <2>1, <2>5 DEF Display
<1>9. CASE E!PutChar
  BY <1>1, <1>9, DisplayPut
<1>10. QED
  BY <1>1, <1>4, <1>5, <1>6, <1>7, <1>8, <1>9 DEF E!Shell

LEMMA DisplayStep == Narrow /\ Roomy /\ TermInv /\ Display /\ [E!Next]_terminal => Display'
<1>1. SUFFICES ASSUME Narrow, Roomy, TermInv, Display, [E!Next]_terminal PROVE Display'
  OBVIOUS
<1>2. CASE E!Shell
  BY <1>1, <1>2, DisplayShell
<1>3. CASE (E!Programs /\ UNCHANGED <<timerSkip, forced, E!shell>>) \/ E!RealTick \/ E!SoftTick \/ E!NoTimer
  <2>1. Stays(tty, tty')
    BY <1>1, <1>3, OutsideGood DEF TermInv, ShellKept
  <2>2. UNCHANGED E!shell
    BY <1>3 DEF E!RealTick, E!SoftTick, E!NoTimer
  <2>3. QED
    BY <1>1, <2>1, <2>2, DisplayOn DEF E!shell
<1>4. CASE UNCHANGED terminal
  <2>1. Stays(tty, tty') /\ UNCHANGED <<pc, cmd, out>>
    BY <1>4, Still DEF terminal
  <2>2. QED
    BY <1>1, <2>1, DisplayOn
<1>5. QED
  BY <1>1, <1>2, <1>3, <1>4 DEF E!Next

LEMMA DisplayRight == TermInv /\ Display => E!LineShown
<1>1. SUFFICES ASSUME TermInv, Display PROVE E!LineShown
  OBVIOUS
<1>2. /\ tty.pos \in E!Cells /\ tty.pos \in Int /\ cmd \in Seq(Letter) /\ Len(cmd) \in Nat /\ Clean(tty)
      /\ tty.screen \in [E!Cells -> Sign]
  BY <1>1, TtyIs, CellsAre DEF TermInv, ShellKept, Good, History, Lines, Display
<1>3. E!NoGhost
  BY <1>2 DEF Clean, E!NoGhost
<1>4. ASSUME E!Listens
      PROVE  LET start == tty.pos - Len(cmd) - 1
             IN  /\ start >= 0
                 /\ <<"prompt">> \o cmd = [i \in 1 .. Len(cmd) + 1 |-> tty.screen[start + i - 1]]
                 /\ \A i \in tty.pos .. Rows * Cols - 1 : tty.screen[i] \in {" ", "block"}
  <2>1. PICK k \in Int, s \in Int : Typing(tty, cmd, <<>>, k, s)
    BY <1>1, <1>4 DEF Display, E!Listens
  <2>2. /\ tty.pos - Len(cmd) - 1 = s /\ s >= 0 /\ tty.screen[s] = "prompt"
        /\ \A j \in 1 .. Len(cmd) : tty.screen[s + j] = cmd[j]
    BY <1>1, <1>2, <2>1, Shown
  <2>3. \A i \in tty.pos .. Rows * Cols - 1 : tty.screen[i] \in {" ", "block"}
    <3>1. SUFFICES ASSUME NEW i \in tty.pos .. Rows * Cols - 1 PROVE tty.screen[i] \in {" ", "block"}
      OBVIOUS
    <3>2. i \in E!Cells /\ (i = tty.pos \/ i > tty.pos)
      BY <1>2, <3>1, CellsAre
    <3>3. QED
      BY <1>2, <3>2 DEF Clean
  <2> DEFINE q == <<"prompt">> \o cmd
  <2>4. /\ q \in Seq({"prompt"} \cup Letter) /\ Len(q) = Len(cmd) + 1 /\ q[1] = "prompt"
        /\ \A j \in 1 .. Len(cmd) : q[j + 1] = cmd[j]
    <3>1. <<"prompt">> \in Seq({"prompt"} \cup Letter) /\ cmd \in Seq({"prompt"} \cup Letter) /\ Len(<<"prompt">>) = 1
      BY <1>2
    <3>2. /\ q \in Seq({"prompt"} \cup Letter) /\ Len(q) = 1 + Len(cmd)
          /\ \A i \in 1 .. 1 + Len(cmd) : q[i] = IF i <= 1 THEN <<"prompt">>[i] ELSE cmd[i - 1]
      BY <3>1
    <3>3. QED
      BY <1>2, <3>2
  <2> HIDE DEF q
  <2>5. q = [i \in 1 .. Len(cmd) + 1 |-> tty.screen[s + i - 1]]
    <3>1. DOMAIN q = 1 .. Len(cmd) + 1 /\ q = [i \in DOMAIN q |-> q[i]]
      BY <1>2, <2>4
    <3>2. ASSUME NEW i \in 1 .. Len(cmd) + 1 PROVE q[i] = tty.screen[s + i - 1]
      <4>1. CASE i = 1
        <5>1. s + i - 1 = s
          BY <4>1
        <5>2. QED
          BY <2>2, <2>4, <4>1, <5>1
      <4>2. CASE i # 1
        <5>1. i - 1 \in 1 .. Len(cmd) /\ s + i - 1 = s + (i - 1) /\ i = i - 1 + 1
          BY <1>2, <4>2
        <5>2. q[i - 1 + 1] = cmd[i - 1] /\ tty.screen[s + (i - 1)] = cmd[i - 1]
          BY <2>2, <2>4, <5>1
        <5>3. QED
          BY <5>1, <5>2
      <4>3. QED
        BY <4>1, <4>2
    <3>3. QED
      BY <3>1, <3>2
  <2>6. QED
    BY <2>2, <2>3, <2>5 DEF q
<1>5. QED
  BY <1>3, <1>4 DEF E!LineShown

\* commandListener: the screen shows the line that Enter will run, and nothing else
\* behind the prompt, whatever keys, ticks and other programs' calls come in between.
THEOREM LineRight == Narrow /\ Roomy /\ PartSpec => []LineShown
<1> SUFFICES ASSUME Narrow, Roomy PROVE PartSpec => []LineShown
  OBVIOUS
<1> DEFINE V == part = "terminal" => TermInv /\ Display
<1>1. PartInit => V
  BY TermInit, DisplayInit DEF PartInit, Begin
<1>2. V /\ [PartNext]_partVars => V'
  <2>1. SUFFICES ASSUME V, [PartNext]_partVars, part' = "terminal" PROVE TermInv' /\ Display'
    OBVIOUS
  <2>2. part = "terminal" /\ [E!Next]_terminal
    BY <2>1 DEF PartNext, partVars
  <2>3. QED
    BY <2>1, <2>2, TermStep, DisplayStep
<1>3. V => LineShown
  BY DisplayRight DEF LineShown
<1>4. QED
  BY <1>1, <1>2, <1>3, PTL DEF PartSpec

-----------------------------------------------------------------------------
(* The keyboard, the table of commands and the digital clock.              *)

\* Each flag says whether its keys are down; of the control keys one is, at most.
KeyInv ==
    /\ down \subseteq K!Modifier /\ caps \in BOOLEAN
    /\ ctrl \in {0, 1} /\ lshift \in {0, 1} /\ rshift \in {0, 1} /\ blockm \in {0, 1}
    /\ ctrl = 1 <=> "lctrl" \in down \/ "rctrl" \in down
    /\ ~ ("lctrl" \in down /\ "rctrl" \in down)
    /\ lshift = 1 <=> "lshift" \in down
    /\ rshift = 1 <=> "rshift" \in down
    /\ blockm = 1 <=> caps = TRUE
    /\ K!TypedExact

LEMMA KeyStep == ~BothCtrl /\ KeyInv /\ [K!Next]_keyboard => KeyInv'
<1>1. SUFFICES ASSUME ~BothCtrl, KeyInv, [K!Next]_keyboard PROVE KeyInv'
  OBVIOUS
<1>2. ASSUME NEW m \in K!Modifier, K!Press(m) PROVE KeyInv'
  <2>1. output' = K!None /\ down' = down \cup {m} /\ UNCHANGED <<blockm, caps>>
    BY <1>2 DEF K!Press, K!Flags
  <2>2. m \in {"lctrl", "rctrl"} => down \cap {"lctrl", "rctrl"} \subseteq {m}
    BY <1>1, <1>2 DEF K!Press
  <2>3. /\ ctrl' = (IF m \in {"lctrl", "rctrl"} THEN 1 ELSE ctrl)
        /\ lshift' = (IF m = "lshift" THEN 1 ELSE lshift) /\ rshift' = (IF m = "rshift" THEN 1 ELSE rshift)
    BY <1>2 DEF K!Press, K!Flags
  <2>4. QED
    BY <1>1, <2>1, <2>2, <2>3 DEF KeyInv, K!TypedExact, K!Modifier
<1>3. ASSUME NEW m \in K!Modifier, K!Release(m) PROVE KeyInv'
  <2>1. output' = K!None /\ m \in down /\ down' = down \ {m} /\ UNCHANGED <<blockm, caps>>
    BY <1>3 DEF K!Release, K!Flags
  <2>2. /\ ctrl' = (IF m \in {"lctrl", "rctrl"} THEN 0 ELSE ctrl)
        /\ lshift' = (IF m = "lshift" THEN 0 ELSE lshift) /\ rshift' = (IF m = "rshift" THEN 0 ELSE rshift)
    BY <1>3 DEF K!Release, K!Flags
  <2>3. K!TypedExact' /\ down' \subseteq K!Modifier /\ ~ ("lctrl" \in down' /\ "rctrl" \in down')
    BY <1>1, <2>1 DEF KeyInv, K!TypedExact
  <2>4. /\ lshift' = 1 <=> "lshift" \in down'
        /\ rshift' = 1 <=> "rshift" \in down'
        /\ ctrl' = 1 <=> "lctrl" \in down' \/ "rctrl" \in down'
    BY <1>1, <2>1, <2>2 DEF KeyInv, K!Modifier
  <2>5. ctrl' \in {0, 1} /\ lshift' \in {0, 1} /\ rshift' \in {0, 1}
    BY <1>1, <2>2 DEF KeyInv
  <2>6. QED
    BY <1>1, <2>1, <2>3, <2>4, <2>5 DEF KeyInv
<1>4. CASE K!CapsLock
  <2>1. blockm' = 1 - blockm /\ caps' = ~ caps /\ output' = K!None /\ UNCHANGED <<ctrl, lshift, rshift, down>>
    BY <1>4 DEF K!CapsLock
  <2>2. blockm \in {0, 1} /\ caps \in BOOLEAN /\ (blockm = 1 <=> caps = TRUE)
    BY <1>1 DEF KeyInv
  <2>3. caps' \in BOOLEAN /\ (caps' = TRUE <=> caps = FALSE)
    BY <2>1, <2>2, Zenon
  <2>4. blockm' \in {0, 1} /\ (blockm' = 1 <=> blockm = 0)
    BY <2>1, <2>2
  <2>5. blockm' = 1 <=> caps' = TRUE
    BY <2>2, <2>3, <2>4
  <2>6. K!TypedExact'
    BY <2>1 DEF K!TypedExact
  <2>7. QED
    BY <1>1, <2>1, <2>3, <2>4, <2>5, <2>6 DEF KeyInv
<1>5. ASSUME NEW k \in Key \cup Symbol, K!Type(k) PROVE KeyInv'
  <2>1. /\ output' = (IF ctrl = 1 /\ k = "c" THEN K!CtrlC ELSE [key |-> k, level |-> K!Level(k)])
        /\ UNCHANGED <<ctrl, lshift, rshift, blockm, down, caps>>
    BY <1>5 DEF K!Type
  <2>2. k # "kill"
    BY DataAssumption DEF K!KeyboardAssumption
  <2> DEFINE shift == down \cap {"lshift", "rshift"} # {}
             control == down \cap {"lctrl", "rctrl"} # {}
  <2>3. (ctrl = 1 <=> control) /\ (lshift = 1 \/ rshift = 1 <=> shift)
    BY <1>1 DEF KeyInv
  <2>4. (K!Level(k) = 1 <=> IF k \in Key THEN shift # caps ELSE shift)
    <3>1. (blockm = 1 <=> caps = TRUE) /\ caps \in BOOLEAN
      BY <1>1 DEF KeyInv
    <3> HIDE DEF shift, control
    <3>2. shift \in BOOLEAN
      BY DEF shift
    <3>3. K!Level(k) = IF shift THEN (IF blockm = 1 /\ k \in Key THEN 0 ELSE 1)
                                ELSE IF blockm = 1 /\ k \in Key THEN 1 ELSE 0
      BY <2>3 DEF K!Level
    <3>4. CASE caps = TRUE
      <4>1. blockm = 1 /\ (shift # caps <=> ~ shift)
        BY <3>1, <3>2, <3>4
      <4>2. QED
        BY <3>3, <4>1
    <3>5. CASE caps = FALSE
      <4>1. blockm # 1 /\ (shift # caps <=> shift)
        BY <3>1, <3>2, <3>5
      <4>2. QED
        BY <3>3, <4>1
    <3>6. QED
      BY <3>1, <3>4, <3>5
  <2>5. K!TypedExact'
    <3>1. CASE ctrl = 1 /\ k = "c"
      BY <2>1, <2>3, <3>1 DEF K!TypedExact, K!CtrlC
    <3>2. CASE ~ (ctrl = 1 /\ k = "c")
      <4>1. output'.key = k /\ output'.level = K!Level(k) /\ output' # K!CtrlC
        BY <2>1, <2>2, <3>2 DEF K!CtrlC
      <4> HIDE DEF shift, control
      <4>2. (output'.level = 1 <=> IF output'.key \in Key THEN shift # caps ELSE shift) /\ ~ (control /\ output'.key = "c")
        BY <2>3, <2>4, <3>2, <4>1
      <4>3. QED
        BY <2>1, <4>1, <4>2 DEF K!TypedExact, shift, control
    <3>3. QED
      BY <3>1, <3>2
  <2>6. QED
    BY <1>1, <2>1, <2>5 DEF KeyInv
<1>6. CASE UNCHANGED keyboard
  BY <1>1, <1>6 DEF KeyInv, K!TypedExact, keyboard
<1>7. QED
  BY <1>1, <1>2, <1>3, <1>4, <1>5, <1>6 DEF K!Next

\* kb_fetch: every key gives the character of the modifiers that are down, as long as the
\* two control keys are not held at once.
THEOREM TypedRight == ~BothCtrl /\ PartSpec => [](part = "keyboard" => K!TypedExact)
<1> SUFFICES ASSUME ~BothCtrl PROVE PartSpec => [](part = "keyboard" => K!TypedExact)
  OBVIOUS
<1>1. PartInit => KeyInv
  <2>1. K!Init => KeyInv
    <3>1. SUFFICES ASSUME K!Init PROVE KeyInv
      OBVIOUS
    <3>2. ctrl = 0 /\ lshift = 0 /\ rshift = 0 /\ blockm = 0 /\ down = {} /\ caps = FALSE /\ output = K!None
      BY <3>1 DEF K!Init
    <3>3. K!TypedExact
      BY <3>2 DEF K!TypedExact
    <3>4. caps \in BOOLEAN /\ ~ (caps = TRUE)
      BY <3>2, Zenon
    <3>5. QED
      BY <3>2, <3>3, <3>4 DEF KeyInv
  <2>2. QED
    BY <2>1 DEF PartInit, Begin
<1>2. [PartNext]_partVars => [K!Next]_keyboard
  BY DEF PartNext, partVars, keyboard
<1>3. KeyInv /\ [PartNext]_partVars => KeyInv'
  BY <1>2, KeyStep
<1>4. KeyInv => (part = "keyboard" => K!TypedExact)
  BY DEF KeyInv
<1>5. QED
  BY <1>1, <1>3, <1>4, PTL DEF PartSpec

-----------------------------------------------------------------------------
\* The clock's frequency and the way it goes from there, while no kill has come between
\* the two; who draws.
Tuned ==
    /\ D!InTable(currFreq) /\ step \in {1, -1}
    /\ D!InTable(heard)
    /\ main # "turn" /\ step = 1 => currFreq < CantFreq - 1
    /\ main # "turn" /\ step = -1 => currFreq > 0
    /\ main = "turn" /\ step = 1 => currFreq > 0
    /\ main = "turn" /\ step = -1 => currFreq < CantFreq - 1

ClockInv ==
    /\ main \in {"off", "draw", "set", "print", "drawn", "keys", "beep", "turn"}
    /\ timer \in {"none", "sleeps", "set", "print"} /\ isDrawing \in {0, 1}
    /\ "turn" \notin struck => Tuned
    /\ D!ClockRight

\* A step that leaves the tune alone and sets the flag for one that prints.
LEMMA ClockDraws ==
    ASSUME ClockInv, UNCHANGED <<currFreq, step, currColor, heard, struck>>, main # "turn", main' # "turn",
           main' \in {"off", "draw", "set", "print", "drawn", "keys", "beep"},
           timer' \in {"none", "sleeps", "set", "print"}, isDrawing' \in {0, 1},
           "draw" \notin struck /\ isDrawing' = 1 => "print" \in {main', timer'}
    PROVE  ClockInv'
BY DEF ClockInv, Tuned, D!ClockRight, D!InTable

LEMMA ClockStep == ClockInv /\ [D!Next]_clock => ClockInv'
<1>1. SUFFICES ASSUME ClockInv, [D!Next]_clock PROVE ClockInv'
  OBVIOUS
<1>2. CantColors \in Nat \ {0} /\ CantFreq \in Nat /\ CantFreq > 1
  BY DataAssumption DEF D!DigitalClockAssumption
<1>3. CASE D!MainDraws
  <2>1. /\ UNCHANGED <<timer, currFreq, step, currColor, heard, struck>>
        /\ main' \in {"set", "print", "drawn"}
    BY <1>3 DEF D!MainDraws, D!tune
  <2>2. \/ main = "draw" /\ isDrawing' = isDrawing /\ (isDrawing = 1 => main' = "drawn") /\ main' # "print"
        \/ main = "set" /\ main' = "print" /\ isDrawing' = 1
        \/ main = "print" /\ main' = "drawn" /\ isDrawing' = 0
    BY <1>3 DEF D!MainDraws, D!DrawMe
  <2>3. isDrawing' \in {0, 1} /\ ("draw" \notin struck /\ isDrawing' = 1 => "print" \in {main', timer'})
    BY <1>1, <2>1, <2>2 DEF ClockInv, D!ClockRight
  <2>4. timer' \in {"none", "sleeps", "set", "print"} /\ main # "turn"
    BY <1>1, <2>1, <2>2 DEF ClockInv
  <2>5. QED
    BY <1>1, <2>1, <2>3, <2>4, ClockDraws
<1>4. CASE D!TimerDraws
  <2>1. /\ UNCHANGED <<main, currFreq, step, currColor, heard, struck>>
        /\ timer' \in {"set", "print", "sleeps"}
    BY <1>4 DEF D!TimerDraws, D!tune
  <2>2. \/ timer = "sleeps" /\ isDrawing' = isDrawing
        \/ timer = "set" /\ timer' = "print" /\ isDrawing' = 1
        \/ timer = "print" /\ timer' = "sleeps" /\ isDrawing' = 0
    BY <1>4 DEF D!TimerDraws, D!DrawMe
  <2>3. isDrawing' \in {0, 1} /\ ("draw" \notin struck' /\ isDrawing' = 1 => "print" \in {main', timer'})
    BY <1>1, <2>1, <2>2 DEF ClockInv, D!ClockRight
  <2>4. Tuned' <=> Tuned
    BY <2>1 DEF Tuned, D!InTable
  <2>5. QED
    BY <1>1, <2>1, <2>3, <2>4 DEF ClockInv, D!ClockRight, D!InTable
<1>5. CASE D!Start \/ D!Listen
  <2>1. /\ UNCHANGED <<isDrawing, currFreq, step, currColor, heard, struck>>
        /\ main \in {"off", "drawn"} /\ main' \in {"draw", "keys"}
        /\ timer' = timer \/ (timer = "none" /\ timer' = "sleeps")
    BY <1>5 DEF D!Start, D!Listen, D!tune
  <2>2. isDrawing' \in {0, 1} /\ ("draw" \notin struck /\ isDrawing' = 1 => "print" \in {main', timer'})
    BY <1>1, <2>1 DEF ClockInv, D!ClockRight
  <2>3. timer' \in {"none", "sleeps", "set", "print"}
    BY <1>1, <2>1 DEF ClockInv
  <2>4. QED
    BY <1>1, <2>1, <2>2, <2>3, ClockDraws
<1>6. CASE D!Enter
  <2>1. /\ main = "keys" /\ main' = "beep" /\ UNCHANGED <<timer, isDrawing, currFreq, step, heard, struck>>
        /\ currColor' = (IF currColor < CantColors - 1 THEN currColor + 1 ELSE 0)
    BY <1>6 DEF D!Enter
  <2>2. currColor' \in 0 .. CantColors - 1
    BY <1>1, <1>2, <2>1 DEF ClockInv, D!ClockRight
  <2>3. Tuned => Tuned'
    BY <2>1 DEF Tuned, D!InTable
  <2>4. QED
    BY <1>1, <2>1, <2>2, <2>3 DEF ClockInv, D!ClockRight, D!InTable
<1>7. CASE D!Beep
  <2>1. /\ main = "beep" /\ main' = "turn" /\ UNCHANGED <<timer, isDrawing, step, currColor, struck>>
        /\ heard' = currFreq /\ currFreq' = currFreq + step
    BY <1>7 DEF D!Beep
  <2>2. ASSUME Tuned PROVE Tuned'
    <3>1. /\ currFreq \in 0 .. CantFreq - 1
          /\ (step = 1 /\ currFreq < CantFreq - 1) \/ (step = -1 /\ currFreq > 0)
      BY <2>1, <2>2 DEF Tuned, D!InTable
    <3>2. CASE step = 1 /\ currFreq < CantFreq - 1
      BY <1>2, <2>1, <3>1, <3>2 DEF Tuned, D!InTable
    <3>3. CASE step = -1 /\ currFreq > 0
      <4>1. currFreq' = currFreq - 1
        BY <2>1, <3>1, <3>3
      <4>2. QED
        BY <1>2, <2>1, <3>1, <3>3, <4>1 DEF Tuned, D!InTable
    <3>4. QED
      BY <3>1, <3>2, <3>3
  <2>3. Tuned' => D!InTable(heard')
    BY DEF Tuned
  <2>4. QED
    BY <1>1, <2>1, <2>2, <2>3 DEF ClockInv, D!ClockRight, D!InTable
<1>8. CASE D!Turn
  <2>1. /\ main = "turn" /\ main' = "draw" /\ UNCHANGED <<timer, isDrawing, currFreq, currColor, heard, struck>>
        /\ step' = (IF currFreq = 0 \/ currFreq = CantFreq - 1 THEN -step ELSE step)
    BY <1>8 DEF D!Turn, D!Turns
  <2>2. ASSUME Tuned PROVE Tuned'
    <3>1. /\ currFreq \in 0 .. CantFreq - 1 /\ step \in {1, -1}
          /\ step = 1 => currFreq > 0
          /\ step = -1 => currFreq < CantFreq - 1
      BY <2>1, <2>2 DEF Tuned, D!InTable
    <3>2. -step \in {1, -1} /\ (step = 1 => -step = -1) /\ (step = -1 => -step = 1)
      <4>1. CASE step = 1
        BY <4>1
      <4>2. CASE step = -1
        <5>1. step \in Int /\ step + 1 = 0
          BY <4>2
        <5>2. -step = 1
          BY <5>1
        <5>3. QED
          BY <4>2, <5>2
      <4>3. QED
        BY <3>1, <4>1, <4>2
    <3>3. step' \in {1, -1} /\ (step' = 1 => currFreq' < CantFreq - 1) /\ (step' = -1 => currFreq' > 0)
      <4>1. CASE currFreq = 0 \/ currFreq = CantFreq - 1
        BY <1>2, <2>1, <3>1, <3>2, <4>1
      <4>2. CASE currFreq # 0 /\ currFreq # CantFreq - 1
        BY <1>2, <2>1, <3>1, <4>2
      <4>3. QED
        BY <4>1, <4>2
    <3>4. QED
      BY <2>1, <2>2, <3>3 DEF Tuned, D!InTable
  <2>3. QED
    BY <1>1, <2>1, <2>2 DEF ClockInv, D!ClockRight, D!InTable
<1>9. CASE D!Escape \/ D!Interrupt
  <2>1. /\ main' = "off" /\ timer' = "none" /\ UNCHANGED <<isDrawing, currFreq, step, currColor, heard>>
        /\ struck \subseteq struck'
        /\ "print" \in {main, timer} => "draw" \in struck'
        /\ main = "turn" /\ (currFreq = 0 \/ currFreq = CantFreq - 1) => "turn" \in struck'
    BY <1>9 DEF D!Escape, D!Interrupt, D!End, D!Turns
  <2>2. "turn" \notin struck' => Tuned'
    <3>1. SUFFICES ASSUME "turn" \notin struck' PROVE Tuned'
      OBVIOUS
    <3>2. Tuned /\ ~ (main = "turn" /\ (currFreq = 0 \/ currFreq = CantFreq - 1))
      BY <1>1, <2>1, <3>1 DEF ClockInv
    <3>3. currFreq \in 0 .. CantFreq - 1 /\ (step = 1 => currFreq < CantFreq - 1)
          /\ (step = -1 => currFreq > 0)
      BY <1>2, <3>2 DEF Tuned, D!InTable
    <3>4. QED
      BY <2>1, <3>2, <3>3 DEF Tuned, D!InTable
  <2>3. "turn" \notin struck' => D!InTable(heard')
    BY <2>2 DEF Tuned
  <2>4. QED
    BY <1>1, <2>1, <2>2, <2>3 DEF ClockInv, D!ClockRight
<1>10. CASE UNCHANGED clock
  <2>1. UNCHANGED <<main, timer, isDrawing, currFreq, step, currColor, heard, struck>>
    BY <1>10 DEF clock
  <2>2. QED
    BY <1>1, <2>1 DEF ClockInv, Tuned, D!ClockRight, D!InTable
<1>11. QED
  BY <1>1, <1>3, <1>4, <1>5, <1>6, <1>7, <1>8, <1>9, <1>10 DEF D!Next

\* digitalClock: however many runs, keys and kills, every text has a colour; every beep has a
\* frequency unless a kill came between a step and its turn, and the flag is up only while
\* a thread draws, unless one ended with it.
THEOREM ClockGoesOn == PartSpec => [](part = "clock" => D!ClockRight)
<1>1. PartInit => ClockInv
  <2>1. CantColors \in Nat \ {0} /\ CantFreq \in Nat /\ CantFreq > 1
    BY DataAssumption DEF D!DigitalClockAssumption
  <2>2. QED
    BY <2>1 DEF PartInit, Begin, D!Init, ClockInv, Tuned, D!ClockRight, D!InTable
<1>2. [PartNext]_partVars => [D!Next]_clock
  BY DEF PartNext, partVars, clock
<1>3. ClockInv /\ [PartNext]_partVars => ClockInv'
  BY <1>2, ClockStep
<1>4. ClockInv => (part = "clock" => D!ClockRight)
  BY DEF ClockInv
<1>5. QED
  BY <1>1, <1>3, <1>4, PTL DEF PartSpec

-----------------------------------------------------------------------------
\* The table of commands: no name twice, and the functions that were registered.
Entries == [name : Name, f : Name, isProgram : BOOLEAN]

Named(s) ==
    /\ \A i, j \in 1 .. Len(s) : s[i].name = s[j].name => i = j
    /\ DOMAIN registered = {s[i].name : i \in 1 .. Len(s)}
    /\ \A i \in 1 .. Len(s) : registered[s[i].name] = s[i].f

CommandInv == commandList \in Seq(Entries) /\ Named(commandList)

\* What the loop over the table finds.
LEMMA CommandFound ==
  ASSUME CommandInv, NEW name
  PROVE  LET id == R!GetCommandID(name)
         IN  IF \E i \in 1 .. Len(commandList) : commandList[i].name = name
             THEN id \in 1 .. Len(commandList) /\ commandList[id].name = name
             ELSE id = 0
<1> DEFINE I == {i \in 1 .. Len(commandList) : commandList[i].name = name}
<1>1. R!GetCommandID(name) = IF I # {} THEN R!Min(I) ELSE 0
  BY DEF R!GetCommandID, R!SelectInSeq
<1>2. CASE I = {}
  BY <1>1, <1>2
<1>3. CASE I # {}
  <2>1. PICK k \in 1 .. Len(commandList) : commandList[k].name = name
    BY <1>3
  <2>2. I = {k}
    BY <2>1 DEF CommandInv, Named
  <2>3. R!Min({k}) = k
    BY <2>1 DEF R!Min
  <2>4. QED
    BY <1>1, <2>1, <2>2, <2>3
<1>4. QED
  BY <1>2, <1>3

LEMMA CommandStep == CommandInv /\ [R!Next]_commands => CommandInv'
<1>1. SUFFICES ASSUME CommandInv, [R!Next]_commands PROVE CommandInv'
  OBVIOUS
<1>2. commandList \in Seq(Entries) /\ Len(commandList) \in Nat
  BY <1>1 DEF CommandInv
<1>3. ASSUME NEW name \in Name, NEW f \in Name, NEW isProgram \in BOOLEAN, R!Register(name, f, isProgram)
      PROVE  CommandInv'
  <2> DEFINE e == [name |-> name, f |-> f, isProgram |-> isProgram]
             n == Len(commandList) + 1
  <2>1. /\ commandList' = Append(commandList, e) /\ R!GetCommandID(name) = 0
        /\ registered' = [m \in DOMAIN registered \cup {name} |-> IF m = name THEN f ELSE registered[m]]
    BY <1>3 DEF R!Register
  <2>2. e \in Entries /\ e.name = name /\ e.f = f
    BY DEF Entries
  <2>3. \A i \in 1 .. Len(commandList) : commandList[i].name # name
    BY <1>1, <1>2, <2>1, CommandFound
  <2> HIDE DEF e
  <2>4. /\ commandList' \in Seq(Entries) /\ Len(commandList') = n /\ commandList'[n] = e
        /\ \A i \in 1 .. Len(commandList) : commandList'[i] = commandList[i]
    BY <1>2, <2>1, <2>2
  <2>5. 1 .. n = 1 .. Len(commandList) \cup {n} /\ n \notin 1 .. Len(commandList)
    BY <1>2
  <2> HIDE DEF n
  <2>6. \A i, j \in 1 .. n : commandList'[i].name = commandList'[j].name => i = j
    BY <1>1, <2>2, <2>3, <2>4, <2>5 DEF CommandInv, Named
  <2>7. DOMAIN registered' = {commandList'[i].name : i \in 1 .. n}
    <3>1. DOMAIN registered = {commandList[i].name : i \in 1 .. Len(commandList)}
      BY <1>1 DEF CommandInv, Named
    <3>2. DOMAIN registered' = DOMAIN registered \cup {name}
      BY <2>1
    <3>3. QED
      BY <2>2, <2>4, <2>5, <3>1, <3>2
  <2>8. \A i \in 1 .. n : registered'[commandList'[i].name] = commandList'[i].f
    <3>1. SUFFICES ASSUME NEW i \in 1 .. n PROVE registered'[commandList'[i].name] = commandList'[i].f
      OBVIOUS
    <3>2. CASE i = n
      BY <2>1, <2>2, <2>4, <3>2
    <3>3. CASE i \in 1 .. Len(commandList)
      <4>1. commandList[i].name \in DOMAIN registered /\ registered[commandList[i].name] = commandList[i].f
        BY <1>1, <3>3 DEF CommandInv, Named
      <4>2. commandList[i].name # name /\ commandList'[i] = commandList[i]
        BY <2>3, <2>4, <3>3
      <4>3. QED
        BY <2>1, <4>1, <4>2
    <3>4. QED
      BY <2>5, <3>2, <3>3
  <2>9. QED
    BY <2>4, <2>6, <2>7, <2>8 DEF CommandInv, Named
<1>4. ASSUME NEW name \in Name, R!Unregister(name) PROVE CommandInv'
  <2> DEFINE id == R!GetCommandID(name)
             n == Len(commandList) - 1
  <2>1. /\ commandList' = R!Shifted(id) /\ id # 0
        /\ registered' = [m \in DOMAIN registered \ {name} |-> registered[m]]
    BY <1>4 DEF R!Unregister
  <2>2. id \in 1 .. Len(commandList) /\ commandList[id].name = name
    BY <1>1, <2>1, CommandFound
  <2> HIDE DEF id
  <2>3. n \in Nat /\ n + 1 = Len(commandList)
    BY <1>2, <2>2
  <2> HIDE DEF n
  <2> DEFINE from(i) == IF i < id THEN i ELSE i + 1
  <2>4. ASSUME NEW i \in 1 .. n
        PROVE  /\ from(i) \in 1 .. Len(commandList) /\ from(i) # id
               /\ R!Shifted(id)[i] \in Entries /\ R!Shifted(id)[i].name = commandList[from(i)].name
               /\ R!Shifted(id)[i].f = commandList[from(i)].f
    <3>1. from(i) \in 1 .. Len(commandList) /\ from(i) # id /\ i \in 1 .. Len(commandList) - 1 /\ i \in 1 .. Len(commandList)
      BY <1>2, <2>2, <2>3
    <3>2. CASE i < id
      BY <1>2, <3>1, <3>2 DEF R!Shifted
    <3>3. CASE ~ i < id
      <4>1. i + 1 \in 1 .. Len(commandList) /\ from(i) = i + 1
        BY <3>1, <3>3
      <4>2. commandList[i] \in Entries /\ commandList[i + 1] \in Entries
        BY <1>2, <3>1, <4>1
      <4>3. R!Shifted(id)[i] = [commandList[i] EXCEPT !.name = commandList[i + 1].name, !.f = commandList[i + 1].f]
        BY <3>1, <3>3 DEF R!Shifted
      <4> DEFINE a == [commandList[i] EXCEPT !.name = commandList[i + 1].name]
      <4>4. a \in Entries /\ a.name = commandList[i + 1].name
        BY <4>2 DEF Entries
      <4>5. R!Shifted(id)[i] = [a EXCEPT !.f = commandList[i + 1].f]
        BY <4>3
      <4> HIDE DEF a
      <4>6. QED
        BY <3>1, <4>1, <4>2, <4>4, <4>5 DEF Entries
    <3>4. QED
      BY <3>2, <3>3
  <2>5. /\ commandList' \in Seq(Entries) /\ Len(commandList') = n
        /\ \A i \in 1 .. n : /\ from(i) \in 1 .. Len(commandList) /\ from(i) # id
                             /\ commandList'[i].name = commandList[from(i)].name
                             /\ commandList'[i].f = commandList[from(i)].f
    <3>1. DOMAIN R!Shifted(id) = 1 .. n /\ R!Shifted(id) = [i \in 1 .. n |-> R!Shifted(id)[i]]
      BY <1>2, <2>3 DEF R!Shifted
    <3> HIDE DEF from
    <3>2. R!Shifted(id) \in [1 .. n -> Entries]
      BY <2>4, <3>1
    <3>3. R!Shifted(id) \in Seq(Entries) /\ Len(R!Shifted(id)) = n
      BY <2>3, <3>1, <3>2
    <3>4. QED
      BY <2>1, <2>4, <3>3
  <2>6. \A i, j \in 1 .. n : from(i) = from(j) => i = j
    BY <2>2, <2>3
  <2>7. \A k \in 1 .. Len(commandList) : k # id => \E i \in 1 .. n : from(i) = k
    <3>1. SUFFICES ASSUME NEW k \in 1 .. Len(commandList), k # id PROVE \E i \in 1 .. n : from(i) = k
      OBVIOUS
    <3>2. CASE k < id
      <4>1. k \in 1 .. n /\ from(k) = k
        BY <2>2, <2>3, <3>2
      <4>2. QED
        BY <4>1
    <3>3. CASE k > id
      <4>1. k - 1 \in 1 .. n /\ from(k - 1) = k
        BY <2>2, <2>3, <3>3
      <4>2. QED
        BY <4>1
    <3>4. QED
      BY <2>2, <3>1, <3>2, <3>3
  <2> HIDE DEF from
  <2>8. \A i, j \in 1 .. n : commandList'[i].name = commandList'[j].name => i = j
    BY <1>1, <2>5, <2>6 DEF CommandInv, Named
  <2>9. DOMAIN registered' = {commandList'[i].name : i \in 1 .. n}
    <3>1. DOMAIN registered' = {commandList[k].name : k \in 1 .. Len(commandList)} \ {name}
      BY <1>1, <2>1 DEF CommandInv, Named
    <3>2. \A k \in 1 .. Len(commandList) : commandList[k].name = name <=> k = id
      BY <1>1, <2>2 DEF CommandInv, Named
    <3>3. ASSUME NEW k \in 1 .. Len(commandList), commandList[k].name # name
          PROVE  \E i \in 1 .. n : commandList'[i].name = commandList[k].name
      <4>1. PICK i \in 1 .. n : from(i) = k
        BY <2>7, <3>2, <3>3
      <4>2. QED
        BY <2>5, <4>1
    <3>4. ASSUME NEW i \in 1 .. n
          PROVE  commandList'[i].name \in {commandList[k].name : k \in 1 .. Len(commandList)} /\ commandList'[i].name # name
      <4>1. from(i) \in 1 .. Len(commandList) /\ from(i) # id /\ commandList'[i].name = commandList[from(i)].name
        BY <2>5
      <4>2. QED
        BY <3>2, <4>1
    <3>5. QED
      BY <3>1, <3>3, <3>4
  <2>10. \A i \in 1 .. n : registered'[commandList'[i].name] = commandList'[i].f
    <3>1. SUFFICES ASSUME NEW i \in 1 .. n PROVE registered'[commandList'[i].name] = commandList'[i].f
      OBVIOUS
    <3>2. /\ from(i) \in 1 .. Len(commandList) /\ commandList'[i].name = commandList[from(i)].name
          /\ commandList'[i].f = commandList[from(i)].f
      BY <2>5
    <3>3. registered[commandList'[i].name] = commandList'[i].f
      BY <1>1, <3>2 DEF CommandInv, Named
    <3>4. commandList'[i].name \in DOMAIN registered'
      BY <2>9
    <3>5. DOMAIN registered' = DOMAIN registered \ {name}
      BY <2>1
    <3>6. QED
      BY <2>1, <3>3, <3>4, <3>5
  <2>11. QED
    BY <2>5, <2>8, <2>9, <2>10 DEF CommandInv, Named
<1>5. CASE UNCHANGED commands
  BY <1>1, <1>5 DEF CommandInv, Named, commands
<1>6. QED
  BY <1>1, <1>3, <1>4, <1>5 DEF R!Next

\* getCommandFunction: each name that is registered, and no other, finds its function.
THEOREM LookupRight == PartSpec => [](part = "commands" => R!LookupExact)
<1>1. PartInit => CommandInv
  <2>1. R!Init => CommandInv
    BY DEF R!Init, CommandInv, Named
  <2>2. QED
    BY <2>1 DEF PartInit, Begin
<1>2. [PartNext]_partVars => [R!Next]_commands
  BY DEF PartNext, partVars, commands
<1>3. CommandInv /\ [PartNext]_partVars => CommandInv'
  BY <1>2, CommandStep
<1>4. CommandInv => R!LookupExact
  <2>1. SUFFICES ASSUME CommandInv, NEW name \in Name
                 PROVE  LET id == R!GetCommandID(name)
                        IN  IF name \in DOMAIN registered THEN id # 0 /\ commandList[id].f = registered[name]
                            ELSE id = 0
    BY DEF R!LookupExact
  <2>2. name \in DOMAIN registered <=> \E i \in 1 .. Len(commandList) : commandList[i].name = name
    BY <2>1 DEF CommandInv, Named
  <2> DEFINE id == R!GetCommandID(name)
  <2>3. IF name \in DOMAIN registered THEN id \in 1 .. Len(commandList) /\ commandList[id].name = name ELSE id = 0
    BY <2>1, <2>2, CommandFound
  <2> HIDE DEF id
  <2>4. \A i \in 1 .. Len(commandList) : i # 0 /\ registered[commandList[i].name] = commandList[i].f
    BY <2>1 DEF CommandInv, Named
  <2>5. IF name \in DOMAIN registered THEN id # 0 /\ commandList[id].f = registered[name] ELSE id = 0
    BY <2>3, <2>4
  <2>6. QED
    BY <2>5 DEF id
<1>5. QED
  BY <1>1, <1>3, <1>4, PTL DEF PartSpec
=============================================================================
