-------------------------- MODULE ThreadSyncProofs --------------------------
(***************************************************************************)
(* Proofs about ThreadSync for any number of TCBs, processes, threads,     *)
(* mutexes and semaphores.                                                 *)
(***************************************************************************)
EXTENDS ThreadSync, TLAPS

\* One pop of a wait queue keeps the types (the loop of mutex_unlock and
\* sem_signal).
LEMMA PopToTypes ==
    ASSUME TypeOK, NEW o \in Object, NEW k \in 1 .. Len(lockedQueue[o]) + 1,
           PopTo(o, k)
    PROVE  /\ status' \in [Tcb -> {"FREE", "READY", "SLEEPING", "DEAD"}]
           /\ runs' \in [Tcb -> Nat]
           /\ lockedQueue' \in [Object -> Seq(Tcb)]
  <1> DEFINE q == lockedQueue[o]
  <1>1. q \in Seq(Tcb)
    BY DEF TypeOK
  <1>2. SubSeq(q, k + 1, Len(q)) \in Seq(Tcb)
    BY <1>1
  <1>3. k <= Len(q) => q[k] \in Tcb
    BY <1>1
  <1>4. status' \in [Tcb -> {"FREE", "READY", "SLEEPING", "DEAD"}]
    BY DEF TypeOK, PopTo
  <1>5. runs' \in [Tcb -> Nat]
    <2>1. runs \in [Tcb -> Nat]
      BY DEF TypeOK
    <2>2. runs' = IF k <= Len(q) THEN [runs EXCEPT ![q[k]] = runs[q[k]] + 1] ELSE runs
      BY DEF PopTo
    <2>3. CASE k <= Len(q)
      BY <2>1, <2>2, <2>3, <1>3
    <2>4. CASE ~ (k <= Len(q))
      BY <2>1, <2>2, <2>4
    <2>5. QED
      BY <2>3, <2>4
  <1>6. lockedQueue' \in [Object -> Seq(Tcb)]
    BY <1>2 DEF TypeOK, PopTo
  <1>7. QED
    BY <1>4, <1>5, <1>6

\* Every action keeps the types.
LEMMA TypeStep == TypeOK /\ [Next]_vars => TypeOK'
  <1> USE ThreadSyncAssumption
  <1> SUFFICES ASSUME TypeOK, [Next]_vars PROVE TypeOK'
    OBVIOUS
  <1>1. ASSUME NEW m \in Mutex, MutexLockFree(m) PROVE TypeOK'
    BY <1>1 DEF TypeOK, MutexLockFree, Object
  <1>2. ASSUME NEW m \in Mutex, MutexLockContended(m) PROVE TypeOK'
    <2>1. current \in Tcb /\ m \in Object
      BY <1>2 DEF TypeOK, MutexLockContended, Object
    <2>2. QED
      BY <1>2, <2>1 DEF TypeOK, MutexLockContended, BlockCurrent, Dispatch
  <1>3. ASSUME NEW m \in Mutex, MutexUnlock(m) PROVE TypeOK'
    <2>1. PICK k \in 1 .. Len(lockedQueue[m]) + 1 :
            /\ PopTo(m, k)
            /\ IF k <= Len(lockedQueue[m])
               THEN /\ owner' = [owner EXCEPT ![m] = idOf[lockedQueue[m][k]]]
                    /\ value' = value
               ELSE /\ value' = [value EXCEPT ![m] = 0]
                    /\ owner' = owner
      BY <1>3 DEF MutexUnlock
    <2>2. m \in Object /\ lockedQueue[m] \in Seq(Tcb)
      BY DEF TypeOK, Object
    <2>3. k <= Len(lockedQueue[m]) => lockedQueue[m][k] \in Tcb
      BY <2>2
    <2>4. owner \in [Mutex -> ThreadId \cup {NoOwner}] /\ value \in [Object -> Nat]
      BY DEF TypeOK
    <2>5. /\ owner' \in [Mutex -> ThreadId \cup {NoOwner}]
          /\ value' \in [Object -> Nat]
      <3>1. CASE k <= Len(lockedQueue[m])
        <4>1. idOf[lockedQueue[m][k]] \in ThreadId
          BY <2>3, <3>1 DEF TypeOK
        <4>2. owner' = [owner EXCEPT ![m] = idOf[lockedQueue[m][k]]] /\ value' = value
          BY <2>1, <3>1
        <4>3. QED
          BY <2>4, <4>1, <4>2
      <3>2. CASE ~ (k <= Len(lockedQueue[m]))
        <4>1. owner' = owner /\ value' = [value EXCEPT ![m] = 0]
          BY <2>1, <3>2
        <4>2. QED
          BY <2>4, <4>1
      <3>3. QED
        BY <3>1, <3>2
    <2>6. QED
      BY <1>3, <2>1, <2>2, <2>5, PopToTypes DEF TypeOK, MutexUnlock
  <1>4. ASSUME NEW s \in Sem, SemWaitTake(s) PROVE TypeOK'
    <2>1. value[s] \in Nat /\ value[s] - 1 \in Nat
      BY <1>4 DEF TypeOK, SemWaitTake, Object
    <2>2. QED
      BY <1>4, <2>1 DEF TypeOK, SemWaitTake, Object
  <1>5. ASSUME NEW s \in Sem, SemWaitBlock(s) PROVE TypeOK'
    <2>1. current \in Tcb /\ s \in Object
      BY <1>5 DEF TypeOK, SemWaitBlock, Object
    <2>2. QED
      BY <1>5, <2>1 DEF TypeOK, SemWaitBlock, BlockCurrent, Dispatch
  <1>6. ASSUME NEW s \in Sem, SemSignal(s) PROVE TypeOK'
    <2>1. PICK k \in 1 .. Len(lockedQueue[s]) + 1 :
            /\ PopTo(s, k)
            /\ value' = value \/ value' = [value EXCEPT ![s] = @ + 1]
      BY <1>6 DEF SemSignal
    <2>2. s \in Object
      BY DEF Object
    <2>3. value[s] + 1 \in Nat
      BY <2>2 DEF TypeOK
    <2>4. value' \in [Object -> Nat]
      BY <2>1, <2>2, <2>3 DEF TypeOK
    <2>5. QED
      BY <1>6, <2>1, <2>2, <2>4, PopToTypes DEF TypeOK, SemSignal
  <1>7. ASSUME NEW n \in 1 .. MaxTicks, SleepCurrentThread(n) PROVE TypeOK'
    BY <1>7 DEF TypeOK, SleepCurrentThread, BlockCurrent, Dispatch
  <1>8. CASE Tick
    BY <1>8 DEF TypeOK, Tick, Dispatch
  <1>9. CASE IdleYield
    BY <1>9 DEF TypeOK, IdleYield, Dispatch
  <1>10. ASSUME NEW t \in Tcb, NEW n \in Tid, CreateThread(t, n) PROVE TypeOK'
    <2>1. <<idOf[current][1], n>> \in ThreadId
      BY <1>10 DEF TypeOK, CreateThread, ThreadId
    <2>2. QED
      BY <1>10, <2>1 DEF TypeOK, CreateThread, NewThread
  <1>11. ASSUME NEW t \in Tcb, NEW p \in Pid, CreateProcess(t, p) PROVE TypeOK'
    <2>1. <<p, 0>> \in ThreadId
      BY DEF ThreadId
    <2>2. QED
      BY <1>11, <2>1 DEF TypeOK, CreateProcess, NewThread
  <1>12. ASSUME NEW K, Kill(K) PROVE TypeOK'
    BY <1>12 DEF TypeOK, Kill, Dispatch
  <1>13. CASE UNCHANGED vars
    BY <1>13 DEF TypeOK, vars
  <1>14. QED
    BY <1>1, <1>2, <1>3, <1>4, <1>5, <1>6, <1>7, <1>8, <1>9, <1>10, <1>11,
       <1>12, <1>13 DEF Next, KillThread, KillProcess

\* Type correctness of the whole kernel state.
THEOREM TypeCorrect == Spec => []TypeOK
  <1>1. Init => TypeOK
    BY ThreadSyncAssumption DEF Init, TypeOK, Object, ThreadId, NoOwner
  <1>2. QED
    BY <1>1, TypeStep, PTL DEF Spec

-----------------------------------------------------------------------------
\* The inductive strengthening: a lock word is a bit, and a thread that was
\* killed claims no mutex (killThread leaves it no way to run again).
LockWords     == \A m \in Mutex : value[m] \in {0, 1}
KilledNoClaim == \A t \in Tcb : status[t] \in {"FREE", "DEAD"} => locking[t] = {}
Locks         == NoLostWakeup /\ LockWords /\ KilledNoClaim /\ HolderOwns
IInv          == TypeOK /\ TcbsExact /\ Locks

\* insertAtEnd on a wait queue, entry by entry.
LEMMA AppendEntries ==
    ASSUME NEW S, NEW q \in Seq(S), NEW e \in S
    PROVE  /\ DOMAIN Append(q, e) = 1 .. Len(q) + 1
           /\ \A i \in 1 .. Len(q) : Append(q, e)[i] = q[i]
           /\ Append(q, e)[Len(q) + 1] = e
           /\ DOMAIN q = 1 .. Len(q)
           /\ Len(q) \in Nat
  OBVIOUS

\* What the pop loop leaves of a wait queue, entry by entry.
LEMMA SuffixEntries ==
    ASSUME NEW S, NEW q \in Seq(S), NEW k \in 1 .. Len(q) + 1
    PROVE  LET r == SubSeq(q, k + 1, Len(q)) IN
           /\ r \in Seq(S)
           /\ \A i \in DOMAIN r : k + i \in DOMAIN q /\ r[i] = q[k + i]
           /\ \A j \in DOMAIN q : j > k => j - k \in DOMAIN r
           /\ r # <<>> => q # <<>>
           /\ DOMAIN q = 1 .. Len(q)
           /\ DOMAIN r \subseteq Nat
           /\ Len(q) \in Nat
  OBVIOUS

\* A live thread is the only live one with its <<pid, tid>>.
LEMMA LiveIdsDiffer ==
    ASSUME TypeOK, NoLostTcb, NEW t \in Tcb, NEW u \in Tcb, idOf[t] = idOf[u],
           status[t] \notin {"FREE", "DEAD"}, status[u] \notin {"FREE", "DEAD"}
    PROVE  t = u
  BY DEF TypeOK, NoLostTcb

\* Whoever runs is live, READY, and waits nowhere.
LEMMA CurrentIsReady ==
    ASSUME TypeOK, TcbsExact, current # Idle
    PROVE  /\ current \in Tcb /\ runs[current] = 1 /\ status[current] = "READY"
           /\ ticksLeft[current] = 0 /\ \A o \in Object : ~ Queued(current, o)
  <1>1. current \in Tcb /\ runs[current] = 1
    BY DEF TypeOK, TcbsExact, NoDanglingTcb
  <1>2. ticksLeft[current] = 0 /\ \A o \in Object : ~ Queued(current, o)
    BY <1>1 DEF TcbsExact, OnePlace
  <1>3. status[current] = "READY"
    <2>1. status[current] \in {"FREE", "READY", "SLEEPING", "DEAD"}
      BY <1>1 DEF TypeOK
    <2>2. status[current] \notin {"FREE", "DEAD"}
      BY <1>1 DEF TcbsExact, NoDanglingTcb
    <2>3. status[current] # "SLEEPING"
      BY <1>1, <1>2 DEF TcbsExact, NoLostTcb
    <2>4. QED
      BY <2>1, <2>2, <2>3
  <1>4. QED
    BY <1>1, <1>2, <1>3

\* Blocking in a wait queue (mutex_lock, sem_wait) keeps every TCB in its place.
LEMMA BlockInQueuePlaces ==
    ASSUME TypeOK, TcbsExact, current # Idle, NEW o \in Object,
           lockedQueue' = [lockedQueue EXCEPT ![o] = Append(@, current)],
           BlockCurrent,
           UNCHANGED <<status, idOf, threadList, ticksLeft>>
    PROVE  TcbsExact'
  <1> DEFINE q == lockedQueue[o]
  <1>1. /\ current \in Tcb /\ runs[current] = 1 /\ status[current] = "READY"
        /\ ticksLeft[current] = 0 /\ \A p \in Object : ~ Queued(current, p)
    BY CurrentIsReady
  <1>2. q \in Seq(Tcb) /\ lockedQueue \in [Object -> Seq(Tcb)]
    BY DEF TypeOK
  <1>3. /\ \A p \in Object \ {o} : lockedQueue'[p] = lockedQueue[p]
        /\ lockedQueue'[o] = Append(q, current)
        /\ DOMAIN lockedQueue'[o] = 1 .. Len(q) + 1
        /\ \A i \in 1 .. Len(q) : lockedQueue'[o][i] = q[i]
        /\ lockedQueue'[o][Len(q) + 1] = current
        /\ DOMAIN q = 1 .. Len(q) /\ Len(q) \in Nat
    BY <1>1, <1>2, AppendEntries
  <1>4. \A t \in Tcb, p \in Object :
          Queued(t, p)' <=> Queued(t, p) \/ (t = current /\ p = o)
    BY <1>3 DEF Queued
  <1>5. runs' = [runs EXCEPT ![current] = 0] /\ runs \in [Tcb -> Nat]
    BY <1>1 DEF BlockCurrent, TypeOK
  <1>6. OnePlace'
    <2>1. ASSUME NEW p1 \in Object, NEW p2 \in Object,
                 NEW i \in DOMAIN lockedQueue'[p1], NEW j \in DOMAIN lockedQueue'[p2],
                 lockedQueue'[p1][i] = lockedQueue'[p2][j]
          PROVE  p1 = p2 /\ i = j
      BY <1>1, <1>3, <2>1 DEF TcbsExact, OnePlace, Queued
    <2>2. ASSUME NEW t \in Tcb
          PROVE  /\ runs'[t] <= 1
                 /\ runs'[t] = 1 => ticksLeft'[t] = 0 /\ \A p \in Object : ~ Queued(t, p)'
                 /\ ticksLeft'[t] > 0 => \A p \in Object : ~ Queued(t, p)'
      BY <1>1, <1>4, <1>5 DEF TcbsExact, OnePlace, TypeOK
    <2>3. QED
      BY <2>1, <2>2 DEF OnePlace
  <1>7. NoDanglingTcb'
    BY <1>1, <1>4, <1>5 DEF TcbsExact, OnePlace, NoDanglingTcb, TypeOK, BlockCurrent, Dispatch
  <1>8. NoLostTcb'
    BY <1>1, <1>4, <1>5 DEF TcbsExact, NoLostTcb, TypeOK
  <1>9. QED
    BY <1>6, <1>7, <1>8 DEF TcbsExact

\* The pop loop of mutex_unlock and sem_signal keeps every TCB in its place: the
\* killed waiters it passes are freed, the live one it meets becomes ready.
LEMMA PopToPlaces ==
    ASSUME TypeOK, TcbsExact, current # Idle, NEW o \in Object,
           NEW k \in 1 .. Len(lockedQueue[o]) + 1,
           FirstLive(lockedQueue[o], k), PopTo(o, k),
           UNCHANGED <<idOf, threadList, current, ticksLeft>>
    PROVE  TcbsExact'
  <1> DEFINE q == lockedQueue[o]
             gone == {q[i] : i \in 1 .. k - 1}
             woken == {q[i] : i \in {k} \cap DOMAIN q}
  <1>1. q \in Seq(Tcb) /\ lockedQueue \in [Object -> Seq(Tcb)]
        /\ DOMAIN q = 1 .. Len(q) /\ Len(q) \in Nat /\ k \in Nat
    BY DEF TypeOK
  <1>2. /\ \A p \in Object \ {o} : lockedQueue'[p] = lockedQueue[p]
        /\ lockedQueue'[o] = SubSeq(q, k + 1, Len(q))
        /\ \A i \in DOMAIN lockedQueue'[o] :
              k + i \in DOMAIN q /\ i \in Nat /\ lockedQueue'[o][i] = q[k + i]
        /\ \A j \in DOMAIN q : j > k =>
              j - k \in DOMAIN lockedQueue'[o] /\ lockedQueue'[o][j - k] = q[j]
    BY <1>1, SuffixEntries DEF PopTo
  <1>3. /\ \A t \in gone : t \in Tcb /\ status[t] = "DEAD" /\ Queued(t, o)
        /\ \A t \in woken : t \in Tcb /\ status[t] # "DEAD" /\ Queued(t, o)
    BY <1>1 DEF FirstLive, Queued
  <1>4. \A t \in Tcb : runs'[t] = IF t \in woken THEN runs[t] + 1 ELSE runs[t]
    BY <1>1, <1>3 DEF PopTo, TypeOK
  <1>5. \A t \in Tcb : status'[t] = IF t \in gone THEN "FREE" ELSE status[t]
    BY <1>1 DEF PopTo
  <1>6. \A t \in Tcb : Queued(t, o)' =>
          Queued(t, o) /\ t \notin gone /\ t \notin woken
    <2> SUFFICES ASSUME NEW t \in Tcb, NEW i \in DOMAIN lockedQueue'[o],
                        lockedQueue'[o][i] = t
                 PROVE  Queued(t, o) /\ t \notin gone /\ t \notin woken
      BY DEF Queued
    <2>1. k + i \in DOMAIN q /\ q[k + i] = t /\ i \in Nat /\ i # 0
      BY <1>1, <1>2
    <2>2. \A j \in DOMAIN q : q[j] = t => j = k + i
      BY <2>1 DEF TcbsExact, OnePlace
    <2>3. ASSUME NEW j \in DOMAIN q, j <= k PROVE q[j] # t
      BY <1>1, <2>1, <2>2, <2>3
    <2>4. t \notin gone
      BY <1>1, <2>3
    <2>5. t \notin woken
      BY <1>1, <2>3
    <2>6. QED
      BY <2>1, <2>4, <2>5 DEF Queued
  <1>7. \A t \in Tcb : Queued(t, o) => Queued(t, o)' \/ t \in gone \/ t \in woken
    <2> SUFFICES ASSUME NEW t \in Tcb, NEW j \in DOMAIN q, q[j] = t
                 PROVE  Queued(t, o)' \/ t \in gone \/ t \in woken
      BY DEF Queued
    <2>1. CASE j > k
      BY <1>2, <2>1 DEF Queued
    <2>2. CASE j = k
      <3>1. j \in {k} \cap DOMAIN q
        BY <2>2
      <3>2. QED
        BY <3>1
    <2>3. CASE j < k
      <3>1. j \in 1 .. k - 1
        BY <1>1, <2>3
      <3>2. QED
        BY <3>1
    <2>4. j \in Nat /\ k \in Nat
      BY <1>1
    <2>5. j > k \/ j = k \/ j < k
      BY <2>4
    <2>6. QED
      BY <2>1, <2>2, <2>3, <2>5
  <1>8. \A t \in Tcb, p \in Object \ {o} : Queued(t, p)' <=> Queued(t, p)
    BY <1>2 DEF Queued
  <1>9. \A t \in gone \cup woken :
          ticksLeft[t] = 0 /\ runs[t] = 0 /\ \A p \in Object \ {o} : ~ Queued(t, p)
    <2> SUFFICES ASSUME NEW t \in Tcb, Queued(t, o)
                 PROVE  ticksLeft[t] = 0 /\ runs[t] = 0 /\ \A p \in Object \ {o} : ~ Queued(t, p)
      BY <1>3
    <2>1. OnePlace
      BY DEF TcbsExact
    <2>2. ticksLeft[t] \in Nat /\ runs[t] \in Nat
      BY DEF TypeOK
    <2>3. ~ (ticksLeft[t] > 0) /\ runs[t] <= 1 /\ runs[t] # 1
      BY <2>1 DEF OnePlace
    <2>4. ASSUME NEW p \in Object \ {o} PROVE ~ Queued(t, p)
      BY <2>1, <2>4 DEF OnePlace, Queued
    <2>5. QED
      BY <2>2, <2>3, <2>4
  <1>10. gone \cap woken = {}
    BY <1>3
  <1> HIDE DEF gone, woken
  <1>11. OnePlace'
    <2>1. ASSUME NEW p1 \in Object, NEW p2 \in Object,
                 NEW i \in DOMAIN lockedQueue'[p1], NEW j \in DOMAIN lockedQueue'[p2],
                 lockedQueue'[p1][i] = lockedQueue'[p2][j]
          PROVE  p1 = p2 /\ i = j
      <3>1. PICK a \in DOMAIN lockedQueue[p1] :
              /\ lockedQueue[p1][a] = lockedQueue'[p1][i]
              /\ IF p1 = o THEN a = k + i /\ i \in Nat ELSE a = i
        BY <1>2
      <3>2. PICK b \in DOMAIN lockedQueue[p2] :
              /\ lockedQueue[p2][b] = lockedQueue'[p2][j]
              /\ IF p2 = o THEN b = k + j /\ j \in Nat ELSE b = j
        BY <1>2
      <3>3. p1 = p2 /\ a = b
        BY <2>1, <3>1, <3>2 DEF TcbsExact, OnePlace
      <3>4. QED
        BY <1>1, <3>1, <3>2, <3>3
    <2>2. ASSUME NEW t \in Tcb
          PROVE  /\ runs'[t] <= 1
                 /\ runs'[t] = 1 => ticksLeft'[t] = 0 /\ \A p \in Object : ~ Queued(t, p)'
                 /\ ticksLeft'[t] > 0 => \A p \in Object : ~ Queued(t, p)'
      <3>1. CASE t \in woken
        BY <1>4, <1>6, <1>8, <1>9, <3>1
      <3>2. CASE t \notin woken
        BY <1>4, <1>6, <1>8, <3>2 DEF TcbsExact, OnePlace
      <3>3. QED
        BY <3>1, <3>2
    <2>3. QED
      BY <2>1, <2>2 DEF OnePlace
  <1>12. NoDanglingTcb'
    <2>1. ASSUME NEW t \in Tcb, status'[t] = "FREE"
          PROVE  runs'[t] = 0 /\ ticksLeft'[t] = 0 /\ \A p \in Object : ~ Queued(t, p)'
      <3>1. CASE t \in gone
        BY <1>4, <1>6, <1>8, <1>9, <1>10, <3>1
      <3>2. CASE t \notin gone
        <4>1. /\ runs[t] = 0 /\ ticksLeft[t] = 0
              /\ \A p \in Object : ~ Queued(t, p)
          BY <1>5, <2>1, <3>2 DEF TcbsExact, NoDanglingTcb
        <4>2. QED
          BY <1>3, <1>4, <1>6, <1>8, <4>1
      <3>3. QED
        BY <3>1, <3>2
    <2>2. ASSUME NEW t \in Tcb, status'[t] = "DEAD"
          PROVE  runs'[t] = 0
      BY <1>3, <1>4, <1>5, <2>2 DEF TcbsExact, NoDanglingTcb
    <2>3. ASSUME NEW x \in ThreadId, threadList'[x] # NoThread
          PROVE  /\ idOf'[threadList'[x]] = x
                 /\ status'[threadList'[x]] \notin {"FREE", "DEAD"}
      BY <1>3, <1>5, <2>3 DEF TcbsExact, NoDanglingTcb, TypeOK
    <2>4. current' # Idle => runs'[current'] = 1
      <3>1. current \in Tcb /\ \A p \in Object : ~ Queued(current, p)
        BY CurrentIsReady
      <3>2. QED
        BY <1>3, <1>4, <3>1 DEF TcbsExact, NoDanglingTcb
    <2>5. QED
      BY <2>1, <2>2, <2>3, <2>4 DEF NoDanglingTcb
  <1>13. NoLostTcb'
    <2> SUFFICES ASSUME NEW t \in Tcb
                 PROVE  /\ status'[t] = "READY" => runs'[t] = 1 \/ \E p \in Object : Queued(t, p)'
                        /\ status'[t] = "SLEEPING" => ticksLeft'[t] > 0
                        /\ status'[t] = "DEAD" => ticksLeft'[t] > 0 \/ \E p \in Object : Queued(t, p)'
                        /\ status'[t] \in {"READY", "SLEEPING"} => threadList'[idOf'[t]] = t
      BY DEF NoLostTcb
    <2>1. CASE t \in gone
      BY <1>5, <2>1
    <2>2. CASE t \in woken
      BY <1>3, <1>4, <1>5, <1>9, <1>10, <2>2 DEF TcbsExact, NoLostTcb
    <2>3. CASE t \notin gone \cup woken
      <3>1. status'[t] = status[t] /\ runs'[t] = runs[t]
        BY <1>4, <1>5, <2>3
      <3>2. \A p \in Object : Queued(t, p) => Queued(t, p)'
        BY <1>7, <1>8, <2>3
      <3>3. QED
        BY <3>1, <3>2 DEF TcbsExact, NoLostTcb
    <2>4. QED
      BY <2>1, <2>2, <2>3
  <1>14. QED
    BY <1>11, <1>12, <1>13 DEF TcbsExact

\* sleepCurrentThread keeps every TCB in its place.
LEMMA SleepPlaces ==
    ASSUME TypeOK, TcbsExact, NEW n \in 1 .. MaxTicks, SleepCurrentThread(n)
    PROVE  TcbsExact'
  <1>1. /\ current \in Tcb /\ runs[current] = 1 /\ status[current] = "READY"
        /\ ticksLeft[current] = 0 /\ \A p \in Object : ~ Queued(current, p)
    BY CurrentIsReady DEF SleepCurrentThread
  <1>2. runs' = [runs EXCEPT ![current] = 0] /\ runs \in [Tcb -> Nat]
    BY <1>1 DEF BlockCurrent, SleepCurrentThread, TypeOK
  <1>3. /\ status' = [status EXCEPT ![current] = "SLEEPING"]
        /\ ticksLeft' = [ticksLeft EXCEPT ![current] = n] /\ n > 0
        /\ UNCHANGED <<idOf, threadList, lockedQueue>>
        /\ status \in [Tcb -> {"FREE", "READY", "SLEEPING", "DEAD"}]
        /\ ticksLeft \in [Tcb -> Nat]
    BY DEF SleepCurrentThread, TypeOK
  <1>4. \A t \in Tcb, p \in Object : Queued(t, p)' <=> Queued(t, p)
    BY <1>3 DEF Queued
  <1>5. OnePlace'
    BY <1>1, <1>2, <1>3, <1>4 DEF TcbsExact, OnePlace
  <1>6. NoDanglingTcb'
    <2>1. current' # Idle => runs'[current'] = 1
      BY <1>1, <1>2 DEF SleepCurrentThread, BlockCurrent, Dispatch, TcbsExact, OnePlace, TypeOK
    <2>2. QED
      BY <2>1, <1>1, <1>2, <1>3, <1>4 DEF TcbsExact, NoDanglingTcb, TypeOK
  <1>7. NoLostTcb'
    BY <1>1, <1>2, <1>3, <1>4 DEF TcbsExact, NoLostTcb
  <1>8. QED
    BY <1>5, <1>6, <1>7 DEF TcbsExact

\* sleep_update keeps every TCB in its place: it frees the killed sleepers and
\* readies the others, none of which is queued anywhere else.
LEMMA TickPlaces ==
    ASSUME TypeOK, TcbsExact, Tick
    PROVE  TcbsExact'
  <1>1. /\ \A t \in Tcb : ticksLeft'[t] = IF ticksLeft[t] = 0 THEN 0 ELSE ticksLeft[t] - 1
        /\ \A t \in Tcb : status'[t] = IF ticksLeft[t] # 1 THEN status[t]
                                      ELSE IF status[t] = "DEAD" THEN "FREE" ELSE "READY"
        /\ \A t \in Tcb : runs'[t] = IF ticksLeft[t] = 1 /\ status[t] # "DEAD"
                                    THEN runs[t] + 1 ELSE runs[t]
        /\ UNCHANGED <<idOf, threadList, lockedQueue>>
        /\ Dispatch
    BY DEF Tick
  <1>2. \A t \in Tcb : ticksLeft[t] \in Nat /\ runs[t] \in Nat
                      /\ status[t] \in {"FREE", "READY", "SLEEPING", "DEAD"}
    BY DEF TypeOK
  <1>3. \A t \in Tcb, p \in Object : Queued(t, p)' <=> Queued(t, p)
    BY <1>1 DEF Queued
  <1>4. \A t \in Tcb : ticksLeft[t] = 1 =>
          runs[t] = 0 /\ status[t] # "FREE" /\ \A p \in Object : ~ Queued(t, p)
    BY <1>2 DEF TcbsExact, OnePlace, NoDanglingTcb
  <1>5. OnePlace'
    <2>1. ASSUME NEW t \in Tcb
          PROVE  /\ runs'[t] <= 1
                 /\ runs'[t] = 1 => ticksLeft'[t] = 0 /\ \A p \in Object : ~ Queued(t, p)'
                 /\ ticksLeft'[t] > 0 => \A p \in Object : ~ Queued(t, p)'
      BY <1>1, <1>2, <1>3, <1>4 DEF TcbsExact, OnePlace
    <2>2. QED
      BY <1>1, <2>1 DEF TcbsExact, OnePlace
  <1>6. NoDanglingTcb'
    <2>1. \A t \in Tcb :
            /\ status'[t] = "FREE" => runs'[t] = 0 /\ ticksLeft'[t] = 0
                                      /\ \A p \in Object : ~ Queued(t, p)'
            /\ status'[t] = "DEAD" => runs'[t] = 0
      BY <1>1, <1>2, <1>3, <1>4 DEF TcbsExact, NoDanglingTcb
    <2>2. ASSUME NEW x \in ThreadId, threadList'[x] # NoThread
          PROVE  /\ idOf'[threadList'[x]] = x
                 /\ status'[threadList'[x]] \notin {"FREE", "DEAD"}
      <3>1. threadList[x] \in Tcb /\ idOf[threadList[x]] = x
            /\ status[threadList[x]] \notin {"FREE", "DEAD"}
        BY <1>1, <2>2 DEF TypeOK, TcbsExact, NoDanglingTcb
      <3>2. QED
        BY <1>1, <3>1
    <2>3. current' # Idle => runs'[current'] = 1
      BY <1>1, <1>2, <1>5 DEF Dispatch, OnePlace
    <2>4. QED
      BY <2>1, <2>2, <2>3 DEF NoDanglingTcb
  <1>7. NoLostTcb'
    <2>1. ASSUME NEW t \in Tcb
          PROVE  /\ status'[t] = "READY" => runs'[t] = 1 \/ \E p \in Object : Queued(t, p)'
                 /\ status'[t] = "SLEEPING" => ticksLeft'[t] > 0
                 /\ status'[t] = "DEAD" => ticksLeft'[t] > 0 \/ \E p \in Object : Queued(t, p)'
                 /\ status'[t] \in {"READY", "SLEEPING"} => threadList'[idOf'[t]] = t
      BY <1>1, <1>2, <1>3, <1>4 DEF TcbsExact, NoLostTcb
    <2>2. QED
      BY <2>1 DEF NoLostTcb
  <1>8. QED
    BY <1>5, <1>6, <1>7 DEF TcbsExact

\* createThread puts a fresh TCB in a free slot and in a run queue.
LEMMA NewThreadPlaces ==
    ASSUME TypeOK, TcbsExact, NEW t \in Tcb, NEW x \in ThreadId,
           threadList[x] = NoThread, NewThread(t, x)
    PROVE  TcbsExact'
  <1> USE ThreadSyncAssumption
  <1>1. /\ runs[t] = 0 /\ ticksLeft[t] = 0 /\ \A p \in Object : ~ Queued(t, p)
        /\ current # t /\ \A y \in ThreadId : threadList[y] # t
        /\ status[t] = "FREE"
    BY DEF TcbsExact, NoDanglingTcb, NewThread, TypeOK
  <1>2. /\ status' = [status EXCEPT ![t] = "READY"]
        /\ idOf' = [idOf EXCEPT ![t] = x]
        /\ threadList' = [threadList EXCEPT ![x] = t]
        /\ runs' = [runs EXCEPT ![t] = 1]
        /\ UNCHANGED <<current, lockedQueue, ticksLeft>>
    BY <1>1 DEF NewThread, TypeOK
  <1>3. \A u \in Tcb, p \in Object : Queued(u, p)' <=> Queued(u, p)
    BY <1>2 DEF Queued
  <1>4. \A u \in Tcb : status[u] \in {"READY", "SLEEPING"} => idOf[u] # x
    BY DEF TcbsExact, NoLostTcb
  <1>5. OnePlace'
    BY <1>1, <1>2, <1>3 DEF TcbsExact, OnePlace, TypeOK
  <1>6. NoDanglingTcb'
    BY <1>1, <1>2, <1>3 DEF TcbsExact, NoDanglingTcb, TypeOK
  <1>7. NoLostTcb'
    <2>1. ASSUME NEW u \in Tcb
          PROVE  /\ status'[u] = "READY" => runs'[u] = 1 \/ \E p \in Object : Queued(u, p)'
                 /\ status'[u] = "SLEEPING" => ticksLeft'[u] > 0
                 /\ status'[u] = "DEAD" => ticksLeft'[u] > 0 \/ \E p \in Object : Queued(u, p)'
                 /\ status'[u] \in {"READY", "SLEEPING"} => threadList'[idOf'[u]] = u
      <3>1. CASE u = t
        BY <1>2, <3>1 DEF TypeOK
      <3>2. CASE u # t
        BY <1>2, <1>3, <1>4, <3>2 DEF TypeOK, TcbsExact, NoLostTcb
      <3>3. QED
        BY <3>1, <3>2
    <2>2. QED
      BY <2>1 DEF NoLostTcb
  <1>8. QED
    BY <1>5, <1>6, <1>7 DEF TcbsExact

\* killThread and killProcess free the ready threads they kill and leave the
\* others to the waker that still lists them.
LEMMA KillPlaces ==
    ASSUME TypeOK, TcbsExact, NEW K, Kill(K),
           \A t \in K : \E x \in ThreadId : threadList[x] = t /\ t # NoThread
    PROVE  TcbsExact'
  <1>1. ASSUME NEW t \in K PROVE t \in Tcb /\ status[t] \in {"READY", "SLEEPING"}
    <2>1. PICK x \in ThreadId : threadList[x] = t /\ t # NoThread
      OBVIOUS
    <2>2. t \in Tcb
      BY <2>1 DEF TypeOK
    <2>3. status[t] \notin {"FREE", "DEAD"}
      BY <2>1 DEF TcbsExact, NoDanglingTcb
    <2>4. status[t] \in {"FREE", "READY", "SLEEPING", "DEAD"}
      BY <2>2 DEF TypeOK
    <2>5. QED
      BY <2>2, <2>3, <2>4
  <1>2. /\ \A t \in Tcb : status'[t] = IF t \notin K THEN status[t]
                                      ELSE IF runs[t] > 0 THEN "FREE" ELSE "DEAD"
        /\ \A t \in Tcb : runs'[t] = IF t \in K /\ runs[t] > 0 THEN runs[t] - 1 ELSE runs[t]
        /\ \A x \in ThreadId : threadList'[x] = IF threadList[x] \in K THEN NoThread
                                               ELSE threadList[x]
        /\ UNCHANGED <<idOf, lockedQueue, ticksLeft>>
        /\ IF current \in K THEN Dispatch ELSE current' = current
    BY DEF Kill
  <1>3. ASSUME NEW t \in Tcb PROVE runs[t] \in {0, 1}
    <2>1. runs[t] \in Nat /\ runs[t] <= 1
      BY DEF TypeOK, TcbsExact, OnePlace
    <2>2. QED
      BY <2>1
  <1>4. \A t \in Tcb : t \in K => runs'[t] = 0
    BY <1>2, <1>3
  <1>5. \A t \in Tcb, p \in Object : Queued(t, p)' <=> Queued(t, p)
    BY <1>2 DEF Queued
  <1>6. OnePlace'
    <2>1. ASSUME NEW t \in Tcb
          PROVE  /\ runs'[t] <= 1
                 /\ runs'[t] = 1 => ticksLeft'[t] = 0 /\ \A p \in Object : ~ Queued(t, p)'
                 /\ ticksLeft'[t] > 0 => \A p \in Object : ~ Queued(t, p)'
      BY <1>2, <1>3, <1>5 DEF TcbsExact, OnePlace
    <2>2. QED
      BY <1>2, <2>1 DEF TcbsExact, OnePlace
  <1>7. NoDanglingTcb'
    <2>1. ASSUME NEW t \in Tcb, status'[t] = "FREE"
          PROVE  runs'[t] = 0 /\ ticksLeft'[t] = 0 /\ \A p \in Object : ~ Queued(t, p)'
      <3>1. CASE t \in K
        <4>1. runs[t] = 1
          BY <1>2, <1>3, <2>1, <3>1
        <4>2. QED
          BY <1>2, <1>4, <1>5, <3>1, <4>1 DEF TcbsExact, OnePlace
      <3>2. CASE t \notin K
        BY <1>2, <1>5, <2>1, <3>2 DEF TcbsExact, NoDanglingTcb
      <3>3. QED
        BY <3>1, <3>2
    <2>2. \A t \in Tcb : status'[t] = "DEAD" => runs'[t] = 0
      BY <1>2, <1>4 DEF TcbsExact, NoDanglingTcb
    <2>3. ASSUME NEW x \in ThreadId, threadList'[x] # NoThread
          PROVE  /\ idOf'[threadList'[x]] = x
                 /\ status'[threadList'[x]] \notin {"FREE", "DEAD"}
      <3>1. threadList[x] \in Tcb /\ threadList[x] \notin K /\ threadList'[x] = threadList[x]
        BY <1>2, <2>3 DEF TypeOK
      <3>2. QED
        BY <1>2, <2>3, <3>1 DEF TcbsExact, NoDanglingTcb
    <2>4. current' # Idle => runs'[current'] = 1
      <3>1. CASE current \in K
        BY <1>2, <1>3, <1>6, <3>1 DEF Dispatch, OnePlace
      <3>2. CASE current \notin K
        BY <1>2, <3>2 DEF TcbsExact, NoDanglingTcb, TypeOK
      <3>3. QED
        BY <3>1, <3>2
    <2>5. QED
      BY <2>1, <2>2, <2>3, <2>4 DEF NoDanglingTcb
  <1>8. NoLostTcb'
    <2>1. ASSUME NEW t \in Tcb
          PROVE  /\ status'[t] = "READY" => runs'[t] = 1 \/ \E p \in Object : Queued(t, p)'
                 /\ status'[t] = "SLEEPING" => ticksLeft'[t] > 0
                 /\ status'[t] = "DEAD" => ticksLeft'[t] > 0 \/ \E p \in Object : Queued(t, p)'
                 /\ status'[t] \in {"READY", "SLEEPING"} => threadList'[idOf'[t]] = t
      <3>1. CASE t \in K
        BY <1>1, <1>2, <1>3, <1>5, <3>1 DEF TcbsExact, NoLostTcb
      <3>2. CASE t \notin K
        BY <1>2, <1>5, <3>2 DEF TcbsExact, NoLostTcb, TypeOK
      <3>3. QED
        BY <3>1, <3>2
    <2>2. QED
      BY <2>1 DEF NoLostTcb
  <1>9. QED
    BY <1>6, <1>7, <1>8 DEF TcbsExact

\* The step of every action keeps every TCB in its place.
LEMMA PlacesStep == TypeOK /\ TcbsExact /\ [Next]_vars => TcbsExact'
  <1> SUFFICES ASSUME TypeOK, TcbsExact, [Next]_vars PROVE TcbsExact'
    OBVIOUS
  <1>1. ASSUME UNCHANGED <<status, idOf, threadList, runs, current, lockedQueue, ticksLeft>>
        PROVE  TcbsExact'
    BY <1>1 DEF TcbsExact, OnePlace, NoDanglingTcb, NoLostTcb, Queued
  <1>2. ASSUME NEW m \in Mutex, MutexLockContended(m) PROVE TcbsExact'
    BY <1>2, BlockInQueuePlaces DEF MutexLockContended, Object
  <1>3. ASSUME NEW m \in Mutex, MutexUnlock(m) PROVE TcbsExact'
    BY <1>3, PopToPlaces DEF MutexUnlock, Object
  <1>4. ASSUME NEW s \in Sem, SemWaitBlock(s) PROVE TcbsExact'
    BY <1>4, BlockInQueuePlaces DEF SemWaitBlock, Object
  <1>5. ASSUME NEW s \in Sem, SemSignal(s) PROVE TcbsExact'
    BY <1>5, PopToPlaces DEF SemSignal, Object
  <1>6. CASE IdleYield
    <2>1. \A t \in Tcb, o \in Object : Queued(t, o)' <=> Queued(t, o)
      BY <1>6 DEF IdleYield, Queued
    <2>2. current' # Idle => runs'[current'] = 1
      BY <1>6 DEF IdleYield, Dispatch, TypeOK, TcbsExact, OnePlace
    <2>3. QED
      BY <1>6, <2>1, <2>2 DEF IdleYield, TcbsExact, OnePlace, NoDanglingTcb, NoLostTcb
  <1>7. ASSUME NEW t \in Tcb, NEW n \in Tid, CreateThread(t, n) PROVE TcbsExact'
    <2>1. <<idOf[current][1], n>> \in ThreadId
      BY <1>7 DEF CreateThread, TypeOK, ThreadId
    <2>2. QED
      BY <1>7, <2>1, NewThreadPlaces DEF CreateThread
  <1>8. ASSUME NEW t \in Tcb, NEW p \in Pid, CreateProcess(t, p) PROVE TcbsExact'
    <2>1. <<p, 0>> \in ThreadId /\ threadList[<<p, 0>>] = NoThread
      BY <1>8, ThreadSyncAssumption DEF CreateProcess, ThreadId
    <2>2. QED
      BY <1>8, <2>1, NewThreadPlaces DEF CreateProcess
  <1>9. ASSUME NEW n \in Tid, KillThread(n) PROVE TcbsExact'
    <2>1. <<idOf[current][1], n>> \in ThreadId
      BY <1>9 DEF KillThread, TypeOK, ThreadId
    <2>2. QED
      BY <1>9, <2>1, KillPlaces DEF KillThread
  <1>10. ASSUME NEW p \in Pid, KillProcess(p) PROVE TcbsExact'
    <2>1. \A n \in Tid : <<p, n>> \in ThreadId
      BY DEF ThreadId
    <2>2. QED
      BY <1>10, <2>1, KillPlaces DEF KillProcess
  <1>11. QED
    BY <1>1, <1>2, <1>3, <1>4, <1>5, <1>6, <1>7, <1>8, <1>9, <1>10, SleepPlaces, TickPlaces
       DEF Next, vars, MutexLockFree, SemWaitTake

\* A thread in a critical section is live, and the owner fields name it alone.
LEMMA HolderIsUnique ==
    ASSUME IInv, NEW m \in Mutex, NEW t \in Tcb, NEW u \in Tcb,
           InCriticalSection(t, m), idOf[u] = owner[m],
           status[u] \notin {"FREE", "DEAD"}
    PROVE  t = u
  <1>1. status[t] \notin {"FREE", "DEAD"}
    BY DEF IInv, Locks, KilledNoClaim, InCriticalSection
  <1>2. QED
    BY <1>1, LiveIdsDiffer DEF IInv, TcbsExact, Locks, HolderOwns

\* The step of every action that leaves the locks of the others alone.
LEMMA LocksFrame ==
    ASSUME IInv, TcbsExact', UNCHANGED <<value, owner, lockedQueue>>,
           \A t \in Tcb : \/ locking'[t] = {}
                          \/ /\ locking'[t] = locking[t] /\ idOf'[t] = idOf[t]
                             /\ status'[t] \in {"FREE", "DEAD"} => status[t] \in {"FREE", "DEAD"}
                             /\ runs'[t] > 0 => runs[t] > 0 \/ \A o \in Object : ~ Queued(t, o)
    PROVE  Locks'
  <1>1. \A t \in Tcb, o \in Object : Queued(t, o)' <=> Queued(t, o)
    BY DEF Queued
  <1>2. \A m \in Mutex, t \in Tcb : InCriticalSection(t, m)' =>
          InCriticalSection(t, m) /\ idOf'[t] = idOf[t]
    BY <1>1 DEF InCriticalSection, Object
  <1>3. HolderOwns'
    BY <1>2 DEF IInv, Locks, HolderOwns
  <1>4. KilledNoClaim'
    BY DEF IInv, Locks, KilledNoClaim
  <1>5. NoLostWakeup' /\ LockWords'
    BY DEF IInv, Locks, NoLostWakeup, LockWords
  <1>6. QED
    BY <1>3, <1>4, <1>5 DEF Locks

\* The wait queues after the pop loop, entry by entry.
LEMMA PopToEntries ==
    ASSUME TypeOK, NEW o \in Object, NEW k \in 1 .. Len(lockedQueue[o]) + 1, PopTo(o, k)
    PROVE  LET q == lockedQueue[o] IN
           /\ \A p \in Object \ {o} : lockedQueue'[p] = lockedQueue[p]
           /\ lockedQueue'[o] # <<>> => k <= Len(q) /\ q # <<>>
           /\ \A i \in DOMAIN lockedQueue'[o] :
                 k + i \in DOMAIN q /\ i \in Nat /\ lockedQueue'[o][i] = q[k + i]
           /\ \A j \in DOMAIN q : j > k =>
                 j - k \in DOMAIN lockedQueue'[o] /\ lockedQueue'[o][j - k] = q[j]
  <1> DEFINE q == lockedQueue[o]
  <1>1. q \in Seq(Tcb) /\ lockedQueue \in [Object -> Seq(Tcb)]
        /\ DOMAIN q = 1 .. Len(q) /\ Len(q) \in Nat /\ k \in Nat
    BY DEF TypeOK
  <1>2. /\ \A p \in Object \ {o} : lockedQueue'[p] = lockedQueue[p]
        /\ lockedQueue'[o] = SubSeq(q, k + 1, Len(q))
        /\ \A i \in DOMAIN lockedQueue'[o] :
              k + i \in DOMAIN q /\ i \in Nat /\ lockedQueue'[o][i] = q[k + i]
        /\ \A j \in DOMAIN q : j > k =>
              j - k \in DOMAIN lockedQueue'[o] /\ lockedQueue'[o][j - k] = q[j]
    BY <1>1, SuffixEntries DEF PopTo
  <1>3. lockedQueue'[o] # <<>> => k <= Len(q) /\ q # <<>>
    <2>1. k > Len(q) => SubSeq(q, k + 1, Len(q)) = <<>>
      BY <1>1
    <2>2. k <= Len(q) => q # <<>>
      BY <1>1
    <2>3. QED
      BY <1>1, <1>2, <2>1, <2>2
  <1>4. QED
    BY <1>2, <1>3

\* mutex_unlock hands the mutex over, or frees it with no waiter left.
LEMMA UnlockLocks ==
    ASSUME IInv, TcbsExact', NEW m \in Mutex, MutexUnlock(m)
    PROVE  Locks'
  <1> DEFINE q == lockedQueue[m]
  <1> USE ThreadSyncAssumption
  <1>1. PICK k \in 1 .. Len(q) + 1 :
          /\ FirstLive(q, k)
          /\ PopTo(m, k)
          /\ IF k <= Len(q)
             THEN /\ owner' = [owner EXCEPT ![m] = idOf[q[k]]]
                  /\ value' = value
             ELSE /\ value' = [value EXCEPT ![m] = 0]
                  /\ owner' = owner
    BY DEF MutexUnlock
  <1>2. /\ current \in Tcb /\ owner[m] = idOf[current] /\ UNCHANGED idOf
        /\ locking' = [locking EXCEPT ![current] = @ \ {m}]
        /\ status[current] = "READY" /\ \A o \in Object : ~ Queued(current, o)
    BY CurrentIsReady DEF MutexUnlock, IInv
  <1>3. /\ m \in Object /\ q \in Seq(Tcb) /\ Len(q) \in Nat /\ DOMAIN q = 1 .. Len(q)
        /\ \A o \in Object : o \in Sem => o # m
    BY DEF IInv, TypeOK, Object
  <1>4. /\ \A o \in Object \ {m} : lockedQueue'[o] = lockedQueue[o]
        /\ lockedQueue'[m] # <<>> => k <= Len(q) /\ q # <<>>
        /\ \A j \in DOMAIN q : j > k =>
              j - k \in DOMAIN lockedQueue'[m] /\ lockedQueue'[m][j - k] = q[j]
    BY <1>1, <1>3, PopToEntries DEF IInv
  <1>5. /\ \A t \in Tcb : status'[t] \in {"FREE", "DEAD"} => status[t] \in {"FREE", "DEAD"}
        /\ k <= Len(q) => q[k] \in Tcb /\ Queued(q[k], m)
        /\ \A t \in Tcb : runs'[t] > 0 => runs[t] > 0 \/ (k <= Len(q) /\ t = q[k])
    <2>1. \A t \in Tcb : status'[t] \in {"FREE", "DEAD"} => status[t] \in {"FREE", "DEAD"}
      BY <1>1, <1>3 DEF PopTo, FirstLive
    <2>2. k <= Len(q) => k \in DOMAIN q /\ q[k] \in Tcb
      BY <1>3
    <2>3. \A t \in Tcb : runs'[t] > 0 => runs[t] > 0 \/ (k <= Len(q) /\ t = q[k])
      <3>1. CASE k <= Len(q)
        BY <1>1, <2>2, <3>1 DEF PopTo, IInv, TypeOK
      <3>2. CASE ~ (k <= Len(q))
        BY <1>1, <3>2 DEF PopTo
      <3>3. QED
        BY <3>1, <3>2
    <2>4. QED
      BY <2>1, <2>2, <2>3 DEF Queued
  <1>6. /\ \A n \in Mutex : n # m => value'[n] = value[n] /\ owner'[n] = owner[n]
        /\ \A s \in Sem : value'[s] = value[s]
        /\ k <= Len(q) => value'[m] = 1 /\ owner'[m] = idOf[q[k]]
        /\ ~ (k <= Len(q)) => value'[m] = 0
    <2>1. q # <<>> => value[m] = 1
      BY <1>3 DEF IInv, Locks, NoLostWakeup
    <2>2. k <= Len(q) => q # <<>>
      BY <1>3
    <2>3. QED
      BY <1>1, <1>3, <2>1, <2>2 DEF IInv, TypeOK, Object
  <1>7. HolderOwns'
    <2> SUFFICES ASSUME NEW n \in Mutex, NEW t \in Tcb, InCriticalSection(t, n)'
                 PROVE  value'[n] = 1 /\ owner'[n] = idOf'[t]
      BY DEF HolderOwns
    <2>1. n \in locking[t] /\ (t = current => n # m)
      BY <1>2 DEF InCriticalSection, IInv, TypeOK
    <2>2. CASE n # m
      <3>1. Queued(t, n)' <=> Queued(t, n)
        BY <1>4, <2>2 DEF Queued, Object
      <3>2. InCriticalSection(t, n)
        <4>1. CASE k <= Len(q) /\ t = q[k]
          <5>1. ~ Queued(t, n)
            BY <1>3, <1>5, <2>2, <4>1 DEF IInv, TcbsExact, OnePlace, Queued, Object
          <5>2. QED
            BY <2>1, <5>1 DEF InCriticalSection
        <4>2. CASE ~ (k <= Len(q) /\ t = q[k])
          BY <1>5, <2>1, <3>1, <4>2 DEF InCriticalSection
        <4>3. QED
          BY <4>1, <4>2
      <3>3. QED
        BY <1>2, <1>6, <2>2, <3>2 DEF IInv, Locks, HolderOwns
    <2>3. CASE n = m /\ k <= Len(q) /\ t = q[k]
      BY <1>2, <1>6, <2>3
    <2>4. CASE n = m /\ ~ (k <= Len(q) /\ t = q[k])
      <3>1. ~ InCriticalSection(t, m)
        <4>1. t # current
          BY <2>1, <2>4
        <4>2. QED
          BY <1>2, <4>1, HolderIsUnique
      <3>2. Queued(t, m) /\ runs[t] = 0
        BY <2>1, <2>4, <3>1 DEF InCriticalSection, IInv, TypeOK
      <3>3. PICK j \in DOMAIN q : q[j] = t
        BY <3>2 DEF Queued
      <3>4. ~ (runs'[t] > 0)
        BY <1>5, <2>4, <3>2
      <3>5. ~ Queued(t, m)'
        BY <2>4, <3>4 DEF InCriticalSection
      <3>6. ~ (j > k)
        <4>1. j > k => j - k \in DOMAIN lockedQueue'[m] /\ lockedQueue'[m][j - k] = t
          BY <1>4, <3>3
        <4>2. QED
          BY <3>5, <4>1 DEF Queued
      <3>7. j \in 1 .. k - 1
        BY <1>3, <2>4, <3>3, <3>6
      <3>8. status[t] = "DEAD"
        BY <1>1, <3>3, <3>7 DEF FirstLive
      <3>9. QED
        BY <2>1, <2>4, <3>8 DEF IInv, Locks, KilledNoClaim
    <2>5. QED
      BY <2>2, <2>3, <2>4
  <1>8. NoLostWakeup'
    BY <1>3, <1>4, <1>6 DEF IInv, Locks, NoLostWakeup, Object
  <1>9. LockWords'
    BY <1>6 DEF IInv, Locks, LockWords
  <1>10. KilledNoClaim'
    BY <1>2, <1>5 DEF IInv, TypeOK, Locks, KilledNoClaim
  <1>11. QED
    BY <1>7, <1>8, <1>9, <1>10 DEF Locks

\* mutex_lock of a free mutex: nobody is inside, the caller becomes the owner.
LEMMA LockFreeLocks ==
    ASSUME IInv, NEW m \in Mutex, MutexLockFree(m)
    PROVE  Locks'
  <1>1. /\ m \in Object /\ current \in Tcb /\ status[current] = "READY" /\ value[m] = 0
        /\ value' = [value EXCEPT ![m] = 1]
        /\ owner' = [owner EXCEPT ![m] = idOf[current]]
        /\ locking' = [locking EXCEPT ![current] = @ \cup {m}]
        /\ UNCHANGED <<status, idOf, runs, lockedQueue>>
    BY CurrentIsReady DEF IInv, MutexLockFree, Object
  <1>2. \A t \in Tcb, o \in Object : Queued(t, o)' <=> Queued(t, o)
    BY <1>1 DEF Queued
  <1>3. HolderOwns'
    <2> SUFFICES ASSUME NEW n \in Mutex, NEW t \in Tcb, InCriticalSection(t, n)'
                 PROVE  value'[n] = 1 /\ owner'[n] = idOf'[t]
      BY DEF HolderOwns
    <2>1. CASE t = current /\ n = m
      BY <1>1, <2>1 DEF IInv, TypeOK
    <2>2. CASE ~ (t = current /\ n = m)
      <3>1. InCriticalSection(t, n)
        BY <1>1, <1>2, <2>2 DEF InCriticalSection, IInv, TypeOK, Object
      <3>2. value[n] = 1 /\ owner[n] = idOf[t]
        BY <3>1 DEF IInv, Locks, HolderOwns
      <3>3. n # m
        BY <1>1, <3>2
      <3>4. QED
        BY <1>1, <3>2, <3>3 DEF IInv, TypeOK, Object
    <2>3. QED
      BY <2>1, <2>2
  <1>4. NoLostWakeup' /\ LockWords'
    BY <1>1, ThreadSyncAssumption DEF IInv, TypeOK, Locks, NoLostWakeup, LockWords, Object
  <1>5. KilledNoClaim'
    BY <1>1 DEF IInv, TypeOK, Locks, KilledNoClaim
  <1>6. QED
    BY <1>3, <1>4, <1>5 DEF Locks

\* A caller that blocks on an object is in no critical section of that object
\* and in the same ones of the others.
LEMMA BlockInQueueLocks ==
    ASSUME IInv, current # Idle, NEW o \in Object,
           o \in Sem => value[o] = 0,
           o \in Mutex => value[o] # 0,
           lockedQueue' = [lockedQueue EXCEPT ![o] = Append(@, current)],
           locking' = [locking EXCEPT ![current] = @ \cup ({o} \cap Mutex)],
           BlockCurrent,
           UNCHANGED <<status, idOf, value, owner>>
    PROVE  Locks'
  <1> DEFINE q == lockedQueue[o]
  <1>1. /\ current \in Tcb /\ runs[current] = 1 /\ status[current] = "READY"
        /\ \A p \in Object : ~ Queued(current, p)
    BY CurrentIsReady DEF IInv
  <1>2. q \in Seq(Tcb) /\ lockedQueue \in [Object -> Seq(Tcb)]
    BY DEF IInv, TypeOK
  <1>3. /\ \A p \in Object \ {o} : lockedQueue'[p] = lockedQueue[p]
        /\ DOMAIN lockedQueue'[o] = 1 .. Len(q) + 1
        /\ \A i \in 1 .. Len(q) : lockedQueue'[o][i] = q[i]
        /\ lockedQueue'[o][Len(q) + 1] = current
        /\ DOMAIN q = 1 .. Len(q) /\ Len(q) \in Nat
    BY <1>1, <1>2, AppendEntries
  <1>4. \A t \in Tcb, p \in Object :
          Queued(t, p)' <=> Queued(t, p) \/ (t = current /\ p = o)
    BY <1>3 DEF Queued
  <1>5. \A t \in Tcb : runs'[t] = IF t = current THEN 0 ELSE runs[t]
    BY <1>1 DEF BlockCurrent, IInv, TypeOK
  <1>6. HolderOwns'
    <2> SUFFICES ASSUME NEW n \in Mutex, NEW t \in Tcb, InCriticalSection(t, n)'
                 PROVE  InCriticalSection(t, n)
      BY DEF HolderOwns, IInv, Locks
    <2>1. n \in Object
      BY DEF Object
    <2>2. CASE t = current
      <3>1. n # o
        BY <1>4, <1>5, <2>1, <2>2 DEF InCriticalSection
      <3>2. n \in locking[t]
        BY <1>1, <2>2, <3>1 DEF InCriticalSection, IInv, TypeOK
      <3>3. QED
        BY <1>1, <2>2, <3>2 DEF InCriticalSection
    <2>3. CASE t # current
      <3>1. n \in locking[t]
        BY <1>1, <2>3 DEF InCriticalSection, IInv, TypeOK
      <3>2. QED
        BY <1>4, <1>5, <2>1, <2>3, <3>1 DEF InCriticalSection
    <2>4. QED
      BY <2>2, <2>3
  <1>7. NoLostWakeup'
    BY <1>3 DEF IInv, TypeOK, Locks, NoLostWakeup, LockWords, Object
  <1>8. LockWords' /\ KilledNoClaim'
    BY <1>1 DEF IInv, TypeOK, Locks, LockWords, KilledNoClaim
  <1>9. QED
    BY <1>6, <1>7, <1>8 DEF Locks

\* sem_signal changes no mutex: the thread it wakes waits for no other object.
LEMMA SignalLocks ==
    ASSUME IInv, NEW s \in Sem, SemSignal(s)
    PROVE  Locks'
  <1> DEFINE q == lockedQueue[s]
  <1> USE ThreadSyncAssumption
  <1>1. PICK k \in 1 .. Len(q) + 1 :
          /\ FirstLive(q, k)
          /\ PopTo(s, k)
          /\ IF k <= Len(q) THEN value' = value
             ELSE value' = [value EXCEPT ![s] = @ + 1]
    BY DEF SemSignal
  <1>2. UNCHANGED <<idOf, owner, locking>>
    BY DEF SemSignal
  <1>3. /\ s \in Object /\ q \in Seq(Tcb) /\ Len(q) \in Nat /\ DOMAIN q = 1 .. Len(q)
        /\ \A n \in Mutex : n \in Object /\ n # s
    BY DEF IInv, TypeOK, Object
  <1>4. /\ \A o \in Object \ {s} : lockedQueue'[o] = lockedQueue[o]
        /\ lockedQueue'[s] # <<>> => k <= Len(q) /\ q # <<>>
    BY <1>1, <1>3, PopToEntries DEF IInv
  <1>5. \A t \in Tcb : status'[t] \in {"FREE", "DEAD"} => status[t] \in {"FREE", "DEAD"}
    BY <1>1, <1>3 DEF PopTo, FirstLive
  <1>6. \A t \in Tcb : runs'[t] > 0 => runs[t] > 0 \/ Queued(t, s)
    <2>1. CASE k <= Len(q)
      <3>1. k \in DOMAIN q /\ q[k] \in Tcb
        BY <1>3, <2>1
      <3>2. QED
        BY <1>1, <2>1, <3>1 DEF PopTo, IInv, TypeOK, Queued
    <2>2. CASE ~ (k <= Len(q))
      BY <1>1, <2>2 DEF PopTo
    <2>3. QED
      BY <2>1, <2>2
  <1>7. HolderOwns'
    <2> SUFFICES ASSUME NEW n \in Mutex, NEW t \in Tcb, InCriticalSection(t, n)'
                 PROVE  value'[n] = 1 /\ owner'[n] = idOf'[t]
      BY DEF HolderOwns
    <2>1. Queued(t, n)' <=> Queued(t, n)
      BY <1>3, <1>4 DEF Queued
    <2>2. Queued(t, s) => ~ Queued(t, n)
      BY <1>3 DEF IInv, TcbsExact, OnePlace, Queued
    <2>3. InCriticalSection(t, n)
      BY <1>2, <1>6, <2>1, <2>2 DEF InCriticalSection
    <2>4. value'[n] = value[n]
      BY <1>1, <1>3 DEF IInv, TypeOK
    <2>5. QED
      BY <1>2, <2>3, <2>4 DEF IInv, Locks, HolderOwns
  <1>8. NoLostWakeup'
    <2>1. ASSUME NEW o \in Object, o # s, lockedQueue'[o] # <<>>
          PROVE  IF o \in Sem THEN value'[o] = 0 ELSE value'[o] = 1
      BY <1>1, <1>3, <1>4, <2>1 DEF IInv, TypeOK, Locks, NoLostWakeup
    <2>2. lockedQueue'[s] # <<>> => value'[s] = 0
      BY <1>1, <1>3, <1>4 DEF IInv, Locks, NoLostWakeup
    <2>3. QED
      BY <2>1, <2>2 DEF NoLostWakeup
  <1>9. LockWords' /\ KilledNoClaim'
    <2>1. \A n \in Mutex : value'[n] = value[n]
      BY <1>1, <1>3 DEF IInv, TypeOK
    <2>2. QED
      BY <1>2, <1>5, <2>1 DEF IInv, Locks, LockWords, KilledNoClaim
  <1>10. QED
    BY <1>7, <1>8, <1>9 DEF Locks

\* The step of every action keeps the lock words, the owners and the queues in
\* agreement.
LEMMA LocksStep == IInv /\ TcbsExact' /\ [Next]_vars => Locks'
  <1> SUFFICES ASSUME IInv, TcbsExact', [Next]_vars PROVE Locks'
    OBVIOUS
  <1> USE ThreadSyncAssumption
  <1>1. ASSUME NEW m \in Mutex, MutexLockFree(m) PROVE Locks'
    BY <1>1, LockFreeLocks
  <1>2. ASSUME NEW m \in Mutex, MutexLockContended(m) PROVE Locks'
    <2>1. m \in Object /\ m \notin Sem /\ {m} \cap Mutex = {m}
      BY DEF Object
    <2>2. QED
      BY <1>2, <2>1, BlockInQueueLocks DEF MutexLockContended
  <1>3. ASSUME NEW m \in Mutex, MutexUnlock(m) PROVE Locks'
    BY <1>3, UnlockLocks
  <1>4. ASSUME NEW s \in Sem, SemWaitTake(s) PROVE Locks'
    <2>1. /\ s \in Object /\ value[s] # 0
          /\ value' = [value EXCEPT ![s] = @ - 1]
          /\ UNCHANGED <<status, idOf, runs, owner, lockedQueue, locking>>
      BY <1>4 DEF SemWaitTake, Object
    <2>2. \A o \in Object : o # s => value'[o] = value[o]
      BY <2>1 DEF IInv, TypeOK
    <2>3. lockedQueue[s] = <<>>
      BY <2>1 DEF IInv, Locks, NoLostWakeup
    <2>4. NoLostWakeup' /\ LockWords' /\ KilledNoClaim'
      BY <2>1, <2>2, <2>3 DEF IInv, Locks, NoLostWakeup, LockWords, KilledNoClaim, Object
    <2>5. HolderOwns'
      BY <2>1, <2>2 DEF IInv, Locks, HolderOwns, InCriticalSection, Queued, Object
    <2>6. QED
      BY <2>4, <2>5 DEF Locks
  <1>5. ASSUME NEW s \in Sem, SemWaitBlock(s) PROVE Locks'
    <2>1. s \in Object /\ s \notin Mutex /\ {s} \cap Mutex = {}
      BY DEF Object
    <2>2. current \in Tcb /\ locking = [locking EXCEPT ![current] = @ \cup {}]
      BY <1>5, CurrentIsReady DEF SemWaitBlock, IInv, TypeOK
    <2>3. QED
      BY <1>5, <2>1, <2>2, BlockInQueueLocks DEF SemWaitBlock
  <1>6. ASSUME NEW s \in Sem, SemSignal(s) PROVE Locks'
    BY <1>6, SignalLocks
  <1>7. ASSUME NEW n \in 1 .. MaxTicks, SleepCurrentThread(n) PROVE Locks'
    <2>1. /\ current \in Tcb /\ runs[current] = 1
          /\ UNCHANGED <<value, owner, lockedQueue, locking, idOf>>
          /\ \A t \in Tcb : status'[t] \in {"FREE", "DEAD"} => status[t] \in {"FREE", "DEAD"}
      BY <1>7, CurrentIsReady DEF SleepCurrentThread, IInv, TypeOK
    <2>2. \A t \in Tcb : runs'[t] > 0 => runs[t] > 0
      BY <1>7, <2>1 DEF SleepCurrentThread, BlockCurrent, IInv, TypeOK
    <2>3. QED
      BY <2>1, <2>2, LocksFrame
  <1>8. CASE Tick
    <2>1. /\ UNCHANGED <<value, owner, lockedQueue, locking, idOf>>
          /\ \A t \in Tcb : status'[t] \in {"FREE", "DEAD"} => status[t] \in {"FREE", "DEAD"}
      BY <1>8 DEF Tick
    <2>2. \A t \in Tcb : runs'[t] > 0 => runs[t] > 0 \/ \A o \in Object : ~ Queued(t, o)
      BY <1>8 DEF Tick, IInv, TcbsExact, OnePlace
    <2>3. QED
      BY <2>1, <2>2, LocksFrame
  <1>9. CASE IdleYield
    BY <1>9, LocksFrame DEF IdleYield
  <1>10. ASSUME NEW t \in Tcb, NEW x, NewThread(t, x) PROVE Locks'
    <2>1. UNCHANGED <<value, owner, lockedQueue>>
      BY <1>10 DEF NewThread
    <2>2. locking'[t] = {}
      BY <1>10 DEF NewThread, IInv, TypeOK
    <2>3. \A u \in Tcb : u # t => /\ locking'[u] = locking[u] /\ idOf'[u] = idOf[u]
                                 /\ status'[u] = status[u] /\ runs'[u] = runs[u]
      BY <1>10 DEF NewThread, IInv, TypeOK
    <2>4. QED
      BY <2>1, <2>2, <2>3, LocksFrame
  <1>11. ASSUME NEW K, Kill(K) PROVE Locks'
    <2>1. UNCHANGED <<value, owner, lockedQueue, idOf>>
      BY <1>11 DEF Kill
    <2>2. \A t \in Tcb : t \in K => locking'[t] = {}
      BY <1>11 DEF Kill
    <2>3. \A t \in Tcb : t \notin K => /\ locking'[t] = locking[t]
                                      /\ status'[t] = status[t] /\ runs'[t] = runs[t]
      BY <1>11 DEF Kill
    <2>4. QED
      BY <2>1, <2>2, <2>3, LocksFrame
  <1>12. CASE UNCHANGED vars
    BY <1>12, LocksFrame DEF vars
  <1>13. QED
    BY <1>1, <1>2, <1>3, <1>4, <1>5, <1>6, <1>7, <1>8, <1>9, <1>10, <1>11, <1>12
       DEF Next, CreateThread, CreateProcess, KillThread, KillProcess

\* The inductive invariant holds of every reachable kernel state.
THEOREM Invariance == Spec => []IInv
  <1> USE ThreadSyncAssumption
  <1>1. Init => IInv
    <2> SUFFICES ASSUME Init PROVE IInv
      OBVIOUS
    <2>1. PICK t \in Tcb, p \in Pid :
            /\ status = [u \in Tcb |-> IF u = t THEN "READY" ELSE "FREE"]
            /\ idOf = [u \in Tcb |-> <<p, 0>>]
            /\ threadList = [x \in ThreadId |-> IF x = <<p, 0>> THEN t ELSE NoThread]
            /\ runs = [u \in Tcb |-> IF u = t THEN 1 ELSE 0]
      BY DEF Init
    <2>2. \A m \in Mutex : value[m] = 0
      BY DEF Init, Object
    <2>3. /\ current = Idle /\ lockedQueue = [o \in Object |-> <<>>]
          /\ ticksLeft = [u \in Tcb |-> 0] /\ locking = [u \in Tcb |-> {}]
      BY DEF Init
    <2>4. <<p, 0>> \in ThreadId
      BY DEF ThreadId
    <2>5. TypeOK
      BY DEF Init, TypeOK, Object, ThreadId, NoOwner
    <2>6. \A u \in Tcb, o \in Object : ~ Queued(u, o)
      BY <2>3 DEF Queued
    <2>7. OnePlace
      BY <2>1, <2>3, <2>6 DEF OnePlace
    <2>8. NoDanglingTcb
      BY <2>1, <2>3, <2>4, <2>6 DEF NoDanglingTcb
    <2>9. NoLostTcb
      BY <2>1, <2>3, <2>4, <2>6 DEF NoLostTcb
    <2>10. Locks
      BY <2>2, <2>3 DEF Locks, NoLostWakeup, LockWords, KilledNoClaim, HolderOwns,
                        InCriticalSection
    <2>11. QED
      BY <2>5, <2>7, <2>8, <2>9, <2>10 DEF IInv, TcbsExact
  <1>2. IInv /\ [Next]_vars => TcbsExact'
    BY PlacesStep DEF IInv
  <1>3. IInv /\ [Next]_vars => Locks'
    BY <1>2, LocksStep
  <1>4. TypeOK /\ [Next]_vars => TypeOK'
    BY TypeStep
  <1>5. IInv /\ [Next]_vars => IInv'
    BY <1>2, <1>3, <1>4 DEF IInv
  <1>6. QED
    BY <1>1, <1>5, PTL DEF Spec

-----------------------------------------------------------------------------
\* mutex.c keeps its promise for any number of threads: the owner fields admit
\* one live thread, and only that thread is inside.
THEOREM MutualExclusionHolds == Spec => []MutualExclusion
  <1>1. IInv => MutualExclusion
    <2> SUFFICES ASSUME IInv, NEW m \in Mutex, NEW t \in Tcb, NEW u \in Tcb,
                        InCriticalSection(t, m), InCriticalSection(u, m)
                 PROVE  t = u
      BY DEF MutualExclusion
    <2>1. status[u] \notin {"FREE", "DEAD"}
      BY DEF IInv, Locks, KilledNoClaim, InCriticalSection
    <2>2. idOf[u] = owner[m]
      BY DEF IInv, Locks, HolderOwns
    <2>3. QED
      BY <2>1, <2>2, HolderIsUnique
  <1>2. QED
    BY <1>1, Invariance, PTL

\* The thread inside is the one the owner fields name.
THEOREM HolderOwnsHolds == Spec => []HolderOwns
  BY Invariance, PTL DEF IInv, Locks

\* A live thread is in one scheduler structure, once.
THEOREM OnePlaceHolds == Spec => []OnePlace
  BY Invariance, PTL DEF IInv, TcbsExact

\* No structure of the kernel lists a freed TCB.
THEOREM NoDanglingTcbHolds == Spec => []NoDanglingTcb
  BY Invariance, PTL DEF IInv, TcbsExact

\* Every allocated TCB can be reached from the structure that will free or run it.
THEOREM NoLostTcbHolds == Spec => []NoLostTcb
  BY Invariance, PTL DEF IInv, TcbsExact

\* The three: every TCB is in the one structure that its state calls for.
THEOREM TcbsExactHolds == Spec => []TcbsExact
  BY Invariance, PTL DEF IInv

\* No thread waits for what is there to be taken.
THEOREM NoLostWakeupHolds == Spec => []NoLostWakeup
  BY Invariance, PTL DEF IInv, Locks

=============================================================================
