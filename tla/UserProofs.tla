----------------------------- MODULE UserProofs -----------------------------
(***************************************************************************)
(* Proofs about the parts of User: threads of a process that are joined    *)
(* and cancelled (ThreadLife), and the programs and the shell, each with   *)
(* its inductive invariant; at the end those about the composition.        *)
(***************************************************************************)
EXTENDS User, SequenceTheorems, FiniteSetTheorems, WellFoundedInduction, TLAPS

-----------------------------------------------------------------------------
(* ThreadLife: any number of TCBs and of tids.                             *)

\* The inductive strengthening.  Types.
TypeOK ==
    /\ threadList \in [Tid -> Tcb \cup {0}]
    /\ status \in [Tcb -> {"free", "ready", "away", "dead", "ended", "off", "lost"}]
    /\ joining \in [Tcb -> BOOLEAN]
    /\ value \in [Tcb -> Nat]
    /\ queue \in [Tcb -> Seq(Tcb)]
    /\ join \in [Tcb -> [tid : Tid, tcb : Tcb] \cup {Nothing}]
    /\ ending \in Tcb \cup {0}

\* A TCB is under one tid, from its creation to its end or to the return of its joiner.
Table ==
    /\ status[MainTcb] \in {"ready", "away"}
    /\ \A tid \in Tid : threadList[tid] # 0 =>
          threadList[tid] # MainTcb /\ status[threadList[tid]] \in {"ready", "away", "ended", "off"}
    /\ \A tid, id \in Tid : threadList[tid] = threadList[id] /\ threadList[tid] # 0 => tid = id
    /\ \A t \in Tcb \ {MainTcb} : status[t] \in {"free", "dead", "off", "lost"} \/ \E tid \in Tid : threadList[tid] = t

\* c sleeps until t ends, or was woken because it did.
Asleep(c, t) == status[c] = "away" /\ queue[t] = <<c>> /\ status[t] \in {"ready", "away", "off"}
Woken(c, t) == status[c] = "ready" /\ queue[t] = <<>> /\ status[t] = "ended"

\* Who joins does so alone.
Joiners ==
    \A c \in Tcb : join[c] # Nothing =>
        /\ threadList[join[c].tid] = join[c].tcb /\ joining[join[c].tcb]
        /\ Asleep(c, join[c].tcb) \/ Woken(c, join[c].tcb)
        /\ \A d \in Tcb : join[d] # Nothing /\ join[d].tcb = join[c].tcb => d = c

\* Whom somebody is said to join has a joiner, and only those have one; nobody ended twice.
Joined ==
    \A t \in Tcb :
        /\ \/ status[t] \in {"ready", "away", "off"} /\ joining[t]
           \/ status[t] = "ended"
           \/ queue[t] # <<>>
           => \E c \in Tcb : join[c] # Nothing /\ join[c].tcb = t
        /\ value[t] = 0

\* Who is in threadWrapper's killThread has left the scheduler.
Leaving == ending # 0 => status[ending] = "off"

IInv == TypeOK /\ Table /\ Joiners /\ Joined /\ Leaving

-----------------------------------------------------------------------------
\* The signal of a TCB with one waiter wakes it.
LEMMA SignalWakes ==
    ASSUME NEW t \in Tcb, NEW c \in Tcb, queue[t] = <<c>>, TypeOK, NEW now, now[c] # "dead", Signal(t, now)
    PROVE  /\ queue' = [queue EXCEPT ![t] = <<>>]
           /\ value' = value /\ join' = join
           /\ status' = [d \in Tcb |-> IF d = c THEN "ready" ELSE now[d]]
  <1> DEFINE I == {i \in 1 .. Len(queue[t]) : now[queue[t][i]] # "dead"}
             k == IF I # {} THEN Min(I) ELSE 0
             passed == {queue[t][i] : i \in {i \in DOMAIN queue[t] : k = 0 \/ i < k}}
  <1>1. k = 1
    <2>1. I = {1}
      OBVIOUS
    <2>2. Min({1}) = 1
      BY DEF Min
    <2>3. QED
      BY <2>1, <2>2
  <1>2. /\ queue' = [queue EXCEPT ![t] = IF k = 0 THEN <<>> ELSE SubSeq(queue[t], k + 1, Len(queue[t]))]
        /\ value' = [value EXCEPT ![t] = IF k = 0 THEN @ + 1 ELSE @]
        /\ status' = [d \in Tcb |-> IF d \in passed THEN "free"
                                    ELSE IF k # 0 /\ d = queue[t][k] THEN "ready" ELSE now[d]]
        /\ join' = [d \in Tcb |-> IF d \in passed THEN Nothing ELSE join[d]]
    BY DEF Signal, SelectInSeq
  <1> HIDE DEF k
  <1>3. passed = {}
    BY <1>1
  <1>4. SubSeq(queue[t], 2, 1) = <<>> /\ Len(queue[t]) = 1 /\ queue[t][1] = c
    OBVIOUS
  <1>5. queue' = [queue EXCEPT ![t] = <<>>]
    <2>1. (IF k = 0 THEN <<>> ELSE SubSeq(queue[t], k + 1, Len(queue[t]))) = <<>>
      BY <1>1, <1>4
    <2>2. QED
      BY <1>2, <2>1
  <1>6. value' = value
    BY <1>1, <1>2 DEF TypeOK
  <1> HIDE DEF passed
  <1>7. join' = join
    BY <1>2, <1>3 DEF TypeOK
  <1>8. status' = [d \in Tcb |-> IF d = c THEN "ready" ELSE now[d]]
    <2>1. k # 0 /\ queue[t][k] = c
      BY <1>1, <1>4
    <2>2. QED
      BY <1>2, <1>3, <2>1
  <1>9. QED
    BY <1>5, <1>6, <1>7, <1>8

\* The table stays as it is while nobody in it is freed.
LEMMA TableStays ==
    ASSUME IInv, threadList' = threadList, status'[MainTcb] \in {"ready", "away"},
           \A t \in Tcb : status[t] \in {"free", "dead", "lost"} => status'[t] \in {"free", "dead", "lost"},
           \A t \in Tcb : status[t] \in {"ready", "away", "ended", "off"} => status'[t] \in {"ready", "away", "ended", "off"},
           \A t \in Tcb : status[t] = "off" => status'[t] = "off" \/ \E tid \in Tid : threadList[tid] = t
    PROVE  Table'
  <1>1. \A tid \in Tid : threadList[tid] # 0 =>
            threadList[tid] \in Tcb /\ threadList[tid] # MainTcb /\ status'[threadList[tid]] \in {"ready", "away", "ended", "off"}
    BY DEF IInv, TypeOK, Table
  <1>2. \A t \in Tcb \ {MainTcb} : status'[t] \in {"free", "dead", "off", "lost"} \/ \E tid \in Tid : threadList[tid] = t
    BY DEF IInv, Table
  <1>3. \A tid, id \in Tid : threadList[tid] = threadList[id] /\ threadList[tid] # 0 => tid = id
    BY DEF IInv, Table
  <1>4. QED
    BY <1>1, <1>2, <1>3 DEF Table

-----------------------------------------------------------------------------
\* One lemma for each call.
LEMMA CreateThreadStep ==
    ASSUME IInv, ending = 0, NEW c \in Tcb, NEW t \in Tcb, NEW tid \in Tid, CreateThread(c, t, tid)
    PROVE  IInv'
  <1>1. /\ status[t] = "free" /\ queue[t] = <<>> /\ threadList[tid] = 0
        /\ threadList' = [threadList EXCEPT ![tid] = t]
        /\ status' = [status EXCEPT ![t] = "ready"]
        /\ joining' = [joining EXCEPT ![t] = FALSE]
        /\ value' = [value EXCEPT ![t] = 0]
        /\ join' = [join EXCEPT ![t] = Nothing]
        /\ queue' = queue /\ ending' = 0
    BY DEF CreateThread
  <1>2. t # 0 /\ t # MainTcb /\ \A d \in Tcb : join[d].tcb # t
    BY <1>1, ThreadLifeAssumption DEF IInv, Table, CreateThread
  <1>3. \A id \in Tid : threadList[id] # t
    BY <1>1, <1>2 DEF IInv, Table
  <1>4. join[t] = Nothing
    BY <1>1 DEF IInv, Joiners, Asleep, Woken
  <1>5. join' = join
    BY <1>1, <1>4 DEF IInv, TypeOK
  <1>6. TypeOK'
    BY <1>1, <1>5 DEF IInv, TypeOK
  <1>7. Table'
    <2>1. /\ threadList'[tid] = t /\ \A id \in Tid \ {tid} : threadList'[id] = threadList[id]
          /\ status'[t] = "ready" /\ \A d \in Tcb \ {t} : status'[d] = status[d]
      BY <1>1 DEF IInv, TypeOK
    <2>2. status'[MainTcb] \in {"ready", "away"}
      BY <1>2, <2>1, ThreadLifeAssumption DEF IInv, Table
    <2>3. ASSUME NEW id \in Tid, threadList'[id] # 0
          PROVE  threadList'[id] # MainTcb /\ status'[threadList'[id]] \in {"ready", "away", "ended", "off"}
      <3>1. CASE id = tid
        BY <1>2, <2>1, <3>1
      <3>2. CASE id # tid
        <4>1. threadList[id] # 0 /\ threadList[id] \in Tcb /\ threadList[id] # t
          BY <1>3, <2>1, <2>3, <3>2 DEF IInv, TypeOK
        <4>2. QED
          BY <2>1, <3>2, <4>1 DEF IInv, Table
      <3>3. QED
        BY <3>1, <3>2
    <2>4. \A i, id \in Tid : threadList'[i] = threadList'[id] /\ threadList'[i] # 0 => i = id
      BY <1>3, <2>1 DEF IInv, Table
    <2>5. ASSUME NEW d \in Tcb \ {MainTcb}, status'[d] \notin {"free", "dead", "off", "lost"}
          PROVE  \E id \in Tid : threadList'[id] = d
      <3>1. CASE d = t
        BY <2>1, <3>1
      <3>2. CASE d # t
        <4>1. PICK id \in Tid : threadList[id] = d
          BY <2>1, <2>5, <3>2 DEF IInv, Table
        <4>2. id # tid
          BY <1>1, <4>1, ThreadLifeAssumption
        <4>3. QED
          BY <2>1, <4>1, <4>2
      <3>3. QED
        BY <3>1, <3>2
    <2>6. QED
      BY <2>2, <2>3, <2>4, <2>5 DEF Table
  <1>8. Joiners'
    <2> SUFFICES ASSUME NEW d \in Tcb, join[d] # Nothing
                 PROVE  /\ threadList'[join[d].tid] = join[d].tcb /\ joining'[join[d].tcb]
                        /\ Asleep(d, join[d].tcb)' \/ Woken(d, join[d].tcb)'
                        /\ \A e \in Tcb : join[e] # Nothing /\ join[e].tcb = join[d].tcb => e = d
      BY <1>5 DEF Joiners
    <2>1. d # t /\ join[d].tcb # t /\ join[d].tcb \in Tcb /\ join[d].tid \in Tid
      BY <1>2, <1>4 DEF IInv, TypeOK
    <2>2. join[d].tid # tid
      BY <1>1, <2>1, ThreadLifeAssumption DEF IInv, Joiners
    <2>3. QED
      BY <1>1, <1>5, <2>1, <2>2 DEF IInv, TypeOK, Joiners, Asleep, Woken
  <1>9. Joined'
    BY <1>1, <1>2, <1>5 DEF IInv, TypeOK, Joined
  <1>10. QED
    BY <1>1, <1>6, <1>7, <1>8, <1>9 DEF IInv, Leaving

\* Sleep, and its end: nothing but who is away changes, and who joins is not meant.
LEMMA SleepStep ==
    ASSUME IInv, ending = 0, NEW c \in Tcb, Sleep(c) \/ Back(c)
    PROVE  IInv'
  <1>1. /\ join[c] = Nothing
        /\ UNCHANGED <<threadList, joining, value, queue, join, ending>>
    BY DEF Sleep, Back, Runs
  <1>2. \/ status[c] = "ready" /\ status' = [status EXCEPT ![c] = "away"]
        \/ status[c] = "away" /\ status' = [status EXCEPT ![c] = "ready"]
        \/ status[c] = "dead" /\ status' = [status EXCEPT ![c] = "free"]
    BY DEF Sleep, Back, Runs
  <1>3. TypeOK'
    BY <1>1, <1>2 DEF IInv, TypeOK
  <1>4. Table'
    <2>1. \A t \in Tcb : status[t] \in {"free", "dead", "lost"} => status'[t] \in {"free", "dead", "lost"}
      BY <1>2 DEF IInv, TypeOK
    <2>2. \A t \in Tcb : status[t] \in {"ready", "away", "ended", "off"} => status'[t] \in {"ready", "away", "ended", "off"}
      BY <1>2 DEF IInv, TypeOK
    <2>3. status'[MainTcb] \in {"ready", "away"}
      BY <1>2, ThreadLifeAssumption DEF IInv, TypeOK, Table
    <2>4. \A t \in Tcb : status[t] = "off" => status'[t] = "off"
      BY <1>2 DEF IInv, TypeOK
    <2>5. QED
      BY <1>1, <2>1, <2>2, <2>3, <2>4, TableStays
  <1>5. Joiners'
    <2> SUFFICES ASSUME NEW d \in Tcb, join[d] # Nothing
                 PROVE  /\ threadList[join[d].tid] = join[d].tcb /\ joining[join[d].tcb]
                        /\ Asleep(d, join[d].tcb)' \/ Woken(d, join[d].tcb)'
                        /\ \A e \in Tcb : join[e] # Nothing /\ join[e].tcb = join[d].tcb => e = d
      BY <1>1 DEF Joiners
    <2>1. d # c /\ status'[d] = status[d] /\ join[d].tcb \in Tcb
      BY <1>1, <1>2 DEF IInv, TypeOK
    <2>2. /\ status[join[d].tcb] \in {"ready", "away", "off"} => status'[join[d].tcb] \in {"ready", "away", "off"}
          /\ status[join[d].tcb] = "ended" => status'[join[d].tcb] = "ended"
      BY <1>2, <2>1 DEF IInv, TypeOK
    <2>3. /\ threadList[join[d].tid] = join[d].tcb /\ joining[join[d].tcb]
          /\ Asleep(d, join[d].tcb) \/ Woken(d, join[d].tcb)
          /\ \A e \in Tcb : join[e] # Nothing /\ join[e].tcb = join[d].tcb => e = d
      BY DEF IInv, Joiners
    <2>4. QED
      BY <1>1, <2>1, <2>2, <2>3 DEF Asleep, Woken
  <1>6. Joined'
    BY <1>1, <1>2 DEF IInv, TypeOK, Joined
  <1>7. QED
    BY <1>1, <1>3, <1>4, <1>5, <1>6 DEF IInv, Leaving

\* A thread that nobody joins leaves the table.
LEMMA LeaveStep ==
    ASSUME IInv, NEW tid \in Tid, NEW t \in Tcb, threadList[tid] = t, ~joining[t],
           status[t] \notin {"dead", "lost"}, join[t] = Nothing, ending' = 0,
           threadList' = [threadList EXCEPT ![tid] = 0],
           status' = [status EXCEPT ![t] = After(@, "free")],
           UNCHANGED <<joining, value, queue, join>>
    PROVE  IInv'
  <1>1. t # MainTcb /\ t # 0
    BY ThreadLifeAssumption DEF IInv, Table
  <1>2. \A d \in Tcb : join[d] # Nothing => join[d].tcb # t
    BY DEF IInv, Joiners
  <1>3. status[t] # "ended"
    BY <1>2 DEF IInv, Joined
  <1>4. status'[t] \in {"free", "dead", "lost"} /\ \A d \in Tcb \ {t} : status'[d] = status[d]
    BY DEF IInv, TypeOK, After
  <1>5. TypeOK'
    BY <1>4 DEF IInv, TypeOK, After
  <1>6. Table'
    BY <1>1, <1>4 DEF IInv, TypeOK, Table
  <1>7. Joiners'
    <2> SUFFICES ASSUME NEW d \in Tcb, join[d] # Nothing
                 PROVE  /\ threadList'[join[d].tid] = join[d].tcb /\ joining'[join[d].tcb]
                        /\ Asleep(d, join[d].tcb)' \/ Woken(d, join[d].tcb)'
                        /\ \A e \in Tcb : join[e] # Nothing /\ join[e].tcb = join[d].tcb => e = d
      BY DEF Joiners
    <2>1. d # t /\ join[d].tcb # t /\ join[d].tcb \in Tcb /\ join[d].tid \in Tid
      BY <1>2 DEF IInv, TypeOK
    <2>2. join[d].tid # tid
      BY <2>1 DEF IInv, Joiners
    <2>3. QED
      BY <1>4, <2>1, <2>2 DEF IInv, TypeOK, Joiners, Asleep, Woken
  <1>8. Joined'
    BY <1>3, <1>4 DEF IInv, TypeOK, Joined
  <1>9. QED
    BY <1>5, <1>6, <1>7, <1>8 DEF IInv, Leaving

\* A thread that ends while somebody joins it wakes that one, and stays under its tid.
LEMMA EndStep ==
    ASSUME IInv, NEW tid \in Tid, NEW t \in Tcb, threadList[tid] = t, joining[t],
           status[t] \in {"ready", "off"}, join[t] = Nothing, ending' = 0,
           Signal(t, [status EXCEPT ![t] = "ended"]), UNCHANGED <<threadList, joining>>
    PROVE  IInv'
  <1>1. status[t] \in {"ready", "off"} /\ join[t] = Nothing
    OBVIOUS
  <1>2. PICK c \in Tcb : join[c] # Nothing /\ join[c].tcb = t
    BY <1>1 DEF IInv, Joined
  <1>3. Asleep(c, t) /\ c # t
    BY <1>1, <1>2 DEF IInv, Joiners, Woken
  <1> DEFINE now == [status EXCEPT ![t] = "ended"]
  <1>4. now[c] # "dead"
    BY <1>1, <1>3 DEF IInv, TypeOK, Asleep
  <1>5. /\ queue' = [queue EXCEPT ![t] = <<>>]
        /\ value' = value /\ join' = join
        /\ status' = [d \in Tcb |-> IF d = c THEN "ready" ELSE now[d]]
    <2>1. Signal(t, now) /\ queue[t] = <<c>> /\ TypeOK
      BY <1>3 DEF IInv, Asleep
    <2>2. now[c] # "dead"
      BY <1>4
    <2> HIDE DEF now
    <2>3. QED
      BY <2>1, <2>2, SignalWakes
  <1>6. /\ status'[c] = "ready" /\ status'[t] = "ended"
        /\ \A d \in Tcb \ {c, t} : status'[d] = status[d]
    BY <1>3, <1>4, <1>5 DEF IInv, TypeOK
  <1>7. TypeOK'
    BY <1>4, <1>5 DEF IInv, TypeOK
  <1>8. Table'
    <2>1. status[c] = "away" /\ t # MainTcb
      BY <1>3, ThreadLifeAssumption DEF IInv, Table, Asleep
    <2>2. status'[MainTcb] \in {"ready", "away"}
      BY <1>6, <2>1, ThreadLifeAssumption DEF IInv, Table
    <2>3. \A d \in Tcb : status[d] \in {"free", "dead", "lost"} => status'[d] \in {"free", "dead", "lost"}
      BY <1>1, <1>6, <2>1
    <2>4. \A d \in Tcb : status[d] \in {"ready", "away", "ended", "off"} => status'[d] \in {"ready", "away", "ended", "off"}
      BY <1>1, <1>6, <2>1
    <2>5. \A d \in Tcb : status[d] = "off" => status'[d] = "off" \/ \E id \in Tid : threadList[id] = d
      BY <1>6, <2>1
    <2>6. QED
      BY <2>2, <2>3, <2>4, <2>5, TableStays
  <1>9. Joiners'
    <2> SUFFICES ASSUME NEW d \in Tcb, join[d] # Nothing
                 PROVE  /\ threadList[join[d].tid] = join[d].tcb /\ joining[join[d].tcb]
                        /\ Asleep(d, join[d].tcb)' \/ Woken(d, join[d].tcb)'
                        /\ \A e \in Tcb : join[e] # Nothing /\ join[e].tcb = join[d].tcb => e = d
      BY <1>5 DEF Joiners
    <2>1. join[d].tcb \in Tcb /\ d # t
      BY <1>1 DEF IInv, TypeOK
    <2>2. CASE d = c
      BY <1>2, <1>5, <1>6, <2>2 DEF IInv, TypeOK, Joiners, Woken
    <2>3. CASE d # c
      <3>1. join[d].tcb # t
        BY <1>2, <2>3 DEF IInv, Joiners
      <3>2. status'[d] = status[d] /\ queue'[join[d].tcb] = queue[join[d].tcb]
        BY <1>5, <1>6, <2>1, <2>3, <3>1 DEF IInv, TypeOK
      <3>3. status[join[d].tcb] \in {"ready", "away", "off"} <=> status'[join[d].tcb] \in {"ready", "away", "off"}
        BY <1>3, <1>6, <2>1, <3>1 DEF Asleep
      <3>4. status[join[d].tcb] = "ended" <=> status'[join[d].tcb] = "ended"
        BY <1>3, <1>6, <2>1, <3>1 DEF Asleep
      <3>5. /\ threadList[join[d].tid] = join[d].tcb /\ joining[join[d].tcb]
            /\ Asleep(d, join[d].tcb) \/ Woken(d, join[d].tcb)
            /\ \A e \in Tcb : join[e] # Nothing /\ join[e].tcb = join[d].tcb => e = d
        BY DEF IInv, Joiners
      <3>6. QED
        BY <1>5, <3>2, <3>3, <3>4, <3>5 DEF Asleep, Woken
    <2>4. QED
      BY <2>2, <2>3
  <1>10. Joined'
    <2> SUFFICES ASSUME NEW d \in Tcb
                 PROVE  /\ \/ status'[d] \in {"ready", "away", "off"} /\ joining[d]
                           \/ status'[d] = "ended"
                           \/ queue'[d] # <<>>
                           => \E e \in Tcb : join[e] # Nothing /\ join[e].tcb = d
                        /\ value[d] = 0
      BY <1>5 DEF Joined
    <2>1. CASE d = t
      BY <1>2, <2>1 DEF IInv, Joined
    <2>2. CASE d # t
      <3>1. /\ queue'[d] = queue[d]
            /\ status'[d] \in {"ready", "away", "off"} => status[d] \in {"ready", "away", "off"}
            /\ status'[d] = "ended" => status[d] = "ended"
        BY <1>3, <1>5, <1>6, <2>2 DEF IInv, TypeOK, Asleep
      <3>2. QED
        BY <3>1 DEF IInv, Joined
    <2>3. QED
      BY <2>1, <2>2
  <1>11. QED
    BY <1>7, <1>8, <1>9, <1>10 DEF IInv, Leaving

\* killThread keeps the invariant.
LEMMA KillThreadStep ==
    ASSUME Careful, IInv, ending = 0, NEW c \in Tcb, NEW tid \in Tid, KillThread(c, tid)
    PROVE  IInv'
  <1> DEFINE t == threadList[tid]
  <1>1. t \in Tcb
    BY DEF KillThread, IInv, TypeOK
  <1>2. /\ Runs(c) /\ status[t] \notin {"dead", "lost"} /\ join[t] = Nothing
        /\ joining[t] => c = t
        /\ Finish(tid, t) /\ ending' = 0
    BY DEF KillThread
  <1>3. CASE joining[t]
    <2>1. status[t] = "ready"
      BY <1>2, <1>3 DEF Runs
    <2>2. [status EXCEPT ![t] = After(@, "ended")] = [status EXCEPT ![t] = "ended"]
      BY <1>1, <2>1 DEF After, IInv, TypeOK
    <2>3. Signal(t, [status EXCEPT ![t] = "ended"]) /\ UNCHANGED <<threadList, joining>>
      BY <1>2, <1>3, <2>2 DEF Finish
    <2>4. QED
      BY <1>1, <1>2, <1>3, <2>1, <2>3, EndStep
  <1>4. CASE ~joining[t]
    BY <1>1, <1>2, <1>4, LeaveStep DEF Finish
  <1>5. QED
    BY <1>3, <1>4

\* A join sleeps, because nobody ended in the table before it was joined.
LEMMA JoinStep ==
    ASSUME Careful, IInv, ending = 0, NEW c \in Tcb, NEW tid \in Tid, Join(c, tid)
    PROVE  IInv'
  <1> DEFINE t == threadList[tid]
  <1>1. t \in Tcb /\ t # 0 /\ t # c /\ ~joining[t] /\ status[c] = "ready" /\ join[c] = Nothing
    BY DEF Join, Runs, IInv, TypeOK
  <1>2. value[t] = 0
    BY <1>1 DEF IInv, Joined
  <1>3. /\ joining' = [joining EXCEPT ![t] = TRUE]
        /\ queue' = [queue EXCEPT ![t] = Append(@, c)]
        /\ status' = [status EXCEPT ![c] = "away"]
        /\ join' = [join EXCEPT ![c] = [tid |-> tid, tcb |-> t]]
        /\ UNCHANGED <<threadList, value, ending>>
    BY <1>2 DEF Join
  <1>4. \A d \in Tcb : join[d] # Nothing => join[d].tcb # t
    BY <1>1 DEF IInv, Joiners
  <1>5. queue[t] = <<>> /\ status[t] \in {"ready", "away", "off"} /\ t # MainTcb
    BY <1>1, <1>4 DEF IInv, Joined, Table
  <1>6. queue' = [queue EXCEPT ![t] = <<c>>]
    BY <1>1, <1>3, <1>5
  <1>7. join'[c] = [tid |-> tid, tcb |-> t] /\ join'[c] # Nothing /\ \A d \in Tcb \ {c} : join'[d] = join[d]
    BY <1>1, <1>3 DEF IInv, TypeOK, Nothing
  <1> HIDE DEF t
  <1>8. TypeOK'
    <2>1. <<c>> \in Seq(Tcb)
      OBVIOUS
    <2>2. queue' \in [Tcb -> Seq(Tcb)]
      BY <1>6, <2>1 DEF IInv, TypeOK
    <2>3. join' \in [Tcb -> [tid : Tid, tcb : Tcb] \cup {Nothing}]
      BY <1>1, <1>3 DEF IInv, TypeOK
    <2>4. QED
      BY <1>3, <2>2, <2>3 DEF IInv, TypeOK
  <1>9. Table'
    BY <1>1, <1>3 DEF IInv, TypeOK, Table
  <1>10. Joiners'
    <2> SUFFICES ASSUME NEW d \in Tcb, join'[d] # Nothing
                 PROVE  /\ threadList[join'[d].tid] = join'[d].tcb /\ joining'[join'[d].tcb]
                        /\ Asleep(d, join[d].tcb)' \/ Woken(d, join[d].tcb)'
                        /\ \A e \in Tcb : join'[e] # Nothing /\ join'[e].tcb = join'[d].tcb => e = d
      BY <1>3 DEF Joiners
    <2>1. CASE d = c
      <3>1. join'[d].tid = tid /\ join'[d].tcb = t
        BY <1>7, <2>1
      <3>2. Asleep(d, join[d].tcb)'
        <4>1. status'[c] = "away" /\ status'[t] = status[t] /\ queue'[t] = <<c>>
          BY <1>1, <1>3, <1>6 DEF IInv, TypeOK
        <4>2. QED
          BY <1>5, <2>1, <3>1, <4>1 DEF Asleep
      <3>3. \A e \in Tcb : join'[e] # Nothing /\ join'[e].tcb = t => e = d
        BY <1>4, <1>7, <2>1
      <3>4. threadList[tid] = t /\ joining'[t]
        BY <1>1, <1>3 DEF IInv, TypeOK, t
      <3>5. QED
        BY <3>1, <3>2, <3>3, <3>4
    <2>2. CASE d # c
      <3>1. join'[d] = join[d] /\ join[d] # Nothing /\ join[d].tcb # t /\ join[d].tcb \in Tcb
        BY <1>4, <1>7, <2>2 DEF IInv, TypeOK
      <3>2. /\ threadList[join[d].tid] = join[d].tcb /\ joining[join[d].tcb]
            /\ Asleep(d, join[d].tcb) \/ Woken(d, join[d].tcb)
        BY <3>1 DEF IInv, Joiners
      <3>3. queue'[join[d].tcb] = queue[join[d].tcb] /\ joining'[join[d].tcb] = joining[join[d].tcb]
        BY <1>3, <1>6, <3>1 DEF IInv, TypeOK
      <3>4. status'[d] = status[d] /\ status[c] = "ready" /\ status'[c] = "away"
            /\ \A e \in Tcb \ {c} : status'[e] = status[e]
        BY <1>1, <1>3, <2>2 DEF IInv, TypeOK
      <3>5. Asleep(d, join[d].tcb)' \/ Woken(d, join[d].tcb)'
        BY <3>1, <3>2, <3>3, <3>4 DEF Asleep, Woken
      <3>6. \A e \in Tcb : join'[e] # Nothing /\ join'[e].tcb = join[d].tcb => e = d
        BY <1>7, <3>1 DEF IInv, Joiners
      <3>7. QED
        BY <3>1, <3>2, <3>3, <3>5, <3>6
    <2>3. QED
      BY <2>1, <2>2
  <1>11. Joined'
    <2> SUFFICES ASSUME NEW d \in Tcb
                 PROVE  /\ \/ status'[d] \in {"ready", "away", "off"} /\ joining'[d]
                           \/ status'[d] = "ended"
                           \/ queue'[d] # <<>>
                           => \E e \in Tcb : join'[e] # Nothing /\ join'[e].tcb = d
                        /\ value[d] = 0
      BY <1>3 DEF Joined
    <2>1. CASE d = t
      BY <1>7, <2>1 DEF IInv, Joined
    <2>2. CASE d # t
      <3>1. /\ queue'[d] = queue[d] /\ joining'[d] = joining[d]
            /\ status'[d] \in {"ready", "away", "off"} => status[d] \in {"ready", "away", "off"}
            /\ status'[d] = "ended" => status[d] = "ended"
        BY <1>1, <1>3, <1>6, <2>2 DEF IInv, TypeOK
      <3>2. ASSUME NEW e \in Tcb, join[e] # Nothing, join[e].tcb = d
            PROVE  join'[e] # Nothing /\ join'[e].tcb = d
        BY <1>1, <1>7, <3>2
      <3>3. QED
        BY <3>1, <3>2 DEF IInv, Joined
    <2>3. QED
      BY <2>1, <2>2
  <1>12. QED
    BY <1>3, <1>8, <1>9, <1>10, <1>11 DEF IInv, Leaving

\* The joiner that returns frees the TCB that was kept for it.
LEMMA JoinReturnStep ==
    ASSUME IInv, ending = 0, NEW c \in Tcb, JoinReturn(c)
    PROVE  IInv'
  <1> DEFINE t == join[c].tcb
             tid == join[c].tid
  <1>1. /\ join[c] # Nothing /\ status[c] = "ready" /\ t \in Tcb /\ tid \in Tid
    BY DEF JoinReturn, IInv, TypeOK
  <1>2. threadList[tid] = t /\ joining[t] /\ Woken(c, t) /\ t # c
    BY <1>1 DEF IInv, Joiners, Asleep, Woken
  <1>3. /\ threadList' = [threadList EXCEPT ![tid] = 0]
        /\ status' = [status EXCEPT ![t] = "free"]
        /\ join' = [join EXCEPT ![c] = Nothing]
        /\ UNCHANGED <<joining, value, queue, ending>>
    BY <1>1, <1>2 DEF JoinReturn, Woken, IInv, TypeOK
  <1>4. \A d \in Tcb \ {c} : join[d] # Nothing => join[d].tcb # t /\ d # t
    BY <1>1, <1>2 DEF IInv, Joiners, Asleep, Woken
  <1>5. join'[c] = Nothing /\ \A d \in Tcb \ {c} : join'[d] = join[d]
    BY <1>3 DEF IInv, TypeOK
  <1>6. t # MainTcb /\ t # 0
    BY <1>1, <1>2, ThreadLifeAssumption DEF IInv, Table
  <1> HIDE DEF t, tid
  <1>7. TypeOK'
    BY <1>1, <1>3 DEF IInv, TypeOK
  <1>8. Table'
    BY <1>1, <1>2, <1>3, <1>6 DEF IInv, TypeOK, Table
  <1>9. Joiners'
    <2> SUFFICES ASSUME NEW d \in Tcb, join'[d] # Nothing
                 PROVE  /\ threadList'[join'[d].tid] = join'[d].tcb /\ joining[join'[d].tcb]
                        /\ Asleep(d, join[d].tcb)' \/ Woken(d, join[d].tcb)'
                        /\ \A e \in Tcb : join'[e] # Nothing /\ join'[e].tcb = join'[d].tcb => e = d
      BY <1>3 DEF Joiners
    <2>1. d # c /\ d # t /\ join'[d] = join[d] /\ join[d] # Nothing /\ join[d].tcb # t
      BY <1>4, <1>5
    <2>2. join[d].tcb \in Tcb /\ join[d].tid \in Tid /\ join[d].tid # tid
      BY <1>2, <2>1 DEF IInv, TypeOK, Joiners
    <2>3. /\ threadList[join[d].tid] = join[d].tcb /\ joining[join[d].tcb]
          /\ Asleep(d, join[d].tcb) \/ Woken(d, join[d].tcb)
      BY <2>1 DEF IInv, Joiners
    <2>4. /\ threadList'[join[d].tid] = threadList[join[d].tid]
          /\ status'[d] = status[d] /\ status'[join[d].tcb] = status[join[d].tcb]
      BY <1>3, <2>1, <2>2 DEF IInv, TypeOK
    <2>5. Asleep(d, join[d].tcb)' \/ Woken(d, join[d].tcb)'
      BY <1>3, <2>1, <2>3, <2>4 DEF Asleep, Woken
    <2>6. \A e \in Tcb : join'[e] # Nothing /\ join'[e].tcb = join[d].tcb => e = d
      BY <1>5, <2>1 DEF IInv, Joiners
    <2>7. QED
      BY <2>1, <2>3, <2>4, <2>5, <2>6
  <1>10. Joined'
    <2> SUFFICES ASSUME NEW d \in Tcb
                 PROVE  /\ \/ status'[d] \in {"ready", "away", "off"} /\ joining[d]
                           \/ status'[d] = "ended"
                           \/ queue[d] # <<>>
                           => \E e \in Tcb : join'[e] # Nothing /\ join'[e].tcb = d
                        /\ value[d] = 0
      BY <1>3 DEF Joined
    <2>1. CASE d = t
      BY <1>1, <1>2, <1>3, <2>1 DEF IInv, TypeOK, Joined, Woken
    <2>2. CASE d # t
      <3>1. status'[d] = status[d]
        BY <1>3, <2>2 DEF IInv, TypeOK
      <3>2. ASSUME NEW e \in Tcb, join[e] # Nothing, join[e].tcb = d
            PROVE  join'[e] # Nothing /\ join'[e].tcb = d
        BY <1>5, <2>2, <3>2 DEF t
      <3>3. QED
        BY <3>1, <3>2 DEF IInv, Joined
    <2>3. QED
      BY <2>1, <2>2
  <1>11. QED
    BY <1>3, <1>7, <1>8, <1>9, <1>10 DEF IInv, Leaving

\* threadWrapper: a thread that returns is off the scheduler, and still what it was to the others.
LEMMA ReturnStep ==
    ASSUME IInv, ending = 0, NEW c \in Tcb, NEW tid \in Tid, Return(c, tid)
    PROVE  IInv'
  <1>1. /\ status[c] = "ready" /\ join[c] = Nothing /\ threadList[tid] = c
        /\ status' = [status EXCEPT ![c] = "off"] /\ ending' = c
        /\ UNCHANGED <<threadList, joining, value, queue, join>>
    BY DEF Return, Runs
  <1>2. c # MainTcb
    BY <1>1, ThreadLifeAssumption DEF IInv, Table
  <1>3. status'[c] = "off" /\ \A d \in Tcb \ {c} : status'[d] = status[d]
    BY <1>1 DEF IInv, TypeOK
  <1>4. TypeOK'
    BY <1>1 DEF IInv, TypeOK
  <1>5. Table'
    BY <1>1, <1>2, <1>3, ThreadLifeAssumption DEF IInv, TypeOK, Table
  <1>6. Joiners'
    BY <1>1, <1>3 DEF IInv, TypeOK, Joiners, Asleep, Woken
  <1>7. Joined'
    BY <1>1, <1>3 DEF IInv, TypeOK, Joined
  <1>8. QED
    BY <1>1, <1>3, <1>4, <1>5, <1>6, <1>7 DEF IInv, Leaving

\* What is left of killThread, or a tick.
LEMMA RestStep ==
    ASSUME IInv, End
    PROVE  IInv'
  <1>1. /\ ending # 0 /\ ending \in Tcb /\ status[ending] = "off" /\ ending # MainTcb
        /\ join[ending] = Nothing
    BY DEF End, EndErase, EndSignal, EndTick, EndUnlist, IInv, TypeOK, Leaving, Table, Joiners, Asleep, Woken
  <1>2. ASSUME ~joining[ending]
        PROVE  \A d \in Tcb : join[d] # Nothing => join[d].tcb # ending
    BY <1>2 DEF IInv, Joiners
  <1>3. CASE EndSignal
    <2>1. PICK c \in Tcb : join[c] # Nothing /\ join[c].tcb = ending
      BY <1>1, <1>3 DEF EndSignal, IInv, Joined
    <2>2. threadList[join[c].tid] = ending /\ join[c].tid \in Tid
      BY <2>1 DEF IInv, TypeOK, Joiners
    <2>3. QED
      BY <1>1, <1>3, <2>2, EndStep DEF EndSignal
  <1>4. CASE EndErase
    <2>1. /\ ~joining[ending] /\ \A tid \in Tid : threadList[tid] # ending
          /\ status' = [status EXCEPT ![ending] = "free"] /\ ending' = 0
          /\ UNCHANGED <<threadList, joining, value, queue, join>>
      BY <1>4 DEF EndErase
    <2>2. status'[ending] = "free" /\ \A d \in Tcb \ {ending} : status'[d] = status[d]
      BY <1>1, <2>1 DEF IInv, TypeOK
    <2>3. TypeOK' /\ Table'
      BY <1>1, <2>1, <2>2, ThreadLifeAssumption DEF IInv, TypeOK, Table
    <2>4. Joiners'
      BY <1>1, <1>2, <2>1, <2>2 DEF IInv, TypeOK, Joiners, Asleep, Woken
    <2>5. Joined'
      BY <2>1, <2>2 DEF IInv, TypeOK, Joined
    <2>6. QED
      BY <2>1, <2>3, <2>4, <2>5 DEF IInv, Leaving
  <1>5. ASSUME NEW tid \in Tid, EndUnlist(tid)
        PROVE  IInv'
    <2>1. /\ threadList[tid] = ending /\ ~joining[ending]
          /\ threadList' = [threadList EXCEPT ![tid] = 0]
          /\ UNCHANGED <<status, joining, value, queue, join, ending>>
      BY <1>5 DEF EndUnlist
    <2>2. TypeOK' /\ Table'
      BY <1>1, <2>1, ThreadLifeAssumption DEF IInv, TypeOK, Table
    <2>3. Joiners'
      <3> SUFFICES ASSUME NEW d \in Tcb, join[d] # Nothing
                   PROVE  /\ threadList'[join[d].tid] = join[d].tcb /\ joining[join[d].tcb]
                          /\ Asleep(d, join[d].tcb) \/ Woken(d, join[d].tcb)
                          /\ \A e \in Tcb : join[e] # Nothing /\ join[e].tcb = join[d].tcb => e = d
        BY <2>1 DEF Joiners, Asleep, Woken
      <3>1. join[d].tcb # ending /\ join[d].tid \in Tid /\ threadList[join[d].tid] = join[d].tcb
        BY <1>2, <2>1 DEF IInv, TypeOK, Joiners
      <3>2. join[d].tid # tid
        BY <2>1, <3>1
      <3>3. QED
        BY <2>1, <3>1, <3>2 DEF IInv, TypeOK, Joiners
    <2>4. Joined' /\ Leaving'
      BY <2>1 DEF IInv, Joined, Leaving
    <2>5. QED
      BY <2>2, <2>3, <2>4 DEF IInv
  <1>6. CASE EndTick
    BY <1>6 DEF EndTick, IInv, TypeOK, Table, Joiners, Asleep, Woken, Joined, Leaving
  <1>7. QED
    BY <1>3, <1>4, <1>5, <1>6 DEF End

-----------------------------------------------------------------------------
LEMMA ThreadInit == Init => IInv
  <1> SUFFICES ASSUME Init PROVE IInv
    OBVIOUS
  <1>1. TypeOK
    BY DEF Init, TypeOK
  <1>2. Table /\ Joiners /\ Joined
    BY ThreadLifeAssumption DEF Init, Table, Joiners, Joined
  <1>3. Leaving
    BY DEF Init, Leaving
  <1>4. QED
    BY <1>1, <1>2, <1>3 DEF IInv

\* Every call keeps the invariant, of careful programs.
LEMMA ThreadStep == Careful /\ IInv /\ [Next]_vars => IInv'
  <1> SUFFICES ASSUME Careful, IInv, [Next]_vars PROVE IInv'
    OBVIOUS
  <1>1. CASE Next
    BY <1>1, SleepStep, JoinReturnStep, CreateThreadStep, KillThreadStep, JoinStep, ReturnStep, RestStep DEF Next
  <1>2. CASE UNCHANGED vars
    BY <1>2 DEF vars, IInv, TypeOK, Table, Joiners, Joined, Asleep, Woken, Leaving
  <1>3. QED
    BY <1>1, <1>2

LEMMA JoinsAre == IInv => JoinsExact
  <1> SUFFICES ASSUME IInv PROVE JoinsExact
    OBVIOUS
  <1>1. ASSUME NEW c \in Tcb, join[c] # Nothing
        PROVE  /\ threadList[join[c].tid] = join[c].tcb /\ status[join[c].tcb] # "free"
               /\ status[c] = "away" => status[join[c].tcb] \in {"ready", "away", "off"}
    BY <1>1 DEF IInv, Joiners, Asleep, Woken
  <1>2. \A t \in Tcb \ {MainTcb} : status[t] \in {"free", "dead", "off", "lost"} \/ \E tid \in Tid : threadList[tid] = t
    BY DEF IInv, Table
  <1>3. \A tid \in Tid : threadList[tid] # 0 => status[threadList[tid]] # "free"
    BY DEF IInv, Table
  <1>4. ASSUME NEW t \in Tcb, status[t] = "ended"
        PROVE  \E c \in Tcb : join[c].tcb = t /\ status[c] = "ready"
    BY <1>4 DEF IInv, Joined, Joiners, Asleep, Woken
  <1>5. QED
    BY <1>1, <1>2, <1>3, <1>4 DEF JoinsExact

\* threadJoin and killThread, of careful programs: a join returns once its thread ended, with the
\* TCB still in memory and under its tid, and waits for one that goes on or is on its way out; no
\* TCB is lost, but for a thread's that a tick stopped on its way out of threadWrapper.
THEOREM JoinsRight == Careful /\ Spec => []JoinsExact
  <1> SUFFICES ASSUME Careful PROVE Spec => []JoinsExact
    OBVIOUS
  <1>1. QED
    BY ThreadInit, ThreadStep, JoinsAre, PTL DEF Spec

-----------------------------------------------------------------------------
(* UpDown.                                                                 *)

SumType ==
    /\ counter \in [created : 0 .. 2 * N, joined : 0 .. 2 * N]
    /\ threads \in [D!Thread -> [pc : {"none", "lock", "read", "write", "unlock", "done", "ended", "stuck"},
                                 left : Nat, seen : Int]]
    /\ global \in Int /\ began \in Int
    /\ waiters \in Seq(D!Thread \cup {D!Gone})

\* The line of the mutex holds who called mutex_lock, once, and who is past it is its first.
Queued ==
    /\ \A t \in D!Thread : threads[t].pc \in {"read", "write", "unlock"} <=> \E i \in DOMAIN waiters : waiters[i] = t
    /\ \A i, j \in DOMAIN waiters : waiters[i] = waiters[j] => i = j
    /\ \A t \in D!Thread : threads[t].pc \in {"write", "unlock"} => waiters[1] = t

\* What a thread has read is still so when it writes.
Seen == \A t \in D!Thread : threads[t].pc = "write" => threads[t].seen = global

Counted ==
    /\ \A t \in D!Thread : /\ threads[t].left <= Rounds
                           /\ threads[t].pc \in {"done", "ended", "stuck"} <=> threads[t].left = 0
                           /\ threads[t].pc = "none" <=> t > counter.created
    /\ \A t \in 1 .. counter.joined : threads[t].pc = "ended"

\* The rounds that are made, up or down.
Past(t) == Rounds - threads[t].left + (IF threads[t].pc = "unlock" THEN 1 ELSE 0)
Made(d) == {m \in D!Thread \X (1 .. Rounds) : D!Delta(m[1]) = d /\ m[2] <= Past(m[1])}

Balanced == global - began = Cardinality(Made(1)) - Cardinality(Made(-1))

SumInv == SumType /\ Queued /\ Seen /\ Counted /\ Balanced

LEMMA SumConstants == N \in Nat \ {0} /\ Rounds \in Nat \ {0}
BY UserAssumption DEF D!UpDownAssumption

LEMMA SumCounter ==
  SumType => /\ counter = [created |-> counter.created, joined |-> counter.joined]
             /\ counter.created \in 0 .. 2 * N /\ counter.joined \in 0 .. 2 * N
BY DEF SumType

LEMMA MadeFinite == \A d : IsFiniteSet(Made(d)) /\ Cardinality(Made(d)) \in Nat
<1>1. IsFiniteSet(D!Thread) /\ IsFiniteSet(1 .. Rounds)
  BY SumConstants, FS_Interval DEF D!Thread
<1>2. IsFiniteSet(D!Thread \X (1 .. Rounds))
  BY <1>1, FS_Product
<1>3. QED
  BY <1>2, FS_Subset, FS_CardinalityType DEF Made

\* A run begins with no rounds made.
Begins ==
    /\ global \in Int /\ began = global /\ waiters \in D!Queues
    /\ threads = D!Fresh /\ counter = [created |-> 0, joined |-> 0]

LEMMA SumFresh == Begins => SumInv
<1> SUFFICES ASSUME Begins PROVE SumInv
  OBVIOUS
<1> USE SumConstants DEF Begins
<1>1. waiters \in Seq(D!Thread \cup {D!Gone}) /\ \A i \in DOMAIN waiters : i = 1 /\ waiters[i] = D!Gone
  <2>1. CASE waiters = <<>>
    BY <2>1
  <2>2. CASE waiters = <<D!Gone>>
    <3>1. waiters \in Seq(D!Thread \cup {D!Gone})
      BY <2>2
    <3>2. DOMAIN waiters = {1} /\ waiters[1] = D!Gone
      BY <2>2
    <3>3. QED
      BY <3>1, <3>2
  <2>3. QED
    BY <2>1, <2>2 DEF D!Queues
<1>2. D!Gone \notin D!Thread
  BY DEF D!Gone, D!Thread
<1>3. threads \in [D!Thread -> [pc : {"none"}, left : {Rounds}, seen : {0}]]
  BY DEF D!Fresh
<1>4. SumType
  BY <1>1, <1>3 DEF SumType
<1>5. Queued
  BY <1>1, <1>2, <1>3 DEF Queued
<1>6. Seen /\ Counted
  BY <1>3 DEF Seen, Counted, D!Thread
<1>7. ASSUME NEW d PROVE Made(d) = {}
  BY <1>3 DEF Made, Past
<1>8. Cardinality(Made(1)) = 0 /\ Cardinality(Made(-1)) = 0
  BY <1>7, FS_EmptySet
<1>9. QED
  BY <1>4, <1>5, <1>6, <1>8 DEF SumInv, Balanced

LEMMA SumInit == D!Init => SumInv
BY SumFresh DEF D!Init, D!Queues, Begins

\* Nobody's rounds change: the sums stay.
LEMMA MadeSame ==
  ASSUME SumInv, global' = global, began' = began,
         \A t \in D!Thread : Past(t)' = Past(t)
  PROVE  Balanced'
<1>1. ASSUME NEW d PROVE Made(d)' = Made(d)
  BY DEF Made
<1>2. QED
  BY <1>1 DEF SumInv, Balanced

LEMMA SumCreate == SumInv /\ D!Create => SumInv'
<1>1. SUFFICES ASSUME SumInv, D!Create PROVE SumInv'
  OBVIOUS
<1> USE SumConstants
<1> DEFINE n == counter.created + 1
<1>2. n \in D!Thread /\ UNCHANGED <<global, waiters, began>>
  BY <1>1 DEF SumInv, SumType, D!Create, D!Thread
<1>3. threads' = [threads EXCEPT ![n].pc = "lock"]
  BY <1>1 DEF D!Create
<1>4. counter' = [counter EXCEPT !.created = n] /\ counter.created < 2 * N
  BY <1>1 DEF D!Create
<1> HIDE DEF n
<1>5. SumType'
  <2>1. counter' \in [created : 0 .. 2 * N, joined : 0 .. 2 * N]
    <3>1. counter' = [created |-> n, joined |-> counter.joined] /\ n \in 0 .. 2 * N
      BY <1>1, <1>4, SumCounter DEF SumInv, n
    <3>2. QED
      BY <1>1, <3>1, SumCounter DEF SumInv
  <2>2. threads' \in [D!Thread -> [pc : {"none", "lock", "read", "write", "unlock", "done", "ended", "stuck"}, left : Nat, seen : Int]]
    BY <1>1, <1>2, <1>3 DEF SumInv, SumType
  <2>3. QED
    BY <1>1, <1>2, <2>1, <2>2 DEF SumInv, SumType
<1>6. threads[n].pc = "none" /\ threads[n].left # 0 /\ \A t \in 1 .. counter.joined : t # n
  <2>1. Counted /\ counter.created \in Nat
    BY <1>1 DEF SumInv, SumType
  <2>2. n > counter.created
    BY <2>1 DEF n
  <2>3. threads[n].pc = "none"
    BY <1>2, <2>1, <2>2 DEF Counted
  <2>4. threads[n].left # 0
    BY <1>2, <2>1, <2>3 DEF Counted
  <2>5. \A t \in 1 .. counter.joined : t # n
    BY <2>1, <2>3 DEF Counted
  <2>6. QED
    BY <2>3, <2>4, <2>5
<1>7. Queued'
  BY <1>1, <1>2, <1>3, <1>6 DEF SumInv, SumType, Queued
<1>8. Seen'
  BY <1>1, <1>2, <1>3 DEF SumInv, SumType, Seen
<1>9. Counted'
  <2>1. ASSUME NEW t \in D!Thread
        PROVE  threads'[t].left <= Rounds /\ (threads'[t].pc \in {"done", "ended", "stuck"} <=> threads'[t].left = 0)
    BY <1>1, <1>2, <1>3, <1>6 DEF SumInv, SumType, Counted
  <2>2. ASSUME NEW t \in D!Thread
        PROVE  threads'[t].pc = "none" <=> t > counter'.created
    <3>1. counter'.created = counter.created + 1
      BY <1>1, <1>4 DEF n, SumInv, SumType
    <3>2. CASE t = n
      BY <1>1, <1>2, <1>3, <3>1, <3>2 DEF SumInv, SumType, D!Thread, n
    <3>3. CASE t # n
      BY <1>1, <1>2, <1>3, <3>1, <3>3 DEF SumInv, SumType, Counted, D!Thread, n
    <3>4. QED
      BY <3>2, <3>3
  <2>3. ASSUME NEW t \in 1 .. counter'.joined PROVE threads'[t].pc = "ended"
    BY <1>1, <1>2, <1>3, <1>4, <1>6 DEF SumInv, SumType, Counted, D!Thread
  <2>4. QED
    BY <2>1, <2>2, <2>3 DEF Counted
<1>10. Balanced'
  <2>1. ASSUME NEW t \in D!Thread PROVE Past(t)' = Past(t)
    BY <1>1, <1>2, <1>3, <1>6 DEF SumInv, SumType, Past
  <2>2. QED
    BY <1>1, <1>2, <2>1, MadeSame
<1>11. QED
  BY <1>5, <1>7, <1>8, <1>9, <1>10 DEF SumInv

LEMMA SumJoin == SumInv /\ D!Join => SumInv'
<1>1. SUFFICES ASSUME SumInv, D!Join PROVE SumInv'
  OBVIOUS
<1> USE SumConstants
<1>2. UNCHANGED <<threads, global, waiters, began>>
  BY <1>1 DEF D!Join
<1>3. counter' = [counter EXCEPT !.joined = @ + 1] /\ counter.joined < 2 * N /\ threads[counter.joined + 1].pc = "ended"
  BY <1>1 DEF D!Join
<1>4. SumType'
  <2>1. counter' \in [created : 0 .. 2 * N, joined : 0 .. 2 * N]
    <3>1. counter' = [created |-> counter.created, joined |-> counter.joined + 1] /\ counter.joined + 1 \in 0 .. 2 * N
      BY <1>1, <1>3, SumCounter DEF SumInv
    <3>2. QED
      BY <1>1, <3>1, SumCounter DEF SumInv
  <2>2. QED
    BY <1>1, <1>2, <2>1 DEF SumInv, SumType
<1>5. Queued' /\ Seen'
  BY <1>1, <1>2 DEF SumInv, Queued, Seen
<1>6. Counted'
  <2>1. counter'.created = counter.created /\ counter'.joined = counter.joined + 1 /\ counter.joined \in Nat
    BY <1>1, <1>3 DEF SumInv, SumType
  <2>2. QED
    BY <1>1, <1>2, <1>3, <2>1 DEF SumInv, Counted
<1>7. Balanced'
  BY <1>1, <1>2, MadeSame DEF Past
<1>8. QED
  BY <1>4, <1>5, <1>6, <1>7 DEF SumInv

LEMMA SumLock ==
  ASSUME SumInv, NEW t \in D!Thread, D!Lock(t)
  PROVE  SumInv'
<1> USE SumConstants
<1>1. UNCHANGED <<counter, global, began>> /\ threads[t].pc = "lock"
  BY DEF D!Lock
<1>2. threads' = [threads EXCEPT ![t].pc = "read"] /\ waiters' = Append(waiters, t)
  BY DEF D!Lock
<1>3. SumType'
  <2>1. threads' \in [D!Thread -> [pc : {"none", "lock", "read", "write", "unlock", "done", "ended", "stuck"}, left : Nat, seen : Int]]
    BY <1>2 DEF SumInv, SumType
  <2>2. waiters' \in Seq(D!Thread \cup {D!Gone})
    BY <1>2 DEF SumInv, SumType
  <2>3. QED
    BY <1>1, <2>1, <2>2 DEF SumInv, SumType
<1>4. Len(waiters') = Len(waiters) + 1 /\ waiters'[Len(waiters')] = t /\ Len(waiters) \in Nat
      /\ DOMAIN waiters = 1 .. Len(waiters) /\ DOMAIN waiters' = 1 .. Len(waiters')
      /\ \A i \in 1 .. Len(waiters) : waiters'[i] = waiters[i]
  BY <1>2 DEF SumInv, SumType
<1>5. \A s \in D!Thread : s # t => threads'[s] = threads[s]
  BY <1>2 DEF SumInv, SumType
<1>6. threads'[t].pc = "read" /\ threads'[t].left = threads[t].left
  BY <1>2 DEF SumInv, SumType
<1>7. \A i \in 1 .. Len(waiters) : waiters[i] # t
  BY <1>1, <1>4 DEF SumInv, Queued
<1>8. Queued'
  <2>1. ASSUME NEW s \in D!Thread
        PROVE  threads'[s].pc \in {"read", "write", "unlock"} <=> \E i \in DOMAIN waiters' : waiters'[i] = s
    BY <1>4, <1>5, <1>6 DEF SumInv, Queued
  <2>2. ASSUME NEW i \in DOMAIN waiters', NEW j \in DOMAIN waiters', waiters'[i] = waiters'[j]
        PROVE  i = j
    BY <1>4, <1>7, <2>2 DEF SumInv, Queued
  <2>3. ASSUME NEW s \in D!Thread, threads'[s].pc \in {"write", "unlock"} PROVE waiters'[1] = s
    BY <1>4, <1>5, <1>6, <2>3 DEF SumInv, Queued
  <2>4. QED
    BY <2>1, <2>2, <2>3 DEF Queued
<1>9. Seen'
  BY <1>1, <1>5, <1>6 DEF SumInv, Seen
<1>10. Counted'
  <2>1. ASSUME NEW s \in D!Thread
        PROVE  /\ threads'[s].left <= Rounds
               /\ threads'[s].pc \in {"done", "ended", "stuck"} <=> threads'[s].left = 0
               /\ threads'[s].pc = "none" <=> s > counter'.created
    BY <1>1, <1>5, <1>6 DEF SumInv, SumType, Counted
  <2>2. ASSUME NEW s \in 1 .. counter'.joined PROVE threads'[s].pc = "ended"
    <3>1. s \in D!Thread /\ threads[s].pc = "ended"
      BY <1>1, SumCounter DEF SumInv, Counted, D!Thread
    <3>2. QED
      BY <1>1, <1>5, <1>6, <3>1
  <2>3. QED
    BY <2>1, <2>2 DEF Counted
<1>11. Balanced'
  <2>1. ASSUME NEW s \in D!Thread PROVE Past(s)' = Past(s)
    BY <1>1, <1>5, <1>6 DEF Past
  <2>2. QED
    BY <1>1, <2>1, MadeSame
<1>12. QED
  BY <1>3, <1>8, <1>9, <1>10, <1>11 DEF SumInv

LEMMA SumReads ==
  ASSUME SumInv, NEW t \in D!Thread, D!Reads(t)
  PROVE  SumInv'
<1> USE SumConstants
<1>1. UNCHANGED <<counter, global, waiters, began>> /\ threads[t].pc = "read" /\ Head(waiters) = t
  BY DEF D!Reads
<1>2. threads' = [threads EXCEPT ![t].pc = "write", ![t].seen = global]
  BY DEF D!Reads
<1>3. SumType'
  <2>1. threads' \in [D!Thread -> [pc : {"none", "lock", "read", "write", "unlock", "done", "ended", "stuck"}, left : Nat, seen : Int]]
    BY <1>2 DEF SumInv, SumType
  <2>2. QED
    BY <1>1, <2>1 DEF SumInv, SumType
<1>4. \A s \in D!Thread : s # t => threads'[s] = threads[s]
  BY <1>2 DEF SumInv, SumType
<1>5. threads'[t].pc = "write" /\ threads'[t].left = threads[t].left /\ threads'[t].seen = global
  BY <1>2 DEF SumInv, SumType
<1>6. Queued'
  <2>1. waiters[1] = t
    BY <1>1 DEF SumInv, SumType, Queued
  <2>2. QED
    BY <1>1, <1>4, <1>5, <2>1 DEF SumInv, Queued
<1>7. Seen'
  BY <1>1, <1>4, <1>5 DEF SumInv, Seen
<1>8. Counted'
  <2>1. ASSUME NEW s \in D!Thread
        PROVE  /\ threads'[s].left <= Rounds
               /\ threads'[s].pc \in {"done", "ended", "stuck"} <=> threads'[s].left = 0
               /\ threads'[s].pc = "none" <=> s > counter'.created
    BY <1>1, <1>4, <1>5 DEF SumInv, SumType, Counted
  <2>2. ASSUME NEW s \in 1 .. counter'.joined PROVE threads'[s].pc = "ended"
    <3>1. s \in D!Thread /\ threads[s].pc = "ended"
      BY <1>1, SumCounter DEF SumInv, Counted, D!Thread
    <3>2. QED
      BY <1>1, <1>4, <1>5, <3>1
  <2>3. QED
    BY <2>1, <2>2 DEF Counted
<1>9. Balanced'
  <2>1. ASSUME NEW s \in D!Thread PROVE Past(s)' = Past(s)
    BY <1>1, <1>4, <1>5 DEF Past
  <2>2. QED
    BY <1>1, <2>1, MadeSame
<1>10. QED
  BY <1>3, <1>6, <1>7, <1>8, <1>9 DEF SumInv

\* The only one between its read and its unlock makes one round more.
LEMMA SumWrites ==
  ASSUME SumInv, NEW t \in D!Thread, D!Writes(t)
  PROVE  SumInv'
<1> USE SumConstants
<1>1. UNCHANGED <<counter, waiters, began>> /\ threads[t].pc = "write"
  BY DEF D!Writes
<1>2. threads' = [threads EXCEPT ![t].pc = "unlock"] /\ global' = threads[t].seen + D!Delta(t)
  BY DEF D!Writes
<1>3. D!Delta(t) \in {1, -1}
  BY DEF D!Delta
<1>4. SumType'
  <2>1. threads' \in [D!Thread -> [pc : {"none", "lock", "read", "write", "unlock", "done", "ended", "stuck"}, left : Nat, seen : Int]]
    BY <1>2 DEF SumInv, SumType
  <2>2. global' \in Int
    BY <1>1, <1>2, <1>3 DEF SumInv, SumType
  <2>3. QED
    BY <1>1, <2>1, <2>2 DEF SumInv, SumType
<1>5. \A s \in D!Thread : s # t => threads'[s] = threads[s] /\ threads[s].pc # "write"
  <2>1. \A s \in D!Thread : s # t => threads'[s] = threads[s]
    BY <1>2 DEF SumInv, SumType
  <2>2. QED
    BY <1>1, <2>1 DEF SumInv, Queued
<1>6. threads'[t].pc = "unlock" /\ threads'[t].left = threads[t].left
  BY <1>2 DEF SumInv, SumType
<1>7. Queued'
  BY <1>1, <1>5, <1>6 DEF SumInv, Queued
<1>8. Seen'
  BY <1>5, <1>6 DEF SumInv, Seen
<1>9. Counted'
  <2>1. ASSUME NEW s \in D!Thread
        PROVE  /\ threads'[s].left <= Rounds
               /\ threads'[s].pc \in {"done", "ended", "stuck"} <=> threads'[s].left = 0
               /\ threads'[s].pc = "none" <=> s > counter'.created
    BY <1>1, <1>5, <1>6 DEF SumInv, SumType, Counted
  <2>2. ASSUME NEW s \in 1 .. counter'.joined PROVE threads'[s].pc = "ended"
    <3>1. s \in D!Thread /\ threads[s].pc = "ended"
      BY <1>1, SumCounter DEF SumInv, Counted, D!Thread
    <3>2. QED
      BY <1>1, <1>5, <1>6, <3>1
  <2>3. QED
    BY <2>1, <2>2 DEF Counted
<1>10. Balanced'
  <2> DEFINE m == <<t, Past(t) + 1>>
  <2>1. Past(t) \in Int /\ Past(t)' = Past(t) + 1 /\ Past(t) + 1 \in 1 .. Rounds
    <3>1. /\ threads[t].pc = "write" /\ threads[t].left \in Nat \ {0} /\ threads[t].left <= Rounds
          /\ Rounds \in Nat
      <4>1. threads[t].left \in Nat
        BY DEF SumInv, SumType
      <4>2. /\ threads[t].left <= Rounds
            /\ threads[t].pc \in {"done", "ended", "stuck"} <=> threads[t].left = 0
        BY DEF SumInv, Counted
      <4>3. QED
        BY <1>1, <4>1, <4>2
    <3>2. Past(t) = Rounds - threads[t].left /\ Past(t)' = Rounds - threads[t].left + 1
      BY <1>6, <3>1 DEF Past
    <3>3. QED
      BY <3>1, <3>2
  <2>2. \A s \in D!Thread : s # t => Past(s)' = Past(s)
    BY <1>5 DEF Past
  <2>3. m \notin Made(D!Delta(t)) /\ Made(D!Delta(t))' = Made(D!Delta(t)) \cup {m}
    <3>1. ASSUME NEW k \in D!Thread \X (1 .. Rounds), D!Delta(k[1]) = D!Delta(t)
          PROVE  k[2] <= Past(k[1])' <=> k[2] <= Past(k[1]) \/ k = m
      <4>1. CASE k[1] = t
        <5>1. k = m <=> k[2] = Past(t) + 1
          BY <4>1
        <5>2. QED
          BY <2>1, <4>1, <5>1
      <4>2. CASE k[1] # t
        BY <2>2, <4>2
      <4>3. QED
        BY <4>1, <4>2
    <3>2. m \in D!Thread \X (1 .. Rounds) /\ ~(m[2] <= Past(m[1]))
      BY <2>1
    <3>3. QED
      BY <3>1, <3>2 DEF Made
  <2>4. ASSUME NEW d, d # D!Delta(t) PROVE Made(d)' = Made(d)
    BY <2>1, <2>2, <2>4 DEF Made
  <2>5. Cardinality(Made(D!Delta(t))') = Cardinality(Made(D!Delta(t))) + 1
    BY <2>3, MadeFinite, FS_AddElement
  <2>6. global' = global + D!Delta(t)
    BY <1>1, <1>2 DEF SumInv, Seen
  <2>7. global \in Int /\ began \in Int /\ global - began = Cardinality(Made(1)) - Cardinality(Made(-1))
    BY DEF SumInv, SumType, Balanced
  <2>8. CASE D!Delta(t) = 1
    BY <2>4, <2>5, <2>6, <2>7, <2>8, <1>1, MadeFinite DEF Balanced
  <2>9. CASE D!Delta(t) = -1
    BY <2>4, <2>5, <2>6, <2>7, <2>9, <1>1, MadeFinite DEF Balanced
  <2>10. QED
    BY <1>3, <2>8, <2>9
<1>11. QED
  BY <1>4, <1>7, <1>8, <1>9, <1>10 DEF SumInv

LEMMA SumUnlock ==
  ASSUME SumInv, NEW t \in D!Thread, D!Unlock(t)
  PROVE  SumInv'
<1> USE SumConstants
<1>1. UNCHANGED <<counter, global, began>> /\ threads[t].pc = "unlock" /\ waiters' = Tail(waiters)
  BY DEF D!Unlock
<1>2. threads' = [threads EXCEPT ![t].left = @ - 1, ![t].pc = IF threads[t].left = 1 THEN "done" ELSE "lock"]
  BY DEF D!Unlock
<1>3. threads[t].left # 0 /\ waiters # <<>> /\ waiters[1] = t
  <2>1. threads[t].left # 0
    BY <1>1 DEF SumInv, Counted
  <2>2. waiters \in Seq(D!Thread \cup {D!Gone}) /\ waiters[1] = t /\ \E i \in DOMAIN waiters : waiters[i] = t
    BY <1>1 DEF SumInv, SumType, Queued
  <2>3. QED
    BY <2>1, <2>2
<1>4. SumType'
  <2>1. threads' \in [D!Thread -> [pc : {"none", "lock", "read", "write", "unlock", "done", "ended", "stuck"}, left : Nat, seen : Int]]
    <3>1. threads[t].left - 1 \in Nat
      BY <1>3 DEF SumInv, SumType
    <3>2. QED
      BY <1>2, <3>1 DEF SumInv, SumType
  <2>2. waiters' \in Seq(D!Thread \cup {D!Gone})
    BY <1>1, <1>3 DEF SumInv, SumType
  <2>3. QED
    BY <1>1, <2>1, <2>2 DEF SumInv, SumType
<1>5. \A s \in D!Thread : s # t => threads'[s] = threads[s] /\ threads[s].pc \notin {"write", "unlock"}
  <2>1. \A s \in D!Thread : s # t => threads'[s] = threads[s]
    BY <1>2 DEF SumInv, SumType
  <2>2. QED
    BY <1>1, <1>3, <2>1 DEF SumInv, Queued
<1>6. threads'[t].pc = (IF threads[t].left = 1 THEN "done" ELSE "lock") /\ threads'[t].left = threads[t].left - 1
  BY <1>2 DEF SumInv, SumType
<1>7. /\ Len(waiters) \in Nat \ {0} /\ Len(waiters') = Len(waiters) - 1
      /\ DOMAIN waiters = 1 .. Len(waiters) /\ DOMAIN waiters' = 1 .. Len(waiters')
      /\ \A i \in 1 .. Len(waiters') : waiters'[i] = waiters[i + 1]
  BY <1>1, <1>3 DEF SumInv, SumType
<1>8. Queued'
  <2>1. ASSUME NEW s \in D!Thread, s # t
        PROVE  threads'[s].pc \in {"read", "write", "unlock"} <=> \E i \in DOMAIN waiters' : waiters'[i] = s
    <3>1. ASSUME NEW i \in DOMAIN waiters, waiters[i] = s PROVE i - 1 \in DOMAIN waiters' /\ waiters'[i - 1] = s
      BY <1>3, <1>7, <2>1, <3>1
    <3>2. ASSUME NEW i \in DOMAIN waiters', waiters'[i] = s PROVE i + 1 \in DOMAIN waiters /\ waiters[i + 1] = s
      BY <1>7, <3>2
    <3>3. QED
      BY <1>5, <2>1, <3>1, <3>2 DEF SumInv, Queued
  <2>2. threads'[t].pc \notin {"read", "write", "unlock"}
    BY <1>6
  <2>3. ASSUME NEW i \in DOMAIN waiters' PROVE waiters'[i] # t
    BY <1>3, <1>7 DEF SumInv, Queued
  <2>4. ASSUME NEW i \in DOMAIN waiters', NEW j \in DOMAIN waiters', waiters'[i] = waiters'[j]
        PROVE  i = j
    <3>1. waiters[i + 1] = waiters[j + 1] /\ i + 1 \in DOMAIN waiters /\ j + 1 \in DOMAIN waiters
      BY <1>7, <2>4
    <3>2. i + 1 = j + 1
      BY <3>1 DEF SumInv, Queued
    <3>3. QED
      BY <1>7, <3>2
  <2>5. ASSUME NEW s \in D!Thread PROVE threads'[s].pc \notin {"write", "unlock"}
    BY <1>5, <2>2
  <2>6. QED
    BY <2>1, <2>2, <2>3, <2>4, <2>5 DEF Queued
<1>9. Seen'
  BY <1>5, <1>6 DEF Seen
<1>10. Counted'
  <2>1. ASSUME NEW s \in D!Thread
        PROVE  /\ threads'[s].left <= Rounds
               /\ threads'[s].pc \in {"done", "ended", "stuck"} <=> threads'[s].left = 0
               /\ threads'[s].pc = "none" <=> s > counter'.created
    <3>1. threads[t].left \in Nat \ {0}
      BY <1>3 DEF SumInv, SumType
    <3>2. QED
      BY <1>1, <1>5, <1>6, <3>1 DEF SumInv, Counted
  <2>2. ASSUME NEW s \in 1 .. counter'.joined PROVE threads'[s].pc = "ended"
    <3>1. s \in D!Thread /\ threads[s].pc = "ended"
      BY <1>1, SumCounter DEF SumInv, Counted, D!Thread
    <3>2. QED
      BY <1>1, <1>3, <1>5, <1>6, <3>1
  <2>3. QED
    BY <2>1, <2>2 DEF Counted
<1>11. Balanced'
  <2>1. Past(t)' = Past(t)
    BY <1>1, <1>6 DEF SumInv, SumType, Past
  <2>2. ASSUME NEW s \in D!Thread PROVE Past(s)' = Past(s)
    BY <1>5, <2>1 DEF Past
  <2>3. QED
    BY <1>1, <2>2, MadeSame
<1>12. QED
  BY <1>4, <1>8, <1>9, <1>10, <1>11 DEF SumInv

LEMMA SumEnds ==
  ASSUME SumInv, NEW t \in D!Thread, D!Ends(t)
  PROVE  SumInv'
<1> USE SumConstants
<1>1. UNCHANGED <<counter, global, waiters, began>> /\ threads[t].pc = "done"
  BY DEF D!Ends
<1>2. PICK end \in {"ended", "stuck"} : threads' = [threads EXCEPT ![t].pc = end]
  BY DEF D!Ends
<1>3. \A s \in D!Thread : s # t => threads'[s] = threads[s]
  BY <1>2 DEF SumInv, SumType
<1>4. threads'[t].pc = end /\ threads'[t].left = threads[t].left
  BY <1>2 DEF SumInv, SumType
<1>5. SumType'
  BY <1>1, <1>2 DEF SumInv, SumType
<1>6. Queued' /\ Seen'
  BY <1>1, <1>3, <1>4 DEF SumInv, Queued, Seen
<1>7. Counted'
  <2>1. ASSUME NEW s \in 1 .. counter'.joined PROVE threads'[s].pc = "ended"
    <3>1. s \in D!Thread /\ threads[s].pc = "ended"
      BY <1>1, SumCounter DEF SumInv, Counted, D!Thread
    <3>2. QED
      BY <1>1, <1>3, <3>1
  <2>2. QED
    BY <1>1, <1>3, <1>4, <2>1 DEF SumInv, Counted
<1>8. Balanced'
  <2>1. ASSUME NEW s \in D!Thread PROVE Past(s)' = Past(s)
    BY <1>1, <1>3, <1>4 DEF Past
  <2>2. QED
    BY <1>1, <2>1, MadeSame
<1>9. QED
  BY <1>5, <1>6, <1>7, <1>8 DEF SumInv

LEMMA SumAgain == SumInv /\ D!Again => SumInv'
<1>1. SumInv /\ D!Again => Begins'
  BY DEF SumInv, SumType, D!Again, Begins, D!Queues, D!Fresh
<1>2. QED
  BY <1>1, SumFresh, PTL

LEMMA SumStep == SumInv /\ [D!Next]_sum => SumInv'
<1>1. ASSUME SumInv, UNCHANGED sum PROVE SumInv'
  <2>1. SumType' /\ Queued' /\ Seen' /\ Counted'
    BY <1>1 DEF sum, SumInv, SumType, Queued, Seen, Counted
  <2>2. Balanced'
    BY <1>1, MadeSame DEF sum, Past
  <2>3. QED
    BY <2>1, <2>2 DEF SumInv
<1>2. QED
  BY <1>1, SumCreate, SumJoin, SumLock, SumReads, SumWrites, SumUnlock, SumEnds, SumAgain DEF D!Next, D!Main, D!Run

\* When all are joined each up has a down beside it.
LEMMA SumZero == SumInv => D!EndsAsBegun
<1>1. SUFFICES ASSUME SumInv, counter.joined = 2 * N PROVE global = began
  BY DEF D!EndsAsBegun
<1> USE SumConstants
<1>2. ASSUME NEW t \in D!Thread PROVE Past(t) = Rounds
  BY <1>1 DEF SumInv, SumType, Counted, Past, D!Thread
<1>3. ASSUME NEW d PROVE Made(d) = {m \in D!Thread \X (1 .. Rounds) : D!Delta(m[1]) = d}
  BY <1>2 DEF Made
<1> DEFINE f == [m \in Made(1) |-> <<m[1] + 1, m[2]>>]
<1>4. ASSUME NEW m \in Made(1) PROVE f[m] \in Made(-1)
  BY <1>3 DEF D!Thread, D!Delta
<1>5. ASSUME NEW m \in Made(-1) PROVE <<m[1] - 1, m[2]>> \in Made(1) /\ f[<<m[1] - 1, m[2]>>] = m
  BY <1>3 DEF D!Thread, D!Delta
<1>6. ASSUME NEW m \in Made(1), NEW n \in Made(1), f[m] = f[n] PROVE m = n
  BY <1>3, <1>6 DEF D!Thread
<1>7. f \in Bijection(Made(1), Made(-1))
  <2>1. f \in Injection(Made(1), Made(-1))
    BY <1>4, <1>6 DEF Injection, IsInjective
  <2>2. f \in Surjection(Made(1), Made(-1))
    BY <1>4, <1>5 DEF Surjection
  <2>3. QED
    BY <2>1, <2>2 DEF Bijection
<1>8. Cardinality(Made(1)) = Cardinality(Made(-1))
  BY <1>7, MadeFinite, FS_Bijection DEF ExistsBijection
<1>9. QED
  BY <1>1, <1>8, MadeFinite DEF SumInv, SumType, Balanced

-----------------------------------------------------------------------------
(* Snake.                                                                  *)

Square == Int \X Int

GameType ==
    /\ tokens \in Nat /\ left \in BOOLEAN /\ over \in Int
    /\ dir \in DOMAIN G!Opposite
    /\ snake \in Seq(Square) /\ snake # <<>>

\* Who is about to signal, and every token that was not left over, says that the game is over;
\* before the game nobody plays.
Announced ==
    /\ mover = "signals" => over # 0
    /\ tokens > 0 \/ main \in {"cancelMover", "cancelTimer", "done"} => over # 0 \/ left
    /\ main = "instructions" => mover = "none" /\ timer = "none" /\ (tokens > 0 => left)

GameInv == GameType /\ Announced

LEMMA GameConstants ==
  /\ Width \in Nat \ {0} /\ Height \in Nat \ {0} /\ GrowRate \in Nat \ {0} /\ Middle \in Int \X Int
BY UserAssumption DEF G!SnakeAssumption

\* The operator that Snake takes from its library.
LEMMA CardinalityIs == \A T : G!Cardinality(T) = Cardinality(T)
BY DEF G!Cardinality, Cardinality

LEMMA SnakeStarts == [i \in 1 .. 4 |-> <<Middle[1], Middle[2] + i - 1>>] \in Seq(Square) \ {<<>>}
<1> DEFINE body == [i \in 1 .. 4 |-> <<Middle[1], Middle[2] + i - 1>>]
<1>1. Middle[1] \in Int /\ Middle[2] \in Int
  BY GameConstants
<1>2. body \in [1 .. 4 -> Square]
  BY <1>1 DEF Square
<1>3. body \in Seq(Square)
  BY <1>2, SeqDef
<1>4. 1 \in DOMAIN body
  OBVIOUS
<1>5. QED
  BY <1>3, <1>4

LEMMA GameInit == G!Init => GameInv
<1>1. SUFFICES ASSUME G!Init PROVE GameInv
  OBVIOUS
<1>2. GameType
  <2>1. snake \in Seq(Square) \ {<<>>}
    BY <1>1, SnakeStarts DEF G!Init
  <2>2. left \in BOOLEAN
    BY <1>1 DEF G!Init
  <2>3. QED
    BY <1>1, <2>1, <2>2 DEF G!Init, GameType, G!Opposite
<1>3. Announced
  BY <1>1 DEF G!Init, Announced
<1>4. QED
  BY <1>2, <1>3 DEF GameInv

LEMMA GameAgain == GameInv /\ G!NewGame => GameInv'
<1>1. SUFFICES ASSUME GameInv, G!NewGame PROVE GameInv'
  OBVIOUS
<1>2. GameType'
  <2>1. snake' \in Seq(Square) \ {<<>>}
    BY <1>1, SnakeStarts DEF G!NewGame
  <2>2. left' \in BOOLEAN
    BY <1>1 DEF G!NewGame
  <2>3. QED
    BY <1>1, <2>1, <2>2 DEF G!NewGame, GameInv, GameType, G!Opposite
<1>3. Announced'
  BY <1>1 DEF G!NewGame, Announced
<1>4. QED
  BY <1>2, <1>3 DEF GameInv

\* A head that strikes counts at least one square, and nothing else does.
LEMMA StrikesCount ==
  ASSUME NEW body \in Seq(Square)
  PROVE  /\ Cardinality({i \in 2 .. Len(body) : body[i] = body[1]}) \in Nat
         /\ Cardinality({i \in 2 .. Len(body) : body[i] = body[1]}) > 0 => G!Struck(body)
<1> DEFINE hits == {i \in 2 .. Len(body) : body[i] = body[1]}
<1>1. IsFiniteSet(hits)
  <2>1. IsFiniteSet(2 .. Len(body))
    BY FS_Interval
  <2>2. QED
    BY <2>1, FS_Subset
<1>2. Cardinality(hits) \in Nat /\ (Cardinality(hits) = 0 <=> hits = {})
  BY <1>1, FS_CardinalityType, FS_EmptySet
<1>3. QED
  BY <1>2 DEF G!Struck

LEMMA GameRefresh == GameInv /\ G!Refresh => GameInv'
<1>1. SUFFICES ASSUME GameInv, G!Refresh PROVE GameInv'
  OBVIOUS
<1> DEFINE eats == snake[1] = comidita
           body == IF eats THEN snake \o [i \in 1 .. GrowRate |-> G!Off] ELSE snake
           full == Len(body) >= MaxSnake
           strikes == Cardinality({i \in 2 .. Len(body) : body[i] = body[1]})
           n == (IF eats /\ full THEN 1 ELSE 0) + strikes
<1>2. /\ timer = "runs" /\ UNCHANGED <<main, mover, timer, dir, left>>
      /\ over' = IF G!Struck(body) THEN 1 ELSE IF eats /\ full THEN 2 ELSE over
      /\ tokens' = IF semOpen THEN tokens + n ELSE tokens
      /\ snake' = <<G!Ahead(body[1], dir)>> \o Front(body)
  <2>1. timer = "runs" /\ UNCHANGED <<main, mover, timer, dir, left>>
    BY <1>1 DEF G!Refresh
  <2>2. over' = IF G!Struck(body) THEN 1 ELSE IF eats /\ full THEN 2 ELSE over
    BY <1>1, Zenon DEF G!Refresh
  <2>3. tokens' = IF semOpen THEN tokens + n ELSE tokens
    BY <1>1, CardinalityIs, Zenon DEF G!Refresh, G!Signal
  <2>4. snake' = <<G!Ahead(body[1], dir)>> \o Front(body)
    BY <1>1, Zenon DEF G!Refresh, G!Front, Front
  <2>5. QED
    BY <2>1, <2>2, <2>3, <2>4
<1>3. body \in Seq(Square) /\ body # <<>>
  <2>1. [i \in 1 .. GrowRate |-> G!Off] \in Seq(Square)
    BY GameConstants, SeqDef DEF G!Off, Square
  <2>2. QED
    BY <1>1, <2>1, ConcatProperties DEF GameInv, GameType
<1> HIDE DEF body
<1>4. body[1] \in Square /\ Len(body) \in Nat \ {0}
  BY <1>3
<1>5. strikes \in Nat /\ (strikes > 0 => G!Struck(body))
  BY <1>3, StrikesCount
<1> HIDE DEF strikes
<1>6. snake' \in Seq(Square) /\ snake' # <<>>
  <2>1. G!Ahead(body[1], dir) \in Square
    <3>1. G!Step[dir] \in Square
      BY <1>1 DEF GameInv, GameType, G!Step, G!Opposite, Square
    <3>2. body[1][1] + G!Step[dir][1] \in Int /\ body[1][2] + G!Step[dir][2] \in Int
      BY <1>4, <3>1 DEF Square
    <3>3. QED
      BY <3>2, GameConstants DEF G!Ahead, Square
  <2>2. Front(body) \in Seq(Square)
    BY <1>3, <1>4 DEF Front
  <2>3. <<G!Ahead(body[1], dir)>> \in Seq(Square)
    BY <2>1
  <2>4. QED
    BY <1>2, <2>2, <2>3, ConcatProperties
<1>7. tokens' \in Nat /\ over' \in Int
  BY <1>1, <1>2, <1>5 DEF GameInv, GameType
<1>8. over # 0 => over' # 0
  BY <1>2
<1>9. tokens' > 0 => over' # 0 \/ left
  BY <1>1, <1>2, <1>5 DEF GameInv, GameType, Announced
<1>10. QED
  BY <1>1, <1>2, <1>6, <1>7, <1>8, <1>9 DEF GameInv, GameType, Announced

LEMMA GameStep == GameInv /\ [G!Next]_game => GameInv'
<1>1. SUFFICES ASSUME GameInv, [G!Next]_game PROVE GameInv'
  OBVIOUS
<1>2. CASE UNCHANGED game
  BY <1>1, <1>2 DEF game, GameInv, GameType, Announced
<1>3. CASE G!Main
  BY <1>1, <1>3 DEF GameInv, GameType, Announced, G!Main, G!Start, G!CreateMover, G!CreateTimer, G!OpenSem, G!Wait,
                    G!CancelMover, G!CancelTimer
<1>4. CASE G!Escape \/ G!MoverEnds
  BY <1>1, <1>4 DEF GameInv, GameType, Announced, G!Escape, G!MoverEnds, G!Signal
<1>8. CASE G!Interrupt
  BY <1>1, <1>8 DEF GameInv, GameType, Announced, G!Interrupt
<1>5. ASSUME NEW d \in DOMAIN G!Opposite, G!Turn(d) PROVE GameInv'
  BY <1>1, <1>5 DEF GameInv, GameType, Announced, G!Turn
<1>6. CASE G!Refresh
  BY <1>1, <1>6, GameRefresh
<1>7. QED
  BY <1>1, <1>2, <1>3, <1>4, <1>5, <1>6, <1>8, GameAgain DEF G!Next

LEMMA GameOver == GameInv => G!OverWhenLeft
BY DEF GameInv, Announced, G!OverWhenLeft

-----------------------------------------------------------------------------
(* ToUppercase.                                                            *)

Letters == Lower \cup Other
Chars == Letters \cup {Upper[c] : c \in Lower} \cup {"nul"}
Pipes == {"pipe1", "pipe2"}

FifoType ==
    /\ parent \in {"start", "open1", "open2", "types", "waits", "printed", "close1", "close2", "waitPID", "done"}
    /\ slave \in {"none", "open1", "open2", "reads", "writes", "close1", "close2", "done", "ended", "stuck"}
    /\ fifo \in [Pipes -> [open : SUBSET {"r", "w"}, data : Seq(Chars), eof : BOOLEAN]]
    /\ text \in Seq(Letters) /\ Len(text) <= MaxLine
    /\ buff \in [1 .. MaxLine -> Chars]

\* What answers the line: its capitals, and a "nul" behind them if there is room.
Answers(answer, t) ==
    /\ \A i \in 1 .. Len(t) : answer[i] = U!Capital(t[i])
    /\ Len(t) < MaxLine => answer[Len(t) + 1] = "nul"

\* There is one line on its way: in pipe1, with the slave, or in pipe2.
Sent ==
    IF parent # "waits" THEN slave # "writes" /\ fifo["pipe1"].data = <<>> /\ fifo["pipe2"].data = <<>>
    ELSE \/ text # <<>> /\ fifo["pipe1"].data = text /\ fifo["pipe2"].data = <<>> /\ slave # "writes"
         \/ slave = "writes" /\ Answers(buff, text) /\ fifo["pipe1"].data = <<>> /\ fifo["pipe2"].data = <<>>
         \/ /\ slave = "reads" /\ Answers(fifo["pipe2"].data, text) /\ Len(fifo["pipe2"].data) = MaxLine
            /\ fifo["pipe1"].data = <<>>

\* Nobody closes before the parent does; until then it has both fifos open.
Opened ==
    /\ slave \in {"close1", "close2", "done", "ended", "stuck"} => parent \in {"close2", "waitPID", "done"}
    /\ fifo["pipe1"].eof => parent \in {"close2", "waitPID", "done"}
    /\ fifo["pipe2"].eof => slave \in {"done", "ended", "stuck"}
    /\ slave = "none" <=> parent = "start"
    /\ parent \in {"open2", "types", "waits", "printed"} => "w" \in fifo["pipe1"].open
    /\ parent \in {"types", "waits", "printed"} => "r" \in fifo["pipe2"].open

FifoInv == FifoType /\ Sent /\ Opened /\ U!RightReply

LEMMA FifoConstants == /\ MaxLine \in Nat \ {0}
                       /\ "nul" \notin Letters \cup {Upper[c] : c \in Lower}
BY UserAssumption DEF U!ToUppercaseAssumption, Letters

LEMMA CapitalIs == \A c \in Letters : U!Capital(c) \in Chars \ {"nul"}
BY FifoConstants DEF U!Capital, Chars, Letters

LEMMA FreshIs == U!Fresh = [open |-> {}, data |-> <<>>, eof |-> FALSE]
                 /\ U!Fresh \in [open : SUBSET {"r", "w"}, data : Seq(Chars), eof : BOOLEAN]
BY DEF U!Fresh

LEMMA FifoInit == U!Init => FifoInv
<1>1. SUFFICES ASSUME U!Init PROVE FifoInv
  OBVIOUS
<1>2. fifo = [pipe \in Pipes |-> U!Fresh]
  BY <1>1 DEF U!Init, Pipes
<1>3. buff \in [1 .. MaxLine -> Chars]
  BY <1>1 DEF U!Init, Chars
<1>4. FifoType
  <2>1. fifo \in [Pipes -> [open : SUBSET {"r", "w"}, data : Seq(Chars), eof : BOOLEAN]]
    BY <1>2, FreshIs
  <2>2. text \in Seq(Letters) /\ Len(text) <= MaxLine
    BY <1>1, FifoConstants DEF U!Init
  <2>3. QED
    BY <1>1, <1>3, <2>1, <2>2 DEF U!Init, FifoType
<1>5. QED
  BY <1>1, <1>2, <1>4, FreshIs DEF U!Init, FifoInv, Sent, Opened, Pipes, U!RightReply

\* The loop of printf finds the "nul" behind the answer.
LEMMA ReplyEnds ==
  ASSUME NEW t \in Seq(Letters), Len(t) <= MaxLine,
         NEW reply \in Seq(Chars), Len(reply) = MaxLine, Answers(reply, t)
  PROVE  SubSeq(reply, 1, U!SelectInSeq(Append(reply, "nul"), LAMBDA c : c = "nul") - 1)
         = [i \in DOMAIN t |-> U!Capital(t[i])]
<1> DEFINE all == Append(reply, "nul")
           I == {i \in 1 .. Len(all) : all[i] = "nul"}
           k == Len(t) + 1
<1>1. /\ MaxLine \in Nat /\ Len(t) \in Nat /\ Len(all) = MaxLine + 1 /\ all[MaxLine + 1] = "nul"
      /\ \A i \in 1 .. MaxLine : all[i] = reply[i]
  BY FifoConstants
<1>2. k \in I
  BY <1>1 DEF Answers
<1>3. ASSUME NEW i \in I PROVE k <= i
  <2>1. SUFFICES ASSUME i < k PROVE FALSE
    BY <1>1
  <2>2. i \in 1 .. Len(t) /\ all[i] = "nul" /\ all[i] = U!Capital(t[i])
    BY <1>1, <2>1 DEF Answers
  <2>3. QED
    BY <2>2, CapitalIs
<1>4. ASSUME NEW m \in I, \A i \in I : m <= i PROVE m = k
  BY <1>1, <1>2, <1>3, <1>4
<1>5. U!Min(I) = k
  BY <1>1, <1>2, <1>3, <1>4 DEF U!Min
<1>6. U!SelectInSeq(all, LAMBDA c : c = "nul") = k
  BY <1>2, <1>5 DEF U!SelectInSeq
<1>7. SubSeq(reply, 1, Len(t)) = [i \in DOMAIN t |-> U!Capital(t[i])]
  <2>1. SubSeq(reply, 1, Len(t)) = [i \in 1 .. Len(t) |-> reply[i]]
    BY <1>1, SubSeqProperties
  <2>2. QED
    BY <2>1 DEF Answers
<1>8. QED
  BY <1>1, <1>6, <1>7

-----------------------------------------------------------------------------
\* What an open, a close, a write and a read leave of a fifo.
LEMMA OpenIs ==
  ASSUME FifoType, NEW p \in Pipes, NEW m \in {"r", "w"}, U!Open(p, m)
  PROVE  /\ fifo' \in [Pipes -> [open : SUBSET {"r", "w"}, data : Seq(Chars), eof : BOOLEAN]]
         /\ \A q \in Pipes : q # p => fifo'[q] = fifo[q]
         /\ fifo'[p].open = fifo[p].open \cup {m}
         /\ fifo'[p].data = IF fifo[p].open = {} THEN <<>> ELSE fifo[p].data
         /\ fifo'[p].eof => fifo[p].eof
<1> DEFINE f == IF fifo[p].open = {} THEN U!Fresh ELSE fifo[p]
           g == [f EXCEPT !.open = @ \cup {m}, !.eof = IF m = "w" THEN FALSE ELSE @]
<1>1. fifo' = [fifo EXCEPT ![p] = g]
  BY DEF U!Open
<1>2. f \in [open : SUBSET {"r", "w"}, data : Seq(Chars), eof : BOOLEAN]
  BY FreshIs DEF FifoType
<1>3. /\ f.open = fifo[p].open /\ (f.eof => fifo[p].eof)
      /\ f.data = IF fifo[p].open = {} THEN <<>> ELSE fifo[p].data
  BY FreshIs DEF FifoType
<1> HIDE DEF f
<1>4. /\ g \in [open : SUBSET {"r", "w"}, data : Seq(Chars), eof : BOOLEAN]
      /\ g.open = f.open \cup {m} /\ g.data = f.data /\ (g.eof => f.eof)
  BY <1>2
<1> HIDE DEF g
<1>5. QED
  BY <1>1, <1>3, <1>4 DEF FifoType

LEMMA CloseIs ==
  ASSUME FifoType, NEW p \in Pipes, NEW m \in {"r", "w"}, U!Close(p, m)
  PROVE  /\ fifo' \in [Pipes -> [open : SUBSET {"r", "w"}, data : Seq(Chars), eof : BOOLEAN]]
         /\ \A q \in Pipes : q # p => fifo'[q] = fifo[q]
         /\ fifo'[p].open = fifo[p].open \ {m} /\ fifo'[p].data = fifo[p].data
         /\ fifo'[p].eof <=> fifo[p].eof \/ m = "w"
BY DEF U!Close, FifoType

LEMMA WriteIs ==
  ASSUME FifoType, NEW p \in Pipes, NEW data1 \in Seq(Chars), fifo' = [fifo EXCEPT ![p].data = data1]
  PROVE  /\ fifo' \in [Pipes -> [open : SUBSET {"r", "w"}, data : Seq(Chars), eof : BOOLEAN]]
         /\ \A q \in Pipes : q # p => fifo'[q] = fifo[q]
         /\ fifo'[p].data = data1 /\ fifo'[p].open = fifo[p].open /\ fifo'[p].eof = fifo[p].eof
BY DEF FifoType

LEMMA FifoOpens == FifoInv /\ U!OpenBoth /\ U!ParentKeeps => FifoInv'
<1>1. SUFFICES ASSUME FifoInv, U!OpenBoth, U!ParentKeeps PROVE FifoInv'
  OBVIOUS
<1>2. UNCHANGED <<text, shown, slave, buff>>
  BY <1>1 DEF U!OpenBoth, U!ParentKeeps
<1>3. CASE parent = "open1" /\ U!Open("pipe1", "w") /\ parent' = "open2"
  BY <1>1, <1>2, <1>3, OpenIs DEF FifoInv, FifoType, Sent, Opened, U!RightReply, Pipes
<1>4. CASE parent = "open2" /\ U!Open("pipe2", "r") /\ parent' = "types"
  BY <1>1, <1>2, <1>4, OpenIs DEF FifoInv, FifoType, Sent, Opened, U!RightReply, Pipes
<1>5. QED
  BY <1>1, <1>3, <1>4 DEF U!OpenBoth, U!ParentTo

LEMMA FifoKeys == FifoInv /\ U!Keys /\ U!ParentKeeps => FifoInv'
<1>1. SUFFICES ASSUME FifoInv, U!Keys, U!ParentKeeps PROVE FifoInv'
  OBVIOUS
<1>2. UNCHANGED <<shown, slave, buff, fifo>> /\ parent = "types"
  BY <1>1 DEF U!Keys, U!Escape, U!Type, U!ParentKeeps
<1>3. CASE U!Escape
  BY <1>1, <1>2, <1>3 DEF FifoInv, FifoType, Sent, Opened, U!RightReply, U!Escape, U!ParentTo
<1>4. ASSUME NEW c \in Letters \cup {"back"}, U!Type(c) PROVE FifoInv'
  <2>1. text' \in Seq(Letters) /\ Len(text') <= MaxLine /\ parent' = parent
    <3>1. CASE c = "back"
      <4>1. text # <<>> /\ text' = SubSeq(text, 1, Len(text) - 1) /\ parent' = parent
        BY <1>4, <3>1 DEF U!Type, U!Front
      <4>2. text \in Seq(Letters) /\ Len(text) <= MaxLine
        BY <1>1 DEF FifoInv, FifoType
      <4>3. QED
        BY <4>1, <4>2, SubSeqProperties, FifoConstants
    <3>2. CASE c # "back"
      BY <1>1, <1>4, <3>2, FifoConstants DEF FifoInv, FifoType, U!Type
    <3>3. QED
      BY <3>1, <3>2
  <2>2. QED
    BY <1>1, <1>2, <2>1 DEF FifoInv, FifoType, Sent, Opened, U!RightReply
<1>5. QED
  BY <1>1, <1>3, <1>4 DEF U!Keys, Letters

LEMMA FifoSend == FifoInv /\ U!Send /\ U!ParentKeeps => FifoInv'
<1>1. SUFFICES ASSUME FifoInv, U!Send, U!ParentKeeps PROVE FifoInv'
  OBVIOUS
<1>2. UNCHANGED <<text, shown, slave, buff>> /\ parent = "types" /\ parent' = "waits" /\ text # <<>>
  BY <1>1 DEF U!Send, U!ParentKeeps, U!ParentTo
<1>3. fifo' = [fifo EXCEPT !["pipe1"].data = text] /\ text \in Seq(Chars)
  <2>1. text \in Seq(Letters) /\ Letters \subseteq Chars
    BY <1>1 DEF FifoInv, FifoType, Chars
  <2>2. QED
    BY <1>1, <2>1 DEF U!Send, U!Write
<1>4. QED
  BY <1>1, <1>2, <1>3, WriteIs DEF FifoInv, FifoType, Sent, Opened, U!RightReply, Pipes

LEMMA FifoAnswered == FifoInv /\ U!Answered /\ U!ParentKeeps => FifoInv'
<1>1. SUFFICES ASSUME FifoInv, U!Answered, U!ParentKeeps PROVE FifoInv'
  OBVIOUS
<1> DEFINE reply == fifo["pipe2"].data
<1>2. UNCHANGED <<text, slave, buff>> /\ parent = "waits" /\ parent' = "printed"
  BY <1>1 DEF U!Answered, U!ParentKeeps, U!ParentTo
<1>3. shown' = SubSeq(reply, 1, U!SelectInSeq(Append(reply, "nul"), LAMBDA c : c = "nul") - 1)
  BY <1>1 DEF U!Answered
<1>4. fifo' = [fifo EXCEPT !["pipe2"].data = <<>>]
  BY <1>1 DEF U!Answered, U!Read
<1>5. reply # <<>>
  BY <1>1, <1>2 DEF U!Answered, U!Readable, FifoInv, FifoType, Opened
<1>6. Answers(reply, text) /\ Len(reply) = MaxLine /\ slave = "reads" /\ fifo["pipe1"].data = <<>>
  BY <1>1, <1>2, <1>5 DEF FifoInv, Sent
<1>7. reply \in Seq(Chars) /\ text \in Seq(Letters) /\ Len(text) <= MaxLine
  BY <1>1 DEF FifoInv, FifoType, Pipes
<1>8. shown' = [i \in DOMAIN text |-> U!Capital(text[i])]
  BY <1>3, <1>6, <1>7, ReplyEnds
<1>9. U!RightReply'
  BY <1>2, <1>8 DEF U!RightReply, U!Capital
<1>10. QED
  BY <1>1, <1>2, <1>4, <1>6, <1>9, WriteIs DEF FifoInv, FifoType, Sent, Opened, Pipes

LEMMA FifoNext == FifoInv /\ U!NextLine /\ U!ParentKeeps => FifoInv'
<1>1. SUFFICES ASSUME FifoInv, U!NextLine, U!ParentKeeps PROVE FifoInv'
  OBVIOUS
<1>2. text' \in Seq(Letters) /\ Len(text') <= MaxLine
  BY <1>1, FifoConstants DEF U!NextLine
<1>3. QED
  BY <1>1, <1>2 DEF U!NextLine, U!ParentTo, U!ParentKeeps, FifoInv, FifoType, Sent, Opened, U!RightReply

LEMMA FifoCloses == FifoInv /\ U!CloseBoth /\ U!ParentKeeps => FifoInv'
<1>1. SUFFICES ASSUME FifoInv, U!CloseBoth, U!ParentKeeps PROVE FifoInv'
  OBVIOUS
<1>2. UNCHANGED <<text, shown, slave, buff>>
  BY <1>1 DEF U!CloseBoth, U!ParentKeeps
<1>3. CASE parent = "close1" /\ U!Close("pipe1", "w") /\ parent' = "close2"
  BY <1>1, <1>2, <1>3, CloseIs DEF FifoInv, FifoType, Sent, Opened, U!RightReply, Pipes
<1>4. CASE parent = "close2" /\ U!Close("pipe2", "r") /\ parent' = "waitPID"
  BY <1>1, <1>2, <1>4, CloseIs DEF FifoInv, FifoType, Sent, Opened, U!RightReply, Pipes
<1>5. CASE parent = "waitPID" /\ parent' = "done" /\ UNCHANGED fifo
  BY <1>1, <1>2, <1>5 DEF FifoInv, FifoType, Sent, Opened, U!RightReply
<1>6. QED
  BY <1>1, <1>3, <1>4, <1>5 DEF U!CloseBoth, U!ParentTo

LEMMA ChangedIs ==
  ASSUME FifoType, NEW t \in Seq(Letters), Len(t) <= MaxLine
  PROVE  U!Changed(t) \in [1 .. MaxLine -> Chars] /\ Answers(U!Changed(t), t)
<1>1. Len(t) \in Nat /\ MaxLine \in Nat
  BY FifoConstants
<1>2. ASSUME NEW i \in 1 .. Len(t) PROVE U!Capital(t[i]) \in Chars
  BY CapitalIs
<1>3. U!Changed(t) \in [1 .. MaxLine -> Chars]
  BY <1>1, <1>2 DEF U!Changed, FifoType, Chars
<1>4. Answers(U!Changed(t), t)
  BY <1>1 DEF U!Changed, Answers
<1>5. QED
  BY <1>3, <1>4

LEMMA FifoSlave == FifoInv /\ U!Slave => FifoInv'
<1>1. SUFFICES ASSUME FifoInv, U!Slave PROVE FifoInv'
  OBVIOUS
<1>2. UNCHANGED <<parent, text, shown>>
  BY <1>1 DEF U!Slave
<1>3. CASE slave = "open1" /\ U!Open("pipe1", "r") /\ slave' = "open2" /\ UNCHANGED buff
  BY <1>1, <1>2, <1>3, OpenIs DEF FifoInv, FifoType, Sent, Opened, U!RightReply, Pipes
<1>4. CASE slave = "open2" /\ U!Open("pipe2", "w") /\ slave' = "reads" /\ UNCHANGED buff
  BY <1>1, <1>2, <1>4, OpenIs DEF FifoInv, FifoType, Sent, Opened, U!RightReply, Pipes
<1>5. CASE U!SlaveReads
  <2>1. fifo' = [fifo EXCEPT !["pipe1"].data = <<>>] /\ slave = "reads"
    BY <1>5 DEF U!SlaveReads, U!Read
  <2>2. CASE fifo["pipe1"].data = <<>>
    BY <1>1, <1>2, <1>5, <2>1, <2>2, WriteIs DEF U!SlaveReads, U!Readable, FifoInv, FifoType, Sent, Opened, U!RightReply, Pipes
  <2>3. CASE fifo["pipe1"].data # <<>>
    <3>1. parent = "waits" /\ fifo["pipe1"].data = text /\ fifo["pipe2"].data = <<>>
      BY <1>1, <2>3 DEF FifoInv, Sent
    <3>2. slave' = "writes" /\ buff' = U!Changed(text)
      BY <1>5, <2>3, <3>1 DEF U!SlaveReads
    <3>3. buff' \in [1 .. MaxLine -> Chars] /\ Answers(buff', text)
      BY <1>1, <3>2, ChangedIs DEF FifoInv, FifoType
    <3>4. QED
      BY <1>1, <1>2, <2>1, <3>1, <3>2, <3>3, WriteIs DEF FifoInv, FifoType, Sent, Opened, U!RightReply, Pipes
  <2>4. QED
    BY <2>2, <2>3
<1>6. CASE U!SlaveWrites
  <2>1. fifo' = [fifo EXCEPT !["pipe2"].data = buff] /\ slave = "writes" /\ slave' = "reads" /\ UNCHANGED buff
    BY <1>6 DEF U!SlaveWrites, U!Write
  <2>2. buff \in Seq(Chars) /\ Len(buff) = MaxLine
    BY <1>1, FifoConstants, SeqDef DEF FifoInv, FifoType
  <2>3. parent = "waits" /\ Answers(buff, text) /\ fifo["pipe1"].data = <<>>
    BY <1>1, <2>1 DEF FifoInv, Sent
  <2>4. QED
    BY <1>1, <1>2, <2>1, <2>2, <2>3, WriteIs DEF FifoInv, FifoType, Sent, Opened, U!RightReply, Pipes
<1>7. CASE slave = "close1" /\ U!Close("pipe1", "r") /\ slave' = "close2" /\ UNCHANGED buff
  BY <1>1, <1>2, <1>7, CloseIs DEF FifoInv, FifoType, Sent, Opened, U!RightReply, Pipes
<1>8. CASE slave = "close2" /\ U!Close("pipe2", "w") /\ slave' = "done" /\ UNCHANGED buff
  BY <1>1, <1>2, <1>8, CloseIs DEF FifoInv, FifoType, Sent, Opened, U!RightReply, Pipes
<1>9. CASE U!SlaveEnds
  BY <1>1, <1>2, <1>9 DEF U!SlaveEnds, FifoInv, FifoType, Sent, Opened, U!RightReply
<1>10. QED
  BY <1>1, <1>3, <1>4, <1>5, <1>6, <1>7, <1>8, <1>9 DEF U!Slave, U!SlaveOpens, U!SlaveCloses

LEMMA FifoStep == FifoInv /\ [U!Next]_fifos => FifoInv'
<1>1. SUFFICES ASSUME FifoInv, [U!Next]_fifos PROVE FifoInv'
  OBVIOUS
<1>2. CASE UNCHANGED fifos
  BY <1>1, <1>2 DEF fifos, FifoInv, FifoType, Sent, Opened, U!RightReply, Answers
<1>3. CASE U!Start
  BY <1>1, <1>3 DEF U!Start, FifoInv, FifoType, Sent, Opened, U!RightReply
<1>4. QED
  BY <1>1, <1>2, <1>3, FifoOpens, FifoKeys, FifoSend, FifoAnswered, FifoNext, FifoCloses, FifoSlave DEF U!Next, U!Parent

-----------------------------------------------------------------------------
(* Shell.                                                                  *)

Process ==
    [status : {"alive", "marked", "zombie"}, bg : BOOLEAN, prog : STRING,
     pc : {"run", "returned", "ends", "purged", "closed", "marked", "stuck", "ended"},
     in : {"r", "w", "tty"} \X Int, out : {"r", "w", "tty"} \X Int]

ShellType ==
    /\ line = <<>> \/ line \in Lines
    /\ at \in Nat \ {0} /\ (line # <<>> => at <= IF call = "wait" THEN Len(line) + 1 ELSE Len(line))
    /\ call \in {"check", "exec", "closeOut", "closeIn", "foreground", "wait"}
    /\ pids \in Seq(S!Pid)
    /\ proc \in [S!Pid -> {S!None} \cup Process]

\* What is open is an end that a loop will still close.
HeldIs ==
    \A e \in held :
        /\ line # <<>> /\ call # "wait"
        /\ \E j \in 1 .. Len(line) :
              \/ e = S!Out(j) /\ IF call = "check" THEN j < at
                                 ELSE j < Len(line) /\ (j > at \/ (j = at /\ call \in {"exec", "closeOut"}))
              \/ e = S!In(j) /\ j > 1 /\ IF call = "check" THEN j <= at
                                         ELSE j > at \/ (j = at /\ call # "foreground")

\* The commands started, and a number for each that is not.
Free == S!Pid \ S!Used
Numbered ==
    line # <<>> =>
        /\ call = "check" => Len(pids) = 0
        /\ call = "exec" => Len(pids) = at - 1
        /\ call \in {"closeOut", "closeIn", "foreground"} => Len(pids) = at
        /\ call = "wait" => Len(pids) = Len(line)
        /\ Cardinality(Free) >= Len(line) - Len(pids)

\* Who is not in the background will be waited for.
Awaited ==
    \A p \in S!Used :
        proc[p].bg \/ /\ line # <<>>
                      /\ \E j \in 1 .. Len(pids) :
                            pids[j] = p /\ ~line[j].bg /\ (call = "wait" => j >= at)

Accepted == line # <<>> => ~S!RefusedLate(line) /\ (call = "check" /\ at > 1 => ~S!Refused(line, 1))

ShellInv == ShellType /\ HeldIs /\ Numbered /\ Awaited /\ Accepted

LEMMA ShellConstants == /\ MaxPid \in Nat /\ Lines \subseteq Seq([prog : STRING, bg : BOOLEAN])
                        /\ \A l \in Lines : l # <<>> /\ Len(l) \in Nat \ {0}
                                            /\ \A j \in 1 .. Len(l) : l[j] \in [prog : STRING, bg : BOOLEAN]
                        /\ S!None \notin Process /\ S!Pid \subseteq Nat
                        /\ IsFiniteSet(S!Pid)
<1>1. IsFiniteSet(S!Pid)
  BY UserAssumption, FS_Interval DEF S!ShellAssumption, S!Pid
<1>2. \A r \in Process : r.status # "none"
  BY DEF Process
<1>3. S!None \notin Process
  BY <1>2 DEF S!None
<1>4. /\ MaxPid \in Nat /\ Lines \subseteq Seq([prog : STRING, bg : BOOLEAN])
      /\ \A l \in Lines : l # <<>>
  BY UserAssumption DEF S!ShellAssumption
<1>5. ASSUME NEW l \in Lines
      PROVE  Len(l) \in Nat \ {0} /\ \A j \in 1 .. Len(l) : l[j] \in [prog : STRING, bg : BOOLEAN]
  <2> DEFINE Command == [prog : STRING, bg : BOOLEAN]
  <2>1. l \in Seq(Command) /\ l # <<>>
    BY <1>4
  <2> HIDE DEF Command
  <2>2. Len(l) \in Nat \ {0} /\ \A j \in 1 .. Len(l) : l[j] \in Command
    BY <2>1
  <2>3. QED
    BY <2>2 DEF Command
<1>6. QED
  BY <1>1, <1>3, <1>4, <1>5 DEF S!Pid

\* The instance's Cardinality is that of the theorems.
LEMMA ShellCardinality == \A I : S!Cardinality(I) = Cardinality(I)
BY DEF S!Cardinality, Cardinality

\* A non-empty set of numbers has a least.
LEMMA LeastOf ==
    ASSUME NEW I \in SUBSET Nat, I # {}
    PROVE  \E x \in I : \A y \in I : x <= y
<1>1. PICK x \in I : \A y \in I : ~ (<<y, x>> \in OpToRel(<, Nat))
  BY NatLessThanWellFounded, WFMin
<1>2. ASSUME NEW y \in I PROVE x <= y
  <2>1. ~ (<<y, x>> \in OpToRel(<, Nat)) /\ x \in Nat /\ y \in Nat
    BY <1>1
  <2>2. ~ (y < x)
    BY <2>1 DEF OpToRel
  <2>3. \A m, k \in Nat : ~ (k < m) => m <= k
    OBVIOUS
  <2>4. QED
    BY <2>1, <2>2, <2>3
<1>3. QED
  BY <1>2

LEMMA ShellInit == S!Init => ShellInv
<1>1. SUFFICES ASSUME S!Init PROVE ShellInv
  OBVIOUS
<1>2. \A p \in S!Pid : proc[p] = S!None
  BY <1>1 DEF S!Init
<1>3. S!Used = {}
  BY <1>2 DEF S!Used
<1>4. QED
  BY <1>1, <1>3 DEF S!Init, ShellInv, ShellType, HeldIs, Numbered, Awaited, Accepted

-----------------------------------------------------------------------------
\* What a program does leaves the shell, and who is in the background, as they are.
LEMMA ShellProgram ==
  ASSUME ShellInv, UNCHANGED <<line, at, call, pids, held>>, proc' \in [S!Pid -> {S!None} \cup Process],
         \A p \in S!Pid : (proc'[p] = S!None <=> proc[p] = S!None) /\ (proc[p] # S!None => proc'[p].bg = proc[p].bg)
  PROVE  ShellInv'
<1>1. S!Used' = S!Used /\ Free' = Free
  BY DEF S!Used, S!Pid, Free
<1>2. ShellType' /\ HeldIs'
  BY DEF ShellInv, ShellType, HeldIs, S!Pid, S!None, S!Out, S!In
<1>3. Numbered' /\ Accepted'
  BY <1>1 DEF ShellInv, Numbered, Accepted, S!RefusedLate, S!Refused
<1>4. Awaited'
  BY <1>1 DEF ShellInv, Awaited, S!Used
<1>5. QED
  BY <1>2, <1>3, <1>4 DEF ShellInv

LEMMA ShellOfUsed ==
  ASSUME ShellInv, NEW p \in S!Used, UNCHANGED <<line, at, call, pids, held>>,
         \/ UNCHANGED proc
         \/ \E next \in {"returned", "ends", "purged", "stuck"} : proc' = [proc EXCEPT ![p].pc = next]
         \/ proc' = [proc EXCEPT ![p] = [@ EXCEPT !.pc = "closed", !.in = S!Tty, !.out = S!Tty]]
         \/ proc' = [proc EXCEPT ![p] = [@ EXCEPT !.pc = "marked", !.status = "marked"]]
         \/ S!Kill(p)
  PROVE  ShellInv'
<1>1. proc[p] \in Process /\ p \in S!Pid
  BY DEF ShellInv, ShellType, S!Used, S!None
<1>2. \A next \in {"returned", "ends", "purged", "stuck"} :
         [proc[p] EXCEPT !.pc = next] \in Process /\ [proc[p] EXCEPT !.pc = next].bg = proc[p].bg
  BY <1>1 DEF Process
<1>3. /\ [proc[p] EXCEPT !.pc = "closed", !.in = S!Tty, !.out = S!Tty] \in Process
      /\ [proc[p] EXCEPT !.pc = "closed", !.in = S!Tty, !.out = S!Tty].bg = proc[p].bg
      /\ [proc[p] EXCEPT !.pc = "marked", !.status = "marked"] \in Process
      /\ [proc[p] EXCEPT !.pc = "marked", !.status = "marked"].bg = proc[p].bg
      /\ [proc[p] EXCEPT !.status = "zombie", !.pc = "ended"] \in Process
      /\ [proc[p] EXCEPT !.status = "zombie", !.pc = "ended"].bg = proc[p].bg
  <2>1. S!Tty \in {"r", "w", "tty"} \X Int
    BY DEF S!Tty
  <2>2. QED
    BY <1>1, <2>1 DEF Process
<1>4. UNCHANGED proc \/ \E r \in Process : r.bg = proc[p].bg /\ proc' = [proc EXCEPT ![p] = r]
  BY <1>2, <1>3 DEF S!Kill
<1>5. proc \in [S!Pid -> {S!None} \cup Process]
  BY DEF ShellInv, ShellType
<1>6. CASE UNCHANGED proc
  BY <1>5, <1>6, ShellProgram
<1>7. CASE \E r \in Process : r.bg = proc[p].bg /\ proc' = [proc EXCEPT ![p] = r]
  <2>1. PICK r \in Process : r.bg = proc[p].bg /\ proc' = [proc EXCEPT ![p] = r]
    BY <1>7
  <2>2. /\ proc' \in [S!Pid -> {S!None} \cup Process]
        /\ \A q \in S!Pid : proc'[q] = IF q = p THEN r ELSE proc[q]
    BY <1>5, <2>1
  <2>3. QED
    BY <1>1, <2>1, <2>2, ShellProgram, ShellConstants
<1>8. QED
  BY <1>4, <1>6, <1>7

LEMMA ShellPrograms ==
  ASSUME ShellInv, NEW p \in S!Used, S!Program(p) \/ S!Key(p) \/ S!Tick(p)
  PROVE  ShellInv'
<1>1. UNCHANGED <<line, at, call, pids, held>>
  BY DEF S!Program, S!Writer, S!Copier, S!Wrapper, S!Key, S!Tick, S!shell
<1>2. \/ UNCHANGED proc
      \/ \E next \in {"returned", "ends", "purged", "stuck"} : S!Goes(p, next)
      \/ proc' = [proc EXCEPT ![p] = [@ EXCEPT !.pc = "closed", !.in = S!Tty, !.out = S!Tty]]
      \/ proc' = [proc EXCEPT ![p] = [@ EXCEPT !.pc = "marked", !.status = "marked"]]
      \/ S!Kill(p)
  BY DEF S!Program, S!Writer, S!Copier, S!Wrapper, S!Key, S!Tick
<1>3. QED
  BY <1>1, <1>2, ShellOfUsed DEF S!Goes

LEMMA ShellDispatch == ShellInv /\ (S!Dispatch \/ S!Interrupt) => ShellInv'
<1>1. SUFFICES ASSUME ShellInv, S!Dispatch \/ S!Interrupt PROVE ShellInv'
  OBVIOUS
<1>2. UNCHANGED <<line, at, call, pids, held>>
  BY <1>1 DEF S!Dispatch, S!Interrupt, S!shell
<1>3. CASE S!Dispatch
  <2>1. UNCHANGED proc /\ proc \in [S!Pid -> {S!None} \cup Process]
    BY <1>1, <1>3 DEF S!Dispatch, ShellInv, ShellType
  <2>2. QED
    BY <1>1, <1>2, <2>1, ShellProgram
<1>4. CASE S!Interrupt
  <2>1. foregroundPID \in S!Used
    BY <1>4 DEF S!Interrupt, S!Alive, S!Used, S!None
  <2>2. QED
    BY <1>1, <1>2, <1>4, <2>1, ShellOfUsed DEF S!Interrupt
<1>5. QED
  BY <1>1, <1>3, <1>4

LEMMA ShellReads == ASSUME NEW l \in Lines, ShellInv, ~LateErrors, S!ReadLine(l) PROVE ShellInv'
<1>1. /\ line = <<>> /\ line' = l /\ at' = 1 /\ call' = "check" /\ pids' = <<>>
      /\ UNCHANGED <<held, proc>> /\ S!Cardinality(Free) >= Len(l) /\ ~S!RefusedLate(l)
  BY DEF S!ReadLine, S!AtPrompt, Free
<1>2. l # <<>> /\ Len(l) \in Nat \ {0}
  BY ShellConstants
<1>3. ShellType'
  BY <1>1, <1>2 DEF ShellInv, ShellType, S!Pid, S!None
<1>4. HeldIs'
  BY <1>1 DEF ShellInv, HeldIs
<1>5. Numbered'
  <2>1. Free' = Free
    BY <1>1 DEF Free, S!Pid, S!Used, S!None
  <2>2. QED
    BY <1>1, <1>2, <2>1, ShellCardinality DEF Numbered
<1>6. Awaited'
  BY <1>1 DEF ShellInv, Awaited, S!Used, S!Pid, S!None
<1>7. Accepted'
  BY <1>1 DEF Accepted, S!RefusedLate, S!Refused, S!Programs, S!Internal, S!FullscreenPrograms
<1>8. QED
  BY <1>3, <1>4, <1>5, <1>6, <1>7 DEF ShellInv

LEMMA ShellChecks == ShellInv /\ S!Check => ShellInv'
<1>1. SUFFICES ASSUME ShellInv, S!Check PROVE ShellInv'
  OBVIOUS
<1>2. line # <<>> /\ line \in Lines /\ call = "check" /\ at \in 1 .. Len(line) /\ Len(line) \in Nat \ {0} /\ Len(pids) = 0
      /\ UNCHANGED <<pids, proc>>
  BY <1>1, ShellConstants DEF S!Check, S!AtPrompt, ShellInv, ShellType, Numbered
<1>3. Free' = Free /\ S!Used' = S!Used
  BY <1>2 DEF Free, S!Pid, S!Used, S!None
<1>4. Awaited'
  BY <1>1, <1>2, <1>3 DEF ShellInv, Awaited
<1>5. CASE S!Refused(line, at) \/ line[at].prog \in S!Internal
  <2>1. line' = <<>> /\ UNCHANGED <<at, call, held>>
    BY <1>1, <1>5 DEF S!Check
  <2>2. at = 1
    <3>1. SUFFICES ASSUME at > 1 PROVE FALSE
      BY <1>2
    <3>2. ~S!Refused(line, 1) /\ ~S!RefusedLate(line)
      BY <1>1, <1>2, <3>1 DEF ShellInv, Accepted
    <3>3. ~S!Refused(line, at)
      BY <1>2, <3>2 DEF S!RefusedLate
    <3>4. Len(line) > 1
      BY <1>2, <3>1
    <3>5. QED
      BY <1>5, <3>3, <3>4 DEF S!Refused
  <2>3. held = {}
    BY <1>1, <1>2, <2>2 DEF ShellInv, HeldIs
  <2>4. QED
    BY <1>1, <1>2, <1>4, <2>1, <2>3 DEF ShellInv, ShellType, HeldIs, Numbered, Accepted, S!Pid, S!None
<1>6. CASE ~ (S!Refused(line, at) \/ line[at].prog \in S!Internal)
  <2>1. line' = line /\ Accepted'
    BY <1>1, <1>2, <1>6 DEF S!Check, ShellInv, Accepted, S!RefusedLate, S!Refused, S!Programs, S!Internal, S!FullscreenPrograms
  <2>2. CASE at < Len(line)
    <3>1. held' = held \cup {S!Out(at), S!In(at + 1)} /\ at' = at + 1 /\ call' = call
      BY <1>1, <1>6, <2>2 DEF S!Check
    <3>2. ShellType' /\ Numbered'
      BY <1>1, <1>2, <1>3, <2>1, <2>2, <3>1 DEF ShellInv, ShellType, Numbered, S!Pid, S!None
    <3>3. HeldIs'
      <4>1. SUFFICES ASSUME NEW e \in held'
                     PROVE  \E j \in 1 .. Len(line) :
                                \/ e = S!Out(j) /\ j < at + 1
                                \/ e = S!In(j) /\ j > 1 /\ j <= at + 1
        BY <1>2, <2>1, <3>1 DEF HeldIs, S!Out, S!In
      <4>2. CASE e \in held
        BY <1>1, <1>2, <4>2 DEF ShellInv, HeldIs
      <4>3. CASE e = S!Out(at) \/ e = S!In(at + 1)
        BY <1>2, <2>2, <4>3
      <4>4. QED
        BY <3>1, <4>1, <4>2, <4>3
    <3>4. QED
      BY <1>4, <2>1, <3>2, <3>3 DEF ShellInv
  <2>3. CASE ~ (at < Len(line))
    <3>1. at' = 1 /\ call' = "exec" /\ held' = held
      BY <1>1, <1>6, <2>3 DEF S!Check
    <3>2. ShellType' /\ Numbered'
      BY <1>1, <1>2, <1>3, <2>1, <2>3, <3>1 DEF ShellInv, ShellType, Numbered, S!Pid, S!None
    <3>3. HeldIs'
      <4>1. SUFFICES ASSUME NEW e \in held
                     PROVE  \E j \in 1 .. Len(line) :
                                \/ e = S!Out(j) /\ j < Len(line) /\ j >= 1
                                \/ e = S!In(j) /\ j > 1
        BY <1>2, <2>1, <3>1 DEF HeldIs, S!Out, S!In
      <4>2. QED
        BY <1>1, <1>2, <2>3 DEF ShellInv, HeldIs
    <3>4. QED
      BY <1>4, <2>1, <3>2, <3>3 DEF ShellInv
  <2>4. QED
    BY <2>2, <2>3
<1>7. QED
  BY <1>5, <1>6

\* A step of the second loop closes the end of the command that is its turn, if it closes one.
LEMMA ShellGoesOn ==
  ASSUME ShellInv, line # <<>>, call \in {"exec", "closeOut", "closeIn", "foreground"}, UNCHANGED line,
         S!GoTo(IF call = "exec" THEN S!AfterExec ELSE IF call = "closeOut" THEN S!AfterOut ELSE "next"),
         held' = IF call = "closeOut" THEN held \ {S!Out(at)}
                 ELSE IF call = "closeIn" THEN held \ {S!In(at)} ELSE held
  PROVE  /\ at' \in Nat \ {0} /\ at' <= Len(line)
         /\ call' \in {"exec", "closeOut", "closeIn", "foreground", "wait"}
         /\ call' = "exec" => at' = at + 1 /\ at < Len(line)
         /\ call' = "wait" => at' = 1 /\ at = Len(line)
         /\ call' \in {"closeOut", "closeIn", "foreground"} => at' = at
         /\ HeldIs'
<1> DEFINE L == Len(line)
           Rest(e) == \E j \in 1 .. L : j > at /\ ((e = S!Out(j) /\ j < L) \/ (e = S!In(j) /\ j > 1))
<1>1. at \in 1 .. L /\ L \in Nat \ {0}
  BY ShellConstants DEF ShellInv, ShellType
<1>2. ASSUME NEW e \in held
      PROVE  \E j \in 1 .. L : \/ e = S!Out(j) /\ j < L /\ (j > at \/ (j = at /\ call \in {"exec", "closeOut"}))
                               \/ e = S!In(j) /\ j > 1 /\ (j > at \/ (j = at /\ call # "foreground"))
  BY DEF ShellInv, HeldIs
<1>3. CASE S!GoTo("next") /\ \A e \in held' : Rest(e)
  <2>1. CASE at < L
    <3>1. call' = "exec" /\ at' = at + 1
      BY <1>3, <2>1 DEF S!GoTo
    <3>2. HeldIs'
      <4>1. SUFFICES ASSUME NEW e \in held'
                     PROVE  \E j \in 1 .. L : \/ e = S!Out(j) /\ j < L /\ j >= at + 1
                                              \/ e = S!In(j) /\ j > 1 /\ j >= at + 1
        BY <1>1, <3>1 DEF HeldIs, S!Out, S!In
      <4>2. QED
        BY <1>1, <1>3
    <3>3. QED
      BY <1>1, <2>1, <3>1, <3>2
  <2>2. CASE ~ (at < L)
    <3>1. call' = "wait" /\ at' = 1 /\ at = L
      BY <1>1, <1>3, <2>2 DEF S!GoTo
    <3>2. held' = {}
      BY <1>1, <1>3, <3>1
    <3>3. QED
      BY <1>1, <3>1, <3>2 DEF HeldIs
  <2>3. QED
    BY <2>1, <2>2
<1>4. CASE /\ (S!GoTo("closeIn") /\ at > 1) \/ (S!GoTo("foreground") /\ ~ (at > 1))
           /\ \A e \in held' : Rest(e) \/ (e = S!In(at) /\ at > 1)
  <2>1. call' \in {"closeIn", "foreground"} /\ (call' = "closeIn" <=> at > 1) /\ at' = at
    BY <1>4 DEF S!GoTo
  <2>2. HeldIs'
    <3>1. ASSUME NEW e \in held'
          PROVE  /\ line' # <<>> /\ call' # "wait" /\ call' # "check"
                 /\ \E j \in 1 .. Len(line') :
                      \/ e = S!Out(j) /\ j < Len(line') /\ j > at'
                      \/ e = S!In(j) /\ j > 1 /\ (j > at' \/ (j = at' /\ call' # "foreground"))
      <4>1. PICK j \in 1 .. L : \/ e = S!Out(j) /\ j < L /\ j > at
                                \/ e = S!In(j) /\ j > 1 /\ (j > at \/ (j = at /\ at > 1))
        BY <1>1, <1>4, <3>1
      <4>2. j = at /\ at > 1 => call' # "foreground"
        BY <2>1
      <4>3. QED
        BY <1>1, <2>1, <4>1, <4>2
    <3>2. QED
      BY <3>1 DEF HeldIs, S!Out, S!In
  <2>3. QED
    BY <1>1, <2>1, <2>2
<1>5. CASE at < L /\ call = "exec"
  <2>1. call' = "closeOut" /\ at' = at /\ held' = held
    BY <1>5 DEF S!AfterExec, S!GoTo
  <2>2. HeldIs'
    BY <1>1, <1>2, <2>1 DEF HeldIs, S!Out, S!In
  <2>3. QED
    BY <1>1, <2>1, <2>2
<1>6. CASE call = "closeOut" \/ (call = "exec" /\ at = L)
  <2>1. S!GoTo(S!AfterOut) /\ \A e \in held' : Rest(e) \/ (e = S!In(at) /\ at > 1)
    <3>1. S!GoTo(S!AfterOut)
      BY <1>1, <1>6 DEF S!AfterExec
    <3>2. ASSUME NEW e \in held' PROVE Rest(e) \/ (e = S!In(at) /\ at > 1)
      BY <1>1, <1>2, <1>6
    <3>3. QED
      BY <3>1, <3>2
  <2>2. CASE at > 1
    <3>1. S!AfterOut = "closeIn"
      BY <2>2 DEF S!AfterOut
    <3>2. S!GoTo("closeIn")
      BY <2>1, <3>1 DEF S!GoTo
    <3>3. QED
      BY <1>4, <2>1, <2>2, <3>2
  <2>3. CASE ~ (at > 1)
    <3>1. \A e \in held' : Rest(e)
      BY <2>1, <2>3
    <3>2. S!GoTo("next") \/ S!GoTo("foreground")
      BY <2>1, <2>3 DEF S!AfterOut
    <3>3. CASE S!GoTo("next")
      BY <1>3, <3>1, <3>3
    <3>4. CASE S!GoTo("foreground")
      BY <1>4, <2>3, <3>1, <3>4
    <3>5. QED
      BY <3>2, <3>3, <3>4
  <2>4. QED
    BY <2>2, <2>3
<1>7. CASE call \in {"closeIn", "foreground"}
  <2>1. S!GoTo("next")
    BY <1>7
  <2>2. ASSUME NEW e \in held' PROVE Rest(e)
    BY <1>1, <1>2, <1>7
  <2>3. QED
    BY <1>3, <2>1, <2>2
<1>8. call = "exec" => at < L \/ at = L
  BY <1>1
<1>9. \/ at < L /\ call = "exec"
      \/ call = "closeOut" \/ (call = "exec" /\ at = L)
      \/ call \in {"closeIn", "foreground"}
  BY <1>8
<1>10. QED
  BY <1>5, <1>6, <1>7, <1>9

LEMMA ShellCalls == ShellInv /\ (S!CloseOut \/ S!CloseIn \/ S!SetForeground) => ShellInv'
<1>1. SUFFICES ASSUME ShellInv, S!CloseOut \/ S!CloseIn \/ S!SetForeground PROVE ShellInv'
  OBVIOUS
<1>2. /\ line # <<>> /\ call \in {"closeOut", "closeIn", "foreground"} /\ UNCHANGED <<line, pids, proc>>
      /\ S!GoTo(IF call = "closeOut" THEN S!AfterOut ELSE "next")
      /\ held' = IF call = "closeOut" THEN held \ {S!Out(at)}
                 ELSE IF call = "closeIn" THEN held \ {S!In(at)} ELSE held
  BY <1>1 DEF S!CloseOut, S!CloseIn, S!SetForeground, S!AtPrompt
<1>3. /\ at' \in Nat \ {0} /\ at' <= Len(line)
      /\ call' \in {"exec", "closeOut", "closeIn", "foreground", "wait"}
      /\ call' = "exec" => at' = at + 1 /\ at < Len(line)
      /\ call' = "wait" => at' = 1 /\ at = Len(line)
      /\ call' \in {"closeOut", "closeIn", "foreground"} => at' = at
      /\ HeldIs'
  BY <1>1, <1>2, ShellGoesOn
<1>4. line \in Lines /\ Len(line) \in Nat \ {0} /\ at \in Nat
  BY <1>1, <1>2, ShellConstants DEF ShellInv, ShellType
<1>5. Free' = Free /\ S!Used' = S!Used
  BY <1>2 DEF Free, S!Pid, S!Used, S!None
<1>6. Numbered'
  <2>1. Len(pids) = at /\ Cardinality(Free) >= Len(line) - at
    BY <1>1, <1>2 DEF ShellInv, Numbered
  <2>2. /\ call' # "check"
        /\ call' = "exec" => Len(pids) = at' - 1
        /\ call' \in {"closeOut", "closeIn", "foreground"} => Len(pids) = at'
        /\ call' = "wait" => Len(pids) = Len(line)
    <3>1. call' = "exec" => at = at' - 1
      BY <1>3, <1>4
    <3>2. QED
      BY <1>3, <2>1, <3>1
  <2>3. QED
    BY <1>2, <1>5, <2>1, <2>2 DEF Numbered
<1>7. ShellType'
  BY <1>1, <1>2, <1>3, <1>4 DEF ShellInv, ShellType, S!Pid, S!None
<1>8. Awaited'
  BY <1>1, <1>2, <1>3, <1>4, <1>5 DEF ShellInv, Awaited, ShellType
<1>9. Accepted'
  BY <1>1, <1>2, <1>3 DEF ShellInv, Accepted, S!RefusedLate, S!Refused, S!Programs, S!Internal, S!FullscreenPrograms
<1>10. QED
  BY <1>3, <1>6, <1>7, <1>8, <1>9 DEF ShellInv

LEMMA ShellExec == ShellInv /\ S!Exec => ShellInv'
<1>1. SUFFICES ASSUME ShellInv, S!Exec PROVE ShellInv'
  OBVIOUS
<1> DEFINE p == CHOOSE q \in S!Pid \ S!Used : \A r \in S!Pid \ S!Used : q <= r
           made == [status |-> "alive", bg |-> line[at].bg, prog |-> line[at].prog,
                    pc |-> "run", in |-> S!End(S!In(at)), out |-> S!End(S!Out(at))]
<1>2. /\ line # <<>> /\ call = "exec" /\ UNCHANGED <<line, held>> /\ S!GoTo(S!AfterExec)
      /\ pids' = Append(pids, p) /\ proc' = [proc EXCEPT ![p] = made]
  BY <1>1 DEF S!Exec, S!AtPrompt
<1>3. /\ line \in Lines /\ Len(line) \in Nat \ {0} /\ at \in 1 .. Len(line) /\ line[at] \in [prog : STRING, bg : BOOLEAN]
      /\ proc \in [S!Pid -> {S!None} \cup Process] /\ pids \in Seq(S!Pid)
  BY <1>1, <1>2, ShellConstants DEF ShellInv, ShellType
<1>4. Len(pids) = at - 1 /\ Cardinality(Free) >= Len(line) - Len(pids)
  BY <1>1, <1>2 DEF ShellInv, Numbered
<1>5. IsFiniteSet(Free) /\ Free \subseteq Nat
  BY ShellConstants, FS_Subset DEF Free
<1>6. p \in Free
  <2>1. Free # {}
    <3>1. Len(line) - (at - 1) >= 1
      BY <1>3
    <3>2. Cardinality({}) = 0
      BY FS_EmptySet
    <3>3. ~ (0 >= 1) /\ Cardinality(Free) >= 1
      <4>1. Cardinality(Free) \in Nat
        BY <1>5, FS_CardinalityType
      <4>2. Cardinality(Free) >= Len(line) - (at - 1)
        BY <1>4
      <4>3. QED
        BY <1>3, <3>1, <4>1, <4>2
    <3>4. QED
      BY <3>2, <3>3
  <2>2. QED
    BY <1>5, <2>1, LeastOf DEF Free
<1> HIDE DEF p
<1>7. made \in Process
  <2>1. S!End(S!In(at)) \in {"r", "w", "tty"} \X Int /\ S!End(S!Out(at)) \in {"r", "w", "tty"} \X Int
    BY <1>3 DEF S!End, S!Tty, S!In, S!Out
  <2>2. QED
    BY <1>3, <2>1 DEF Process
<1>8. made.bg = line[at].bg
  OBVIOUS
<1> HIDE DEF made
<1>9. /\ at' \in Nat \ {0} /\ at' <= Len(line)
      /\ call' \in {"exec", "closeOut", "closeIn", "foreground", "wait"}
      /\ call' = "exec" => at' = at + 1 /\ at < Len(line)
      /\ call' = "wait" => at' = 1 /\ at = Len(line)
      /\ call' \in {"closeOut", "closeIn", "foreground"} => at' = at
      /\ HeldIs'
  BY <1>1, <1>2, ShellGoesOn
<1>10. /\ proc' \in [S!Pid -> {S!None} \cup Process]
       /\ \A q \in S!Pid : proc'[q] = IF q = p THEN made ELSE proc[q]
  BY <1>2, <1>3, <1>6, <1>7 DEF Free
<1>11. /\ pids' \in Seq(S!Pid) /\ Len(pids') = at /\ pids'[at] = p
       /\ \A j \in 1 .. at - 1 : pids'[j] = pids[j]
  BY <1>2, <1>3, <1>4, <1>6 DEF Free
<1>12. S!Used' = S!Used \cup {p} /\ Free' = Free \ {p}
  BY <1>6, <1>7, <1>10, ShellConstants DEF Free, S!Used, S!Pid, S!None
<1>13. Numbered'
  <2>1. Cardinality(Free \ {p}) = Cardinality(Free) - 1 /\ Cardinality(Free) \in Nat
    BY <1>5, <1>6, FS_RemoveElement, FS_CardinalityType
  <2>2. Cardinality(Free') >= Len(line) - at
    BY <1>3, <1>4, <1>12, <2>1
  <2>3. /\ call' # "check"
        /\ call' = "exec" => at = at' - 1
        /\ call' \in {"closeOut", "closeIn", "foreground"} => at = at'
        /\ call' = "wait" => at = Len(line)
    <3>1. at \in Nat /\ (at' = at + 1 => at = at' - 1)
      BY <1>3
    <3>2. QED
      BY <1>9, <3>1
  <2>4. QED
    BY <1>2, <1>11, <2>2, <2>3 DEF Numbered
<1>14. ShellType'
  BY <1>2, <1>3, <1>9, <1>10, <1>11 DEF ShellType, S!Pid, S!None
<1>15. Awaited'
  <2>1. SUFFICES ASSUME NEW q \in S!Used', ~proc'[q].bg
                 PROVE  \E j \in 1 .. at : pids'[j] = q /\ ~line[j].bg /\ (call' = "wait" => j >= at')
    BY <1>2, <1>11 DEF Awaited
  <2>2. CASE q = p
    BY <1>3, <1>6, <1>8, <1>9, <1>10, <1>11, <2>1, <2>2 DEF Free
  <2>3. CASE q # p
    <3>1. q \in S!Used /\ ~proc[q].bg
      BY <1>10, <1>12, <2>1, <2>3 DEF S!Used
    <3>2. PICK j \in 1 .. Len(pids) : pids[j] = q /\ ~line[j].bg
      BY <1>1, <3>1 DEF ShellInv, Awaited
    <3>3. QED
      BY <1>3, <1>4, <1>9, <1>11, <3>2
  <2>4. QED
    BY <2>2, <2>3
<1>16. Accepted'
  BY <1>1, <1>2, <1>9 DEF ShellInv, Accepted, S!RefusedLate, S!Refused, S!Programs, S!Internal, S!FullscreenPrograms
<1>17. QED
  BY <1>9, <1>13, <1>14, <1>15, <1>16 DEF ShellInv

LEMMA ShellWaits == ShellInv /\ S!WaitPID => ShellInv'
<1>1. SUFFICES ASSUME ShellInv, S!WaitPID PROVE ShellInv'
  OBVIOUS
<1> DEFINE m == S!Min(S!Waits)
<1>2. /\ line # <<>> /\ call = "wait" /\ UNCHANGED <<line, call, pids, held>> /\ at' = m + 1
      /\ proc' = [proc EXCEPT ![pids[m]] = S!None] /\ S!Waits # {}
  BY <1>1 DEF S!WaitPID, S!AtPrompt
<1>3. /\ line \in Lines /\ Len(line) \in Nat \ {0} /\ at \in Nat \ {0} /\ pids \in Seq(S!Pid) /\ Len(pids) = Len(line)
      /\ proc \in [S!Pid -> {S!None} \cup Process]
  BY <1>1, <1>2, ShellConstants DEF ShellInv, ShellType, Numbered
<1>4. m \in S!Waits /\ \A j \in S!Waits : m <= j
  <2>1. S!Waits \in SUBSET Nat
    BY <1>3 DEF S!Waits
  <2>2. QED
    BY <1>2, <2>1, LeastOf DEF S!Min
<1>5. m \in at .. Len(line) /\ pids[m] \in S!Pid
  BY <1>3, <1>4 DEF S!Waits
<1> HIDE DEF m
<1>6. /\ proc' \in [S!Pid -> {S!None} \cup Process]
      /\ \A q \in S!Pid : proc'[q] = IF q = pids[m] THEN S!None ELSE proc[q]
  BY <1>2, <1>3, <1>5
<1>7. S!Used' = S!Used \ {pids[m]} /\ Free' = Free \cup {pids[m]}
  BY <1>5, <1>6 DEF Free, S!Used, S!Pid, S!None
<1>8. ShellType'
  BY <1>1, <1>2, <1>3, <1>5, <1>6 DEF ShellType, S!Pid, S!None
<1>9. HeldIs'
  BY <1>1, <1>2 DEF ShellInv, HeldIs
<1>10. Numbered'
  <2>1. IsFiniteSet(Free \cup {pids[m]})
    BY <1>5, ShellConstants, FS_Subset, FS_Singleton, FS_Union DEF Free
  <2>2. Cardinality(Free \cup {pids[m]}) \in Nat
    BY <2>1, FS_CardinalityType
  <2>3. QED
    BY <1>2, <1>3, <1>7, <2>2 DEF Numbered
<1>11. Awaited'
  <2>1. SUFFICES ASSUME NEW q \in S!Used', ~proc'[q].bg
                 PROVE  \E j \in 1 .. Len(pids) : pids[j] = q /\ ~line[j].bg /\ j >= m + 1
    BY <1>2 DEF Awaited
  <2>2. q \in S!Used /\ ~proc[q].bg /\ q # pids[m]
    BY <1>6, <1>7, <2>1 DEF S!Used
  <2>3. PICK j \in 1 .. Len(pids) : pids[j] = q /\ ~line[j].bg /\ j >= at
    BY <1>1, <1>2, <2>2 DEF ShellInv, Awaited
  <2>4. j \in S!Waits
    BY <1>3, <2>3 DEF S!Waits
  <2>5. QED
    BY <1>3, <1>4, <1>5, <2>2, <2>3, <2>4
<1>12. Accepted'
  BY <1>1, <1>2 DEF ShellInv, Accepted, S!RefusedLate, S!Refused, S!Programs, S!Internal, S!FullscreenPrograms
<1>13. QED
  BY <1>8, <1>9, <1>10, <1>11, <1>12 DEF ShellInv

LEMMA ShellDone == ShellInv /\ S!LineDone => ShellInv'
<1>1. SUFFICES ASSUME ShellInv, S!LineDone PROVE ShellInv'
  OBVIOUS
<1>2. line # <<>> /\ call = "wait" /\ line' = <<>> /\ UNCHANGED <<at, call, pids, held, proc>> /\ S!Waits = {}
  BY <1>1 DEF S!LineDone, S!AtPrompt
<1>3. S!Used' = S!Used
  BY <1>2 DEF S!Pid, S!Used, S!None
<1>4. Awaited'
  <2>1. SUFFICES ASSUME NEW q \in S!Used, ~proc[q].bg PROVE FALSE
    BY <1>2, <1>3 DEF Awaited
  <2>2. PICK j \in 1 .. Len(pids) : pids[j] = q /\ ~line[j].bg /\ j >= at
    BY <1>1, <1>2, <2>1 DEF ShellInv, Awaited
  <2>3. j \in at .. Len(line)
    BY <1>1, <1>2, <2>2 DEF ShellInv, ShellType, Numbered
  <2>4. QED
    BY <1>2, <2>2, <2>3 DEF S!Waits
<1>5. QED
  BY <1>1, <1>2, <1>4 DEF ShellInv, ShellType, HeldIs, Numbered, Accepted, S!Pid, S!None

LEMMA ShellStep == ShellInv /\ ~LateErrors /\ [S!Next]_shell => ShellInv'
<1>1. SUFFICES ASSUME ShellInv, ~LateErrors, [S!Next]_shell PROVE ShellInv'
  OBVIOUS
<1>2. CASE UNCHANGED shell
  <2>1. proc \in [S!Pid -> {S!None} \cup Process] /\ UNCHANGED <<line, at, call, pids, held, proc>>
    BY <1>1, <1>2 DEF ShellInv, ShellType, shell
  <2>2. QED
    BY <1>1, <2>1, ShellProgram
<1>3. CASE \E l \in Lines : S!ReadLine(l)
  BY <1>1, <1>3, ShellReads
<1>4. CASE S!ShellStep
  BY <1>1, <1>4, ShellChecks, ShellExec, ShellCalls, ShellWaits, ShellDone DEF S!ShellStep
<1>5. CASE \E p \in S!Used : S!Program(p) \/ S!Key(p) \/ S!Tick(p)
  BY <1>1, <1>5, ShellPrograms
<1>6. S!Alive \subseteq S!Used /\ S!Ending \subseteq S!Used /\ \A p \in S!Ending : S!Wrapper(p) => S!Program(p)
  BY DEF S!Alive, S!Used, S!Ending, S!None, S!Program
<1>7. QED
  BY <1>1, <1>2, <1>3, <1>4, <1>5, <1>6, ShellDispatch DEF S!Next

LEMMA ShellPrompt == ShellInv => CleanPrompt
BY DEF ShellInv, HeldIs, Awaited, CleanPrompt, S!CleanPrompt, S!AtPrompt

-----------------------------------------------------------------------------
(* The composition: one part takes steps, the others' states stay.         *)

\* upDown.c: whatever the number of its threads and rounds, and wherever they are preempted, once
\* all are joined the variable is zero again.
THEOREM SumRight == PartSpec => []D!EndsAsBegun
<1>1. PartInit => SumInv
  BY SumInit DEF PartInit
<1>2. [PartNext]_partVars => [D!Next]_sum
  BY DEF PartNext, partVars, sum
<1>3. SumInv /\ [PartNext]_partVars => SumInv'
  BY <1>2, SumStep
<1>4. QED
  BY <1>1, <1>3, SumZero, PTL DEF PartSpec

\* refresh of snake.c: game_start leaves its sem_wait only when there is a reason for it in status,
\* or when the game before left a token in the semaphore.
THEOREM GameRight == PartSpec => []G!OverWhenLeft
<1>1. PartInit => GameInv
  BY GameInit DEF PartInit
<1>2. [PartNext]_partVars => [G!Next]_game
  BY DEF PartNext, partVars, game
<1>3. GameInv /\ [PartNext]_partVars => GameInv'
  BY <1>2, GameStep
<1>4. QED
  BY <1>1, <1>3, GameOver, PTL DEF PartSpec

\* toUppercase.c: what is printed for a line is the line in capitals, whatever was in the fifos
\* and in the slave's buffer before.
THEOREM ReplyRight == PartSpec => []U!RightReply
<1>1. PartInit => FifoInv
  BY FifoInit DEF PartInit
<1>2. [PartNext]_partVars => [U!Next]_fifos
  BY DEF PartNext, partVars, fifos
<1>3. FifoInv /\ [PartNext]_partVars => FifoInv'
  BY <1>2, FifoStep
<1>4. FifoInv => U!RightReply
  BY DEF FifoInv
<1>5. QED
  BY <1>1, <1>3, <1>4, PTL DEF PartSpec

\* All three programs: what their user sees at the end is right.
THEOREM ProgramsRight == PartSpec => []ResultsRight
<1>1. PartSpec => []D!EndsAsBegun /\ []G!OverWhenLeft /\ []U!RightReply
  BY SumRight, GameRight, ReplyRight
<1>2. D!EndsAsBegun /\ G!OverWhenLeft /\ U!RightReply => ResultsRight
  BY DEF ResultsRight
<1>3. QED
  BY <1>1, <1>2, PTL

\* commandParser: unless a command after the first is refused, every end of a pipe is closed and
\* every command that is not in the background was waited for when the prompt is back.
THEOREM PromptClean == ~LateErrors /\ PartSpec => []CleanPrompt
<1> SUFFICES ASSUME ~LateErrors PROVE PartSpec => []CleanPrompt
  OBVIOUS
<1>1. PartInit => ShellInv
  BY ShellInit DEF PartInit
<1>2. [PartNext]_partVars => [S!Next]_shell
  BY DEF PartNext, partVars, shell
<1>3. ShellInv /\ [PartNext]_partVars => ShellInv'
  BY <1>2, ShellStep
<1>4. QED
  BY <1>1, <1>3, ShellPrompt, PTL DEF PartSpec

\* threadJoin, of the threads beside the other parts: what JoinsRight says.
THEOREM JoinsBeside == Careful /\ PartSpec => []JoinsExact
<1> SUFFICES ASSUME Careful PROVE PartSpec => []JoinsExact
  OBVIOUS
<1>1. PartInit => IInv
  BY ThreadInit DEF PartInit
<1>2. [PartNext]_partVars => [Next]_vars
  BY DEF PartNext, partVars
<1>3. IInv /\ [PartNext]_partVars => IInv'
  BY <1>2, ThreadStep
<1>4. QED
  BY <1>1, <1>3, JoinsAre, PTL DEF PartSpec
=============================================================================
