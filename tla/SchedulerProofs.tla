--------------------------- MODULE SchedulerProofs --------------------------
(***************************************************************************)
(* Every listed thread is in the one list that its niceness, its queueID   *)
(* and the level that has the turn lead to, and queue 0 counts its own.    *)
(* Invariance is the induction; QueuesRight and OnlyListedRun follow.      *)
(***************************************************************************)
EXTENDS Scheduler, SequenceTheorems, FiniteSetTheorems, WellFoundedInduction, TLAPS

Distinct(q) == \A i, j \in DOMAIN q : q[i] = q[j] => i = j

\* Every list names a thread once, and only threads that belong there.
Housed ==
    /\ Distinct(roundRobin) /\ Distinct(backupQueue) /\ \A l \in Level : Distinct(queues[l])
    /\ \A t \in Thread :
          /\ Holds(roundRobin, t) => queueID[t] = 1 /\ nice[ProcessOf[t]] = 0
          /\ Holds(backupQueue, t) => /\ queueID[t] = 0 /\ nice[ProcessOf[t]] - 1 = currentPriority
                                      /\ ~ Holds(queues[currentPriority], t)
          /\ \A l \in Level : Holds(queues[l], t) => queueID[t] = 0 /\ nice[ProcessOf[t]] - 1 = l

\* The threads of queue 0.
Queue0 == {t \in Thread : Holds(backupQueue, t) \/ \E l \in Level : Holds(queues[l], t)}

\* A running thread that is not listed has asked for the switch.
Forced == current = Idle \/ Listed(current) \/ FORCE

IInv == TypeOK /\ Housed /\ threadCount = Cardinality(Queue0) /\ Forced

-----------------------------------------------------------------------------
\* Induction up to n, with the set of those for which it holds.
LEMMA Induct ==
    ASSUME NEW n \in Nat, NEW T, 0 \in T, \A i \in 1 .. n : i - 1 \in T => i \in T
    PROVE  \A i \in 0 .. n : i \in T
  <1> DEFINE B == {i \in 0 .. n : i \notin T}
  <1> SUFFICES ASSUME B # {} PROVE FALSE
    OBVIOUS
  <1>1. B \subseteq Nat
    OBVIOUS
  <1>2. \E x \in B : \A y \in B : ~ (<<y, x>> \in OpToRel(<, Nat))
    <2> HIDE DEF B
    <2> QED
      BY <1>1, NatLessThanWellFounded, WFMin
  <1>3. PICK x \in B : \A y \in B : ~ (<<y, x>> \in OpToRel(<, Nat))
    BY <1>2
  <1>4. x \in Nat /\ x # 0 /\ x - 1 \in 0 .. n /\ x \in 1 .. n
    OBVIOUS
  <1>5. x - 1 \notin T
    BY <1>4
  <1>6. x - 1 \in B /\ x - 1 \in Nat /\ x - 1 < x
    BY <1>4, <1>5
  <1>7. <<x - 1, x>> \in OpToRel(<, Nat)
    BY <1>4, <1>6 DEF OpToRel
  <1>8. QED
    BY <1>3, <1>6, <1>7

\* A non-empty set of positions has a first one.
LEMMA First ==
    ASSUME NEW n, NEW I \in SUBSET (1 .. n), I # {}
    PROVE  Min(I) \in I
  <1>1. I \subseteq Nat
    OBVIOUS
  <1>2. PICK x \in I : \A y \in I : ~ (<<y, x>> \in OpToRel(<, Nat))
    BY <1>1, NatLessThanWellFounded, WFMin
  <1>3. ASSUME NEW y \in I
        PROVE  x <= y
    <2>1. ~ (<<y, x>> \in OpToRel(<, Nat)) /\ x \in Nat /\ y \in Nat
      BY <1>1, <1>2
    <2>2. ~ (y < x)
      BY <2>1 DEF OpToRel
    <2>3. \A m, k \in Nat : ~ (k < m) => m <= k
      OBVIOUS
    <2>4. QED
      BY <2>1, <2>2, <2>3
  <1>4. QED
    BY <1>3 DEF Min

\* f is what g makes step by step of base.
Follows(f, n, V, base, g) ==
    f \in [0 .. n -> V] /\ f[0] = base /\ \A i \in 1 .. n : f[i] = g[<<i, f[i - 1]>>]

\* What is defined step by step up to n exists.
LEMMA Recursion ==
    ASSUME NEW n \in Nat, NEW V, NEW base \in V, NEW g \in [(1 .. n) \X V -> V]
    PROVE  \E f : Follows(f, n, V, base, g)
  <1> DEFINE Is(f, k) == f[0] = base /\ \A i \in 1 .. k : f[i] = g[<<i, f[i - 1]>>]
             T == {k \in 0 .. n : \E f \in [0 .. k -> V] : Is(f, k)}
  <1>1. 0 \in T
    <2>1. [i \in 0 .. 0 |-> base] \in [0 .. 0 -> V] /\ Is([i \in 0 .. 0 |-> base], 0)
      OBVIOUS
    <2>2. \E f \in [0 .. 0 -> V] : Is(f, 0)
      <3> HIDE DEF Is
      <3> QED
        BY <2>1
    <2>3. 0 \in 0 .. n
      OBVIOUS
    <2>4. QED
      BY <2>2, <2>3
  <1>2. ASSUME NEW k \in 1 .. n, k - 1 \in T
        PROVE  k \in T
    <2>1. PICK f \in [0 .. k - 1 -> V] : Is(f, k - 1)
      BY <1>2
    <2> DEFINE h == [i \in 0 .. k |-> IF i = k THEN g[<<k, f[k - 1]>>] ELSE f[i]]
    <2>2. f[k - 1] \in V /\ g[<<k, f[k - 1]>>] \in V
      BY <2>1
    <2>3. h \in [0 .. k -> V]
      BY <2>1, <2>2
    <2>4. h[k] = g[<<k, f[k - 1]>>] /\ \A i \in 0 .. k - 1 : h[i] = f[i]
      OBVIOUS
    <2>5. Is(h, k)
      <3> HIDE DEF h
      <3>1. h[0] = base
        BY <2>1, <2>4
      <3>2. ASSUME NEW i \in 1 .. k
            PROVE  h[i] = g[<<i, h[i - 1]>>]
        <4>1. i - 1 \in 0 .. k - 1 /\ h[i - 1] = f[i - 1]
          BY <2>4
        <4>2. CASE i = k
          BY <4>1, <4>2, <2>4
        <4>3. CASE i # k
          <5>1. i \in 1 .. k - 1 /\ i \in 0 .. k - 1
            BY <4>3
          <5>2. QED
            BY <5>1, <4>1, <2>1, <2>4
        <4>4. QED
          BY <4>2, <4>3
      <3>3. QED
        BY <3>1, <3>2
    <2>6. \E e \in [0 .. k -> V] : Is(e, k)
      <3> HIDE DEF Is, h
      <3> QED
        BY <2>3, <2>5
    <2>7. k \in 0 .. n
      OBVIOUS
    <2>8. QED
      BY <2>6, <2>7
  <1>3. n \in T
    <2> HIDE DEF T
    <2>1. \A i \in 0 .. n : i \in T
      BY <1>1, <1>2, Induct
    <2>2. QED
      BY <2>1
  <1>4. PICK f \in [0 .. n -> V] : Is(f, n)
    BY <1>3
  <1>5. QED
    BY <1>4 DEF Follows

-----------------------------------------------------------------------------
\* What lists hold.
LEMMA HoldsAt ==
    ASSUME NEW q \in Seq(Thread), NEW t
    PROVE  /\ Holds(q, t) <=> \E i \in 1 .. Len(q) : q[i] = t
           /\ Distinct(q) <=> \A i, j \in 1 .. Len(q) : q[i] = q[j] => i = j
           /\ Holds(q, t) => t \in Thread
           /\ Len(q) \in Nat /\ \A i \in 1 .. Len(q) : q[i] \in Thread
  BY LenProperties DEF Holds, Distinct

LEMMA HoldsNone ==
    ASSUME NEW q \in Seq(Thread)
    PROVE  q = <<>> <=> \A t \in Thread : ~ Holds(q, t)
  <1>1. q # <<>> => Len(q) \in Nat \ {0}
    BY EmptySeq
  <1>2. q # <<>> => 1 \in 1 .. Len(q) /\ q[1] \in Thread /\ Holds(q, q[1])
    BY <1>1, HoldsAt
  <1>3. q = <<>> => Len(q) = 0
    OBVIOUS
  <1> QED
    BY <1>2, <1>3, HoldsAt

\* A list with nobody in it.
LEMMA HoldsEmpty == <<>> \in Seq(Thread) /\ Distinct(<<>>) /\ \A u : ~ Holds(<<>>, u)
  <1>1. <<>> \in Seq(Thread) /\ DOMAIN <<>> = {}
    OBVIOUS
  <1> QED
    BY <1>1 DEF Distinct, Holds

\* A list that a thread joins at the end.
LEMMA HoldsAppended ==
    ASSUME NEW q \in Seq(Thread), Distinct(q), NEW t \in Thread, ~ Holds(q, t)
    PROVE  /\ Append(q, t) \in Seq(Thread) /\ Distinct(Append(q, t))
           /\ \A u : Holds(Append(q, t), u) <=> Holds(q, u) \/ u = t
  <1> DEFINE r == Append(q, t)
  <1>1. /\ r \in Seq(Thread) /\ Len(r) = Len(q) + 1 /\ r[Len(q) + 1] = t
        /\ \A i \in 1 .. Len(q) : r[i] = q[i]
    BY AppendProperties
  <1> HIDE DEF r
  <1>2. Len(q) \in Nat /\ \A i \in 1 .. Len(r) : i \in 1 .. Len(q) \/ i = Len(q) + 1
    BY <1>1, HoldsAt
  <1>3. \A i \in 1 .. Len(q) : q[i] # t
    BY HoldsAt
  <1>4. 1 .. Len(q) \subseteq 1 .. Len(r) /\ Len(q) + 1 \in 1 .. Len(r)
    BY <1>1, <1>2
  <1>5. ASSUME NEW u
        PROVE  Holds(r, u) <=> Holds(q, u) \/ u = t
    <2>1. ASSUME Holds(r, u)
          PROVE  Holds(q, u) \/ u = t
      <3>1. PICK i \in 1 .. Len(r) : r[i] = u
        BY <1>1, <2>1, HoldsAt
      <3> QED
        BY <1>1, <1>2, <3>1, HoldsAt
    <2>2. ASSUME Holds(q, u)
          PROVE  Holds(r, u)
      <3>1. PICK i \in 1 .. Len(q) : q[i] = u
        BY <2>2, HoldsAt
      <3>2. i \in 1 .. Len(r) /\ r[i] = u
        BY <1>1, <1>4, <3>1
      <3> QED
        BY <1>1, <3>2, HoldsAt
    <2>3. Holds(r, t)
      BY <1>1, <1>4, HoldsAt
    <2> QED
      BY <2>1, <2>2, <2>3
  <1>6. \A i, j \in 1 .. Len(r) : r[i] = r[j] => i = j
    BY <1>1, <1>2, <1>3, HoldsAt
  <1>7. Distinct(r)
    BY <1>1, <1>6, HoldsAt
  <1> QED
    BY <1>1, <1>5, <1>7 DEF r

\* A list without its first member.
LEMMA HoldsTail ==
    ASSUME NEW q \in Seq(Thread), Distinct(q), q # <<>>
    PROVE  /\ Head(q) \in Thread /\ Holds(q, Head(q))
           /\ Tail(q) \in Seq(Thread) /\ Distinct(Tail(q))
           /\ \A u : Holds(Tail(q), u) <=> Holds(q, u) /\ u # Head(q)
  <1> DEFINE r == Tail(q)
  <1>1. /\ Head(q) \in Thread /\ r \in Seq(Thread) /\ Len(r) = Len(q) - 1
        /\ \A i \in 1 .. Len(r) : r[i] = q[i + 1]
    BY HeadTailProperties
  <1>2. Head(q) = q[1] /\ Len(q) \in Nat \ {0}
    BY EmptySeq
  <1> HIDE DEF r
  <1>3. /\ \A i \in 1 .. Len(r) : i + 1 \in 1 .. Len(q) /\ i + 1 # 1
        /\ \A i \in 1 .. Len(q) : i # 1 => i - 1 \in 1 .. Len(r) /\ (i - 1) + 1 = i
        /\ 1 \in 1 .. Len(q)
    BY <1>1, <1>2
  <1>4. Holds(q, Head(q))
    BY <1>2, <1>3, HoldsAt
  <1>5. \A i \in 1 .. Len(q) : i # 1 => q[i] # q[1]
    BY <1>3, HoldsAt
  <1>6. ASSUME NEW u
        PROVE  Holds(r, u) <=> Holds(q, u) /\ u # Head(q)
    <2>1. ASSUME Holds(r, u)
          PROVE  Holds(q, u) /\ u # Head(q)
      BY <1>1, <1>2, <1>3, <1>5, <2>1, HoldsAt
    <2>2. ASSUME Holds(q, u), u # Head(q)
          PROVE  Holds(r, u)
      <3>1. PICK i \in 1 .. Len(q) : q[i] = u
        BY <2>2, HoldsAt
      <3>2. i - 1 \in 1 .. Len(r) /\ r[i - 1] = u
        BY <1>1, <1>2, <1>3, <2>2, <3>1
      <3> QED
        BY <1>1, <3>2, HoldsAt
    <2> QED
      BY <2>1, <2>2
  <1>7. ASSUME NEW i \in 1 .. Len(r), NEW j \in 1 .. Len(r), r[i] = r[j]
        PROVE  i = j
    <2>1. i + 1 = j + 1
      BY <1>1, <1>3, <1>7, HoldsAt
    <2> QED
      BY <2>1
  <1>8. Distinct(r)
    BY <1>1, <1>7, HoldsAt
  <1> QED
    BY <1>1, <1>4, <1>6, <1>8 DEF r

\* Two lists, one after the other.
LEMMA HoldsBoth ==
    ASSUME NEW q \in Seq(Thread), NEW r \in Seq(Thread), Distinct(q), Distinct(r),
           \A t \in Thread : ~ (Holds(q, t) /\ Holds(r, t))
    PROVE  /\ q \o r \in Seq(Thread) /\ Distinct(q \o r)
           /\ \A t : Holds(q \o r, t) <=> Holds(q, t) \/ Holds(r, t)
  <1> DEFINE s == q \o r
  <1>1. /\ s \in Seq(Thread) /\ Len(s) = Len(q) + Len(r)
        /\ \A i \in 1 .. Len(q) + Len(r) : s[i] = IF i <= Len(q) THEN q[i] ELSE r[i - Len(q)]
    BY ConcatProperties
  <1> HIDE DEF s
  <1>2. Len(q) \in Nat /\ Len(r) \in Nat
    BY HoldsAt
  <1>3. /\ \A i \in 1 .. Len(s) : IF i <= Len(q) THEN i \in 1 .. Len(q) /\ s[i] = q[i]
                                  ELSE i - Len(q) \in 1 .. Len(r) /\ s[i] = r[i - Len(q)]
        /\ \A i \in 1 .. Len(q) : i \in 1 .. Len(s) /\ s[i] = q[i]
    BY <1>1, <1>2
  <1>4. ASSUME NEW i \in 1 .. Len(r)
        PROVE  Len(q) + i \in 1 .. Len(s) /\ s[Len(q) + i] = r[i]
    <2>1. Len(q) + i \in 1 .. Len(q) + Len(r) /\ ~ Len(q) + i <= Len(q) /\ Len(q) + i - Len(q) = i
      BY <1>2
    <2> QED
      BY <1>1, <2>1
  <1>5. ASSUME NEW t
        PROVE  Holds(s, t) <=> Holds(q, t) \/ Holds(r, t)
    <2>1. ASSUME Holds(s, t)
          PROVE  Holds(q, t) \/ Holds(r, t)
      <3>1. PICK i \in 1 .. Len(s) : s[i] = t
        BY <1>1, <2>1, HoldsAt
      <3> QED
        BY <1>3, <3>1, HoldsAt
    <2>2. ASSUME Holds(q, t)
          PROVE  Holds(s, t)
      <3>1. PICK i \in 1 .. Len(q) : q[i] = t
        BY <2>2, HoldsAt
      <3> QED
        BY <1>1, <1>3, <3>1, HoldsAt
    <2>3. ASSUME Holds(r, t)
          PROVE  Holds(s, t)
      <3>1. PICK i \in 1 .. Len(r) : r[i] = t
        BY <2>3, HoldsAt
      <3> QED
        BY <1>1, <1>4, <3>1, HoldsAt
    <2> QED
      BY <2>1, <2>2, <2>3
  <1>6. ASSUME NEW i \in 1 .. Len(s), NEW j \in 1 .. Len(s), s[i] = s[j]
        PROVE  i = j
    <2>1. CASE i <= Len(q) /\ j <= Len(q)
      BY <1>3, <1>6, <2>1, HoldsAt
    <2>2. CASE ~ i <= Len(q) /\ ~ j <= Len(q)
      <3>1. i - Len(q) = j - Len(q)
        BY <1>3, <1>6, <2>2, HoldsAt
      <3> QED
        BY <1>2, <3>1
    <2>3. CASE i <= Len(q) /\ ~ j <= Len(q)
      <3>1. Holds(q, s[i]) /\ Holds(r, s[j]) /\ s[i] \in Thread
        BY <1>3, <2>3, HoldsAt
      <3> QED
        BY <1>6, <3>1
    <2>4. CASE ~ i <= Len(q) /\ j <= Len(q)
      <3>1. Holds(r, s[i]) /\ Holds(q, s[j]) /\ s[i] \in Thread
        BY <1>3, <2>4, HoldsAt
      <3> QED
        BY <1>6, <3>1
    <2> QED
      BY <2>1, <2>2, <2>3, <2>4
  <1>7. Distinct(s)
    BY <1>1, <1>6, HoldsAt
  <1> QED
    BY <1>1, <1>5, <1>7 DEF s

\* A stretch of a list.
LEMMA HoldsStretch ==
    ASSUME NEW q \in Seq(Thread), Distinct(q), NEW m \in 1 .. Len(q) + 1, NEW n \in 0 .. Len(q)
    PROVE  /\ SubSeq(q, m, n) \in Seq(Thread) /\ Distinct(SubSeq(q, m, n))
           /\ \A u : Holds(SubSeq(q, m, n), u) <=> \E i \in m .. n : q[i] = u
  <1> DEFINE r == SubSeq(q, m, n)
  <1>1. Len(q) \in Nat /\ m \in Int /\ n \in Int
    BY HoldsAt
  <1>2. \A i \in m .. n : i \in 1 .. Len(q) /\ q[i] \in Thread
    BY <1>1, HoldsAt
  <1>3. /\ r \in Seq(Thread) /\ Len(r) = IF m <= n THEN n - m + 1 ELSE 0
        /\ \A i \in 1 .. n - m + 1 : r[i] = q[m + i - 1]
    BY <1>1, <1>2, SubSeqProperties
  <1> HIDE DEF r
  <1>4. ASSUME NEW i \in 1 .. Len(r)
        PROVE  m + i - 1 \in m .. n /\ r[i] = q[m + i - 1]
    <2>1. i \in 1 .. n - m + 1
      BY <1>1, <1>3
    <2> QED
      BY <1>1, <1>3, <2>1
  <1>5. ASSUME NEW i \in m .. n
        PROVE  i - m + 1 \in 1 .. Len(r) /\ r[i - m + 1] = q[i]
    <2>1. i - m + 1 \in 1 .. n - m + 1 /\ m + (i - m + 1) - 1 = i /\ m <= n
      BY <1>1
    <2> QED
      BY <1>1, <1>3, <2>1
  <1>6. ASSUME NEW u
        PROVE  Holds(r, u) <=> \E i \in m .. n : q[i] = u
    <2>1. ASSUME Holds(r, u)
          PROVE  \E i \in m .. n : q[i] = u
      <3>1. PICK i \in 1 .. Len(r) : r[i] = u
        BY <1>3, <2>1, HoldsAt
      <3> QED
        BY <1>4, <3>1
    <2>2. ASSUME NEW i \in m .. n, q[i] = u
          PROVE  Holds(r, u)
      BY <1>3, <1>5, <2>2, HoldsAt
    <2> QED
      BY <2>1, <2>2
  <1>7. ASSUME NEW i \in 1 .. Len(r), NEW j \in 1 .. Len(r), r[i] = r[j]
        PROVE  i = j
    <2>1. m + i - 1 = m + j - 1
      BY <1>2, <1>4, <1>7, HoldsAt
    <2> QED
      BY <1>1, <2>1
  <1>8. Distinct(r)
    BY <1>3, <1>7, HoldsAt
  <1> QED
    BY <1>3, <1>6, <1>8 DEF r

\* A list that a thread leaves.
LEMMA HoldsRemoved ==
    ASSUME NEW q \in Seq(Thread), Distinct(q), NEW t
    PROVE  /\ RemoveFirst(q, t) \in Seq(Thread) /\ Distinct(RemoveFirst(q, t))
           /\ \A u : Holds(RemoveFirst(q, t), u) <=> Holds(q, u) /\ u # t
           /\ Holds(q, t) => RemoveFirst(q, t) # q
  <1>1. CASE ~ Holds(q, t)
    <2>1. RemoveFirst(q, t) = q
      BY <1>1, HoldsAt DEF RemoveFirst
    <2> QED
      BY <1>1, <2>1
  <1>2. CASE Holds(q, t)
    <2> DEFINE I == {i \in 1 .. Len(q) : q[i] = t}
               k == IF I # {} THEN Min(I) ELSE 0
               a == SubSeq(q, 1, k - 1)
               b == SubSeq(q, k + 1, Len(q))
    <2>1. I # {} /\ I \in SUBSET (1 .. Len(q))
      BY <1>2, HoldsAt
    <2>2. RemoveFirst(q, t) = a \o b
      BY <1>2, HoldsAt DEF RemoveFirst, RemoveAt, SelectInSeq
    <2>3. k \in I
      <3> HIDE DEF I
      <3> QED
        BY <2>1, First
    <2> HIDE DEF k
    <2>4. k \in 1 .. Len(q) /\ q[k] = t
      BY <2>3
    <2>5. Len(q) \in Nat /\ 1 \in 1 .. Len(q) + 1 /\ k - 1 \in 0 .. Len(q)
          /\ k + 1 \in 1 .. Len(q) + 1 /\ Len(q) \in 0 .. Len(q)
      BY <2>4, HoldsAt
    <2>6. /\ a \in Seq(Thread) /\ Distinct(a) /\ \A u : Holds(a, u) <=> \E i \in 1 .. k - 1 : q[i] = u
          /\ b \in Seq(Thread) /\ Distinct(b) /\ \A u : Holds(b, u) <=> \E i \in k + 1 .. Len(q) : q[i] = u
      BY <2>5, HoldsStretch
    <2> HIDE DEF a, b
    <2>7. /\ \A i \in 1 .. k - 1 : i \in 1 .. Len(q) /\ i # k /\ i \notin k + 1 .. Len(q)
          /\ \A i \in k + 1 .. Len(q) : i \in 1 .. Len(q) /\ i # k
          /\ \A i \in 1 .. Len(q) : i \in 1 .. k - 1 \/ i = k \/ i \in k + 1 .. Len(q)
      BY <2>4, <2>5
    <2>8. \A u \in Thread : ~ (Holds(a, u) /\ Holds(b, u))
      <3> SUFFICES ASSUME NEW u \in Thread, Holds(a, u), Holds(b, u) PROVE FALSE
        OBVIOUS
      <3>1. PICK i \in 1 .. k - 1 : q[i] = u
        BY <2>6
      <3>2. PICK j \in k + 1 .. Len(q) : q[j] = u
        BY <2>6
      <3> QED
        BY <2>7, <3>1, <3>2, HoldsAt
    <2>9. /\ a \o b \in Seq(Thread) /\ Distinct(a \o b)
          /\ \A u : Holds(a \o b, u) <=> Holds(a, u) \/ Holds(b, u)
      BY <2>6, <2>8, HoldsBoth
    <2>10. ASSUME NEW u
           PROVE  Holds(a, u) \/ Holds(b, u) <=> Holds(q, u) /\ u # t
      <3>1. ASSUME Holds(a, u)
            PROVE  Holds(q, u) /\ u # t
        <4>1. PICK i \in 1 .. k - 1 : q[i] = u
          BY <2>6, <3>1
        <4> QED
          BY <2>4, <2>7, <4>1, HoldsAt
      <3>2. ASSUME Holds(b, u)
            PROVE  Holds(q, u) /\ u # t
        <4>1. PICK i \in k + 1 .. Len(q) : q[i] = u
          BY <2>6, <3>2
        <4> QED
          BY <2>4, <2>7, <4>1, HoldsAt
      <3>3. ASSUME Holds(q, u), u # t
            PROVE  Holds(a, u) \/ Holds(b, u)
        <4>1. PICK i \in 1 .. Len(q) : q[i] = u
          BY <3>3, HoldsAt
        <4>2. i # k
          BY <2>4, <3>3, <4>1
        <4> QED
          BY <2>6, <2>7, <4>1, <4>2
      <3> QED
        BY <3>1, <3>2, <3>3
    <2>11. ~ Holds(RemoveFirst(q, t), t)
      BY <2>2, <2>9, <2>10
    <2> QED
      BY <1>2, <2>2, <2>9, <2>10, <2>11
  <1> QED
    BY <1>1, <1>2

-----------------------------------------------------------------------------
\* f picks the members of q that are in P, step by step.
Picks(f, q, P) ==
    /\ f[0] = <<>>
    /\ \A i \in 1 .. Len(q) : f[i] = IF q[i] \in P THEN Append(f[i - 1], q[i]) ELSE f[i - 1]

\* What it has picked after i steps.
Picked(r, q, P, i) ==
    /\ r \in Seq(Thread) /\ Distinct(r)
    /\ \A u : Holds(r, u) <=> u \in P /\ \E j \in 1 .. i : q[j] = u

LEMMA PicksAll ==
    ASSUME NEW q \in Seq(Thread), Distinct(q), NEW P, NEW f, Picks(f, q, P)
    PROVE  Picked(f[Len(q)], q, P, Len(q))
  <1> DEFINE T == {i \in 0 .. Len(q) : Picked(f[i], q, P, i)}
  <1>1. Len(q) \in Nat /\ 0 \in 0 .. Len(q)
    BY HoldsAt
  <1>2. 0 \in T
    <2>1. f[0] = <<>> /\ <<>> \in Seq(Thread) /\ Len(<<>>) = 0
      BY DEF Picks
    <2>2. Picked(f[0], q, P, 0)
      BY <2>1, HoldsEmpty DEF Picked
    <2> QED
      BY <1>1, <2>2
  <1>3. ASSUME NEW i \in 1 .. Len(q), i - 1 \in T
        PROVE  i \in T
    <2> DEFINE r == f[i - 1]
    <2>1. r \in Seq(Thread) /\ Distinct(r) /\ \A u : Holds(r, u) <=> u \in P /\ \E j \in 1 .. i - 1 : q[j] = u
      BY <1>3 DEF Picked
    <2>2. f[i] = IF q[i] \in P THEN Append(r, q[i]) ELSE r
      BY DEF Picks
    <2> HIDE DEF r
    <2>3. /\ q[i] \in Thread /\ i \in 0 .. Len(q)
          /\ \A j \in 1 .. i - 1 : j \in 1 .. i /\ j \in 1 .. Len(q) /\ j # i
          /\ \A j \in 1 .. i : j \in 1 .. i - 1 \/ j = i
          /\ i \in 1 .. i
      BY <1>1, HoldsAt
    <2>4. CASE q[i] \in P
      <3>1. ~ Holds(r, q[i])
        <4> SUFFICES ASSUME Holds(r, q[i]) PROVE FALSE
          OBVIOUS
        <4>1. PICK j \in 1 .. i - 1 : q[j] = q[i]
          BY <2>1
        <4> QED
          BY <2>3, <4>1, HoldsAt
      <3>2. /\ f[i] \in Seq(Thread) /\ Distinct(f[i])
            /\ \A u : Holds(f[i], u) <=> Holds(r, u) \/ u = q[i]
        BY <2>1, <2>2, <2>3, <2>4, <3>1, HoldsAppended
      <3>3. \A u : (\E j \in 1 .. i : q[j] = u) <=> (\E j \in 1 .. i - 1 : q[j] = u) \/ u = q[i]
        BY <2>3
      <3>4. Picked(f[i], q, P, i)
        BY <2>1, <2>4, <3>2, <3>3 DEF Picked
      <3> QED
        BY <2>3, <3>4
    <2>5. CASE q[i] \notin P
      <3>1. \A u \in P : (\E j \in 1 .. i : q[j] = u) <=> (\E j \in 1 .. i - 1 : q[j] = u)
        BY <2>3, <2>5
      <3>2. Picked(f[i], q, P, i)
        BY <2>1, <2>2, <2>5, <3>1 DEF Picked
      <3> QED
        BY <2>3, <3>2
    <2> QED
      BY <2>4, <2>5
  <1>4. Len(q) \in T
    <2> HIDE DEF T
    <2>1. \A i \in 0 .. Len(q) : i \in T
      BY <1>1, <1>2, <1>3, Induct
    <2> QED
      BY <1>1, <2>1
  <1> QED
    BY <1>4

\* The members of a list that are in a set.
LEMMA HoldsAmong ==
    ASSUME NEW q \in Seq(Thread), Distinct(q), NEW P
    PROVE  /\ Among(q, P) \in Seq(Thread) /\ Distinct(Among(q, P))
           /\ \A u : Holds(Among(q, P), u) <=> Holds(q, u) /\ u \in P
  <1> DEFINE n == Len(q)
             E(f, i) == IF i = 0 THEN <<>>
                        ELSE IF q[i] \in P THEN Append(f[i - 1], q[i]) ELSE f[i - 1]
             Is(f) == f = [i \in 0 .. n |-> E(f, i)]
             F == CHOOSE f : Is(f)
             g == [x \in (1 .. n) \X Seq(Thread) |-> IF q[x[1]] \in P THEN Append(x[2], q[x[1]]) ELSE x[2]]
  <1>1. n \in Nat /\ <<>> \in Seq(Thread) /\ \A i \in 1 .. n : q[i] \in Thread
    BY HoldsAt
  <1>2. g \in [(1 .. n) \X Seq(Thread) -> Seq(Thread)]
    <2>1. ASSUME NEW x \in (1 .. n) \X Seq(Thread)
          PROVE  (IF q[x[1]] \in P THEN Append(x[2], q[x[1]]) ELSE x[2]) \in Seq(Thread)
      BY <1>1
    <2> QED
      BY <2>1
  <1>3. PICK f : Follows(f, n, Seq(Thread), <<>>, g)
    <2> HIDE DEF n, g
    <2> QED
      BY <1>1, <1>2, Recursion
  <1>4. ASSUME NEW i \in 0 .. n
        PROVE  f[i] = E(f, i)
    <2>1. CASE i = 0
      BY <1>3, <2>1 DEF Follows
    <2>2. CASE i # 0
      <3>1. i \in 1 .. n /\ i - 1 \in 0 .. n
        BY <2>2, <1>1
      <3>2. f[i - 1] \in Seq(Thread) /\ <<i, f[i - 1]>> \in (1 .. n) \X Seq(Thread)
        BY <3>1, <1>3 DEF Follows
      <3>3. f[i] = g[<<i, f[i - 1]>>]
        BY <3>1, <1>3 DEF Follows
      <3> QED
        BY <3>2, <3>3, <2>2
    <2> QED
      BY <2>1, <2>2
  <1>5. Is(f)
    <2> HIDE DEF E, n
    <2> QED
      BY <1>3, <1>4 DEF Follows
  <1>6. Is(F)
    <2> HIDE DEF Is
    <2> QED
      BY <1>5
  <1>7. \A i \in 0 .. n : F[i] = E(F, i)
    <2> HIDE DEF E, n, F
    <2> QED
      BY <1>6
  <1>8. Picks(F, q, P)
    <2> HIDE DEF F
    <2>1. 0 \in 0 .. n /\ \A i \in 1 .. n : i \in 0 .. n /\ i # 0
      BY <1>1
    <2> QED
      BY <1>7, <2>1 DEF Picks
  <1>9. Picked(F[n], q, P, n)
    <2> HIDE DEF F
    <2> QED
      BY <1>8, PicksAll
  <1>10. Among(q, P) = F[n]
    BY DEF Among
  <1> HIDE DEF F
  <1> QED
    BY <1>9, <1>10, HoldsAt DEF Picked

\* There are finitely many threads: ThreadOrder lists them.
LEMMA Finite ==
    ASSUME NEW S \in SUBSET Thread
    PROVE  IsFiniteSet(S) /\ Cardinality(S) \in Nat
  <1> DEFINE n == Len(ThreadOrder)
             f == [i \in 1 .. n |-> ThreadOrder[i]]
  <1>1. ThreadOrder \in Seq(Thread) /\ n \in Nat /\ \A t \in Thread : \E i \in 1 .. n : ThreadOrder[i] = t
    BY SchedulerAssumption, LenProperties
  <1>2. f \in Surjection(1 .. n, Thread)
    <2>1. f \in [1 .. n -> Thread]
      BY <1>1, LenProperties
    <2>2. \A t \in Thread : \E i \in 1 .. n : f[i] = t
      BY <1>1
    <2> HIDE DEF f, n
    <2> QED
      BY <2>1, <2>2 DEF Surjection
  <1>3. IsFiniteSet(1 .. n)
    BY <1>1, FS_Interval
  <1>4. IsFiniteSet(Thread)
    <2> HIDE DEF f, n
    <2> QED
      BY <1>2, <1>3, FS_Surjection
  <1>5. IsFiniteSet(S)
    BY <1>4, FS_Subset
  <1> QED
    BY <1>5, FS_CardinalityType

\* What stays when the lists and the niceness do.
LEMMA ListsStay ==
    ASSUME IInv, UNCHANGED <<nice, lists, currentPriority>>
    PROVE  /\ Housed' /\ Queue0' = Queue0 /\ (threadCount = Cardinality(Queue0))'
           /\ \A u : Listed(u)' = Listed(u)
  <1>1. UNCHANGED <<nice, roundRobin, queues, backupQueue, threadCount, queueID, currentPriority>>
    BY DEF lists
  <1>2. Queue0' = Queue0
    BY <1>1 DEF Queue0
  <1>3. Housed'
    BY <1>1 DEF IInv, Housed
  <1>4. \A u : Listed(u)' = Listed(u)
    BY <1>1 DEF Listed
  <1>5. Cardinality(Queue0)' = Cardinality(Queue0)
    BY <1>2
  <1> QED
    BY <1>1, <1>2, <1>3, <1>4, <1>5 DEF IInv

-----------------------------------------------------------------------------
\* A thread joins the list of its niceness.
LEMMA EnqueueKeeps ==
    ASSUME IInv, NEW t \in Thread, Enqueue(t)
    PROVE  IInv'
  <1> DEFINE n == nice[ProcessOf[t]]
             late == n > 0 /\ n - 1 = currentPriority
  <1>1. TypeOK /\ Housed /\ threadCount = Cardinality(Queue0) /\ Forced
    BY DEF IInv
  <1>2. n \in 0 .. MaxPriority /\ MaxPriority \in Nat /\ (n > 0 => n - 1 \in Level)
    <2>1. ProcessOf \in [Thread -> Process] /\ MaxPriority \in Nat
      BY SchedulerAssumption
    <2>2. nice \in [Process -> 0 .. MaxPriority]
      BY <1>1 DEF TypeOK
    <2>3. n \in 0 .. MaxPriority
      BY <2>1, <2>2
    <2> HIDE DEF n
    <2> QED
      BY <2>1, <2>3 DEF Level
  <1>3. /\ ~ Holds(roundRobin, t) /\ ~ Holds(backupQueue, t)
        /\ \A l \in Level : ~ Holds(queues[l], t)
        /\ t # current /\ t \notin Queue0
    BY DEF Enqueue, Listed, Queue0
  <1>4. /\ UNCHANGED <<nice, currentPriority, timeSlice, currQueue, currTimeSlice, FORCE, current, niced>>
        /\ queueID' = [queueID EXCEPT ![t] = IF n = 0 THEN 1 ELSE 0]
        /\ roundRobin' = IF n = 0 THEN Append(roundRobin, t) ELSE roundRobin
        /\ backupQueue' = IF late THEN Append(backupQueue, t) ELSE backupQueue
        /\ queues' = IF n > 0 /\ ~ late THEN [queues EXCEPT ![n - 1] = Append(@, t)] ELSE queues
        /\ threadCount' = IF n = 0 THEN threadCount ELSE threadCount + 1
    BY DEF Enqueue
  <1>5. /\ queueID' \in [Thread -> {0, 1}]
        /\ queueID'[t] = IF n = 0 THEN 1 ELSE 0
        /\ \A u \in Thread \ {t} : queueID'[u] = queueID[u]
    BY <1>1, <1>4 DEF TypeOK
  <1>6. /\ roundRobin' \in Seq(Thread) /\ Distinct(roundRobin')
        /\ \A u : Holds(roundRobin', u) <=> Holds(roundRobin, u) \/ (n = 0 /\ u = t)
    <2> HIDE DEF n
    <2>1. roundRobin \in Seq(Thread) /\ Distinct(roundRobin)
      BY <1>1 DEF TypeOK, Housed
    <2>2. /\ Append(roundRobin, t) \in Seq(Thread) /\ Distinct(Append(roundRobin, t))
          /\ \A u : Holds(Append(roundRobin, t), u) <=> Holds(roundRobin, u) \/ u = t
      BY <1>3, <2>1, HoldsAppended
    <2> QED
      BY <1>4, <2>1, <2>2
  <1>7. /\ backupQueue' \in Seq(Thread) /\ Distinct(backupQueue')
        /\ \A u : Holds(backupQueue', u) <=> Holds(backupQueue, u) \/ (late /\ u = t)
    <2> HIDE DEF late
    <2>1. backupQueue \in Seq(Thread) /\ Distinct(backupQueue)
      BY <1>1 DEF TypeOK, Housed
    <2>2. /\ Append(backupQueue, t) \in Seq(Thread) /\ Distinct(Append(backupQueue, t))
          /\ \A u : Holds(Append(backupQueue, t), u) <=> Holds(backupQueue, u) \/ u = t
      BY <1>3, <2>1, HoldsAppended
    <2> QED
      BY <1>4, <2>1, <2>2
  <1>8. /\ queues' \in [Level -> Seq(Thread)]
        /\ \A l \in Level : /\ Distinct(queues'[l])
                            /\ \A u : Holds(queues'[l], u) <=>
                                    Holds(queues[l], u) \/ (n > 0 /\ ~ late /\ l = n - 1 /\ u = t)
    <2>1. queues \in [Level -> Seq(Thread)] /\ \A l \in Level : Distinct(queues[l])
      BY <1>1 DEF TypeOK, Housed
    <2>2. CASE n > 0 /\ ~ late
      <3> HIDE DEF n, late
      <3>1. /\ Append(queues[n - 1], t) \in Seq(Thread) /\ Distinct(Append(queues[n - 1], t))
            /\ \A u : Holds(Append(queues[n - 1], t), u) <=> Holds(queues[n - 1], u) \/ u = t
        BY <1>2, <1>3, <2>1, <2>2, HoldsAppended
      <3>2. queues' = [queues EXCEPT ![n - 1] = Append(queues[n - 1], t)]
        BY <1>4, <2>2
      <3>3. /\ queues' \in [Level -> Seq(Thread)]
            /\ queues'[n - 1] = Append(queues[n - 1], t)
            /\ \A l \in Level : l # n - 1 => queues'[l] = queues[l]
        BY <1>2, <2>1, <2>2, <3>1, <3>2
      <3>4. ASSUME NEW l \in Level
            PROVE  /\ Distinct(queues'[l])
                   /\ \A u : Holds(queues'[l], u) <=> Holds(queues[l], u) \/ (l = n - 1 /\ u = t)
        <4>1. CASE l = n - 1
          BY <3>1, <3>3, <4>1
        <4>2. CASE l # n - 1
          BY <2>1, <3>3, <4>2
        <4> QED
          BY <4>1, <4>2
      <3> QED
        BY <2>2, <3>3, <3>4
    <2>3. CASE ~ (n > 0 /\ ~ late)
      <3> HIDE DEF n, late
      <3> QED
        BY <1>4, <2>1, <2>3
    <2> QED
      BY <2>2, <2>3
  <1>9. n > 0 => (late \/ \E l \in Level : ~ late /\ l = n - 1)
    BY <1>2
  <1> HIDE DEF late
  <1>10. Queue0' = IF n > 0 THEN Queue0 \cup {t} ELSE Queue0
    <2>1. CASE n > 0
      BY <1>7, <1>8, <1>9, <2>1 DEF Queue0
    <2>2. CASE ~ n > 0
      BY <1>7, <1>8, <2>2 DEF Queue0, late
    <2> QED
      BY <2>1, <2>2
  <1>11. threadCount' = Cardinality(Queue0')
    <2>1. IsFiniteSet(Queue0) /\ Cardinality(Queue0) \in Nat
      BY Finite DEF Queue0
    <2>2. Cardinality(Queue0 \cup {t}) = Cardinality(Queue0) + 1
      BY <1>3, <2>1, FS_AddElement
    <2>3. n = 0 <=> ~ n > 0
      BY <1>2
    <2> QED
      BY <1>1, <1>4, <1>10, <2>2, <2>3
  <1>12. TypeOK'
    <2>1. threadCount' \in Nat
      BY <1>1, <1>4 DEF TypeOK
    <2> QED
      BY <1>1, <1>4, <1>5, <1>6, <1>7, <1>8, <2>1 DEF TypeOK
  <1>13. Housed'
    <2>1. ASSUME NEW u \in Thread
          PROVE  /\ Holds(roundRobin', u) => queueID'[u] = 1 /\ nice'[ProcessOf[u]] = 0
                 /\ Holds(backupQueue', u) => /\ queueID'[u] = 0 /\ nice'[ProcessOf[u]] - 1 = currentPriority'
                                              /\ ~ Holds(queues'[currentPriority'], u)
                 /\ \A l \in Level : Holds(queues'[l], u) => queueID'[u] = 0 /\ nice'[ProcessOf[u]] - 1 = l
      <3>1. nice' = nice /\ currentPriority' = currentPriority /\ currentPriority \in Level
        BY <1>1, <1>4 DEF TypeOK
      <3>2. CASE u = t
        BY <1>2, <1>3, <1>5, <1>6, <1>7, <1>8, <3>1, <3>2 DEF late
      <3>3. CASE u # t
        BY <1>1, <1>5, <1>6, <1>7, <1>8, <3>1, <3>3 DEF Housed
      <3> QED
        BY <3>2, <3>3
    <2> QED
      BY <1>6, <1>7, <1>8, <2>1 DEF Housed
  <1>14. Forced'
    <2>1. \A u \in Thread : Listed(u) => Listed(u)'
      BY <1>6, <1>7, <1>8 DEF Listed
    <2>2. current' = current /\ FORCE' = FORCE /\ (current = Idle \/ current \in Thread)
      BY <1>1, <1>4 DEF TypeOK
    <2>3. Listed(current) /\ current \in Thread => Listed(current)'
      BY <1>6, <1>7, <1>8, <2>2 DEF Listed
    <2> QED
      BY <1>1, <2>2, <2>3 DEF Forced
  <1> QED
    BY <1>11, <1>12, <1>13, <1>14 DEF IInv

\* A thread leaves the list that its queueID, its niceness and the turn lead to:
\* the one that has it.
LEMMA DequeueKeeps ==
    ASSUME IInv, NEW t \in Thread, Dequeue(t)
    PROVE  IInv'
  <1> DEFINE k == nice[ProcessOf[t]] - 1
             inLevel  == queueID[t] = 0 /\ Holds(queues[k], t)
             inBackup == queueID[t] = 0 /\ ~ inLevel /\ currentPriority = k /\ Holds(backupQueue, t)
  <1>1. TypeOK /\ Housed /\ threadCount = Cardinality(Queue0) /\ Forced
    BY DEF IInv
  <1>2. /\ Listed(t)
        /\ roundRobin' = IF queueID[t] = 1 THEN RemoveFirst(roundRobin, t) ELSE roundRobin
        /\ queues' = IF inLevel THEN [queues EXCEPT ![k] = RemoveFirst(@, t)] ELSE queues
        /\ backupQueue' = IF inBackup THEN RemoveFirst(backupQueue, t) ELSE backupQueue
        /\ threadCount' = IF inLevel \/ inBackup THEN threadCount - 1 ELSE threadCount
        /\ UNCHANGED queueID
        /\ FORCE' = IF t = current /\ lists' # lists THEN TRUE ELSE FORCE
        /\ UNCHANGED <<nice, currentPriority, timeSlice, currQueue, currTimeSlice, current, niced>>
    BY DEF Dequeue, Delist
  <1>3. /\ roundRobin \in Seq(Thread) /\ backupQueue \in Seq(Thread)
        /\ queues \in [Level -> Seq(Thread)]
        /\ Distinct(roundRobin) /\ Distinct(backupQueue) /\ \A l \in Level : Distinct(queues[l])
        /\ queueID \in [Thread -> {0, 1}] /\ threadCount \in Nat
    BY <1>1 DEF TypeOK, Housed
  <1>4. /\ Holds(roundRobin, t) => queueID[t] = 1 /\ k = -1
        /\ Holds(backupQueue, t) => queueID[t] = 0 /\ k = currentPriority /\ ~ Holds(queues[k], t)
        /\ \A l \in Level : Holds(queues[l], t) => queueID[t] = 0 /\ k = l
    BY <1>1 DEF Housed
  <1>5. /\ RemoveFirst(roundRobin, t) \in Seq(Thread) /\ Distinct(RemoveFirst(roundRobin, t))
        /\ \A u : Holds(RemoveFirst(roundRobin, t), u) <=> Holds(roundRobin, u) /\ u # t
        /\ Holds(roundRobin, t) => RemoveFirst(roundRobin, t) # roundRobin
    BY <1>3, HoldsRemoved
  <1>6. /\ RemoveFirst(backupQueue, t) \in Seq(Thread) /\ Distinct(RemoveFirst(backupQueue, t))
        /\ \A u : Holds(RemoveFirst(backupQueue, t), u) <=> Holds(backupQueue, u) /\ u # t
        /\ Holds(backupQueue, t) => RemoveFirst(backupQueue, t) # backupQueue
    BY <1>3, HoldsRemoved
  <1>7. k \in Level =>
            /\ RemoveFirst(queues[k], t) \in Seq(Thread) /\ Distinct(RemoveFirst(queues[k], t))
            /\ \A u : Holds(RemoveFirst(queues[k], t), u) <=> Holds(queues[k], u) /\ u # t
            /\ Holds(queues[k], t) => RemoveFirst(queues[k], t) # queues[k]
    BY <1>3, HoldsRemoved
  <1> HIDE DEF k
  \* It is gone from every list, and nothing else has changed.
  <1>8. \/ Holds(roundRobin, t) /\ queueID[t] = 1 /\ ~ inLevel /\ ~ inBackup
        \/ \E l \in Level : Holds(queues[l], t) /\ k = l /\ inLevel /\ ~ inBackup /\ queueID[t] = 0
        \/ Holds(backupQueue, t) /\ inBackup /\ ~ inLevel /\ queueID[t] = 0
    BY <1>2, <1>4 DEF Listed
  <1>9. k \in Level \/ ~ inLevel
    BY <1>8
  <1> HIDE DEF inLevel, inBackup
  <1>10. /\ roundRobin' \in Seq(Thread) /\ Distinct(roundRobin')
         /\ \A u : Holds(roundRobin', u) <=> Holds(roundRobin, u) /\ u # t
    <2>1. queueID[t] # 1 => ~ Holds(roundRobin, t)
      BY <1>4
    <2> QED
      BY <1>2, <1>3, <1>5, <2>1
  <1>11. /\ backupQueue' \in Seq(Thread) /\ Distinct(backupQueue')
         /\ \A u : Holds(backupQueue', u) <=> Holds(backupQueue, u) /\ u # t
    <2>1. ~ inBackup => ~ Holds(backupQueue, t)
      BY <1>4 DEF inBackup, inLevel
    <2> QED
      BY <1>2, <1>3, <1>6, <2>1
  <1>12. /\ queues' \in [Level -> Seq(Thread)]
         /\ \A l \in Level : /\ Distinct(queues'[l])
                             /\ \A u : Holds(queues'[l], u) <=> Holds(queues[l], u) /\ u # t
    <2>1. CASE inLevel
      <3>1. k \in Level /\ \A l \in Level : l # k => ~ Holds(queues[l], t)
        BY <1>4, <1>9, <2>1
      <3>2. /\ queues' \in [Level -> Seq(Thread)]
            /\ queues'[k] = RemoveFirst(queues[k], t)
            /\ \A l \in Level : l # k => queues'[l] = queues[l]
        BY <1>2, <1>3, <1>7, <2>1, <3>1
      <3>3. ASSUME NEW l \in Level
            PROVE  Distinct(queues'[l]) /\ \A u : Holds(queues'[l], u) <=> Holds(queues[l], u) /\ u # t
        <4>1. CASE l = k
          BY <1>7, <3>1, <3>2, <4>1
        <4>2. CASE l # k
          BY <1>3, <3>1, <3>2, <4>2
        <4> QED
          BY <4>1, <4>2
      <3> QED
        BY <3>2, <3>3
    <2>2. CASE ~ inLevel
      <3>1. \A l \in Level : ~ Holds(queues[l], t)
        BY <1>4, <2>2 DEF inLevel
      <3> QED
        BY <1>2, <1>3, <2>2, <3>1
    <2> QED
      BY <2>1, <2>2
  <1>13. Queue0' = Queue0 \ {t}
    BY <1>11, <1>12 DEF Queue0
  <1>14. t \in Queue0 <=> inLevel \/ inBackup
    BY <1>4, <1>8 DEF Queue0
  <1>15. threadCount' = Cardinality(Queue0') /\ threadCount' \in Nat
    <2>1. IsFiniteSet(Queue0) /\ Queue0' \in SUBSET Thread
      BY Finite DEF Queue0
    <2>2. Cardinality(Queue0 \ {t}) = IF t \in Queue0 THEN Cardinality(Queue0) - 1 ELSE Cardinality(Queue0)
      BY <2>1, FS_RemoveElement
    <2>3. Cardinality(Queue0') \in Nat
      BY <2>1, Finite
    <2> QED
      BY <1>1, <1>2, <1>13, <1>14, <2>2, <2>3
  <1>16. TypeOK'
    <2>1. FORCE' \in BOOLEAN
      BY <1>1, <1>2 DEF TypeOK
    <2> QED
      BY <1>1, <1>2, <1>10, <1>11, <1>12, <1>15, <2>1 DEF TypeOK
  <1>17. Housed'
    <2>1. ASSUME NEW u \in Thread
          PROVE  /\ Holds(roundRobin', u) => queueID'[u] = 1 /\ nice'[ProcessOf[u]] = 0
                 /\ Holds(backupQueue', u) => /\ queueID'[u] = 0 /\ nice'[ProcessOf[u]] - 1 = currentPriority'
                                              /\ ~ Holds(queues'[currentPriority'], u)
                 /\ \A l \in Level : Holds(queues'[l], u) => queueID'[u] = 0 /\ nice'[ProcessOf[u]] - 1 = l
      <3>1. nice' = nice /\ currentPriority' = currentPriority /\ currentPriority \in Level /\ queueID' = queueID
        BY <1>1, <1>2 DEF TypeOK
      <3> QED
        BY <1>1, <1>10, <1>11, <1>12, <3>1 DEF Housed
    <2> QED
      BY <1>10, <1>11, <1>12, <2>1 DEF Housed
  <1>18. Forced'
    <2>1. current' = current /\ (FORCE => FORCE')
      BY <1>2
    <2>2. lists' # lists
      <3>1. /\ Holds(roundRobin, t) => ~ Holds(roundRobin', t)
            /\ Holds(backupQueue, t) => ~ Holds(backupQueue', t)
            /\ \A l \in Level : Holds(queues[l], t) => ~ Holds(queues'[l], t)
        BY <1>10, <1>11, <1>12
      <3>2. ~ (roundRobin' = roundRobin /\ backupQueue' = backupQueue /\ queues' = queues)
        BY <1>2, <3>1 DEF Listed
      <3> QED
        BY <3>2 DEF lists
    <2>3. t = current => FORCE'
      BY <1>2, <2>2
    <2>4. t # current /\ Listed(current) => Listed(current)'
      BY <1>10, <1>11, <1>12, <2>1 DEF Listed
    <2> QED
      BY <1>1, <2>1, <2>3, <2>4 DEF Forced
  <1> QED
    BY <1>15, <1>16, <1>17, <1>18 DEF IInv

\* A list that the members of P leave, and join again when it is the new one.
Moved(q, P, joins) == Among(q, Thread \ P) \o (IF joins THEN Among(ThreadOrder, P) ELSE <<>>)

LEMMA HoldsMoved ==
    ASSUME NEW q \in Seq(Thread), Distinct(q), NEW P \in SUBSET Thread, NEW joins \in BOOLEAN
    PROVE  /\ Moved(q, P, joins) \in Seq(Thread) /\ Distinct(Moved(q, P, joins))
           /\ \A u : Holds(Moved(q, P, joins), u) <=> (Holds(q, u) /\ u \notin P) \/ (joins /\ u \in P)
  <1> DEFINE a == Among(q, Thread \ P)
             b == IF joins THEN Among(ThreadOrder, P) ELSE <<>>
  <1>1. /\ a \in Seq(Thread) /\ Distinct(a)
        /\ \A u : Holds(a, u) <=> Holds(q, u) /\ u \notin P
    BY HoldsAmong, HoldsAt
  <1>2. /\ ThreadOrder \in Seq(Thread) /\ Distinct(ThreadOrder)
        /\ \A t \in Thread : Holds(ThreadOrder, t)
    BY SchedulerAssumption DEF Distinct, Holds
  <1>3. /\ b \in Seq(Thread) /\ Distinct(b)
        /\ \A u : Holds(b, u) <=> joins /\ u \in P
    BY <1>2, HoldsAmong, HoldsEmpty
  <1> HIDE DEF a, b
  <1>4. Moved(q, P, joins) = a \o b
    BY DEF a, b, Moved
  <1>5. \A t \in Thread : ~ (Holds(a, t) /\ Holds(b, t))
    BY <1>1, <1>3
  <1>6. /\ a \o b \in Seq(Thread) /\ Distinct(a \o b)
        /\ \A u : Holds(a \o b, u) <=> Holds(a, u) \/ Holds(b, u)
    BY <1>1, <1>3, <1>5, HoldsBoth
  <1> QED
    BY <1>1, <1>3, <1>4, <1>6

\* The listed threads of a process move to the list of its new niceness.
LEMMA SetNicenessKeeps ==
    ASSUME IInv, NEW p \in Process, NEW n \in 0 .. MaxPriority + 1, SetNiceness(p, n)
    PROVE  IInv'
  <1> DEFINE P == {t \in Thread : ProcessOf[t] = p /\ Listed(t)}
             late == n > 0 /\ n - 1 = currentPriority
             Joins(l) == n > 0 /\ ~ late /\ l = n - 1
  <1>1. TypeOK /\ Housed /\ threadCount = Cardinality(Queue0) /\ Forced
    BY DEF IInv
  <1>2. /\ niced < MaxNiced /\ niced' = niced + 1
        /\ P # {} /\ NiceInRange(n) /\ nice[p] # n
        /\ nice' = [nice EXCEPT ![p] = n]
        /\ queueID' = [t \in Thread |-> IF t \notin P THEN queueID[t] ELSE IF n = 0 THEN 1 ELSE 0]
        /\ roundRobin' = Moved(roundRobin, P, n = 0)
        /\ backupQueue' = Moved(backupQueue, P, late)
        /\ queues' = [l \in Level |-> Moved(queues[l], P, Joins(l))]
        /\ threadCount' = threadCount + (IF n > 0 THEN Cardinality(P) ELSE 0)
                                      - (IF nice[p] > 0 THEN Cardinality(P) ELSE 0)
        /\ FORCE' = (FORCE \/ current \in P)
        /\ UNCHANGED <<currentPriority, timeSlice, currQueue, currTimeSlice, current>>
    BY DEF SetNiceness, Moved
  <1>3. /\ roundRobin \in Seq(Thread) /\ backupQueue \in Seq(Thread)
        /\ queues \in [Level -> Seq(Thread)]
        /\ Distinct(roundRobin) /\ Distinct(backupQueue) /\ \A l \in Level : Distinct(queues[l])
        /\ queueID \in [Thread -> {0, 1}] /\ threadCount \in Nat
        /\ nice \in [Process -> 0 .. MaxPriority] /\ currentPriority \in Level
    BY <1>1 DEF TypeOK, Housed
  <1>4. n \in 0 .. MaxPriority /\ MaxPriority \in Nat /\ (n > 0 => n - 1 \in Level) /\ nice[p] \in 0 .. MaxPriority
    BY <1>2, <1>3, SchedulerAssumption DEF NiceInRange, Level
  <1>5. /\ P \in SUBSET Thread /\ late \in BOOLEAN /\ (n = 0) \in BOOLEAN
        /\ \A l \in Level : Joins(l) \in BOOLEAN
    OBVIOUS
  <1>6. \A u \in P : u \in Thread /\ ProcessOf[u] = p /\ Listed(u)
    OBVIOUS
  <1>7. \A u \in Thread \ P : ProcessOf[u] = p => ~ Listed(u)
    OBVIOUS
  <1> HIDE DEF P, late, Joins
  <1>8. /\ roundRobin' \in Seq(Thread) /\ Distinct(roundRobin')
        /\ \A u : Holds(roundRobin', u) <=> (Holds(roundRobin, u) /\ u \notin P) \/ (n = 0 /\ u \in P)
    BY <1>2, <1>3, <1>5, HoldsMoved
  <1>9. /\ backupQueue' \in Seq(Thread) /\ Distinct(backupQueue')
        /\ \A u : Holds(backupQueue', u) <=> (Holds(backupQueue, u) /\ u \notin P) \/ (late /\ u \in P)
    BY <1>2, <1>3, <1>5, HoldsMoved
  <1>10. ASSUME NEW l \in Level
         PROVE  /\ queues'[l] \in Seq(Thread) /\ Distinct(queues'[l])
                /\ \A u : Holds(queues'[l], u) <=> (Holds(queues[l], u) /\ u \notin P) \/ (Joins(l) /\ u \in P)
    <2>1. queues'[l] = Moved(queues[l], P, Joins(l))
      BY <1>2
    <2>2. queues[l] \in Seq(Thread) /\ Distinct(queues[l]) /\ Joins(l) \in BOOLEAN
      BY <1>3, <1>5
    <2>3. /\ Moved(queues[l], P, Joins(l)) \in Seq(Thread) /\ Distinct(Moved(queues[l], P, Joins(l)))
          /\ \A u : Holds(Moved(queues[l], P, Joins(l)), u)
                     <=> (Holds(queues[l], u) /\ u \notin P) \/ (Joins(l) /\ u \in P)
      BY <1>5, <2>2, HoldsMoved
    <2> QED
      BY <2>1, <2>3
  <1>11. queues' \in [Level -> Seq(Thread)]
    BY <1>2, <1>10
  <1>12. \A u \in Thread : nice'[ProcessOf[u]] = IF ProcessOf[u] = p THEN n ELSE nice[ProcessOf[u]]
    <2>1. ProcessOf \in [Thread -> Process]
      BY SchedulerAssumption
    <2> QED
      BY <1>2, <1>3, <2>1
  <1>13. \A u \in Thread : queueID'[u] = IF u \notin P THEN queueID[u] ELSE IF n = 0 THEN 1 ELSE 0
    BY <1>2
  <1>14. /\ n > 0 => late \/ \E l \in Level : Joins(l)
         /\ late => n > 0 /\ n - 1 = currentPriority /\ \A l \in Level : ~ Joins(l)
         /\ \A l \in Level : Joins(l) => n > 0 /\ l = n - 1
    BY <1>4 DEF late, Joins
  \* The count.
  <1>15. Queue0' = (Queue0 \ P) \cup (IF n > 0 THEN P ELSE {})
    <2>1. ASSUME NEW u \in Thread
          PROVE  (Holds(backupQueue', u) \/ \E l \in Level : Holds(queues'[l], u))
                 <=> (u \in Queue0 /\ u \notin P) \/ (n > 0 /\ u \in P)
      BY <1>9, <1>10, <1>14 DEF Queue0
    <2> QED
      BY <1>5, <2>1 DEF Queue0
  <1>16. IF nice[p] > 0 THEN P \subseteq Queue0 ELSE P \cap Queue0 = {}
    <2>1. ASSUME NEW u \in P
          PROVE  u \in Queue0 <=> nice[p] > 0
      <3>1. u \in Thread /\ ProcessOf[u] = p /\ Listed(u)
        BY <1>6
      <3>2. /\ Holds(roundRobin, u) => nice[p] = 0
            /\ Holds(backupQueue, u) => nice[p] - 1 = currentPriority
            /\ \A l \in Level : Holds(queues[l], u) => nice[p] - 1 = l
        BY <1>1, <3>1 DEF Housed
      <3>3. \A l \in Level : nice[p] - 1 = l => nice[p] > 0
        BY <1>4 DEF Level
      <3>4. u \in Queue0 => nice[p] > 0
        BY <1>3, <3>2, <3>3 DEF Queue0
      <3>5. ~ (nice[p] = 0 /\ nice[p] > 0)
        BY <1>4
      <3>6. nice[p] > 0 => u \in Queue0
        BY <3>1, <3>2, <3>5 DEF Listed, Queue0
      <3> QED
        BY <3>4, <3>6
    <2> QED
      BY <2>1
  <1>17. threadCount' = Cardinality(Queue0') /\ threadCount' \in Nat
    <2> DEFINE c == Cardinality(Queue0)
               d == Cardinality(P)
    <2>1. IsFiniteSet(Queue0) /\ IsFiniteSet(P) /\ c \in Nat /\ d \in Nat
      BY <1>5, Finite DEF Queue0
    <2>2. Queue0' \in SUBSET Thread /\ Cardinality(Queue0') \in Nat
      BY Finite DEF Queue0
    <2>3. threadCount' = c + (IF n > 0 THEN d ELSE 0) - (IF nice[p] > 0 THEN d ELSE 0)
      BY <1>1, <1>2
    <2>4. CASE n > 0 /\ nice[p] > 0
      <3>1. Queue0' = Queue0
        BY <1>15, <1>16, <2>4
      <3> HIDE DEF c, d
      <3>2. threadCount' = c
        BY <2>1, <2>3, <2>4
      <3> QED
        BY <2>2, <3>1, <3>2 DEF c
    <2>5. CASE n > 0 /\ ~ nice[p] > 0
      <3>1. Queue0' = Queue0 \cup P /\ Queue0 \cap P = {}
        BY <1>15, <1>16, <2>5
      <3>2. Cardinality(Queue0 \cup P) = c + d - Cardinality(Queue0 \cap P)
        BY <2>1, FS_Union
      <3>3. Cardinality(Queue0 \cap P) = 0
        BY <3>1, FS_EmptySet
      <3> HIDE DEF c, d
      <3>4. threadCount' = c + d
        BY <2>1, <2>3, <2>5
      <3>5. Cardinality(Queue0') = c + d
        BY <2>1, <3>1, <3>2, <3>3
      <3> QED
        BY <2>2, <3>4, <3>5
    <2>6. CASE ~ n > 0 /\ nice[p] > 0
      <3>1. Queue0' = Queue0 \ P /\ Queue0 \cap P = P
        BY <1>15, <1>16, <2>6
      <3>2. Cardinality(Queue0 \ P) = c - Cardinality(Queue0 \cap P)
        BY <2>1, FS_Difference
      <3> HIDE DEF c
      <3>3. threadCount' = c - d
        BY <2>1, <2>3, <2>6
      <3>4. Cardinality(Queue0') = c - d
        BY <3>1, <3>2
      <3> QED
        BY <2>2, <3>3, <3>4
    <2>7. CASE ~ n > 0 /\ ~ nice[p] > 0
      BY <1>2, <1>4, <2>7
    <2> QED
      BY <2>4, <2>5, <2>6, <2>7
  <1>18. TypeOK'
    <2>1. nice' \in [Process -> 0 .. MaxPriority] /\ queueID' \in [Thread -> {0, 1}]
      BY <1>2, <1>3, <1>4
    <2>2. niced' \in 0 .. MaxNiced /\ FORCE' \in BOOLEAN
      BY <1>1, <1>2, SchedulerAssumption DEF TypeOK
    <2> QED
      BY <1>1, <1>2, <1>8, <1>9, <1>11, <1>17, <2>1, <2>2 DEF TypeOK
  <1>19. Housed'
    <2>1. ASSUME NEW u \in Thread
          PROVE  /\ Holds(roundRobin', u) => queueID'[u] = 1 /\ nice'[ProcessOf[u]] = 0
                 /\ Holds(backupQueue', u) => /\ queueID'[u] = 0 /\ nice'[ProcessOf[u]] - 1 = currentPriority'
                                              /\ ~ Holds(queues'[currentPriority'], u)
                 /\ \A l \in Level : Holds(queues'[l], u) => queueID'[u] = 0 /\ nice'[ProcessOf[u]] - 1 = l
      <3>1. currentPriority' = currentPriority
        BY <1>2
      <3>2. CASE u \in P
        <4>1. nice'[ProcessOf[u]] = n /\ queueID'[u] = IF n = 0 THEN 1 ELSE 0
          BY <1>6, <1>12, <1>13, <3>2
        <4>2. n > 0 => n # 0 /\ \A l : l = n - 1 => n - 1 = l
          BY <1>4
        <4> QED
          BY <1>3, <1>8, <1>9, <1>10, <1>14, <3>1, <3>2, <4>1, <4>2
      <3>3. CASE u \notin P
        <4>1. /\ Holds(roundRobin', u) => Holds(roundRobin, u)
              /\ Holds(backupQueue', u) => Holds(backupQueue, u)
              /\ \A l \in Level : Holds(queues'[l], u) => Holds(queues[l], u)
          BY <1>8, <1>9, <1>10, <3>3
        <4>2. CASE ~ Listed(u)
          BY <4>1, <4>2 DEF Listed
        <4>3. CASE Listed(u)
          <5>1. nice'[ProcessOf[u]] = nice[ProcessOf[u]] /\ queueID'[u] = queueID[u]
            BY <1>7, <1>12, <1>13, <3>3, <4>3
          <5> QED
            BY <1>1, <1>3, <3>1, <4>1, <5>1 DEF Housed
        <4> QED
          BY <4>2, <4>3
      <3> QED
        BY <3>2, <3>3
    <2> QED
      BY <1>8, <1>9, <1>10, <2>1 DEF Housed
  <1>20. Forced'
    <2>1. current' = current /\ (FORCE => FORCE') /\ (current \in P => FORCE')
      BY <1>2
    <2>2. current \notin P /\ Listed(current) => Listed(current)'
      BY <1>8, <1>9, <1>10, <2>1 DEF Listed
    <2> QED
      BY <1>1, <2>1, <2>2 DEF Forced
  <1> QED
    BY <1>17, <1>18, <1>19, <1>20 DEF IInv

-----------------------------------------------------------------------------
\* A dispatch that leaves the lists lawful and chooses a listed thread.
Chosen == current \in Thread /\ Listed(current)

\* Queue 1: the first thread goes to the end.
LEMMA RoundRobinChooses ==
    ASSUME IInv, PickRoundRobin, nice' = nice
    PROVE  /\ Housed' /\ Chosen' /\ (threadCount = Cardinality(Queue0))'
           /\ roundRobin' \in Seq(Thread)
           /\ UNCHANGED <<queues, backupQueue, threadCount, queueID, currentPriority, timeSlice>>
  <1> DEFINE h == Head(roundRobin)
  <1>1. /\ roundRobin # <<>> /\ current' = h
        /\ roundRobin' = Append(Tail(roundRobin), h)
        /\ UNCHANGED <<queues, backupQueue, threadCount, queueID, currentPriority, timeSlice>>
    BY DEF PickRoundRobin
  <1>2. Housed /\ threadCount = Cardinality(Queue0) /\ roundRobin \in Seq(Thread) /\ Distinct(roundRobin)
    BY DEF IInv, Housed, TypeOK
  <1>3. /\ h \in Thread /\ Holds(roundRobin, h)
        /\ Tail(roundRobin) \in Seq(Thread) /\ Distinct(Tail(roundRobin))
        /\ \A u : Holds(Tail(roundRobin), u) <=> Holds(roundRobin, u) /\ u # h
    BY <1>1, <1>2, HoldsTail
  <1> HIDE DEF h
  <1>4. ~ Holds(Tail(roundRobin), h)
    BY <1>3
  <1>5. /\ Append(Tail(roundRobin), h) \in Seq(Thread) /\ Distinct(Append(Tail(roundRobin), h))
        /\ \A u : Holds(Append(Tail(roundRobin), h), u) <=> Holds(Tail(roundRobin), u) \/ u = h
    BY <1>3, <1>4, HoldsAppended
  <1>6. /\ roundRobin' \in Seq(Thread) /\ Distinct(roundRobin')
        /\ \A u : Holds(roundRobin', u) <=> Holds(roundRobin, u)
    BY <1>1, <1>3, <1>5
  <1>7. Queue0' = Queue0
    BY <1>1 DEF Queue0
  <1>8. Housed'
    <2>1. queues' = queues /\ backupQueue' = backupQueue /\ queueID' = queueID /\ currentPriority' = currentPriority
      BY <1>1
    <2> QED
      BY <1>2, <1>6, <2>1 DEF Housed
  <1>9. Chosen'
    BY <1>1, <1>3, <1>6 DEF Chosen, Listed
  <1> QED
    BY <1>1, <1>2, <1>6, <1>7, <1>8, <1>9

\* Below a level is a level, and no step below it is itself.
LEMMA BelowLevel ==
    ASSUME NEW l \in Level, NEW k \in 0 .. MaxPriority
    PROVE  Below(l, k) \in Level /\ Below(l, 0) = l
  <1>1. MaxPriority \in Nat \ {0}
    BY SchedulerAssumption
  <1>2. \A a \in Nat : a % MaxPriority \in 0 .. MaxPriority - 1
    BY <1>1
  <1>3. l \in 0 .. MaxPriority - 1 /\ l - k + MaxPriority \in Nat /\ l - 0 + MaxPriority = l + MaxPriority
    BY <1>1 DEF Level
  <1>4. (l + MaxPriority) % MaxPriority = l
    BY <1>1, <1>3
  <1> QED
    BY <1>2, <1>3, <1>4 DEF Below, Level

\* Queue 0: the first thread of the level that has the turn goes to the backup
\* queue, which is empty or of that level.
LEMMA GetNextChooses ==
    ASSUME IInv, GetNext, nice' = nice
    PROVE  /\ Housed' /\ Chosen' /\ (threadCount = Cardinality(Queue0))'
           /\ backupQueue' \in Seq(Thread) /\ queues' \in [Level -> Seq(Thread)]
           /\ currentPriority' \in Level /\ timeSlice' \in [Thread -> Nat]
           /\ UNCHANGED <<roundRobin, threadCount, queueID>>
  <1> DEFINE cp == currentPriority
             used  == queues[cp] = <<>> /\ backupQueue # <<>>
             full  == IF used THEN [queues EXCEPT ![cp] = backupQueue] ELSE queues
             after == IF used THEN <<>> ELSE backupQueue
             start == IF used THEN Below(cp, 1) ELSE cp
  <1>1. TypeOK /\ Housed /\ threadCount = Cardinality(Queue0)
    BY DEF IInv
  <1>2. /\ backupQueue \in Seq(Thread) /\ queues \in [Level -> Seq(Thread)]
        /\ Distinct(backupQueue) /\ \A l \in Level : Distinct(queues[l])
        /\ cp \in Level /\ timeSlice \in [Thread -> Nat]
    BY <1>1 DEF TypeOK, Housed
  <1>3. PICK k \in Level :
            /\ full[Below(start, k)] # <<>>
            /\ \A j \in 0 .. k - 1 : full[Below(start, j)] = <<>>
            /\ currentPriority' = Below(start, k)
            /\ current' = Head(full[Below(start, k)])
            /\ queues' = [full EXCEPT ![Below(start, k)] = Tail(@)]
            /\ backupQueue' = Append(after, Head(full[Below(start, k)]))
            /\ timeSlice' = [timeSlice EXCEPT ![Head(full[Below(start, k)])] = 0]
            /\ UNCHANGED <<roundRobin, threadCount, queueID>>
    BY DEF GetNext
  <1>4. k \in 0 .. MaxPriority /\ 1 \in 0 .. MaxPriority /\ (k = 0 \/ 0 \in 0 .. k - 1)
    BY SchedulerAssumption DEF Level
  <1>5. start \in Level
    BY <1>2, <1>4, BelowLevel
  <1> DEFINE l == Below(start, k)
             h == Head(full[l])
  <1>6. l \in Level /\ Below(start, 0) = start
    <2> HIDE DEF start
    <2> QED
      BY <1>4, <1>5, BelowLevel
  \* The lists with the backup queue back in its level, if that is used up.
  <1>7. /\ full \in [Level -> Seq(Thread)] /\ after \in Seq(Thread) /\ Distinct(after)
        /\ \A m \in Level : Distinct(full[m])
        /\ \A u : (Holds(after, u) \/ \E m \in Level : Holds(full[m], u))
                  <=> (Holds(backupQueue, u) \/ \E m \in Level : Holds(queues[m], u))
    <2>1. CASE used
      <3>1. /\ full \in [Level -> Seq(Thread)] /\ full[cp] = backupQueue /\ after = <<>>
            /\ \A m \in Level : m # cp => full[m] = queues[m]
        BY <1>2, <2>1
      <3>2. queues[cp] = <<>>
        BY <2>1
      <3> HIDE DEF full, after
      <3> QED
        BY <1>2, <3>1, <3>2, HoldsEmpty
    <2>2. CASE ~ used
      BY <1>2, <2>2
    <2> QED
      BY <2>1, <2>2
  <1>8. ASSUME NEW u \in Thread
        PROVE  /\ \A m \in Level : Holds(full[m], u) => queueID[u] = 0 /\ nice[ProcessOf[u]] - 1 = m
               /\ Holds(after, u) => /\ queueID[u] = 0 /\ nice[ProcessOf[u]] - 1 = l
                                     /\ ~ Holds(full[l], u)
    <2>1. CASE used
      <3>1. full[cp] = backupQueue /\ after = <<>> /\ \A m \in Level : m # cp => full[m] = queues[m]
        BY <1>2, <2>1
      <3> HIDE DEF full, after
      <3> QED
        BY <1>1, <3>1, HoldsEmpty DEF Housed
    <2>2. CASE ~ used
      <3>1. full = queues /\ after = backupQueue /\ start = cp
        BY <2>2
      <3>2. Holds(backupQueue, u) => l = cp
        <4>1. ASSUME Holds(backupQueue, u)
              PROVE  queues[cp] # <<>>
          BY <1>2, <2>2, <4>1, HoldsNone
        <4>2. l = Below(cp, k) /\ Below(cp, 0) = cp
          BY <1>6, <3>1
        <4>3. queues[cp] # <<>> => k = 0
          <5>1. 0 \in 0 .. k - 1 => full[Below(start, 0)] = <<>>
            BY <1>3
          <5> QED
            BY <1>4, <3>1, <4>2, <5>1
        <4> QED
          BY <4>1, <4>2, <4>3
      <3> HIDE DEF full, after, l
      <3> QED
        BY <1>1, <3>1, <3>2 DEF Housed
    <2> QED
      BY <2>1, <2>2
  <1>9. /\ full[l] # <<>> /\ currentPriority' = l /\ current' = h
        /\ queues' = [full EXCEPT ![l] = Tail(full[l])]
        /\ backupQueue' = Append(after, h) /\ timeSlice' = [timeSlice EXCEPT ![h] = 0]
        /\ UNCHANGED <<roundRobin, threadCount, queueID>>
    BY <1>3
  <1> HIDE DEF full, after, l, used, start
  <1>10. /\ h \in Thread /\ Holds(full[l], h)
         /\ Tail(full[l]) \in Seq(Thread) /\ Distinct(Tail(full[l]))
         /\ \A u : Holds(Tail(full[l]), u) <=> Holds(full[l], u) /\ u # h
    BY <1>6, <1>7, <1>9, HoldsTail
  <1> HIDE DEF h
  <1>11. /\ queues' \in [Level -> Seq(Thread)] /\ queues'[l] = Tail(full[l])
         /\ \A m \in Level : m # l => queues'[m] = full[m]
    BY <1>6, <1>7, <1>9, <1>10
  <1>12. ~ Holds(after, h)
    BY <1>8, <1>10
  <1>13. /\ backupQueue' \in Seq(Thread) /\ Distinct(backupQueue')
         /\ \A u : Holds(backupQueue', u) <=> Holds(after, u) \/ u = h
    <2>1. /\ Append(after, h) \in Seq(Thread) /\ Distinct(Append(after, h))
          /\ \A u : Holds(Append(after, h), u) <=> Holds(after, u) \/ u = h
      BY <1>7, <1>10, <1>12, HoldsAppended
    <2> QED
      BY <1>9, <2>1
  <1>14. /\ \A m \in Level : Distinct(queues'[m])
         /\ \A m \in Level, u \in Thread : Holds(queues'[m], u) <=> Holds(full[m], u) /\ ~ (m = l /\ u = h)
    <2>1. ASSUME NEW m \in Level
          PROVE  /\ Distinct(queues'[m])
                 /\ \A u \in Thread : Holds(queues'[m], u) <=> Holds(full[m], u) /\ ~ (m = l /\ u = h)
      <3>1. CASE m = l
        BY <1>10, <1>11, <3>1
      <3>2. CASE m # l
        BY <1>7, <1>11, <3>2
      <3> QED
        BY <3>1, <3>2
    <2> QED
      BY <2>1
  <1>15. Queue0' = Queue0
    <2>1. ASSUME NEW u \in Thread
          PROVE  (Holds(backupQueue', u) \/ \E m \in Level : Holds(queues'[m], u))
                 <=> (Holds(after, u) \/ \E m \in Level : Holds(full[m], u))
      BY <1>6, <1>10, <1>13, <1>14
    <2>2. ASSUME NEW u \in Thread
          PROVE  (Holds(backupQueue', u) \/ \E m \in Level : Holds(queues'[m], u))
                 <=> (Holds(backupQueue, u) \/ \E m \in Level : Holds(queues[m], u))
      BY <1>7, <2>1
    <2> QED
      BY <2>2 DEF Queue0
  <1>16. Housed'
    <2>1. ASSUME NEW u \in Thread
          PROVE  /\ Holds(roundRobin', u) => queueID'[u] = 1 /\ nice'[ProcessOf[u]] = 0
                 /\ Holds(backupQueue', u) => /\ queueID'[u] = 0 /\ nice'[ProcessOf[u]] - 1 = currentPriority'
                                              /\ ~ Holds(queues'[currentPriority'], u)
                 /\ \A m \in Level : Holds(queues'[m], u) => queueID'[u] = 0 /\ nice'[ProcessOf[u]] - 1 = m
      <3>1. roundRobin' = roundRobin /\ queueID' = queueID /\ currentPriority' = l
        BY <1>9
      <3>2. Holds(roundRobin, u) => queueID[u] = 1 /\ nice[ProcessOf[u]] = 0
        BY <1>1 DEF Housed
      <3> QED
        BY <1>6, <1>8, <1>10, <1>13, <1>14, <3>1, <3>2
    <2>2. Distinct(roundRobin')
      BY <1>1, <1>9 DEF Housed
    <2> QED
      BY <1>13, <1>14, <2>1, <2>2 DEF Housed
  <1>17. Chosen'
    BY <1>9, <1>10, <1>13 DEF Chosen, Listed
  <1>18. currentPriority' \in Level /\ timeSlice' \in [Thread -> Nat]
    BY <1>2, <1>6, <1>9, <1>10
  <1> QED
    BY <1>1, <1>9, <1>11, <1>13, <1>15, <1>16, <1>17, <1>18

\* What a dispatch ends with.
Dispatched == Chosen \/ (current = Idle /\ \A t \in Thread : ~ Listed(t))

\* What it says of the lists and of the thread it chooses.
Settled ==
    /\ Housed /\ threadCount = Cardinality(Queue0) /\ Dispatched
    /\ roundRobin \in Seq(Thread) /\ backupQueue \in Seq(Thread) /\ queues \in [Level -> Seq(Thread)]
    /\ currentPriority \in Level /\ threadCount \in Nat
    /\ queueID \in [Thread -> {0, 1}] /\ timeSlice \in [Thread -> Nat]

\* A dispatch chooses a listed thread, or Init's when there is none; the running
\* thread is kept only where it has not asked for the switch, and is listed then.
LEMMA SwitchKeeps ==
    ASSUME IInv, NEW forced \in BOOLEAN, FORCE => forced, ShortTerm(forced)
    PROVE  IInv' /\ Dispatched'
  <1> DEFINE over == currTimeSlice > Quantum[currQueue]
             slice == IF over THEN 0 ELSE currTimeSlice
  <1>1. TypeOK /\ Housed /\ threadCount = Cardinality(Queue0) /\ Forced
    BY DEF IInv
  <1>2. nice' = nice /\ niced' = niced /\ FORCE' = FALSE
    BY DEF ShortTerm
  <1>3. currQueue' \in {0, 1} /\ currTimeSlice' \in Nat
    <2>1. currQueue \in {0, 1} /\ currTimeSlice \in Nat
      BY <1>1 DEF TypeOK
    <2>2. currTimeSlice' = IF forced THEN slice ELSE slice + 1
      BY DEF ShortTerm
    <2>3. slice \in Nat
      BY <2>1
    <2>4. currQueue' \in {currQueue, 1 - currQueue}
      BY <2>1 DEF ShortTerm
    <2> HIDE DEF slice
    <2> QED
      BY <2>1, <2>2, <2>3, <2>4
  <1>4. \/ PickByPriority(forced)
        \/ PickRoundRobin
        \/ /\ threadCount = 0 /\ roundRobin = <<>> /\ current' = Idle
           /\ UNCHANGED <<lists, currentPriority, timeSlice>>
    BY DEF ShortTerm
  <1>5. Settled'
    <2>1. /\ roundRobin \in Seq(Thread) /\ backupQueue \in Seq(Thread) /\ queues \in [Level -> Seq(Thread)]
          /\ currentPriority \in Level /\ threadCount \in Nat /\ current \in Thread \cup {Idle}
          /\ queueID \in [Thread -> {0, 1}] /\ timeSlice \in [Thread -> Nat]
      BY <1>1 DEF TypeOK
    <2>2. CASE GetNext
      <3>1. /\ Housed' /\ Chosen' /\ (threadCount = Cardinality(Queue0))'
            /\ backupQueue' \in Seq(Thread) /\ queues' \in [Level -> Seq(Thread)]
            /\ currentPriority' \in Level /\ timeSlice' \in [Thread -> Nat]
            /\ UNCHANGED <<roundRobin, threadCount, queueID>>
        BY <1>2, <2>2, GetNextChooses
      <3> QED
        BY <2>1, <3>1 DEF Dispatched, Settled
    <2>3. CASE PickRoundRobin
      <3>1. /\ Housed' /\ Chosen' /\ (threadCount = Cardinality(Queue0))'
            /\ roundRobin' \in Seq(Thread)
            /\ UNCHANGED <<queues, backupQueue, threadCount, queueID, currentPriority, timeSlice>>
        BY <1>2, <2>3, RoundRobinChooses
      <3> QED
        BY <2>1, <3>1 DEF Dispatched, Settled
    <2>4. ASSUME current # Idle, ~ forced, UNCHANGED <<lists, currentPriority, current>>,
                 timeSlice' = [timeSlice EXCEPT ![current] = @ + 1]
          PROVE  Settled'
      <3>1. Housed' /\ (threadCount = Cardinality(Queue0))' /\ \A u : Listed(u)' = Listed(u)
        BY <1>2, <2>4, ListsStay
      <3>2. current \in Thread /\ Listed(current) /\ current' = current
        BY <1>1, <2>1, <2>4 DEF Forced
      <3>3. Listed(current)'
        BY <2>4, <3>2 DEF Listed, lists
      <3>4. Dispatched'
        BY <3>2, <3>3 DEF Dispatched, Chosen
      <3>5. timeSlice' \in [Thread -> Nat]
        BY <2>1, <2>4, <3>2
      <3> QED
        BY <2>1, <2>4, <3>1, <3>4, <3>5 DEF lists, Settled
    <2>5. ASSUME threadCount = 0, roundRobin = <<>>, current' = Idle,
                 UNCHANGED <<lists, currentPriority, timeSlice>>
          PROVE  Settled'
      <3>1. Housed' /\ (threadCount = Cardinality(Queue0))' /\ \A u : Listed(u)' = Listed(u)
        BY <1>2, <2>5, ListsStay
      <3>2. IsFiniteSet(Queue0) /\ Cardinality(Queue0) = 0
        BY <1>1, <2>5, Finite DEF Queue0
      <3>3. Queue0 = {}
        BY <3>2, FS_EmptySet
      <3>4. \A t \in Thread : ~ Listed(t)
        BY <2>1, <2>5, <3>3, HoldsNone DEF Listed, Queue0
      <3>5. \A t \in Thread : ~ Listed(t)'
        BY <3>1, <3>4
      <3>6. Dispatched'
        BY <2>5, <3>5 DEF Dispatched
      <3> QED
        BY <2>1, <2>5, <3>1, <3>6 DEF lists, Settled
    <2> QED
      BY <1>4, <2>2, <2>3, <2>4, <2>5 DEF PickByPriority
  <1>6. TypeOK'
    <2>1. current' \in Thread \cup {Idle}
      BY <1>5 DEF Dispatched, Chosen, Settled
    <2> QED
      BY <1>1, <1>2, <1>3, <1>5, <2>1 DEF TypeOK, Settled
  <1>7. Forced'
    BY <1>5 DEF Dispatched, Chosen, Forced, Settled
  <1> QED
    BY <1>5, <1>6, <1>7 DEF IInv, Settled

-----------------------------------------------------------------------------
\* Init's thread runs and the first process' thread is listed.
LEMMA InitHolds == Init => IInv
  <1> SUFFICES ASSUME Init PROVE IInv
    OBVIOUS
  <1>1. PICK t \in Thread : roundRobin = <<t>>
    BY DEF Init
  <1>2. /\ nice = [p \in Process |-> 0] /\ queues = [l \in Level |-> <<>>] /\ backupQueue = <<>>
        /\ currentPriority = MaxPriority - 1 /\ threadCount = 0
        /\ queueID = [u \in Thread |-> 1] /\ timeSlice \in [Thread -> {0, 1}]
        /\ currQueue = 0 /\ currTimeSlice = 0 /\ FORCE = FALSE /\ current = Idle /\ niced = 0
    BY DEF Init
  <1>3. /\ MaxPriority \in Nat \ {0} /\ MaxNiced \in Nat /\ ProcessOf \in [Thread -> Process]
    BY SchedulerAssumption
  <1>4. roundRobin \in Seq(Thread) /\ DOMAIN roundRobin = {1}
    BY <1>1
  <1>5. Distinct(roundRobin)
    BY <1>4 DEF Distinct
  <1>6. Queue0 = {}
    BY <1>2, HoldsEmpty DEF Queue0
  <1>7. Cardinality(Queue0) = 0
    BY <1>6, FS_EmptySet
  <1>8. TypeOK
    <2>1. /\ nice \in [Process -> 0 .. MaxPriority] /\ timeSlice \in [Thread -> Nat]
          /\ queueID \in [Thread -> {0, 1}] /\ niced \in 0 .. MaxNiced
      BY <1>2, <1>3
    <2>2. currentPriority \in Level
      BY <1>2, <1>3 DEF Level
    <2>3. backupQueue \in Seq(Thread) /\ queues \in [Level -> Seq(Thread)]
      BY <1>2, HoldsEmpty
    <2> QED
      BY <1>2, <1>4, <2>1, <2>2, <2>3 DEF TypeOK
  <1>9. Housed
    <2>1. ASSUME NEW u \in Thread
          PROVE  queueID[u] = 1 /\ nice[ProcessOf[u]] = 0
      BY <1>2, <1>3
    <2> QED
      BY <1>2, <1>5, <2>1, HoldsEmpty DEF Housed
  <1> QED
    BY <1>2, <1>7, <1>8, <1>9 DEF IInv, Forced

\* Every step keeps it.
LEMMA StepKeeps == IInv /\ [Next]_vars => IInv'
  <1> SUFFICES ASSUME IInv, [Next]_vars PROVE IInv'
    OBVIOUS
  <1>1. ASSUME NEW t \in Thread, Enqueue(t)
        PROVE  IInv'
    BY <1>1, EnqueueKeeps
  <1>2. ASSUME NEW t \in Thread, Dequeue(t)
        PROVE  IInv'
    BY <1>2, DequeueKeeps
  <1>3. ASSUME NEW p \in Process, NEW n \in 0 .. MaxPriority + 1, SetNiceness(p, n)
        PROVE  IInv'
    BY <1>3, SetNicenessKeeps
  <1>4. FORCE \in BOOLEAN
    BY DEF IInv, TypeOK
  <1>5. CASE Tick
    BY <1>4, <1>5, SwitchKeeps DEF Tick
  <1>6. CASE Yield
    BY <1>6, SwitchKeeps DEF Yield
  <1>7. CASE UNCHANGED vars
    <2>1. UNCHANGED <<nice, lists, currentPriority>>
      BY <1>7 DEF vars
    <2>2. Housed' /\ (threadCount = Cardinality(Queue0))' /\ \A u : Listed(u)' = Listed(u)
      BY <2>1, ListsStay
    <2>3. TypeOK'
      BY <1>7 DEF IInv, TypeOK, vars, lists
    <2>4. Forced'
      BY <1>7 DEF IInv, Forced, Listed, vars, lists
    <2> QED
      BY <2>2, <2>3, <2>4 DEF IInv
  <1> QED
    BY <1>1, <1>2, <1>3, <1>5, <1>6, <1>7 DEF Next

\* The inductive invariant.
THEOREM Invariance == Spec => []IInv
  BY InitHolds, StepKeeps, PTL DEF Spec

\* rrwp_removeThread finds a thread in the one list that names it.
LEMMA FoundThen == IInv => FoundByRemove
  <1> SUFFICES ASSUME IInv, NEW t \in Thread, Listed(t)
               PROVE  LET l == nice[ProcessOf[t]] - 1 IN
                      \E place \in Place :
                          /\ Once(ListAt(place), t)
                          /\ \A other \in Place \ {place} : ~ Holds(ListAt(other), t)
                          /\ IF queueID[t] = 1 THEN place = -1 /\ l = -1
                             ELSE place # -1 /\ (place = l \/ (place = -2 /\ currentPriority = l))
    BY DEF FoundByRemove
  <1> DEFINE l == nice[ProcessOf[t]] - 1
             InPlace(place) ==
                 /\ Once(ListAt(place), t)
                 /\ \A other \in Place \ {place} : ~ Holds(ListAt(other), t)
                 /\ IF queueID[t] = 1 THEN place = -1 /\ l = -1
                    ELSE place # -1 /\ (place = l \/ (place = -2 /\ currentPriority = l))
  <1>1. /\ Holds(roundRobin, t) => queueID[t] = 1 /\ l = -1
        /\ Holds(backupQueue, t) => queueID[t] = 0 /\ l = currentPriority /\ ~ Holds(queues[l], t)
        /\ \A m \in Level : Holds(queues[m], t) => queueID[t] = 0 /\ l = m
    BY DEF IInv, Housed
  <1>2. /\ currentPriority \in Level
        /\ Distinct(roundRobin) /\ Distinct(backupQueue) /\ \A m \in Level : Distinct(queues[m])
    BY DEF IInv, TypeOK, Housed
  <1>3. -1 \notin Level /\ -2 \notin Level /\ -1 # -2 /\ 0 # 1
    BY SchedulerAssumption DEF Level
  <1>4. ASSUME NEW q, Distinct(q), Holds(q, t)
        PROVE  Once(q, t)
    BY <1>4 DEF Distinct, Holds, Once
  <1>5. /\ ListAt(-1) = roundRobin /\ ListAt(-2) = backupQueue
        /\ \A m \in Level : ListAt(m) = queues[m]
    BY <1>3 DEF ListAt
  <1>6. /\ -1 \in Place /\ -2 \in Place /\ Level \subseteq Place
        /\ \A other \in Place : other = -1 \/ other = -2 \/ other \in Level
    BY DEF Place
  <1> HIDE DEF l
  <1>7. SUFFICES \E place \in Place : InPlace(place)
    BY DEF l
  <1>8. CASE Holds(roundRobin, t)
    <2>1. Once(ListAt(-1), t) /\ queueID[t] = 1 /\ l = -1
      BY <1>1, <1>2, <1>4, <1>5, <1>8
    <2>2. \A other \in Place \ {-1} : ~ Holds(ListAt(other), t)
      BY <1>1, <1>3, <1>5, <1>6, <2>1
    <2> QED
      BY <1>6, <2>1, <2>2
  <1>9. CASE Holds(backupQueue, t)
    <2>1. Once(ListAt(-2), t) /\ queueID[t] = 0 /\ l = currentPriority
      BY <1>1, <1>2, <1>4, <1>5, <1>9
    <2>2. \A other \in Place \ {-2} : ~ Holds(ListAt(other), t)
      BY <1>1, <1>3, <1>5, <1>6, <1>9, <2>1
    <2> QED
      BY <1>3, <1>6, <2>1, <2>2
  <1>10. ASSUME NEW m \in Level, Holds(queues[m], t)
         PROVE  \E place \in Place : InPlace(place)
    <2>1. Once(ListAt(m), t) /\ queueID[t] = 0 /\ l = m
      BY <1>1, <1>2, <1>4, <1>5, <1>10
    <2>2. \A other \in Place \ {m} : ~ Holds(ListAt(other), t)
      BY <1>1, <1>3, <1>5, <1>6, <1>10, <2>1
    <2> QED
      BY <1>3, <1>6, <2>1, <2>2
  <1> QED
    BY <1>8, <1>9, <1>10 DEF Listed

\* The count of queue 0.
LEMMA CountThen == IInv => CountExact
  <1> SUFFICES ASSUME IInv PROVE CountExact
    OBVIOUS
  <1>1. -1 \notin Level /\ -2 \notin Level /\ -1 # -2
    BY SchedulerAssumption DEF Level
  <1>2. Place \ {-1} = {-2} \cup Level
    BY <1>1 DEF Place
  <1>3. ListAt(-2) = backupQueue /\ \A m \in Level : ListAt(m) = queues[m]
    BY <1>1 DEF ListAt
  <1>4. {t \in Thread : \E place \in Place \ {-1} : Holds(ListAt(place), t)} = Queue0
    BY <1>2, <1>3 DEF Queue0
  <1> QED
    BY <1>4 DEF IInv, CountExact

\* A killed thread is found by the removal and leaves every list, and getNext's
\* search ends: QueuesExact.
THEOREM QueuesRight == Spec => []QueuesExact
  <1>1. IInv => QueuesExact
    BY FoundThen, CountThen DEF IInv, QueuesExact
  <1> QED
    BY <1>1, Invariance, PTL

\* Only a dispatch changes the running thread.
LEMMA RunningStays ==
    ASSUME [Next]_vars
    PROVE  current' = current \/ Tick \/ Yield
  <1>1. ASSUME NEW t \in Thread, Enqueue(t)
        PROVE  current' = current
    BY <1>1 DEF Enqueue
  <1>2. ASSUME NEW t \in Thread, Dequeue(t)
        PROVE  current' = current
    BY <1>2 DEF Dequeue
  <1>3. ASSUME NEW p \in Process, NEW n \in 0 .. MaxPriority + 1, SetNiceness(p, n)
        PROVE  current' = current
    BY <1>3 DEF SetNiceness
  <1>4. CASE UNCHANGED vars
    BY <1>4 DEF vars
  <1> QED
    BY <1>1, <1>2, <1>3, <1>4 DEF Next

\* A dispatch ends with a listed thread, or with Init's where none is listed.
LEMMA Dispatches == IInv /\ (Tick \/ Yield) => Dispatched'
  <1>1. IInv => FORCE \in BOOLEAN
    BY DEF IInv, TypeOK
  <1> QED
    BY <1>1, SwitchKeeps DEF Tick, Yield

\* The scheduler implements the run queue that ThreadSync relies on, and does so
\* with every dispatch, the forced ones included: RunsListed.
THEOREM OnlyListedRun == Spec => RunsListed
  <1>1. Init => RQ!Init
    BY DEF Init, RQ!Init
  <1>2. ASSUME IInv, [Next]_vars
        PROVE  [RQ!Step]_(RQ!rqVars)
    <2>1. {t \in Thread : Listed(t)}' \subseteq Thread
      OBVIOUS
    <2>2. CASE current' = current
      BY <2>1, <2>2 DEF RQ!Step
    <2>3. CASE Tick \/ Yield
      <3>1. Dispatched'
        BY <1>2, <2>3, Dispatches
      <3>2. CASE Chosen'
        <4>1. current' \in {t \in Thread : Listed(t)}'
          BY <3>2 DEF Chosen, Listed
        <4> QED
          BY <2>1, <4>1 DEF RQ!Step
      <3>3. CASE current' = Idle /\ \A t \in Thread : ~ Listed(t)'
        <4>1. {t \in Thread : Listed(t)}' = {}
          BY <3>3
        <4> QED
          BY <2>1, <3>3, <4>1 DEF RQ!Step
      <3> QED
        BY <3>1, <3>2, <3>3 DEF Dispatched
    <2> QED
      BY <1>2, <2>2, <2>3, RunningStays
  <1>3. ASSUME IInv, [Next]_vars
        PROVE  [ Tick \/ Yield =>
                     IF current' = Idle THEN \A t \in Thread : ~ Listed(t)' ELSE Listed(current)' ]_vars
    <2> SUFFICES ASSUME Tick \/ Yield
                 PROVE  IF current' = Idle THEN \A t \in Thread : ~ Listed(t)' ELSE Listed(current)'
      OBVIOUS
    <2>1. Dispatched' /\ Idle \notin Thread
      BY <1>3, Dispatches, SchedulerAssumption
    <2> QED
      BY <2>1 DEF Dispatched, Chosen, Listed
  <1>4. IInv /\ [Next]_vars => [RQ!Step]_(RQ!rqVars)
    BY <1>2
  <1>5. Spec => ImplementsRunQueue
    BY <1>1, <1>4, Invariance, PTL DEF Spec, ImplementsRunQueue, RQ!Spec
  <1>6. Spec => DispatchesListed
    BY <1>3, Invariance, PTL DEF Spec, DispatchesListed
  <1> QED
    BY <1>5, <1>6 DEF RunsListed
=============================================================================
