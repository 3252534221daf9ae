----------------------------- MODULE PipeProofs -----------------------------
(***************************************************************************)
(* The two semaphores of a buffer hold at most one token each: a token is  *)
(* a value of 1 or a call that has been let in.  Invariance is the         *)
(* induction; ReadersRight, NobodyStuck and BufferIsQueue are read off it. *)
(***************************************************************************)
EXTENDS Pipe, SequenceTheorems, WellFoundedInduction, TLAPS

Kind == {"r", "w"}
Sem == [value : {0, 1}, queue : Seq(Thread)]

Allowed(k) == IF k = "r" THEN allowReaders ELSE allowWriters

\* A call of c let in by semaphore s of kind k.
In(s, k, c, t) == c[t].op = k /\ ~ Contains(s.queue, t)

NoToken(s, k, c)  == s.value = 0 /\ \A t \in Thread : ~ In(s, k, c, t)
OneAtMost(s, k, c) ==
    \A t \in Thread : In(s, k, c, t) => s.value = 0 /\ \A u \in Thread : In(s, k, c, u) => u = t
SomeToken(s, k, c) == s.value = 1 \/ \E t \in Thread : In(s, k, c, t)

\* The queue of a semaphore: once each, those who sleep there or were killed there.
Sleepers(s, k, c) ==
    /\ s \in Sem
    /\ s.value = 1 => s.queue = <<>>
    /\ \A i \in 1 .. Len(s.queue) : c[s.queue[i]].op \in {k, "dead"}
    /\ \A i, j \in 1 .. Len(s.queue) : s.queue[i] = s.queue[j] => i = j

\* A token is given to those who are allowed only, and to them it is, unless it was killed.
Fits(s, k, c, allowed, m) ==
    /\ Sleepers(s, k, c) /\ OneAtMost(s, k, c)
    /\ SomeToken(s, k, c) => allowed = 1
    /\ "kill" \notin m /\ allowed = 1 => SomeToken(s, k, c)

Tokens == \A k \in Kind : Fits(sem[k], k, call, Allowed(k), may)

Callers ==
    \A t \in Thread : /\ call[t].op \in Kind => call[t].op \in mode[t]
                      /\ call[t].op = "dead" => mode[t] = {}

\* Readers are shut out of an empty buffer only, writers of a full one.
Shut ==
    /\ allowReaders = 0 => ToRead = 0 /\ hasEOF = 0 /\ allowWriters = 1
    /\ "fill" \notin may => allowWriters = 1

\* A token of the readers means bytes, or the end of file.
Worth ==
    may \subseteq {"kill"} /\ SomeToken(sem["r"], "r", call) => ToRead > 0 \/ hasEOF = 1

IInv == TypeOK /\ sem \in [Kind -> Sem] /\ Tokens /\ Callers /\ Shut /\ Worth

-----------------------------------------------------------------------------
\* Cursors go round the buffer.
LEMMA Small == ASSUME NEW B \in Nat \ {0}, NEW x \in 0 .. B - 1 PROVE x % B = x
  OBVIOUS

\* Past the end, once.
LEMMA Over == ASSUME NEW B \in Nat \ {0}, NEW x \in B .. 2 * B - 1 PROVE x % B = x - B
  OBVIOUS

\* Before the beginning, once.
LEMMA Under == ASSUME NEW B \in Nat \ {0}, NEW x \in -B .. -1 PROVE x % B = x + B
  OBVIOUS

\* The bytes between two cursors.
LEMMA Distance ==
    ASSUME NEW B \in Nat \ {0}, NEW r \in 0 .. B - 1, NEW w \in 0 .. B - 1
    PROVE  (w - r) % B = IF w < r THEN w - r + B ELSE w - r
  <1>1. CASE w < r
    <2>1. w - r \in -B .. -1
      BY <1>1
    <2> QED
      BY <1>1, <2>1, Under
  <1>2. CASE ~ w < r
    <2>1. w - r \in 0 .. B - 1
      BY <1>2
    <2> QED
      BY <1>2, <2>1, Small
  <1> QED
    BY <1>1, <1>2

\* A cursor that moves by no more than the buffer's size.
LEMMA Forward ==
    ASSUME NEW B \in Nat \ {0}, NEW r \in 0 .. B - 1, NEW k \in 0 .. B
    PROVE  /\ (r + k) % B = IF r + k < B THEN r + k ELSE r + k - B
           /\ (r + k) % B \in 0 .. B - 1
  <1>1. CASE r + k < B
    <2>1. r + k \in 0 .. B - 1
      BY <1>1
    <2> QED
      BY <1>1, <2>1, Small
  <1>2. CASE ~ r + k < B
    <2>1. r + k \in B .. 2 * B - 1
      BY <1>2
    <2> QED
      BY <1>2, <2>1, Over
  <1> QED
    BY <1>1, <1>2

\* What there is to read and where there is room make up the buffer.
LEMMA Room ==
    ASSUME TypeOK
    PROVE  /\ ToRead \in 0 .. BufferSize - 1 /\ ToWrite \in 1 .. BufferSize
           /\ ToRead + ToWrite = BufferSize
  <1>1. /\ BufferSize \in Nat \ {0}
        /\ readCursor \in 0 .. BufferSize - 1 /\ writeCursor \in 0 .. BufferSize - 1
    BY PipeAssumption DEF TypeOK
  <1>2. ToRead = IF writeCursor < readCursor THEN writeCursor - readCursor + BufferSize
                 ELSE writeCursor - readCursor
    BY <1>1, Distance DEF ToRead
  <1> QED
    BY <1>1, <1>2 DEF ToWrite

\* A reader that takes k bytes leaves the others.
LEMMA Taken ==
    ASSUME TypeOK, NEW k \in 0 .. ToRead, readCursor' = (readCursor + k) % BufferSize,
           writeCursor' = writeCursor
    PROVE  readCursor' \in 0 .. BufferSize - 1 /\ ToRead' = ToRead - k
  <1>1. /\ BufferSize \in Nat \ {0}
        /\ readCursor \in 0 .. BufferSize - 1 /\ writeCursor \in 0 .. BufferSize - 1
    BY PipeAssumption DEF TypeOK
  <1>2. ToRead = IF writeCursor < readCursor THEN writeCursor - readCursor + BufferSize
                 ELSE writeCursor - readCursor
    BY <1>1, Distance DEF ToRead
  <1>3. k \in 0 .. BufferSize
    BY <1>1, Room
  <1>4. /\ readCursor' = IF readCursor + k < BufferSize THEN readCursor + k
                         ELSE readCursor + k - BufferSize
        /\ readCursor' \in 0 .. BufferSize - 1
    BY <1>1, <1>3, Forward
  <1>5. ToRead' = IF writeCursor < readCursor' THEN writeCursor - readCursor' + BufferSize
                  ELSE writeCursor - readCursor'
    BY <1>1, <1>4, Distance DEF ToRead
  <1> QED
    BY <1>1, <1>2, <1>4, <1>5

\* A writer that leaves k bytes adds them, or fills the buffer, which then looks empty.
LEMMA Put ==
    ASSUME TypeOK, NEW k \in 0 .. ToWrite, writeCursor' = (writeCursor + k) % BufferSize,
           readCursor' = readCursor
    PROVE  writeCursor' \in 0 .. BufferSize - 1 /\ ToRead' = IF k < ToWrite THEN ToRead + k ELSE 0
  <1>1. /\ BufferSize \in Nat \ {0}
        /\ readCursor \in 0 .. BufferSize - 1 /\ writeCursor \in 0 .. BufferSize - 1
    BY PipeAssumption DEF TypeOK
  <1>2. ToRead = IF writeCursor < readCursor THEN writeCursor - readCursor + BufferSize
                 ELSE writeCursor - readCursor
    BY <1>1, Distance DEF ToRead
  <1>3. k \in 0 .. BufferSize /\ ToWrite = BufferSize - ToRead
    BY <1>1, Room
  <1>4. /\ writeCursor' = IF writeCursor + k < BufferSize THEN writeCursor + k
                         ELSE writeCursor + k - BufferSize
        /\ writeCursor' \in 0 .. BufferSize - 1
    BY <1>1, <1>3, Forward
  <1>5. ToRead' = IF writeCursor' < readCursor THEN writeCursor' - readCursor + BufferSize
                  ELSE writeCursor' - readCursor
    BY <1>1, <1>4, Distance DEF ToRead
  <1> QED
    BY <1>1, <1>2, <1>3, <1>4, <1>5

-----------------------------------------------------------------------------
\* A non-empty set of positions has a first one.
LEMMA First ==
    ASSUME NEW n, NEW I \in SUBSET (1 .. n), I # {}
    PROVE  Min(I) \in I /\ \A y \in I : Min(I) <= y
  <1>1. I \subseteq Nat
    OBVIOUS
  <1>2. PICK x \in I : \A y \in I : ~ (<<y, x>> \in OpToRel(<, Nat))
    BY <1>1, NatLessThanWellFounded, WFMin
  <1>3. ASSUME NEW y \in I
        PROVE  x <= y
    <2>1. ~ (<<y, x>> \in OpToRel(<, Nat)) /\ x \in Nat /\ y \in Nat
      BY <1>1, <1>2
    <2>2. ~ (y < x)
      BY <2>1 DEF OpToRel
    <2>3. \A m, k \in Nat : ~ (k < m) => m <= k
      OBVIOUS
    <2> QED
      BY <2>1, <2>2, <2>3
  <1> QED
    BY <1>3 DEF Min

\* A signal wakes the first live sleeper and drops the killed ones before it; if there is no
\* live one it empties the queue and counts.
LEMMA SignalWakes ==
    ASSUME NEW s \in Sem, NEW dead
    PROVE  \/ /\ \A i \in 1 .. Len(s.queue) : s.queue[i] \in dead
              /\ Signaled(s, dead) = [value |-> s.value + 1, queue |-> <<>>]
           \/ \E i \in 1 .. Len(s.queue) :
                /\ s.queue[i] \notin dead
                /\ \A j \in 1 .. i - 1 : s.queue[j] \in dead
                /\ Signaled(s, dead) = [s EXCEPT !.queue = SubSeq(@, i + 1, Len(@))]
  <1> DEFINE I == {i \in 1 .. Len(s.queue) : s.queue[i] \notin dead}
             first == IF I # {} THEN Min(I) ELSE 0
  <1>1. Signaled(s, dead) = IF first = 0 THEN [value |-> s.value + 1, queue |-> <<>>]
                            ELSE [s EXCEPT !.queue = SubSeq(@, first + 1, Len(@))]
    BY DEF Signaled, SelectInSeq
  <1>2. CASE I = {}
    BY <1>1, <1>2
  <1>3. CASE I # {}
    <2>1. I \in SUBSET (1 .. Len(s.queue)) /\ Len(s.queue) \in Nat
      BY DEF Sem
    <2>2. Min(I) \in I /\ \A y \in I : Min(I) <= y
      <3> HIDE DEF I
      <3> QED
        BY <1>3, <2>1, First
    <2> DEFINE i == Min(I)
    <2>3. first = i
      BY <1>3
    <2> HIDE DEF first
    <2>4. i \in 1 .. Len(s.queue) /\ s.queue[i] \notin dead
      BY <2>2
    <2>5. ASSUME NEW j \in 1 .. i - 1
          PROVE  s.queue[j] \in dead
      <3>1. j \in 1 .. Len(s.queue) /\ ~ i <= j
        BY <2>1, <2>4
      <3> QED
        BY <2>2, <3>1
    <2>6. Signaled(s, dead) = [s EXCEPT !.queue = SubSeq(@, i + 1, Len(@))]
      BY <1>1, <2>3, <2>4
    <2> HIDE DEF i
    <2> QED
      BY <2>4, <2>5, <2>6
  <1> QED
    BY <1>2, <1>3

\* So the token it makes is the only one.
LEMMA SignalGivesToken ==
    ASSUME NEW s, NEW k \in Kind, NEW c, NEW dead, Sleepers(s, k, c), NoToken(s, k, c),
           \A i \in 1 .. Len(s.queue) : s.queue[i] \in dead <=> c[s.queue[i]].op # k,
           NEW n, n = Signaled(s, dead)
    PROVE  Sleepers(n, k, c) /\ OneAtMost(n, k, c) /\ SomeToken(n, k, c)
  <1> DEFINE q == s.queue
  <1>1. s \in Sem /\ q \in Seq(Thread) /\ Len(q) \in Nat /\ s.value = 0
    BY DEF Sleepers, Sem, NoToken
  <1>2. \A t \in Thread : c[t].op = k => \E i \in 1 .. Len(q) : q[i] = t
    BY DEF NoToken, In, Contains
  <1>3. CASE /\ \A i \in 1 .. Len(q) : q[i] \in dead
             /\ n = [value |-> s.value + 1, queue |-> <<>>]
    <2>1. n = [value |-> 1, queue |-> <<>>] /\ Len(<<>>) = 0 /\ <<>> \in Seq(Thread)
      BY <1>1, <1>3
    <2>2. \A t \in Thread : c[t].op # k
      BY <1>2, <1>3
    <2>3. n.value = 1 /\ n.queue = <<>> /\ n \in Sem
      BY <2>1 DEF Sem
    <2>4. Sleepers(n, k, c)
      BY <2>1, <2>3 DEF Sleepers
    <2> QED
      BY <2>2, <2>3, <2>4 DEF OneAtMost, SomeToken, In
  <1>4. CASE \E i \in 1 .. Len(q) :
                /\ q[i] \notin dead
                /\ \A j \in 1 .. i - 1 : q[j] \in dead
                /\ n = [s EXCEPT !.queue = SubSeq(@, i + 1, Len(@))]
    <2>1. PICK i \in 1 .. Len(q) :
                /\ q[i] \notin dead
                /\ \A j \in 1 .. i - 1 : q[j] \in dead
                /\ n = [s EXCEPT !.queue = SubSeq(@, i + 1, Len(@))]
      BY <1>4
    <2> DEFINE r == SubSeq(q, i + 1, Len(q))
    <2>2. /\ r \in Seq(Thread) /\ Len(r) = Len(q) - i
          /\ \A j \in 1 .. Len(q) - i : r[j] = q[i + j]
      <3>1. i + 1 \in Int /\ Len(q) \in Int /\ \A j \in i + 1 .. Len(q) : q[j] \in Thread
        BY <1>1
      <3>2. /\ r \in Seq(Thread)
            /\ Len(r) = IF i + 1 <= Len(q) THEN Len(q) - (i + 1) + 1 ELSE 0
            /\ \A j \in 1 .. Len(q) - (i + 1) + 1 : r[j] = q[i + 1 + j - 1]
        BY <3>1, SubSeqProperties
      <3>3. Len(q) - (i + 1) + 1 = Len(q) - i /\ \A j \in Int : i + 1 + j - 1 = i + j
        BY <1>1
      <3> HIDE DEF r
      <3>4. Len(r) = Len(q) - i
        BY <1>1, <3>2
      <3>5. ASSUME NEW j \in 1 .. Len(q) - i
            PROVE  r[j] = q[i + j]
        <4>1. j \in 1 .. Len(q) - (i + 1) + 1 /\ j \in Int
          BY <1>1, <3>3
        <4> QED
          BY <3>2, <3>3, <4>1
      <3> QED
        BY <3>2, <3>4, <3>5
    <2>3. n = [value |-> 0, queue |-> r]
      BY <1>1, <2>1 DEF Sem
    <2> HIDE DEF r
    <2>4. n \in Sem /\ n.value = 0 /\ n.queue = r
      BY <2>2, <2>3 DEF Sem
    <2>5. Sleepers(n, k, c)
      <3>1. \A j \in 1 .. Len(r) : i + j \in 1 .. Len(q) /\ r[j] = q[i + j]
        BY <1>1, <2>2
      <3>2. \A j \in 1 .. Len(r) : c[r[j]].op \in {k, "dead"}
        BY <3>1 DEF Sleepers
      <3>3. ASSUME NEW j \in 1 .. Len(r), NEW l \in 1 .. Len(r), r[j] = r[l]
            PROVE  j = l
        <4>1. i + j = i + l
          BY <3>1, <3>3 DEF Sleepers
        <4> QED
          BY <1>1, <2>2, <4>1
      <3> QED
        BY <2>4, <3>2, <3>3 DEF Sleepers
    <2>6. q[i] \in Thread /\ c[q[i]].op = k /\ \A j \in 1 .. Len(r) : r[j] # q[i]
      <3>1. \A j \in 1 .. Len(r) : i + j \in 1 .. Len(q) /\ r[j] = q[i + j] /\ i + j # i
        BY <1>1, <2>2
      <3> QED
        BY <1>1, <2>1, <3>1 DEF Sleepers
    <2>7. ASSUME NEW t \in Thread, In(n, k, c, t)
          PROVE  t = q[i]
      <3>1. PICK j \in 1 .. Len(q) : q[j] = t /\ c[t].op = k
        BY <1>2, <2>7 DEF In
      <3>2. ~ j < i
        <4> SUFFICES ASSUME j < i PROVE FALSE
          OBVIOUS
        <4>1. j \in 1 .. i - 1
          BY <1>1
        <4> QED
          BY <2>1, <3>1, <4>1
      <3>3. ~ j > i
        <4> SUFFICES ASSUME j > i PROVE FALSE
          OBVIOUS
        <4>1. j - i \in 1 .. Len(r) /\ i + (j - i) = j
          BY <1>1, <2>2
        <4>2. r[j - i] = t
          BY <1>1, <2>2, <3>1, <4>1
        <4> QED
          BY <2>4, <2>7, <4>1, <4>2 DEF In, Contains
      <3> QED
        BY <1>1, <3>1, <3>2, <3>3
    <2>8. In(n, k, c, q[i])
      BY <2>4, <2>6 DEF In, Contains
    <2> QED
      BY <2>4, <2>5, <2>6, <2>7, <2>8 DEF OneAtMost, SomeToken
  <1>5. \/ /\ \A i \in 1 .. Len(q) : q[i] \in dead
           /\ n = [value |-> s.value + 1, queue |-> <<>>]
        \/ \E i \in 1 .. Len(q) :
                /\ q[i] \notin dead
                /\ \A j \in 1 .. i - 1 : q[j] \in dead
                /\ n = [s EXCEPT !.queue = SubSeq(@, i + 1, Len(@))]
    BY <1>1, SignalWakes, n = Signaled(s, dead)
  <1> QED
    BY <1>3, <1>4, <1>5

-----------------------------------------------------------------------------
\* What a call is, by its kind.
LEMMA CallFields ==
    ASSUME NEW c \in {NoCall, Dead} \cup Reads \cup Writes
    PROVE  /\ c.op \in Kind \cup {"none", "dead"}
           /\ c.op = "dead" <=> c = Dead
           /\ c.op \in Kind <=> c \in Reads \cup Writes
           /\ c.op = "r" => c.bytes \in Chunk
           /\ c.op = "w" => c.data \in Seq(Byte) /\ Len(c.data) \in Chunk
  <1>1. CASE c \in {NoCall, Dead}
    BY <1>1 DEF NoCall, Dead, Reads, Writes, Kind
  <1>2. CASE c \in Reads
    BY <1>2 DEF NoCall, Dead, Reads, Kind
  <1>3. CASE c \in Writes
    <2>1. c.op = "w"
      BY <1>3 DEF Writes
    <2>2. PICK n \in Chunk : c.data \in [1 .. n -> Byte]
      BY <1>3 DEF Writes
    <2>3. n \in Nat
      BY PipeAssumption
    <2>4. c.data \in Seq(Byte) /\ Len(c.data) = n
      BY <2>2, <2>3
    <2> QED
      BY <1>3, <2>1, <2>4 DEF NoCall, Dead, Kind
  <1> QED
    BY <1>1, <1>2, <1>3

\* Calls may change, if who was let in still is, or has been killed.
LEMMA FitsStill ==
    ASSUME NEW s, NEW k, NEW c, NEW a, NEW m, Fits(s, k, c, a, m), NEW d,
           \A i \in 1 .. Len(s.queue) : d[s.queue[i]].op \in {k, "dead"},
           \A t \in Thread : In(s, k, d, t) => In(s, k, c, t),
           "kill" \notin m => \A t \in Thread : In(s, k, c, t) => In(s, k, d, t)
    PROVE  Fits(s, k, d, a, m) /\ (SomeToken(s, k, d) => SomeToken(s, k, c))
  <1>1. Sleepers(s, k, d)
    BY DEF Fits, Sleepers
  <1>2. OneAtMost(s, k, d)
    BY DEF Fits, OneAtMost
  <1>3. SomeToken(s, k, d) => SomeToken(s, k, c)
    BY DEF SomeToken
  <1>4. "kill" \notin m => (SomeToken(s, k, c) => SomeToken(s, k, d))
    BY DEF SomeToken
  <1> QED
    BY <1>1, <1>2, <1>3, <1>4 DEF Fits

\* Who is not allowed has no token.
LEMMA NotAllowed ==
    ASSUME NEW s, NEW k, NEW c, NEW a, NEW m, Fits(s, k, c, a, m), a # 1
    PROVE  Sleepers(s, k, c) /\ NoToken(s, k, c)
  BY DEF Fits, Sleepers, NoToken, SomeToken, Sem

\* Without a token nobody is allowed, and after a signal somebody is.
LEMMA FitsWithout ==
    ASSUME NEW s, NEW k, NEW c, NEW m, Sleepers(s, k, c), NoToken(s, k, c)
    PROVE  Fits(s, k, c, 0, m) /\ ~ SomeToken(s, k, c)
  BY DEF Fits, OneAtMost, NoToken, SomeToken

\* A signal hands over a token, and its kind is allowed.
LEMMA FitsSignaled ==
    ASSUME NEW s, NEW k \in Kind, NEW c, NEW m, NEW dead, Sleepers(s, k, c), NoToken(s, k, c),
           \A i \in 1 .. Len(s.queue) : s.queue[i] \in dead <=> c[s.queue[i]].op # k,
           NEW n, n = Signaled(s, dead)
    PROVE  Fits(n, k, c, 1, m)
  BY SignalGivesToken DEF Fits

-----------------------------------------------------------------------------
\* A call has taken the token of k, which left the semaphores as in s and the calls as in c.
Entered(k, s, c) ==
    /\ s \in [Kind -> Sem]
    /\ Sleepers(s[k], k, c) /\ NoToken(s[k], k, c) /\ Allowed(k) = 1
    /\ \A o \in Kind \ {k} : Fits(s[o], o, c, Allowed(o), may)
    /\ \A t \in Thread : c[t].op = "dead" <=> call[t] = Dead

\* What such a call signals, to its own kind or to a kind that was shut out.
LEMMA EnteredSignals ==
    ASSUME NEW k \in Kind, NEW s, NEW c, Entered(k, s, c), NEW o \in Kind, o = k \/ Allowed(o) # 1
    PROVE  Fits(Signaled(s[o], Killed), o, c, 1, may)
  <1>1. Sleepers(s[o], o, c) /\ NoToken(s[o], o, c)
    BY NotAllowed DEF Entered
  <1>2. \A i \in 1 .. Len(s[o].queue) : s[o].queue[i] \in Killed <=> c[s[o].queue[i]].op # o
    <2>1. s[o].queue \in Seq(Thread)
      BY DEF Entered, Sem
    <2>2. \A i \in 1 .. Len(s[o].queue) : s[o].queue[i] \in Thread /\ c[s[o].queue[i]].op \in {o, "dead"}
      BY <1>1, <2>1, ElementOfSeq DEF Sleepers
    <2> QED
      BY <2>2 DEF Entered, Killed, Kind
  <1> QED
    BY <1>1, <1>2, FitsSignaled

\* Somebody has read.
LEMMA ReadStep ==
    ASSUME TypeOK, NEW s, Entered("r", s, call'), NEW n \in Chunk, ReadBuffer(n, s), UNCHANGED may,
           allowWriters \in {0, 1}
    PROVE  /\ sem' \in [Kind -> Sem]
           /\ \A k \in Kind : Fits(sem'[k], k, call', Allowed(k)', may)
           /\ readCursor' \in 0 .. BufferSize - 1 /\ allowReaders' \in {0, 1} /\ allowWriters' = 1
           /\ UNCHANGED <<mode, content, writeCursor, hasEOF>>
           /\ allowReaders' = 0 => ToRead' = 0 /\ hasEOF' = 0
           /\ SomeToken(sem'["r"], "r", call') => ToRead' > 0 \/ hasEOF' = 1
  <1> DEFINE k == Smaller(n, ToRead)
             more == k < ToRead \/ hasEOF = 1
  <1>1. /\ readCursor' = (readCursor + k) % BufferSize
        /\ allowReaders' = IF more THEN allowReaders ELSE 0
        /\ allowWriters' = 1
        /\ sem' = [s EXCEPT !["r"] = IF more THEN Signaled(@, Killed) ELSE @,
                            !["w"] = IF allowWriters = 0 THEN Signaled(@, Killed) ELSE @]
        /\ UNCHANGED <<mode, content, writeCursor, hasEOF>>
    BY DEF ReadBuffer, TakeBytes
  <1>2. ToRead \in Nat /\ n \in Nat \ {0}
    BY Room, PipeAssumption
  <1>3. k \in 0 .. ToRead
    BY <1>2 DEF Smaller
  <1> HIDE DEF k
  <1>4. readCursor' \in 0 .. BufferSize - 1 /\ ToRead' = ToRead - k
    BY <1>1, <1>3, Taken
  <1>5. s \in [Kind -> Sem] /\ allowReaders = 1 /\ hasEOF \in {0, 1}
    BY DEF Entered, Allowed, TypeOK
  <1>6. /\ sem'["r"] = IF more THEN Signaled(s["r"], Killed) ELSE s["r"]
        /\ sem'["w"] = IF allowWriters = 0 THEN Signaled(s["w"], Killed) ELSE s["w"]
        /\ DOMAIN sem' = Kind /\ sem' = [j \in Kind |-> sem'[j]]
    BY <1>1, <1>5 DEF Kind
  <1>7. Fits(sem'["r"], "r", call', allowReaders', may)
    <2>1. CASE more
      BY <1>1, <1>5, <1>6, <2>1, EnteredSignals DEF Kind
    <2>2. CASE ~ more
      BY <1>1, <1>6, <2>2, FitsWithout DEF Entered
    <2> QED
      BY <2>1, <2>2
  <1>8. Fits(sem'["w"], "w", call', 1, may)
    <2>1. CASE allowWriters = 0
      BY <1>6, <2>1, EnteredSignals DEF Kind, Allowed
    <2>2. CASE allowWriters = 1
      BY <1>6, <2>2 DEF Entered, Kind, Allowed
    <2> QED
      BY <2>1, <2>2
  <1>9. \A j \in Kind : Fits(sem'[j], j, call', Allowed(j)', may)
    BY <1>1, <1>7, <1>8 DEF Kind, Allowed
  <1>10. sem' \in [Kind -> Sem]
    BY <1>6, <1>9 DEF Fits, Sleepers
  <1>11. ~ more => ~ SomeToken(sem'["r"], "r", call')
    BY <1>6, FitsWithout DEF Entered
  <1>12. more => allowReaders' = 1 /\ (ToRead' > 0 \/ hasEOF' = 1)
    BY <1>1, <1>2, <1>3, <1>4, <1>5
  <1>13. ~ more => allowReaders' = 0 /\ ToRead' = 0 /\ hasEOF' = 0
    BY <1>1, <1>2, <1>3, <1>4, <1>5
  <1> QED
    BY <1>1, <1>4, <1>9, <1>10, <1>11, <1>12, <1>13

\* Somebody has written.
LEMMA WriteStep ==
    ASSUME TypeOK, NEW s, Entered("w", s, call'), NEW data \in Seq(Byte), Len(data) \in Chunk,
           WriteBuffer(data, s), UNCHANGED may, allowReaders \in {0, 1}
    PROVE  /\ sem' \in [Kind -> Sem]
           /\ \A k \in Kind : Fits(sem'[k], k, call', Allowed(k)', may)
           /\ writeCursor' \in 0 .. BufferSize - 1 /\ content' \in [0 .. BufferSize - 1 -> Byte]
           /\ allowReaders' = 1 /\ allowWriters' \in {0, 1}
           /\ UNCHANGED <<mode, readCursor, hasEOF>>
           /\ "fill" \notin may => allowWriters' = 1 /\ ToRead' > 0
  <1> DEFINE k == Smaller(Len(data), ToWrite)
  <1>1. /\ "fill" \in may \/ k < ToWrite
        /\ content' = [i \in 0 .. BufferSize - 1 |->
                         IF (i - writeCursor) % BufferSize < k
                         THEN data[((i - writeCursor) % BufferSize) + 1] ELSE content[i]]
        /\ writeCursor' = (writeCursor + k) % BufferSize
        /\ allowWriters' = IF k < ToWrite THEN allowWriters ELSE 0
        /\ allowReaders' = 1
        /\ sem' = [s EXCEPT !["w"] = IF k < ToWrite THEN Signaled(@, Killed) ELSE @,
                            !["r"] = IF allowReaders = 0 THEN Signaled(@, Killed) ELSE @]
        /\ UNCHANGED <<mode, readCursor, hasEOF>>
    BY DEF WriteBuffer, PutBytes
  <1>2. ToRead \in Nat /\ ToWrite \in Nat \ {0} /\ Len(data) \in Nat \ {0} /\ BufferSize \in Nat \ {0}
    BY Room, PipeAssumption
  <1>3. k \in 1 .. ToWrite /\ k <= Len(data)
    BY <1>2 DEF Smaller
  <1> HIDE DEF k
  <1>4. writeCursor' \in 0 .. BufferSize - 1 /\ ToRead' = IF k < ToWrite THEN ToRead + k ELSE 0
    BY <1>1, <1>2, <1>3, Put
  <1>5. s \in [Kind -> Sem] /\ allowWriters = 1
    BY DEF Entered, Allowed
  <1>6. /\ sem'["w"] = IF k < ToWrite THEN Signaled(s["w"], Killed) ELSE s["w"]
        /\ sem'["r"] = IF allowReaders = 0 THEN Signaled(s["r"], Killed) ELSE s["r"]
        /\ DOMAIN sem' = Kind /\ sem' = [j \in Kind |-> sem'[j]]
    BY <1>1, <1>5 DEF Kind
  <1>7. Fits(sem'["w"], "w", call', allowWriters', may)
    <2>1. CASE k < ToWrite
      BY <1>1, <1>5, <1>6, <2>1, EnteredSignals DEF Kind
    <2>2. CASE ~ k < ToWrite
      BY <1>1, <1>6, <2>2, FitsWithout DEF Entered
    <2> QED
      BY <2>1, <2>2
  <1>8. Fits(sem'["r"], "r", call', 1, may)
    <2>1. CASE allowReaders = 0
      BY <1>6, <2>1, EnteredSignals DEF Kind, Allowed
    <2>2. CASE allowReaders = 1
      BY <1>6, <2>2 DEF Entered, Kind, Allowed
    <2> QED
      BY <2>1, <2>2
  <1>9. \A j \in Kind : Fits(sem'[j], j, call', Allowed(j)', may)
    BY <1>1, <1>7, <1>8 DEF Kind, Allowed
  <1>10. sem' \in [Kind -> Sem]
    BY <1>6, <1>9 DEF Fits, Sleepers
  <1>11. content' \in [0 .. BufferSize - 1 -> Byte]
    <2>1. ASSUME NEW i \in 0 .. BufferSize - 1
          PROVE  /\ content[i] \in Byte
                 /\ (i - writeCursor) % BufferSize < k => data[((i - writeCursor) % BufferSize) + 1] \in Byte
      <3>1. writeCursor \in Int /\ i - writeCursor \in Int /\ content[i] \in Byte
        BY DEF TypeOK
      <3>2. (i - writeCursor) % BufferSize \in 0 .. BufferSize - 1
        BY <1>2, <3>1
      <3>3. (i - writeCursor) % BufferSize < k => ((i - writeCursor) % BufferSize) + 1 \in 1 .. Len(data)
        BY <1>2, <1>3, <3>2
      <3> QED
        BY <3>1, <3>3, ElementOfSeq
    <2> QED
      BY <1>1, <2>1
  <1>12. allowWriters' \in {0, 1} /\ ("fill" \notin may => allowWriters' = 1)
    BY <1>1, <1>5
  <1>13. "fill" \notin may => ToRead' > 0
    BY <1>1, <1>2, <1>3, <1>4
  <1> QED
    BY <1>1, <1>4, <1>9, <1>10, <1>11, <1>12, <1>13

-----------------------------------------------------------------------------
\* What every step preserves, of the calls c and of the other variables.
Kept ==
    /\ mode' \in [Thread -> SUBSET {"r", "w"}]
    /\ content' \in [0 .. BufferSize - 1 -> Byte]
    /\ writeCursor' \in 0 .. BufferSize - 1 /\ readCursor' \in 0 .. BufferSize - 1
    /\ hasEOF' \in {0, 1} /\ allowReaders' \in {0, 1} /\ allowWriters' \in {0, 1}
    /\ sem' \in [Kind -> Sem]
    /\ \A k \in Kind : Fits(sem'[k], k, call', Allowed(k)', may)
    /\ allowReaders' = 0 => ToRead' = 0 /\ hasEOF' = 0 /\ allowWriters' = 1
    /\ "fill" \notin may => allowWriters' = 1
    /\ may \subseteq {"kill"} /\ SomeToken(sem'["r"], "r", call') => ToRead' > 0 \/ hasEOF' = 1

\* Its conjuncts are those of the invariant after the step.
LEMMA KeptIsInvariant ==
    ASSUME UNCHANGED may, may \in Scenarios, Kept, Callers',
           call' \in [Thread -> {NoCall, Dead} \cup Reads \cup Writes]
    PROVE  IInv'
  <1>1. \A k \in {"r", "w"} : sem'[k].value \in {0, 1} /\ sem'[k].queue \in Seq(Thread)
    BY DEF Kept, Sem, Kind
  <1>2. TypeOK'
    BY <1>1 DEF Kept, TypeOK
  <1>3. Tokens'
    BY DEF Kept, Tokens
  <1>4. Shut' /\ Worth'
    BY DEF Kept, Shut, Worth
  <1> QED
    BY <1>2, <1>3, <1>4 DEF IInv, Kept

\* The invariant's conjuncts that speak of no call.
LEMMA Flags ==
    ASSUME IInv
    PROVE  /\ TypeOK /\ may \in Scenarios /\ sem \in [Kind -> Sem]
           /\ mode \in [Thread -> SUBSET {"r", "w"}] /\ content \in [0 .. BufferSize - 1 -> Byte]
           /\ writeCursor \in 0 .. BufferSize - 1 /\ readCursor \in 0 .. BufferSize - 1
           /\ hasEOF \in {0, 1} /\ allowReaders \in {0, 1} /\ allowWriters \in {0, 1}
           /\ allowReaders = 0 => ToRead = 0 /\ hasEOF = 0 /\ allowWriters = 1
           /\ "fill" \notin may => allowWriters = 1
  BY DEF IInv, TypeOK, Shut

\* Every call is none, dead, or of a kind, and its fields are of it.
LEMMA Calls ==
    ASSUME IInv, NEW t \in Thread
    PROVE  /\ call[t] \in {NoCall, Dead} \cup Reads \cup Writes
           /\ call[t].op \in Kind \cup {"none", "dead"}
           /\ call[t].op = "dead" <=> call[t] = Dead
           /\ call[t].op \in Kind => call[t].op \in mode[t]
           /\ call[t].op = "dead" => mode[t] = {}
  <1>1. call[t] \in {NoCall, Dead} \cup Reads \cup Writes
    BY DEF IInv, TypeOK
  <1> QED
    BY <1>1, CallFields DEF IInv, Callers

\* The sleepers of k are in calls of k, or were killed in one.
LEMMA Asleep ==
    ASSUME IInv, NEW k \in Kind
    PROVE  /\ Fits(sem[k], k, call, Allowed(k), may)
           /\ sem[k].queue \in Seq(Thread) /\ Len(sem[k].queue) \in Nat
           /\ \A i \in 1 .. Len(sem[k].queue) :
                 sem[k].queue[i] \in Thread /\ call[sem[k].queue[i]].op \in {k, "dead"}
  <1>1. Fits(sem[k], k, call, Allowed(k), may)
    BY DEF IInv, Tokens
  <1>2. sem[k].queue \in Seq(Thread) /\ Len(sem[k].queue) \in Nat
    BY <1>1 DEF Fits, Sleepers, Sem
  <1> QED
    BY <1>1, <1>2, ElementOfSeq DEF Fits, Sleepers

\* Somebody has closed the buffer, or was killed.
LEMMA CloseStep ==
    ASSUME IInv, UNCHANGED may, NEW t \in Thread, NEW dead, CloseFile(t, dead),
           \A k \in Kind : Fits(sem[k], k, call', Allowed(k), may),
           SomeToken(sem["r"], "r", call') => SomeToken(sem["r"], "r", call),
           \A i \in 1 .. Len(sem["r"].queue) :
              sem["r"].queue[i] \in dead <=> call'[sem["r"].queue[i]].op # "r"
    PROVE  Kept
  <1> DEFINE last == "w" \in mode[t] /\ Writers = {t}
  <1>1. /\ mode' = [mode EXCEPT ![t] = {}]
        /\ hasEOF' = IF last THEN 1 ELSE hasEOF
        /\ allowReaders' = IF last THEN 1 ELSE allowReaders
        /\ sem' = IF last /\ allowReaders = 0 THEN [sem EXCEPT !["r"] = Signaled(@, dead)] ELSE sem
        /\ UNCHANGED <<content, writeCursor, readCursor, allowWriters>>
    BY DEF CloseFile, cursors
  <1> HIDE DEF last
  <1>2. mode' \in [Thread -> SUBSET {"r", "w"}]
    BY <1>1, Flags
  <1>3. ToRead' = ToRead
    BY <1>1 DEF ToRead
  <1>4. CASE last /\ allowReaders = 0
    <2>1. /\ sem'["r"] = Signaled(sem["r"], dead) /\ sem'["w"] = sem["w"]
          /\ sem' = [j \in Kind |-> sem'[j]]
      BY <1>1, <1>4, Flags DEF Kind
    <2>2. Sleepers(sem["r"], "r", call') /\ NoToken(sem["r"], "r", call')
      BY <1>4, NotAllowed DEF Kind, Allowed
    <2>3. Fits(sem'["r"], "r", call', 1, may)
      BY <2>1, <2>2, FitsSignaled DEF Kind
    <2>4. \A k \in Kind : Fits(sem'[k], k, call', Allowed(k)', may)
      BY <1>1, <1>4, <2>1, <2>3 DEF Kind, Allowed
    <2>5. sem' \in [Kind -> Sem]
      BY <2>1, <2>4 DEF Fits, Sleepers
    <2> QED
      BY <1>1, <1>2, <1>4, <2>4, <2>5, Flags DEF Kept
  <1>5. CASE ~ (last /\ allowReaders = 0)
    <2>1. sem' = sem /\ allowReaders' = allowReaders /\ hasEOF' \in {0, 1}
      BY <1>1, <1>5, Flags
    <2>2. \A k \in Kind : Fits(sem'[k], k, call', Allowed(k)', may)
      BY <1>1, <2>1 DEF Allowed
    <2>3. allowReaders' = 0 => ToRead' = 0 /\ hasEOF' = 0 /\ allowWriters' = 1
      BY <1>1, <1>3, <1>5, <2>1, Flags
    <2>4. may \subseteq {"kill"} /\ SomeToken(sem'["r"], "r", call') => ToRead' > 0 \/ hasEOF' = 1
      BY <1>1, <1>3, <2>1 DEF IInv, Worth
    <2> QED
      BY <1>1, <1>2, <2>1, <2>2, <2>3, <2>4, Flags DEF Kept
  <1> QED
    BY <1>4, <1>5

\* closeFile keeps the invariant.
LEMMA CloseKeeps ==
    ASSUME IInv, UNCHANGED may, NEW t \in Thread, Close(t)
    PROVE  IInv'
  <1>1. call[t] = NoCall /\ CloseFile(t, Killed) /\ call' = call
    BY DEF Close
  <1>2. \A i \in 1 .. Len(sem["r"].queue) :
           sem["r"].queue[i] \in Killed <=> call'[sem["r"].queue[i]].op # "r"
    BY <1>1, Asleep, Calls DEF Killed, Kind
  <1>3. Kept
    BY <1>1, <1>2, Asleep, CloseStep
  <1>4. mode' = [mode EXCEPT ![t] = {}] /\ call[t].op = "none"
    BY <1>1 DEF CloseFile, NoCall
  <1>5. Callers'
    BY <1>1, <1>4, Flags DEF Callers, IInv, Kind
  <1> QED
    BY <1>1, <1>3, <1>5, KeptIsInvariant, Flags DEF IInv, TypeOK

\* killProcess keeps the invariant: with a call that was let in its token is lost.
LEMMA KillKeeps ==
    ASSUME IInv, UNCHANGED may, NEW t \in Thread, Kill(t)
    PROVE  IInv'
  <1> DEFINE asleep == \E k \in Kind : Contains(sem[k].queue, t)
  <1>1. /\ "kill" \in may /\ mode[t] # {} /\ CloseFile(t, Killed \cup {t})
        /\ call' = [call EXCEPT ![t] = IF asleep THEN Dead ELSE NoCall]
    BY DEF Kill, Kind
  <1> HIDE DEF asleep
  <1>2. call \in [Thread -> {NoCall, Dead} \cup Reads \cup Writes]
    BY DEF IInv, TypeOK
  <1>3. call'[t] = (IF asleep THEN Dead ELSE NoCall) /\ \A u \in Thread \ {t} : call'[u] = call[u]
    BY <1>1, <1>2
  <1>4. call' \in [Thread -> {NoCall, Dead} \cup Reads \cup Writes]
    BY <1>1, <1>2
  <1>5. call'[t].op = (IF asleep THEN "dead" ELSE "none")
    BY <1>3 DEF Dead, NoCall
  <1>6. call[t].op # "dead"
    BY <1>1, Calls
  <1>7. ASSUME NEW k \in Kind
        PROVE  /\ \A i \in 1 .. Len(sem[k].queue) : call'[sem[k].queue[i]].op \in {k, "dead"}
               /\ \A i \in 1 .. Len(sem[k].queue) :
                      sem[k].queue[i] \in Killed \cup {t} <=> call'[sem[k].queue[i]].op # k
               /\ \A u \in Thread : In(sem[k], k, call', u) => In(sem[k], k, call, u)
    <2>1. ASSUME NEW i \in 1 .. Len(sem[k].queue)
          PROVE  /\ call'[sem[k].queue[i]].op \in {k, "dead"}
                 /\ sem[k].queue[i] \in Killed \cup {t} <=> call'[sem[k].queue[i]].op # k
      <3> DEFINE u == sem[k].queue[i]
      <3>1. u \in Thread /\ call[u].op \in {k, "dead"} /\ k # "dead"
        BY Asleep DEF Kind
      <3>2. CASE u = t
        <4>1. asleep
          BY <3>2 DEF asleep, Contains
        <4> QED
          BY <1>5, <3>1, <3>2, <4>1
      <3>3. CASE u # t
        BY <1>3, <3>1, <3>3, Calls DEF Killed
      <3> QED
        BY <3>2, <3>3
    <2>2. \A u \in Thread : In(sem[k], k, call', u) => In(sem[k], k, call, u)
      BY <1>3, <1>5 DEF In, Kind
    <2> QED
      BY <2>1, <2>2
  <1>8. \A k \in Kind : /\ Fits(sem[k], k, call', Allowed(k), may)
                        /\ SomeToken(sem[k], k, call') => SomeToken(sem[k], k, call)
    BY <1>1, <1>7, Asleep, FitsStill
  <1>9. Kept
    BY <1>1, <1>7, <1>8, CloseStep DEF Kind
  <1>10. Callers'
    <2>1. mode' = [mode EXCEPT ![t] = {}]
      BY <1>1 DEF CloseFile
    <2>2. mode'[t] = {} /\ \A u \in Thread \ {t} : mode'[u] = mode[u]
      BY <2>1, Flags
    <2> QED
      BY <1>3, <1>5, <2>2 DEF Callers, IInv, Kind
  <1> QED
    BY <1>4, <1>9, <1>10, KeptIsInvariant, Flags

\* openFile keeps the invariant.
LEMMA OpenKeeps ==
    ASSUME IInv, UNCHANGED may, NEW t \in Thread, NEW m \in SUBSET {"r", "w"}, Open(t, m)
    PROVE  IInv'
  <1>1. /\ call[t] = NoCall /\ mode' = [mode EXCEPT ![t] = m] /\ UNCHANGED <<call, content>>
        /\ "w" \in m => "reopen" \in may \/ hasEOF = 0 \/ Openers = {}
    BY DEF Open
  <1>2. mode' \in [Thread -> SUBSET {"r", "w"}] /\ call[t].op = "none"
    BY <1>1, Flags DEF NoCall
  <1>3. Callers'
    BY <1>1, <1>2, Flags DEF Callers, IInv, Kind
  <1>4. CASE Openers = {}
    <2>1. /\ writeCursor' = 0 /\ readCursor' = 0 /\ hasEOF' = 0 /\ allowReaders' = 0 /\ allowWriters' = 1
          /\ sem' = [k \in Kind |-> [value |-> IF k = "w" THEN 1 ELSE 0, queue |-> <<>>]]
      BY <1>4 DEF Open, NewSems, Kind
    <2>2. \A u \in Thread : call[u].op \notin Kind
      BY <1>4, Calls DEF Openers
    <2>3. /\ sem'["r"] = [value |-> 0, queue |-> <<>>] /\ sem'["w"] = [value |-> 1, queue |-> <<>>]
          /\ <<>> \in Seq(Thread) /\ Len(<<>>) = 0
      BY <2>1 DEF Kind
    <2>4. sem'["r"] \in Sem /\ sem'["w"] \in Sem
      BY <2>3 DEF Sem
    <2>5. Sleepers(sem'["r"], "r", call) /\ NoToken(sem'["r"], "r", call)
      BY <2>2, <2>3, <2>4 DEF Sleepers, NoToken, In, Kind
    <2>6. Fits(sem'["r"], "r", call, 0, may) /\ ~ SomeToken(sem'["r"], "r", call)
      BY <2>5, FitsWithout
    <2>7. Fits(sem'["w"], "w", call, 1, may)
      <3>1. \A u \in Thread : ~ In(sem'["w"], "w", call, u)
        BY <2>2 DEF In, Kind
      <3> QED
        BY <2>3, <2>4, <3>1 DEF Fits, Sleepers, OneAtMost, SomeToken
    <2>8. \A k \in Kind : Fits(sem'[k], k, call', Allowed(k)', may)
      BY <1>1, <2>1, <2>6, <2>7 DEF Allowed, Kind
    <2>9. sem' \in [Kind -> Sem]
      <3>1. \A k \in Kind : sem'[k] \in Sem
        BY <2>4 DEF Kind
      <3> QED
        BY <2>1, <3>1
    <2>10. ToRead' = 0 /\ 0 \in 0 .. BufferSize - 1
      <3>1. BufferSize \in Nat \ {0}
        BY PipeAssumption
      <3>2. 0 \in 0 .. BufferSize - 1
        BY <3>1
      <3>3. (0 - 0) % BufferSize = 0
        BY <3>1, <3>2, Small
      <3> QED
        BY <2>1, <3>2, <3>3 DEF ToRead
    <2>11. Kept
      BY <1>1, <1>2, <2>1, <2>6, <2>8, <2>9, <2>10, Flags DEF Kept
    <2> QED
      BY <1>1, <1>3, <2>11, KeptIsInvariant, Flags DEF IInv, TypeOK
  <1>5. CASE Openers # {}
    <2>1. /\ hasEOF' = IF "w" \in m THEN 0 ELSE hasEOF
          /\ UNCHANGED <<writeCursor, readCursor, allowReaders, allowWriters, sem>>
      BY <1>5 DEF Open
    <2>2. hasEOF' \in {0, 1} /\ (hasEOF = 0 => hasEOF' = 0) /\ ToRead' = ToRead
      BY <2>1, Flags DEF ToRead
    <2>3. \A k \in Kind : Fits(sem'[k], k, call', Allowed(k)', may)
      BY <1>1, <2>1, Asleep DEF Allowed
    <2>4. may \subseteq {"kill"} => hasEOF' = hasEOF
      BY <1>1, <1>5, <2>1
    <2>5. may \subseteq {"kill"} /\ SomeToken(sem'["r"], "r", call') => ToRead' > 0 \/ hasEOF' = 1
      BY <1>1, <2>1, <2>2, <2>4 DEF IInv, Worth
    <2>6. Kept
      BY <1>1, <1>2, <2>1, <2>2, <2>3, <2>5, Flags DEF Kept
    <2> QED
      BY <1>1, <1>3, <2>6, KeptIsInvariant, Flags DEF IInv, TypeOK
  <1> QED
    BY <1>4, <1>5

\* A call that finds no token keeps the invariant.
LEMMA SleepKeeps ==
    ASSUME IInv, UNCHANGED may, NEW t \in Thread, NEW c \in Reads \cup Writes, Sleep(t, c)
    PROVE  IInv'
  <1>1. c.op \in Kind /\ c \in {NoCall, Dead} \cup Reads \cup Writes /\ c.op # "dead"
    BY CallFields DEF Kind
  <1>0. PICK k \in Kind : k = c.op
    BY <1>1
  <1>2. /\ call[t] = NoCall /\ k \in mode[t] /\ sem[k].value = 0
        /\ sem' = [sem EXCEPT ![k].queue = Append(@, t)]
        /\ call' = [call EXCEPT ![t] = c]
        /\ UNCHANGED <<mode, content, writeCursor, readCursor, hasEOF, allowReaders, allowWriters>>
    BY <1>0 DEF Sleep, cursors, flags
  <1>3. call \in [Thread -> {NoCall, Dead} \cup Reads \cup Writes] /\ sem \in [Kind -> Sem]
    BY Flags DEF TypeOK
  <1>4. /\ call' \in [Thread -> {NoCall, Dead} \cup Reads \cup Writes]
        /\ call'[t] = c /\ \A u \in Thread \ {t} : call'[u] = call[u]
    BY <1>1, <1>2, <1>3
  <1>5. call[t].op = "none" /\ call'[t].op = k /\ k # "dead"
    BY <1>0, <1>1, <1>2, <1>4 DEF NoCall
  <1>6. \A j \in Kind : \A i \in 1 .. Len(sem[j].queue) :
            sem[j].queue[i] # t /\ call'[sem[j].queue[i]].op \in {j, "dead"}
    BY <1>4, <1>5, Asleep DEF Kind
  <1> DEFINE q == sem[k].queue
             r == Append(q, t)
  <1>7. q \in Seq(Thread) /\ Len(q) \in Nat
    BY <1>1, Asleep
  <1>8. /\ r \in Seq(Thread) /\ Len(r) = Len(q) + 1 /\ r[Len(q) + 1] = t
        /\ \A i \in 1 .. Len(q) : r[i] = q[i]
    BY <1>7, AppendProperties
  <1>9. /\ sem'[k] = [value |-> 0, queue |-> r]
        /\ \A j \in Kind \ {k} : sem'[j] = sem[j]
        /\ DOMAIN sem' = Kind
        /\ sem' = [j \in Kind |-> sem'[j]]
    <2>1. sem[k] \in Sem
      BY <1>1, <1>3
    <2>2. sem' = [sem EXCEPT ![k] = [sem[k] EXCEPT !.queue = r]]
      BY <1>2
    <2>3. [sem[k] EXCEPT !.queue = r] = [value |-> 0, queue |-> r]
      <3>1. \A x \in Sem : \A v : x.value = 0 => [x EXCEPT !.queue = v] = [value |-> 0, queue |-> v]
        BY DEF Sem
      <3> QED
        BY <1>2, <2>1, <3>1
    <2> HIDE DEF r
    <2> QED
      BY <1>1, <1>3, <2>2, <2>3
  <1> HIDE DEF r
  <1>10. sem'[k].value = 0 /\ sem'[k].queue = r /\ sem'[k] \in Sem
    BY <1>8, <1>9 DEF Sem
  <1>11. Sleepers(sem'[k], k, call')
    <2>1. \A i \in 1 .. Len(r) : i \in 1 .. Len(q) \/ i = Len(q) + 1
      BY <1>7, <1>8
    <2>2. \A i \in 1 .. Len(r) : call'[r[i]].op \in {k, "dead"}
      BY <1>1, <1>5, <1>6, <1>8, <2>1
    <2>3. ASSUME NEW i \in 1 .. Len(r), NEW j \in 1 .. Len(r), r[i] = r[j]
          PROVE  i = j
      <3>1. \A x \in 1 .. Len(q) : r[x] = q[x] /\ r[x] # t
        BY <1>1, <1>6, <1>8
      <3>2. \A x, y \in 1 .. Len(q) : q[x] = q[y] => x = y
        BY <1>1, Asleep DEF Fits, Sleepers
      <3> QED
        BY <1>8, <2>1, <2>3, <3>1, <3>2
    <2> QED
      BY <1>10, <2>2, <2>3 DEF Sleepers
  <1>12. \A u \in Thread : In(sem'[k], k, call', u) <=> In(sem[k], k, call, u)
    <2>1. Contains(r, t)
      BY <1>7, <1>8 DEF Contains
    <2>2. \A u \in Thread \ {t} : Contains(r, u) <=> Contains(q, u)
      <3>1. \A i \in 1 .. Len(r) : i \in 1 .. Len(q) \/ i = Len(q) + 1
        BY <1>7, <1>8
      <3>2. 1 .. Len(q) \subseteq 1 .. Len(r)
        BY <1>7, <1>8
      <3> QED
        BY <1>8, <3>1, <3>2 DEF Contains
    <2> QED
      BY <1>1, <1>4, <1>5, <1>10, <2>1, <2>2 DEF In, Kind
  <1>13. Fits(sem'[k], k, call', Allowed(k), may) /\ (SomeToken(sem'[k], k, call') => SomeToken(sem[k], k, call))
    <2>1. Fits(sem[k], k, call, Allowed(k), may)
      BY <1>1, Asleep
    <2>2. SomeToken(sem'[k], k, call') <=> SomeToken(sem[k], k, call)
      BY <1>2, <1>10, <1>12 DEF SomeToken
    <2>3. OneAtMost(sem'[k], k, call')
      BY <1>10, <1>12, <2>1 DEF Fits, OneAtMost
    <2> QED
      BY <1>11, <2>1, <2>2, <2>3 DEF Fits
  <1>14. \A j \in Kind \ {k} : /\ Fits(sem'[j], j, call', Allowed(j), may)
                               /\ SomeToken(sem'[j], j, call') => SomeToken(sem[j], j, call)
    <2> SUFFICES ASSUME NEW j \in Kind \ {k}
                 PROVE  Fits(sem[j], j, call', Allowed(j), may) /\ (SomeToken(sem[j], j, call') => SomeToken(sem[j], j, call))
      BY <1>9
    <2>1. \A u \in Thread : In(sem[j], j, call', u) <=> In(sem[j], j, call, u)
      BY <1>4, <1>5 DEF In, Kind
    <2> QED
      BY <1>6, <2>1, Asleep, FitsStill
  <1>15. sem' \in [Kind -> Sem]
    BY <1>3, <1>9, <1>10
  <1>16. Kept
    <2>1. \A j \in Kind : Fits(sem'[j], j, call', Allowed(j)', may)
      BY <1>2, <1>13, <1>14 DEF Allowed
    <2>2. SomeToken(sem'["r"], "r", call') => SomeToken(sem["r"], "r", call)
      BY <1>13, <1>14 DEF Kind
    <2>3. ToRead' = ToRead
      BY <1>2 DEF ToRead
    <2>4. may \subseteq {"kill"} /\ SomeToken(sem'["r"], "r", call') => ToRead' > 0 \/ hasEOF' = 1
      BY <1>2, <2>2, <2>3 DEF IInv, Worth
    <2> QED
      BY <1>2, <1>15, <2>1, <2>3, <2>4, Flags DEF Kept
  <1>17. Callers'
    BY <1>1, <1>2, <1>4, <1>5 DEF Callers, IInv
  <1> QED
    BY <1>4, <1>16, <1>17, KeptIsInvariant, Flags

\* A call that has entered keeps the invariant, whichever its kind.
LEMMA TransferKeeps ==
    ASSUME IInv, UNCHANGED may, NEW c \in Reads \cup Writes, NEW s,
           Entered(c.op, s, call'), Transfer(c, s),
           call' \in [Thread -> {NoCall, Dead} \cup Reads \cup Writes],
           \A t \in Thread : call'[t] = NoCall \/ call'[t] = call[t]
    PROVE  IInv'
  <1>1. c.op \in Kind /\ c \in {NoCall, Dead} \cup Reads \cup Writes
    BY CallFields
  <1>2. CASE c.op = "r"
    <2>1. c.bytes \in Chunk /\ ReadBuffer(c.bytes, s)
      BY <1>1, <1>2, CallFields DEF Transfer
    <2>2. /\ sem' \in [Kind -> Sem]
          /\ \A k \in Kind : Fits(sem'[k], k, call', Allowed(k)', may)
          /\ readCursor' \in 0 .. BufferSize - 1 /\ allowReaders' \in {0, 1} /\ allowWriters' = 1
          /\ UNCHANGED <<mode, content, writeCursor, hasEOF>>
          /\ allowReaders' = 0 => ToRead' = 0 /\ hasEOF' = 0
          /\ SomeToken(sem'["r"], "r", call') => ToRead' > 0 \/ hasEOF' = 1
      BY <1>2, <2>1, Flags, ReadStep
    <2> QED
      <3>1. Kept
        BY <2>2, Flags DEF Kept
      <3>2. Callers'
        BY <2>2 DEF Callers, IInv, NoCall, Kind
      <3> QED
        BY <3>1, <3>2, KeptIsInvariant, Flags
  <1>3. CASE c.op = "w"
    <2>1. c.data \in Seq(Byte) /\ Len(c.data) \in Chunk /\ WriteBuffer(c.data, s)
      BY <1>1, <1>3, CallFields DEF Transfer
    <2>2. /\ sem' \in [Kind -> Sem]
          /\ \A k \in Kind : Fits(sem'[k], k, call', Allowed(k)', may)
          /\ writeCursor' \in 0 .. BufferSize - 1 /\ content' \in [0 .. BufferSize - 1 -> Byte]
          /\ allowReaders' = 1 /\ allowWriters' \in {0, 1}
          /\ UNCHANGED <<mode, readCursor, hasEOF>>
          /\ "fill" \notin may => allowWriters' = 1 /\ ToRead' > 0
      BY <1>3, <2>1, Flags, WriteStep
    <2> QED
      <3>1. Kept
        BY <2>2, Flags DEF Kept
      <3>2. Callers'
        BY <2>2 DEF Callers, IInv, NoCall, Kind
      <3> QED
        BY <3>1, <3>2, KeptIsInvariant, Flags
  <1> QED
    BY <1>1, <1>2, <1>3 DEF Kind

\* So does a call that finds a token.
LEMMA PassKeeps ==
    ASSUME IInv, UNCHANGED may, NEW t \in Thread, NEW c \in Reads \cup Writes, Pass(t, c)
    PROVE  IInv'
  <1>1. PICK k \in Kind : k = c.op
    BY CallFields
  <1> DEFINE s == [sem EXCEPT ![k].value = @ - 1]
  <1>2. sem[k].value > 0 /\ Transfer(c, s) /\ call' = call
    BY <1>1 DEF Pass
  <1>3. sem \in [Kind -> Sem] /\ \A j \in Kind : Fits(sem[j], j, call, Allowed(j), may)
    BY Flags, Asleep
  <1>4. sem[k] \in Sem /\ sem[k].value = 1 /\ sem[k].queue = <<>>
    BY <1>2, <1>3 DEF Sem, Fits, Sleepers
  <1>5. s[k] = [value |-> 0, queue |-> <<>>] /\ \A j \in Kind \ {k} : s[j] = sem[j]
    <2>1. \A x \in Sem : [x EXCEPT !.value = x.value - 1] = [value |-> x.value - 1, queue |-> x.queue]
      BY DEF Sem
    <2>2. [sem[k] EXCEPT !.value = sem[k].value - 1] = [value |-> 0, queue |-> <<>>]
      BY <1>4, <2>1
    <2> QED
      BY <1>3, <2>2
  <1>6. [value |-> 0, queue |-> <<>>] \in Sem
    BY EmptySeq DEF Sem
  <1>7. s \in [Kind -> Sem]
    BY <1>3, <1>5, <1>6
  <1> HIDE DEF s
  <1>8. s[k].value = 0 /\ s[k].queue = <<>> /\ s[k] \in Sem
    BY <1>5, <1>6
  <1>9. \A u \in Thread : ~ In(s[k], k, call, u)
    <2>1. \A u \in Thread : ~ In(sem[k], k, call, u)
      BY <1>3, <1>4 DEF Fits, OneAtMost
    <2> QED
      BY <1>4, <1>8, <2>1 DEF In
  <1>10. Entered(k, s, call')
    <2>1. Sleepers(s[k], k, call) /\ NoToken(s[k], k, call)
      BY <1>3, <1>4, <1>8, <1>9 DEF Fits, Sleepers, NoToken
    <2>2. Allowed(k) = 1
      BY <1>3, <1>4 DEF Fits, SomeToken
    <2>3. \A u \in Thread : call[u].op = "dead" <=> call[u] = Dead
      BY Calls
    <2>4. \A o \in Kind \ {k} : Fits(s[o], o, call, Allowed(o), may)
      BY <1>3, <1>5
    <2> QED
      BY <1>2, <1>7, <2>1, <2>2, <2>3, <2>4 DEF Entered
  <1> QED
    BY <1>1, <1>2, <1>10, Flags, TransferKeeps DEF TypeOK

\* And one that was let in.
LEMMA ResumeKeeps ==
    ASSUME IInv, UNCHANGED may, NEW t \in Thread, Resume(t)
    PROVE  IInv'
  <1>1. PICK k \in Kind : call[t].op = k /\ ~ Contains(sem[k].queue, t)
    BY DEF Resume, Admitted, Kind
  <1>2. call' = [call EXCEPT ![t] = NoCall] /\ Transfer(call[t], sem)
    BY DEF Resume
  <1>3. call \in [Thread -> {NoCall, Dead} \cup Reads \cup Writes] /\ call[t] \in Reads \cup Writes
    BY <1>1, Calls, CallFields DEF IInv, TypeOK
  <1>4. /\ call' \in [Thread -> {NoCall, Dead} \cup Reads \cup Writes]
        /\ call'[t] = NoCall /\ call'[t].op = "none" /\ \A u \in Thread \ {t} : call'[u] = call[u]
    BY <1>2, <1>3 DEF NoCall
  <1>5. ASSUME NEW j \in Kind
        PROVE  /\ \A i \in 1 .. Len(sem[j].queue) :
                     sem[j].queue[i] # t /\ call'[sem[j].queue[i]].op \in {j, "dead"}
               /\ \A u \in Thread : In(sem[j], j, call', u) <=> u # t /\ In(sem[j], j, call, u)
    <2>1. ASSUME NEW i \in 1 .. Len(sem[j].queue)
          PROVE  sem[j].queue[i] # t
      BY <1>1, Asleep DEF Contains, Kind
    <2>2. \A i \in 1 .. Len(sem[j].queue) : call'[sem[j].queue[i]].op \in {j, "dead"}
      BY <1>4, <2>1, Asleep
    <2>3. \A u \in Thread : In(sem[j], j, call', u) <=> u # t /\ In(sem[j], j, call, u)
      BY <1>4 DEF In, Kind
    <2> QED
      BY <2>1, <2>2, <2>3
  <1>6. In(sem[k], k, call, t) /\ Fits(sem[k], k, call, Allowed(k), may)
    BY <1>1, Asleep DEF In
  <1>7. Sleepers(sem[k], k, call') /\ NoToken(sem[k], k, call')
    BY <1>5, <1>6 DEF Fits, Sleepers, OneAtMost, NoToken
  <1>8. Allowed(k) = 1
    BY <1>6 DEF Fits, SomeToken
  <1>9. \A o \in Kind \ {k} : Fits(sem[o], o, call', Allowed(o), may)
    <2> SUFFICES ASSUME NEW o \in Kind \ {k}
                 PROVE  Fits(sem[o], o, call', Allowed(o), may)
      OBVIOUS
    <2>1. \A u \in Thread : In(sem[o], o, call', u) <=> In(sem[o], o, call, u)
      BY <1>1, <1>5 DEF In
    <2> QED
      BY <1>5, <2>1, Asleep, FitsStill
  <1>10. \A u \in Thread : call'[u].op = "dead" <=> call[u] = Dead
    <2>1. call[t] # Dead
      BY <1>1, Calls DEF Kind
    <2> QED
      BY <1>4, <2>1, Calls
  <1>11. Entered(k, sem, call')
    BY <1>7, <1>8, <1>9, <1>10, Flags DEF Entered
  <1> QED
    BY <1>1, <1>2, <1>3, <1>4, <1>11, TransferKeeps

-----------------------------------------------------------------------------
\* The buffer as openBuffer leaves it fits the invariant.
LEMMA InitInvariant == Init => IInv
  <1> SUFFICES ASSUME Init PROVE IInv
    OBVIOUS
  <1>1. /\ may \in Scenarios /\ mode = [t \in Thread |-> {}] /\ call = [t \in Thread |-> NoCall]
        /\ content \in {[i \in 0 .. BufferSize - 1 |-> b] : b \in Byte}
        /\ writeCursor = 0 /\ readCursor = 0 /\ hasEOF = 0 /\ allowReaders = 0 /\ allowWriters = 1
        /\ sem = [k \in Kind |-> [value |-> IF k = "w" THEN 1 ELSE 0, queue |-> <<>>]]
    BY DEF Init, NewSems, Kind
  <1>2. /\ sem["r"] = [value |-> 0, queue |-> <<>>] /\ sem["w"] = [value |-> 1, queue |-> <<>>]
        /\ <<>> \in Seq(Thread) /\ Len(<<>>) = 0
    BY <1>1 DEF Kind
  <1>3. sem["r"] \in Sem /\ sem["w"] \in Sem
    BY <1>2 DEF Sem
  <1>4. \A u \in Thread : call[u] = NoCall /\ call[u].op = "none" /\ mode[u] = {}
    BY <1>1 DEF NoCall
  <1>5. Sleepers(sem["r"], "r", call) /\ NoToken(sem["r"], "r", call)
    BY <1>2, <1>3, <1>4 DEF Sleepers, NoToken, In
  <1>6. Fits(sem["r"], "r", call, 0, may) /\ ~ SomeToken(sem["r"], "r", call)
    BY <1>5, FitsWithout
  <1>7. Fits(sem["w"], "w", call, 1, may)
    <2>1. \A u \in Thread : ~ In(sem["w"], "w", call, u)
      BY <1>4 DEF In
    <2> QED
      BY <1>2, <1>3, <2>1 DEF Fits, Sleepers, OneAtMost, SomeToken
  <1>8. Tokens
    BY <1>1, <1>6, <1>7 DEF Tokens, Allowed, Kind
  <1>9. sem \in [Kind -> Sem]
    <2>1. \A k \in Kind : sem[k] \in Sem
      BY <1>3 DEF Kind
    <2> QED
      BY <1>1, <2>1
  <1>10. BufferSize \in Nat \ {0} /\ 0 \in 0 .. BufferSize - 1
    BY PipeAssumption
  <1>11. ToRead = 0
    <2>1. (0 - 0) % BufferSize = 0
      BY <1>10, Small
    <2> QED
      BY <1>1, <2>1 DEF ToRead
  <1>12. TypeOK
    <2>1. \A k \in {"r", "w"} : sem[k].value \in {0, 1} /\ sem[k].queue \in Seq(Thread)
      BY <1>9 DEF Sem, Kind
    <2>2. content \in [0 .. BufferSize - 1 -> Byte]
      BY <1>1
    <2> QED
      BY <1>1, <1>10, <2>1, <2>2 DEF TypeOK
  <1>13. Callers
    BY <1>4 DEF Callers, Kind
  <1>14. Shut /\ Worth
    BY <1>1, <1>6, <1>11 DEF Shut, Worth
  <1> QED
    BY <1>8, <1>9, <1>12, <1>13, <1>14 DEF IInv

\* So does every step.
LEMMA NextKeeps == IInv /\ [Next]_vars => IInv'
  <1> SUFFICES ASSUME IInv, [Next]_vars PROVE IInv'
    OBVIOUS
  <1>1. CASE Next
    <2>1. PICK t \in Thread : UNCHANGED may /\ Step(t)
      BY <1>1 DEF Next
    <2>2. ASSUME NEW m \in SUBSET {"r", "w"}, Open(t, m)
          PROVE  IInv'
      BY <2>1, <2>2, OpenKeeps
    <2>3. CASE Close(t)
      BY <2>1, <2>3, CloseKeeps
    <2>4. CASE Kill(t)
      BY <2>1, <2>4, KillKeeps
    <2>5. ASSUME NEW c \in Reads \cup Writes, Pass(t, c)
          PROVE  IInv'
      BY <2>1, <2>5, PassKeeps
    <2>6. ASSUME NEW c \in Reads \cup Writes, Sleep(t, c)
          PROVE  IInv'
      BY <2>1, <2>6, SleepKeeps
    <2>7. CASE Resume(t)
      BY <2>1, <2>7, ResumeKeeps
    <2> QED
      BY <2>1, <2>2, <2>3, <2>4, <2>5, <2>6, <2>7 DEF Step
  <1>2. CASE UNCHANGED vars
    BY <1>2 DEF vars, cursors, flags, IInv, TypeOK, Tokens, Callers, Shut, Worth, Allowed, ToRead
  <1> QED
    BY <1>1, <1>2

\* The inductive invariant of a buffer: its types, its tokens, who may have one and what for.
THEOREM Invariance == Spec => []IInv
  <1>1. Init => IInv
    BY InitInvariant
  <1>2. IInv /\ [Next]_vars => IInv'
    BY NextKeeps
  <1> QED
    BY <1>1, <1>2, PTL DEF Spec

\* ReadsExact of Pipe: unless the buffer is filled up or reopened for writing, a read that
\* sem_wait lets in finds bytes or the end of file, whatever the calls, the kills and the
\* buffer's size.
THEOREM ReadersRight == Spec => []ReadsExact
  <1>1. IInv => ReadsExact
    <2> SUFFICES ASSUME IInv, may \subseteq {"kill"},
                        sem["r"].value > 0 \/ \E t \in Thread : Admitted(t, "r")
                 PROVE  ToRead > 0 \/ hasEOF = 1
      BY DEF ReadsExact, NoEmptyRead, IInv
    <2>1. sem["r"].value \in {0, 1}
      BY DEF IInv, TypeOK
    <2>2. SomeToken(sem["r"], "r", call)
      BY <2>1 DEF SomeToken, In, Admitted
    <2> QED
      BY <2>2 DEF IInv, Worth
  <1> QED
    BY <1>1, Invariance, PTL

\* NoStuckCall of Pipe: unless a process is killed on its way in, nobody sleeps beside bytes
\* to read, an end of file or room to write.
THEOREM NobodyStuck == Spec => []NoStuckCall
  <1>1. IInv => NoStuckCall
    <2> SUFFICES ASSUME IInv, "kill" \notin may
                 PROVE  NoStuckReader /\ NoStuckWriter
      BY DEF NoStuckCall
    <2>1. ASSUME NEW k \in Kind, NEW t \in Thread, call[t].op = k, ~ Admitted(t, k), Allowed(k) = 1
          PROVE  \E u \in Thread : Admitted(u, k)
      <3>1. Contains(sem[k].queue, t)
        BY <2>1 DEF Admitted
      <3>2. Len(sem[k].queue) # 0
        BY <3>1, Asleep DEF Contains
      <3>3. sem[k].value # 1
        BY <3>2, Asleep DEF Fits, Sleepers
      <3>4. SomeToken(sem[k], k, call)
        BY <2>1, Asleep DEF Fits
      <3> QED
        BY <3>3, <3>4 DEF SomeToken, In, Admitted
    <2>2. NoStuckWriter
      BY <2>1, Flags DEF NoStuckWriter, Allowed, Kind
    <2>3. NoStuckReader
      <3> SUFFICES ASSUME NEW t \in Thread, call[t].op = "r", ~ Admitted(t, "r"),
                          ~ \E u \in Thread : Admitted(u, "r")
                   PROVE  Stored = <<>> /\ hasEOF = 0
        BY DEF NoStuckReader
      <3>1. allowReaders = 0
        BY <2>1, Flags DEF Allowed, Kind
      <3>2. ToRead = 0 /\ hasEOF = 0 /\ allowWriters = 1
        BY <3>1, Flags
      <3>3. Stored = <<>>
        BY <3>2 DEF Stored
      <3> QED
        BY <3>2, <3>3
    <2> QED
      BY <2>2, <2>3
  <1> QED
    BY <1>1, Invariance, PTL

-----------------------------------------------------------------------------
\* Where the i-th byte of the buffer is.
Place(r, i) == (r + i - 1) % BufferSize

\* It is in the buffer, and at most once round from the cursor.
LEMMA PlaceIs ==
    ASSUME NEW r \in 0 .. BufferSize - 1, NEW i \in 1 .. BufferSize
    PROVE  /\ Place(r, i) \in 0 .. BufferSize - 1
           /\ Place(r, i) = IF r + i - 1 < BufferSize THEN r + i - 1 ELSE r + i - 1 - BufferSize
  <1>1. BufferSize \in Nat \ {0} /\ i - 1 \in 0 .. BufferSize /\ r + (i - 1) = r + i - 1
    BY PipeAssumption
  <1> QED
    BY <1>1, Forward DEF Place

\* The bytes a reader leaves keep their places.
LEMMA PlaceTaken ==
    ASSUME NEW r \in 0 .. BufferSize - 1, NEW k \in 0 .. BufferSize, NEW i \in 1 .. BufferSize - k
    PROVE  Place((r + k) % BufferSize, i) = Place(r, k + i)
  <1>1. BufferSize \in Nat \ {0}
    BY PipeAssumption
  <1>2. /\ (r + k) % BufferSize = IF r + k < BufferSize THEN r + k ELSE r + k - BufferSize
        /\ (r + k) % BufferSize \in 0 .. BufferSize - 1
    BY <1>1, Forward
  <1>3. i \in 1 .. BufferSize /\ k + i \in 1 .. BufferSize
    BY <1>1
  <1>4. Place((r + k) % BufferSize, i) = IF ((r + k) % BufferSize) + i - 1 < BufferSize
                                         THEN ((r + k) % BufferSize) + i - 1
                                         ELSE ((r + k) % BufferSize) + i - 1 - BufferSize
    BY <1>2, <1>3, PlaceIs
  <1>5. Place(r, k + i) = IF r + (k + i) - 1 < BufferSize THEN r + (k + i) - 1
                          ELSE r + (k + i) - 1 - BufferSize
    BY <1>3, PlaceIs
  <1> QED
    BY <1>1, <1>2, <1>3, <1>4, <1>5

\* A writer begins where the bytes end: how far from there the i-th place is.
LEMMA PlacePut ==
    ASSUME TypeOK, NEW i \in 1 .. BufferSize
    PROVE  (Place(readCursor, i) - writeCursor) % BufferSize =
              IF i <= ToRead THEN i - 1 - ToRead + BufferSize ELSE i - 1 - ToRead
  <1>1. /\ BufferSize \in Nat \ {0}
        /\ readCursor \in 0 .. BufferSize - 1 /\ writeCursor \in 0 .. BufferSize - 1
    BY PipeAssumption DEF TypeOK
  <1>2. ToRead = IF writeCursor < readCursor THEN writeCursor - readCursor + BufferSize
                 ELSE writeCursor - readCursor
    BY <1>1, Distance DEF ToRead
  <1>3. /\ Place(readCursor, i) \in 0 .. BufferSize - 1
        /\ Place(readCursor, i) = IF readCursor + i - 1 < BufferSize THEN readCursor + i - 1
                                  ELSE readCursor + i - 1 - BufferSize
    BY <1>1, PlaceIs
  <1>4. (Place(readCursor, i) - writeCursor) % BufferSize =
           IF Place(readCursor, i) < writeCursor THEN Place(readCursor, i) - writeCursor + BufferSize
           ELSE Place(readCursor, i) - writeCursor
    BY <1>1, <1>3, Distance
  <1> QED
    BY <1>1, <1>2, <1>3, <1>4

\* A buffer that somebody has open, and that is not full, stores the bytes between its cursors.
NotFull == TypeOK /\ allowWriters = 1 /\ Openers # {}
StoredExact ==
    /\ Stored \in Seq(Byte) /\ Len(Stored) = ToRead
    /\ \A i \in 1 .. ToRead : Stored[i] = content[Place(readCursor, i)]

\* Its bytes are a sequence, in the order of the cursors.
LEMMA StoredIs == NotFull => StoredExact
  <1> SUFFICES ASSUME NotFull PROVE StoredExact
    OBVIOUS
  <1> USE DEF NotFull
  <1>1. Stored = [i \in 1 .. ToRead |-> content[Place(readCursor, i)]]
    BY DEF Stored, Place
  <1>2. ToRead \in Nat /\ \A i \in 1 .. ToRead : i \in 1 .. BufferSize
    BY Room, PipeAssumption
  <1>3. \A i \in 1 .. ToRead : content[Place(readCursor, i)] \in Byte
    BY <1>2, PlaceIs DEF TypeOK
  <1>4. Stored \in [1 .. ToRead -> Byte]
    BY <1>1, <1>3
  <1>5. Stored \in Seq(Byte) /\ Len(Stored) = ToRead
    BY <1>2, <1>4
  <1> QED
    BY <1>1, <1>5 DEF StoredExact

\* And so after a step.
LEMMA StoredIsNext == NotFull' => StoredExact'
  BY StoredIs, PTL

\* A reader takes the front of the queue, or finds it empty.
LEMMA ReadIsRead ==
    ASSUME TypeOK, TypeOK', UNCHANGED <<mode, content, writeCursor>>, Openers # {},
           allowWriters = 1, allowWriters' = 1, NEW k \in 0 .. ToRead,
           readCursor' = (readCursor + k) % BufferSize
    PROVE  \/ UNCHANGED Stored
           \/ \E n \in 1 .. Len(Stored) : Stored' = SubSeq(Stored, n + 1, Len(Stored))
  <1>1. /\ Stored \in Seq(Byte) /\ Len(Stored) = ToRead
        /\ \A i \in 1 .. ToRead : Stored[i] = content[Place(readCursor, i)]
    BY StoredIs DEF NotFull, StoredExact
  <1>2. Openers' # {} /\ ToRead' = ToRead - k /\ content' = content
    BY Taken DEF Openers
  <1>3. NotFull'
    BY <1>2 DEF NotFull
  <1>4. /\ Stored' \in Seq(Byte) /\ Len(Stored') = ToRead'
        /\ \A i \in 1 .. ToRead' : Stored'[i] = content'[Place(readCursor', i)]
    BY <1>3, StoredIsNext DEF StoredExact
  <1>5. ToRead \in 0 .. BufferSize - 1 /\ BufferSize \in Nat \ {0} /\ readCursor \in 0 .. BufferSize - 1
    BY Room, PipeAssumption DEF TypeOK
  <1>6. ASSUME NEW i \in 1 .. ToRead - k
        PROVE  Stored'[i] = Stored[k + i]
    <2>1. k \in 0 .. BufferSize /\ i \in 1 .. BufferSize - k /\ k + i \in 1 .. ToRead
      BY <1>5
    <2>2. Place(readCursor', i) = Place(readCursor, k + i)
      BY <1>5, <2>1, PlaceTaken
    <2> QED
      BY <1>1, <1>2, <1>4, <2>1, <2>2
  <1>7. CASE k = 0
    <2>1. Len(Stored') = Len(Stored) /\ \A i \in 1 .. Len(Stored) : Stored'[i] = Stored[i]
      BY <1>1, <1>2, <1>4, <1>5, <1>6, <1>7
    <2> QED
      BY <1>1, <1>4, <2>1, SeqEqual
  <1>8. CASE k # 0
    <2> DEFINE rest == SubSeq(Stored, k + 1, Len(Stored))
    <2>1. k \in 1 .. Len(Stored) /\ k + 1 \in Int /\ Len(Stored) \in Int
      BY <1>1, <1>5, <1>8
    <2>2. \A i \in k + 1 .. Len(Stored) : Stored[i] \in Byte
      BY <1>1, <2>1
    <2>3. /\ rest \in Seq(Byte)
          /\ Len(rest) = IF k + 1 <= Len(Stored) THEN Len(Stored) - (k + 1) + 1 ELSE 0
          /\ \A i \in 1 .. Len(Stored) - (k + 1) + 1 : rest[i] = Stored[k + 1 + i - 1]
      BY <2>1, <2>2, SubSeqProperties
    <2> HIDE DEF rest
    <2>4. Len(rest) = ToRead - k
      BY <1>1, <2>1, <2>3
    <2>5. ASSUME NEW i \in 1 .. ToRead - k
          PROVE  rest[i] = Stored[k + i]
      <3>1. i \in 1 .. Len(Stored) - (k + 1) + 1 /\ k + 1 + i - 1 = k + i
        BY <1>1, <2>1
      <3> QED
        BY <2>3, <3>1
    <2>6. Stored' = rest
      BY <1>2, <1>4, <1>6, <2>3, <2>4, <2>5, SeqEqual
    <2> QED
      BY <2>1, <2>6 DEF rest
  <1> QED
    BY <1>7, <1>8

\* A writer adds bytes at the end.
LEMMA WriteIsWrite ==
    ASSUME TypeOK, TypeOK', UNCHANGED <<mode, readCursor>>, Openers # {},
           allowWriters = 1, allowWriters' = 1,
           NEW data \in Seq(Byte), NEW k \in 1 .. Len(data), k < ToWrite,
           writeCursor' = (writeCursor + k) % BufferSize,
           content' = [i \in 0 .. BufferSize - 1 |->
                         IF (i - writeCursor) % BufferSize < k
                         THEN data[((i - writeCursor) % BufferSize) + 1] ELSE content[i]]
    PROVE  \E n \in 1 .. BufferSize - Len(Stored) : \E s \in [1 .. n -> Byte] : Stored' = Stored \o s
  <1> DEFINE s == SubSeq(data, 1, k)
  <1>1. /\ Stored \in Seq(Byte) /\ Len(Stored) = ToRead
        /\ \A i \in 1 .. ToRead : Stored[i] = content[Place(readCursor, i)]
    BY StoredIs DEF NotFull, StoredExact
  <1>2. /\ BufferSize \in Nat \ {0} /\ readCursor \in 0 .. BufferSize - 1
        /\ ToRead \in 0 .. BufferSize - 1 /\ ToRead + ToWrite = BufferSize /\ ToWrite \in 1 .. BufferSize
        /\ Len(data) \in Nat
    BY Room, PipeAssumption DEF TypeOK
  <1>3. Openers' # {} /\ ToRead' = ToRead + k
    <2>1. k \in 0 .. ToWrite
      BY <1>2
    <2> QED
      BY <2>1, Put DEF Openers
  <1>4. NotFull'
    BY <1>3 DEF NotFull
  <1>5. /\ Stored' \in Seq(Byte) /\ Len(Stored') = ToRead'
        /\ \A i \in 1 .. ToRead' : Stored'[i] = content'[Place(readCursor', i)]
    BY <1>4, StoredIsNext DEF StoredExact
  <1>6. s \in Seq(Byte) /\ Len(s) = k /\ \A i \in 1 .. k : s[i] = data[i]
    <2>1. \A i \in 1 .. k : data[i] \in Byte
      BY <1>2
    <2>2. /\ s \in Seq(Byte) /\ Len(s) = IF 1 <= k THEN k - 1 + 1 ELSE 0
          /\ \A i \in 1 .. k - 1 + 1 : s[i] = data[1 + i - 1]
      BY <1>2, <2>1, SubSeqProperties
    <2>3. k - 1 + 1 = k /\ \A i \in Int : 1 + i - 1 = i
      BY <1>2
    <2> HIDE DEF s
    <2> QED
      BY <1>2, <2>2, <2>3
  <1> HIDE DEF s
  <1>7. /\ Stored \o s \in Seq(Byte) /\ Len(Stored \o s) = ToRead + k
        /\ \A i \in 1 .. ToRead + k : (Stored \o s)[i] = IF i <= ToRead THEN Stored[i] ELSE s[i - ToRead]
    BY <1>1, <1>6, ConcatProperties
  <1>8. ASSUME NEW i \in 1 .. ToRead + k
        PROVE  Stored'[i] = (Stored \o s)[i]
    <2> DEFINE p == Place(readCursor, i)
               far == (p - writeCursor) % BufferSize
    <2>1. i \in 1 .. BufferSize /\ i \in Int
      BY <1>2
    <2>2. p \in 0 .. BufferSize - 1
      BY <1>2, <2>1, PlaceIs
    <2>3. far = IF i <= ToRead THEN i - 1 - ToRead + BufferSize ELSE i - 1 - ToRead
      BY <2>1, PlacePut
    <2>4. Stored'[i] = IF far < k THEN data[far + 1] ELSE content[p]
      BY <1>3, <1>5, <2>2
    <2> HIDE DEF p, far
    <2>5. CASE i <= ToRead
      <3>1. ~ far < k /\ i \in 1 .. ToRead
        BY <1>2, <2>1, <2>3, <2>5
      <3> QED
        BY <1>1, <1>7, <2>4, <2>5, <3>1 DEF p
    <2>6. CASE ~ i <= ToRead
      <3>1. far + 1 = i - ToRead /\ i - ToRead \in 1 .. k /\ far < k
        BY <1>2, <2>1, <2>3, <2>6
      <3> QED
        BY <1>6, <1>7, <2>4, <2>6, <3>1
    <2> QED
      BY <2>5, <2>6
  <1>9. Stored' = Stored \o s
    BY <1>3, <1>5, <1>7, <1>8, SeqEqual
  <1>10. k \in 1 .. BufferSize - Len(Stored) /\ s \in [1 .. k -> Byte]
    BY <1>1, <1>2, <1>6, LenProperties
  <1> QED
    BY <1>9, <1>10

-----------------------------------------------------------------------------
\* Nobody has the buffer open at first: it is the closed queue.
LEMMA InitIsInit == Init => Q!Init
  <1> SUFFICES ASSUME Init PROVE Q!Init
    OBVIOUS
  <1>1. Openers = {}
    BY DEF Init, Openers
  <1> QED
    BY <1>1 DEF Q!Init, Stored

\* A step in which nobody reads or writes and the buffer stays open is none of the queue.
LEMMA IdleIsIdle ==
    ASSUME UNCHANGED <<content, writeCursor, readCursor, allowWriters>>, Openers # {}, Openers' # {}
    PROVE  UNCHANGED <<Stored, Openers # {}>>
  BY DEF Stored, ToRead

\* A step that closes the buffer for the last opener drops what it stores.
LEMMA CloseIsClose ==
    ASSUME NEW t \in Thread, NEW dead, mode[t] # {}, CloseFile(t, dead)
    PROVE  Q!Next \/ UNCHANGED <<Stored, Openers # {}>>
  <1>1. Openers # {} /\ UNCHANGED <<content, writeCursor, readCursor, allowWriters>>
    BY DEF Openers, CloseFile, cursors
  <1>2. CASE Openers' = {}
    <2>1. Stored' = <<>>
      BY <1>2 DEF Stored
    <2> QED
      BY <1>1, <1>2, <2>1 DEF Q!Next, Q!Close
  <1> QED
    BY <1>1, <1>2, IdleIsIdle

\* Who opens a closed buffer finds it empty.
LEMMA OpenIsOpen ==
    ASSUME NEW t \in Thread, NEW m \in SUBSET {"r", "w"}, Open(t, m), TypeOK
    PROVE  Q!Next \/ UNCHANGED <<Stored, Openers # {}>>
  <1>1. mode' = [mode EXCEPT ![t] = m] /\ m # {} /\ content' = content
    BY DEF Open
  <1>2. Openers' # {}
    BY <1>1 DEF Openers, TypeOK
  <1>3. CASE Openers = {}
    <2>1. writeCursor' = 0 /\ readCursor' = 0 /\ allowWriters' = 1
      BY <1>3 DEF Open
    <2>2. ToRead' = 0
      <3>1. BufferSize \in Nat \ {0}
        BY PipeAssumption
      <3>2. 0 \in 0 .. BufferSize - 1
        BY <3>1
      <3>3. (0 - 0) % BufferSize = 0
        BY <3>1, <3>2, Small
      <3> QED
        BY <2>1, <3>3 DEF ToRead
    <2>3. Stored = <<>> /\ Stored' = <<>>
      BY <1>2, <1>3, <2>1, <2>2 DEF Stored
    <2> QED
      BY <1>2, <1>3, <2>3 DEF Q!Next, Q!Open
  <1>4. CASE Openers # {}
    BY <1>1, <1>2, <1>4, IdleIsIdle DEF Open
  <1> QED
    BY <1>3, <1>4

\* A call that has entered reads or writes.
LEMMA TransferIsTransfer ==
    ASSUME IInv, IInv', UNCHANGED may, "fill" \notin may,
           NEW t \in Thread, NEW c \in Reads \cup Writes, c.op \in mode[t], NEW s, Transfer(c, s)
    PROVE  Q!Next \/ UNCHANGED <<Stored, Openers # {}>>
  <1>1. allowWriters = 1 /\ allowWriters' = 1 /\ TypeOK /\ TypeOK' /\ Openers # {}
    BY DEF IInv, Shut, Openers
  <1>2. c.op \in Kind /\ c \in {NoCall, Dead} \cup Reads \cup Writes
    BY CallFields
  <1>3. CASE c.op = "r"
    <2> DEFINE k == Smaller(c.bytes, ToRead)
    <2>1. /\ readCursor' = (readCursor + k) % BufferSize
          /\ UNCHANGED <<mode, content, writeCursor>>
      BY <1>2, <1>3, CallFields DEF Transfer, ReadBuffer, TakeBytes
    <2>2. k \in 0 .. ToRead
      <3>1. c.bytes \in Nat /\ ToRead \in Nat
        <4>1. c.bytes \in Chunk
          BY <1>2, <1>3, CallFields
        <4>2. c.bytes \in Nat
          BY <4>1, PipeAssumption
        <4>3. BufferSize \in Nat /\ ToRead \in 0 .. BufferSize - 1
          BY <1>1, Room, PipeAssumption
        <4> QED
          BY <4>2, <4>3
      <3> QED
        BY <3>1 DEF Smaller
    <2> HIDE DEF k
    <2>3. \/ UNCHANGED Stored
          \/ \E n \in 1 .. Len(Stored) : Stored' = SubSeq(Stored, n + 1, Len(Stored))
      BY <1>1, <2>1, <2>2, ReadIsRead
    <2>4. Openers' = Openers
      BY <2>1 DEF Openers
    <2> QED
      BY <1>1, <2>3, <2>4 DEF Q!Next, Q!Read
  <1>4. CASE c.op = "w"
    <2> DEFINE k == Smaller(Len(c.data), ToWrite)
    <2>1. /\ k < ToWrite
          /\ writeCursor' = (writeCursor + k) % BufferSize
          /\ content' = [i \in 0 .. BufferSize - 1 |->
                           IF (i - writeCursor) % BufferSize < k
                           THEN c.data[((i - writeCursor) % BufferSize) + 1] ELSE content[i]]
          /\ UNCHANGED <<mode, readCursor>>
      BY <1>2, <1>4, CallFields DEF Transfer, WriteBuffer, PutBytes
    <2>2. c.data \in Seq(Byte) /\ k \in 1 .. Len(c.data)
      BY <1>1, <1>2, <1>4, CallFields, Room, PipeAssumption DEF Smaller
    <2> HIDE DEF k
    <2>3. \E n \in 1 .. BufferSize - Len(Stored) : \E q \in [1 .. n -> Byte] : Stored' = Stored \o q
      BY <1>1, <2>1, <2>2, WriteIsWrite
    <2>4. Openers' = Openers
      BY <2>1 DEF Openers
    <2> QED
      BY <1>1, <2>3, <2>4 DEF Q!Next, Q!Write
  <1> QED
    BY <1>2, <1>3, <1>4 DEF Kind

\* Every step is one of the queue, or none.
LEMMA StepIsStep ==
    IInv /\ IInv' /\ [Next]_vars => ["fill" \notin may => Q!Next]_<<Stored, Openers # {}>>
  <1> SUFFICES ASSUME IInv, IInv', [Next]_vars, "fill" \notin may
               PROVE  Q!Next \/ UNCHANGED <<Stored, Openers # {}>>
    OBVIOUS
  <1>1. CASE Next
    <2>1. PICK t \in Thread : UNCHANGED may /\ Step(t)
      BY <1>1 DEF Next
    <2>2. ASSUME NEW m \in SUBSET {"r", "w"}, Open(t, m)
          PROVE  Q!Next \/ UNCHANGED <<Stored, Openers # {}>>
      BY <2>2, OpenIsOpen DEF IInv
    <2>3. CASE Close(t)
      BY <2>3, CloseIsClose DEF Close
    <2>4. CASE Kill(t)
      BY <2>4, CloseIsClose DEF Kill
    <2>5. ASSUME NEW c \in Reads \cup Writes, Pass(t, c)
          PROVE  Q!Next \/ UNCHANGED <<Stored, Openers # {}>>
      BY <2>1, <2>5, TransferIsTransfer DEF Pass
    <2>6. ASSUME NEW c \in Reads \cup Writes, Sleep(t, c)
          PROVE  Q!Next \/ UNCHANGED <<Stored, Openers # {}>>
      <3>1. c.op \in mode[t] /\ UNCHANGED <<mode, content, writeCursor, readCursor, allowWriters>>
        BY <2>6 DEF Sleep, cursors, flags
      <3>2. Openers # {} /\ Openers' # {}
        BY <3>1 DEF Openers
      <3> QED
        BY <3>1, <3>2, IdleIsIdle
    <2>7. CASE Resume(t)
      <3>1. PICK k \in Kind : call[t].op = k
        BY <2>7 DEF Resume, Admitted, Kind
      <3>2. call[t] \in Reads \cup Writes /\ call[t].op \in mode[t]
        BY <3>1, Calls, CallFields
      <3>3. Transfer(call[t], sem)
        BY <2>7 DEF Resume
      <3> QED
        BY <2>1, <3>2, <3>3, TransferIsTransfer
    <2> QED
      BY <2>1, <2>2, <2>3, <2>4, <2>5, <2>6, <2>7 DEF Step
  <1>2. CASE UNCHANGED vars
    BY <1>2 DEF vars, cursors, flags, Stored, Openers, ToRead
  <1> QED
    BY <1>1, <1>2

\* ImplementsQueue of Pipe: unless it is filled up, a buffer is a bounded queue of bytes:
\* what is read is what was written, in its order, whatever the calls and the kills.
THEOREM BufferIsQueue == Spec => ImplementsQueue
  <1>1. Init => Q!Init
    BY InitIsInit
  <1>2. IInv /\ IInv' /\ [Next]_vars => ["fill" \notin may => Q!Next]_<<Stored, Openers # {}>>
    BY StepIsStep
  <1> QED
    BY <1>1, <1>2, Invariance, PTL DEF Spec, ImplementsQueue
=============================================================================
