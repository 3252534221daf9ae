-------------------------------- MODULE Pipe --------------------------------
(***************************************************************************)
(* One buffer of the Leah file system (a pipe or /dev/stdin): openFile,    *)
(* closeFile, readBuffer and writeBuffer of fileSystem.c.                  *)
(*                                                                         *)
(* Each thread stands for a process with one descriptor on the buffer.  A  *)
(* system call is one step, or two if its sem_wait sleeps.  The buffer's   *)
(* mutex is left out: nothing sleeps between its lock and its unlock, so   *)
(* that no thread ever finds it taken.                                     *)
(***************************************************************************)
EXTENDS Integers, SequencesExt

CONSTANTS Thread,
          Byte,
          BufferSize,  \* BUFFER_SIZE
          Chunk,       \* bound: how many bytes a call asks for
          Scenarios    \* what may happen in a behaviour, one of these sets:
                       \*   "fill"    writers fill the buffer to the last byte
                       \*   "reopen"  a writer opens the buffer after the last closed it
                       \*   "kill"    processes are killed

ASSUME PipeAssumption ==
    /\ BufferSize \in Nat \ {0} /\ Chunk \subseteq Nat \ {0}
    /\ Scenarios \subseteq SUBSET {"fill", "reopen", "kill"}

VARIABLES
    may,           \* the scenario, which never changes
    mode,          \* fd->mode: {}, {"r"}, {"w"} or both
    call,          \* the read or write the thread sleeps in, or is woken from
    content,       \* buffer->content
    writeCursor, readCursor, hasEOF, allowReaders, allowWriters,
    sem            \* readerSem and writerSem, their values and wait queues

cursors == <<content, writeCursor, readCursor>>
flags   == <<hasEOF, allowReaders, allowWriters>>
vars    == <<may, mode, call, cursors, flags, sem>>

NoCall == [op |-> "none"]
Dead   == [op |-> "dead"]
Reads  == [op : {"r"}, bytes : Chunk]
Writes == [op : {"w"}, data : UNION {[1 .. n -> Byte] : n \in Chunk}]

TypeOK ==
    /\ may \in Scenarios
    /\ mode \in [Thread -> SUBSET {"r", "w"}]
    /\ call \in [Thread -> {NoCall, Dead} \cup Reads \cup Writes]
    /\ content \in [0 .. BufferSize - 1 -> Byte]
    /\ writeCursor \in 0 .. BufferSize - 1 /\ readCursor \in 0 .. BufferSize - 1
    /\ hasEOF \in {0, 1} /\ allowReaders \in {0, 1} /\ allowWriters \in {0, 1}
    /\ \A k \in {"r", "w"} : sem[k].value \in {0, 1} /\ sem[k].queue \in Seq(Thread)

Openers == {t \in Thread : mode[t] # {}}
Writers == {t \in Thread : "w" \in mode[t]}

\* openBuffer's semaphores.
NewSems == [k \in {"r", "w"} |-> [value |-> IF k = "w" THEN 1 ELSE 0, queue |-> <<>>]]

Init ==
    /\ may \in Scenarios
    /\ mode = [t \in Thread |-> {}]
    /\ call = [t \in Thread |-> NoCall]
    /\ content \in {[i \in 0 .. BufferSize - 1 |-> b] : b \in Byte}
    /\ writeCursor = 0 /\ readCursor = 0
    /\ hasEOF = 0 /\ allowReaders = 0 /\ allowWriters = 1
    /\ sem = NewSems

-----------------------------------------------------------------------------
\* sem_signal: killed waiters, those of dead, are dropped, the first live one is woken.
Signaled(s, dead) ==
    LET i == SelectInSeq(s.queue, LAMBDA t : t \notin dead) IN
    IF i = 0 THEN [value |-> s.value + 1, queue |-> <<>>]
    ELSE [s EXCEPT !.queue = SubSeq(@, i + 1, Len(@))]

Killed == {t \in Thread : call[t] = Dead}

\* The thread's sem_wait has returned, or will when it is dispatched.
Admitted(t, k) == call[t].op = k /\ ~ Contains(sem[k].queue, t)

\* openFile and openBuffer.
Open(t, m) ==
    /\ call[t] = NoCall /\ mode[t] = {} /\ m # {}
    /\ "w" \in m => "reopen" \in may \/ hasEOF = 0 \/ Openers = {}
    /\ mode' = [mode EXCEPT ![t] = m]
    /\ IF Openers = {}
       THEN /\ writeCursor' = 0 /\ readCursor' = 0
            /\ hasEOF' = 0 /\ allowReaders' = 0 /\ allowWriters' = 1
            /\ sem' = NewSems
       ELSE /\ hasEOF' = IF "w" \in m THEN 0 ELSE hasEOF
            /\ UNCHANGED <<writeCursor, readCursor, allowReaders, allowWriters, sem>>
    /\ UNCHANGED <<call, content>>

\* Mutant of CloseFile: the end of file is only noted.
CloseSilently(t, dead) ==
    /\ mode' = [mode EXCEPT ![t] = {}]
    /\ hasEOF' = IF "w" \in mode[t] /\ Writers = {t} THEN 1 ELSE hasEOF
    /\ UNCHANGED <<cursors, allowReaders, allowWriters, sem>>

\* closeFile: the last writer sets the end of file and lets a reader in.
CloseFile(t, dead) ==
    LET last == "w" \in mode[t] /\ Writers = {t} IN
    /\ mode' = [mode EXCEPT ![t] = {}]
    /\ hasEOF' = IF last THEN 1 ELSE hasEOF
    /\ allowReaders' = IF last THEN 1 ELSE allowReaders
    /\ sem' = IF last /\ allowReaders = 0 THEN [sem EXCEPT !["r"] = Signaled(@, dead)] ELSE sem
    /\ UNCHANGED <<cursors, allowWriters>>

Close(t) == call[t] = NoCall /\ mode[t] # {} /\ CloseFile(t, Killed) /\ UNCHANGED call

\* killProcess: the thread is marked, then its descriptor is closed.  A waiter so
\* marked is not used again.
Kill(t) ==
    /\ "kill" \in may /\ mode[t] # {}
    /\ call' = [call EXCEPT ![t] = IF \E k \in {"r", "w"} : Contains(sem[k].queue, t)
                                   THEN Dead ELSE NoCall]
    /\ CloseFile(t, Killed \cup {t})

-----------------------------------------------------------------------------
\* availableBytes of readBuffer and of writeBuffer.
ToRead  == (writeCursor - readCursor) % BufferSize
ToWrite == IF readCursor > writeCursor THEN readCursor - writeCursor
           ELSE BufferSize + readCursor - writeCursor

Smaller(a, b) == IF a < b THEN a ELSE b

\* A reader leaves with k bytes; more says whether it lets the next one in.
TakeBytes(k, more, s) ==
    /\ readCursor' = (readCursor + k) % BufferSize
    /\ allowReaders' = IF more THEN allowReaders ELSE 0
    /\ allowWriters' = 1
    /\ sem' = [s EXCEPT !["r"] = IF more THEN Signaled(@, Killed) ELSE @,
                        !["w"] = IF allowWriters = 0 THEN Signaled(@, Killed) ELSE @]
    /\ UNCHANGED <<mode, content, writeCursor, hasEOF>>

\* Mutants of ReadBuffer: a reader that leaves bytes lets nobody in, one that leaves
\* none does, and the cursor moves by what was asked for.
ReadAndStop(n, s) == TakeBytes(Smaller(n, ToRead), hasEOF = 1, s)
ReadAndPass(n, s) == TakeBytes(Smaller(n, ToRead), TRUE, s)
ReadPastEnd(n, s) == TakeBytes(n, n < ToRead \/ hasEOF = 1, s)

\* readBuffer after its sem_wait, which left the semaphores as in s.
ReadBuffer(n, s) ==
    LET k == Smaller(n, ToRead) IN TakeBytes(k, k < ToRead \/ hasEOF = 1, s)

\* A writer leaves k bytes.
PutBytes(data, k, more, s) ==
    /\ content' = [i \in 0 .. BufferSize - 1 |->
                    LET j == (i - writeCursor) % BufferSize
                    IN  IF j < k THEN data[j + 1] ELSE content[i]]
    /\ writeCursor' = (writeCursor + k) % BufferSize
    /\ allowWriters' = IF k < ToWrite THEN allowWriters ELSE 0
    /\ allowReaders' = 1
    /\ sem' = [s EXCEPT !["w"] = IF more THEN Signaled(@, Killed) ELSE @,
                        !["r"] = IF allowReaders = 0 THEN Signaled(@, Killed) ELSE @]
    /\ UNCHANGED <<mode, readCursor, hasEOF>>

\* Mutant of WriteBuffer: a writer that leaves room lets nobody in.
WriteAndStop(data, s) == PutBytes(data, Smaller(Len(data), ToWrite), FALSE, s)

\* writeBuffer after its sem_wait.
WriteBuffer(data, s) ==
    LET k == Smaller(Len(data), ToWrite) IN
    /\ "fill" \in may \/ k < ToWrite
    /\ PutBytes(data, k, k < ToWrite, s)

Transfer(c, s) == IF c.op = "r" THEN ReadBuffer(c.bytes, s) ELSE WriteBuffer(c.data, s)

\* A call that finds a token goes on at once.
Pass(t, c) ==
    /\ call[t] = NoCall /\ c.op \in mode[t]
    /\ sem[c.op].value > 0
    /\ Transfer(c, [sem EXCEPT ![c.op].value = @ - 1])
    /\ UNCHANGED call

\* One that finds none sleeps, and goes on when it is woken and dispatched.
Sleep(t, c) ==
    /\ call[t] = NoCall /\ c.op \in mode[t]
    /\ sem[c.op].value = 0
    /\ sem' = [sem EXCEPT ![c.op].queue = Append(@, t)]
    /\ call' = [call EXCEPT ![t] = c]
    /\ UNCHANGED <<mode, cursors, flags>>

Resume(t) ==
    /\ \E k \in {"r", "w"} : Admitted(t, k)
    /\ call' = [call EXCEPT ![t] = NoCall]
    /\ Transfer(call[t], sem)

Step(t) ==
    \/ \E m \in SUBSET {"r", "w"} : Open(t, m)
    \/ Close(t)
    \/ Kill(t)
    \/ \E c \in Reads \cup Writes : Pass(t, c) \/ Sleep(t, c)
    \/ Resume(t)

Next == UNCHANGED may /\ \E t \in Thread : Step(t)

\* The scheduler starves no listed thread.
Spec == Init /\ [][Next]_vars /\ \A t \in Thread : WF_vars(UNCHANGED may /\ Resume(t))

-----------------------------------------------------------------------------
\* The bytes in the buffer, oldest first; it is full when writers are shut out.
Stored ==
    LET n == IF allowWriters = 0 THEN BufferSize ELSE ToRead
    IN  IF Openers = {} THEN <<>>
        ELSE [i \in 1 .. n |-> content[(readCursor + i - 1) % BufferSize]]

\* The cursors, flags and semaphores make a queue of bytes: what is read is what
\* was written, in its order, whatever the calls and their interleaving.
Q == INSTANCE ByteQueue WITH queue <- Stored, open <- Openers # {},
                             Capacity <- BufferSize
ImplementsQueue ==
    Q!Init /\ [][ "fill" \notin may => Q!Next ]_<<Stored, Openers # {}>>

\* TP2: who reads an empty buffer sleeps until there is something to read: a read
\* that is let in finds bytes, or the end of file.
NoEmptyRead ==
    Openers # {} /\ (sem["r"].value > 0 \/ \E t \in Thread : Admitted(t, "r"))
        => ToRead > 0 \/ hasEOF = 1

\* And the calls, cursors, flags and semaphores have their types.
ReadsExact == TypeOK /\ (may \subseteq {"kill"} => NoEmptyRead)

\* And no longer than that: a reader sleeps only if the buffer is empty and open for
\* writing, or another one is on its way in, which will pass the token on.
NoStuckReader ==
    (\E t \in Thread : call[t].op = "r" /\ ~ Admitted(t, "r"))
        => \/ Stored = <<>> /\ hasEOF = 0
           \/ \E t \in Thread : Admitted(t, "r")

\* Writers likewise: one sleeps only if the buffer is full or another is let in.
NoStuckWriter ==
    (\E t \in Thread : call[t].op = "w" /\ ~ Admitted(t, "w"))
        => allowWriters = 0 \/ \E t \in Thread : Admitted(t, "w")

\* The two, unless a process is killed on its way in.
NoStuckCall == "kill" \notin may => NoStuckReader /\ NoStuckWriter

\* TP2: when all writers close the buffer the pending reads end.
EOFReleases ==
    \A t \in Thread :
        ("kill" \notin may /\ call[t].op = "r" /\ hasEOF = 1) ~> (call[t].op # "r" \/ hasEOF = 0)
=============================================================================
