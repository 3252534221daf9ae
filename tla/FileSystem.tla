----------------------------- MODULE FileSystem -----------------------------
(***************************************************************************)
(* Opened files and descriptors over the file tree: the rest of            *)
(* fileSystem.c, and the descriptor tables of process.c.  What a read or   *)
(* write does in a buffer is in Pipe; the wait queues of semaphores and    *)
(* mutexes are in ThreadSync, here any sleeper may be woken.               *)
(*                                                                         *)
(* A process has one thread.  System calls are one step: who finds a       *)
(* semaphore or mutex taken sleeps in it.                                  *)
(***************************************************************************)
EXTENDS FileTree

CONSTANTS Fd,          \* the indices of a descriptor table that are used
          FirstFd,     \* the first that is given out, 3
          Path, DirPath, \* the paths that processes use, and those they cd to
          ShmName,     \* the names of semaphores and mutexes
          OpenMode,    \* the modes that they open files in
          MaxData,     \* bound: size of a file, value of a semaphore
          MaxOpen      \* bound: descriptors in use

Component == ToSet(Names) \cup {"", ".", "..", Long}

ASSUME FileSystemAssumption ==
    /\ Fd \subseteq Nat /\ 0 \in Fd /\ FirstFd \in Nat
    /\ IsFiniteSet(Fd) /\ IsFiniteSet(Process)
    /\ \A path \in Path \cup DirPath : path.names # <<>> /\ path.names \in Seq(Component)
    /\ ShmName \subseteq Component
    /\ OpenMode \subseteq {"r", "w", "rw"}
    /\ MaxData \in Nat \ {0} /\ MaxOpen \in Nat

VARIABLES
    alive,     \* the processes that run
    fd_table,  \* what each descriptor of a process refers to, None if free or stale
    asleep,    \* the semaphore or mutex a process sleeps in
    stale,     \* the descriptors that semClose or mutexClose closed: freed, and registered
    used       \* whether such a one was used again

vars == <<tree, opened, data, cwd, alive, fd_table, asleep, stale, used>>

None == [file |-> Null, mode |-> "none", cursor |-> 0]
Mode == {"r", "w", "rw"}
Descriptor == [file : Node, mode : Mode, cursor : 0 .. MaxData] \cup {None}

TypeOK ==
    /\ kind \in [Node -> Kind \cup {"free"}]
    /\ directory \in [Node -> Node \cup {Null}]
    /\ list \in [Node -> Seq(Node)]
    /\ data \in [Node -> Process \cup {Null} \cup 0 .. MaxData]
    /\ \A n \in Node : data[n] \in IF kind[n] = "mutex" THEN Process \cup {Null} ELSE 0 .. MaxData
    /\ opened \in [Node -> [readers : Int, writers : Int]]
    /\ cwd \in [Process -> Node]
    /\ alive \subseteq Process
    /\ fd_table \in [Process -> [Fd -> Descriptor]]
    /\ asleep \in [Process -> Node \cup {Null}]
StaleOK == stale \subseteq Process \X Fd /\ used \in BOOLEAN

Reading == {"r", "rw"}
Writing == {"w", "rw"}

\* The descriptors of X that refer to n in one of the modes.
Refs(tables, X, n, modes) ==
    {x \in X : tables[x[1]][x[2]].file = n /\ tables[x[1]][x[2]].mode \in modes}

\* The counts of openFile (k = 1) and closeFile (-1), once for each of the descriptors of X.
Counted(tables, X, k) ==
    [n \in Node |-> [readers |-> opened[n].readers + k * Cardinality(Refs(tables, X, n, Reading)),
                     writers |-> opened[n].writers + k * Cardinality(Refs(tables, X, n, Writing))]]

\* /dev/stdin in mode rw is descriptor 0 of the first process.
InitDescriptor == [file |-> stdin, mode |-> "rw", cursor |-> 0]

Init ==
    /\ InitTree
    /\ opened = [n \in Node |-> IF n = stdin THEN [readers |-> 1, writers |-> 1] ELSE NotOpened]
    /\ \E p \in Process :
        /\ alive = {p}
        /\ fd_table = [q \in Process |-> [f \in Fd |->
                        IF q = p /\ f = 0 THEN InitDescriptor ELSE None]]
    /\ asleep = [p \in Process |-> Null]
    /\ stale = {} /\ used = FALSE

\* The process may make a call.
Runs(p) == p \in alive /\ asleep[p] = Null

Vacant(p, f) == fd_table[p][f] = None /\ <<p, f>> \notin stale

\* getFreeFD and registerFD: the first free one.
FreeFd(p, f) ==
    /\ f >= FirstFd /\ Vacant(p, f)
    /\ \A g \in Fd : FirstFd <= g /\ g < f => ~Vacant(p, g)

InUse(table) == {x \in Process \X Fd : table[x[1]][x[2]] # None} \cup stale

\* openFile and openFileToFD.
OpenFile(p, f, n, m) ==
    /\ n # Null /\ kind[n] # "dir"
    /\ fd_table' = [fd_table EXCEPT ![p][f] = [file |-> n, mode |-> m, cursor |-> 0]]
    /\ opened' = Counted(fd_table', {<<p, f>>}, 1)
    /\ Cardinality(InUse(fd_table')) <= MaxOpen

OpenToFd(p, n, m) ==
    /\ \E f \in Fd : FreeFd(p, f) /\ OpenFile(p, f, n, m)
    /\ UNCHANGED <<tree, data, cwd, alive, asleep>>

\* closeFile: the unnamed pipes are freed with the last of their descriptors.
Pipes(o) == {n \in Node : kind[n] = "buffer" /\ directory[n] = Null /\ o[n] = NotOpened}

\* Mutant of CloseFiles: the pipe's file is kept.
CloseKeepsPipe(p, F) ==
    /\ opened' = Counted(fd_table, {p} \X F, -1)
    /\ UNCHANGED <<tree, data>>

CloseFiles(p, F) ==
    /\ opened' = Counted(fd_table, {p} \X F, -1)
    /\ Free(Pipes(opened') \ Pipes(opened))

\* unregisterFD refuses the standard ones.
Unregisters(f) == f >= FirstFd

\* closeFile of one descriptor.
CloseOne(p, f) ==
    /\ CloseFiles(p, {f})
    /\ fd_table' = [fd_table EXCEPT ![p][f] = None]
    /\ UNCHANGED <<cwd, alive, asleep>>

\* closeFileFromFD.
Close(p, f) == Unregisters(f) /\ fd_table[p][f] # None /\ CloseOne(p, f)

-----------------------------------------------------------------------------
\* openUnnamedPipe: with one free descriptor only, what was opened is closed again;
\* the whole call then changes nothing, and neither does one with none.
OpenUnnamedPipe(p) ==
    \E n \in Node, f, g \in Fd :
        /\ Unused(n)
        /\ FreeFd(p, f)
        /\ g > f /\ Vacant(p, g)
        /\ \A h \in Fd : f < h /\ h < g => ~Vacant(p, h)
        /\ kind' = [kind EXCEPT ![n] = "buffer"]
        /\ fd_table' = [fd_table EXCEPT ![p][f] = [file |-> n, mode |-> "r", cursor |-> 0],
                                        ![p][g] = [file |-> n, mode |-> "w", cursor |-> 0]]
        /\ opened' = Counted(fd_table', {<<p, f>>, <<p, g>>}, 1)
        /\ Cardinality(InUse(fd_table')) <= MaxOpen
        /\ UNCHANGED <<name, directory, list, data, cwd, alive, asleep>>

\* Mutant of CloneFD: the descriptor is shared and not counted.
CloneUncounted(p, f, q, g) ==
    /\ Vacant(q, g) /\ fd_table[p][f] # None
    /\ fd_table' = [fd_table EXCEPT ![q][g] = [fd_table[p][f] EXCEPT !.cursor = 0]]
    /\ UNCHANGED <<tree, data, opened, cwd, alive, asleep>>

\* cloneFD, as dup2: the file of f is opened again, in the same mode.
CloneFD(p, f, q, g) ==
    /\ Vacant(q, g) /\ fd_table[p][f] # None
    /\ OpenFile(q, g, fd_table[p][f].file, fd_table[p][f].mode)
    /\ UNCHANGED <<tree, data, cwd, alive, asleep>>

Dup2(p, f, g) == CloneFD(p, f, p, g)

\* writeFile and readFile of a regular file: at its end, and at the cursor.
WriteFile(p, f, bytes) ==
    LET d == fd_table[p][f] IN
    /\ d # None /\ d.mode \in Writing /\ kind[d.file] = "regular"
    /\ data' = [data EXCEPT ![d.file] = IF @ + bytes > MaxData THEN MaxData ELSE @ + bytes]
    /\ UNCHANGED <<tree, opened, cwd, alive, fd_table, asleep>>

ReadFile(p, f, bytes) ==
    LET d == fd_table[p][f] IN
    /\ d # None /\ d.mode \in Reading /\ kind[d.file] = "regular" /\ d.cursor < data[d.file]
    /\ fd_table' = [fd_table EXCEPT ![p][f].cursor =
                        IF @ + bytes > data[d.file] THEN data[d.file] ELSE @ + bytes]
    /\ UNCHANGED <<tree, opened, data, cwd, alive, asleep>>

-----------------------------------------------------------------------------
\* createProcess, as far as descriptors go: its 0 and 1 may be clones of its parent's,
\* from says which, and descriptor 0 is /dev/stdin if it is none.
CreateProcess(p, q, from) ==
    LET clone == [g \in Fd |-> IF g \in DOMAIN from /\ fd_table[p][from[g]] # None
                               THEN [fd_table[p][from[g]] EXCEPT !.cursor = 0] ELSE None]
        path == [absolute |-> TRUE, names |-> <<"dev", "stdin">>]
        in == GetFile(p, path)
        table == IF clone[0] = None /\ in # Null /\ kind[in] # "dir"
                 THEN [clone EXCEPT ![0] = [file |-> in, mode |-> "rw", cursor |-> 0]]
                 ELSE clone
    IN  /\ q \notin alive /\ \A g \in DOMAIN from : <<p, from[g]>> \notin stale
        /\ alive' = alive \cup {q}
        /\ fd_table' = [fd_table EXCEPT ![q] = table]
        /\ opened' = Counted(fd_table', {q} \X Fd, 1)
        /\ Cardinality(InUse(fd_table')) <= MaxOpen
        /\ cwd' = [cwd EXCEPT ![q] = root]
        /\ UNCHANGED <<tree, data, asleep>>

\* killProcess, of itself or another: purgeFdList closes all.
KillProcess(p) ==
    /\ p \in alive /\ \A f \in Fd : <<p, f>> \notin stale
    /\ alive' = alive \ {p}
    /\ CloseFiles(p, Fd)
    /\ fd_table' = [fd_table EXCEPT ![p] = [f \in Fd |-> None]]
    /\ asleep' = [asleep EXCEPT ![p] = Null]
    /\ cwd' = [cwd EXCEPT ![p] = root]

-----------------------------------------------------------------------------
\* The semaphores and mutexes of /dev/shm.
Shm(c) == [absolute |-> TRUE, names |-> <<"dev", "shm", c>>]

\* semCreate gives a value only to a semaphore that it makes.
SemCreate(p, c, value) == MakeFile(p, Shm(c), "sem", value) /\ UNCHANGED <<alive, fd_table, asleep>>

\* mutexCreate.
MutexCreate(p, c) == MakeFile(p, Shm(c), "mutex", Null) /\ UNCHANGED <<alive, fd_table, asleep>>

\* The object of type k under a name.
ShmDelete(p, c, k) ==
    LET n == GetFile(p, Shm(c)) IN
    n # Null /\ kind[n] = k /\ RemoveFile(n) /\ UNCHANGED <<alive, fd_table, asleep>>

ShmOpen(p, c, k) ==
    LET n == GetFile(p, Shm(c)) IN n # Null /\ kind[n] = k /\ OpenToFd(p, n, "rw")

SemDelete(p, c) == ShmDelete(p, c, "sem")
MutexDelete(p, c) == ShmDelete(p, c, "mutex")
SemOpen(p, c) == ShmOpen(p, c, "sem")
MutexOpen(p, c) == ShmOpen(p, c, "mutex")

\* getFD and the test of the type: the object that a call is about.
IsOf(p, f, k) == fd_table[p][f] # None /\ kind[fd_table[p][f].file] = k

Sleepers(n) == {q \in Process : asleep[q] = n}

\* sem_signal.
Signal(n) ==
    IF Sleepers(n) # {}
    THEN /\ \E q \in Sleepers(n) : asleep' = [asleep EXCEPT ![q] = Null]
         /\ data' = data
    ELSE /\ data[n] < MaxData
         /\ data' = [data EXCEPT ![n] = @ + 1]
         /\ asleep' = asleep

\* semClose and mutexClose: closed and freed, and still registered.
ShmClose(p, f, k) ==
    /\ IsOf(p, f, k)
    /\ CloseOne(p, f)
    /\ stale' = stale \cup {<<p, f>>} /\ used' = used

SemClose(p, f) == ShmClose(p, f, "sem")
MutexClose(p, f) == ShmClose(p, f, "mutex")

\* Any call on such a descriptor, the same close and the end of its process among them,
\* uses memory that was freed.  What follows is not described.
UseStale(p, f) ==
    /\ <<p, f>> \in stale
    /\ used' = TRUE
    /\ UNCHANGED <<tree, opened, data, cwd, alive, fd_table, asleep, stale>>

\* semSet signals as often as the value says, here once.
SemSet(p, f) ==
    /\ IsOf(p, f, "sem")
    /\ Signal(fd_table[p][f].file)
    /\ UNCHANGED <<tree, opened, cwd, alive, fd_table>>

SemSignal(p, f) ==
    /\ IsOf(p, f, "sem")
    /\ Signal(fd_table[p][f].file)
    /\ UNCHANGED <<tree, opened, cwd, alive, fd_table>>

SemWait(p, f) ==
    LET n == fd_table[p][f].file IN
    /\ IsOf(p, f, "sem")
    /\ IF data[n] > 0
       THEN data' = [data EXCEPT ![n] = @ - 1] /\ asleep' = asleep
       ELSE asleep' = [asleep EXCEPT ![p] = n] /\ data' = data
    /\ UNCHANGED <<tree, opened, cwd, alive, fd_table>>

MutexLock(p, f) ==
    LET n == fd_table[p][f].file IN
    /\ IsOf(p, f, "mutex")
    /\ IF data[n] = Null
       THEN data' = [data EXCEPT ![n] = p] /\ asleep' = asleep
       ELSE asleep' = [asleep EXCEPT ![p] = n] /\ data' = data
    /\ UNCHANGED <<tree, opened, cwd, alive, fd_table>>

MutexUnlock(p, f) ==
    LET n == fd_table[p][f].file IN
    /\ IsOf(p, f, "mutex") /\ data[n] = p
    /\ IF Sleepers(n) = {}
       THEN data' = [data EXCEPT ![n] = Null] /\ asleep' = asleep
       ELSE \E q \in Sleepers(n) : /\ data' = [data EXCEPT ![n] = q]
                                   /\ asleep' = [asleep EXCEPT ![q] = Null]
    /\ UNCHANGED <<tree, opened, cwd, alive, fd_table>>

\* execCreate, also of an executable that exists.
ExecCreate(p, path) ==
    LET n == GetFile(p, path) IN
    /\ \/ MakeFile(p, path, "exec", 1)
       \/ /\ n # Null /\ kind[n] = "exec"
          /\ data' = [data EXCEPT ![n] = 1]
          /\ UNCHANGED <<tree, opened, cwd>>
    /\ UNCHANGED <<alive, fd_table, asleep>>

-----------------------------------------------------------------------------
TreeCall(p) ==
    \/ \E path \in DirPath : ChangeCWD(p, path) /\ UNCHANGED <<alive, fd_table, asleep>>
    \/ \E path \in Path :
        \/ \E k \in {"dir", "regular"} : MakeFile(p, path, k, 0) /\ UNCHANGED <<alive, fd_table, asleep>>
        \/ ExecCreate(p, path)
        \/ RemoveFile(GetFile(p, path)) /\ UNCHANGED <<alive, fd_table, asleep>>
        \/ \E m \in OpenMode : OpenToFd(p, GetFile(p, path), m)

ShmCall(p) ==
    \E c \in ShmName :
        \/ SemCreate(p, c, 0) \/ MutexCreate(p, c)
        \/ SemDelete(p, c) \/ MutexDelete(p, c) \/ SemOpen(p, c) \/ MutexOpen(p, c)

FdCall(p) ==
    \/ OpenUnnamedPipe(p)
    \/ \E f \in Fd : \/ Close(p, f) \/ WriteFile(p, f, 1) \/ ReadFile(p, f, 1)
                     \/ \E g \in Fd : Dup2(p, f, g)
                     \/ SemSet(p, f) \/ SemSignal(p, f) \/ SemWait(p, f)
                     \/ MutexLock(p, f) \/ MutexUnlock(p, f)

ShmCloseCall(p) == \E f \in Fd : SemClose(p, f) \/ MutexClose(p, f)

Call == \E p \in Process :
            \/ Runs(p) /\ (TreeCall(p) \/ ShmCall(p) \/ FdCall(p))
            \/ \E q \in Process, from \in {<<>>} \cup [{0, 1} \cap Fd -> Fd] :
                    Runs(p) /\ CreateProcess(p, q, from)
            \/ KillProcess(p)

Next == /\ ~used
        /\ \/ Call /\ UNCHANGED <<stale, used>>
           \/ \E p \in Process : Runs(p) /\ ShmCloseCall(p)
           \/ \E p \in Process, f \in Fd : UseStale(p, f)

Spec == Init /\ [][Next]_vars

-----------------------------------------------------------------------------
\* The counts of openFile, closeFile, cloneFD, semClose, mutexClose and the end of a process
\* are those of the descriptors that are open: a file is opened as long as some descriptor
\* refers to it, and no longer, and it is a file.  So it is until a descriptor is used that
\* semClose or mutexClose left registered.
CountsExact ==
    \A n \in Node : opened[n] =
        [readers |-> Cardinality(Refs(fd_table, Process \X Fd, n, Reading)),
         writers |-> Cardinality(Refs(fd_table, Process \X Fd, n, Writing))]
OpenedFiles == \A n \in Opened : kind[n] \notin {"free", "dir"}
OpenedExact == ~used => CountsExact /\ OpenedFiles

\* The tree, and everything's types.
FilesExact == TypeOK /\ StaleOK /\ name \in [Node -> ToSet(Names) \cup {Null}] /\ TreeExact

\* openUnnamedPipe: an unnamed pipe is freed with its last descriptor; nothing else
\* could ever free it.
PipesFreed == Pipes(opened) = {}

\* semDelete, mutexDelete and rm free no object that a process sleeps in, nor do semClose and
\* mutexClose, until a descriptor is used that those left registered.
NobodySleepsInFreed ==
    ~used => \A p \in Process : asleep[p] # Null => kind[asleep[p]] \in {"sem", "mutex"}
=============================================================================
