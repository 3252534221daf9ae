# Verification of the Leah kernel

TLA+ modules of the kernel in `src/Kernel` (processes, threads, scheduling,
synchronisation, memory, files and pipes, drivers) and of its user module (library,
shell, programs), the TLC runs that check them, and proofs checked by TLAPS.
`PROJECT.json` lists runs, mutants, mapped lines, findings, hazards and theorems.

    tlc -config ThreadSync.cfg MCThreadSync      # a run: its module and its cfg
    tlapm ThreadSyncProofs.tla                   # the proofs about a module: its name and Proofs
                                                 # (DataProofs takes some ten minutes)

## 1. The system

Leah is a 64-bit teaching kernel for one processor, with one user module (a
shell and its programs).

| component | source (`src/Kernel`, `src/Userland`) | state | operations |
|---|---|---|---|
| threads | `process.c` 200-308 | TCB: status, pid and tid, stack, joiner's semaphore | createThread, killThread, threadJoin, threadWrapper |
| processes | `process.c` 19-198, `kernel.c` 77 | `processList`, two counters, PCB with a `finishedSem` | createProcess, killProcess, waitpid, setNiceness, processWrapper, initThread |
| synchronisation | `mutex.c`, `sem.c`, `sleep.c` | lock word, owner, wait queues; list of sleepers | lock, unlock, wait, signal, sleep, sleep_update |
| scheduler | `scheduler.c`, `roundRobin.c`, `roundRobinWithPriority.c` | two queues with quanta 8 and 3, six priority levels, current thread, `FORCE` | enqueue, dequeue, shortTerm |
| physical memory | `memoryManager.c` | tree of FREE, USED, SPLIT nodes in an array | getMemory, freeMemory |
| heaps | `malloc.c`, `stdlib.c` | one list of blocks, of the kernel and of each process | malloc, free |
| file system | `fileSystem.c` | directory tree, opened files, descriptors, named semaphores and mutexes | make, remove, open, close, clone, read, write, semCreate to mutexUnlock |
| buffers (pipes, `/dev/stdin`) | `fileSystem.c` 447-709 | circular array, two cursors, end of file, two semaphores that each carry one token | readBuffer, writeBuffer |
| foreground | `interruptions/intHandlers.c` | `foregroundPID`, `bgQueue` | giveForeground, read, write |
| timer and speaker | `drivers/timer.c`, `speaker.c` | table of callbacks, `timerSkip` | append, remove, tick, beep |
| keyboard | `drivers/kb_driver.c` | four flags | the interrupt: a byte to `/dev/stdin`, or Ctrl-C |
| console and video | `drivers/console.c`, `video_vm.c` | cursor, its block, the screen | printChar, clearScreen |
| lists | `circularList.c`, `linkedList.c` | nodes | insert, delete, poll, sort |
| boot | `ModulePacker/main.c`, `moduleLoader.c` | the image in memory | pack, load, clearBSS |
| shell | `sampleCodeModule.c` | line, history, table of commands, pids and ends of pipes of a line | edit, parse, start, wait |
| library | `StandardLibrary` | | numbers to texts and back, user timers |
| programs | `programs` | | philosophers, producers and consumers, up-down, snake, clock, upper case |

**How they interact.** Programs enter by `int 80h`. Calls that wait put the
current TCB in a queue (of a mutex or semaphore, or of the sleepers), take it out of
the run queue, and force a switch; whoever wakes it takes it from there and enqueues
it. The end of a process or of a thread is a `sem_signal` of a semaphore in the PCB or
TCB. Pipes are built from semaphores, named semaphores and mutexes are files. The timer
interrupt wakes sleepers, runs callbacks and then schedules. The keyboard interrupt
writes to a file, or kills the foreground process. The shell makes the pipes of a line,
starts a process per command with its ends of them, closes its own, gives the foreground
away and waits.

**Atomicity.** All gates are interrupt gates, so system calls and interrupts
run to their end, or to `_force_scheduler`, without interruption. A switch can
happen at `int 20h` (forced), or at a tick in user code, in Init's thread
(`initThread`) and in the two wrappers, which are kernel code that runs with
interrupts enabled. One action is therefore one call up to the point where it
sleeps; what follows the wake-up is another; the wrappers take several, and a tick among them ends them half way
(`ThreadLife` for threadWrapper, `Shell` and `ProcessTable` for processWrapper).

**What is hard here.** State that is read before a thread sleeps and used after
it (waitpid, joins, pipes). TCBs of killed threads that stay in wait queues,
while their pid and tid are reused. Wake-ups by hand-over (the mutex and the
pipe token go straight to one waiter, who may be killed). A scheduler with two
queues, two counters, eviction, and forced switches that do not count. A tree of
marks that must follow any sequence of allocations. The full list, with lines,
is `hazards` in `PROJECT.json`.

What makes each component correct:

- synchronisation: mutual exclusion, no lost wake-up, a TCB in exactly one place, freed once;
- scheduler: it dispatches listed threads only, starves none, and finds a thread where it was put;
- processes and threads: who waits returns for whom it waited for, once that has ended; the table and its counters agree;
- memory and heaps: blocks do not overlap, none is lost;
- files: a map from paths to types; what is open or slept in is not freed, and counts are those of the descriptors, as long as no descriptor is used again that semClose or mutexClose left behind;
- pipes: bytes arrive once and in order, readers and writers sleep exactly while they must;
- terminal: the screen shows the line that Enter runs, the history the lines entered, and callbacks are in the table exactly while they are wanted;
- shell: back at the prompt nothing of a line is left, and every line that needs no key gets there, unless a tick stops one of its programs in the wrapper;
- programs: their threads all end, with the right result, in one run after the other: the variables of the module and the named
  semaphores and mutexes outlive a run, also one that Ctrl-C ended.

## 2. Modules

| module | models | abstract specification |
|---|---|---|
| `ThreadSync` | mutexes, semaphores, sleep, start and kill of threads and processes, over the TCBs | dispatches as `RunQueue` says |
| `Scheduler` | both run queues, quanta, eviction, niceness, tick and forced switch | implements `RunQueue` |
| `RunQueue` | a set of listed threads and the one that runs | |
| `ProcessTable` | process table, kill, waitpid, wrapper, Init | |
| `ThreadLife` | the threads of a process: create, kill, join, and the memory of their TCBs | |
| `BuddyMemory` | the buddy allocator | |
| `Heap` | malloc and free, of kernel and user library | |
| `CircularList`, `LinkedList` | both kinds of lists, as nodes with pointers | sequences |
| `FileTree`, `FileSystem` | the tree of files; descriptors, opened files, named semaphores and mutexes over it | implements `NameSpace` |
| `NameSpace` | a map from paths to types, of which some are open | |
| `Pipe` | one buffer file | implements `ByteQueue` |
| `ByteQueue` | a bounded queue of bytes | |
| `Terminal` | callbacks, ticks, speaker, console, line editor and history | |
| `Keyboard` | kb_fetch and its flags | the keys held |
| `ModuleImage` | module packer, module loader, clearBSS | |
| `Shell` | how a parsed line runs: pipes, processes, foreground, waits | |
| `ParseLine`, `CommandTable` | the parser; the table of commands | definitions by position; a map |
| `Texts` | numbers and texts, both ways | the numbers |
| `ProdCons` | the restaurant of `prodCons.c`: chefs, waiters, rests | |
| `Philosophers` | `philosophers.c`: births, deaths, the table and its forks | |
| `Snake`, `ToUppercase`, `UpDown`, `DigitalClock` | the programs of those names | |
| `Data` | side by side: processes, heap, terminal, keyboard, table of commands, clock | |
| `User` | side by side, with fairness: threads, shell, snake, upper case, up-down | |

The theorems about `ThreadSync`, `Scheduler`, `Pipe`, `FileSystem`, `ProdCons`, `Philosophers`, `Data` and
`User` are in modules of their own, `ThreadSyncProofs` and so on (section 4).

`MC*` modules give constants and symmetry. `RunQueue` is the seam between two
components: `ThreadSync` leaves open which of the threads that `RunQueue` allows runs next; `Scheduler`
makes the choice and shows that it is one of those. In the same way the programs
and `FileSystem` take a semaphore, a mutex or a fifo for what `ThreadSync` and `Pipe` show
of it, and all take lists for sequences, which `CircularList` and `LinkedList` show.

`Data` puts the parts side by side whose calls are one step or two, `User` the shell, three programs and the threads
of a process. A behaviour is one of a single part; the variables of the others keep their first values, so that the search
is the sum of the parts' searches and not their product. `ProcessTable` in `Data` and `ThreadLife` in `User` are
extended, the others are instances, which give their constants. Both are what the run checks and what the theorems are
about. `MCData` adds to `Data`, in the same way, the parts that are only checked: the buddy tree, both lists, the modules, the
parser and the texts. The behaviours of its `AllSpec` that are of a part of `Data` are those of `PartSpec`, with the
added variables at their first values.

### ThreadSync

A thread is its TCB's address, because a tid is reused while a killed thread's TCB
still hangs in a wait queue. `runs` counts how often the run queues list it;
`status` has `FREE` for memory that holds no TCB, so that `eraseTCB` and
`createThread` are visible and a TCB that is used after its release, or leaks, shows.
`Kill` is `killThread` with its two cases: a listed thread is freed at once, a
waiting one is left `DEAD` for its waker. `MutexUnlock` and `SemSignal` contain
the loop that drops dead waiters. `locking` is a history variable, set when a
thread calls lock and cleared when it calls unlock. The mutex inside each
semaphore is left out: nothing between its lock and unlock can switch.
`SetNiceness` is in `NextNice` only (see run `nice_wakes_waiter`). Kept out: joins
and the preemptible end of a thread (`ThreadLife`), that of a process (`ProcessTable`), and memory exhaustion other
than having no TCB.

### Scheduler

The list of each priority level is a sequence from its head; the round robin's too. `ThreadOrder` lists every thread
once, those of a process in the order of their tids: it is the order in which `setNiceness` enqueues them.
`ShortTerm` follows `scheduler_shortTerm`: switch the queue if its count is above its
quantum, count the tick unless forced, ask the queue, then the other. `GetNext`
follows the walk of `getNext` with the backup queue.

### ProcessTable

An element of `Proc` stands for PCB, TCB and semaphore, a pid for a slot. `waiting`
is the pid in the local variable of a `waitpid` that sleeps or was woken;
`awaited` is a history variable: the process that the pid named at the call.
`KillProcess` may hit any valid pid at any time, as Ctrl-C does: the foreground
can be given to any pid. `EndPurge`, `EndMark`, `EndSignal` and `EndTick` are the
wrapper's preemptible `killProcess`. A waiter that was woken may be killed before it reaps: `reaperKilled` is the
history of the zombies that this happened to, until they are killed once more and have a second token. `ZombieReapable` says
that these, and no others, are the zombies nobody can reap. The early return of the scheduler when
`alive_process_count` is 0 is left out (the module lets threads run then, which is
more than the code does).

### BuddyMemory

`pages` is the array; nodes are numbered as in the code and the index macros
are used as they are. The loops of the search and of `freeMemory` are given as a recursive
function and as the set of nodes on the path. `held` is a history variable: the bag of
blocks handed out and not given back. Requests of 0 or of more than the memory
are refused. `caller` is the environment of a behaviour: which sizes are asked for, and
whether blocks are given back.

### Pipe

Cursors, flags, and the two semaphores with their values and queues; `Stored` is the
refinement mapping, the bytes from the read cursor. `Transfer` is what follows
`sem_wait`; `Pass` is a call that found a token, `Sleep` and `Resume` one that did
not. The buffer's own mutex is left out: nothing between lock and unlock can
sleep, so it is never found taken. `may` says what can happen in a behaviour (the buffer is filled up,
reopened for writing, processes are killed): a variable that never changes, so that one run has several environments and
a property says in which it holds. In `MCPipe` the bytes are all alike where the buffer may fill up, where their order is not checked.

### ProdCons, Philosophers

User code may be preempted anywhere, so a step is one system call or one access to a shared
variable. Semaphores and mutexes are a counter and an owner: what `ThreadSync` shows of them. A
call of main (`Call`, `Rest`, `Die`) only touches what its mutex guards, and is one step; a birth
is two, because the new thread can run before it is entered in the list. `Cancel` is `pthread_cancel`
of the last of the kind, whoever calls it. Printing and the lists that are printed are left out.

Both are modelled over one run after the other (`Quit`, `Interrupt`, `Again`). `sem_delete` at the end of a run
fails, because the program still has the file open (`fileSystem.c:280`), and `sem_create` gives no value to a semaphore
that exists (`:731`): a later run begins with the tokens that the last one left, and with a mutex whose owner may have died with it
(`Gone`). `began`, `leftForks` and `leftPlaces` are histories of what a run begins with, and the properties are relative to
them: plates begin at 0 whatever the tokens are, so that they go below 0 by the plates of earlier runs, and places
left over let as many more philosophers in. In `ProdCons` a rest that cancels another thread than the one that goes sets `crossed`, and the
behaviour is not followed from there: the thread that goes on has neither token nor mutex.

### ThreadLife

TCBs are allocations, so that one that is used after its release, or lost, shows. `threadList`
is the table by tid. A join is two steps if it sleeps. `status` has a state for a thread
that is in some other list ("away": asleep, or waiting for something that is not a thread), where
`killThread` leaves the TCB "dead" for whoever wakes it. A thread that returns is in threadWrapper from `Return` on: it has left the
scheduler ("off"), and either its table entry, its TCB or its joiner's semaphore comes next (`EndUnlist`, `EndErase`, `EndSignal`), or a tick
(`EndTick`), after which it never runs again. Its joiner, if there is one, sleeps for ever and its TCB is lost; `JoinsExact` says
that nothing else strands a joiner or loses a TCB. A `pthread_cancel` is a system call and one step.

### Heap, CircularList, LinkedList

Headers and nodes are kept by address. A walk along `next` is the set of blocks it gets to (`Reached`, the least that
is closed under `next` up to where the walk ends), and the recursion of `merge` a function of the number of its calls.
In `Heap` the caller writes over all of its block, headers that the list left behind included. Blocks of all sizes are given back in any
order. `split` leaves the `prev` of the block behind stale, and `merge` follows it: to a header that was left behind, which does
no harm as long as it is one, or to what a caller wrote there. In that case the memory is `Lost` and the behaviour not followed. `HeapExact` holds
up to there; some ten calls get there. Lists are compared after each operation with a sequence that the operation's meaning changes.

### FileTree, FileSystem

A path is a sequence of components. `Names` lists the names in use in the order of `strcmp`. `Removed` is the set that
the recursion of `removeFile` gets to before a file that is open stops it. Names are looked up as the code does, in
lists sorted by name, with a search that stops at the first greater one. Each process has one thread and a descriptor
table; contents of files are their length. `ShmOpen` to `MutexUnlock` are the calls on `/dev/shm`; a sleeper in a
semaphore may be any of those in it (the order is `ThreadSync`'s). `semClose` and `mutexClose` close and free the file's
descriptor but leave it in the table (`stale`); the next use of it, the purge at the end of the process included, works on memory that was
freed (`used`), and the properties of counts and sleepers hold up to there. Nothing here follows a buffer's contents: they are
`Pipe`'s.

### Terminal, Keyboard

Cells of the screen are numbered by line and hold a character, the cursor's block or a blank. A
string that the shell prints is put out one character at a time, because each is a system call of its own and
ticks come between. A tick is the loop over the table of callbacks, which the callbacks change. `Keyboard`
compares the four flags with the set of keys that are held.

### ModuleImage, ParseLine, CommandTable, Texts

Pure algorithms: each is a function of the code's input, built the way its loops are, and the
state of the module is the input (a text that grows by one character a step). The properties compare them with
definitions that do not look at a loop: positions outside of quotes, the value of a row of digits, the map of what was
registered, the files that were packed.

### Shell, and programs

`Shell` takes a line as its commands. `at` is the index of the loop of commandParser that runs, and `call` what it
calls next for that command; a program is a writer, a copier or one that waits for keys. `held` and the ends in each process are what
`FileSystem` keeps as descriptors, and `data` what `Pipe` keeps. `Interrupt` is Ctrl-C. A program that returns goes through
processWrapper in five steps (`Wrapper`), in the last three of which a tick is its end (`Tick`): it is never reaped (`Stuck`), and the shell may
wait for it for ever. The programs
are models of their threads step by step; user code may be preempted anywhere, so a step is one
system call or one access to a shared variable.

`Snake`, `UpDown` and `DigitalClock` go from run to run, each of which may end by itself or by Ctrl-C anywhere. In `Snake` the semaphore keeps
its tokens (`left`: the game begins with one, and ends at once), and a signal before main has opened it is lost (`missed`). In `UpDown`
the variable is never set back, so that a run is right if it ends where it began, and the mutex may be locked for ever by a thread
that was killed with it. In `DigitalClock` a run that ends while a thread draws leaves `isDrawing` set, and no later run draws;
one that is killed between `currFreq += step` and the turn of `step` at an end of the table leaves a frequency that runs out of it: `struck`
is the history of both, and `ClockRight` holds in runs up to such an end. `ToUppercase` is one run.

## 3. Runs

`pass` runs are complete searches of the bounded model.

| run | what it shows | bounds |
|---|---|---|
| `thread_sync` | mutual exclusion, owner fields, every TCB in one place and freed once, no lost wake-up | 2 pids, 2 tids, 3 TCBs, 1 mutex, 1 semaphore (value up to 1), sleeps up to 2 ticks |
| `scheduler` | lists where removal looks for them, exact counts, every dispatch to a listed thread and a step of `RunQueue`, no starvation | 3 threads of 2 processes, 2 niceness levels besides 0 |
| `pipe` | bytes in order and no empty read, with kills; nobody stuck, end of file releases all, without kills and with a buffer that may fill | 3 processes, 3 bytes of buffer, calls of 1 or 2, 2 byte values; scenarios with kills, and with a buffer that is filled up |
| `file_system` | the tree is a map of paths, counts are those of descriptors, unnamed pipes are freed, sleepers' objects are not, with semClose and mutexClose up to the use of what they leave | 2 processes, 2 nodes besides those of the kernel, 3 descriptors in use, files opened in one mode and pipes in two, paths of up to 2 components |
| `prod_cons` | in every run plates in range and equal to the tokens, no tray made up or lost, mutex with somebody who unlocks it, nobody waits for ever | 3 threads, 2 trays, 2 of each kind, 1 rest pending, any number of runs |
| `philosophers` | in every run no fork in two hands, one philosopher kept out besides the places left over, everyone eats | 2 at a time, 3 births and 1 death in a run, at most 1 fork and 1 place left over |
| `user` | a clean prompt after every line, the prompt comes back; games end, lines are answered, threads are joined, each with the right result; joins of the right thread; all with Ctrl-C and ticks in the wrappers | 4 TCBs with 2 tids besides the main one's; 13 lines of 1 to 3 commands, 3 processes at a time; a board of 2 by 4 with 2 tokens; lines of up to 3 characters; 2 threads of each kind, runs that begin at -1, 0 or 1 |
| `data` | waitpid of the right one, exact table, pages and blocks that do not overlap, exact lists, callbacks, screen and history, parser and texts equal to their definitions | 3 pids and 4 allocations; 8 pages with every request from 0 to 9; 9 units of heap; lists of 4; a screen of 2 by 3 with 2 lines of history; lines of 6 characters, texts of 5; files of 2 bytes |

The bounds let the cases of interest happen: three TCBs are an owner, a waiter
and a new thread that takes a killed waiter's tid; two pids and two tids give
kills of a thread by a sibling and by another process; 8 pages are four orders,
so that marks climb over several levels; a buffer of three bytes wraps around in every
alignment with reads and writes of two; three threads are two chefs and a waiter or the
reverse; with two philosophers and two forks a table that let both in would deadlock; two free
nodes are a directory with a file in it, and a file and a pipe beside each other; a line of three
commands has a process with two pipes; 9 units hold blocks of two sizes whose headers are left behind, written over and followed;
one token left over is a second one that a later game finds, and one fork or place left over lets one more in than a fresh table; a screen of
two lines scrolls, and two lines of history wrap; six characters are two commands with an argument, quotes, or
a pipe too many. Every property is broken by at least one mutant of the code (a definition whose comment
begins with "Mutant of"). Each of the joint properties of `user` and `data` (`ResultsRight`, `ProgramsEnd`,
`ListsExact`, `ReadersExact`, `PagesExact`) names the parts' own, which their modules explain.

`violation` runs record where the code departs from what the reports or comments say:

| run | departure |
|---|---|
| `nice_wakes_waiter` | setNiceness runs a thread that waits for a mutex |
| `buddy_overlap` | a free releases the parent of a block that is held |
| `wrapper_tick` | a tick in the wrapper's killProcess leaves the process ALIVE for ever |
| `pipe_full` | a full buffer reads as empty, and is lost |

Smaller departures have no run of their own; a change to a cfg, or to a set that an `MC*` module gives it, shows them:

| where | change | departure |
|---|---|---|
| `BuddyOverlap.cfg` | check `FailsOnlyWhenFull` | free buddies are not joined |
| `BuddyOverlap.cfg` | check `FreeSucceeds` | a free of one page reports ERROR |
| `WrapperTick.cfg` | `SPECIFICATION SpecAnyWaiter`, check `ReapsItsOwn` | with two waiters, a waiter reaps a slot that is empty or another's |
| `WrapperTick.cfg` | `SPECIFICATION SpecAnyWaiter`, check `NoMissedEnd` | a second waiter sleeps for ever |
| `Scheduler.cfg` | `Quantum <- KernelQuanta`, check `QuantumOfNice` | a thread's quantum does not depend on its niceness: it loses the processor at its first tick |
| `PipeFull.cfg` | `Scenarios = {{"reopen"}}` | a read of an empty buffer returns at once after a reopening |
| `Pipe.cfg` | drop `"kill" \notin may` from `NoStuckCall` | a killed reader takes the only token |
| `FileSystem.cfg` | `MayRemoveCwd = TRUE` | the current directory of a process can be removed, and files be made in it then (`FilesExact`) |
| `User.cfg` | `Careful = FALSE` | a second joiner waits for ever or reads freed memory (`JoinsExact`) |
| `Data.cfg` | `BothCtrl = TRUE` | of two control keys held the first released takes the other's effect along |
| `Data.cfg` | `FillsLastRow = TRUE` | a line that reaches the last cell scrolls away from under the line editor |
| `User.cfg` | `LateErrors = TRUE` | a command refused after the first of a line leaks the pipes made before it (`CleanPrompt`) |

Others the models have as steps, after which the properties say nothing or say so by name:

- a tick in threadWrapper or processWrapper: a joiner, or the shell, waits for ever (`EndTick`, `Tick`);
- a waiter that is killed after it was woken: its zombie can be reaped by nobody (`reaperKilled`);
- a chef that sends another one to rest goes on without mutex and token, and the other one may die with the mutex (`crossed`): more
  plates than trays (the menu of `prodCons.c:61` promises a maximum), or a mutex that nobody unlocks;
- later runs of `prodCons` and `philosophers` begin with the tokens of earlier ones (`began`, `leftForks`, `leftPlaces`), with no tray at all
  in the end, or with places for philosophers that have no forks; a run that is left by Ctrl-C, or quits while a philosopher holds `eMutex`,
  leaves a mutex that nobody unlocks (`Gone`);
- semClose and mutexClose free a descriptor that stays registered (`stale`);
- `merge` follows `prev` to what a caller has written (`Lost`);
- a game of snake that ends before its semaphore is open waits for ever, a token left over ends the next one at once, ESC at
  the instructions signals nobody (`missed`, `left`);
- the clock that ends while it draws, and the one killed between its frequency and the turn (`struck`);
- ESC before the slave of `toUppercase` has opened its fifos leaves both processes waiting (`Alone`).

Others are seen in the code; the models keep them out of their inputs, or have them where no property is about them:

- `removeFile` of the root reads through its NULL directory; `linkedList` and circular lists are only deleted
  from with the limits that the kernel uses (`deleteByValue` of several goes on from a freed node).
- `Terminal`: a line of 100 characters overflows; Down with an empty history reads an unused line; the callback behind one that
  removes itself misses a tick; with the table of callbacks full a removal doubles the last slot; a tab moves
  by the wrong number of columns.
- `ParseLine`: more commands than the limit are taken as arguments, and the message of
  `sampleCodeModule.c:202` is never reached; `argv[currArg] = NULL` is written behind the array when it is full; `&` counts
  inside of quotes, and a backslash is known to parseCommands only.
- `CommandTable`: unregistering shifts names and functions, but not descriptions and flags.
- `Texts`: a negative number printed with `%d` comes out as a `uint64_t`; `scanNumber` without a digit runs off its text.
- `ToUppercase` and `Snake` write behind `buff[100]`, and behind the snake's array past its longest.
- `listProcess` reads the name of a parent that may have been reaped (`process.c:328`).
- `upDown` makes its mutex under the name that `prodCons` uses: run together, they share it (one left locked by either is in both models).
- `openFile` without memory for a buffer frees the opened file and leaves it in the list (`fileSystem.c:408-412`).
- The end of a background program takes the foreground back to the shell from the one that has it; Ctrl-C at the
  prompt reaches the shell itself, or a zombie.

The queues' quanta are counted with `>` after the increment, one tick more than
the report says (`ShortTerm`).

**Deadlock** is checked in `thread_sync` and `scheduler` only. Elsewhere the system may stop: in `data` texts reach their bound
and the kernel that lost its last zombie starts no shell again; in the pipe runs all processes
may sleep on an empty buffer, in `file_system` in semaphores; the programs end, the last
philosopher waits for company, and one that dies alone waits for ever.

**Environment.** Where the code is only right if its callers behave, the passing run
assumes it, and a violation run or a line of the table drops the assumption: one waiter per process
(the shell waits for its own commands), no setNiceness of a process whose
threads wait and no endless row of setNiceness calls, no buffer
filled to its last byte, no writer after the last one closed, and the other conditions of the table above. Three
things are assumed everywhere: nobody asks malloc for 0 bytes (all callers ask for the size of something); one clock, one
restaurant and one table of philosophers run at a time; and what follows the use of a descriptor that was freed does no harm outside
of `FileSystem` (every game of snake ends in one: it closes its semaphore, and its end closes it again, `snake.c:276`).

**Fairness.** `Scheduler`: `WF(Yield)` (a thread that gives up the processor reaches its
`int 20h`) and `SF(Listed(current) /\ Tick)` (the timer interrupts again and again, and not
only in the few instructions after a thread delisted itself; a
thread that always yields first would otherwise never see a tick). `NoStarvation`
needs both: only counted ticks move the scheduler to the other queue. `Pipe`: `WF(Resume(t))`,
a woken thread is dispatched, which is `NoStarvation`. `ProdCons` and
`Philosophers`: `WF` of each thread's steps (the same), and `SF` of its `sem_wait` and `mutex_lock`:
wait queues are served in their order, so that who waits while others come and go gets its turn.
The main threads are under no fairness, but a birth that has begun is finished. `User`: `WF` of each
thread of a program, of the shell's steps and of the programs it starts; keys, Ctrl-C, ticks in the wrappers and new runs are
under no fairness, so what is claimed is that what needs no key comes to its end, or to one of the ends that the property names.

## 4. Proofs

Each component's theorems are in a module of their own, and hold for every value of its constants. They rest on the
named ASSUME of the component (TLC evaluates it in every run) and on nothing else, but for the hypotheses named below the table.
Those of `Data` and `User` are about `PartSpec`: what they say of a part holds where it runs.

| theorem | of | states |
|---|---|---|
| `TypeCorrect` | `ThreadSync` | `Spec => []TypeOK` |
| `MutualExclusionHolds`, `HolderOwnsHolds` | | one thread is inside a mutex, the one that lock word and owner fields name |
| `TcbsExactHolds` | | a TCB is in one place, not dangling, not lost (also `OnePlaceHolds`, `NoDanglingTcbHolds`, `NoLostTcbHolds`) |
| `NoLostWakeupHolds` | | nobody waits for a free mutex or beside a token |
| `QueuesRight` | `Scheduler` | a listed thread is in one list, the one where removal looks for it; the counter is right |
| `OnlyListedRun` | | every step is one of `RunQueue`, every dispatch to a listed thread |
| `ReapsRight`, `ZombiesReapable` | `ProcessTable` (`Data`) | who is woken in waitpid reaps the process it waited for; the zombies nobody can reap are those whose woken reaper was killed |
| `TableKept` | | a slot per process, exact `process_count`, no overcount of those alive |
| `HeapSound` | `Heap` (`Data`) | the blocks of the list fill the memory end to end, those in use are the callers', for all sizes and orders, until a back pointer to what was written over is followed |
| `CallbacksRight` | `Terminal` (`Data`) | each callback is in the table once, exactly while it is wanted, through ticks in which they remove themselves |
| `LineRight` | | the screen shows the line that Enter will run and nothing behind it, and no block is left anywhere |
| `HistoryKept` | | the history holds the last lines entered, in order |
| `TypedRight` | `Keyboard` (`Data`) | a key gives the character of the modifiers that are down |
| `LookupRight` | `CommandTable` (`Data`) | the registered names, and no others, find their function |
| `ClockGoesOn` | `DigitalClock` (`Data`) | beeps and colours are of the tables, and the flag is up only while a thread draws, from run to run, up to an end that cuts a step in two |
| `JoinsRight` | `ThreadLife` (`User`) | a join returns after the end of its thread, from a TCB still in memory; none is lost but by a tick in threadWrapper |
| `PromptClean` | `Shell` (`User`) | at the prompt no end of a pipe is open and every command in the foreground was reaped |
| `ProgramsRight` | `Snake`, `ToUppercase`, `UpDown` (`User`) | games end for a reason (a token left over is one), answers are the line in capitals, ups and downs of a run cancel out, from run to run (also `GameRight`, `ReplyRight`, `SumRight`) |
| `ReadersRight` | `Pipe` | who is let in to read finds bytes or the end of file |
| `NobodyStuck` | | nobody sleeps beside what he waits for |
| `BufferIsQueue` | | `Spec => ImplementsQueue`: a buffer is the bounded queue of `ByteQueue` |
| `SleepersSafe` | `FileSystem` | nobody sleeps in a semaphore or mutex that was freed (until a stale descriptor is used) |
| `PipesAllFreed`, `CountsKept` | | unnamed pipes go with their last descriptor; the counts of files are those of the descriptors (until a stale one is used) |
| `FilesRight` | | directories' lists stay sorted and agree with the back pointers; no file is in two or in none |
| `OpenedRight` | | what is opened is a file, not freed and no directory |
| `NameSpaceKept` | | `Spec => ImplementsNameSpace`: the tree is the map from paths to types of `NameSpace` |
| `RestaurantKept`, `MutexUnlocked` | `ProdCons` | in every run, plates, trays and tokens agree with what it began with, and the mutex has an owner that will unlock it or died of a Ctrl-C; up to a rest that cancels another thread |
| `ForksRight`, `TableRight` | `Philosophers` | in every run, no fork in two hands; one philosopher is kept out besides the places left over |

`ProcessesBeside` and `JoinsBeside` carry the theorems of `ProcessTable` and `ThreadLife` over to the compositions.

**Hypotheses.** Each is a constant, or a condition on constants, that says how the code is used. What goes wrong otherwise is
in the table of departures and in the list behind it. The runs have all of them.

- `Careful` (`JoinsRight`): a thread is joined once, by another one, and afterwards cancelled by nobody; nor is its joiner.
- `~MayRemoveCwd` (`FilesRight`, `OpenedRight`, `NameSpaceKept`): rm is not called on a current directory.
- `Roomy` (`CallbacksRight`, `HistoryKept`, `LineRight`): the table has a slot more than there are callbacks, three, and
  a line is shorter than its buffer. The kernel's table has 255 slots.
- `Narrow` (`LineRight`): no line reaches the last cell of the screen, and a row has two cells at least.
- `~BothCtrl` (`TypedRight`): the two control keys are not held at once.
- `~LateErrors` (`PromptClean`): commands after the first of a line are not refused.

`Pipe` has no such hypothesis: its properties say in which scenarios they hold. Those of `ProdCons`, `Philosophers`, `Heap`, the programs and the
counts of `FileSystem` have none either: their statements name the events up to which, or relative to which, they hold.

### The inductive invariants

Each module has `Init => IInv` and `IInv /\ [Next]_vars => IInv'` as lemmas. A step has one case per action, and
an action that changes much has a lemma of its own. What the conjuncts of `IInv` besides `TypeOK` are for:

- **ThreadSync**, `TcbsExact /\ Locks`. `TcbsExact` is `OnePlace`, `NoDanglingTcb`, `NoLostTcb` together: that a killed waiter
  is freed by its waker and by nobody else needs that it is in one queue, and the other way round. `Locks` is
  `MutualExclusion`, `HolderOwns` and `NoLostWakeup` with `LockWords` (they are 0 or 1) and `KilledNoClaim` (a
  killed thread is inside no mutex), because the owner fields name a pid and a tid and not a thread: an owner
  that was killed leaves them behind and its tid is reused. The proof shows that a new thread with that name, which an
  unlock would be accepted from, is not inside and frees nobody's critical section.
- **Scheduler**, `Housed /\ threadCount = Cardinality(Queue0) /\ Forced`. `Housed` says of every list what its members have in
  common (queueID, niceness, and for the backup queue that its level has the turn), from which it follows where
  removal finds them. The hard step is `setNiceness`, which removes the threads of a process with the old
  niceness and enqueues them with the new one. `Forced` says that a running thread that delisted itself has asked for the switch: the
  tick that comes in between dispatches one that is listed.
- **ProcessTable**, `SlotsExact /\ NeverOvercounted /\ Waits`. `WaitersNamed` ties the pid that a waiter keeps in a local variable
  to the process that had it at the call; `EntriesWait`, `QueuedOnce` and `NoEarlyToken` say that a signal finds that waiter, and only at the end.
  `ZombieReapable` is inductive with them: a zombie's token is taken by one who will reap it, or who is killed and noted.
- **Heap**, `HeapInv`: where blocks are (`Tiles`, `HeapShape`) and who is used (`Owned`): headers that `free` took out of the
  list are free for good, so that a stale `prev` names a header of the list, one of those, or nothing that is a header, in which
  case the memory is lost. `split` and `merge` move headers between the two kinds; that the list is the least set closed under `next`
  (`ListCloses`, `ListLeast`) gives what is in it before and after.
- **Terminal**, `TermInv /\ Display`. `Callbacks` (in `Good`): no callback twice, and the three are in the table as `sound` and `enabled` say.
  `History`: every line of `hist` ends before the next one, and the k-th line back is the k-th entered, wherever the index
  wraps. `Display`: there are a place of the prompt and a number of backspaces still to come such that what is on the screen,
  what is still to be printed, and `cmd` fit together (`Typing`), although ticks come between and the screen scrolls.
- **Keyboard**: each flag says whether one of its keys is down. **CommandTable**: no name twice, the functions as
  registered. **DigitalClock**, `Tuned`: which way the frequency may go from where it is, and where the turn is still to come; who draws.
- **Shell**, `HeldIs /\ Numbered /\ Awaited /\ Accepted`: every end that is open is one that a loop has still to close, and
  every process in the foreground one that the third loop has still to wait for, by the loop and the index it is at.
- **Snake**, `Announced`: who signals, and every token, says that `status` is set, but for a token left over. **ToUppercase**, `Sent /\ Opened`: one line is on its
  way, in a fifo or with the slave, and an answer has a `nul` behind the line if there is room. **UpDown**, `Balanced`: the
  variable is away from where the run began by the difference of the cardinalities of the rounds made up and down, with `Queued` and
  `Seen` for the mutex.
- **ThreadLife**, `Table /\ Joiners /\ Joined /\ Leaving`: a joiner is `Asleep` until its thread ends, or `Woken` and the thread's TCB kept;
  the thread inside of threadWrapper's killThread has left the scheduler.
- **Pipe**, `Tokens /\ Callers /\ Shut /\ Worth`. `Tokens` is the heart: there is one token, in the semaphore or with a call
  that was let in, exactly while `allowReaders` (`allowWriters`) is 1; one direction fails if a killed process took the token along.
  `Shut` and `Worth` say what it is worth: bytes or the end of file.
- **FileSystem**, `CountsExact /\ PipesFreed /\ Gone /\ Holding`: counts are the cardinalities of sets of descriptors; who sleeps in an
  object has a descriptor of it, which keeps it from being freed; who does not run has none. The last three theorems need
  `Tree /\ Used` besides. `Tree` is `TreeExact` with `Rooted` (all but the root and unnamed pipes are in a directory, under a
  name) and `Acyclic` (there are ranks that fall from a directory to what is in it): without ranks neither the recursion
  of `removeFile` down the lists nor that of `getCWDPath` up the back pointers could be shown to end. `Used` says that
  processes are in directories and have files open. The removal of a tree is the hard step: what is freed comes
  after all that is in it (`PostOrderVisits`, `RemovedIs`), so that no directory goes before its files even if
  one that is opened ends it half-way.
- **ProdCons**, `RestaurantExact /\ Mutual /\ Roster /\ Fewer /\ Ended`: which places in the program own the mutex, who is on the list
  of its kind, that all threads go with a run (`Ended`), and that between runs too there are no more tokens than trays (`Fewer`).
- **Philosophers**, `ForksKept /\ PlacesKept /\ Births`: forks in hands are counted with a weight per place in the program (0, 1 or
  2), places at the table also while main is inside `born`, both from what the run began with.

The refinements go by mapping each action: `MutexLockContended`, `SemWaitBlock` and `SleepCurrentThread` of `ThreadSync` to a
dequeue with a dispatch, wake-ups and starts to enqueues; `MakeFile` to `Make` and `RemoveFile` to `Remove`, every other
call of `FileSystem` to `Use`, because paths are injective on the tree (`PathsAre`) and files that stay keep theirs
(`SamePaths`); `SetNiceness` of `Scheduler`, and its walk of levels, to stuttering, since
the set of those listed stays; `Transfer` of `Pipe` to a read of the first bytes between the cursors or a write behind them, whether or not the
cursors wrap.

What operators do has lemmas of its own: `PopTo` and `Dispatch` of `ThreadSync`; what is on a list after an append, a
removal, a walk or a move (`Holds*` of `SchedulerProofs`); removal of a descriptor from those of a file
(`ClosedCounts`), path look-up (`GetFileIs`), a sorted list with one more (`InsertedIs`) or some less (`WithoutIs`),
what removeFile visits (`PostOrderUnder`); cursors (`Forward`, `Room`, `Place*` of `PipeProofs`); a row of the table
of callbacks added or taken out (`Added`, `TakenOut`), a character, a backspace, a line feed on the screen
(`LetterPut`, `BackPut`, `EnterPut`), a line copied into the history (`Copied`); blocks found, cut and joined
(`Found`, `CutGood`, `JoinedKeeps`). Recursive functions on numbers (`Without`, `Among`, `merge`, a tick) are shown to
be what their equations say by `Recursion`, which builds the function from its finite approximations with `Induct`;
those over the tree (`PostOrder`, `PathOf`) in the same way, by ranks and depths.

Attempts that failed changed the model where it had left something open. `MaxBorn` must not be 0; `ThreadOrder` must list every
thread once; `DispatchesListed` had asked about the lists before the step, and `setNiceness` and wake-ups in
the same step change them. `Shell` had carried the list of its calls to come, of which nothing could be said but by recursion: it
now has the loops' own index. `Heap`'s walks and `Terminal`'s tick were folds, and are a least set and a recursive function now. No key may
be called what Ctrl-C puts out, and the middle of `Snake`'s board must be a pair of numbers.

### What stays with TLC

- What a run finds that ends in the middle of a call is not split further than the modules' steps: a tick inside of killThread or
  killProcess falls between their steps as `ThreadLife`, `Shell` and `ProcessTable` name them, not inside of one.
- All liveness (`NoStarvation`, `EOFReleases`, `Serves`, `EveryoneEats`, `PromptReturns`, `ProgramsEnd`): nothing here
  reasons about fairness or `ENABLED`.
- `PagesExact`, `FailsOnlyWhenFull`: the nodes of the buddy tree are reached with powers of two and a search that recurses on
  its result; what both compute needs induction over data.
- `ListsExact`: the lists' operations are compared with folds and a sort of sequences.
- Of `ReadersExact` the parser, the texts and the modules, which read a sequence to its end. Its other parts are
  `TypedRight`, `LookupRight` and `ClockGoesOn`.
- The four violation runs, which need a counterexample and no proof.

## 5. Plan, and what is not modelled

Done: all modules above, and proofs of every safety property that does not rest on induction over data. What could be added
are the parser and the texts as functions of the position, about which `Recursion` would give the equations.

Not modelled:

- the boot loader (Pure64, BMFS): third-party, before the kernel;
- the table of glyphs, bitmaps, pixels, colours and font sizes: data, and output of which nothing depends;
- the real-time clock (its registers are only read), the dump of registers at an exception, `cmd_memoryManagerTest` and
  the commands of the shell that print something or make one system call;
- the queue of background readers (`intHandlers.c:62-76`): a process reaches it only after it has closed its standard input;
- the keyboard interrupt's write to a full `/dev/stdin`, 4096 keys that nobody read: `Pipe` has the write, but no step in
  which an interrupt puts whom it interrupted to sleep;
- failures for lack of memory in the middle of createProcess, createThread and openFile, which the code does not undo;
- what happens once memory that was freed is used (`used`, `Lost`, `crossed` stop there);
- `rm` of a named semaphore or mutex between two runs of a program (`UpDown` has it, `ProdCons`, `Philosophers` and `Snake` begin every
  later run with what is left), and a slave of `toUppercase` that outlives its parent's run;
- Ctrl-C on a zombie in `Shell` (`ProcessTable` has it);
- `memcpy`, `memset`, the build files and the host's side of the packer's errors.
