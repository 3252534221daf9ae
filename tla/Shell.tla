------------------------------- MODULE Shell -------------------------------
(***************************************************************************)
(* How the shell runs a line (commandParser of sampleCodeModule.c): pipes, *)
(* processes with their ends of them, the foreground, the waits; and what  *)
(* the kernel does when a program ends or Ctrl-C is pressed.  A step is a  *)
(* system call, but processWrapper, where a program that returns ends with *)
(* interrupts enabled, is several, and a tick among them is its last one.  *)
(* ProcessTable has what can go wrong inside of waitpid, Pipe what can     *)
(* inside of a read.                                                       *)
(***************************************************************************)
EXTENDS Integers, SequencesExt

CONSTANTS Lines,      \* the lines entered: sequences of [prog, bg]
          MaxPid,     \* bound: processes at a time
          LateErrors  \* whether a command after the first may be refused

\* prog is a name.  Of the programs on a line "echo" prints and ends, "cat" reads to the end
\* of its input, and those of the whole screen end with a key.
ShellAssumption ==
    /\ Lines \subseteq Seq([prog : STRING, bg : BOOLEAN])
    /\ \A l \in Lines : l # <<>> /\ Len(l) < MaxPid
    /\ MaxPid \in Nat /\ LateErrors \in BOOLEAN

VARIABLES
    line, at,      \* the commands, and the one that a loop is at
    call,          \* which call comes next for it
    pids,          \* pidList
    held,          \* the ends of pipes in the shell's descriptor table
    proc,          \* the processes that the shell started
    data,          \* what each pipe holds
    foregroundPID

shell == <<line, at, call, pids, held>>
vars == <<shell, proc, data, foregroundPID>>

\* main: how the commands are registered.
FullscreenPrograms == {"digital-clock", "snake"}
Programs == FullscreenPrograms \cup
    {"time", "font-size", "back-color", "test-memory-manager", "toUppercase", "cat", "ps", "prodcons",
     "philosophers", "updown", "arcoiris", "testforeground", "echo", "prueba"}
Internal == {"help", "clear", "ls", "cd", "mkdir", "touch", "rm", "writeTo", "kill", "foreground", "nice",
             "priorityTest", "exit"}

ShellPID == 1
Pid == 2 .. MaxPid
None == [status |-> "none"]

\* The pipes of a line are numbered like the commands that write them.
In(j)  == <<"r", j - 1>>
Out(j) == <<"w", j>>
Pipes == 1 .. MaxPid

Used == {p \in Pid : proc[p] # None}
Alive == {p \in Pid : proc[p].status = "alive"}
AtPrompt == line = <<>>

\* Inside of processWrapper's killProcess, where nothing else runs; and stopped there for ever.
Ending == {p \in Used : proc[p].pc \in {"purged", "closed", "marked"}}
Stuck == {p \in Used : proc[p].pc = "stuck"}

Writing(k) == <<"w", k>> \in held \/ \E p \in Alive : proc[p].out = <<"w", k>>

Init ==
    /\ line = <<>> /\ at = 1 /\ call = "check" /\ pids = <<>> /\ held = {}
    /\ proc = [p \in Pid |-> None]
    /\ data = [k \in Pipes |-> 0]
    /\ foregroundPID = ShellPID

-----------------------------------------------------------------------------
\* The first loop of commandParser refuses a command of l.
Refused(l, j) ==
    \/ l[j].prog \notin Programs \cup Internal
    \/ l[j].prog \in Internal \cup FullscreenPrograms /\ Len(l) > 1
    \/ l[j].prog \in FullscreenPrograms /\ l[j].bg

RefusedLate(l) == ~Refused(l, 1) /\ \E j \in DOMAIN l : Refused(l, j)

\* The keys of a line take longer than a tick: the shell has been dispatched.
ReadLine(l) ==
    /\ AtPrompt /\ (Alive = {} => foregroundPID = ShellPID)
    /\ Cardinality(Pid \ Used) >= Len(l)
    /\ RefusedLate(l) => LateErrors
    /\ line' = l /\ at' = 1 /\ call' = "check" /\ pids' = <<>>
    /\ UNCHANGED <<held, proc, data, foregroundPID>>

\* The first loop, for one command: an error leaves it, and what was made so far; an
\* internal command runs at once; a pipe is made for all commands but the last.
Check ==
    /\ ~AtPrompt /\ call = "check"
    /\ IF Refused(line, at) \/ line[at].prog \in Internal
       THEN line' = <<>> /\ UNCHANGED <<at, call, held, data>>
       ELSE /\ IF at < Len(line)
               THEN /\ held' = held \cup {Out(at), In(at + 1)} /\ data' = [data EXCEPT ![at] = 0]
                    /\ at' = at + 1 /\ UNCHANGED call
               ELSE /\ at' = 1 /\ call' = "exec"
                    /\ UNCHANGED <<held, data>>
            /\ UNCHANGED line
    /\ UNCHANGED <<pids, proc, foregroundPID>>

\* The second loop: what it calls after execv, and after the last call for a command.
AfterOut == IF at > 1 THEN "closeIn" ELSE IF line[1].bg THEN "next" ELSE "foreground"
AfterExec == IF at < Len(line) THEN "closeOut" ELSE AfterOut

GoTo(next) ==
    IF next # "next" THEN call' = next /\ UNCHANGED at
    ELSE IF at < Len(line) THEN call' = "exec" /\ at' = at + 1
    ELSE call' = "wait" /\ at' = 1

\* The end that a command is given: the keyboard and the screen where there is no pipe.
Tty == <<"tty", 0>>
End(e) == IF e \in held THEN e ELSE Tty

\* createProcess: cloneFD gives it a copy of its ends.
Exec ==
    /\ ~AtPrompt /\ call = "exec" /\ GoTo(AfterExec)
    /\ LET p == CHOOSE q \in Pid \ Used : \A r \in Pid \ Used : q <= r
       IN  /\ pids' = Append(pids, p)
           /\ proc' = [proc EXCEPT ![p] = [status |-> "alive", bg |-> line[at].bg, prog |-> line[at].prog,
                                           pc |-> "run", in |-> End(In(at)), out |-> End(Out(at))]]
    /\ UNCHANGED <<line, held, data, foregroundPID>>

\* Mutant of CloseOut: the shell keeps the ends it writes with.
KeepOut ==
    /\ ~AtPrompt /\ call = "closeOut" /\ GoTo(AfterOut)
    /\ UNCHANGED <<line, pids, held, proc, data, foregroundPID>>

CloseOut ==
    /\ ~AtPrompt /\ call = "closeOut" /\ GoTo(AfterOut)
    /\ held' = held \ {Out(at)}
    /\ UNCHANGED <<line, pids, proc, data, foregroundPID>>

CloseIn ==
    /\ ~AtPrompt /\ call = "closeIn" /\ GoTo("next")
    /\ held' = held \ {In(at)}
    /\ UNCHANGED <<line, pids, proc, data, foregroundPID>>

SetForeground ==
    /\ ~AtPrompt /\ call = "foreground" /\ GoTo("next")
    /\ foregroundPID' = pids[at]
    /\ UNCHANGED <<line, pids, held, proc, data>>

\* The third loop: the commands that it still waits for.
Waits == {j \in at .. Len(line) : ~line[j].bg}

WaitPID ==
    /\ ~AtPrompt /\ call = "wait" /\ Waits # {}
    /\ LET j == Min(Waits)
       IN  /\ proc[pids[j]].status = "zombie" /\ proc' = [proc EXCEPT ![pids[j]] = None]
           /\ at' = j + 1
    /\ UNCHANGED <<line, call, pids, held, data, foregroundPID>>

\* Mutant of LineDone: the last command of a pipe is not waited for.
LineDoneEarly ==
    /\ ~AtPrompt /\ call = "wait" /\ (Waits # {} => at = Len(line) /\ at > 1)
    /\ line' = <<>>
    /\ UNCHANGED <<at, call, pids, held, proc, data, foregroundPID>>

LineDone ==
    /\ ~AtPrompt /\ call = "wait" /\ Waits = {}
    /\ line' = <<>>
    /\ UNCHANGED <<at, call, pids, held, proc, data, foregroundPID>>

ShellStep == Check \/ Exec \/ CloseOut \/ CloseIn \/ SetForeground \/ WaitPID \/ LineDone

-----------------------------------------------------------------------------
\* What a program prints goes to its pipe, or to the screen.
Put(d, end) == IF end[1] = "w" THEN [d EXCEPT ![end[2]] = 1] ELSE d

Goes(p, pc) == proc' = [proc EXCEPT ![p].pc = pc]

\* echo.
Writer(p) ==
    /\ proc[p].prog = "echo" /\ proc[p].pc = "run"
    /\ data' = Put(data, proc[p].out) /\ Goes(p, "returned")
    /\ UNCHANGED <<shell, foregroundPID>>

\* cat of a pipe: a read waits for bytes, or for its writers to close.
Copier(p) ==
    LET k == proc[p].in[2] IN
    /\ proc[p].prog = "cat" /\ proc[p].pc = "run" /\ proc[p].in[1] = "r"
    /\ \/ data[k] > 0 /\ data' = Put([data EXCEPT ![k] = 0], proc[p].out) /\ UNCHANGED proc
       \/ data[k] = 0 /\ ~Writing(k) /\ Goes(p, "returned") /\ UNCHANGED data
    /\ UNCHANGED <<shell, foregroundPID>>

\* A key: cat of the keyboard prints it and reads on, a program of the whole screen ends.
Key(p) ==
    /\ proc[p].pc = "run" /\ proc[p].in[1] = "tty"
    /\ \/ proc[p].prog = "cat" /\ data' = Put(data, proc[p].out) /\ UNCHANGED proc
       \/ proc[p].prog \in FullscreenPrograms /\ Goes(p, "returned") /\ UNCHANGED data
    /\ UNCHANGED <<shell, foregroundPID>>

\* killProcess as a system call or an interrupt.
Kill(p) == proc' = [proc EXCEPT ![p] = [@ EXCEPT !.status = "zombie", !.pc = "ended"]]

\* processWrapper: the foreground goes to the parent, then the process ends: its thread
\* leaves the scheduler, its descriptors are closed, it is a zombie, and its parent is woken.
Wrapper(p) ==
    /\ \/ proc[p].pc = "returned" /\ Goes(p, "ends") /\ foregroundPID' = ShellPID
       \/ /\ \/ proc[p].pc = "ends" /\ Goes(p, "purged")
             \/ /\ proc[p].pc = "purged"
                /\ proc' = [proc EXCEPT ![p] = [@ EXCEPT !.pc = "closed", !.in = Tty, !.out = Tty]]
             \/ /\ proc[p].pc = "closed"
                /\ proc' = [proc EXCEPT ![p] = [@ EXCEPT !.pc = "marked", !.status = "marked"]]
             \/ proc[p].pc = "marked" /\ Kill(p)
          /\ UNCHANGED foregroundPID
    /\ UNCHANGED <<shell, data>>

\* A tick in there: the thread is never dispatched again.
Tick(p) ==
    /\ proc[p].pc \in {"purged", "closed", "marked"} /\ Goes(p, "stuck")
    /\ UNCHANGED <<shell, data, foregroundPID>>

\* dispatcher: with two processes alive, Init and the shell, the shell has the foreground
\* when it is dispatched.
Dispatch ==
    /\ Alive = {} /\ foregroundPID' = ShellPID
    /\ UNCHANGED <<shell, proc, data>>

\* Ctrl-C, pressed while the program in the foreground is alive.
Interrupt ==
    /\ foregroundPID \in Alive /\ Kill(foregroundPID)
    /\ UNCHANGED <<shell, data, foregroundPID>>

Program(p) == (p \in Alive /\ (Writer(p) \/ Copier(p))) \/ Wrapper(p)

Next == \/ Interrupt
        \/ \E p \in Ending : Wrapper(p) \/ Tick(p)
        \/ /\ Ending = {}
           /\ \/ \E l \in Lines : ReadLine(l)
              \/ ShellStep \/ Dispatch
              \/ \E p \in Alive : Program(p) \/ Key(p)

\* Neither the shell nor a program is starved; nobody has to press a key.
Fairness ==
    /\ WF_vars(ShellStep) /\ WF_vars(Dispatch)
    /\ \A p \in Pid : WF_vars(p \in Used /\ Program(p))

Spec == Init /\ [][Next]_vars /\ Fairness

-----------------------------------------------------------------------------
\* commandParser: back at the prompt the shell holds no end of a pipe, and of the
\* processes that it started only those in the background are left, alive or not.
\* With LateErrors the pipes made before the error stay open.
CleanPrompt == AtPrompt => held = {} /\ \A p \in Used : proc[p].bg

\* A line whose first command needs no keyboard ends: every reader sees the end of its
\* input.  A program that a tick stopped on its way out of processWrapper may keep it for
\* ever.  And once no program is left the shell is in the foreground, though the program
\* may end before the shell gives the foreground to it.
PromptReturns ==
    /\ (~AtPrompt /\ line[1].prog = "echo") ~> (AtPrompt \/ \E j \in DOMAIN pids : pids[j] \in Stuck)
    /\ (AtPrompt /\ Alive = {}) ~> (foregroundPID = ShellPID)
=============================================================================
