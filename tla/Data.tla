-------------------------------- MODULE Data --------------------------------
(***************************************************************************)
(* The parts of the kernel, the user library and the shell that keep a     *)
(* table, a list or a text and whose calls are one step or two, side by    *)
(* side: a behaviour is one of a single part, and the variables of the     *)
(* others stay as they begin.  MCData adds the parts that only TLC checks. *)
(***************************************************************************)
EXTENDS ProcessTable

CONSTANTS
    HeapSize, Blocks,                                         \* Heap
    Key, Symbol, BothCtrl,                                    \* Keyboard
    Name, MaxCommands,                                        \* CommandTable
    CantColors, CantFreq,                                     \* DigitalClock
    Rows, Cols, Letter, MaxLine, HistLines, MaxFunctions,     \* Terminal
    CursorTicks, BeepTicks, DrawTicks, MaxTyped, FillsLastRow

VARIABLES
    part,
    heap, given, user,                                        \* Heap
    ctrl, lshift, rshift, blockm, down, caps, output,         \* Keyboard
    commandList, registered,                                  \* CommandTable
    main, timer, isDrawing, currFreq, step, currColor, heard, struck, \* DigitalClock
    tty, timerSkip, forced, pc, cmd, out, hist, histCurrentIndex, histAccessIndex, histSize,
    entered                                                   \* Terminal

malloc   == <<heap, given, user>>
keyboard == <<ctrl, lshift, rshift, blockm, down, caps, output>>
commands == <<commandList, registered>>
clock    == <<main, timer, isDrawing, currFreq, step, currColor, heard, struck>>
terminal == <<tty, timerSkip, forced, pc, cmd, out, hist, histCurrentIndex,
              histAccessIndex, histSize, entered>>

partVars == <<part, vars, malloc, keyboard, commands, clock, terminal>>

-----------------------------------------------------------------------------
H == INSTANCE Heap WITH Size <- HeapSize, Callers <- Blocks, held <- given, caller <- user

K == INSTANCE Keyboard WITH Letter <- Key

R == INSTANCE CommandTable

D == INSTANCE DigitalClock

E == INSTANCE Terminal

ASSUME DataAssumption ==
    /\ H!HeapAssumption /\ K!KeyboardAssumption /\ R!CommandTableAssumption
    /\ D!DigitalClockAssumption /\ E!TerminalAssumption

-----------------------------------------------------------------------------
Part == {"processes", "malloc", "keyboard", "commands", "clock", "terminal"}

\* A part that begins in several ways begins in one of them where it does not run.
Begin ==
    /\ Init /\ K!Init /\ R!Init /\ D!Init /\ E!Init
    /\ H!Init /\ (part # "malloc" => ~user.frees /\ ~user.lazy)

PartInit == part \in Part /\ Begin

PartNext ==
    /\ UNCHANGED part
    /\ \/ part = "processes" /\ Next /\ UNCHANGED <<malloc, keyboard, commands, clock, terminal>>
       \/ part = "malloc" /\ H!Next /\ UNCHANGED <<vars, keyboard, commands, clock, terminal>>
       \/ part = "keyboard" /\ K!Next /\ UNCHANGED <<vars, malloc, commands, clock, terminal>>
       \/ part = "commands" /\ R!Next /\ UNCHANGED <<vars, malloc, keyboard, clock, terminal>>
       \/ part = "clock" /\ D!Next /\ UNCHANGED <<vars, malloc, keyboard, commands, terminal>>
       \/ part = "terminal" /\ E!Next /\ UNCHANGED <<vars, malloc, keyboard, commands, clock>>

PartSpec == PartInit /\ [][PartNext]_partVars

-----------------------------------------------------------------------------
\* The properties of each part, where it runs: see there; those of the processes are ProcessTable's
\* own.  The blocks of malloc fill its memory, and those in use are the callers'.
HeapExact == part = "malloc" => H!HeapExact

\* The callbacks of the timer, what the screen shows of the line, and its history.
CallbacksExact == part = "terminal" => E!TypeOK /\ E!CallbacksExact
LineShown == part = "terminal" => E!LineShown
HistoryExact == part = "terminal" => E!HistoryExact
=============================================================================
