-------------------------------- MODULE User --------------------------------
(***************************************************************************)
(* The shell and the programs with fairness, and the threads of a process, *)
(* side by side: a behaviour is one of a single part, and the variables of *)
(* the others stay as they begin.                                          *)
(***************************************************************************)
EXTENDS ThreadLife

CONSTANTS
    Lines, MaxPid, LateErrors,                              \* Shell
    Width, Height, Middle, MaxSnake, GrowRate, FoodSpots,   \* Snake
    Lower, Other, Upper, MaxLine,                           \* ToUppercase
    N, Rounds, MaxDrift                                          \* UpDown

VARIABLES
    part,
    line, at, call, pids, held, proc, data, foregroundPID,        \* Shell
    main, mover, timer, tokens, semOpen, over, dir, snake, comidita, left, missed, \* Snake
    parent, slave, fifo, text, buff, shown,                            \* ToUppercase
    counter, threads, global, waiters, began                             \* UpDown

shell == <<line, at, call, pids, held, proc, data, foregroundPID>>
game == <<main, mover, timer, tokens, semOpen, over, dir, snake, comidita, left, missed>>
fifos == <<parent, slave, fifo, text, buff, shown>>
sum == <<counter, threads, global, waiters, began>>
partVars == <<part, vars, shell, game, fifos, sum>>

-----------------------------------------------------------------------------
S == INSTANCE Shell
G == INSTANCE Snake WITH MaxLength <- MaxSnake, status <- over
U == INSTANCE ToUppercase WITH MaxLength <- MaxLine, line <- text
D == INSTANCE UpDown WITH main <- counter, queue <- waiters

ASSUME UserAssumption ==
    S!ShellAssumption /\ G!SnakeAssumption /\ U!ToUppercaseAssumption /\ D!UpDownAssumption

-----------------------------------------------------------------------------
PartInit ==
    /\ part \in {"threads", "shell", "game", "fifos", "sum"}
    /\ Init /\ S!Init /\ G!Init /\ U!Init /\ D!Init

PartNext ==
    /\ UNCHANGED part
    /\ \/ part = "threads" /\ Next /\ UNCHANGED <<shell, game, fifos, sum>>
       \/ part = "shell" /\ S!Next /\ UNCHANGED <<vars, game, fifos, sum>>
       \/ part = "game" /\ G!Next /\ UNCHANGED <<vars, shell, fifos, sum>>
       \/ part = "fifos" /\ U!Next /\ UNCHANGED <<vars, shell, game, sum>>
       \/ part = "sum" /\ D!Next /\ UNCHANGED <<vars, shell, game, fifos>>

\* None is fair to a step that it begins with: in the others' behaviours these say nothing.
PartSpec == PartInit /\ [][PartNext]_partVars /\ S!Fairness /\ G!Fairness /\ U!Fairness /\ D!Fairness

-----------------------------------------------------------------------------
\* The properties of each part: see there; that of the threads is ThreadLife's own.
CleanPrompt == S!CleanPrompt
PromptReturns == S!PromptReturns

\* A game is over for a reason, an answer is the line in capitals, and the ups and downs
\* of a run cancel out.
ResultsRight == G!OverWhenLeft /\ U!RightReply /\ D!EndsAsBegun

\* And that moment comes: games end, lines are answered, threads are joined.
ProgramsEnd == G!GameEnds /\ U!Answers /\ D!AllJoined
=============================================================================
