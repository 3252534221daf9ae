------------------------------- MODULE Snake -------------------------------
(***************************************************************************)
(* programs/snake.c: main waits on a semaphore for the end of the game,    *)
(* the thread of move reads the keys, that of the timer calls refresh.     *)
(* refresh is one step: of what it reads others only change dir, once.     *)
(* One game follows another: the semaphore stays, with its tokens.         *)
(***************************************************************************)
EXTENDS Integers, SequencesExt

CONSTANTS Width, Height,  \* screen_width, screen_height, in squares
          Middle,         \* where the head starts
          MaxLength,      \* SNAKE_MAX_LENGHT
          GrowRate,
          FoodSpots       \* the squares that rand chooses from

SnakeAssumption ==
    /\ Width \in Nat \ {0} /\ Height \in Nat \ {0} /\ MaxLength \in Nat /\ GrowRate \in Nat \ {0}
    /\ Middle \in Int \X Int /\ FoodSpots \subseteq (0 .. Width - 1) \X (0 .. Height - 1)

VARIABLES main, mover, timer, \* where the three threads are
          tokens,             \* of snakeSem
          semOpen,            \* semFD is the semaphore's
          status, dir, snake, comidita,
          left,               \* history: the game before left a token
          missed              \* history: the status was set, and no signal given

vars == <<main, mover, timer, tokens, semOpen, status, dir, snake, comidita, left, missed>>

Off == <<-1, -1>>
MaxTokens == 2  \* bound: with more of them the game is not followed

Init ==
    /\ main = "instructions" /\ mover = "none" /\ timer = "none"
    /\ tokens = 0 /\ left = FALSE /\ missed = FALSE
    /\ semOpen = FALSE /\ status = 0 /\ dir = "up"
    /\ snake = [i \in 1 .. 4 |-> <<Middle[1], Middle[2] + i - 1>>]
    /\ comidita = <<3, 3>>

\* The shell runs snake again.
NewGame ==
    /\ main \in {"done", "killed"} /\ tokens <= MaxTokens
    /\ main' = "instructions" /\ mover' = "none" /\ timer' = "none"
    /\ left' = (tokens > 0) /\ missed' = FALSE
    /\ semOpen' = FALSE /\ status' = 0 /\ dir' = "up"
    /\ snake' = [i \in 1 .. 4 |-> <<Middle[1], Middle[2] + i - 1>>]
    /\ UNCHANGED <<tokens, comidita>>

\* displayInstructions, and game_start up to its first system call; ESC sets the status
\* and starts the game all the same.
Start ==
    /\ main = "instructions" /\ main' = "createMover"
    /\ status' \in {0, -1} /\ missed' = (status' = -1)
    /\ comidita' \in FoodSpots \ ToSet(snake)
    /\ UNCHANGED <<mover, timer, tokens, semOpen, dir, snake, left>>

CreateMover ==
    /\ main = "createMover" /\ main' = "createTimer" /\ mover' = "reads"
    /\ UNCHANGED <<timer, tokens, semOpen, status, dir, snake, comidita, left, missed>>

CreateTimer ==
    /\ main = "createTimer" /\ main' = "openSem" /\ timer' = "runs"
    /\ UNCHANGED <<mover, tokens, semOpen, status, dir, snake, comidita, left, missed>>

\* sem_create leaves a semaphore that exists as it is, with its tokens.
OpenSem ==
    /\ main = "openSem" /\ main' = "wait" /\ semOpen' = TRUE
    /\ UNCHANGED <<mover, timer, tokens, status, dir, snake, comidita, left, missed>>

Wait ==
    /\ main = "wait" /\ tokens > 0
    /\ tokens' = tokens - 1 /\ main' = "cancelMover"
    /\ UNCHANGED <<mover, timer, semOpen, status, dir, snake, comidita, left, missed>>

CancelMover ==
    /\ main = "cancelMover" /\ main' = "cancelTimer" /\ mover' = "none"
    /\ UNCHANGED <<timer, tokens, semOpen, status, dir, snake, comidita, left, missed>>

CancelTimer ==
    /\ main = "cancelTimer" /\ main' = "done" /\ timer' = "none"
    /\ UNCHANGED <<mover, tokens, semOpen, status, dir, snake, comidita, left, missed>>

Main == Start \/ CreateMover \/ CreateTimer \/ OpenSem \/ Wait \/ CancelMover \/ CancelTimer

-----------------------------------------------------------------------------
\* sem_signal on a descriptor that is not the semaphore's does nothing.
Signal(n) ==
    /\ tokens' = IF semOpen THEN tokens + n ELSE tokens
    /\ missed' = (missed \/ (n > 0 /\ ~semOpen))

Opposite == [up |-> "down", down |-> "up", left |-> "right", right |-> "left"]

Turn(d) ==
    /\ mover = "reads" /\ d # Opposite[dir]
    /\ dir' = d
    /\ UNCHANGED <<main, mover, timer, tokens, semOpen, status, snake, comidita, left, missed>>

Escape ==
    /\ mover = "reads" /\ status' = -1 /\ mover' = "signals"
    /\ UNCHANGED <<main, timer, tokens, semOpen, dir, snake, comidita, left, missed>>

\* Mutant of MoverEnds: the thread ends without the signal.
MoverEndsSilently ==
    /\ mover = "signals" /\ mover' = "none"
    /\ UNCHANGED <<main, timer, tokens, semOpen, status, dir, snake, comidita, left, missed>>

MoverEnds ==
    /\ mover = "signals" /\ mover' = "none"
    /\ Signal(1)
    /\ UNCHANGED <<main, timer, semOpen, status, dir, snake, comidita, left>>

Step == [up |-> <<0, -1>>, down |-> <<0, 1>>, left |-> <<-1, 0>>, right |-> <<1, 0>>]

\* One square on, and around the edges.
Ahead(cell, d) == <<(cell[1] + Step[d][1]) % Width, (cell[2] + Step[d][2]) % Height>>

\* The head lies on a square of the body: seen by the refresh after the one that
\* brought it there.
Struck(body) == \E i \in 2 .. Len(body) : body[i] = body[1]

\* refresh.  From MaxLength on it goes on with squares behind the end of the array: the
\* game is not followed there.
Refresh ==
    LET eats == snake[1] = comidita
        body == IF eats THEN snake \o [i \in 1 .. GrowRate |-> Off] ELSE snake
        full == Len(body) >= MaxLength
        strikes == Cardinality({i \in 2 .. Len(body) : body[i] = body[1]})
    IN  /\ timer = "runs" /\ Len(snake) < MaxLength /\ tokens < MaxTokens
        /\ status' = IF Struck(body) THEN 1 ELSE IF eats /\ full THEN 2 ELSE status
        /\ Signal((IF eats /\ full THEN 1 ELSE 0) + strikes)
        /\ IF eats THEN comidita' \in FoodSpots \ ToSet(body) ELSE comidita' = comidita
        /\ snake' = <<Ahead(body[1], dir)>> \o Front(body)
        /\ UNCHANGED <<main, mover, timer, semOpen, dir, left>>

\* Ctrl-C ends the game at any point.
Interrupt ==
    /\ main' = "killed" /\ mover' = "none" /\ timer' = "none"
    /\ UNCHANGED <<tokens, semOpen, status, dir, snake, comidita, left, missed>>

\* With the end of main the process ends.
Next == \/ NewGame
        \/ /\ main \notin {"done", "killed"}
           /\ \/ Main \/ Escape \/ MoverEnds \/ Refresh \/ Interrupt
              \/ \E d \in DOMAIN Opposite : Turn(d)

\* No key has to be pressed.
Fairness == /\ WF_vars(main \notin {"instructions", "done", "killed"} /\ Main)
            /\ WF_vars(main \notin {"done", "killed"} /\ MoverEnds)

Spec == Init /\ [][Next]_vars /\ Fairness

-----------------------------------------------------------------------------
\* game_start, sem_wait: the game ends only because it was left, lost or won, or because
\* the one before it left a token.
OverWhenLeft == main \in {"cancelMover", "cancelTimer", "done"} => status # 0 \/ left

\* And then it does end, whichever thread found out, and both threads with it, unless the
\* signal came before the semaphore was opened, or none did (ESC at the instructions).
GameEnds == (status # 0) ~> (main \in {"done", "killed"} \/ missed)
=============================================================================
