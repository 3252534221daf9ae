---------------------------- MODULE DigitalClock ----------------------------
(***************************************************************************)
(* programs/digitalClock.c, run again and again: its variables are those   *)
(* of the module in memory, and keep their values from run to run, also    *)
(* when it is killed.  Its main thread and that of its timer both call     *)
(* drawMe.  One clock runs at a time.                                      *)
(***************************************************************************)
EXTENDS Integers, FiniteSets

CONSTANTS CantColors, CantFreq  \* CANTCOLORS, CANTFREQ

DigitalClockAssumption == CantColors \in Nat \ {0} /\ CantFreq \in Nat \ {0, 1}

VARIABLES main, timer,  \* where the two threads are
          isDrawing, currFreq, step, currColor,
          heard,        \* the frequency of the last beep
          struck        \* history: what the end of a run has cut in two, "draw" or "turn"

vars == <<main, timer, isDrawing, currFreq, step, currColor, heard, struck>>

Init ==
    /\ main = "off" /\ timer = "none" /\ struck = {}
    /\ isDrawing = 0 /\ currFreq = 0 /\ step = 1 /\ currColor = 0 /\ heard = 0

tune == <<currFreq, step, currColor, heard, struck>>

\* drawMe from pc to next: the flag is tested, then set, and set back after the print.
DrawMe(pc, next, from) ==
    \/ pc = from /\ next = (IF isDrawing = 0 THEN "set" ELSE "drawn") /\ UNCHANGED isDrawing
    \/ pc = "set" /\ next = "print" /\ isDrawing' = 1
    \/ pc = "print" /\ next = "drawn" /\ isDrawing' = 0

MainDraws ==
    \E next \in {"set", "print", "drawn"} :
        DrawMe(main, next, "draw") /\ main' = next /\ UNCHANGED <<timer, tune>>

TimerDraws ==
    \E next \in {"set", "print", "drawn"} :
        DrawMe(timer, next, "sleeps") /\ timer' = (IF next = "drawn" THEN "sleeps" ELSE next)
        /\ UNCHANGED <<main, tune>>

Start == main = "off" /\ main' = "draw" /\ UNCHANGED <<timer, isDrawing, tune>>

\* newTimer, the first time; then the keys.
Listen ==
    /\ main = "drawn" /\ main' = "keys"
    /\ timer' = IF timer = "none" THEN "sleeps" ELSE timer
    /\ UNCHANGED <<isDrawing, tune>>

Turns(freq) == freq = 0 \/ freq = CantFreq - 1

InTable(freq) == freq \in 0 .. CantFreq - 1

Enter ==
    /\ main = "keys" /\ main' = "beep"
    /\ currColor' = IF currColor < CantColors - 1 THEN currColor + 1 ELSE 0
    /\ UNCHANGED <<timer, isDrawing, currFreq, step, heard, struck>>

\* The beep, and currFreq += step.  Bound: once a beep was out of the table, no other.
Beep ==
    /\ main = "beep" /\ InTable(heard) /\ main' = "turn"
    /\ heard' = currFreq
    /\ currFreq' = currFreq + step
    /\ UNCHANGED <<timer, isDrawing, step, currColor, struck>>

Turn ==
    /\ main = "turn" /\ main' = "draw"
    /\ step' = IF Turns(currFreq) THEN -step ELSE step
    /\ UNCHANGED <<timer, isDrawing, currFreq, currColor, heard, struck>>

\* The run ends with both threads where they are: who prints does not set the flag back,
\* and at an end of the table the step may not have been turned.
End ==
    /\ main' = "off" /\ timer' = "none"
    /\ struck' = struck \cup {w \in {"draw", "turn"} :
                                IF w = "draw" THEN "print" \in {main, timer}
                                ELSE main = "turn" /\ Turns(currFreq)}
    /\ UNCHANGED <<isDrawing, currFreq, step, currColor, heard>>

\* ESC and cancelTimer, whatever the timer's thread does.
Escape == main = "keys" /\ End

\* Ctrl-C, at any point.
Interrupt == main # "off" /\ End

Next == MainDraws \/ TimerDraws \/ Start \/ Listen \/ Enter \/ Beep \/ Turn \/ Escape \/ Interrupt

Spec == Init /\ [][Next]_vars

-----------------------------------------------------------------------------
\* digitalClock, from one run to the next.  Every text has a colour.  Every beep has a
\* frequency, unless a run was killed between a step to an end of the table and its
\* turn.  The flag is up only while a thread draws, so that the next run draws, unless a
\* run ended while one drew.
ClockRight ==
    /\ currColor \in 0 .. CantColors - 1
    /\ "turn" \notin struck => InTable(heard)
    /\ "draw" \notin struck /\ isDrawing = 1 => "print" \in {main, timer}
=============================================================================
