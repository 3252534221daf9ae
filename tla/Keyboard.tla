------------------------------ MODULE Keyboard ------------------------------
(***************************************************************************)
(* The keyboard driver (kb_driver.c): kb_fetch turns the scan code of each *)
(* interrupt into a character, with four flags for what is held down.      *)
(* What becomes of the character is in Terminal and FileSystem.            *)
(***************************************************************************)
EXTENDS Integers, FiniteSets

CONSTANTS Letter,  \* keys with a letter, "c" among them
          Symbol,  \* keys with a symbol on each of asciiNonShift and asciiShift
          BothCtrl \* the two control keys, whose scan codes are the same, are held at once

KeyboardAssumption ==
    "c" \in Letter /\ Letter \cap Symbol = {} /\ "kill" \notin Letter \cup Symbol /\ BothCtrl \in BOOLEAN

Modifier == {"lshift", "rshift", "lctrl", "rctrl"}

VARIABLES ctrl, lshift, rshift, blockm, \* the flags
          down,   \* the modifiers that are held down
          caps,   \* whether caps lock has been pressed an odd number of times
          output  \* of the last key: a key and its level, Ctrl-C, or nothing

vars == <<ctrl, lshift, rshift, blockm, down, caps, output>>

None == [key |-> "none", level |-> 0]
CtrlC == [key |-> "kill", level |-> 0]

Init ==
    /\ ctrl = 0 /\ lshift = 0 /\ rshift = 0 /\ blockm = 0
    /\ down = {} /\ caps = FALSE /\ output = None

-----------------------------------------------------------------------------
\* The cases of kb_fetch for a modifier.
Flags(m, value) ==
    /\ ctrl' = IF m \in {"lctrl", "rctrl"} THEN value ELSE ctrl
    /\ lshift' = IF m = "lshift" THEN value ELSE lshift
    /\ rshift' = IF m = "rshift" THEN value ELSE rshift
    /\ output' = None
    /\ UNCHANGED <<blockm, caps>>

\* A modifier held down repeats its code.
Press(m) ==
    /\ m \in {"lctrl", "rctrl"} => BothCtrl \/ down \cap {"lctrl", "rctrl"} \subseteq {m}
    /\ down' = down \cup {m}
    /\ Flags(m, 1)

Release(m) == m \in down /\ down' = down \ {m} /\ Flags(m, 0)

CapsLock ==
    /\ blockm' = 1 - blockm /\ caps' = ~caps /\ output' = None
    /\ UNCHANGED <<ctrl, lshift, rshift, down>>

\* The table the character is taken from, asciiShift for 1; isAlpha tells letters.
Level(k) ==
    IF lshift = 1 \/ rshift = 1 THEN IF blockm = 1 /\ k \in Letter THEN 0 ELSE 1
    ELSE IF blockm = 1 /\ k \in Letter THEN 1 ELSE 0

\* insert.
Type(k) ==
    /\ output' = IF ctrl = 1 /\ k = "c" THEN CtrlC ELSE [key |-> k, level |-> Level(k)]
    /\ UNCHANGED <<ctrl, lshift, rshift, blockm, down, caps>>

Next ==
    \/ \E m \in Modifier : Press(m) \/ Release(m)
    \/ CapsLock
    \/ \E k \in Letter \cup Symbol : Type(k)

Spec == Init /\ [][Next]_vars

-----------------------------------------------------------------------------
\* kb_fetch: a key gives the character of what is held at that moment: a letter is a capital
\* if just one of shift and caps lock is on, a symbol follows shift alone, and C with a
\* control key kills the process in the foreground.  With BothCtrl it does not: the first of
\* two control keys to be released takes the other one's effect along.
TypedExact ==
    output # None =>
        LET shift == down \cap {"lshift", "rshift"} # {}
            control == down \cap {"lctrl", "rctrl"} # {}
        IN  IF output = CtrlC THEN control
            ELSE /\ ~(control /\ output.key = "c")
                 /\ output.level = 1 <=> IF output.key \in Letter THEN shift # caps ELSE shift
=============================================================================
