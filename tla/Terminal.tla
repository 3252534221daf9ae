------------------------------ MODULE Terminal ------------------------------
(***************************************************************************)
(* The terminal of Leah: the table of timer callbacks (timer.c), the       *)
(* speaker, the console and its blinking block (console.c), and the        *)
(* shell's line editor with its history (commandListener).                 *)
(*                                                                         *)
(* Every putchar is a system call of its own: ticks, and the beeps and     *)
(* callbacks of other programs, come between any two.  A string, which is  *)
(* one call, is split the same way, and so is exposed to more of them.     *)
(* tty is what the kernel keeps; the screen's cells are numbered by line.  *)
(***************************************************************************)
EXTENDS Integers, SequencesExt

CONSTANTS Rows, Cols,    \* num_Rows, num_Cols
          Letter,        \* the characters that are typed
          MaxLine,       \* MAX_COMMAND_LENGTH
          HistLines,     \* the lines of hist
          MaxFunctions,  \* of the table of callbacks
          CursorTicks, BeepTicks, DrawTicks, \* periods of cursorTick, nosound and a program's callback
          MaxTyped,      \* bound: characters of a line
          FillsLastRow   \* whether lines reach the last cell of the screen

TerminalAssumption ==
    /\ {Rows, Cols, MaxLine, HistLines, MaxFunctions, CursorTicks, BeepTicks, DrawTicks} \subseteq Nat \ {0}
    /\ Letter \cap {" ", "block", "prompt", "enter", "back", "bell", "nul"} = {}
    /\ MaxTyped \in Nat /\ FillsLastRow \in BOOLEAN

VARIABLES
    tty,     \* timerFunctions, whether the speaker is on, and the console
    timerSkip, forced, \* a tick not to be counted; the software tick that noTimer announces
    pc, cmd, \* commandListener: where it is, the line so far
    out,     \* the characters that it has still to print
    hist, histCurrentIndex, histAccessIndex, histSize,
    entered  \* the lines entered, the last first, as many as the history holds

shell == <<pc, cmd, out, hist, histCurrentIndex, histAccessIndex, histSize, entered>>
vars == <<tty, timerSkip, forced, shell>>

Cells == 0 .. Rows * Cols - 1
Blank == [i \in Cells |-> " "]

-----------------------------------------------------------------------------
\* timer_appendFunction and timer_removeFunction.  The shift leaves the last slot of
\* a full table as it is.
AppendFunction(t, f, ticks) ==
    IF Len(t) < MaxFunctions THEN Append(t, [f |-> f, ticks |-> ticks, remaining |-> ticks]) ELSE t

RemoveFunction(t, f) ==
    LET i == SelectInSeq(t, LAMBDA e : e.f = f) IN
    IF i = 0 THEN t
    ELSE IF Len(t) = MaxFunctions /\ i < Len(t) THEN Append(RemoveAt(t, i), Last(t))
    ELSE RemoveAt(t, i)

\* Mutant of Beep: the callback of the sound that goes on is kept.
BeepTwice(m, duration) ==
    [m EXCEPT !.timer = AppendFunction(@, "nosound", duration), !.sound = TRUE]

Beep(m, duration) ==
    [m EXCEPT !.timer = AppendFunction(RemoveFunction(@, "nosound"), "nosound", duration), !.sound = TRUE]

NoSound(m) == [m EXCEPT !.timer = RemoveFunction(@, "nosound"), !.sound = FALSE]

\* cursorTick draws the block, or the background over it.
CursorTick(m) ==
    [m EXCEPT !.screen[m.pos] = IF m.status = 0 THEN "block" ELSE " ", !.status = 1 - @]

ResetCursor(m) == IF m.status = 1 THEN CursorTick(m) ELSE m

SetGraphicCursorStatus(m, on) ==
    IF m.enabled = on THEN m
    ELSE [m EXCEPT !.timer = IF on THEN AppendFunction(@, "cursorTick", CursorTicks)
                                   ELSE RemoveFunction(@, "cursorTick"),
                   !.enabled = on]

\* timer_Tick.  A callback that removes itself moves the next one to the slot that
\* has been passed.
Call(m, f) ==
    CASE f = "cursorTick" -> CursorTick(m)
      [] f = "nosound"    -> NoSound(m)
      [] OTHER            -> m

TickSlot(m, i) ==
    IF i > Len(m.timer) THEN m
    ELSE LET e == m.timer[i]
             due == e.remaining = 1
             counted == [m EXCEPT !.timer[i].remaining = IF due THEN e.ticks ELSE e.remaining - 1]
         IN  IF due THEN Call(counted, e.f) ELSE counted

TimerTick(m) ==
    LET Ticked[i \in 0 .. MaxFunctions] == IF i = 0 THEN m ELSE TickSlot(Ticked[i - 1], i)
    IN  Ticked[MaxFunctions]

-----------------------------------------------------------------------------
\* setCursor refuses what is off the screen.
ShiftCursor(m, k) == IF m.pos + k \in Cells THEN [m EXCEPT !.pos = @ + k] ELSE m

ScrollUp(screen) ==
    [i \in Cells |-> IF i + Cols \in Cells THEN screen[i + Cols] ELSE " "]

IncLine(m) ==
    LET row == m.pos \div Cols IN
    IF row + 1 >= Rows THEN [m EXCEPT !.screen = ScrollUp(@), !.pos = row * Cols]
    ELSE [m EXCEPT !.pos = (row + 1) * Cols]

DrawChar(m, c) == [m EXCEPT !.screen[m.pos] = c]

\* Mutant of PrintChar: backspace moves the cursor with the block drawn.
PrintOverBlock(m, c) ==
    CASE c = "enter" -> IncLine(ResetCursor(m))
      [] c = "back"  -> DrawChar(ShiftCursor(m, -1), " ")
      [] c = "bell"  -> Beep(m, BeepTicks)
      [] OTHER       -> ShiftCursor(DrawChar(m, c), 1)

PrintChar(m, c) ==
    CASE c = "enter" -> IncLine(ResetCursor(m))
      [] c = "back"  -> DrawChar(ShiftCursor(ResetCursor(m), -1), " ")
      [] c = "bell"  -> Beep(m, BeepTicks)
      [] OTHER       -> ShiftCursor(DrawChar(m, c), 1)

ClearScreen(m) == [m EXCEPT !.screen = Blank, !.pos = 0]

-----------------------------------------------------------------------------
\* hist is one block of memory, in which a line ends with "nul".
Memory == 0 .. HistLines * MaxLine - 1

StrCpy(mem, index, line) ==
    [i \in Memory |-> LET j == i - index * MaxLine IN
                      IF j \in 0 .. Len(line) THEN Append(line, "nul")[j + 1] ELSE mem[i]]

Entry(index) ==
    LET at == index * MaxLine
        rest == [i \in 1 .. HistLines * MaxLine - at |-> hist[at + i - 1]]
    IN  SubSeq(rest, 1, SelectInSeq(rest, LAMBDA c : c = "nul") - 1)

Init ==
    /\ tty = [timer |-> <<>>, sound |-> FALSE,
              screen |-> Blank, pos |-> 0, status |-> 0, enabled |-> FALSE]
    /\ timerSkip = FALSE /\ forced = FALSE
    /\ pc = "prompt" /\ cmd = <<>> /\ out = <<>>
    /\ hist = [i \in Memory |-> "nul"]
    /\ histCurrentIndex = 0 /\ histAccessIndex = 0 /\ histSize = 0
    /\ entered = <<>>

History == <<hist, histCurrentIndex, histAccessIndex, histSize, entered>>

\* puts("Terminalator> "), here one character, then the blinking cursor.
Prompt ==
    /\ pc = "prompt" /\ out = <<>>
    /\ pc' = "shown" /\ cmd' = <<>> /\ out' = <<"prompt">>
    /\ UNCHANGED <<tty, History>>

Enable ==
    /\ pc = "shown" /\ out = <<>>
    /\ pc' = "listen"
    /\ tty' = SetGraphicCursorStatus(tty, TRUE)
    /\ UNCHANGED <<cmd, out, History>>

Listens == pc = "listen" /\ out = <<>>

\* The line that is put in the place of cmd.
Fits(line) == FillsLastRow \/ tty.pos - Len(cmd) + Len(line) < Rows * Cols - 1

Backspace ==
    /\ Listens /\ cmd # <<>>
    /\ cmd' = Front(cmd) /\ out' = <<"back">>
    /\ UNCHANGED <<tty, pc, History>>

\* clearLine prints a backspace for each character.  With an empty history the down
\* arrow goes on to the end of hist and past it: it is not followed.
Arrow(index) ==
    LET line == Entry(index) IN
    /\ Listens /\ Fits(line)
    /\ histAccessIndex' = index
    /\ cmd' = line
    /\ out' = [i \in 1 .. Len(cmd) |-> "back"] \o line
    /\ UNCHANGED <<tty, pc, hist, histCurrentIndex, histSize, entered>>

Up == Arrow(IF histAccessIndex > 0 THEN histAccessIndex - 1
            ELSE IF histSize > 0 THEN histSize - 1 ELSE 0)

Down == histSize > 0 /\ Arrow(IF histAccessIndex < histSize - 1 THEN histAccessIndex + 1 ELSE 0)

Type(c) ==
    /\ Listens /\ Len(cmd) < MaxLine /\ Len(cmd) < MaxTyped /\ Fits(Append(cmd, c))
    /\ cmd' = Append(cmd, c) /\ out' = <<c>>
    /\ UNCHANGED <<tty, pc, History>>

\* Mutant of Slot: one line late.
SlotLate == IF histCurrentIndex > HistLines THEN 0 ELSE histCurrentIndex

\* Where the next line goes.
Slot == IF histCurrentIndex >= HistLines THEN 0 ELSE histCurrentIndex

Enter ==
    /\ Listens
    /\ tty' = SetGraphicCursorStatus(tty, FALSE)
    /\ out' = <<"enter">> /\ pc' = "run"
    /\ hist' = StrCpy(hist, Slot, cmd)
    /\ histCurrentIndex' = Slot + 1 /\ histAccessIndex' = Slot + 1
    /\ histSize' = IF histSize # HistLines THEN histSize + 1 ELSE histSize
    /\ entered' = LET all == <<cmd>> \o entered
                  IN  SubSeq(all, 1, IF Len(all) < HistLines THEN Len(all) ELSE HistLines)
    /\ UNCHANGED cmd

\* commandParser, as far as the screen goes: nothing for an empty line; else a command
\* prints, or clears the screen.
Run ==
    /\ pc = "run" /\ out = <<>>
    /\ pc' = "prompt"
    /\ \/ cmd = <<>> /\ UNCHANGED <<out, tty>>
       \/ cmd # <<>> /\ out' = <<"enter">> /\ UNCHANGED tty
       \/ cmd # <<>> /\ tty' = ClearScreen(tty) /\ UNCHANGED out
    /\ UNCHANGED <<cmd, History>>

PutChar ==
    /\ out # <<>>
    /\ tty' = PrintChar(tty, Head(out)) /\ out' = Tail(out)
    /\ UNCHANGED <<pc, cmd, History>>

Shell == \/ Prompt \/ Enable \/ Backspace \/ Up \/ Down \/ Enter \/ Run \/ PutChar
         \/ \E c \in Letter : Type(c)

-----------------------------------------------------------------------------
\* Other programs: sys_beep, or the character that beeps; sys_nosound; a callback.
Programs ==
    \/ tty' = Beep(tty, BeepTicks)
    \/ tty' = PrintChar(tty, "bell")
    \/ tty' = NoSound(tty)
    \/ /\ ~\E i \in DOMAIN tty.timer : tty.timer[i].f = "drawMe"
       /\ tty' = [tty EXCEPT !.timer = AppendFunction(@, "drawMe", DrawTicks)]
    \/ tty' = [tty EXCEPT !.timer = RemoveFunction(@, "drawMe")]

\* irqDispatcher(0), by the timer or by _force_scheduler after noTimer.  A wrapper
\* runs with interrupts enabled: the timer's tick may come first, and is the one that
\* is not counted.
Tick ==
    /\ timerSkip' = FALSE
    /\ tty' = IF timerSkip THEN tty ELSE TimerTick(tty)

RealTick == Tick /\ UNCHANGED <<forced, shell>>
SoftTick == forced /\ Tick /\ forced' = FALSE /\ UNCHANGED shell
NoTimer == ~forced /\ forced' = TRUE /\ timerSkip' = TRUE /\ UNCHANGED <<tty, shell>>

Next == \/ Shell /\ UNCHANGED <<timerSkip, forced>>
        \/ Programs /\ UNCHANGED <<timerSkip, forced, shell>>
        \/ RealTick \/ SoftTick \/ NoTimer

Spec == Init /\ [][Next]_vars

-----------------------------------------------------------------------------
TypeOK ==
    /\ tty.screen \in [Cells -> Letter \cup {" ", "block", "prompt"}]
    /\ tty.pos \in Cells /\ tty.status \in 0 .. 1 /\ tty.enabled \in BOOLEAN /\ tty.sound \in BOOLEAN
    /\ \A i \in DOMAIN tty.timer : tty.timer[i].remaining \in 1 .. tty.timer[i].ticks
    /\ timerSkip \in BOOLEAN /\ forced \in BOOLEAN
    /\ pc \in {"prompt", "shown", "listen", "run"}
    /\ cmd \in BoundedSeq(Letter, MaxTyped)
    /\ hist \in [Memory -> Letter \cup {"nul"}]
    /\ histCurrentIndex \in 0 .. HistLines /\ histAccessIndex \in 0 .. HistLines
    /\ histSize \in 0 .. HistLines

Registered(f) == Cardinality({i \in DOMAIN tty.timer : tty.timer[i].f = f})

\* timer.c, speaker.c and setGraphicCursorStatus: the callback that ends a sound is in
\* the table, once, exactly while there is one, and the one that blinks exactly while
\* the cursor is enabled; none is lost or doubled when one removes itself in a tick.
CallbacksExact ==
    /\ Registered("nosound") = IF tty.sound THEN 1 ELSE 0
    /\ Registered("cursorTick") = IF tty.enabled THEN 1 ELSE 0

\* The block is drawn at the cursor or nowhere, and cursorStatus says so.
NoGhost ==
    \A i \in Cells : tty.screen[i] = "block" => i = tty.pos /\ tty.status = 1

\* commandListener and printChar: what the screen shows from the prompt to the cursor
\* is the line that Enter will run, whatever keys, ticks and scrolls came before;
\* behind the cursor there is nothing, and no block is left behind anywhere.
LineShown ==
    /\ NoGhost
    /\ Listens =>
        LET start == tty.pos - Len(cmd) - 1
        IN  /\ start >= 0
            /\ <<"prompt">> \o cmd = [i \in 1 .. Len(cmd) + 1 |-> tty.screen[start + i - 1]]
            /\ \A i \in tty.pos .. Rows * Cols - 1 : tty.screen[i] \in {" ", "block"}

\* hist holds the last lines entered, in their order from histCurrentIndex down.
HistoryExact ==
    /\ Len(entered) = histSize
    /\ \A k \in 1 .. histSize : Entry((histCurrentIndex - k) % HistLines) = entered[k]
=============================================================================
