----------------------------- MODULE ParseLine -----------------------------
(***************************************************************************)
(* How the shell takes a line apart (parseCommands and parseArgs of        *)
(* sampleCodeModule.c), as functions of the line, checked against a        *)
(* definition by positions for every line up to MaxLen characters.         *)
(*                                                                         *)
(* Both work in place: they cut the line with "nul" and keep pointers.     *)
(* Here a command or word is the text from its pointer to the next cut.    *)
(***************************************************************************)
EXTENDS Integers, SequencesExt

CONSTANTS Char,         \* of the lines: "quote", "escape", " ", "|", "&" are special
          CommandLimit, \* MAX_FUNCTION_IN_COMMAND
          MaxArgs,      \* MAX_ARGS
          MaxLen        \* bound

ParseLineAssumption ==
    /\ CommandLimit \in Nat \ {0} /\ MaxArgs \in Nat \ {0} /\ MaxLen \in Nat
    /\ "nul" \notin Char

VARIABLE line

Init == line = <<>>
Next == Len(line) < MaxLen /\ \E c \in Char : line' = Append(line, c)
Spec == Init /\ [][Next]_line

-----------------------------------------------------------------------------
\* The loop of parseCommands.  A blank outside of quotes is passed over, in a command and
\* before one; what the skipping stops at starts a command if a pipe is pending.
Scan == [cmds |-> <<>>, foundPipe |-> TRUE, quoted |-> FALSE, escaped |-> FALSE, error |-> FALSE]

Longer(cmds, c) == Append(Front(cmds), Append(Last(cmds), c))

\* Mutant of Separates: a bar in quotes does, too.
SeparatesQuoted(c, quoted) == c = "|"

Separates(c, quoted) == c = "|" /\ ~quoted

Feed(s, c) ==
    LET t == IF s.foundPipe THEN [s EXCEPT !.cmds = Append(@, <<>>), !.foundPipe = FALSE] ELSE s
        cut == Separates(c, s.quoted) \/ c = "nul"
        u == IF cut THEN t ELSE [t EXCEPT !.cmds = Longer(@, c)]
    IN  IF s.foundPipe /\ c = "|" THEN [s EXCEPT !.error = TRUE]
        ELSE IF c = "quote" /\ ~s.escaped THEN [u EXCEPT !.quoted = ~@]
        ELSE IF c = "escape" /\ s.quoted THEN [u EXCEPT !.escaped = TRUE]
        ELSE IF cut THEN [u EXCEPT !.foundPipe = (c = "|")]
        ELSE [u EXCEPT !.escaped = FALSE]

\* With the last command that fits the loop ends: the rest of the line is its text.
ScanChar(s, c) ==
    IF s.error THEN s
    ELSE IF Len(s.cmds) = CommandLimit /\ ~s.foundPipe THEN [s EXCEPT !.cmds = Longer(@, c)]
    ELSE IF Len(s.cmds) = CommandLimit THEN s
    ELSE IF c = " " /\ ~s.quoted
         THEN IF s.foundPipe THEN s ELSE [s EXCEPT !.cmds = Longer(@, c)]
    ELSE Feed(s, c)

\* Blanks at the end are skipped up to the "nul" of the line.
ParseCommands(l) ==
    LET s == FoldLeft(ScanChar, Scan, l)
        t == IF l # <<>> /\ Last(l) = " " /\ ~s.quoted /\ s.foundPipe /\ ~s.error THEN Feed(s, "nul") ELSE s
    IN  IF t.error \/ t.foundPipe THEN <<>> ELSE t.cmds

-----------------------------------------------------------------------------
\* The loop of parseArgs over the characters of a command: the words begun so far, the
\* name of the command first; whether the last one has been cut.
Args == [words |-> << <<>> >>, cut |-> FALSE, foundArg |-> FALSE, quoted |-> FALSE, background |-> FALSE]

Put(s, c) == IF s.cut THEN s ELSE [s EXCEPT !.words = Longer(@, c)]

ArgChar(s, c, next) ==
    LET starts == s.foundArg /\ c # " "
        t == IF starts THEN [s EXCEPT !.words = Append(@, <<>>), !.cut = FALSE, !.foundArg = FALSE] ELSE s
    IN  IF Len(s.words) > MaxArgs THEN Put(s, c)
        ELSE IF c = "&" /\ next \in {"nul", " "} THEN [s EXCEPT !.background = TRUE, !.cut = TRUE]
        ELSE IF c = "quote" THEN [Put(t, c) EXCEPT !.quoted = ~@]
        ELSE IF c = " " /\ ~t.quoted THEN [t EXCEPT !.cut = TRUE, !.foundArg = TRUE]
        ELSE Put(t, c)

ParseArgs(cmd) ==
    LET all == Append(cmd, "nul")
        s == FoldLeftDomain(LAMBDA r, i : ArgChar(r, cmd[i], all[i + 1]), Args, cmd)
    IN  [words |-> s.words, background |-> s.background]

\* commandParser: what the line runs.  A command without a name is unknown, and then
\* nothing runs.
Parsed(l) ==
    LET cmds == [i \in DOMAIN ParseCommands(l) |-> ParseArgs(ParseCommands(l)[i])]
    IN  IF \E i \in DOMAIN cmds : cmds[i].words[1] = <<>> THEN <<>> ELSE cmds

-----------------------------------------------------------------------------
\* The same by positions.
Quoted(l, i) == Cardinality({j \in 1 .. i - 1 : l[j] = "quote"}) % 2 = 1
Sorted(S) == [k \in 1 .. Cardinality(S) |-> CHOOSE i \in S : Cardinality({j \in S : j < i}) = k - 1]

Pieces(l) ==
    LET bars == Sorted({0, Len(l) + 1} \cup {i \in DOMAIN l : l[i] = "|" /\ ~Quoted(l, i)})
    IN  [k \in 1 .. Len(bars) - 1 |-> SubSeq(l, bars[k] + 1, bars[k + 1] - 1)]

Behind(p, i) == p[i] = "&" /\ (i = Len(p) \/ p[i + 1] = " ")
Ink(p, i) == i \in DOMAIN p /\ ~(p[i] = " " /\ ~Quoted(p, i)) /\ ~Behind(p, i)

Words(p) ==
    LET first == Sorted({i \in DOMAIN p : Ink(p, i) /\ ~Ink(p, i - 1)})
        last  == Sorted({i \in DOMAIN p : Ink(p, i) /\ ~Ink(p, i + 1)})
    IN  [k \in DOMAIN first |-> SubSeq(p, first[k], last[k])]

\* A command begins with its name.
Named(p) == Words(p) # <<>> /\ ~\E i \in DOMAIN p : Behind(p, i) /\ \A j \in 1 .. i - 1 : p[j] = " "

\* commandParser: within its limits, a line runs the commands between its bars, each with
\* its words and its "&", if all of them have a name, and else nothing; quotes hide bars and
\* blanks.  In quotes an "&" before a blank still counts, so there the two differ.
ParsedExact ==
    LET pieces == Pieces(line)
    IN  (/\ Len(pieces) <= CommandLimit /\ "escape" \notin ToSet(line)
         /\ ~\E i \in DOMAIN line : line[i] = "&" /\ Quoted(line, i)
         /\ \A k \in DOMAIN pieces : Len(Words(pieces[k])) <= MaxArgs)
        => Parsed(line) = IF \A k \in DOMAIN pieces : Named(pieces[k])
                          THEN [k \in DOMAIN pieces |->
                                  [words |-> Words(pieces[k]),
                                   background |-> \E i \in DOMAIN pieces[k] : Behind(pieces[k], i)]]
                          ELSE <<>>
=============================================================================
