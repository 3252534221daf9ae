-------------------------------- MODULE Texts --------------------------------
(***************************************************************************)
(* Numbers to text and back: string.c and stdio.c of the user library, and *)
(* printInt and uintToBase of the kernel's console.c, as functions on      *)
(* sequences of ASCII codes, checked for every text up to MaxLen           *)
(* characters and the numbers in them.  Numbers stay below 2^31, and those *)
(* that itoa gets, as a uint64_t, are not negative.                        *)
(***************************************************************************)
EXTENDS Integers, SequencesExt

CONSTANTS Char,   \* of the texts
          MaxLen  \* bound

TextsAssumption == Char \subseteq 1 .. 127 /\ MaxLen \in Nat

VARIABLE text

Init == text = <<>>
Next == Len(text) < MaxLen /\ \E c \in Char : text' = Append(text, c)
Spec == Init /\ [][Next]_text

-----------------------------------------------------------------------------
Blank == 32
Minus == 45
Zero == 48

IsNumeric(c) == c \in Zero .. Zero + 9

\* strcmp.
Strcmp(s, t) ==
    LET At(u, i) == IF i <= Len(u) THEN u[i] ELSE 0
        i == CHOOSE i \in 1 .. Len(s) + 1 :
                /\ i = Len(s) + 1 \/ At(s, i) # At(t, i)
                /\ \A j \in 1 .. i - 1 : At(s, j) = At(t, j)
    IN  IF At(s, i) < At(t, i) THEN -1 ELSE IF At(s, i) > At(t, i) THEN 1 ELSE 0

\* alignString: a column of the given width, or the whole text if it is 0.
AlignString(s, length) ==
    IF length = 0 THEN s
    ELSE [i \in 1 .. length |-> IF i <= Len(s) THEN s[i] ELSE Blank]

\* The loop of atoi over the digits; -1 stands for its early return.
Atoi(s) ==
    LET negative == s # <<>> /\ s[1] = Minus
        Put(res, c) == IF res = -1 \/ ~IsNumeric(c) THEN -1 ELSE res * 10 + c - Zero
        res == FoldLeft(Put, 0, IF negative THEN Tail(s) ELSE s)
    IN  IF res = -1 THEN 0 ELSE IF negative THEN -res ELSE res

Digit(d) == IF d < 10 THEN d + Zero ELSE d + 65 - 10

\* itoa, and uintToBase: the digits from the last one on, then reversed.
Itoa(value, base) ==
    LET Backwards[v \in 0 .. value] ==
          <<Digit(v % base)>> \o (IF v < base THEN <<>> ELSE Backwards[v \div base])
    IN  Reverse(Backwards[value])

\* printInt, with printIntR.
PrintInt(i) ==
    LET abs == IF i < 0 THEN -i ELSE i
        R[v \in 0 .. abs] == (IF v < 10 THEN <<>> ELSE R[v \div 10]) \o <<Zero + (v % 10)>>
    IN  (IF i < 0 THEN <<Minus>> ELSE <<>>) \o R[abs]

\* The conversions of printf, with the number in front of them.
PrintfNumber(value, base, zeroes) ==
    LET tmp == Itoa(value, base)
    IN  [i \in 1 .. Max({0, zeroes - Len(tmp)}) |-> Zero] \o tmp

-----------------------------------------------------------------------------
Power[n \in 0 .. MaxLen] == IF n = 0 THEN 1 ELSE 10 * Power[n - 1]

\* The last digit of those from one on.
RunFrom(s, from) ==
    CHOOSE i \in from .. Len(s) :
        (i = Len(s) \/ ~IsNumeric(s[i + 1])) /\ \A j \in from .. i : IsNumeric(s[j])

\* scanNumber: the number, and how many characters it takes.  Without a digit it would run
\* on behind the end of the text.
ScanNumber(s) ==
    LET from == SelectInSeq(s, IsNumeric)
        to == RunFrom(s, from)
    IN  [found |-> FoldLeft(LAMBDA aux, i : aux + Power[i - 1] * (s[to - i + 1] - Zero), 0,
                            [i \in 1 .. to - from + 1 |-> i]),
         taken |-> to]

LeadingBlanks(s) == SelectInSeq(Append(s, 0), LAMBDA c : c # Blank) - 1

\* scanString and scanChar: the loop over blanks in front of a word takes its first
\* character, too, and does not count it.
ScanString(s) ==
    LET k == LeadingBlanks(s)
        rest == SubSeq(s, IF k = 0 THEN 1 ELSE k + 2, Len(s))
        word == SubSeq(rest, 1, SelectInSeq(Append(rest, Blank), LAMBDA c : c = Blank) - 1)
    IN  [found |-> word, taken |-> k + Len(word)]

ScanChar(s) ==
    LET k == LeadingBlanks(s)
        rest == SubSeq(s, IF k = 0 THEN 1 ELSE k + 2, Len(s))
    IN  IF rest = <<>> THEN [found |-> 0, taken |-> 0] ELSE [found |-> rest[1], taken |-> 1]

\* vscanf: the source moves on behind each value; blanks and "%" in the format mean nothing.
Vscanf(source, format) ==
    LET Scan(s, f) == CASE f = "d" -> ScanNumber(s) [] f = "s" -> ScanString(s) [] f = "c" -> ScanChar(s)
        Step(r, f) ==
          IF r.rest = <<>> THEN r
          ELSE [found |-> Append(r.found, Scan(r.rest, f).found),
                rest |-> SubSeq(r.rest, Scan(r.rest, f).taken + 1, Len(r.rest))]
    IN  FoldLeft(Step, [found |-> <<>>, rest |-> source], format).found

-----------------------------------------------------------------------------
\* The same by positions: the value of a run of digits, and all the runs of a text.
Value(s, from, to) ==
    MapThenSumSet(LAMBDA i : (s[i] - Zero) * Power[to - i], from .. to)

Runs(s) == {r \in (DOMAIN s) \X (DOMAIN s) :
              /\ r[1] <= r[2] /\ \A i \in r[1] .. r[2] : IsNumeric(s[i])
              /\ r[1] = 1 \/ ~IsNumeric(s[r[1] - 1])
              /\ r[2] = Len(s) \/ ~IsNumeric(s[r[2] + 1])}

IsNumber(s) == s # <<>> /\ \A i \in DOMAIN s : IsNumeric(s[i])

\* atoi, itoa, printInt and printf: a text that is a number, with a sign or without, has that
\* value and any other 0; and what is written for a value, padded or not and in either base,
\* reads as that value, with no zero in front that was not asked for.
NumbersExact ==
    LET n == Atoi(text)
        negative == text # <<>> /\ text[1] = Minus
        digits == IF negative THEN Tail(text) ELSE text
        abs == IF n < 0 THEN -n ELSE n
        hex == Itoa(abs, 16)
        HexValue(c) == IF c < 58 THEN c - Zero ELSE c - 55
    IN  /\ n = IF ~IsNumber(digits) THEN 0
               ELSE IF negative THEN -Value(text, 2, Len(text)) ELSE Value(text, 1, Len(text))
        /\ Atoi(PrintInt(n)) = n
        /\ \A w \in {0, MaxLen} : LET t == PrintfNumber(abs, 10, w)
                                  IN  /\ Atoi(t) = abs
                                      /\ Len(t) >= w /\ (Len(t) > w => abs = 0 \/ t[1] # Zero)
        /\ FoldLeft(LAMBDA v, c : v * 16 + HexValue(c), 0, hex) = abs
        /\ hex[1] # Zero \/ Len(hex) = 1

\* vscanf, strcmp and alignString: as many numbers as are asked for, if there are so many,
\* are those of the text in their order, and a word at its start is the word; strcmp is
\* the order of the texts; a column is as wide as it should be and begins as the text does.
\* A word behind a blank loses its first character.
ScansExact ==
    /\ \A k \in 0 .. Cardinality(Runs(text)) :
          Vscanf(text, [i \in 1 .. k |-> "d"]) =
          [i \in 1 .. k |-> LET r == CHOOSE r \in Runs(text) : Cardinality({q \in Runs(text) : q[1] < r[1]}) = i - 1
                            IN  Value(text, r[1], r[2])]
    /\ text # <<>> /\ text[1] # Blank =>
          /\ Vscanf(text, <<"c">>) = <<text[1]>>
          /\ LET word == Vscanf(text, <<"s">>)[1]
             IN  IsPrefix(word, text) /\ Blank \notin ToSet(word)
                 /\ (word # text => text[Len(word) + 1] = Blank)
    /\ \A i, j \in 0 .. Len(text) :
          LET s == SubSeq(text, 1, i)  t == SubSeq(text, i + 1, j)
          IN  /\ Strcmp(s, t) = 0 <=> s = t
              /\ Strcmp(s, t) = -Strcmp(t, s)
              /\ IsStrictPrefix(s, t) => Strcmp(s, t) = -1
    /\ \A w \in 0 .. MaxLen :
          LET column == AlignString(text, w)
          IN  /\ Len(column) = IF w = 0 THEN Len(text) ELSE w
              /\ IsPrefix(column, text) \/ IsPrefix(text, column)
              /\ \A i \in Len(text) + 1 .. Len(column) : column[i] = Blank
=============================================================================
