---------------------------- MODULE ToUppercase ----------------------------
(***************************************************************************)
(* programs/toUppercase.c: a parent sends each line to its slave through   *)
(* the fifo pipe1 and waits for the answer on pipe2.  There is one line on *)
(* its way at a time, which one read takes whole.  It is one run, begun    *)
(* while nobody has the fifos open: what an earlier slave does is left out.*)
(***************************************************************************)
EXTENDS Integers, SequencesExt

CONSTANTS Lower, Other,  \* characters: letters to be changed, and the rest
          Upper,         \* the capital of each letter
          MaxLength      \* MAX_LENGTH

ToUppercaseAssumption ==
    /\ MaxLength \in Nat \ {0}
    /\ "nul" \notin Lower \cup Other \cup {Upper[c] : c \in Lower}

VARIABLES parent, slave, \* where each one is
          fifo,          \* who has it open, what it holds, whether its writer closed it
          line,          \* parent's buff up to cursor, and the line sent last
          buff,          \* the slave's
          shown          \* what was printed last

vars == <<parent, slave, fifo, line, buff, shown>>

Fresh == [open |-> {}, data |-> <<>>, eof |-> FALSE]

Init ==
    /\ parent = "start" /\ slave = "none"
    /\ fifo = [p \in {"pipe1", "pipe2"} |-> Fresh]
    /\ line = <<>> /\ shown = <<>>
    /\ buff = [i \in 1 .. MaxLength |-> "nul"]

-----------------------------------------------------------------------------
\* The first to open a fifo gets a fresh buffer; the end of file ends with a writer.
Open(p, m) ==
    LET f == IF fifo[p].open = {} THEN Fresh ELSE fifo[p]
    IN  fifo' = [fifo EXCEPT ![p] = [f EXCEPT !.open = @ \cup {m},
                                              !.eof = IF m = "w" THEN FALSE ELSE @]]

Close(p, m) ==
    fifo' = [fifo EXCEPT ![p].open = @ \ {m}, ![p].eof = @ \/ m = "w"]

Write(p, data) == fifo' = [fifo EXCEPT ![p].data = data]

\* A read waits for bytes or the end of file; what it finds is there for the taking.
Readable(p) == fifo[p].data # <<>> \/ fifo[p].eof
Read(p) == fifo' = [fifo EXCEPT ![p].data = <<>>]

-----------------------------------------------------------------------------
ParentTo(next) == parent' = next
ParentKeeps == UNCHANGED <<slave, buff>>

\* mkFifo, and execv of the slave.
Start ==
    /\ parent = "start" /\ parent' = "open1" /\ slave' = "open1"
    /\ UNCHANGED <<fifo, line, buff, shown>>

OpenBoth ==
    \/ parent = "open1" /\ Open("pipe1", "w") /\ ParentTo("open2") /\ UNCHANGED <<line, shown>>
    \/ parent = "open2" /\ Open("pipe2", "r") /\ ParentTo("types") /\ UNCHANGED <<line, shown>>

\* A key; backspace takes the last character away.
Type(c) ==
    /\ parent = "types"
    /\ IF c = "back" THEN line # <<>> /\ line' = Front(line)
       ELSE Len(line) < MaxLength /\ line' = Append(line, c)
    /\ UNCHANGED <<parent, fifo, shown>>

Send ==
    /\ parent = "types" /\ line # <<>>
    /\ Write("pipe1", line) /\ ParentTo("waits")
    /\ UNCHANGED <<line, shown>>

\* printf("%s") of the answer ends at its first "nul"; buff has a last one of its own.
Answered ==
    /\ parent = "waits" /\ Readable("pipe2")
    /\ LET reply == fifo["pipe2"].data
       IN  shown' = SubSeq(reply, 1, SelectInSeq(Append(reply, "nul"), LAMBDA c : c = "nul") - 1)
    /\ Read("pipe2") /\ ParentTo("printed")
    /\ UNCHANGED line

NextLine ==
    /\ parent = "printed" /\ ParentTo("types") /\ line' = <<>>
    /\ UNCHANGED <<fifo, shown>>

Escape ==
    /\ parent = "types" /\ ParentTo("close1")
    /\ UNCHANGED <<fifo, line, shown>>

\* Then it waits for the slave's end.
CloseBoth ==
    /\ \/ parent = "close1" /\ Close("pipe1", "w") /\ ParentTo("close2")
       \/ parent = "close2" /\ Close("pipe2", "r") /\ ParentTo("waitPID")
       \/ parent = "waitPID" /\ slave = "ended" /\ ParentTo("done") /\ UNCHANGED fifo
    /\ UNCHANGED <<line, shown>>

Keys == Escape \/ \E c \in Lower \cup Other \cup {"back"} : Type(c)
Parent == (OpenBoth \/ Send \/ Answered \/ NextLine \/ CloseBoth) /\ ParentKeeps

-----------------------------------------------------------------------------
SlaveOpens ==
    /\ \/ slave = "open1" /\ Open("pipe1", "r") /\ slave' = "open2"
       \/ slave = "open2" /\ Open("pipe2", "w") /\ slave' = "reads"
    /\ UNCHANGED buff

Capital(c) == IF c \in Lower THEN Upper[c] ELSE c

\* The slave's buff; of a line of MaxLength characters the "nul" falls behind it.
Changed(data) ==
    [i \in 1 .. MaxLength |-> IF i <= Len(data) THEN Capital(data[i])
                              ELSE IF i = Len(data) + 1 THEN "nul" ELSE buff[i]]

SlaveReads ==
    /\ slave = "reads" /\ Readable("pipe1")
    /\ IF fifo["pipe1"].data = <<>> THEN slave' = "close1" /\ UNCHANGED buff
       ELSE slave' = "writes" /\ buff' = Changed(fifo["pipe1"].data)
    /\ Read("pipe1")

\* All of buff is written, MAX_LENGTH bytes.
SlaveWrites == slave = "writes" /\ Write("pipe2", buff) /\ slave' = "reads" /\ UNCHANGED buff

SlaveCloses ==
    /\ \/ slave = "close1" /\ Close("pipe1", "r") /\ slave' = "close2"
       \/ slave = "close2" /\ Close("pipe2", "w") /\ slave' = "done"
    /\ UNCHANGED buff

\* processWrapper: the end of the slave, or a tick within it (see Shell).
SlaveEnds == slave = "done" /\ slave' \in {"ended", "stuck"} /\ UNCHANGED <<fifo, buff>>

Slave == /\ SlaveOpens \/ SlaveReads \/ SlaveWrites \/ SlaveCloses \/ SlaveEnds
         /\ UNCHANGED <<parent, line, shown>>

Next == Start \/ (Keys /\ ParentKeeps) \/ Parent \/ Slave

\* Neither is starved; nobody has to press a key, but a line sent is a step of Parent.
Fairness == WF_vars(parent # "types" /\ Parent) /\ WF_vars(Slave)

Spec == Init /\ [][Next]_vars /\ Fairness

-----------------------------------------------------------------------------
\* toUppercase, slave: the answer that is shown is the line, in capitals, whatever
\* longer lines both buffers held before.
RightReply ==
    parent = "printed" => shown = [i \in DOMAIN line |-> Capital(line[i])]

\* The slave opened pipe1 when the parent had closed it already: in a fresh fifo.
Alone == parent \in {"close2", "waitPID"} /\ ~fifo["pipe1"].eof

\* Every line is answered, and ESC ends both processes, unless it comes so early that the
\* slave waits in a fifo of its own for ever, or a tick stops the slave on its way out.
Answers ==
    /\ parent = "waits" ~> parent = "types"
    /\ parent = "close1" ~> (parent = "done" \/ Alone \/ slave = "stuck")
=============================================================================
