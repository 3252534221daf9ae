------------------------------- MODULE MCData -------------------------------
(***************************************************************************)
(* For TLC, the parts of Data and beside them, in the same way, those that *)
(* are not proved about: the buddy tree, the lists, the modules, and the   *)
(* readers of lines and texts.                                             *)
(***************************************************************************)
EXTENDS Data

CONSTANTS
    MaxOrder, Pages,                                 \* BuddyMemory
    RingData, ListData, MaxList,                     \* CircularList, LinkedList
    Byte, MaxSize, MaxModules, Buffer, Gap, BssSize, \* ModuleImage
    LineChar, CommandLimit, MaxArgs, MaxLength,      \* ParseLine
    TextChar, MaxText                                \* Texts

VARIABLES
    pages, held, caller,                     \* BuddyMemory
    ring, tail, inRing,                      \* CircularList
    nodes, first, last, count, inList,       \* LinkedList
    files, image, packed, at, loaded, phase, \* ModuleImage
    line,                                    \* ParseLine
    text                                     \* Texts

memory   == <<pages, held, caller>>
circular == <<ring, tail, inRing>>
linked   == <<nodes, first, last, count, inList>>
modules  == <<files, image, packed, at, loaded, phase>>

others == <<memory, circular, linked, modules, line, text>>

-----------------------------------------------------------------------------
B == INSTANCE BuddyMemory WITH Callers <- Pages

C == INSTANCE CircularList WITH Data <- RingData, MaxLen <- MaxList, nodes <- ring, expected <- inRing

L == INSTANCE LinkedList WITH Data <- ListData, MaxLen <- MaxList, expected <- inList

M == INSTANCE ModuleImage

Q == INSTANCE ParseLine WITH Char <- LineChar, MaxLen <- MaxLength

X == INSTANCE Texts WITH Char <- TextChar, MaxLen <- MaxText

ASSUME MCDataAssumption ==
    /\ B!BuddyAssumption /\ C!CircularListAssumption /\ L!LinkedListAssumption
    /\ M!ModuleImageAssumption /\ Q!ParseLineAssumption /\ X!TextsAssumption

\* Blocks of all sizes that are kept, or single pages that are given back.
SomePages == {[sizes |-> 0 .. 9, frees |-> FALSE], [sizes |-> {1}, frees |-> TRUE]}

\* Blocks of all sizes, kept or given back.
SomeBlocks == [sizes : {1 .. 5}, frees : {FALSE}, lazy : BOOLEAN] \cup
              [sizes : {1 .. 3}, frees : {TRUE}, lazy : BOOLEAN]

-----------------------------------------------------------------------------
AllInit ==
    /\ part \in Part \cup {"memory", "circular", "linked", "modules", "line", "text"}
    /\ Begin /\ C!Init /\ L!Init /\ Q!Init /\ X!Init
    /\ B!Init /\ (part # "memory" => ~caller.frees)
    /\ M!Init /\ (part # "modules" => files = << <<>> >>)

OtherNext ==
    \/ part = "memory" /\ B!Next /\ UNCHANGED <<circular, linked, modules, line, text>>
    \/ part = "circular" /\ C!Next /\ UNCHANGED <<memory, linked, modules, line, text>>
    \/ part = "linked" /\ L!Next /\ UNCHANGED <<memory, circular, modules, line, text>>
    \/ part = "modules" /\ M!Next /\ UNCHANGED <<memory, circular, linked, line, text>>
    \/ part = "line" /\ Q!Next /\ UNCHANGED <<memory, circular, linked, modules, text>>
    \/ part = "text" /\ X!Next /\ UNCHANGED <<memory, circular, linked, modules, line>>

AllNext == \/ PartNext /\ UNCHANGED others
           \/ OtherNext /\ UNCHANGED partVars

AllSpec == AllInit /\ [][AllNext]_<<partVars, others>>

-----------------------------------------------------------------------------
\* Each property where its part runs.  What getMemory gives out is free, and what is free is
\* given out.
PagesExact == part = "memory" => B!TypeOK /\ B!NoOverlap /\ B!MarksExact
FailsOnlyWhenFull == part = "memory" => B!FailsOnlyWhenFull

\* Lists hold what was put there, in order.
ListsExact == /\ part = "circular" => C!ListExact
              /\ part = "linked" => L!ListExact

\* What a line, a name, a number or a scan code stands for is found in it, and modules are
\* found where they were packed; and the clock goes on from one run to the next.
ReadersExact ==
    /\ part = "line" => Q!ParsedExact
    /\ part = "commands" => R!LookupExact
    /\ part = "text" => X!NumbersExact /\ X!ScansExact
    /\ part = "keyboard" => K!TypedExact
    /\ part = "modules" => M!LoadedExact
    /\ part = "clock" => D!ClockRight
=============================================================================
