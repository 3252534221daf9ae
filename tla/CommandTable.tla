---------------------------- MODULE CommandTable ----------------------------
(***************************************************************************)
(* The shell's table of commands (sampleCodeModule.c): an array searched   *)
(* from its start.  Here functions are as many as names.                   *)
(***************************************************************************)
EXTENDS Integers, SequencesExt

CONSTANTS Name, MaxCommands  \* MAX_COMMANDS

CommandTableAssumption == MaxCommands \in Nat \ {0}

VARIABLES commandList, \* its first commandsNum entries
          registered   \* what the caller of command_register would expect

vars == <<commandList, registered>>

Init == commandList = <<>> /\ registered = <<>>

\* The loop of the four functions that look a name up; 0 if there is none.
GetCommandID(name) == SelectInSeq(commandList, LAMBDA c : c.name = name)

Register(name, f, isProgram) ==
    /\ Len(commandList) < MaxCommands - 1 /\ GetCommandID(name) = 0
    /\ commandList' = Append(commandList, [name |-> name, f |-> f, isProgram |-> isProgram])
    /\ registered' = [n \in DOMAIN registered \cup {name} |-> IF n = name THEN f ELSE registered[n]]

\* Names and functions move up by one, the rest of each entry stays where it was.
Shifted(id) ==
    [i \in 1 .. Len(commandList) - 1 |->
        IF i < id THEN commandList[i]
        ELSE [commandList[i] EXCEPT !.name = commandList[i + 1].name, !.f = commandList[i + 1].f]]

Unregister(name) ==
    /\ GetCommandID(name) # 0
    /\ commandList' = Shifted(GetCommandID(name))
    /\ registered' = [n \in DOMAIN registered \ {name} |-> registered[n]]

Next == \E name \in Name :
            \/ \E f \in Name, isProgram \in BOOLEAN : Register(name, f, isProgram)
            \/ Unregister(name)

Spec == Init /\ [][Next]_vars

-----------------------------------------------------------------------------
\* getCommandFunction: each registered name, and no other, finds its function, whatever
\* was registered and removed before.  isProgram does not follow its command: Unregister
\* leaves it behind.
LookupExact ==
    \A name \in Name :
        LET id == GetCommandID(name)
        IN  IF name \in DOMAIN registered THEN id # 0 /\ commandList[id].f = registered[name]
            ELSE id = 0
=============================================================================
