------------------------------- MODULE MCPipe -------------------------------
\* Pipe with fewer bytes: those of a buffer that may fill up are all alike.
EXTENDS Pipe

Plain(b) == b = 0

AllAlike ==
    "fill" \in may =>
        /\ \A i \in DOMAIN content : Plain(content[i])
        /\ \A t \in Thread : call[t].op = "w" => \A i \in DOMAIN call[t].data : Plain(call[t].data[i])

MCInit == Init /\ AllAlike
MCNext == Next /\ AllAlike'

MCSpec == MCInit /\ [][MCNext]_vars /\ \A t \in Thread : WF_vars(UNCHANGED may /\ Resume(t))
=============================================================================
