----------------------------- MODULE ByteQueue ------------------------------
(***************************************************************************)
(* What a buffer of the file system promises its users: while somebody has *)
(* it open, a bounded queue of bytes, of which writers add some at the end *)
(* and readers take some from the front; the last close drops the rest.    *)
(***************************************************************************)
EXTENDS Integers, Sequences

CONSTANTS Byte, Capacity

VARIABLES queue, open

Init == queue = <<>> /\ open = FALSE

Open  == ~ open /\ open' = TRUE /\ queue' = queue
Close == open /\ open' = FALSE /\ queue' = <<>>

Write ==
    /\ open /\ open' = open
    /\ \E n \in 1 .. Capacity - Len(queue) :
            \E s \in [1 .. n -> Byte] : queue' = queue \o s

Read ==
    /\ open /\ open' = open
    /\ \E n \in 1 .. Len(queue) : queue' = SubSeq(queue, n + 1, Len(queue))

Next == Open \/ Close \/ Write \/ Read

Spec == Init /\ [][Next]_<<queue, open>>
=============================================================================
