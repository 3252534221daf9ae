-------------------------------- MODULE Heap --------------------------------
(***************************************************************************)
(* malloc.c of the kernel and its copy in the user library (stdlib.c): a   *)
(* list of blocks, each behind a header, searched for the first that fits. *)
(*                                                                         *)
(* A call is one step: the kernel's run with interrupts disabled; the      *)
(* user's are not locked, and here only one thread of a process calls      *)
(* them.  Sizes and addresses count the units of alignment, and a header   *)
(* takes one.                                                              *)
(***************************************************************************)
EXTENDS Integers, FiniteSets

CONSTANTS Size,   \* of the memory, the header of its first block included
          Callers \* environments: the sizes asked for; whether blocks are given back;
                  \* whether the heap is the user's, initialized when it is used first

HeapAssumption ==
    /\ Size \in Nat \ {0, 1}
    /\ \A c \in Callers : c.sizes \subseteq Nat \ {0} /\ c.frees \in BOOLEAN /\ c.lazy \in BOOLEAN

VARIABLES heap,  \* the headers in memory: those of the list, and those it has left behind
          held,  \* history: the blocks given to the caller and not given back
          caller \* the environment, one of Callers

vars == <<heap, held, caller>>

Null == -1
H == 1  \* sizeof(block_t)

\* The memory after a merge that went by what a caller wrote: nothing is known of it.
Lost == <<>>

\* init_malloc: one free block; the memory of a process begins as zeros.
OneBlock == [a \in {0} |-> [size |-> Size - H, next |-> Null, prev |-> Null, state |-> "FREE"]]
Zeros    == [a \in {0} |-> [size |-> 0, next |-> Null, prev |-> Null, state |-> "FREE"]]

Init ==
    /\ caller \in Callers
    /\ heap = IF caller.lazy THEN Zeros ELSE OneBlock
    /\ held = {}

-----------------------------------------------------------------------------
\* The heap that malloc works on.
Ready == IF caller.lazy /\ heap[0].size = 0 THEN OneBlock ELSE heap

\* The blocks that a walk along next from the first one gets to, if it ends with one of stops.
Reached(h, stops) ==
    {b \in DOMAIN h : \A S \in SUBSET DOMAIN h :
        0 \in S /\ (\A a \in S \ stops : h[a].next \in S \cup {Null}) => b \in S}

\* The search of malloc: Null if there is none.
FirstFit(h, size) ==
    LET fits == {b \in DOMAIN h : h[b].state # "USED" /\ h[b].size >= size}
        found == Reached(h, fits) \cap fits
    IN  IF found = {} THEN Null ELSE CHOOSE b \in found : TRUE

Overwrite(h, b, header) == [a \in DOMAIN h \cup {b} |-> IF a = b THEN header ELSE h[a]]

\* split: the rest becomes a block if it is more than a header.  The block behind is not
\* told: its prev still names the block in front.
Split(h, b, size) ==
    LET rest == b + H + size
    IN  IF h[b].size - size <= H THEN h
        ELSE [Overwrite(h, rest, [size |-> h[b].size - size - H, next |-> h[b].next,
                                  prev |-> b, state |-> "FREE"])
              EXCEPT ![b].size = size, ![b].next = rest]

\* The caller writes over the whole of its block, and over the headers left there.
Payload(h, b) == b + H .. b + H + h[b].size - 1
Written(h, b) == [a \in DOMAIN h \ Payload(h, b) |-> h[a]]

Malloc(size) ==
    LET b == FirstFit(Ready, size)
        h == [Split(Ready, b, size) EXCEPT ![b].state = "USED"]
    IN  /\ IF b = Null THEN heap' = Ready /\ UNCHANGED held
           ELSE heap' = Written(h, b) /\ held' = held \cup {b}
        /\ UNCHANGED caller

\* Mutant of Joined: the size of the header in between is forgotten.
JoinedShort(h, b) ==
    LET n == h[b].next
    IN  IF n = Null \/ h[n].state # "FREE" THEN h
        ELSE [a \in DOMAIN h |->
                IF a = b THEN [h[b] EXCEPT !.size = @ + h[n].size, !.next = h[n].next]
                ELSE IF a = h[n].next THEN [h[a] EXCEPT !.prev = b] ELSE h[a]]

\* The first half of merge: a free block takes in the next.  When that was the last one,
\* merge writes through NULL, into the page at 0, which is not part of the heap.
Joined(h, b) ==
    LET n == h[b].next
    IN  IF n = Null \/ h[n].state # "FREE" THEN h
        ELSE [a \in DOMAIN h |->
                IF a = b THEN [h[b] EXCEPT !.size = @ + h[n].size + H, !.next = h[n].next]
                ELSE IF a = h[n].next THEN [h[a] EXCEPT !.prev = b] ELSE h[a]]

\* The headers that this half reads and writes are still headers.
Intact(h, b) ==
    LET n == h[b].next
    IN  n # Null => n \in DOMAIN h /\ (h[n].state = "FREE" => h[n].next \in DOMAIN h \cup {Null})

Join(h, b) == IF Intact(h, b) THEN Joined(h, b) ELSE Lost

\* merge calls itself for the block that is noted as the one in front if that one is free.  The
\* note may name a header that was left behind when its block was joined to another and, if
\* that one is used, was written over.  Addresses fall, so that b calls are more than enough.
Merge(h, b) ==
    LET Call[i \in 0 .. b] ==
          IF i = 0 THEN [heap |-> Join([h EXCEPT ![b].state = "FREE"], b), block |-> b]
          ELSE LET c == Call[i - 1]
                   p == c.heap[c.block].prev
               IN  IF c.heap = Lost \/ p = Null THEN c
                   ELSE IF p \notin DOMAIN c.heap THEN [heap |-> Lost, block |-> p]
                   ELSE IF c.heap[p].state = "FREE" THEN [heap |-> Join(c.heap, p), block |-> p]
                   ELSE c
    IN  Call[b].heap

\* What follows once the memory is lost is not described.
Free(b) ==
    /\ caller.frees /\ b \in held
    /\ heap' = Merge(heap, b)
    /\ held' = held \ {b}
    /\ UNCHANGED caller

Next == /\ heap # Lost
        /\ \/ \E size \in caller.sizes : Malloc(size)
           \/ \E b \in held : Free(b)

Spec == Init /\ [][Next]_vars

-----------------------------------------------------------------------------
\* The blocks of the list.
Listed == Reached(heap, {})

\* malloc and free: once there is a heap, its list leads without a cycle through blocks that
\* fill the memory end to end, and the used ones are those of the caller, so that what it writes
\* is its own.  So it is, for blocks of all sizes given back in any order, until a merge goes by
\* a header that a caller has written over.
HeapExact ==
    heap # Lost /\ heap[0].size # 0 =>
        /\ {b \in Listed : heap[b].state = "USED"} = held
        /\ \A b \in Listed :
              heap[b].next = IF b + H + heap[b].size = Size THEN Null ELSE b + H + heap[b].size
=============================================================================
