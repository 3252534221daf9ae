---------------------------- MODULE BuddyMemory -----------------------------
(***************************************************************************)
(* The physical memory of the Leah kernel: getMemory and freeMemory of     *)
(* memoryManager.c, a buddy allocator over a tree kept in an array.        *)
(*                                                                         *)
(* Both run with interrupts disabled (from system calls, interrupts and    *)
(* the start of the kernel), one call is one step.  Amounts are counted in *)
(* pages; the memory is a power of two of them, as the tree needs.         *)
(***************************************************************************)
EXTENDS Integers, FiniteSets, Bags

CONSTANTS MaxOrder,  \* maxOrder: the memory has 2^MaxOrder pages
          Callers    \* environments: the sizes asked for, and whether blocks are given back

BuddyAssumption ==
    /\ MaxOrder \in Nat
    /\ \A c \in Callers : c.sizes \subseteq Nat /\ c.frees \in BOOLEAN

VARIABLES pages,   \* memoryManager.pages, the state of every node of the tree
          held,    \* history: the blocks given to callers and not given back, a bag
          caller   \* the environment, one of Callers

vars == <<pages, held, caller>>

Node == 0 .. 2 ^ (MaxOrder + 1) - 2
Page == 0 .. 2 ^ MaxOrder - 1

ParentIndex(i) == (i + 1) \div 2 - 1
LeftChild(i)   == 2 * i + 1
RightChild(i)  == 2 * i + 2
IsLeftChild(i) == i % 2 = 1
BuddyIndex(i)  == IF IsLeftChild(i) THEN i + 1 ELSE i - 1

\* A node's order is its depth; its block is halved at each.
Order == [i \in Node |-> CHOOSE k \in 0 .. MaxOrder : 2 ^ k <= i + 1 /\ i + 1 < 2 ^ (k + 1)]
BlockSize(i) == 2 ^ (MaxOrder - Order[i])

\* calculateOffset: the first page of a node's block.
Offset(i) == (i + 1 - 2 ^ Order[i]) * BlockSize(i)

Block == [i \in Node |-> Offset(i) .. Offset(i) + BlockSize(i) - 1]

\* The nodes on the way from the root to a page, and those above a node.
Path  == [p \in Page |-> {i \in Node : p \in Block[i]}]
Above == [i \in Node |-> {a \in Node : Block[i] \subseteq Block[a] /\ Order[a] < Order[i]}]

TypeOK ==
    /\ pages \in [Node -> {"FREE", "USED", "SPLIT"}]
    /\ IsABag(held) /\ BagToSet(held) \subseteq Node
    /\ caller \in Callers

Init ==
    /\ pages = [i \in Node |-> "FREE"]
    /\ held = EmptyBag
    /\ caller \in Callers

-----------------------------------------------------------------------------
\* pageSizeMultiple: the smallest power of two that holds the request.
PageSizeMultiple(n) ==
    CHOOSE size \in {2 ^ k : k \in 0 .. MaxOrder} : n <= size /\ size < 2 * n

\* nextPagesIndexToSearch: the node to the right, else that of the nearest
\* ancestor which is a left child; -1 if there is none.
Climb[i \in Node] ==
    LET a == ParentIndex(i) IN
    IF a < 0 THEN -1 ELSE IF IsLeftChild(a) THEN a + 1 ELSE Climb[a]

\* Mutant of NextToSearch: the search does not climb.
NextBuddyOnly(i) == IF IsLeftChild(i) THEN i + 1 ELSE -1

NextToSearch(i) == IF IsLeftChild(i) THEN i + 1 ELSE Climb[i]

Fits(i, size) == BlockSize(i) = size /\ pages[i] = "FREE"

\* getOffsetFromBaseAddress: the node of that size the search meets, -1 if none.
Search(size) ==
    LET From[i \in Node \cup {-1}] ==
          IF i = -1 \/ Fits(i, size) THEN i
          ELSE IF pages[i] = "USED" \/ BlockSize(i) = size THEN From[NextToSearch(i)]
          ELSE IF pages[LeftChild(i)] # "USED" THEN From[LeftChild(i)]
          ELSE From[RightChild(i)]
    IN From[0]

\* Mutant of MarkUsed: the block itself is not marked.
MarkAncestorsOnly(i) ==
    [n \in Node |-> IF n \in Above[i] THEN "SPLIT" ELSE pages[n]]

\* markUsedNodes: an ancestor is USED when the other half of everything below it
\* on the way is, and SPLIT otherwise.
MarkUsed(i) ==
    [n \in Node |->
        IF n = i THEN "USED"
        ELSE IF n \notin Above[i] THEN pages[n]
        ELSE IF \A m \in Above[i] \cup {i} :
                  Order[m] > Order[n] => pages[BuddyIndex(m)] = "USED"
        THEN "USED" ELSE "SPLIT"]

GetMemory(n) ==
    LET i == IF n \in 1 .. 2 ^ MaxOrder THEN Search(PageSizeMultiple(n)) ELSE -1 IN
    /\ IF i = -1 THEN UNCHANGED vars
       ELSE /\ pages' = MarkUsed(i)
            /\ held' = held (+) SetToBag({i})
            /\ UNCHANGED caller

\* Where freeMemory stops with OK on its way down: at the first USED node
\* with two FREE children.
StopsAt(i) ==
    /\ pages[i] = "USED"
    /\ RightChild(i) \in Node
    /\ pages[LeftChild(i)] = "FREE" /\ pages[RightChild(i)] = "FREE"

FreeStops(p) ==
    {i \in Path[p] : StopsAt(i) /\ \A a \in Above[i] : ~ StopsAt(a)}

\* The nodes it passes, down to a leaf if it does not stop before.
FreePath(p) ==
    LET stops == FreeStops(p) IN {i \in Path[p] : \A s \in stops : Order[i] <= Order[s]}

FreeMarks(p) ==
    LET passed == FreePath(p) IN
    [n \in Node |-> IF n \in passed /\ pages[n] = "USED" THEN "FREE" ELSE pages[n]]

\* freeMemory of the address of a block that the caller holds.
FreeMemory(i) ==
    /\ BagIn(i, held)
    /\ pages' = FreeMarks(Offset(i))
    /\ held' = held (-) SetToBag({i})
    /\ UNCHANGED caller

FreeReturnsOK(p) == FreeStops(p) # {}

Next == \/ \E n \in caller.sizes : GetMemory(n)
        \/ \E i \in BagToSet(held) : caller.frees /\ FreeMemory(i)

Spec == Init /\ [][Next]_vars

-----------------------------------------------------------------------------
\* TP2: the blocks given out do not overlap.
NoOverlap ==
    \A i, j \in BagToSet(held) :
        IF i = j THEN held[i] = 1 ELSE Block[i] \cap Block[j] = {}

\* The tree says what is held: the pages of the USED nodes are those of the held
\* blocks, so that a search neither enters a block nor passes over free pages.
MarksExact ==
    UNION {Block[i] : i \in {n \in Node : pages[n] = "USED"}} = UNION {Block[h] : h \in BagToSet(held)}

\* No memory is lost: getMemory returns NULL only if every aligned block of the
\* size is at least partly held.
FailsOnlyWhenFull ==
    \A n \in caller.sizes \cap 1 .. 2 ^ MaxOrder :
        LET size == PageSizeMultiple(n) IN
        Search(size) = -1 =>
            \A i \in Node : BlockSize(i) = size =>
                \E h \in BagToSet(held) : Block[h] \cap Block[i] # {}

\* memoryManager.h: freeMemory returns OK if it could free the memory.
FreeSucceeds == \A i \in BagToSet(held) : FreeReturnsOK(Offset(i))
=============================================================================
