---------------------------- MODULE CircularList ----------------------------
(***************************************************************************)
(* The kernel's circular lists (circularList.c), singly linked and known   *)
(* by their last node.  The scheduler's queues and those of the waiters of *)
(* mutexes and semaphores are such lists.                                  *)
(***************************************************************************)
EXTENDS Integers, SequencesExt

CONSTANTS Data,   \* numbers, in the order of the comparator that sorts them
          MaxLen  \* bound: of the list

CircularListAssumption == Data \subseteq Nat /\ MaxLen \in Nat \ {0}

VARIABLES nodes, \* in memory: their data and next
          tail,  \* 0 for NULL
          expected \* history: the data in order, by what the operations are for

vars == <<nodes, tail, expected>>

Init == nodes = [n \in {} |-> 0] /\ tail = 0 /\ expected = <<>>

-----------------------------------------------------------------------------
\* The nodes from the one behind the tail to the tail.
Around ==
    LET From[n \in DOMAIN nodes] == IF n = tail THEN <<n>> ELSE <<n>> \o From[nodes[n].next]
    IN  IF tail = 0 THEN <<>> ELSE From[nodes[tail].next]

Length == Len(Around)

\* lengthIfLesserThan: a list of one is not compared with the limit.
LengthIfLesserThan(limit) == IF Length > 1 /\ Length > limit THEN -1 ELSE Length

New == CHOOSE n \in 1 .. MaxLen + 1 : n \notin DOMAIN nodes

\* A new node behind the node p, which is 0 in an empty list.
Linked(p, d) ==
    LET behind == IF p = 0 THEN New ELSE nodes[p].next
    IN  [n \in DOMAIN nodes \cup {New} |->
            IF n = New THEN [data |-> d, next |-> behind]
            ELSE IF n = p THEN [nodes[p] EXCEPT !.next = New] ELSE nodes[n]]

\* p is the node in front of n, and may be n itself.
Unlinked(p, n) ==
    [m \in DOMAIN nodes \ {n} |-> IF m = p THEN [nodes[p] EXCEPT !.next = nodes[n].next] ELSE nodes[m]]

InsertAtHead(d) ==
    /\ nodes' = Linked(tail, d)
    /\ tail' = IF tail = 0 THEN New ELSE tail
    /\ expected' = <<d>> \o expected

\* insertAtEnd: at the head, which then becomes the tail.
InsertAtEnd(d) ==
    /\ nodes' = Linked(tail, d)
    /\ tail' = New
    /\ expected' = Append(expected, d)

\* The node that location steps from the tail lead to.
At(location) == IF location = 0 THEN tail ELSE Around[location]

InsertAtArbitrary(d, location) ==
    /\ location \in 1 .. Length + 1
    /\ nodes' = Linked(IF tail = 0 THEN 0 ELSE At(location - 1), d)
    /\ tail' = IF location = Length + 1 THEN New ELSE tail
    /\ expected' = InsertAt(expected, location, d)

DeleteByLocation(location) ==
    /\ location \in 1 .. Length
    /\ nodes' = Unlinked(At(location - 1), Around[location])
    /\ tail' = IF Length = 1 THEN 0 ELSE IF location = Length THEN At(location - 1) ELSE tail
    /\ expected' = RemoveAt(expected, location)

\* deleteByValue with the limit of its only caller, roundRobin.c: the loop returns when it
\* has deleted one.  With a larger limit it goes on from a node that it has freed.
DeleteByValue(d) ==
    LET i == SelectInSeq(Around, LAMBDA n : nodes[n].data = d)
    IN  /\ i # 0
        /\ nodes' = Unlinked(At(i - 1), Around[i])
        /\ tail' = IF Length = 1 THEN 0 ELSE IF i = Length THEN At(i - 1) ELSE tail
        /\ expected' = RemoveAt(expected, i)

\* A pass of sort over the rest of the list: the data of its first node and of its first
\* least node change places.
Pass(seq, i) ==
    LET least == CHOOSE m \in i .. Len(seq) :
                    /\ \A j \in i .. Len(seq) : seq[m] <= seq[j]
                    /\ \A j \in i .. m - 1 : seq[j] > seq[m]
    IN  [seq EXCEPT ![i] = seq[least], ![least] = seq[i]]

Sort ==
    /\ Length >= 2
    /\ LET all == [i \in 1 .. Length |-> nodes[Around[i]].data]
           sorted == FoldLeft(Pass, all, [i \in 1 .. Length - 1 |-> i])
       IN  nodes' = [n \in DOMAIN nodes |-> [nodes[n] EXCEPT !.data = sorted[SelectInSeq(Around, LAMBDA m : m = n)]]]
    /\ expected' = SortSeq(expected, <)
    /\ UNCHANGED tail

Next ==
    \/ \E d \in Data :
          \/ Length < MaxLen /\ (InsertAtHead(d) \/ InsertAtEnd(d))
          \/ Length < MaxLen /\ \E location \in 1 .. MaxLen : InsertAtArbitrary(d, location)
          \/ DeleteByValue(d)
    \/ \E location \in 1 .. MaxLen : DeleteByLocation(location)
    \/ Sort

Spec == Init /\ [][Next]_vars

-----------------------------------------------------------------------------
\* circularList.c: the nodes in memory are those of the list, and hold, from the one behind
\* the tail on, the data that the calls should have left there.
ListExact ==
    /\ ToSet(Around) = DOMAIN nodes
    /\ [i \in 1 .. Length |-> nodes[Around[i]].data] = expected
=============================================================================
