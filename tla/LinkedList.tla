----------------------------- MODULE LinkedList -----------------------------
(***************************************************************************)
(* The kernel's linked lists (linkedList.c), doubly linked, with a count:  *)
(* the queues of the scheduler with priorities.                            *)
(***************************************************************************)
EXTENDS Integers, SequencesExt

CONSTANTS Data,
          MaxLen  \* bound: of the list

LinkedListAssumption == MaxLen \in Nat \ {0}

VARIABLES nodes,       \* in memory: their data, next and prev
          first, last, \* 0 for NULL
          count,
          expected     \* history: the data in order, by what the operations are for

vars == <<nodes, first, last, count, expected>>

Init == nodes = [n \in {} |-> 0] /\ first = 0 /\ last = 0 /\ count = 0 /\ expected = <<>>

-----------------------------------------------------------------------------
New == CHOOSE n \in 1 .. MaxLen + 1 : n \notin DOMAIN nodes

\* linkedList_offer, at the end.
Offer(d) ==
    /\ nodes' = [n \in DOMAIN nodes \cup {New} |->
                    IF n = New THEN [data |-> d, next |-> 0, prev |-> last]
                    ELSE IF n = last THEN [nodes[n] EXCEPT !.next = New] ELSE nodes[n]]
    /\ last' = New
    /\ first' = IF first = 0 THEN New ELSE first
    /\ count' = count + 1
    /\ expected' = Append(expected, d)

\* linkedList_push, at the start.
Push(d) ==
    /\ nodes' = [n \in DOMAIN nodes \cup {New} |->
                    IF n = New THEN [data |-> d, next |-> first, prev |-> 0]
                    ELSE IF n = first THEN [nodes[n] EXCEPT !.prev = New] ELSE nodes[n]]
    /\ first' = New
    /\ last' = IF last = 0 THEN New ELSE last
    /\ count' = count + 1
    /\ expected' = <<d>> \o expected

\* linkedList_poll, from the start.
Poll ==
    /\ first # 0
    /\ nodes' = [n \in DOMAIN nodes \ {first} |->
                    IF n = nodes[first].next THEN [nodes[n] EXCEPT !.prev = 0] ELSE nodes[n]]
    /\ first' = nodes[first].next
    /\ last' = IF last = first THEN 0 ELSE last
    /\ count' = count - 1
    /\ expected' = Tail(expected)

\* linkedList_pop, from the end.
Pop ==
    /\ first # 0
    /\ nodes' = [n \in DOMAIN nodes \ {last} |->
                    IF n = nodes[last].prev THEN [nodes[n] EXCEPT !.next = 0] ELSE nodes[n]]
    /\ last' = nodes[last].prev
    /\ first' = IF first = last THEN 0 ELSE first
    /\ count' = count - 1
    /\ expected' = Front(expected)

FromFirst ==
    LET From[n \in DOMAIN nodes \cup {0}] == IF n = 0 THEN <<>> ELSE <<n>> \o From[nodes[n].next]
    IN  From[first]

\* Mutant of Without: the node behind keeps its prev.
WithoutOneWay(list, n) ==
    [nodes |-> [m \in DOMAIN list.nodes \ {n} |->
                    IF m = list.nodes[n].prev THEN [list.nodes[m] EXCEPT !.next = list.nodes[n].next]
                    ELSE list.nodes[m]],
     first |-> IF n = list.first THEN list.nodes[n].next ELSE list.first,
     last  |-> IF n = list.last THEN list.nodes[n].prev ELSE list.last]

\* A round of the loop of removeByValue that finds the value.
Without(list, n) ==
    [nodes |-> [m \in DOMAIN list.nodes \ {n} |->
                    [data |-> list.nodes[m].data,
                     next |-> IF m = list.nodes[n].prev THEN list.nodes[n].next ELSE list.nodes[m].next,
                     prev |-> IF m = list.nodes[n].next THEN list.nodes[n].prev ELSE list.nodes[m].prev]],
     first |-> IF n = list.first THEN list.nodes[n].next ELSE list.first,
     last  |-> IF n = list.last THEN list.nodes[n].prev ELSE list.last]

\* linkedList_removeByValue: the first ones, up to the limit.
RemoveByValue(d, limit) ==
    LET found == SelectSeq(FromFirst, LAMBDA n : nodes[n].data = d)
        gone  == SubSeq(found, 1, IF Len(found) < limit THEN Len(found) ELSE limit)
        list  == FoldLeft(Without, [nodes |-> nodes, first |-> first, last |-> last], gone)
    IN  /\ gone # <<>>
        /\ nodes' = list.nodes /\ first' = list.first /\ last' = list.last
        /\ count' = count - Len(gone)
        /\ expected' = FoldLeft(LAMBDA seq, i : RemoveFirst(seq, d), expected, gone)

\* linkedList_destroy, and a new list.
Destroy == first # 0 /\ nodes' = [n \in {} |-> 0] /\ first' = 0 /\ last' = 0 /\ count' = 0 /\ expected' = <<>>

Next == \/ count < MaxLen /\ \E d \in Data : Offer(d) \/ Push(d)
        \/ \E d \in Data, limit \in 1 .. MaxLen : RemoveByValue(d, limit)
        \/ Poll \/ Pop \/ Destroy

Spec == Init /\ [][Next]_vars

-----------------------------------------------------------------------------
\* linkedList.c: the nodes in memory are those of the list, which holds what it should in
\* both directions and counts it.
ListExact ==
    /\ ToSet(FromFirst) = DOMAIN nodes /\ count = Len(FromFirst)
    /\ [i \in DOMAIN FromFirst |-> nodes[FromFirst[i]].data] = expected
    /\ last = IF first = 0 THEN 0 ELSE Last(FromFirst)
    /\ \A i \in DOMAIN FromFirst : nodes[FromFirst[i]].prev = IF i = 1 THEN 0 ELSE FromFirst[i - 1]
=============================================================================
