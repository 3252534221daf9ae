------------------------------ MODULE NameSpace ------------------------------
(***************************************************************************)
(* What the file tree promises its users: a map from paths to types, as a  *)
(* set of pairs.  A path is a sequence of names, the root's is empty.  A   *)
(* file is made in a directory that exists, under a name that is free; the *)
(* removal of a path takes all that is below it, unless some of it is      *)
(* opened: then the path stays, and so does everything that is opened.     *)
(***************************************************************************)
EXTENDS Integers, Sequences

VARIABLES files, opened

Made == files' \ files
Gone == files \ files'

Init ==
    /\ <<<<>>, "dir">> \in files
    /\ \A x, y \in files : x[1] = y[1] => x = y

Parent(path) == <<SubSeq(path, 1, Len(path) - 1), "dir">>
Below(path) == {x \in files : Len(x[1]) >= Len(path) /\ SubSeq(x[1], 1, Len(path)) = path}
InUse == {x \in files : x[1] \in opened}

\* Files are opened and closed; directories never are.
Use ==
    /\ files' = files
    /\ \A x \in files : x[2] = "dir" => x[1] \notin opened'

Make ==
    /\ Gone = {} /\ opened' = opened
    /\ \E x \in Made : /\ Made = {x}
                       /\ Parent(x[1]) \in files
                       /\ \A y \in files : y[1] # x[1]

Remove ==
    /\ Made = {} /\ opened' = opened
    /\ Gone \cap InUse = {}
    /\ \A x \in files' : x[1] = <<>> \/ Parent(x[1]) \in files'
    /\ \E x \in files : /\ x[1] # <<>>
                        /\ Gone \subseteq Below(x[1])
                        /\ Gone = Below(x[1]) <=> Below(x[1]) \cap InUse = {}

Next == Use \/ Make \/ Remove

Spec == Init /\ [][Next]_<<files, opened>>
=============================================================================
