------------------------------ MODULE MCUser ------------------------------
(***************************************************************************)
(* The shell and the programs for TLC.                                     *)
(***************************************************************************)
EXTENDS User

C(prog) == [prog |-> prog, bg |-> FALSE]
B(prog) == [prog |-> prog, bg |-> TRUE]

\* Pipelines of up to three, in the background wholly or partly, and every refusal; the last
\* line is entered with LateErrors only.
SomeLines ==
    {<<C("echo")>>, <<C("cat")>>, <<C("snake")>>, <<C("help")>>, <<C("none")>>,
     <<B("echo")>>, <<B("snake")>>,
     <<C("echo"), C("cat")>>, <<C("echo"), B("cat")>>, <<C("cat"), C("echo")>>,
     <<C("help"), C("echo")>>, <<C("echo"), C("cat"), C("cat")>>,
     <<C("echo"), C("none")>>}

\* A snake of four goes round two squares and bites its tail, or eats its way to the limit.
SomeMiddle == <<1, 0>>
SomeSpots == {<<0, 2>>, <<1, 2>>}

SomeUpper == [a |-> "A"]
=============================================================================
