---------------------------- MODULE MCFileSystem ----------------------------
\* Two processes and two more files for FileSystem.
EXTENDS FileSystem

CONSTANTS a, b, p1, p2

Abs(s) == [absolute |-> TRUE, names |-> s]
Rel(s) == [absolute |-> FALSE, names |-> s]
MCNames == <<"TestFile", "a", "dev", "shm", "stdin">>

\* Paths from the root and up from the current directory.
MCPath == {Abs(<<"a">>), Abs(<<"dev">>), Rel(<<"a">>), Rel(<<"..", "a">>)}
MCDirPath == {Rel(<<"a", "">>), Rel(<<"..">>)}

Symmetry == Permutations({a, b}) \cup Permutations(Process)
=============================================================================
