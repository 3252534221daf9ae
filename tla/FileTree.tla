------------------------------ MODULE FileTree ------------------------------
(***************************************************************************)
(* The tree of files of the Leah kernel (fileSystem.c): nodes in sorted    *)
(* lists, paths, makeFile, getFile, removeFile and the current directory.  *)
(*                                                                         *)
(* A path is its components and whether it begins with '/'.  A component   *)
(* is a name, ".", "..", "" (a path that ends in '/', or "//"), or Long,   *)
(* one past the length limits.  System calls run with interrupts disabled: *)
(* each is one step.                                                       *)
(***************************************************************************)
EXTENDS Integers, SequencesExt

CONSTANTS Node, Null,
          root, dev, shm, stdin, TestFile,  \* the nodes that init_fileSystem makes
          Process,
          Names,       \* the names in use, in the order of strcmp
          Long,        \* a component that is too long
          MayRemoveCwd \* whether rm is called on a process's current directory

\* strcmp.
Before(c, d) == \E i, j \in DOMAIN Names : i < j /\ Names[i] = c /\ Names[j] = d

ASSUME FileTreeAssumption ==
    /\ {root, dev, shm, stdin, TestFile} \subseteq Node
    /\ IsInjective(<<root, dev, shm, stdin, TestFile>>)
    /\ Null \notin Node /\ Process \cap (Node \cup {Null}) = {}
    /\ Names \in Seq(STRING) /\ IsInjective(Names) /\ ToSet(Names) \cap {"", ".", "..", Long} = {}
    /\ Before("TestFile", "dev") /\ Before("shm", "stdin")
    /\ MayRemoveCwd \in BOOLEAN

VARIABLES
    kind,         \* file->type, "free" for memory that is not a file
    name, directory,
    list,         \* the files of a directory, from its first on
    opened,       \* readers and writers of its opened_file, none for one not in the list
    data,         \* the implementation: bytes in a regular file, the value of a
                  \* semaphore, the owner of a mutex, whether an executable has code
    cwd

tree == <<kind, name, directory, list>>

Kind == {"dir", "regular", "buffer", "sem", "mutex", "exec"}
NotOpened == [readers |-> 0, writers |-> 0]

\* isFileOpened.
Opened == {n \in Node : opened[n] # NotOpened}

Files == [x \in {root, dev, shm, stdin, TestFile} |->
            CASE x = stdin -> "buffer" [] x = TestFile -> "regular" [] OTHER -> "dir"]

\* init_fileSystem.
InitTree ==
    /\ kind = [n \in Node |-> IF n \in DOMAIN Files THEN Files[n] ELSE "free"]
    /\ name = [n \in Node |-> CASE n = dev -> "dev" [] n = shm -> "shm" [] n = stdin -> "stdin"
                              [] n = TestFile -> "TestFile" [] OTHER -> Null]
    /\ directory = [n \in Node |-> CASE n \in {dev, TestFile} -> root [] n \in {shm, stdin} -> dev
                                   [] OTHER -> Null]
    /\ list = [n \in Node |-> CASE n = root -> <<TestFile, dev>> [] n = dev -> <<shm, stdin>>
                              [] OTHER -> <<>>]
    /\ data = [n \in Node |-> 0]
    /\ cwd = [p \in Process |-> root]

-----------------------------------------------------------------------------
\* The file that component c names in directory d, Null if there is none.  The search
\* stops at the first name that is not less.
Find(d, c) ==
    CASE c \in {"", "."} -> d
      [] c = ".."        -> IF d = root THEN root ELSE directory[d]
      [] OTHER           -> LET i == SelectInSeq(list[d], LAMBDA n : ~Before(name[n], c))
                            IN  IF i # 0 /\ name[list[d][i]] = c THEN list[d][i] ELSE Null

\* A component followed by '/': it must name a directory.
Enter(d, c) ==
    IF d = Null \/ c = "" THEN Null
    ELSE LET n == Find(d, c) IN IF n # Null /\ kind[n] = "dir" THEN n ELSE Null

\* makeFileR up to its last component.
Parent(p, path) ==
    LET At[i \in 0 .. Len(path.names) - 1] ==
            IF i = 0 THEN IF path.absolute THEN root ELSE cwd[p]
            ELSE Enter(At[i - 1], path.names[i])
    IN  At[Len(path.names) - 1]

\* getFile.
GetFile(p, path) ==
    LET d == Parent(p, path) IN IF d = Null THEN Null ELSE Find(d, Last(path.names))

\* Mutant of Inserted: at the end of the list.
InsertedLast(s, n, c) == Append(s, n)

\* What the directory list looks like with n, named c, before the first greater name.
Inserted(s, n, c) ==
    LET i == SelectInSeq(s, LAMBDA m : Before(c, name[m]))
    IN  IF i = 0 THEN Append(s, n) ELSE InsertAt(s, i, n)

\* newFile: the memory, never that of the first files, and what the create functions
\* put in it.
Unused(n) == kind[n] = "free" /\ n \notin DOMAIN Files

Allocate(n, k, c, d, value) ==
    /\ Unused(n)
    /\ kind' = [kind EXCEPT ![n] = k]
    /\ name' = [name EXCEPT ![n] = c]
    /\ directory' = [directory EXCEPT ![n] = d]
    /\ data' = [data EXCEPT ![n] = value]

\* Mutant of MakeFile: a name that exists is made again.
MakeFileAgain(p, path, k, value) ==
    LET d == Parent(p, path)  c == Last(path.names) IN
    /\ d # Null /\ c \in ToSet(Names)
    /\ \E n \in Node : /\ Allocate(n, k, c, d, value)
                       /\ list' = [list EXCEPT ![d] = Inserted(@, n, c), ![n] = <<>>]
    /\ UNCHANGED <<opened, cwd>>

\* makeFile of a path where nothing is; where something is, that is returned.
MakeFile(p, path, k, value) ==
    LET d == Parent(p, path)  c == Last(path.names) IN
    /\ d # Null /\ Find(d, c) = Null /\ c # Long
    /\ \E n \in Node : /\ Allocate(n, k, c, d, value)
                       /\ list' = [list EXCEPT ![d] = Inserted(@, n, c), ![n] = <<>>]
    /\ UNCHANGED <<opened, cwd>>

-----------------------------------------------------------------------------
\* The files that removeFile visits below n, and n, in the order it frees them: those of
\* its list in turn.
InTurn(order, s) ==
    LET At[i \in 0 .. Len(s)] == IF i = 0 THEN <<>> ELSE At[i - 1] \o order[s[i]] IN At[Len(s)]

PostOrder[n \in Node] == Append(InTurn(PostOrder, list[n]), n)

\* Mutant of Removed: opened files are freed too.
RemovedAll(n) == ToSet(PostOrder[n])

\* They are freed one by one up to the first that is opened.
Removed(n) ==
    LET s == PostOrder[n]
    IN  {s[i] : i \in {i \in 1 .. Len(s) : \A j \in 1 .. i : s[j] \notin Opened}}

\* A list without those that are gone.
Without(s, gone) ==
    LET Kept[i \in 0 .. Len(s)] ==
            IF i = 0 THEN <<>>
            ELSE IF s[i] \in gone THEN Kept[i - 1] ELSE Append(Kept[i - 1], s[i])
    IN  Kept[Len(s)]

Free(gone) ==
    /\ kind' = [n \in Node |-> IF n \in gone THEN "free" ELSE kind[n]]
    /\ name' = [n \in Node |-> IF n \in gone THEN Null ELSE name[n]]
    /\ directory' = [n \in Node |-> IF n \in gone THEN Null ELSE directory[n]]
    /\ list' = [n \in Node |-> IF n \in gone THEN <<>> ELSE Without(list[n], gone)]
    /\ data' = [n \in Node |-> IF n \in gone THEN 0 ELSE data[n]]

\* removeFile.  That of the root reads the directory it is in, which is NULL: it is
\* not followed.
RemoveFile(n) ==
    /\ n # Null /\ n # root
    /\ MayRemoveCwd \/ \A p \in Process : cwd[p] \notin Removed(n)
    /\ Free(Removed(n))
    /\ UNCHANGED <<opened, cwd>>

\* changeCWD.
ChangeCWD(p, path) ==
    LET n == GetFile(p, path) IN
    /\ n # Null /\ kind[n] = "dir"
    /\ cwd' = [cwd EXCEPT ![p] = n]
    /\ UNCHANGED <<tree, opened, data>>

-----------------------------------------------------------------------------
InTree == {n \in Node : n = root \/ directory[n] # Null}

\* getCWDPath: the names from the root down to n.
PathOf[n \in InTree] ==
    IF n = root THEN <<>> ELSE Append(PathOf[directory[n]], name[n])

\* What users see of the files, and of those that are opened.
Seen == {<<PathOf[n], kind[n]>> : n \in InTree}
SeenOpened == {PathOf[n] : n \in Opened \cap InTree}

\* The tree is a map from paths to types, whatever is made, removed and opened.
S == INSTANCE NameSpace WITH files <- Seen, opened <- SeenOpened
ImplementsNameSpace == S!Spec

\* The lists, the back pointers and the order agree: makeFileR's search, which stops
\* at the first greater name, misses no file, and none is in two lists or in none.  With
\* MayRemoveCwd files are made in directories that are gone.
TreeExact ==
    /\ \A d \in Node : \A i \in DOMAIN list[d] :
        /\ kind[d] = "dir" /\ kind[list[d][i]] # "free" /\ directory[list[d][i]] = d
        /\ i > 1 => Before(name[list[d][i - 1]], name[list[d][i]])
    /\ \A n \in InTree \ {root} : Contains(list[directory[n]], n)
=============================================================================
