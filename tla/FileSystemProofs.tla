-------------------------- MODULE FileSystemProofs --------------------------
(***************************************************************************)
(* Proofs about FileSystem: any number of processes, descriptors, files    *)
(* and names.                                                              *)
(***************************************************************************)
EXTENDS FileSystem, FiniteSetTheorems, WellFoundedInduction, TLAPS

\* The inductive strengthening.  Who does not run has no descriptor and does not sleep, and who
\* sleeps has a descriptor of what it sleeps in, so that this is counted as opened.
Gone    == \A p \in Process \ alive : asleep[p] = Null /\ \A f \in Fd : fd_table[p][f] = None
Holding == \A p \in Process : asleep[p] # Null =>
              kind[asleep[p]] \in {"sem", "mutex"} /\ \E f \in Fd : fd_table[p][f].file = asleep[p]

IInv == TypeOK /\ CountsExact /\ PipesFreed /\ Gone /\ Holding

-----------------------------------------------------------------------------
\* Induction up to n, with the set of those for which it holds.
LEMMA Induct ==
    ASSUME NEW n \in Nat, NEW T, 0 \in T, \A i \in 1 .. n : i - 1 \in T => i \in T
    PROVE  \A i \in 0 .. n : i \in T
  <1> DEFINE B == {i \in 0 .. n : i \notin T}
  <1> SUFFICES ASSUME B # {} PROVE FALSE
    OBVIOUS
  <1>1. B \subseteq Nat
    OBVIOUS
  <1>2. \E x \in B : \A y \in B : ~ (<<y, x>> \in OpToRel(<, Nat))
    <2> HIDE DEF B
    <2> QED
      BY <1>1, NatLessThanWellFounded, WFMin
  <1>3. PICK x \in B : \A y \in B : ~ (<<y, x>> \in OpToRel(<, Nat))
    BY <1>2
  <1>4. x \in Nat /\ x # 0 /\ x - 1 \in 0 .. n /\ x \in 1 .. n
    OBVIOUS
  <1>5. x - 1 \notin T
    BY <1>4
  <1>6. x - 1 \in B /\ x - 1 \in Nat /\ x - 1 < x
    BY <1>4, <1>5
  <1>7. <<x - 1, x>> \in OpToRel(<, Nat)
    BY <1>4, <1>6 DEF OpToRel
  <1>8. QED
    BY <1>3, <1>6, <1>7

\* A non-empty set of positions has a first one.
LEMMA First ==
    ASSUME NEW n, NEW I \in SUBSET (1 .. n), I # {}
    PROVE  Min(I) \in I /\ \A i \in I : Min(I) <= i
  <1>1. I \subseteq Nat
    OBVIOUS
  <1>2. PICK x \in I : \A y \in I : ~ (<<y, x>> \in OpToRel(<, Nat))
    BY <1>1, NatLessThanWellFounded, WFMin
  <1>3. ASSUME NEW y \in I
        PROVE  x <= y
    <2>1. ~ (<<y, x>> \in OpToRel(<, Nat)) /\ x \in Nat /\ y \in Nat
      BY <1>1, <1>2
    <2>2. ~ (y < x)
      BY <2>1 DEF OpToRel
    <2>3. \A m, k \in Nat : ~ (k < m) => m <= k
      OBVIOUS
    <2>4. QED
      BY <2>1, <2>2, <2>3
  <1>4. QED
    BY <1>3 DEF Min

\* f is what g makes step by step of base.
Follows(f, n, V, base, g) ==
    f \in [0 .. n -> V] /\ f[0] = base /\ \A i \in 1 .. n : f[i] = g[<<i, f[i - 1]>>]

\* What is defined step by step up to n exists.
LEMMA Recursion ==
    ASSUME NEW n \in Nat, NEW V, NEW base \in V, NEW g \in [(1 .. n) \X V -> V]
    PROVE  \E f : Follows(f, n, V, base, g)
  <1> DEFINE Is(f, k) == f[0] = base /\ \A i \in 1 .. k : f[i] = g[<<i, f[i - 1]>>]
             T == {k \in 0 .. n : \E f \in [0 .. k -> V] : Is(f, k)}
  <1>1. 0 \in T
    <2>1. [i \in 0 .. 0 |-> base] \in [0 .. 0 -> V] /\ Is([i \in 0 .. 0 |-> base], 0)
      OBVIOUS
    <2>2. \E f \in [0 .. 0 -> V] : Is(f, 0)
      <3> HIDE DEF Is
      <3> QED
        BY <2>1
    <2>3. 0 \in 0 .. n
      OBVIOUS
    <2>4. QED
      BY <2>2, <2>3
  <1>2. ASSUME NEW k \in 1 .. n, k - 1 \in T
        PROVE  k \in T
    <2>1. PICK f \in [0 .. k - 1 -> V] : Is(f, k - 1)
      BY <1>2
    <2> DEFINE h == [i \in 0 .. k |-> IF i = k THEN g[<<k, f[k - 1]>>] ELSE f[i]]
    <2>2. f[k - 1] \in V /\ g[<<k, f[k - 1]>>] \in V
      BY <2>1
    <2>3. h \in [0 .. k -> V]
      BY <2>1, <2>2
    <2>4. h[k] = g[<<k, f[k - 1]>>] /\ \A i \in 0 .. k - 1 : h[i] = f[i]
      OBVIOUS
    <2>5. Is(h, k)
      <3> HIDE DEF h
      <3>1. h[0] = base
        BY <2>1, <2>4
      <3>2. ASSUME NEW i \in 1 .. k
            PROVE  h[i] = g[<<i, h[i - 1]>>]
        <4>1. i - 1 \in 0 .. k - 1 /\ h[i - 1] = f[i - 1]
          BY <2>4
        <4>2. CASE i = k
          BY <4>1, <4>2, <2>4
        <4>3. CASE i # k
          <5>1. i \in 1 .. k - 1 /\ i \in 0 .. k - 1
            BY <4>3
          <5>2. QED
            BY <5>1, <4>1, <2>1, <2>4
        <4>4. QED
          BY <4>2, <4>3
      <3>3. QED
        BY <3>1, <3>2
    <2>6. \E e \in [0 .. k -> V] : Is(e, k)
      <3> HIDE DEF Is, h
      <3> QED
        BY <2>3, <2>5
    <2>7. k \in 0 .. n
      OBVIOUS
    <2>8. QED
      BY <2>6, <2>7
  <1>3. n \in T
    <2> HIDE DEF T
    <2>1. \A i \in 0 .. n : i \in T
      BY <1>1, <1>2, Induct
    <2>2. QED
      BY <2>1
  <1>4. PICK f \in [0 .. n -> V] : Is(f, n)
    BY <1>3
  <1>5. QED
    BY <1>4 DEF Follows

\* The steps of Without.
Keeps(f, s, gone) ==
    /\ f \in [0 .. Len(s) -> Seq(Node)] /\ f[0] = <<>>
    /\ \A i \in 1 .. Len(s) : f[i] = IF s[i] \in gone THEN f[i - 1] ELSE Append(f[i - 1], s[i])

\* What is left of a list is what its steps leave.
LEMMA WithoutKeeps ==
    ASSUME NEW s \in Seq(Node), NEW gone
    PROVE  \E f : Keeps(f, s, gone) /\ Without(s, gone) = f[Len(s)]
  <1> DEFINE n == Len(s)
             U == Seq(Node)
             E(f, i) == IF i = 0 THEN <<>>
                        ELSE IF s[i] \in gone THEN f[i - 1] ELSE Append(f[i - 1], s[i])
             Is(f) == f = [i \in 0 .. n |-> E(f, i)]
             F == CHOOSE f : Is(f)
             g == [x \in (1 .. n) \X U |-> IF s[x[1]] \in gone THEN x[2] ELSE Append(x[2], s[x[1]])]
  <1>1. n \in Nat /\ <<>> \in U /\ \A i \in 1 .. n : s[i] \in Node
    OBVIOUS
  <1>2. g \in [(1 .. n) \X U -> U]
    <2>1. ASSUME NEW x \in (1 .. n) \X U
          PROVE  (IF s[x[1]] \in gone THEN x[2] ELSE Append(x[2], s[x[1]])) \in U
      BY <1>1
    <2>2. QED
      BY <2>1
  <1>3. PICK f : Follows(f, n, U, <<>>, g)
    <2> HIDE DEF n, U, g
    <2> QED
      BY <1>1, <1>2, Recursion
  <1>4. ASSUME NEW i \in 0 .. n
        PROVE  f[i] = E(f, i)
    <2>1. CASE i = 0
      BY <1>3, <2>1 DEF Follows
    <2>2. CASE i # 0
      <3>1. i \in 1 .. n /\ i - 1 \in 0 .. n
        BY <2>2, <1>1
      <3>2. f[i - 1] \in U /\ <<i, f[i - 1]>> \in (1 .. n) \X U
        BY <3>1, <1>3 DEF Follows
      <3>3. f[i] = g[<<i, f[i - 1]>>]
        BY <3>1, <1>3 DEF Follows
      <3>4. QED
        BY <3>2, <3>3, <2>2
    <2>3. QED
      BY <2>1, <2>2
  <1>5. Is(f)
    <2> HIDE DEF E, n
    <2> QED
      BY <1>3, <1>4 DEF Follows
  <1>6. Is(F)
    <2> HIDE DEF Is
    <2> QED
      BY <1>5
  <1>7. \A i \in 0 .. n : F[i] = E(F, i)
    <2> HIDE DEF E, n, F
    <2> QED
      BY <1>6
  <1> DEFINE T == {i \in 0 .. n : F[i] = f[i]}
  <1>8. 0 \in T
    <2> HIDE DEF F
    <2> QED
      BY <1>1, <1>3, <1>7 DEF Follows
  <1>9. ASSUME NEW i \in 1 .. n, i - 1 \in T
        PROVE  i \in T
    <2> HIDE DEF F
    <2>1. F[i - 1] = f[i - 1] /\ i \in 0 .. n /\ i # 0
      BY <1>9, <1>1
    <2>2. F[i] = E(F, i) /\ f[i] = E(f, i)
      BY <2>1, <1>4, <1>7
    <2>3. QED
      BY <2>1, <2>2
  <1>10. F[n] = f[n]
    <2> HIDE DEF T
    <2>1. \A i \in 0 .. n : i \in T
      BY <1>1, <1>8, <1>9, Induct
    <2>2. n \in 0 .. n
      BY <1>1
    <2>3. n \in T
      BY <2>1, <2>2
    <2>4. QED
      BY <2>3 DEF T
  <1>11. Keeps(f, s, gone)
    <2>1. ASSUME NEW i \in 1 .. n
          PROVE  f[i] = IF s[i] \in gone THEN f[i - 1] ELSE Append(f[i - 1], s[i])
      <3>1. i \in 0 .. n /\ i # 0
        OBVIOUS
      <3>2. QED
        BY <3>1, <1>4
    <2>2. QED
      BY <1>3, <2>1 DEF Keeps, Follows
  <1>12. Without(s, gone) = F[n]
    BY DEF Without
  <1>13. QED
    BY <1>10, <1>11, <1>12

\* It is a list of files.
LEMMA WithoutType ==
    ASSUME NEW s \in Seq(Node), NEW gone
    PROVE  Without(s, gone) \in Seq(Node)
  <1>1. PICK f : Keeps(f, s, gone) /\ Without(s, gone) = f[Len(s)]
    BY WithoutKeeps
  <1>2. Len(s) \in 0 .. Len(s)
    OBVIOUS
  <1>3. QED
    BY <1>1, <1>2 DEF Keeps

\* What a component names in a directory is a file, if it is anything.
LEMMA FindType ==
    ASSUME TypeOK, NEW d \in Node, NEW c
    PROVE  Find(d, c) \in Node \cup {Null}
  <1> DEFINE I == {i \in 1 .. Len(list[d]) : ~Before(name[list[d][i]], c)}
             i == SelectInSeq(list[d], LAMBDA n : ~Before(name[n], c))
  <1>1. root \in Node /\ directory[d] \in Node \cup {Null} /\ list[d] \in Seq(Node)
    BY FileTreeAssumption DEF TypeOK
  <1>2. i \in 0 .. Len(list[d])
    <2>1. i = IF I # {} THEN Min(I) ELSE 0
      BY DEF SelectInSeq
    <2>2. CASE I # {}
      <3>1. I \in SUBSET (1 .. Len(list[d]))
        OBVIOUS
      <3>2. Min(I) \in I
        <4> HIDE DEF I
        <4> QED
          BY <2>2, <3>1, First
      <3>3. QED
        BY <2>1, <2>2, <3>2, <1>1
    <2>3. CASE I = {}
      BY <1>1, <2>1, <2>3
    <2>4. QED
      BY <2>2, <2>3
  <1>3. (IF i # 0 /\ name[list[d][i]] = c THEN list[d][i] ELSE Null)
          \in Node \cup {Null}
    <2> HIDE DEF i
    <2> QED
      BY <1>1, <1>2
  <1>4. CASE c \in {"", "."}
    BY <1>4 DEF Find
  <1>5. CASE c = ".."
    BY <1>1, <1>5 DEF Find
  <1>6. CASE c \notin {"", ".", ".."}
    BY <1>3, <1>6 DEF Find
  <1>7. QED
    BY <1>4, <1>5, <1>6

\* What a step of a path leads to is a file, if it is anything.
LEMMA EnterType ==
    ASSUME TypeOK, NEW d \in Node \cup {Null}, NEW c
    PROVE  Enter(d, c) \in Node \cup {Null}
  <1>1. CASE d = Null \/ c = ""
    BY <1>1 DEF Enter
  <1>2. CASE ~ (d = Null \/ c = "")
    <2>1. Find(d, c) \in Node \cup {Null}
      BY <1>2, FindType
    <2>2. QED
      BY <1>2, <2>1 DEF Enter
  <1>3. QED
    BY <1>1, <1>2

\* A path leads to nothing but what each of its steps leads to.
LEMMA ParentIn ==
    ASSUME NEW U, NEW p, NEW path, Len(path.names) \in Nat \ {0},
           root \in U, cwd[p] \in U, \A d \in U : \A c : Enter(d, c) \in U
    PROVE  Parent(p, path) \in U
  <1> DEFINE n == Len(path.names) - 1
             base == IF path.absolute THEN root ELSE cwd[p]
             E(f, i) == IF i = 0 THEN base ELSE Enter(f[i - 1], path.names[i])
             Is(f) == f = [i \in 0 .. n |-> E(f, i)]
             F == CHOOSE f : Is(f)
             g == [x \in (1 .. n) \X U |-> Enter(x[2], path.names[x[1]])]
  <1>1. n \in Nat /\ base \in U
    OBVIOUS
  <1>2. g \in [(1 .. n) \X U -> U]
    <2>1. ASSUME NEW x \in (1 .. n) \X U
          PROVE  Enter(x[2], path.names[x[1]]) \in U
      OBVIOUS
    <2>2. QED
      BY <2>1
  <1>3. PICK f : Follows(f, n, U, base, g)
    <2> HIDE DEF n, base, g
    <2> QED
      BY <1>1, <1>2, Recursion
  <1>4. ASSUME NEW i \in 0 .. n
        PROVE  f[i] = E(f, i)
    <2> HIDE DEF base
    <2>1. CASE i = 0
      BY <1>3, <2>1 DEF Follows
    <2>2. CASE i # 0
      <3>1. i \in 1 .. n /\ i - 1 \in 0 .. n
        BY <2>2, <1>1
      <3>2. f[i - 1] \in U /\ <<i, f[i - 1]>> \in (1 .. n) \X U
        BY <3>1, <1>3 DEF Follows
      <3>3. f[i] = g[<<i, f[i - 1]>>]
        BY <3>1, <1>3 DEF Follows
      <3>4. QED
        BY <3>2, <3>3, <2>2
    <2>3. QED
      BY <2>1, <2>2
  <1>5. Is(f)
    <2> HIDE DEF E, n
    <2> QED
      BY <1>3, <1>4 DEF Follows
  <1>6. Is(F)
    <2> HIDE DEF Is
    <2> QED
      BY <1>5
  <1>7. \A i \in 0 .. n : F[i] = E(F, i)
    <2> HIDE DEF E, n, F
    <2> QED
      BY <1>6
  <1> DEFINE T == {i \in 0 .. n : F[i] \in U}
  <1>8. 0 \in T
    <2> HIDE DEF F, base
    <2>1. 0 \in 0 .. n
      BY <1>1
    <2>2. F[0] = base
      BY <2>1, <1>7
    <2>3. QED
      BY <1>1, <2>1, <2>2
  <1>9. ASSUME NEW i \in 1 .. n, i - 1 \in T
        PROVE  i \in T
    <2> HIDE DEF F, base
    <2>1. F[i - 1] \in U /\ i \in 0 .. n /\ i # 0
      BY <1>9, <1>1
    <2>2. F[i] = Enter(F[i - 1], path.names[i])
      BY <2>1, <1>7
    <2>3. QED
      BY <2>1, <2>2
  <1>10. F[n] \in U
    <2> HIDE DEF T
    <2>1. \A i \in 0 .. n : i \in T
      BY <1>1, <1>8, <1>9, Induct
    <2>2. n \in 0 .. n
      BY <1>1
    <2>3. n \in T
      BY <2>1, <2>2
    <2>4. QED
      BY <2>3 DEF T
  <1>11. QED
    BY <1>10 DEF Parent

\* Where a path leads is a directory or file, if it is anything.
LEMMA ParentType ==
    ASSUME TypeOK, NEW p \in Process, NEW path, Len(path.names) \in Nat \ {0}
    PROVE  Parent(p, path) \in Node \cup {Null}
  <1> DEFINE U == Node \cup {Null}
  <1>1. root \in U /\ cwd[p] \in U
    BY FileTreeAssumption DEF TypeOK
  <1>2. \A d \in U : \A c : Enter(d, c) \in U
    BY EnterType
  <1> HIDE DEF U
  <1>3. Parent(p, path) \in U
    BY <1>1, <1>2, ParentIn
  <1>4. QED
    BY <1>3 DEF U

\* And what a whole path leads to.
LEMMA GetFileType ==
    ASSUME TypeOK, NEW p \in Process, NEW path, Len(path.names) \in Nat \ {0}
    PROVE  GetFile(p, path) \in Node \cup {Null}
  <1>1. Parent(p, path) \in Node \cup {Null}
    BY ParentType
  <1>2. CASE Parent(p, path) = Null
    BY <1>2 DEF GetFile
  <1>3. CASE Parent(p, path) # Null
    <2>1. Find(Parent(p, path), Last(path.names)) \in Node \cup {Null}
      BY <1>1, <1>3, FindType
    <2>2. QED
      BY <1>3, <2>1 DEF GetFile
  <1>4. QED
    BY <1>2, <1>3

\* A directory's list with one more file.
LEMMA InsertedType ==
    ASSUME NEW s \in Seq(Node), NEW n \in Node, NEW c
    PROVE  Inserted(s, n, c) \in Seq(Node)
  <1> DEFINE I == {i \in 1 .. Len(s) : Before(c, name[s[i]])}
             i == SelectInSeq(s, LAMBDA m : Before(c, name[m]))
  <1>1. i = IF I # {} THEN Min(I) ELSE 0
    BY DEF SelectInSeq
  <1>2. CASE I # {}
    <2>1. I \in SUBSET (1 .. Len(s))
      OBVIOUS
    <2>2. Min(I) \in I
      <3> HIDE DEF I
      <3> QED
        BY <1>2, <2>1, First
    <2>3. i \in 1 .. Len(s)
      BY <1>1, <1>2, <2>2
    <2>4. Inserted(s, n, c) = InsertAt(s, i, n)
      BY <2>3 DEF Inserted
    <2>5. InsertAt(s, i, n) \in Seq(Node)
      <3> HIDE DEF i
      <3>1. SubSeq(s, 1, i - 1) \in Seq(Node)
        BY <2>3
      <3>2. SubSeq(s, i, Len(s)) \in Seq(Node)
        BY <2>3
      <3>3. <<n>> \in Seq(Node)
        OBVIOUS
      <3>4. QED
        BY <3>1, <3>2, <3>3 DEF InsertAt
    <2>6. QED
      BY <2>4, <2>5
  <1>3. CASE I = {}
    <2>1. Inserted(s, n, c) = Append(s, n)
      BY <1>1, <1>3 DEF Inserted
    <2>2. QED
      BY <2>1
  <1>4. QED
    BY <1>2, <1>3

-----------------------------------------------------------------------------
All == Process \X Fd

\* Some of the descriptors that refer to a file are finitely many.
LEMMA RefsFinite ==
    ASSUME NEW tables, NEW X \in SUBSET All, NEW n, NEW modes
    PROVE  /\ IsFiniteSet(Refs(tables, X, n, modes))
           /\ Cardinality(Refs(tables, X, n, modes)) \in Nat
  <1>1. IsFiniteSet(All)
    BY FileSystemAssumption, FS_Product DEF All
  <1>2. Refs(tables, X, n, modes) \subseteq All
    BY DEF Refs
  <1>3. QED
    BY <1>1, <1>2, FS_Subset, FS_CardinalityType

\* What the descriptors of X add to the references to a file, where without them there is none.
LEMMA RefsMove ==
    ASSUME NEW t, NEW u, NEW X \in SUBSET All, NEW n \in Node, NEW modes,
           \A x \in X : u[x[1]][x[2]] = None,
           \A x \in All \ X : u[x[1]][x[2]] = t[x[1]][x[2]]
    PROVE  Cardinality(Refs(t, All, n, modes))
             = Cardinality(Refs(u, All, n, modes)) + Cardinality(Refs(t, X, n, modes))
  <1> DEFINE A == Refs(t, All, n, modes)
             B == Refs(u, All, n, modes)
             C == Refs(t, X, n, modes)
  <1>1. None.file # n
    BY FileTreeAssumption DEF None
  <1>2. B = A \ C /\ C = A \cap C
    BY <1>1 DEF Refs
  <1>3. /\ IsFiniteSet(A) /\ IsFiniteSet(C)
        /\ Cardinality(A) \in Nat /\ Cardinality(B) \in Nat /\ Cardinality(C) \in Nat
    BY RefsFinite
  <1>4. Cardinality(A \ C) = Cardinality(A) - Cardinality(A \cap C)
    <2> HIDE DEF A, C
    <2> QED
      BY <1>3, FS_Difference
  <1>5. QED
    <2> HIDE DEF A, B, C
    <2>1. Cardinality(B) = Cardinality(A) - Cardinality(C)
      BY <1>2, <1>4
    <2>2. Cardinality(A) = Cardinality(B) + Cardinality(C)
      BY <1>3, <2>1
    <2>3. QED
      BY <2>2 DEF A, B, C

\* The counts stay exact when descriptors that were free are opened.
LEMMA OpenedCounts ==
    ASSUME TypeOK, CountsExact, NEW X \in SUBSET All,
           \A x \in X : fd_table[x[1]][x[2]] = None,
           \A x \in All \ X : fd_table'[x[1]][x[2]] = fd_table[x[1]][x[2]],
           opened' = Counted(fd_table', X, 1)
    PROVE  CountsExact' /\ opened' \in [Node -> [readers : Int, writers : Int]]
  <1>1. ASSUME NEW n \in Node
        PROVE  opened'[n] = [readers |-> Cardinality(Refs(fd_table', All, n, Reading)),
                             writers |-> Cardinality(Refs(fd_table', All, n, Writing))]
    <2> DEFINE R == Cardinality(Refs(fd_table, All, n, Reading))
               W == Cardinality(Refs(fd_table, All, n, Writing))
               r == Cardinality(Refs(fd_table', X, n, Reading))
               w == Cardinality(Refs(fd_table', X, n, Writing))
    <2>1. opened[n] = [readers |-> R, writers |-> W]
      BY DEF CountsExact, All
    <2>2. opened'[n] = [readers |-> opened[n].readers + 1 * r, writers |-> opened[n].writers + 1 * w]
      BY DEF Counted
    <2>3. /\ Cardinality(Refs(fd_table', All, n, Reading)) = R + r
          /\ Cardinality(Refs(fd_table', All, n, Writing)) = W + w
      BY RefsMove
    <2>4. R \in Nat /\ W \in Nat /\ r \in Nat /\ w \in Nat
      BY RefsFinite
    <2>5. QED
      <3> HIDE DEF R, W, r, w
      <3> QED
        BY <2>1, <2>2, <2>3, <2>4
  <1>2. CountsExact'
    BY <1>1 DEF CountsExact, All
  <1>3. opened' \in [Node -> [readers : Int, writers : Int]]
    <2>1. opened' = [n \in Node |-> opened'[n]]
      BY DEF Counted
    <2>2. ASSUME NEW n \in Node
          PROVE  opened'[n] \in [readers : Int, writers : Int]
      <3> DEFINE R == Cardinality(Refs(fd_table', All, n, Reading))
                 W == Cardinality(Refs(fd_table', All, n, Writing))
      <3>1. R \in Int /\ W \in Int
        BY RefsFinite
      <3>2. opened'[n] = [readers |-> R, writers |-> W]
        BY <1>1
      <3>3. QED
        <4> HIDE DEF R, W
        <4> QED
          BY <3>1, <3>2
    <2>3. QED
      BY <2>1, <2>2
  <1>4. QED
    BY <1>2, <1>3

\* And when descriptors are closed.
LEMMA ClosedCounts ==
    ASSUME TypeOK, CountsExact, NEW X \in SUBSET All,
           \A x \in X : fd_table'[x[1]][x[2]] = None,
           \A x \in All \ X : fd_table'[x[1]][x[2]] = fd_table[x[1]][x[2]],
           opened' = Counted(fd_table, X, -1)
    PROVE  CountsExact' /\ opened' \in [Node -> [readers : Int, writers : Int]]
  <1>1. ASSUME NEW n \in Node
        PROVE  opened'[n] = [readers |-> Cardinality(Refs(fd_table', All, n, Reading)),
                             writers |-> Cardinality(Refs(fd_table', All, n, Writing))]
    <2> DEFINE R == Cardinality(Refs(fd_table', All, n, Reading))
               W == Cardinality(Refs(fd_table', All, n, Writing))
               r == Cardinality(Refs(fd_table, X, n, Reading))
               w == Cardinality(Refs(fd_table, X, n, Writing))
    <2>1. opened[n] = [readers |-> Cardinality(Refs(fd_table, All, n, Reading)),
                       writers |-> Cardinality(Refs(fd_table, All, n, Writing))]
      BY DEF CountsExact, All
    <2>2. opened'[n] = [readers |-> opened[n].readers + (-1) * r,
                        writers |-> opened[n].writers + (-1) * w]
      BY DEF Counted
    <2>3. /\ Cardinality(Refs(fd_table, All, n, Reading)) = R + r
          /\ Cardinality(Refs(fd_table, All, n, Writing)) = W + w
      BY RefsMove
    <2>4. R \in Nat /\ W \in Nat /\ r \in Nat /\ w \in Nat
      BY RefsFinite
    <2>5. QED
      <3>1. opened[n].readers = R + r /\ opened[n].writers = W + w
        BY <2>1, <2>3
      <3> HIDE DEF R, W, r, w
      <3>2. R + r + (-1) * r = R /\ W + w + (-1) * w = W
        BY <2>4
      <3>3. opened'[n] = [readers |-> R, writers |-> W]
        BY <2>2, <3>1, <3>2
      <3>4. QED
        BY <3>3 DEF R, W
  <1>2. CountsExact'
    BY <1>1 DEF CountsExact, All
  <1>3. opened' \in [Node -> [readers : Int, writers : Int]]
    <2>1. opened' = [n \in Node |-> opened'[n]]
      BY DEF Counted
    <2>2. ASSUME NEW n \in Node
          PROVE  opened'[n] \in [readers : Int, writers : Int]
      <3> DEFINE R == Cardinality(Refs(fd_table', All, n, Reading))
                 W == Cardinality(Refs(fd_table', All, n, Writing))
      <3>1. R \in Int /\ W \in Int
        BY RefsFinite
      <3>2. opened'[n] = [readers |-> R, writers |-> W]
        BY <1>1
      <3>3. QED
        <4> HIDE DEF R, W
        <4> QED
          BY <3>1, <3>2
    <2>3. QED
      BY <2>1, <2>2
  <1>4. QED
    BY <1>2, <1>3

\* What some descriptor refers to is opened.
RefersOpened ==
    \A p \in Process : \A f \in Fd : fd_table[p][f] # None =>
        fd_table[p][f].file \in Node /\ opened[fd_table[p][f].file] # NotOpened

\* Every reference is to a file that counts as opened.
LEMMA RefersToOpened == TypeOK /\ CountsExact => RefersOpened
  <1> SUFFICES ASSUME TypeOK, CountsExact, NEW p \in Process, NEW f \in Fd, fd_table[p][f] # None
               PROVE  fd_table[p][f].file \in Node /\ opened[fd_table[p][f].file] # NotOpened
    BY DEF RefersOpened
  <1> DEFINE n == fd_table[p][f].file
             R == Refs(fd_table, All, n, Reading)
             W == Refs(fd_table, All, n, Writing)
  <1>1. n \in Node /\ fd_table[p][f].mode \in Mode
    BY DEF TypeOK, Descriptor
  <1>2. <<p, f>> \in R \/ <<p, f>> \in W
    BY <1>1 DEF Refs, All, Mode, Reading, Writing
  <1>3. IsFiniteSet(R) /\ IsFiniteSet(W)
    BY RefsFinite
  <1>4. Cardinality(R) # 0 \/ Cardinality(W) # 0
    <2> HIDE DEF R, W
    <2> QED
      BY <1>2, <1>3, FS_EmptySet
  <1>5. opened[n] = [readers |-> Cardinality(R), writers |-> Cardinality(W)]
    BY <1>1 DEF CountsExact, All
  <1>6. QED
    <2> HIDE DEF R, W
    <2> QED
      BY <1>1, <1>4, <1>5 DEF NotOpened

\* What is opened stays so while more descriptors are opened.
LEMMA StillOpened ==
    ASSUME CountsExact, NEW X \in SUBSET All, opened' = Counted(fd_table', X, 1),
           NEW k \in Node, opened[k] # NotOpened
    PROVE  opened'[k] # NotOpened
  <1> DEFINE r == Cardinality(Refs(fd_table', X, k, Reading))
             w == Cardinality(Refs(fd_table', X, k, Writing))
             R == Cardinality(Refs(fd_table, All, k, Reading))
             W == Cardinality(Refs(fd_table, All, k, Writing))
  <1>1. opened'[k] = [readers |-> opened[k].readers + 1 * r, writers |-> opened[k].writers + 1 * w]
    BY DEF Counted
  <1>2. r \in Nat /\ w \in Nat /\ R \in Nat /\ W \in Nat
    BY RefsFinite
  <1>3. opened[k] = [readers |-> R, writers |-> W]
    BY DEF CountsExact, All
  <1> HIDE DEF r, w, R, W
  <1>4. R # 0 \/ W # 0
    BY <1>3 DEF NotOpened
  <1>5. R + 1 * r # 0 \/ W + 1 * w # 0
    BY <1>2, <1>4
  <1>6. QED
    BY <1>1, <1>3, <1>5 DEF NotOpened

-----------------------------------------------------------------------------
\* The counts are of the opened files and the descriptors only.
LEMMA CountsStay ==
    ASSUME CountsExact, UNCHANGED <<opened, fd_table>>
    PROVE  CountsExact'
  <1>1. opened' = opened /\ fd_table' = fd_table
    OBVIOUS
  <1>2. \A X, n, modes : Refs(fd_table', X, n, modes) = Refs(fd_table, X, n, modes)
    BY <1>1
  <1>3. QED
    BY <1>1, <1>2 DEF CountsExact

\* A call that opens and closes nothing and changes no file that is opened, nor leaves a
\* closed pipe that is not in the tree.
LEMMA TreeStep ==
    ASSUME IInv, UNCHANGED <<opened, alive, fd_table, asleep>>,
           kind' \in [Node -> Kind \cup {"free"}], directory' \in [Node -> Node \cup {Null}],
           list' \in [Node -> Seq(Node)], cwd' \in [Process -> Node],
           data' \in [Node -> Process \cup {Null} \cup 0 .. MaxData],
           \A n \in Node : data'[n] \in IF kind'[n] = "mutex" THEN Process \cup {Null} ELSE 0 .. MaxData,
           \A n \in Node : opened[n] # NotOpened /\ kind[n] # "free" => kind'[n] = kind[n],
           \A n \in Node : kind'[n] = "buffer" /\ directory'[n] = Null => opened[n] # NotOpened
    PROVE  IInv'
  <1>1. TypeOK'
    BY DEF IInv, TypeOK
  <1>2. CountsExact'
    BY CountsStay DEF IInv
  <1>3. PipesFreed'
    BY DEF PipesFreed, Pipes
  <1>4. Gone'
    BY DEF IInv, Gone
  <1>5. Holding'
    <2> SUFFICES ASSUME NEW p \in Process, asleep[p] # Null
                 PROVE  /\ kind'[asleep[p]] \in {"sem", "mutex"}
                        /\ \E f \in Fd : fd_table[p][f].file = asleep[p]
      BY DEF Holding
    <2>1. PICK f \in Fd : fd_table[p][f].file = asleep[p] /\ kind[asleep[p]] \in {"sem", "mutex"}
      BY DEF IInv, Holding
    <2>2. fd_table[p][f] # None
      BY <2>1 DEF None
    <2>3. asleep[p] \in Node /\ opened[asleep[p]] # NotOpened
      BY <2>1, <2>2, RefersToOpened DEF IInv, RefersOpened
    <2>4. QED
      BY <2>1, <2>3
  <1>6. QED
    BY <1>1, <1>2, <1>3, <1>4, <1>5 DEF IInv

\* The types of what is left when files are freed.
LEMMA FreeType ==
    ASSUME TypeOK, NEW gone, Free(gone)
    PROVE  /\ kind' \in [Node -> Kind \cup {"free"}] /\ directory' \in [Node -> Node \cup {Null}]
           /\ list' \in [Node -> Seq(Node)]
           /\ data' \in [Node -> Process \cup {Null} \cup 0 .. MaxData]
           /\ \A n \in Node :
                data'[n] \in IF kind'[n] = "mutex" THEN Process \cup {Null} ELSE 0 .. MaxData
           /\ \A n \in gone \cap Node : kind'[n] = "free"
           /\ \A n \in Node \ gone : kind'[n] = kind[n] /\ directory'[n] = directory[n]
  <1>1. kind' \in [Node -> Kind \cup {"free"}] /\ directory' \in [Node -> Node \cup {Null}]
    BY DEF Free, TypeOK
  <1>2. /\ \A n \in gone \cap Node : kind'[n] = "free"
        /\ \A n \in Node \ gone : kind'[n] = kind[n] /\ directory'[n] = directory[n]
    BY DEF Free
  <1>3. list' \in [Node -> Seq(Node)]
    <2>1. ASSUME NEW n \in Node
          PROVE  (IF n \in gone THEN <<>> ELSE Without(list[n], gone)) \in Seq(Node)
      <3>1. list[n] \in Seq(Node)
        BY DEF TypeOK
      <3>2. Without(list[n], gone) \in Seq(Node)
        BY <3>1, WithoutType
      <3>3. <<>> \in Seq(Node)
        OBVIOUS
      <3>4. QED
        BY <3>2, <3>3
    <2>2. list' = [n \in Node |-> IF n \in gone THEN <<>> ELSE Without(list[n], gone)]
      BY DEF Free
    <2>3. QED
      BY <2>1, <2>2
  <1>4. 0 \in 0 .. MaxData
    BY FileSystemAssumption
  <1>5. data' \in [Node -> Process \cup {Null} \cup 0 .. MaxData]
    BY <1>4 DEF Free, TypeOK
  <1>6. ASSUME NEW n \in Node
        PROVE  data'[n] \in IF kind'[n] = "mutex" THEN Process \cup {Null} ELSE 0 .. MaxData
    <2>1. CASE n \in gone
      BY <1>2, <1>4, <2>1 DEF Free
    <2>2. CASE n \notin gone
      BY <1>2, <2>2 DEF Free, TypeOK
    <2>3. QED
      BY <2>1, <2>2
  <1>7. QED
    BY <1>1, <1>2, <1>3, <1>5, <1>6

\* makeFile: the memory of the new file was not one.
LEMMA MakeFileStep ==
    ASSUME IInv, NEW p \in Process, NEW path, Len(path.names) \in Nat \ {0},
           NEW k \in {"dir", "regular", "sem", "mutex", "exec"}, NEW value,
           value \in IF k = "mutex" THEN Process \cup {Null} ELSE 0 .. MaxData,
           MakeFile(p, path, k, value), UNCHANGED <<alive, fd_table, asleep>>
    PROVE  IInv'
  <1> DEFINE d == Parent(p, path)
             c == Last(path.names)
  <1>1. d \in Node
    BY ParentType DEF IInv, MakeFile
  <1>2. PICK n \in Node : /\ Allocate(n, k, c, d, value)
                          /\ list' = [list EXCEPT ![d] = Inserted(@, n, c), ![n] = <<>>]
    BY DEF MakeFile
  <1> HIDE DEF d, c
  <1>3. /\ kind[n] = "free" /\ kind' = [kind EXCEPT ![n] = k]
        /\ directory' = [directory EXCEPT ![n] = d] /\ data' = [data EXCEPT ![n] = value]
    BY <1>2 DEF Allocate, Unused
  <1>4. kind' \in [Node -> Kind \cup {"free"}] /\ directory' \in [Node -> Node \cup {Null}]
    BY <1>1, <1>3 DEF IInv, TypeOK, Kind
  <1>5. list' \in [Node -> Seq(Node)]
    <2>1. Inserted(list[d], n, c) \in Seq(Node) /\ <<>> \in Seq(Node)
      BY <1>1, InsertedType DEF IInv, TypeOK
    <2>2. QED
      BY <1>2, <2>1 DEF IInv, TypeOK
  <1>6. data' \in [Node -> Process \cup {Null} \cup 0 .. MaxData]
    BY <1>3 DEF IInv, TypeOK
  <1>7. /\ kind'[n] = k /\ directory'[n] = d /\ data'[n] = value
        /\ \A m \in Node \ {n} : kind'[m] = kind[m] /\ directory'[m] = directory[m] /\ data'[m] = data[m]
    BY <1>3 DEF IInv, TypeOK
  <1>8. \A m \in Node : data'[m] \in IF kind'[m] = "mutex" THEN Process \cup {Null} ELSE 0 .. MaxData
    BY <1>7 DEF IInv, TypeOK
  <1>9. \A m \in Node : opened[m] # NotOpened /\ kind[m] # "free" => kind'[m] = kind[m]
    BY <1>3, <1>7
  <1>10. \A m \in Node : kind'[m] = "buffer" /\ directory'[m] = Null => opened[m] # NotOpened
    BY <1>7 DEF IInv, PipesFreed, Pipes
  <1>11. cwd' \in [Process -> Node] /\ opened' = opened
    BY DEF MakeFile, IInv, TypeOK
  <1>12. QED
    BY <1>4, <1>5, <1>6, <1>8, <1>9, <1>10, <1>11, TreeStep

\* removeFile: nothing that is opened goes.
LEMMA RemoveFileStep ==
    ASSUME IInv, NEW n, RemoveFile(n), UNCHANGED <<alive, fd_table, asleep>>
    PROVE  IInv'
  <1>1. Removed(n) \cap Opened = {}
    BY DEF Removed
  <1>2. Free(Removed(n)) /\ opened' = opened /\ cwd' \in [Process -> Node]
    BY DEF RemoveFile, IInv, TypeOK
  <1>3. /\ kind' \in [Node -> Kind \cup {"free"}] /\ directory' \in [Node -> Node \cup {Null}]
        /\ list' \in [Node -> Seq(Node)]
        /\ data' \in [Node -> Process \cup {Null} \cup 0 .. MaxData]
        /\ \A m \in Node : data'[m] \in IF kind'[m] = "mutex" THEN Process \cup {Null} ELSE 0 .. MaxData
        /\ \A m \in Removed(n) \cap Node : kind'[m] = "free"
        /\ \A m \in Node \ Removed(n) : kind'[m] = kind[m] /\ directory'[m] = directory[m]
    BY <1>2, FreeType DEF IInv
  <1>4. \A m \in Node : opened[m] # NotOpened /\ kind[m] # "free" => kind'[m] = kind[m]
    BY <1>1, <1>3 DEF Opened
  <1>5. \A m \in Node : kind'[m] = "buffer" /\ directory'[m] = Null => opened[m] # NotOpened
    <2> SUFFICES ASSUME NEW m \in Node, kind'[m] = "buffer", directory'[m] = Null
                 PROVE  opened[m] # NotOpened
      OBVIOUS
    <2>1. m \notin Removed(n)
      BY <1>3
    <2>2. kind[m] = "buffer" /\ directory[m] = Null
      BY <1>3, <2>1
    <2>3. QED
      BY <2>2 DEF IInv, PipesFreed, Pipes
  <1>6. QED
    BY <1>2, <1>3, <1>4, <1>5, TreeStep

\* changeCWD.
LEMMA ChangeCWDStep ==
    ASSUME IInv, NEW p \in Process, NEW path, Len(path.names) \in Nat \ {0}, ChangeCWD(p, path),
           UNCHANGED <<alive, fd_table, asleep>>
    PROVE  IInv'
  <1>1. GetFile(p, path) \in Node
    BY GetFileType DEF IInv, ChangeCWD
  <1>2. cwd' \in [Process -> Node]
    BY <1>1 DEF ChangeCWD, IInv, TypeOK
  <1>3. UNCHANGED <<kind, directory, list, opened, data>>
    BY DEF ChangeCWD, tree
  <1>4. \A m \in Node : kind'[m] = "buffer" /\ directory'[m] = Null => opened[m] # NotOpened
    BY <1>3 DEF IInv, PipesFreed, Pipes
  <1>5. TypeOK
    BY DEF IInv
  <1>6. QED
    BY <1>2, <1>3, <1>4, <1>5, TreeStep DEF TypeOK

\* A call that only changes what is in the files, puts its process to sleep in what one of its
\* descriptors refers to, or wakes one.
LEMMA DataStep ==
    ASSUME IInv, UNCHANGED <<tree, opened, cwd, alive, fd_table>>,
           data' \in [Node -> Process \cup {Null} \cup 0 .. MaxData],
           \A n \in Node : data'[n] \in IF kind[n] = "mutex" THEN Process \cup {Null} ELSE 0 .. MaxData,
           asleep' \in [Process -> Node \cup {Null}],
           \A q \in Process : \/ asleep'[q] \in {Null, asleep[q]}
                              \/ /\ q \in alive /\ kind[asleep'[q]] \in {"sem", "mutex"}
                                 /\ \E f \in Fd : fd_table[q][f].file = asleep'[q]
    PROVE  IInv'
  <1>1. kind' = kind /\ directory' = directory /\ list' = list
    BY DEF tree
  <1>2. TypeOK'
    BY <1>1 DEF IInv, TypeOK
  <1>3. CountsExact'
    BY CountsStay DEF IInv
  <1>4. PipesFreed'
    BY <1>1 DEF IInv, PipesFreed, Pipes
  <1>5. Gone'
    BY DEF IInv, Gone
  <1>6. Holding'
    <2> SUFFICES ASSUME NEW q \in Process, asleep'[q] # Null
                 PROVE  /\ kind[asleep'[q]] \in {"sem", "mutex"}
                        /\ \E f \in Fd : fd_table[q][f].file = asleep'[q]
      BY <1>1 DEF Holding
    <2>1. CASE asleep'[q] = asleep[q]
      BY <2>1 DEF IInv, Holding
    <2>2. QED
      BY <2>1
  <1>7. QED
    BY <1>2, <1>3, <1>4, <1>5, <1>6 DEF IInv

\* sem_signal: the value grows, or one who sleeps in the semaphore wakes.
LEMMA SignalStep ==
    ASSUME IInv, NEW n \in Node, kind[n] = "sem", Signal(n),
           UNCHANGED <<tree, opened, cwd, alive, fd_table>>
    PROVE  IInv'
  <1>1. CASE Sleepers(n) # {}
    <2>1. PICK q \in Process : asleep' = [asleep EXCEPT ![q] = Null]
      BY <1>1 DEF Signal, Sleepers
    <2>2. data' = data
      BY <1>1 DEF Signal
    <2>3. /\ asleep' \in [Process -> Node \cup {Null}]
          /\ \A r \in Process : asleep'[r] \in {Null, asleep[r]}
      BY <2>1 DEF IInv, TypeOK
    <2>4. TypeOK
      BY DEF IInv
    <2>5. QED
      BY <2>2, <2>3, <2>4, DataStep DEF TypeOK
  <1>2. CASE Sleepers(n) = {}
    <2>1. data[n] < MaxData /\ data' = [data EXCEPT ![n] = data[n] + 1] /\ asleep' = asleep
      BY <1>2 DEF Signal
    <2>2. data[n] \in 0 .. MaxData
      BY DEF IInv, TypeOK
    <2>3. data[n] + 1 \in 0 .. MaxData
      BY <2>1, <2>2, FileSystemAssumption
    <2>4. data' \in [Node -> Process \cup {Null} \cup 0 .. MaxData]
      BY <2>1, <2>3 DEF IInv, TypeOK
    <2>5. \A m \in Node : data'[m] \in IF kind[m] = "mutex" THEN Process \cup {Null} ELSE 0 .. MaxData
      BY <2>1, <2>3 DEF IInv, TypeOK
    <2>6. asleep' \in [Process -> Node \cup {Null}]
      BY <2>1 DEF IInv, TypeOK
    <2>7. QED
      BY <2>1, <2>4, <2>5, <2>6, DataStep
  <1>3. QED
    BY <1>1, <1>2

\* The object of a call is a file that its descriptor refers to.
LEMMA ObjectOf ==
    ASSUME IInv, NEW p \in Process, NEW f \in Fd, NEW k, IsOf(p, f, k)
    PROVE  fd_table[p][f].file \in Node /\ kind[fd_table[p][f].file] = k
  BY RefersToOpened DEF IInv, IsOf, RefersOpened

\* semWait.
LEMMA SemWaitStep ==
    ASSUME IInv, NEW p \in Process, NEW f \in Fd, Runs(p), SemWait(p, f)
    PROVE  IInv'
  <1> DEFINE n == fd_table[p][f].file
  <1>1. n \in Node /\ kind[n] = "sem" /\ UNCHANGED <<tree, opened, cwd, alive, fd_table>>
    BY ObjectOf DEF SemWait
  <1>2. data[n] \in 0 .. MaxData
    BY <1>1 DEF IInv, TypeOK
  <1>3. TypeOK
    BY DEF IInv
  <1>4. CASE data[n] > 0
    <2>1. data' = [data EXCEPT ![n] = data[n] - 1] /\ asleep' = asleep
      BY <1>4 DEF SemWait
    <2>2. data[n] - 1 \in 0 .. MaxData
      BY <1>2, <1>4, FileSystemAssumption
    <2> HIDE DEF n
    <2>3. data' \in [Node -> Process \cup {Null} \cup 0 .. MaxData]
      BY <2>1, <2>2 DEF IInv, TypeOK
    <2>4. \A m \in Node : data'[m] \in IF kind[m] = "mutex" THEN Process \cup {Null} ELSE 0 .. MaxData
      BY <1>1, <2>1, <2>2 DEF IInv, TypeOK
    <2>5. asleep' \in [Process -> Node \cup {Null}]
      BY <2>1 DEF IInv, TypeOK
    <2>6. QED
      BY <1>1, <2>1, <2>3, <2>4, <2>5, DataStep
  <1>5. CASE ~ (data[n] > 0)
    <2>1. data' = data /\ asleep' = [asleep EXCEPT ![p] = n]
      BY <1>5 DEF SemWait
    <2>2. asleep' \in [Process -> Node \cup {Null}]
      BY <1>1, <2>1 DEF IInv, TypeOK
    <2>3. asleep'[p] = n /\ \A q \in Process \ {p} : asleep'[q] = asleep[q]
      BY <2>1 DEF IInv, TypeOK
    <2>4. p \in alive /\ \E g \in Fd : fd_table[p][g].file = asleep'[p]
      BY <2>3 DEF Runs
    <2>5. \A q \in Process : \/ asleep'[q] \in {Null, asleep[q]}
                             \/ /\ q \in alive /\ kind[asleep'[q]] \in {"sem", "mutex"}
                                /\ \E g \in Fd : fd_table[q][g].file = asleep'[q]
      BY <1>1, <2>3, <2>4
    <2>6. QED
      BY <1>1, <1>3, <2>1, <2>2, <2>5, DataStep DEF TypeOK
  <1>6. QED
    BY <1>4, <1>5

\* mutexLock.
LEMMA MutexLockStep ==
    ASSUME IInv, NEW p \in Process, NEW f \in Fd, Runs(p), MutexLock(p, f)
    PROVE  IInv'
  <1> DEFINE n == fd_table[p][f].file
  <1>1. n \in Node /\ kind[n] = "mutex" /\ UNCHANGED <<tree, opened, cwd, alive, fd_table>>
    BY ObjectOf DEF MutexLock
  <1>2. TypeOK
    BY DEF IInv
  <1>3. CASE data[n] = Null
    <2>1. data' = [data EXCEPT ![n] = p] /\ asleep' = asleep
      BY <1>3 DEF MutexLock
    <2> HIDE DEF n
    <2>2. data' \in [Node -> Process \cup {Null} \cup 0 .. MaxData]
      BY <2>1 DEF IInv, TypeOK
    <2>3. \A m \in Node : data'[m] \in IF kind[m] = "mutex" THEN Process \cup {Null} ELSE 0 .. MaxData
      BY <1>1, <2>1 DEF IInv, TypeOK
    <2>4. asleep' \in [Process -> Node \cup {Null}]
      BY <2>1 DEF IInv, TypeOK
    <2>5. QED
      BY <1>1, <2>1, <2>2, <2>3, <2>4, DataStep
  <1>4. CASE data[n] # Null
    <2>1. data' = data /\ asleep' = [asleep EXCEPT ![p] = n]
      BY <1>4 DEF MutexLock
    <2>2. asleep' \in [Process -> Node \cup {Null}]
      BY <1>1, <2>1 DEF IInv, TypeOK
    <2>3. asleep'[p] = n /\ \A q \in Process \ {p} : asleep'[q] = asleep[q]
      BY <2>1 DEF IInv, TypeOK
    <2>4. p \in alive /\ \E g \in Fd : fd_table[p][g].file = asleep'[p]
      BY <2>3 DEF Runs
    <2>5. \A q \in Process : \/ asleep'[q] \in {Null, asleep[q]}
                             \/ /\ q \in alive /\ kind[asleep'[q]] \in {"sem", "mutex"}
                                /\ \E g \in Fd : fd_table[q][g].file = asleep'[q]
      BY <1>1, <2>3, <2>4
    <2>6. QED
      BY <1>1, <1>2, <2>1, <2>2, <2>5, DataStep DEF TypeOK
  <1>5. QED
    BY <1>3, <1>4

\* mutexUnlock: free, or handed to one who sleeps in it.
LEMMA MutexUnlockStep ==
    ASSUME IInv, NEW p \in Process, NEW f \in Fd, MutexUnlock(p, f)
    PROVE  IInv'
  <1> DEFINE n == fd_table[p][f].file
  <1>1. n \in Node /\ kind[n] = "mutex" /\ UNCHANGED <<tree, opened, cwd, alive, fd_table>>
    BY ObjectOf DEF MutexUnlock
  <1>2. PICK v \in Process \cup {Null} :
            /\ data' = [data EXCEPT ![n] = v]
            /\ asleep' = asleep \/ asleep' = [asleep EXCEPT ![v] = Null]
    BY DEF MutexUnlock, Sleepers
  <1> HIDE DEF n
  <1>3. data' \in [Node -> Process \cup {Null} \cup 0 .. MaxData]
    BY <1>2 DEF IInv, TypeOK
  <1>4. \A m \in Node : data'[m] \in IF kind[m] = "mutex" THEN Process \cup {Null} ELSE 0 .. MaxData
    BY <1>1, <1>2 DEF IInv, TypeOK
  <1>5. asleep' \in [Process -> Node \cup {Null}] /\ \A q \in Process : asleep'[q] \in {Null, asleep[q]}
    BY <1>2 DEF IInv, TypeOK
  <1>6. QED
    BY <1>1, <1>3, <1>4, <1>5, DataStep

\* writeFile.
LEMMA WriteFileStep ==
    ASSUME IInv, NEW p \in Process, NEW f \in Fd, WriteFile(p, f, 1)
    PROVE  IInv'
  <1> DEFINE n == fd_table[p][f].file
             v == IF data[n] + 1 > MaxData THEN MaxData ELSE data[n] + 1
  <1>1. /\ fd_table[p][f] # None /\ kind[n] = "regular"
        /\ data' = [data EXCEPT ![n] = v] /\ UNCHANGED <<tree, opened, cwd, alive, fd_table, asleep>>
    BY DEF WriteFile
  <1>2. n \in Node
    BY <1>1, RefersToOpened DEF IInv, RefersOpened
  <1>3. data[n] \in 0 .. MaxData
    BY <1>1, <1>2 DEF IInv, TypeOK
  <1>4. v \in 0 .. MaxData
    <2>1. CASE data[n] + 1 > MaxData
      BY <2>1, FileSystemAssumption
    <2>2. CASE ~ (data[n] + 1 > MaxData)
      BY <1>3, <2>2, FileSystemAssumption
    <2>3. QED
      BY <2>1, <2>2
  <1> HIDE DEF n, v
  <1>5. data' \in [Node -> Process \cup {Null} \cup 0 .. MaxData]
    BY <1>1, <1>4 DEF IInv, TypeOK
  <1>6. \A m \in Node : data'[m] \in IF kind[m] = "mutex" THEN Process \cup {Null} ELSE 0 .. MaxData
    BY <1>1, <1>4 DEF IInv, TypeOK
  <1>7. asleep' \in [Process -> Node \cup {Null}]
    BY <1>1 DEF IInv, TypeOK
  <1>8. QED
    BY <1>1, <1>5, <1>6, <1>7, DataStep

\* execCreate, of a new executable or one that is there.
LEMMA ExecCreateStep ==
    ASSUME IInv, NEW p \in Process, NEW path, Len(path.names) \in Nat \ {0}, ExecCreate(p, path)
    PROVE  IInv'
  <1> DEFINE n == GetFile(p, path)
  <1>1. 1 \in 0 .. MaxData /\ UNCHANGED <<alive, fd_table, asleep>>
    BY FileSystemAssumption DEF ExecCreate
  <1>2. CASE MakeFile(p, path, "exec", 1)
    BY <1>1, <1>2, MakeFileStep
  <1>3. CASE /\ n # Null /\ kind[n] = "exec"
             /\ data' = [data EXCEPT ![n] = 1] /\ UNCHANGED <<tree, opened, cwd>>
    <2>1. n \in Node
      BY <1>3, GetFileType DEF IInv
    <2> HIDE DEF n
    <2>2. data' \in [Node -> Process \cup {Null} \cup 0 .. MaxData]
      BY <1>1, <1>3 DEF IInv, TypeOK
    <2>3. \A m \in Node : data'[m] \in IF kind[m] = "mutex" THEN Process \cup {Null} ELSE 0 .. MaxData
      BY <1>1, <1>3 DEF IInv, TypeOK
    <2>4. asleep' \in [Process -> Node \cup {Null}] /\ asleep' = asleep
      BY <1>1 DEF IInv, TypeOK
    <2>5. QED
      BY <1>1, <1>3, <2>2, <2>3, <2>4, DataStep
  <1>4. QED
    BY <1>2, <1>3 DEF ExecCreate

-----------------------------------------------------------------------------
\* readFile moves a cursor.
LEMMA ReadFileStep ==
    ASSUME IInv, NEW p \in Process, NEW f \in Fd, ReadFile(p, f, 1)
    PROVE  IInv'
  <1> DEFINE d == fd_table[p][f]
             v == IF d.cursor + 1 > data[d.file] THEN data[d.file] ELSE d.cursor + 1
             e == [d EXCEPT !.cursor = v]
  <1>1. /\ d # None /\ kind[d.file] = "regular" /\ d.cursor < data[d.file]
        /\ UNCHANGED <<tree, opened, data, cwd, alive, asleep>>
        /\ fd_table' = [fd_table EXCEPT ![p][f] = e]
    BY DEF ReadFile
  <1>2. d.file \in Node /\ d.mode \in Mode /\ d.cursor \in 0 .. MaxData
        /\ d = [file |-> d.file, mode |-> d.mode, cursor |-> d.cursor]
    BY <1>1 DEF IInv, TypeOK, Descriptor
  <1>3. data[d.file] \in 0 .. MaxData
    BY <1>1, <1>2 DEF IInv, TypeOK
  <1>4. v \in 0 .. MaxData
    <2>1. \A c, b \in 0 .. MaxData : c + 1 > b \/ c + 1 \in 0 .. MaxData
      BY FileSystemAssumption
    <2>2. d.cursor \in 0 .. MaxData
      BY <1>2
    <2>3. CASE d.cursor + 1 > data[d.file]
      BY <1>3, <2>3
    <2>4. CASE ~ (d.cursor + 1 > data[d.file])
      BY <1>3, <2>1, <2>2, <2>4
    <2>5. QED
      BY <2>3, <2>4
  <1>5. e = [file |-> d.file, mode |-> d.mode, cursor |-> v]
    <2> HIDE DEF v
    <2> QED
      BY <1>2
  <1>6. e.file = d.file /\ e.mode = d.mode /\ e # None /\ e \in Descriptor
    <2> HIDE DEF v, e
    <2> QED
      BY <1>1, <1>2, <1>4, <1>5, FileTreeAssumption DEF Descriptor, None
  <1> HIDE DEF d, e
  <1>7. fd_table' \in [Process -> [Fd -> Descriptor]]
    BY <1>1, <1>6 DEF IInv, TypeOK
  <1>8. \A q \in Process : \A g \in Fd :
            /\ fd_table'[q][g].file = fd_table[q][g].file
            /\ fd_table'[q][g].mode = fd_table[q][g].mode
    BY <1>1, <1>6 DEF IInv, TypeOK, d
  <1>9. TypeOK'
    BY <1>1, <1>7 DEF IInv, TypeOK, tree
  <1>10. CountsExact'
    <2>1. ASSUME NEW n \in Node
          PROVE  /\ Refs(fd_table', All, n, Reading) = Refs(fd_table, All, n, Reading)
                 /\ Refs(fd_table', All, n, Writing) = Refs(fd_table, All, n, Writing)
      BY <1>8 DEF Refs, All
    <2>2. ASSUME NEW n \in Node
          PROVE  opened'[n] = [readers |-> Cardinality(Refs(fd_table', All, n, Reading)),
                               writers |-> Cardinality(Refs(fd_table', All, n, Writing))]
      BY <1>1, <2>1 DEF IInv, CountsExact, All
    <2>3. QED
      BY <2>2 DEF CountsExact, All
  <1>11. PipesFreed'
    BY <1>1 DEF IInv, PipesFreed, Pipes, tree
  <1>12. Gone'
    <2>1. \A q \in Process \ alive : fd_table'[q] = fd_table[q]
      BY <1>1 DEF IInv, TypeOK, Gone, d
    <2>2. QED
      BY <1>1, <2>1 DEF IInv, Gone
  <1>13. Holding'
    BY <1>1, <1>8 DEF IInv, Holding, tree
  <1>14. QED
    BY <1>9, <1>10, <1>11, <1>12, <1>13 DEF IInv

\* One descriptor more in a process that runs.
LEMMA OpenStep ==
    ASSUME IInv, NEW q \in alive, NEW g \in Fd, fd_table[q][g] = None,
           NEW n \in Node, NEW m \in Mode, OpenFile(q, g, n, m),
           UNCHANGED <<tree, data, cwd, alive, asleep>>
    PROVE  IInv'
  <1> DEFINE d == [file |-> n, mode |-> m, cursor |-> 0]
  <1>1. /\ q \in Process /\ <<q, g>> \in All
        /\ fd_table' = [fd_table EXCEPT ![q][g] = d]
        /\ opened' = Counted(fd_table', {<<q, g>>}, 1)
    BY DEF OpenFile, IInv, TypeOK, All
  <1>2. d \in Descriptor
    BY FileSystemAssumption DEF Descriptor
  <1> HIDE DEF d
  <1>3. fd_table' \in [Process -> [Fd -> Descriptor]]
    BY <1>1, <1>2 DEF IInv, TypeOK
  <1>4. \A x \in All \ {<<q, g>>} : fd_table'[x[1]][x[2]] = fd_table[x[1]][x[2]]
    BY <1>1 DEF All, IInv, TypeOK
  <1>5. CountsExact' /\ opened' \in [Node -> [readers : Int, writers : Int]]
    <2>1. \A x \in {<<q, g>>} : fd_table[x[1]][x[2]] = None
      OBVIOUS
    <2>2. {<<q, g>>} \in SUBSET All
      BY <1>1
    <2>3. QED
      BY <1>1, <1>4, <2>1, <2>2, OpenedCounts DEF IInv
  <1>6. TypeOK'
    BY <1>3, <1>5 DEF IInv, TypeOK, tree
  <1>7. PipesFreed'
    <2>1. \A k \in Node : opened[k] # NotOpened => opened'[k] # NotOpened
      BY <1>1, StillOpened DEF IInv
    <2>2. QED
      BY <2>1 DEF IInv, PipesFreed, Pipes, tree
  <1>8. \A p \in Process \ {q} : fd_table'[p] = fd_table[p]
    BY <1>1 DEF IInv, TypeOK
  <1>9. Gone'
    BY <1>8 DEF IInv, Gone
  <1>10. Holding'
    <2>1. \A p \in Process, f \in Fd : fd_table[p][f] # None => fd_table'[p][f] = fd_table[p][f]
      BY <1>1 DEF IInv, TypeOK
    <2> SUFFICES ASSUME NEW p \in Process, asleep[p] # Null
                 PROVE  /\ kind[asleep[p]] \in {"sem", "mutex"}
                        /\ \E f \in Fd : fd_table'[p][f].file = asleep[p]
      BY DEF Holding, tree
    <2>2. PICK f \in Fd : fd_table[p][f].file = asleep[p] /\ kind[asleep[p]] \in {"sem", "mutex"}
      BY DEF IInv, Holding
    <2>3. fd_table[p][f] # None
      BY <2>2 DEF None
    <2>4. QED
      BY <2>1, <2>2, <2>3
  <1>11. QED
    BY <1>5, <1>6, <1>7, <1>9, <1>10 DEF IInv

\* openFileToFD, of a file that a path leads to.
LEMMA OpenToFdStep ==
    ASSUME IInv, NEW p \in Process, Runs(p), NEW n \in Node \cup {Null}, NEW m \in Mode, OpenToFd(p, n, m)
    PROVE  IInv'
  <1>1. PICK g \in Fd : FreeFd(p, g) /\ OpenFile(p, g, n, m)
    BY DEF OpenToFd
  <1>2. p \in alive /\ n \in Node /\ fd_table[p][g] = None /\ UNCHANGED <<tree, data, cwd, alive, asleep>>
    BY <1>1 DEF Runs, OpenFile, FreeFd, Vacant, OpenToFd
  <1>3. QED
    BY <1>1, <1>2, OpenStep

\* dup2: the file is opened again, in the same mode.
LEMMA Dup2Step ==
    ASSUME IInv, NEW p \in Process, Runs(p), NEW f \in Fd, NEW g \in Fd, Dup2(p, f, g)
    PROVE  IInv'
  <1>1. /\ fd_table[p][g] = None /\ fd_table[p][f] # None
        /\ OpenFile(p, g, fd_table[p][f].file, fd_table[p][f].mode)
        /\ UNCHANGED <<tree, data, cwd, alive, asleep>>
    BY DEF Dup2, CloneFD, Vacant
  <1>2. fd_table[p][f].file \in Node /\ fd_table[p][f].mode \in Mode
    BY <1>1 DEF IInv, TypeOK, Descriptor
  <1>3. p \in alive
    BY DEF Runs
  <1>4. QED
    BY <1>1, <1>2, <1>3, OpenStep

\* openUnnamedPipe: two descriptors of memory that was no file.
LEMMA OpenUnnamedPipeStep ==
    ASSUME IInv, NEW p \in Process, Runs(p), OpenUnnamedPipe(p)
    PROVE  IInv'
  <1> DEFINE d(n) == [file |-> n, mode |-> "r", cursor |-> 0]
             e(n) == [file |-> n, mode |-> "w", cursor |-> 0]
  <1>1. PICK n \in Node, f \in Fd, g \in Fd :
            /\ Unused(n) /\ fd_table[p][f] = None /\ g > f /\ fd_table[p][g] = None
            /\ kind' = [kind EXCEPT ![n] = "buffer"]
            /\ fd_table' = [fd_table EXCEPT ![p][f] = d(n), ![p][g] = e(n)]
            /\ opened' = Counted(fd_table', {<<p, f>>, <<p, g>>}, 1)
            /\ UNCHANGED <<name, directory, list, data, cwd, alive, asleep>>
    BY DEF OpenUnnamedPipe, FreeFd, Vacant
  <1>2. f # g /\ p \in alive /\ kind[n] = "free"
    BY <1>1, FileSystemAssumption DEF Runs, Unused
  <1>3. d(n) \in Descriptor /\ e(n) \in Descriptor
    BY FileSystemAssumption DEF Descriptor, Mode
  <1> HIDE DEF d, e
  <1>4. fd_table' \in [Process -> [Fd -> Descriptor]]
    BY <1>1, <1>3 DEF IInv, TypeOK
  <1>5. /\ fd_table'[p][f] = d(n) /\ fd_table'[p][g] = e(n)
        /\ \A h \in Fd \ {f, g} : fd_table'[p][h] = fd_table[p][h]
        /\ \A q \in Process \ {p} : fd_table'[q] = fd_table[q]
    BY <1>1, <1>2 DEF IInv, TypeOK
  <1>6. CountsExact' /\ opened' \in [Node -> [readers : Int, writers : Int]]
    <2> DEFINE X == {<<p, f>>, <<p, g>>}
    <2>1. X \in SUBSET All /\ \A x \in X : fd_table[x[1]][x[2]] = None
      BY <1>1 DEF All
    <2>2. \A x \in All \ X : fd_table'[x[1]][x[2]] = fd_table[x[1]][x[2]]
      BY <1>5 DEF All
    <2>3. opened' = Counted(fd_table', X, 1)
      BY <1>1
    <2> HIDE DEF X
    <2>4. QED
      BY <2>1, <2>2, <2>3, OpenedCounts DEF IInv
  <1>7. kind' \in [Node -> Kind \cup {"free"}] /\ kind'[n] = "buffer"
        /\ \A m \in Node \ {n} : kind'[m] = kind[m]
    BY <1>1 DEF IInv, TypeOK, Kind
  <1>8. TypeOK'
    <2>1. \A m \in Node : data'[m] \in IF kind'[m] = "mutex" THEN Process \cup {Null} ELSE 0 .. MaxData
      BY <1>1, <1>2, <1>7 DEF IInv, TypeOK
    <2>2. QED
      BY <1>1, <1>4, <1>6, <1>7, <2>1 DEF IInv, TypeOK
  <1>9. RefersOpened'
    BY <1>6, <1>8, RefersToOpened, PTL
  <1>10. PipesFreed'
    <2> SUFFICES ASSUME NEW k \in Node, kind'[k] = "buffer", directory[k] = Null, opened'[k] = NotOpened
                 PROVE  FALSE
      BY <1>1 DEF PipesFreed, Pipes
    <2>1. CASE k = n
      <3>1. fd_table'[p][f].file = n
        BY <1>5 DEF d
      <3>2. None.file = Null /\ n # Null
        BY FileTreeAssumption DEF None
      <3>3. fd_table'[p][f] # None
        BY <3>1, <3>2
      <3>4. QED
        BY <1>9, <2>1, <3>1, <3>3 DEF RefersOpened
    <2>2. CASE k # n
      <3>1. kind[k] = "buffer"
        BY <1>7, <2>2
      <3>2. opened[k] # NotOpened
        BY <3>1 DEF IInv, PipesFreed, Pipes
      <3>3. {<<p, f>>, <<p, g>>} \in SUBSET All
        BY DEF All
      <3>4. QED
        BY <1>1, <3>2, <3>3, StillOpened DEF IInv
    <2>3. QED
      BY <2>1, <2>2
  <1>11. Gone'
    <2> SUFFICES ASSUME NEW q \in Process \ alive
                 PROVE  asleep[q] = Null /\ \A h \in Fd : fd_table'[q][h] = None
      BY <1>1 DEF Gone
    <2>1. fd_table'[q] = fd_table[q]
      BY <1>2, <1>5
    <2>2. QED
      BY <2>1 DEF IInv, Gone
  <1>12. Holding'
    <2> SUFFICES ASSUME NEW q \in Process, asleep[q] # Null
                 PROVE  /\ kind'[asleep[q]] \in {"sem", "mutex"}
                        /\ \E h \in Fd : fd_table'[q][h].file = asleep[q]
      BY <1>1 DEF Holding
    <2>1. q # p
      BY DEF Runs
    <2>2. kind[asleep[q]] \in {"sem", "mutex"} /\ \E h \in Fd : fd_table[q][h].file = asleep[q]
      BY DEF IInv, Holding
    <2>3. asleep[q] \in Node
      BY DEF IInv, TypeOK
    <2>4. QED
      BY <1>2, <1>5, <1>7, <2>1, <2>2, <2>3
  <1>13. QED
    BY <1>6, <1>8, <1>10, <1>11, <1>12 DEF IInv

\* Descriptors are closed, of a process that does not sleep or is killed; the unnamed pipes that
\* nobody has open any more are freed.
LEMMA CloseStep ==
    ASSUME IInv, NEW p \in Process, NEW F \in SUBSET Fd, CloseFiles(p, F),
           fd_table' \in [Process -> [Fd -> Descriptor]],
           \A f \in F : fd_table'[p][f] = None,
           \A f \in Fd \ F : fd_table'[p][f] = fd_table[p][f],
           \A q \in Process \ {p} : fd_table'[q] = fd_table[q],
           asleep' \in [Process -> Node \cup {Null}], asleep'[p] = Null,
           \A q \in Process \ {p} : asleep'[q] = asleep[q],
           cwd' \in [Process -> Node], alive' \subseteq alive,
           p \notin alive' => F = Fd, \A q \in alive \ {p} : q \in alive'
    PROVE  IInv'
  <1> DEFINE X == {p} \X F
             gone == Pipes(opened') \ Pipes(opened)
  <1>1. X \in SUBSET All /\ \A x \in X : fd_table'[x[1]][x[2]] = None
    BY DEF All
  <1>2. \A x \in All \ X : fd_table'[x[1]][x[2]] = fd_table[x[1]][x[2]]
    <2> SUFFICES ASSUME NEW x \in All \ X
                 PROVE  fd_table'[x[1]][x[2]] = fd_table[x[1]][x[2]]
      OBVIOUS
    <2>1. x[1] \in Process /\ x[2] \in Fd /\ ~ (x[1] = p /\ x[2] \in F)
      BY DEF All
    <2>2. CASE x[1] = p
      BY <2>1, <2>2
    <2>3. CASE x[1] # p
      BY <2>1, <2>3
    <2>4. QED
      BY <2>2, <2>3
  <1>3. opened' = Counted(fd_table, X, -1) /\ Free(gone)
    BY DEF CloseFiles
  <1>4. CountsExact' /\ opened' \in [Node -> [readers : Int, writers : Int]]
    <2> HIDE DEF X
    <2> QED
      BY <1>1, <1>2, <1>3, ClosedCounts DEF IInv
  <1> HIDE DEF X, gone
  <1>5. /\ kind' \in [Node -> Kind \cup {"free"}] /\ directory' \in [Node -> Node \cup {Null}]
        /\ list' \in [Node -> Seq(Node)]
        /\ data' \in [Node -> Process \cup {Null} \cup 0 .. MaxData]
        /\ \A n \in Node : data'[n] \in IF kind'[n] = "mutex" THEN Process \cup {Null} ELSE 0 .. MaxData
        /\ \A n \in gone \cap Node : kind'[n] = "free"
        /\ \A n \in Node \ gone : kind'[n] = kind[n] /\ directory'[n] = directory[n]
    BY <1>3, FreeType DEF IInv
  <1>6. alive' \subseteq Process
    BY DEF IInv, TypeOK
  <1>7. TypeOK'
    BY <1>4, <1>5, <1>6 DEF TypeOK
  <1>8. RefersOpened'
    BY <1>4, <1>7, RefersToOpened, PTL
  <1>9. PipesFreed'
    <2> SUFFICES ASSUME NEW n \in Node, kind'[n] = "buffer", directory'[n] = Null,
                        opened'[n] = NotOpened
                 PROVE  FALSE
      BY DEF PipesFreed, Pipes
    <2>1. n \notin gone
      BY <1>5
    <2>2. kind[n] = "buffer" /\ directory[n] = Null
      BY <1>5, <2>1
    <2>3. n \in Pipes(opened')
      BY <2>2 DEF Pipes
    <2>4. QED
      BY <2>1, <2>3 DEF gone, IInv, PipesFreed
  <1>10. Gone'
    <2> SUFFICES ASSUME NEW q \in Process \ alive'
                 PROVE  asleep'[q] = Null /\ \A f \in Fd : fd_table'[q][f] = None
      BY DEF Gone
    <2>1. CASE q = p
      BY <2>1
    <2>2. CASE q # p
      <3>1. q \notin alive /\ asleep'[q] = asleep[q] /\ fd_table'[q] = fd_table[q]
        BY <2>2
      <3>2. QED
        BY <3>1 DEF IInv, Gone
    <2>3. QED
      BY <2>1, <2>2
  <1>11. Holding'
    <2> SUFFICES ASSUME NEW q \in Process, asleep'[q] # Null
                 PROVE  /\ kind'[asleep'[q]] \in {"sem", "mutex"}
                        /\ \E f \in Fd : fd_table'[q][f].file = asleep'[q]
      BY DEF Holding
    <2>1. q # p /\ asleep'[q] = asleep[q] /\ fd_table'[q] = fd_table[q]
      OBVIOUS
    <2>2. PICK f \in Fd : fd_table[q][f].file = asleep[q] /\ kind[asleep[q]] \in {"sem", "mutex"}
      BY <2>1 DEF IInv, Holding
    <2>3. None.file = Null
      BY DEF None
    <2>4. asleep[q] \in Node /\ opened'[asleep[q]] # NotOpened
      BY <1>8, <2>1, <2>2, <2>3 DEF RefersOpened
    <2>5. asleep[q] \notin gone
      BY <2>4 DEF gone, Pipes
    <2>6. QED
      BY <1>5, <2>1, <2>2, <2>4, <2>5
  <1>12. QED
    BY <1>4, <1>7, <1>9, <1>10, <1>11 DEF IInv

\* closeFileFromFD, semClose and mutexClose.
LEMMA CloseOneStep ==
    ASSUME IInv, NEW p \in Process, Runs(p), NEW f \in Fd, CloseOne(p, f)
    PROVE  IInv'
  <1>1. /\ CloseFiles(p, {f}) /\ fd_table' = [fd_table EXCEPT ![p][f] = None]
        /\ UNCHANGED <<cwd, alive, asleep>>
    BY DEF CloseOne
  <1>2. fd_table' \in [Process -> [Fd -> Descriptor]]
    BY <1>1 DEF IInv, TypeOK, Descriptor
  <1>3. /\ fd_table'[p][f] = None
        /\ \A g \in Fd \ {f} : fd_table'[p][g] = fd_table[p][g]
        /\ \A q \in Process \ {p} : fd_table'[q] = fd_table[q]
    BY <1>1 DEF IInv, TypeOK
  <1>4. /\ asleep' \in [Process -> Node \cup {Null}] /\ asleep'[p] = Null
        /\ cwd' \in [Process -> Node] /\ asleep' = asleep /\ alive' = alive /\ p \in alive
    BY <1>1 DEF IInv, TypeOK, Runs
  <1>5. {f} \in SUBSET Fd
    OBVIOUS
  <1>6. QED
    BY <1>1, <1>2, <1>3, <1>4, <1>5, CloseStep

\* killProcess.
LEMMA KillProcessStep ==
    ASSUME IInv, NEW p \in Process, KillProcess(p)
    PROVE  IInv'
  <1>1. /\ CloseFiles(p, Fd) /\ fd_table' = [fd_table EXCEPT ![p] = [f \in Fd |-> None]]
        /\ asleep' = [asleep EXCEPT ![p] = Null] /\ cwd' = [cwd EXCEPT ![p] = root]
        /\ alive' = alive \ {p}
    BY DEF KillProcess
  <1>2. fd_table' \in [Process -> [Fd -> Descriptor]]
    BY <1>1 DEF IInv, TypeOK, Descriptor
  <1>3. /\ \A f \in Fd : fd_table'[p][f] = None
        /\ \A q \in Process \ {p} : fd_table'[q] = fd_table[q]
    BY <1>1 DEF IInv, TypeOK
  <1>4. /\ asleep' \in [Process -> Node \cup {Null}] /\ asleep'[p] = Null
        /\ \A q \in Process \ {p} : asleep'[q] = asleep[q]
    BY <1>1 DEF IInv, TypeOK
  <1>5. cwd' \in [Process -> Node]
    <2>1. root \in Node
      BY FileTreeAssumption
    <2>2. QED
      BY <1>1, <2>1 DEF IInv, TypeOK
  <1>6. alive' \subseteq alive /\ \A q \in alive \ {p} : q \in alive'
    BY <1>1
  <1>7. Fd \in SUBSET Fd /\ \A f \in Fd \ Fd : fd_table'[p][f] = fd_table[p][f]
    OBVIOUS
  <1>8. QED
    BY <1>1, <1>2, <1>3, <1>4, <1>5, <1>6, <1>7, CloseStep

\* createProcess: the descriptors of the new process are clones of its parent's, or /dev/stdin.
LEMMA CreateProcessStep ==
    ASSUME IInv, NEW p \in Process, NEW q \in Process, NEW from \in {<<>>} \cup [{0, 1} \cap Fd -> Fd],
           CreateProcess(p, q, from)
    PROVE  IInv'
  <1> DEFINE clone == [g \in Fd |-> IF g \in DOMAIN from /\ fd_table[p][from[g]] # None
                                    THEN [fd_table[p][from[g]] EXCEPT !.cursor = 0] ELSE None]
             path == [absolute |-> TRUE, names |-> <<"dev", "stdin">>]
             in == GetFile(p, path)
             table == IF clone[0] = None /\ in # Null /\ kind[in] # "dir"
                      THEN [clone EXCEPT ![0] = [file |-> in, mode |-> "rw", cursor |-> 0]]
                      ELSE clone
  <1>1. /\ q \notin alive /\ alive' = alive \cup {q}
        /\ fd_table' = [fd_table EXCEPT ![q] = table]
        /\ opened' = Counted(fd_table', {q} \X Fd, 1)
        /\ cwd' = [cwd EXCEPT ![q] = root]
        /\ UNCHANGED <<kind, directory, list, data, asleep>>
    BY DEF CreateProcess, tree
  <1>2. clone \in [Fd -> Descriptor]
    <2>1. ASSUME NEW g \in Fd
          PROVE  (IF g \in DOMAIN from /\ fd_table[p][from[g]] # None
                  THEN [fd_table[p][from[g]] EXCEPT !.cursor = 0] ELSE None) \in Descriptor
      <3>1. CASE g \in DOMAIN from /\ fd_table[p][from[g]] # None
        <4>1. from[g] \in Fd
          BY <3>1
        <4>2. fd_table[p][from[g]] \in [file : Node, mode : Mode, cursor : 0 .. MaxData]
          BY <3>1, <4>1 DEF IInv, TypeOK, Descriptor
        <4>3. 0 \in 0 .. MaxData
          BY FileSystemAssumption
        <4>4. QED
          BY <3>1, <4>2, <4>3 DEF Descriptor
      <3>2. CASE ~ (g \in DOMAIN from /\ fd_table[p][from[g]] # None)
        BY <3>2 DEF Descriptor
      <3>3. QED
        BY <3>1, <3>2
    <2>2. QED
      BY <2>1
  <1>3. in \in Node \cup {Null}
    <2>1. Len(path.names) = 2
      OBVIOUS
    <2> HIDE DEF path
    <2>2. QED
      BY <2>1, GetFileType DEF IInv
  <1> HIDE DEF clone, in, path
  <1>4. table \in [Fd -> Descriptor]
    <2>1. CASE clone[0] = None /\ in # Null /\ kind[in] # "dir"
      <3>1. [file |-> in, mode |-> "rw", cursor |-> 0] \in Descriptor
        BY <1>3, <2>1, FileSystemAssumption DEF Descriptor, Mode
      <3>2. QED
        BY <1>2, <2>1, <3>1
    <2>2. CASE ~ (clone[0] = None /\ in # Null /\ kind[in] # "dir")
      BY <1>2, <2>2
    <2>3. QED
      BY <2>1, <2>2
  <1> HIDE DEF table
  <1>5. /\ fd_table' \in [Process -> [Fd -> Descriptor]]
        /\ \A r \in Process \ {q} : fd_table'[r] = fd_table[r]
    BY <1>1, <1>4 DEF IInv, TypeOK
  <1> DEFINE X == {q} \X Fd
  <1>6. X \in SUBSET All /\ \A x \in X : fd_table[x[1]][x[2]] = None
    BY <1>1 DEF All, IInv, Gone
  <1>7. \A x \in All \ X : fd_table'[x[1]][x[2]] = fd_table[x[1]][x[2]]
    <2> SUFFICES ASSUME NEW x \in All \ X
                 PROVE  fd_table'[x[1]][x[2]] = fd_table[x[1]][x[2]]
      OBVIOUS
    <2>1. x[1] \in Process /\ x[1] # q
      BY DEF All
    <2>2. QED
      BY <1>5, <2>1
  <1>8. opened' = Counted(fd_table', X, 1)
    BY <1>1
  <1> HIDE DEF X
  <1>9. CountsExact' /\ opened' \in [Node -> [readers : Int, writers : Int]]
    BY <1>6, <1>7, <1>8, OpenedCounts DEF IInv
  <1>10. TypeOK'
    <2>1. cwd' \in [Process -> Node]
      <3>1. root \in Node
        BY FileTreeAssumption
      <3>2. QED
        BY <1>1, <3>1 DEF IInv, TypeOK
    <2>2. QED
      BY <1>1, <1>5, <1>9, <2>1 DEF IInv, TypeOK
  <1>11. PipesFreed'
    <2>1. \A k \in Node : opened[k] # NotOpened => opened'[k] # NotOpened
      BY <1>6, <1>8, StillOpened DEF IInv
    <2>2. QED
      BY <1>1, <2>1 DEF IInv, PipesFreed, Pipes
  <1>12. Gone'
    <2> SUFFICES ASSUME NEW r \in Process \ alive'
                 PROVE  asleep[r] = Null /\ \A f \in Fd : fd_table'[r][f] = None
      BY <1>1 DEF Gone
    <2>1. r # q /\ r \notin alive
      BY <1>1
    <2>2. fd_table'[r] = fd_table[r]
      BY <1>5, <2>1
    <2>3. QED
      BY <2>1, <2>2 DEF IInv, Gone
  <1>13. Holding'
    <2> SUFFICES ASSUME NEW r \in Process, asleep[r] # Null
                 PROVE  /\ kind[asleep[r]] \in {"sem", "mutex"}
                        /\ \E f \in Fd : fd_table'[r][f].file = asleep[r]
      BY <1>1 DEF Holding
    <2>1. r # q
      BY <1>1 DEF IInv, Gone
    <2>2. fd_table'[r] = fd_table[r]
      BY <1>5, <2>1
    <2>3. QED
      BY <2>2 DEF IInv, Holding
  <1>14. QED
    BY <1>9, <1>10, <1>11, <1>12, <1>13 DEF IInv

-----------------------------------------------------------------------------
\* The paths that calls use have a last component.
LEMMA PathLen ==
    /\ \A path \in Path \cup DirPath : Len(path.names) \in Nat \ {0}
    /\ \A c : Len(Shm(c).names) \in Nat \ {0}
  <1>1. ASSUME NEW path \in Path \cup DirPath
        PROVE  Len(path.names) \in Nat \ {0}
    <2>1. path.names \in Seq(Component) /\ path.names # <<>>
      BY FileSystemAssumption
    <2>2. QED
      BY <2>1
  <1>2. ASSUME NEW c
        PROVE  Len(Shm(c).names) \in Nat \ {0}
    BY DEF Shm
  <1>3. QED
    BY <1>1, <1>2

\* The calls about paths.
LEMMA TreeCallStep ==
    ASSUME IInv, NEW p \in Process, Runs(p), TreeCall(p)
    PROVE  IInv'
  <1>1. ASSUME NEW path \in DirPath, ChangeCWD(p, path), UNCHANGED <<alive, fd_table, asleep>>
        PROVE  IInv'
    BY <1>1, PathLen, ChangeCWDStep
  <1>2. ASSUME NEW path \in Path, NEW k \in {"dir", "regular"}, MakeFile(p, path, k, 0),
               UNCHANGED <<alive, fd_table, asleep>>
        PROVE  IInv'
    <2>1. 0 \in IF k = "mutex" THEN Process \cup {Null} ELSE 0 .. MaxData
      BY FileSystemAssumption
    <2>2. Len(path.names) \in Nat \ {0} /\ k \in {"dir", "regular", "sem", "mutex", "exec"}
      BY PathLen
    <2>3. QED
      BY <1>2, <2>1, <2>2, MakeFileStep
  <1>3. ASSUME NEW path \in Path, ExecCreate(p, path)
        PROVE  IInv'
    BY <1>3, PathLen, ExecCreateStep
  <1>4. ASSUME NEW path \in Path, RemoveFile(GetFile(p, path)), UNCHANGED <<alive, fd_table, asleep>>
        PROVE  IInv'
    BY <1>4, RemoveFileStep
  <1>5. ASSUME NEW path \in Path, NEW m \in OpenMode, OpenToFd(p, GetFile(p, path), m)
        PROVE  IInv'
    <2>1. GetFile(p, path) \in Node \cup {Null} /\ m \in Mode
      BY PathLen, GetFileType, FileSystemAssumption DEF IInv, Mode
    <2>2. QED
      BY <1>5, <2>1, OpenToFdStep
  <1>6. QED
    BY <1>1, <1>2, <1>3, <1>4, <1>5 DEF TreeCall

\* The calls about the names of semaphores and mutexes.
LEMMA ShmCallStep ==
    ASSUME IInv, NEW p \in Process, Runs(p), ShmCall(p)
    PROVE  IInv'
  <1>1. PICK c \in ShmName : \/ SemCreate(p, c, 0) \/ MutexCreate(p, c) \/ SemDelete(p, c)
                             \/ MutexDelete(p, c) \/ SemOpen(p, c) \/ MutexOpen(p, c)
    BY DEF ShmCall
  <1>2. Len(Shm(c).names) \in Nat \ {0}
    BY PathLen
  <1>3. CASE SemCreate(p, c, 0)
    <2>1. 0 \in 0 .. MaxData
      BY FileSystemAssumption
    <2>2. QED
      BY <1>2, <1>3, <2>1, MakeFileStep DEF SemCreate
  <1>4. CASE MutexCreate(p, c)
    BY <1>2, <1>4, MakeFileStep DEF MutexCreate
  <1>5. CASE SemDelete(p, c) \/ MutexDelete(p, c)
    <2>1. RemoveFile(GetFile(p, Shm(c))) /\ UNCHANGED <<alive, fd_table, asleep>>
      BY <1>5 DEF SemDelete, MutexDelete, ShmDelete
    <2>2. QED
      BY <2>1, RemoveFileStep
  <1>6. CASE SemOpen(p, c) \/ MutexOpen(p, c)
    <2>1. OpenToFd(p, GetFile(p, Shm(c)), "rw")
      BY <1>6 DEF SemOpen, MutexOpen, ShmOpen
    <2>2. GetFile(p, Shm(c)) \in Node \cup {Null} /\ "rw" \in Mode
      BY <1>2, GetFileType DEF IInv, Mode
    <2>3. QED
      BY <2>1, <2>2, OpenToFdStep
  <1>7. QED
    BY <1>1, <1>3, <1>4, <1>5, <1>6

\* The calls about descriptors.
LEMMA FdCallStep ==
    ASSUME IInv, NEW p \in Process, Runs(p), FdCall(p)
    PROVE  IInv'
  <1>1. CASE OpenUnnamedPipe(p)
    BY <1>1, OpenUnnamedPipeStep
  <1>2. ASSUME NEW f \in Fd, Close(p, f) \/ WriteFile(p, f, 1) \/ ReadFile(p, f, 1)
        PROVE  IInv'
    BY <1>2, CloseOneStep, WriteFileStep, ReadFileStep DEF Close
  <1>3. ASSUME NEW f \in Fd, NEW g \in Fd, Dup2(p, f, g)
        PROVE  IInv'
    BY <1>3, Dup2Step
  <1>4. ASSUME NEW f \in Fd, SemSet(p, f) \/ SemSignal(p, f)
        PROVE  IInv'
    <2>1. /\ IsOf(p, f, "sem") /\ Signal(fd_table[p][f].file)
          /\ UNCHANGED <<tree, opened, cwd, alive, fd_table>>
      BY <1>4 DEF SemSet, SemSignal
    <2>2. QED
      BY <2>1, ObjectOf, SignalStep
  <1>5. ASSUME NEW f \in Fd, SemWait(p, f) \/ MutexLock(p, f) \/ MutexUnlock(p, f)
        PROVE  IInv'
    BY <1>5, SemWaitStep, MutexLockStep, MutexUnlockStep
  <1>6. QED
    BY <1>1, <1>2, <1>3, <1>4, <1>5 DEF FdCall

-----------------------------------------------------------------------------
\* At first /dev/stdin is opened once, by the only process.
LEMMA InitInvariant == Init => IInv
  <1> SUFFICES ASSUME Init PROVE IInv
    OBVIOUS
  <1>1. PICK p \in Process :
            /\ alive = {p}
            /\ fd_table = [q \in Process |-> [f \in Fd |->
                             IF q = p /\ f = 0 THEN InitDescriptor ELSE None]]
    BY DEF Init
  <1>2. {root, dev, shm, stdin, TestFile} \subseteq Node /\ 0 \in Fd /\ 0 \in 0 .. MaxData
    <2>1. {root, dev, shm, stdin, TestFile} \subseteq Node
      BY FileTreeAssumption
    <2>2. 0 \in Fd /\ MaxData \in Nat
      BY FileSystemAssumption
    <2>3. 0 \in 0 .. MaxData
      BY <2>2
    <2>4. QED
      BY <2>1, <2>2, <2>3
  <1>3. InitDescriptor \in Descriptor
    BY <1>2 DEF InitDescriptor, Descriptor, Mode
  <1>4. Files \in [{root, dev, shm, stdin, TestFile} -> {"dir", "regular", "buffer"}]
    BY DEF Files
  <1>5. /\ kind \in [Node -> {"dir", "regular", "buffer", "free"}]
        /\ \A n \in Node : kind[n] = "buffer" => n = stdin
    <2>1. kind = [n \in Node |-> IF n \in DOMAIN Files THEN Files[n] ELSE "free"]
      BY DEF Init, InitTree
    <2>2. \A n \in DOMAIN Files : Files[n] = "buffer" => n = stdin
      BY DEF Files
    <2>3. QED
      BY <1>4, <2>1, <2>2
  <1>6. directory \in [Node -> Node \cup {Null}]
    BY <1>2 DEF Init, InitTree
  <1>7. list \in [Node -> Seq(Node)]
    <2>1. list = [n \in Node |-> CASE n = root -> <<TestFile, dev>> [] n = dev -> <<shm, stdin>>
                                 [] OTHER -> <<>>]
      BY DEF Init, InitTree
    <2>2. <<TestFile, dev>> \in Seq(Node) /\ <<shm, stdin>> \in Seq(Node) /\ <<>> \in Seq(Node)
      BY <1>2
    <2>3. \A n \in Node : list[n] \in Seq(Node)
      BY <2>1, <2>2
    <2>4. QED
      BY <2>1, <2>3
  <1>8. /\ data \in [Node -> Process \cup {Null} \cup 0 .. MaxData]
        /\ \A n \in Node : data[n] \in IF kind[n] = "mutex" THEN Process \cup {Null} ELSE 0 .. MaxData
    <2>1. \A n \in Node : kind[n] # "mutex"
      BY <1>5
    <2>2. QED
      BY <1>2, <2>1 DEF Init, InitTree
  <1>9. /\ opened \in [Node -> [readers : Int, writers : Int]] /\ cwd \in [Process -> Node]
        /\ asleep \in [Process -> Node \cup {Null}]
    BY <1>2 DEF Init, InitTree, NotOpened
  <1>10. fd_table \in [Process -> [Fd -> Descriptor]] /\ alive \subseteq Process
    BY <1>1, <1>3 DEF Descriptor
  <1>11. TypeOK
    <2>1. kind \in [Node -> Kind \cup {"free"}]
      BY <1>5 DEF Kind
    <2>2. QED
      BY <2>1, <1>6, <1>7, <1>8, <1>9, <1>10 DEF TypeOK
  <1>12. CountsExact
    <2>1. ASSUME NEW modes, "rw" \in modes
          PROVE  Refs(fd_table, Process \X Fd, stdin, modes) = {<<p, 0>>}
      <3>1. \A x \in Process \X Fd : x # <<p, 0>> => fd_table[x[1]][x[2]] = None
        BY <1>1
      <3>2. fd_table[p][0] = InitDescriptor /\ <<p, 0>> \in Process \X Fd
        BY <1>1, <1>2
      <3>3. Null # stdin
        BY FileTreeAssumption
      <3>4. QED
        BY <2>1, <3>1, <3>2, <3>3 DEF Refs, InitDescriptor, None
    <2>2. ASSUME NEW n \in Node, n # stdin, NEW modes
          PROVE  Refs(fd_table, Process \X Fd, n, modes) = {}
      <3>1. \A x \in Process \X Fd : fd_table[x[1]][x[2]] \in {None, InitDescriptor}
        BY <1>1
      <3>2. Null # n
        BY FileTreeAssumption
      <3>3. QED
        BY <2>2, <3>1, <3>2 DEF Refs, InitDescriptor, None
    <2>3. Cardinality({<<p, 0>>}) = 1 /\ Cardinality({}) = 0
      BY FS_Singleton, FS_EmptySet
    <2>4. "rw" \in Reading /\ "rw" \in Writing
      BY DEF Reading, Writing
    <2>5. opened = [n \in Node |-> IF n = stdin THEN [readers |-> 1, writers |-> 1] ELSE NotOpened]
      BY DEF Init
    <2>6. ASSUME NEW n \in Node
          PROVE  opened[n] = [readers |-> Cardinality(Refs(fd_table, Process \X Fd, n, Reading)),
                              writers |-> Cardinality(Refs(fd_table, Process \X Fd, n, Writing))]
      <3>1. CASE n = stdin
        <4>1. /\ Refs(fd_table, Process \X Fd, n, Reading) = {<<p, 0>>}
              /\ Refs(fd_table, Process \X Fd, n, Writing) = {<<p, 0>>}
          BY <3>1, <2>1, <2>4
        <4>2. QED
          BY <3>1, <4>1, <2>3, <2>5
      <3>2. CASE n # stdin
        <4>1. /\ Refs(fd_table, Process \X Fd, n, Reading) = {}
              /\ Refs(fd_table, Process \X Fd, n, Writing) = {}
          BY <3>2, <2>2
        <4>2. QED
          BY <3>2, <4>1, <2>3, <2>5 DEF NotOpened
      <3>3. QED
        BY <3>1, <3>2
    <2>7. QED
      BY <2>6 DEF CountsExact
  <1>13. PipesFreed
    <2>1. opened[stdin] # NotOpened
      BY <1>2 DEF Init, NotOpened
    <2>2. QED
      BY <1>5, <2>1 DEF PipesFreed, Pipes
  <1>14. Gone
    BY <1>1 DEF Gone, Init
  <1>15. Holding
    BY DEF Holding, Init
  <1>16. QED
    BY <1>11, <1>12, <1>13, <1>14, <1>15 DEF IInv

\* Every step keeps the invariant.
LEMMA Step == IInv /\ [Next]_vars => IInv'
  <1> SUFFICES ASSUME IInv, [Next]_vars
               PROVE  IInv'
    OBVIOUS
  <1>1. ASSUME NEW p \in Process, Runs(p), TreeCall(p) \/ ShmCall(p) \/ FdCall(p)
        PROVE  IInv'
    BY <1>1, TreeCallStep, ShmCallStep, FdCallStep
  <1>2. ASSUME NEW p \in Process, NEW q \in Process, NEW from \in {<<>>} \cup [{0, 1} \cap Fd -> Fd],
               CreateProcess(p, q, from)
        PROVE  IInv'
    BY <1>2, CreateProcessStep
  <1>3. ASSUME NEW p \in Process, KillProcess(p)
        PROVE  IInv'
    BY <1>3, KillProcessStep
  <1>4. ASSUME NEW p \in Process, Runs(p), ShmCloseCall(p)
        PROVE  IInv'
    BY <1>4, CloseOneStep DEF ShmCloseCall, SemClose, MutexClose, ShmClose
  <1>5. ASSUME UNCHANGED vars \/ \E p \in Process, f \in Fd : UseStale(p, f)
        PROVE  IInv'
    <2>1. UNCHANGED <<kind, directory, list, opened, data, cwd, alive, fd_table, asleep>>
      BY <1>5 DEF vars, tree, UseStale
    <2>2. TypeOK'
      BY <2>1 DEF IInv, TypeOK
    <2>3. CountsExact'
      BY <2>1 DEF IInv, CountsExact, Refs
    <2>4. PipesFreed' /\ Gone' /\ Holding'
      BY <2>1 DEF IInv, PipesFreed, Pipes, Gone, Holding
    <2>5. QED
      BY <2>2, <2>3, <2>4 DEF IInv
  <1>6. QED
    BY <1>1, <1>2, <1>3, <1>4, <1>5 DEF Next, Call

\* The invariant holds in every state.
THEOREM Invariance == Spec => []IInv
  <1>1. QED
    BY InitInvariant, Step, PTL DEF Spec

\* Only descriptors are left registered.
LEMMA StaleInvariance == Spec => []StaleOK
  <1>1. Init => StaleOK
    BY DEF Init, StaleOK
  <1>2. StaleOK /\ [Next]_vars => StaleOK'
    <2> SUFFICES ASSUME StaleOK, [Next]_vars
                 PROVE  StaleOK'
      OBVIOUS
    <2>1. CASE UNCHANGED <<stale, used>>
      BY <2>1 DEF StaleOK
    <2>2. ASSUME NEW p \in Process, ShmCloseCall(p)
          PROVE  StaleOK'
      <3>1. PICK f \in Fd : stale' = stale \cup {<<p, f>>} /\ used' = used
        BY <2>2 DEF ShmCloseCall, SemClose, MutexClose, ShmClose
      <3>2. QED
        BY <3>1 DEF StaleOK
    <2>3. ASSUME NEW p \in Process, NEW f \in Fd, UseStale(p, f)
          PROVE  StaleOK'
      BY <2>3 DEF UseStale, StaleOK
    <2>4. QED
      BY <2>1, <2>2, <2>3 DEF Next, vars
  <1>3. QED
    BY <1>1, <1>2, PTL DEF Spec

\* semDelete, mutexDelete, semClose, mutexClose, rm and the end of processes free no object
\* that somebody sleeps in, until a descriptor is used that semClose or mutexClose closed.
THEOREM SleepersSafe == Spec => []NobodySleepsInFreed
  <1>1. IInv => NobodySleepsInFreed
    BY DEF IInv, Holding, NobodySleepsInFreed
  <1>2. QED
    BY <1>1, Invariance, PTL

\* An unnamed pipe is freed with the last of its descriptors, whoever closes it and however.
THEOREM PipesAllFreed == Spec => []PipesFreed
  <1>1. IInv => PipesFreed
    BY DEF IInv
  <1>2. QED
    BY <1>1, Invariance, PTL

\* The counts of readers and writers of a file are those of the open descriptors that refer
\* to it, until one is used that semClose or mutexClose closed and left registered.
THEOREM CountsKept == Spec => [](TypeOK /\ (~used => CountsExact))
  <1>1. IInv => TypeOK /\ (~used => CountsExact)
    BY DEF IInv
  <1>2. QED
    BY <1>1, Invariance, PTL

-----------------------------------------------------------------------------
\* The steps of InTurn.
Turns(f, order, s) ==
    /\ f \in [0 .. Len(s) -> Seq(Node)] /\ f[0] = <<>>
    /\ \A i \in 1 .. Len(s) : f[i] = f[i - 1] \o order[s[i]]

\* What is visited in turn are the files that each of the list contributes.
LEMMA InTurnIs ==
    ASSUME NEW order, NEW s \in Seq(Node), \A i \in 1 .. Len(s) : order[s[i]] \in Seq(Node)
    PROVE  \E f : Turns(f, order, s) /\ InTurn(order, s) = f[Len(s)]
  <1> DEFINE n == Len(s)
             U == Seq(Node)
             E(f, i) == IF i = 0 THEN <<>> ELSE f[i - 1] \o order[s[i]]
             Is(f) == f = [i \in 0 .. n |-> E(f, i)]
             F == CHOOSE f : Is(f)
             g == [x \in (1 .. n) \X U |-> x[2] \o order[s[x[1]]]]
  <1>1. n \in Nat /\ <<>> \in U
    OBVIOUS
  <1>2. g \in [(1 .. n) \X U -> U]
    <2>1. ASSUME NEW x \in (1 .. n) \X U
          PROVE  x[2] \o order[s[x[1]]] \in U
      OBVIOUS
    <2>2. QED
      BY <2>1
  <1>3. PICK f : Follows(f, n, U, <<>>, g)
    <2> HIDE DEF n, U, g
    <2> QED
      BY <1>1, <1>2, Recursion
  <1>4. ASSUME NEW i \in 1 .. n
        PROVE  f[i] = f[i - 1] \o order[s[i]] /\ i - 1 \in 0 .. n
    <2> HIDE DEF U
    <2>0. i - 1 \in 0 .. n
      BY <1>1
    <2>1. i - 1 \in 0 .. n /\ f[i - 1] \in U /\ <<i, f[i - 1]>> \in (1 .. n) \X U
      BY <2>0, <1>3 DEF Follows
    <2>2. f[i] = g[<<i, f[i - 1]>>]
      BY <1>3 DEF Follows
    <2>3. QED
      BY <2>1, <2>2
  <1>5. Is(f)
    <2>1. ASSUME NEW i \in 0 .. n
          PROVE  f[i] = E(f, i)
      <3> HIDE DEF n
      <3>1. CASE i = 0
        BY <1>3, <3>1 DEF Follows
      <3>2. CASE i # 0
        <4>1. i \in 1 .. n
          BY <3>2, <1>1
        <4>2. QED
          BY <3>2, <4>1, <1>4
      <3>3. QED
        BY <3>1, <3>2
    <2> HIDE DEF E, n
    <2>2. QED
      BY <1>3, <2>1 DEF Follows
  <1>6. Is(F)
    <2> HIDE DEF Is
    <2> QED
      BY <1>5
  <1>7. \A i \in 0 .. n : F[i] = E(F, i)
    <2> HIDE DEF E, n, F
    <2> QED
      BY <1>6
  <1> DEFINE T == {i \in 0 .. n : F[i] = f[i]}
  <1>8. 0 \in T
    <2> HIDE DEF F
    <2> QED
      BY <1>1, <1>3, <1>7 DEF Follows
  <1>9. ASSUME NEW i \in 1 .. n, i - 1 \in T
        PROVE  i \in T
    <2> HIDE DEF F
    <2>1. F[i - 1] = f[i - 1] /\ i \in 0 .. n /\ i # 0
      BY <1>9, <1>1
    <2>2. F[i] = E(F, i)
      BY <2>1, <1>7
    <2>3. QED
      BY <2>1, <2>2, <1>4
  <1>10. F[n] = f[n]
    <2> HIDE DEF T
    <2>1. \A i \in 0 .. n : i \in T
      BY <1>1, <1>8, <1>9, Induct
    <2>2. n \in 0 .. n
      BY <1>1
    <2>3. n \in T
      BY <2>1, <2>2
    <2>4. QED
      BY <2>3 DEF T
  <1>11. Turns(f, order, s)
    BY <1>3, <1>4 DEF Turns, Follows
  <1>12. InTurn(order, s) = F[n]
    BY DEF InTurn
  <1>13. QED
    BY <1>10, <1>11, <1>12

\* It only depends on the order below the files of the list.
LEMMA InTurnSame ==
    ASSUME NEW order, NEW other, NEW s \in Seq(Node),
           \A i \in 1 .. Len(s) : order[s[i]] \in Seq(Node) /\ other[s[i]] = order[s[i]]
    PROVE  InTurn(other, s) = InTurn(order, s) /\ InTurn(order, s) \in Seq(Node)
  <1>1. PICK f : Turns(f, order, s) /\ InTurn(order, s) = f[Len(s)]
    BY InTurnIs
  <1>2. PICK g : Turns(g, other, s) /\ InTurn(other, s) = g[Len(s)]
    BY InTurnIs
  <1> DEFINE T == {i \in 0 .. Len(s) : g[i] = f[i]}
  <1>3. Len(s) \in Nat
    OBVIOUS
  <1>4. 0 \in T
    BY <1>1, <1>2, <1>3 DEF Turns
  <1>5. ASSUME NEW i \in 1 .. Len(s), i - 1 \in T
        PROVE  i \in T
    <2>1. f[i - 1] = g[i - 1] /\ i \in 0 .. Len(s)
      BY <1>5
    <2>2. f[i] = f[i - 1] \o order[s[i]] /\ g[i] = g[i - 1] \o other[s[i]] /\ other[s[i]] = order[s[i]]
      BY <1>1, <1>2 DEF Turns
    <2>3. QED
      BY <2>1, <2>2
  <1>6. \A i \in 0 .. Len(s) : i \in T
    <2> HIDE DEF T
    <2> QED
      BY <1>3, <1>4, <1>5, Induct
  <1>7. Len(s) \in 0 .. Len(s)
    BY <1>3
  <1>8. QED
    BY <1>1, <1>2, <1>6, <1>7 DEF Turns

\* The ranks of files fall from a directory to what is in it: no file is below itself.
Ranks(k, rank) ==
    /\ rank \in [Node -> 0 .. k]
    /\ \A d \in Node : \A i \in DOMAIN list[d] : rank[list[d][i]] < rank[d]
Acyclic == \E k \in Nat : \E rank : Ranks(k, rank)

\* The order in which removeFile visits the files below one is then what its recursion says.
LEMMA PostOrderIs ==
    ASSUME TypeOK, Acyclic
    PROVE  \A n \in Node : /\ PostOrder[n] \in Seq(Node)
                           /\ PostOrder[n] = Append(InTurn(PostOrder, list[n]), n)
  <1>0. PICK k \in Nat : \E rank : Ranks(k, rank)
    BY DEF Acyclic
  <1>1. PICK rank : Ranks(k, rank)
    BY <1>0
  <1> DEFINE E(f, n) == Append(InTurn(f, list[n]), n)
             Is(f) == f = [n \in Node |-> E(f, n)]
             Upto(f, j) == \A n \in Node : rank[n] < j => f[n] = E(f, n)
             T == {j \in 0 .. k + 1 : \E f \in [Node -> Seq(Node)] : Upto(f, j)}
  <1>2. ASSUME NEW n \in Node
        PROVE  /\ list[n] \in Seq(Node) /\ rank[n] \in 0 .. k
               /\ \A i \in 1 .. Len(list[n]) : /\ list[n][i] \in Node /\ rank[list[n][i]] < rank[n]
                                               /\ rank[list[n][i]] \in 0 .. k
    <2>1. list[n] \in Seq(Node) /\ DOMAIN list[n] = 1 .. Len(list[n])
      BY DEF TypeOK
    <2>2. \A i \in 1 .. Len(list[n]) : list[n][i] \in Node
      BY <2>1
    <2>3. QED
      BY <2>1, <2>2, <1>1 DEF Ranks
  <1>3. 0 \in T
    <2>1. [n \in Node |-> <<>>] \in [Node -> Seq(Node)]
      OBVIOUS
    <2>2. \A f : Upto(f, 0)
      BY <1>2
    <2> HIDE DEF Upto
    <2>3. 0 \in 0 .. k + 1
      OBVIOUS
    <2>4. QED
      BY <2>1, <2>2, <2>3
  <1>4. ASSUME NEW j \in 1 .. k + 1, j - 1 \in T
        PROVE  j \in T
    <2>1. PICK f \in [Node -> Seq(Node)] : Upto(f, j - 1)
      BY <1>4
    <2> DEFINE h == [n \in Node |-> E(f, n)]
    <2>2. ASSUME NEW n \in Node
          PROVE  E(f, n) \in Seq(Node)
      <3>1. \A i \in 1 .. Len(list[n]) : f[list[n][i]] \in Seq(Node)
        BY <1>2
      <3>2. InTurn(f, list[n]) \in Seq(Node)
        BY <1>2, <3>1, InTurnSame
      <3>3. QED
        BY <3>2
    <2>3. h \in [Node -> Seq(Node)]
      <3> HIDE DEF E
      <3> QED
        BY <2>2
    <2>4. ASSUME NEW n \in Node, rank[n] < j
          PROVE  h[n] = E(h, n)
      <3>1. ASSUME NEW i \in 1 .. Len(list[n])
            PROVE  /\ f[list[n][i]] \in Seq(Node) /\ h[list[n][i]] = f[list[n][i]]
        <4>1. list[n][i] \in Node /\ rank[list[n][i]] < j - 1
          <5>1. /\ list[n][i] \in Node /\ rank[n] \in 0 .. k /\ rank[list[n][i]] \in 0 .. k
                /\ rank[list[n][i]] < rank[n]
            BY <1>2
          <5>2. QED
            BY <5>1, <2>4
        <4> HIDE DEF E
        <4>2. h[list[n][i]] = E(f, list[n][i]) /\ f[list[n][i]] = E(f, list[n][i])
          BY <4>1, <2>1
        <4>3. QED
          BY <4>1, <4>2
      <3>2. InTurn(h, list[n]) = InTurn(f, list[n])
        <4> HIDE DEF h
        <4> QED
          BY <1>2, <3>1, InTurnSame
      <3>3. QED
        BY <3>2
    <2>5. Upto(h, j)
      <3> HIDE DEF E, h
      <3> QED
        BY <2>4
    <2> HIDE DEF Upto, h
    <2>6. j \in 0 .. k + 1
      OBVIOUS
    <2>7. QED
      BY <2>3, <2>5, <2>6
  <1>5. PICK f \in [Node -> Seq(Node)] : Upto(f, k + 1)
    <2> HIDE DEF T
    <2>1. k + 1 \in Nat
      OBVIOUS
    <2>2. \A j \in 0 .. k + 1 : j \in T
      BY <1>3, <1>4, <2>1, Induct
    <2>3. k + 1 \in 0 .. k + 1
      OBVIOUS
    <2>4. k + 1 \in T
      BY <2>2, <2>3
    <2>5. QED
      BY <2>4 DEF T
  <1>6. Is(f)
    <2>1. \A n \in Node : f[n] = E(f, n)
      <3>1. \A n \in Node : rank[n] < k + 1
        BY <1>2
      <3> HIDE DEF E
      <3>2. QED
        BY <1>5, <3>1
    <2> HIDE DEF E
    <2>2. QED
      BY <2>1
  <1>7. Is(PostOrder)
    <2>1. PostOrder = CHOOSE F : Is(F)
      BY DEF PostOrder
    <2> HIDE DEF Is
    <2>2. QED
      BY <1>6, <2>1
  <1>8. \A n \in Node : PostOrder[n] = E(PostOrder, n)
    <2> DEFINE P == PostOrder
    <2>1. Is(P)
      BY <1>7
    <2> HIDE DEF E, P
    <2>2. \A n \in Node : P[n] = E(P, n)
      BY <2>1
    <2>3. QED
      BY <2>2 DEF P
  <1> DEFINE V == {j \in 0 .. k + 1 : \A n \in Node : rank[n] < j => PostOrder[n] \in Seq(Node)}
  <1>9. 0 \in V
    BY <1>2
  <1>10. ASSUME NEW j \in 1 .. k + 1, j - 1 \in V
         PROVE  j \in V
    <2>1. ASSUME NEW n \in Node, rank[n] < j
          PROVE  PostOrder[n] \in Seq(Node)
      <3>1. \A i \in 1 .. Len(list[n]) : PostOrder[list[n][i]] \in Seq(Node)
        <4>1. ASSUME NEW i \in 1 .. Len(list[n])
              PROVE  PostOrder[list[n][i]] \in Seq(Node)
          <5>1. list[n][i] \in Node /\ rank[list[n][i]] < j - 1
            BY <1>2, <2>1
          <5>2. QED
            BY <5>1, <1>10
        <4>2. QED
          BY <4>1
      <3>2. InTurn(PostOrder, list[n]) \in Seq(Node)
        BY <1>2, <3>1, InTurnSame
      <3>3. Append(InTurn(PostOrder, list[n]), n) \in Seq(Node)
        BY <3>2
      <3>4. QED
        BY <3>3, <1>8
    <2>2. QED
      BY <2>1
  <1>11. \A n \in Node : PostOrder[n] \in Seq(Node)
    <2> HIDE DEF V
    <2>1. k + 1 \in Nat
      OBVIOUS
    <2>2. \A j \in 0 .. k + 1 : j \in V
      BY <1>9, <1>10, <2>1, Induct
    <2>3. k + 1 \in 0 .. k + 1
      OBVIOUS
    <2>4. k + 1 \in V
      BY <2>2, <2>3
    <2>5. \A n \in Node : rank[n] < k + 1
      BY <1>2
    <2>6. QED
      BY <2>4, <2>5 DEF V
  <1>12. QED
    BY <1>8, <1>11

\* The files in s come after all that is in them, and are in a directory themselves.
AfterTheirs(s) == \A j \in 1 .. Len(s) : \A i \in 1 .. Len(list[s[j]]) :
                      \E h \in 1 .. j - 1 : s[h] = list[s[j]][i]
InDirs(s) == \A j \in 1 .. Len(s) : directory[s[j]] # Null

\* That is so of two such rows of files, one after the other.
LEMMA AfterBoth ==
    ASSUME NEW s \in Seq(Node), NEW t \in Seq(Node), AfterTheirs(s), AfterTheirs(t), InDirs(s), InDirs(t)
    PROVE  /\ s \o t \in Seq(Node) /\ AfterTheirs(s \o t) /\ InDirs(s \o t)
           /\ \A x : Contains(s, x) \/ Contains(t, x) => Contains(s \o t, x)
  <1> DEFINE u == s \o t
  <1>1. /\ u \in Seq(Node) /\ Len(u) = Len(s) + Len(t) /\ Len(s) \in Nat /\ Len(t) \in Nat
        /\ \A j \in 1 .. Len(s) : u[j] = s[j]
        /\ \A j \in 1 .. Len(t) : u[Len(s) + j] = t[j]
    OBVIOUS
  <1> HIDE DEF u
  <1>2. ASSUME NEW j \in 1 .. Len(u)
        PROVE  /\ \A i \in 1 .. Len(list[u[j]]) : \E h \in 1 .. j - 1 : u[h] = list[u[j]][i]
               /\ directory[u[j]] # Null
    <2>1. CASE j \in 1 .. Len(s)
      <3>1. u[j] = s[j] /\ directory[u[j]] # Null
        BY <1>1, <2>1 DEF InDirs
      <3>2. ASSUME NEW i \in 1 .. Len(list[u[j]])
            PROVE  \E h \in 1 .. j - 1 : u[h] = list[u[j]][i]
        <4>1. PICK h \in 1 .. j - 1 : s[h] = list[s[j]][i]
          BY <2>1, <3>1 DEF AfterTheirs
        <4>2. h \in 1 .. Len(s)
          BY <1>1, <2>1
        <4>3. QED
          BY <1>1, <3>1, <4>1, <4>2
      <3>3. QED
        BY <3>1, <3>2
    <2>2. CASE j \notin 1 .. Len(s)
      <3> DEFINE k == j - Len(s)
      <3>1. k \in 1 .. Len(t) /\ j = Len(s) + k
        BY <1>1, <2>2
      <3> HIDE DEF k
      <3>2. u[j] = t[k] /\ directory[u[j]] # Null
        BY <1>1, <3>1 DEF InDirs
      <3>3. ASSUME NEW i \in 1 .. Len(list[u[j]])
            PROVE  \E h \in 1 .. j - 1 : u[h] = list[u[j]][i]
        <4>1. PICK h \in 1 .. k - 1 : t[h] = list[t[k]][i]
          BY <3>1, <3>2 DEF AfterTheirs
        <4>2. h \in 1 .. Len(t) /\ Len(s) + h \in 1 .. j - 1
          BY <1>1, <3>1
        <4>3. u[Len(s) + h] = list[u[j]][i]
          BY <1>1, <3>2, <4>1, <4>2
        <4>4. QED
          BY <4>2, <4>3
      <3>4. QED
        BY <3>2, <3>3
    <2>3. QED
      BY <2>1, <2>2
  <1>3. ASSUME NEW x, Contains(s, x) \/ Contains(t, x)
        PROVE  Contains(u, x)
    <2>1. CASE Contains(s, x)
      <3>1. PICK i \in 1 .. Len(s) : s[i] = x
        BY <2>1 DEF Contains
      <3>2. i \in 1 .. Len(u) /\ u[i] = x
        BY <1>1, <3>1
      <3>3. QED
        BY <3>2 DEF Contains
    <2>2. CASE Contains(t, x)
      <3>1. PICK i \in 1 .. Len(t) : t[i] = x
        BY <2>2 DEF Contains
      <3>2. Len(s) + i \in 1 .. Len(u) /\ u[Len(s) + i] = x
        BY <1>1, <3>1
      <3>3. QED
        BY <3>2 DEF Contains
    <2>3. QED
      BY <1>3, <2>1, <2>2
  <1>4. QED
    BY <1>1, <1>2, <1>3 DEF u, AfterTheirs, InDirs

\* And of those visited in turn.
LEMMA AfterAll ==
    ASSUME NEW order, NEW s \in Seq(Node),
           \A i \in 1 .. Len(s) : /\ order[s[i]] \in Seq(Node) /\ AfterTheirs(order[s[i]])
                                  /\ InDirs(order[s[i]]) /\ Contains(order[s[i]], s[i])
    PROVE  /\ InTurn(order, s) \in Seq(Node) /\ AfterTheirs(InTurn(order, s)) /\ InDirs(InTurn(order, s))
           /\ \A i \in 1 .. Len(s) : Contains(InTurn(order, s), s[i])
  <1>1. PICK f : Turns(f, order, s) /\ InTurn(order, s) = f[Len(s)]
    BY InTurnIs
  <1> DEFINE Good(i) == /\ f[i] \in Seq(Node) /\ AfterTheirs(f[i]) /\ InDirs(f[i])
                        /\ \A h \in 1 .. i : Contains(f[i], s[h])
             T == {i \in 0 .. Len(s) : Good(i)}
  <1>2. Len(s) \in Nat
    OBVIOUS
  <1>3. 0 \in T
    <2>1. f[0] \in Seq(Node) /\ Len(f[0]) = 0 /\ 0 \in 0 .. Len(s)
      <3>1. f[0] = <<>>
        BY <1>1 DEF Turns
      <3>2. QED
        BY <1>2, <3>1
    <2>2. 1 .. Len(f[0]) = {} /\ 1 .. 0 = {}
      BY <2>1
    <2>3. AfterTheirs(f[0]) /\ InDirs(f[0])
      BY <2>2 DEF AfterTheirs, InDirs
    <2>4. QED
      BY <2>1, <2>2, <2>3
  <1>4. ASSUME NEW i \in 1 .. Len(s), i - 1 \in T
        PROVE  i \in T
    <2>0. f[i] = f[i - 1] \o order[s[i]]
      BY <1>1 DEF Turns
    <2>1. i \in 0 .. Len(s) /\ Good(i - 1) /\ f[i] = f[i - 1] \o order[s[i]]
      BY <1>2, <1>4, <2>0
    <2>2. /\ f[i] \in Seq(Node) /\ AfterTheirs(f[i]) /\ InDirs(f[i])
          /\ \A x : Contains(f[i - 1], x) \/ Contains(order[s[i]], x) => Contains(f[i], x)
      BY <2>1, AfterBoth
    <2>3. ASSUME NEW h \in 1 .. i
          PROVE  Contains(f[i], s[h])
      <3>1. CASE h = i
        BY <2>2, <3>1
      <3>2. CASE h # i
        <4>1. h \in 1 .. i - 1
          BY <3>2
        <4>2. QED
          BY <2>1, <2>2, <4>1
      <3>3. QED
        BY <3>1, <3>2
    <2>4. QED
      BY <2>1, <2>2, <2>3
  <1>5. Good(Len(s))
    <2> HIDE DEF T
    <2>1. \A i \in 0 .. Len(s) : i \in T
      BY <1>2, <1>3, <1>4, Induct
    <2>2. Len(s) \in 0 .. Len(s)
      BY <1>2
    <2>3. Len(s) \in T
      BY <2>1, <2>2
    <2>4. QED
      BY <2>3 DEF T
  <1>6. QED
    BY <1>1, <1>5

\* What removeFile visits for n: all that is in a directory comes before it, and but for n all are
\* in some directory.
Visits(n, s) ==
    /\ AfterTheirs(s) /\ Contains(s, n)
    /\ \A j \in 1 .. Len(s) : s[j] = n \/ directory[s[j]] # Null

\* With what is in n before it.
LEMMA VisitsWhole ==
    ASSUME NEW n \in Node, NEW s \in Seq(Node), AfterTheirs(s), InDirs(s),
           \A i \in 1 .. Len(list[n]) : Contains(s, list[n][i])
    PROVE  Visits(n, Append(s, n))
  <1> DEFINE u == Append(s, n)
  <1>1. /\ Len(u) = Len(s) + 1 /\ Len(s) \in Nat /\ u[Len(s) + 1] = n
        /\ \A j \in 1 .. Len(s) : u[j] = s[j]
    OBVIOUS
  <1> HIDE DEF u
  <1>2. ASSUME NEW j \in 1 .. Len(u)
        PROVE  /\ \A i \in 1 .. Len(list[u[j]]) : \E h \in 1 .. j - 1 : u[h] = list[u[j]][i]
               /\ u[j] = n \/ directory[u[j]] # Null
    <2>1. CASE j \in 1 .. Len(s)
      <3>1. u[j] = s[j] /\ directory[u[j]] # Null
        BY <1>1, <2>1 DEF InDirs
      <3>2. ASSUME NEW i \in 1 .. Len(list[u[j]])
            PROVE  \E h \in 1 .. j - 1 : u[h] = list[u[j]][i]
        <4>1. PICK h \in 1 .. j - 1 : s[h] = list[s[j]][i]
          BY <2>1, <3>1 DEF AfterTheirs
        <4>2. h \in 1 .. Len(s)
          BY <1>1, <2>1
        <4>3. QED
          BY <1>1, <3>1, <4>1, <4>2
      <3>3. QED
        BY <3>1, <3>2
    <2>2. CASE j \notin 1 .. Len(s)
      <3>1. j = Len(s) + 1 /\ u[j] = n
        BY <1>1, <2>2
      <3>2. ASSUME NEW i \in 1 .. Len(list[n])
            PROVE  \E h \in 1 .. j - 1 : u[h] = list[n][i]
        <4>1. PICK h \in 1 .. Len(s) : s[h] = list[n][i]
          BY DEF Contains
        <4>2. h \in 1 .. j - 1 /\ u[h] = list[n][i]
          BY <1>1, <3>1, <4>1
        <4>3. QED
          BY <4>2
      <3>3. QED
        BY <3>1, <3>2
    <2>3. QED
      BY <2>1, <2>2
  <1>3. Contains(u, n)
    <2>1. Len(s) + 1 \in 1 .. Len(u)
      BY <1>1
    <2>2. QED
      BY <1>1, <2>1 DEF Contains
  <1>4. QED
    BY <1>2, <1>3 DEF u, Visits, AfterTheirs

\* PostOrder is such a row.
LEMMA PostOrderVisits ==
    ASSUME TypeOK, TreeExact, Acyclic
    PROVE  \A n \in Node : PostOrder[n] \in Seq(Node) /\ Visits(n, PostOrder[n])
  <1>0. PICK k \in Nat : \E rank : Ranks(k, rank)
    BY DEF Acyclic
  <1>1. PICK rank : Ranks(k, rank)
    BY <1>0
  <1>2. ASSUME NEW n \in Node
        PROVE  /\ list[n] \in Seq(Node) /\ rank[n] \in 0 .. k
               /\ PostOrder[n] \in Seq(Node) /\ PostOrder[n] = Append(InTurn(PostOrder, list[n]), n)
               /\ \A i \in 1 .. Len(list[n]) : /\ list[n][i] \in Node /\ rank[list[n][i]] < rank[n]
                                               /\ rank[list[n][i]] \in 0 .. k
                                               /\ directory[list[n][i]] # Null
    <2>1. list[n] \in Seq(Node) /\ DOMAIN list[n] = 1 .. Len(list[n])
      BY DEF TypeOK
    <2>2. \A i \in 1 .. Len(list[n]) : list[n][i] \in Node
      BY <2>1
    <2>3. \A i \in 1 .. Len(list[n]) : directory[list[n][i]] # Null
      <3>1. n # Null
        BY FileTreeAssumption
      <3>2. \A i \in 1 .. Len(list[n]) : directory[list[n][i]] = n
        BY <2>1 DEF TreeExact
      <3>3. QED
        BY <3>1, <3>2
    <2>4. PostOrder[n] \in Seq(Node) /\ PostOrder[n] = Append(InTurn(PostOrder, list[n]), n)
      BY PostOrderIs
    <2>5. QED
      BY <2>1, <2>2, <2>3, <2>4, <1>1 DEF Ranks
  <1> DEFINE T == {j \in 0 .. k + 1 : \A n \in Node : rank[n] < j => Visits(n, PostOrder[n])}
  <1>3. 0 \in T
    BY <1>2
  <1>4. ASSUME NEW j \in 1 .. k + 1, j - 1 \in T
        PROVE  j \in T
    <2>1. ASSUME NEW n \in Node, rank[n] < j
          PROVE  Visits(n, PostOrder[n])
      <3>1. ASSUME NEW i \in 1 .. Len(list[n])
            PROVE  /\ PostOrder[list[n][i]] \in Seq(Node) /\ AfterTheirs(PostOrder[list[n][i]])
                   /\ InDirs(PostOrder[list[n][i]]) /\ Contains(PostOrder[list[n][i]], list[n][i])
        <4>1. /\ list[n][i] \in Node /\ directory[list[n][i]] # Null /\ rank[n] \in 0 .. k
              /\ rank[list[n][i]] \in 0 .. k /\ rank[list[n][i]] < rank[n]
          BY <1>2
        <4>2. rank[list[n][i]] < j - 1
          BY <4>1, <2>1
        <4>3. Visits(list[n][i], PostOrder[list[n][i]])
          BY <4>1, <4>2, <1>4
        <4>4. PostOrder[list[n][i]] \in Seq(Node)
          BY <4>1, <1>2
        <4>5. QED
          BY <4>1, <4>3, <4>4 DEF Visits, InDirs
      <3> DEFINE s == InTurn(PostOrder, list[n])
      <3>2. /\ s \in Seq(Node) /\ AfterTheirs(s) /\ InDirs(s)
            /\ \A i \in 1 .. Len(list[n]) : Contains(s, list[n][i])
        BY <1>2, <3>1, AfterAll
      <3>3. PostOrder[n] = Append(s, n)
        BY <1>2
      <3> HIDE DEF s
      <3>4. QED
        BY <3>2, <3>3, VisitsWhole
    <2>2. j \in 0 .. k + 1
      OBVIOUS
    <2>3. QED
      BY <2>1, <2>2
  <1>5. \A n \in Node : Visits(n, PostOrder[n])
    <2> HIDE DEF T
    <2>1. k + 1 \in Nat
      OBVIOUS
    <2>2. \A j \in 0 .. k + 1 : j \in T
      BY <1>3, <1>4, <2>1, Induct
    <2>3. k + 1 \in 0 .. k + 1
      OBVIOUS
    <2>4. k + 1 \in T
      BY <2>2, <2>3
    <2>5. \A n \in Node : rank[n] < k + 1
      BY <1>2
    <2>6. QED
      BY <2>4, <2>5 DEF T
  <1>6. QED
    BY <1>2, <1>5

\* A directory is freed after all that is in it, and nothing that is opened.
LEMMA RemovedIs ==
    ASSUME TypeOK, TreeExact, Acyclic, NEW n \in Node
    PROVE  /\ Removed(n) \subseteq Node /\ Removed(n) \cap Opened = {}
           /\ \A m \in Removed(n) : /\ m = n \/ directory[m] # Null
                                    /\ \A i \in 1 .. Len(list[m]) : list[m][i] \in Removed(n)
  <1> DEFINE s == PostOrder[n]
  <1>1. s \in Seq(Node) /\ Visits(n, s)
    BY PostOrderVisits
  <1>2. Removed(n) = {s[i] : i \in {i \in 1 .. Len(s) : \A j \in 1 .. i : s[j] \notin Opened}}
    BY DEF Removed
  <1> HIDE DEF s
  <1>3. ASSUME NEW m \in Removed(n)
        PROVE  /\ m \in Node /\ m \notin Opened
               /\ m = n \/ directory[m] # Null
               /\ \A i \in 1 .. Len(list[m]) : list[m][i] \in Removed(n)
    <2>1. PICK j \in 1 .. Len(s) : s[j] = m /\ \A h \in 1 .. j : s[h] \notin Opened
      BY <1>2
    <2>2. m \in Node /\ m \notin Opened
      BY <1>1, <2>1
    <2>3. m = n \/ directory[m] # Null
      BY <1>1, <2>1 DEF Visits
    <2>4. ASSUME NEW i \in 1 .. Len(list[m])
          PROVE  list[m][i] \in Removed(n)
      <3>1. PICK h \in 1 .. j - 1 : s[h] = list[m][i]
        BY <1>1, <2>1 DEF Visits, AfterTheirs
      <3>2. h \in 1 .. Len(s) /\ \A g \in 1 .. h : g \in 1 .. j
        BY <1>1, <2>1
      <3>3. \A g \in 1 .. h : s[g] \notin Opened
        BY <2>1, <3>2
      <3>4. QED
        BY <1>2, <3>1, <3>2, <3>3
    <2>5. QED
      BY <2>2, <2>3, <2>4
  <1>4. QED
    BY <1>3

-----------------------------------------------------------------------------
\* strcmp orders the names.
LEMMA BeforeOrder ==
    /\ \A a, b, c : Before(a, b) /\ Before(b, c) => Before(a, c)
    /\ \A a : ~ Before(a, a)
    /\ \A a, b \in ToSet(Names) : a = b \/ Before(a, b) \/ Before(b, a)
  <1>1. DOMAIN Names \subseteq Int /\ \A i, j \in DOMAIN Names : Names[i] = Names[j] => i = j
    <2>1. Names \in Seq(STRING) /\ IsInjective(Names)
      BY FileTreeAssumption
    <2>2. QED
      BY <2>1 DEF IsInjective
  <1>2. ASSUME NEW a, NEW b, NEW c, Before(a, b), Before(b, c)
        PROVE  Before(a, c)
    <2>1. PICK i, j \in DOMAIN Names : i < j /\ Names[i] = a /\ Names[j] = b
      BY <1>2 DEF Before
    <2>2. PICK k, l \in DOMAIN Names : k < l /\ Names[k] = b /\ Names[l] = c
      BY <1>2 DEF Before
    <2>3. k = j
      BY <1>1, <2>1, <2>2
    <2>4. i < l
      BY <1>1, <2>1, <2>2, <2>3
    <2>5. QED
      BY <2>1, <2>2, <2>4 DEF Before
  <1>3. ASSUME NEW a, Before(a, a)
        PROVE  FALSE
    <2>1. PICK i, j \in DOMAIN Names : i < j /\ Names[i] = a /\ Names[j] = a
      BY <1>3 DEF Before
    <2>2. i = j /\ i \in Int
      BY <1>1, <2>1
    <2>3. QED
      BY <2>1, <2>2
  <1>4. ASSUME NEW a \in ToSet(Names), NEW b \in ToSet(Names)
        PROVE  a = b \/ Before(a, b) \/ Before(b, a)
    <2>1. PICK i \in DOMAIN Names : Names[i] = a
      BY DEF ToSet
    <2>2. PICK j \in DOMAIN Names : Names[j] = b
      BY DEF ToSet
    <2>3. i = j \/ i < j \/ j < i
      BY <1>1
    <2>4. QED
      BY <2>1, <2>2, <2>3 DEF Before
  <1>5. QED
    BY <1>2, <1>3, <1>4

\* A list in the order of names.
Sorted(s) == \A i, j \in 1 .. Len(s) : i < j => Before(name[s[i]], name[s[j]])

\* What is in order from each to the next is in order.
LEMMA SortedIs ==
    ASSUME TypeOK, TreeExact, NEW d \in Node
    PROVE  list[d] \in Seq(Node) /\ Sorted(list[d])
  <1> DEFINE s == list[d]
  <1>1. s \in Seq(Node) /\ Len(s) \in Nat /\ DOMAIN s = 1 .. Len(s)
    BY DEF TypeOK
  <1>2. \A i \in 1 .. Len(s) : i > 1 => Before(name[s[i - 1]], name[s[i]])
    BY <1>1 DEF TreeExact
  <1> HIDE DEF s
  <1> DEFINE T == {j \in 0 .. Len(s) : \A i \in 1 .. Len(s) : i < j => Before(name[s[i]], name[s[j]])}
  <1>3. 0 \in T
    BY <1>1
  <1>4. ASSUME NEW j \in 1 .. Len(s), j - 1 \in T
        PROVE  j \in T
    <2>1. ASSUME NEW i \in 1 .. Len(s), i < j
          PROVE  Before(name[s[i]], name[s[j]])
      <3>1. Before(name[s[j - 1]], name[s[j]])
        BY <1>2, <2>1
      <3>2. CASE i = j - 1
        BY <3>1, <3>2
      <3>3. CASE i # j - 1
        <4>1. i < j - 1
          BY <2>1, <3>3
        <4>2. Before(name[s[i]], name[s[j - 1]])
          BY <1>4, <4>1
        <4>3. QED
          BY <3>1, <4>2, BeforeOrder
      <3>4. QED
        BY <3>2, <3>3
    <2>2. j \in 0 .. Len(s)
      OBVIOUS
    <2>3. QED
      BY <2>1, <2>2
  <1>5. \A j \in 0 .. Len(s) : j \in T
    <2> HIDE DEF T
    <2> QED
      BY <1>1, <1>3, <1>4, Induct
  <1>6. Sorted(s)
    <2>1. \A j \in 1 .. Len(s) : j \in 0 .. Len(s)
      OBVIOUS
    <2>2. QED
      BY <1>5, <2>1 DEF Sorted
  <1>7. QED
    BY <1>1, <1>6 DEF s

\* A list without those that are gone has the others, in their order.
LEMMA WithoutIs ==
    ASSUME NEW s \in Seq(Node), NEW gone
    PROVE  /\ Without(s, gone) \in Seq(Node)
           /\ Sorted(s) => Sorted(Without(s, gone))
           /\ \A x : Contains(Without(s, gone), x) <=> Contains(s, x) /\ x \notin gone
  <1>0. PICK F : Keeps(F, s, gone) /\ Without(s, gone) = F[Len(s)]
    BY WithoutKeeps
  <1> DEFINE n == Len(s)
             Good(i) == /\ F[i] \in Seq(Node)
                        /\ Sorted(s) => Sorted(F[i])
                        /\ \A x : Contains(F[i], x) <=> \E j \in 1 .. i : s[j] = x /\ x \notin gone
             T == {i \in 0 .. n : Good(i)}
  <1>1. n \in Nat /\ \A i \in 1 .. n : s[i] \in Node
    OBVIOUS
  <1>2. \A i \in 1 .. n : F[i] = IF s[i] \in gone THEN F[i - 1] ELSE Append(F[i - 1], s[i])
    BY <1>0 DEF Keeps
  <1>3. 0 \in T
    <2>1. F[0] \in Seq(Node) /\ Len(F[0]) = 0 /\ 0 \in 0 .. n /\ 1 .. 0 = {} /\ 1 .. Len(F[0]) = {}
      <3>1. F[0] = <<>>
        BY <1>0 DEF Keeps
      <3>2. QED
        BY <1>1, <3>1
    <2>2. QED
      BY <2>1 DEF Sorted, Contains
  <1>4. ASSUME NEW i \in 1 .. n, i - 1 \in T
        PROVE  i \in T
    <2>1. i - 1 \in 0 .. n /\ i \in 0 .. n /\ i # 0 /\ F[i - 1] \in Seq(Node) /\ Good(i - 1)
      BY <1>4, <1>1
    <2>2. CASE s[i] \in gone
      <3>1. F[i] = F[i - 1]
        BY <2>1, <2>2, <1>2
      <3>2. \A x : (\E j \in 1 .. i : s[j] = x /\ x \notin gone)
                      <=> \E j \in 1 .. i - 1 : s[j] = x /\ x \notin gone
        BY <2>2
      <3>3. QED
        BY <2>1, <3>1, <3>2
    <2>3. CASE s[i] \notin gone
      <3> DEFINE r == F[i - 1]
                 t == Append(r, s[i])
      <3>1. F[i] = t
        BY <2>1, <2>3, <1>2
      <3>2. /\ r \in Seq(Node) /\ s[i] \in Node
            /\ Sorted(s) => Sorted(r)
            /\ \A x : Contains(r, x) <=> \E j \in 1 .. i - 1 : s[j] = x /\ x \notin gone
        BY <2>1, <1>1
      <3> HIDE DEF r
      <3>3. /\ t \in Seq(Node) /\ Len(t) = Len(r) + 1 /\ Len(r) \in Nat /\ t[Len(r) + 1] = s[i]
            /\ \A j \in 1 .. Len(r) : t[j] = r[j]
        BY <3>2
      <3> HIDE DEF t
      <3>4. ASSUME NEW x
            PROVE  Contains(t, x) <=> \E j \in 1 .. i : s[j] = x /\ x \notin gone
        <4>1. Contains(t, x) <=> Contains(r, x) \/ x = s[i]
          <5>1. ASSUME Contains(t, x)
                PROVE  Contains(r, x) \/ x = s[i]
            <6>1. PICK h \in 1 .. Len(t) : t[h] = x
              BY <5>1 DEF Contains
            <6>2. h \in 1 .. Len(r) \/ h = Len(r) + 1
              BY <3>3
            <6>3. QED
              BY <3>3, <6>1, <6>2 DEF Contains
          <5>2. ASSUME Contains(r, x)
                PROVE  Contains(t, x)
            <6>1. PICK h \in 1 .. Len(r) : r[h] = x
              BY <5>2 DEF Contains
            <6>2. h \in 1 .. Len(t)
              BY <3>3
            <6>3. QED
              BY <3>3, <6>1, <6>2 DEF Contains
          <5>3. ASSUME x = s[i]
                PROVE  Contains(t, x)
            <6>1. Len(r) + 1 \in 1 .. Len(t)
              BY <3>3
            <6>2. QED
              BY <3>3, <5>3, <6>1 DEF Contains
          <5>4. QED
            BY <5>1, <5>2, <5>3
        <4>2. (\E j \in 1 .. i : s[j] = x /\ x \notin gone)
                <=> (\E j \in 1 .. i - 1 : s[j] = x /\ x \notin gone) \/ x = s[i]
          BY <2>3
        <4>3. QED
          BY <3>2, <4>1, <4>2
      <3>5. ASSUME Sorted(s)
            PROVE  Sorted(t)
        <4> SUFFICES ASSUME NEW a \in 1 .. Len(t), NEW b \in 1 .. Len(t), a < b
                     PROVE  Before(name[t[a]], name[t[b]])
          BY DEF Sorted
        <4>1. a \in 1 .. Len(r) /\ t[a] = r[a]
          BY <3>3
        <4>2. CASE b \in 1 .. Len(r)
          BY <3>2, <3>3, <3>5, <4>1, <4>2 DEF Sorted
        <4>3. CASE b \notin 1 .. Len(r)
          <5>1. t[b] = s[i]
            BY <3>3, <4>3
          <5>2. Contains(r, r[a])
            BY <4>1 DEF Contains
          <5>3. PICK j \in 1 .. i - 1 : s[j] = r[a]
            BY <3>2, <5>2
          <5>4. j \in 1 .. Len(s) /\ i \in 1 .. Len(s) /\ j < i
            BY <1>1
          <5>5. QED
            BY <3>5, <4>1, <5>1, <5>3, <5>4 DEF Sorted
        <4>4. QED
          BY <4>2, <4>3
      <3>6. QED
        BY <2>1, <3>1, <3>3, <3>4, <3>5
    <2>4. QED
      BY <2>2, <2>3
  <1>5. Good(n)
    <2> HIDE DEF T
    <2>1. \A i \in 0 .. n : i \in T
      BY <1>1, <1>3, <1>4, Induct
    <2>2. n \in 0 .. n
      BY <1>1
    <2>3. n \in T
      BY <2>1, <2>2
    <2>4. QED
      BY <2>3 DEF T
  <1>6. Without(s, gone) = F[n]
    BY <1>0
  <1>7. \A x : Contains(s, x) /\ x \notin gone <=> \E j \in 1 .. n : s[j] = x /\ x \notin gone
    BY DEF Contains
  <1>8. QED
    BY <1>5, <1>6, <1>7

\* A sorted list with n, named c, before the first greater name: all that was in it, and sorted
\* again, if the name was free.
LEMMA InsertedIs ==
    ASSUME NEW s \in Seq(Node), Sorted(s), NEW n \in Node, NEW c \in ToSet(Names), NEW N,
           \A i \in 1 .. Len(s) : /\ name[s[i]] \in ToSet(Names) /\ name[s[i]] # c
                                  /\ N[s[i]] = name[s[i]],
           N[n] = c
    PROVE  /\ Inserted(s, n, c) \in Seq(Node)
           /\ \A i \in 2 .. Len(Inserted(s, n, c)) :
                Before(N[Inserted(s, n, c)[i - 1]], N[Inserted(s, n, c)[i]])
           /\ \A x : Contains(Inserted(s, n, c), x) <=> x = n \/ Contains(s, x)
  <1> DEFINE I == {i \in 1 .. Len(s) : Before(c, name[s[i]])}
             k == SelectInSeq(s, LAMBDA m : Before(c, name[m]))
             r == Inserted(s, n, c)
             at == IF k = 0 THEN Len(s) + 1 ELSE k
  <1>1. k = IF I # {} THEN Min(I) ELSE 0
    BY DEF SelectInSeq
  <1>2. I \in SUBSET (1 .. Len(s)) /\ Len(s) \in Nat
    OBVIOUS
  <1>3. /\ at \in 1 .. Len(s) + 1
        /\ \A i \in 1 .. Len(s) : i < at => ~ Before(c, name[s[i]])
        /\ at <= Len(s) => Before(c, name[s[at]])
    <2>1. CASE I # {}
      <3>1. Min(I) \in I /\ \A i \in I : Min(I) <= i
        <4> HIDE DEF I
        <4> QED
          BY <1>2, <2>1, First
      <3>2. k = Min(I) /\ k \in 1 .. Len(s) /\ at = k
        BY <1>1, <2>1, <3>1
      <3> HIDE DEF k, at
      <3>3. \A i \in 1 .. Len(s) : i < at => i \notin I
        BY <3>1, <3>2
      <3>4. QED
        BY <1>2, <3>1, <3>2, <3>3
    <2>2. CASE I = {}
      <3>1. k = 0
        BY <1>1, <2>2
      <3> HIDE DEF k
      <3>2. at = Len(s) + 1
        BY <3>1
      <3>3. QED
        BY <1>2, <2>2, <3>2
    <2>3. QED
      BY <2>1, <2>2
  <1>4. /\ r \in Seq(Node) /\ Len(r) = Len(s) + 1 /\ r[at] = n
        /\ \A i \in 1 .. Len(s) : i < at => r[i] = s[i]
        /\ \A i \in 1 .. Len(s) : i >= at => r[i + 1] = s[i]
    <2>1. CASE k = 0
      <3>1. r = Append(s, n) /\ at = Len(s) + 1
        BY <2>1 DEF Inserted
      <3> HIDE DEF r, at, k
      <3>2. QED
        BY <1>2, <3>1
    <2>2. CASE k # 0
      <3>1. r = InsertAt(s, k, n) /\ at = k
        BY <2>2 DEF Inserted
      <3> HIDE DEF r, at
      <3>2. k \in 1 .. Len(s)
        <4>1. I # {}
          BY <1>1, <2>2
        <4>2. Min(I) \in I
          <5> HIDE DEF I
          <5> QED
            BY <1>2, <4>1, First
        <4> HIDE DEF k
        <4>3. QED
          BY <1>1, <1>2, <4>1, <4>2
      <3> HIDE DEF k
      <3> DEFINE u == SubSeq(s, 1, k - 1)
                 v == SubSeq(s, k, Len(s))
      <3>3. /\ u \in Seq(Node) /\ Len(u) = k - 1 /\ \A i \in 1 .. k - 1 : u[i] = s[i]
            /\ v \in Seq(Node) /\ Len(v) = Len(s) - k + 1
            /\ \A i \in 1 .. Len(s) - k + 1 : v[i] = s[k + i - 1]
        BY <1>2, <3>2
      <3>4. r = (u \o <<n>>) \o v
        BY <3>1 DEF InsertAt
      <3> HIDE DEF u, v
      <3> DEFINE w == u \o <<n>>
      <3>5. /\ w \in Seq(Node) /\ Len(w) = k /\ w[k] = n
            /\ \A i \in 1 .. k - 1 : w[i] = s[i]
        <4>1. /\ w \in Seq(Node) /\ Len(w) = Len(u) + 1 /\ w[Len(u) + 1] = n
              /\ \A i \in 1 .. Len(u) : w[i] = u[i]
          BY <3>3
        <4> HIDE DEF w
        <4>2. Len(u) + 1 = k
          BY <3>2, <3>3
        <4>3. QED
          BY <3>2, <3>3, <4>1, <4>2
      <3>6. r = w \o v
        BY <3>4
      <3> HIDE DEF w
      <3>7. /\ r \in Seq(Node) /\ Len(r) = Len(s) + 1
            /\ \A i \in 1 .. k : r[i] = w[i]
            /\ \A i \in 1 .. Len(v) : r[k + i] = v[i]
        <4>1. /\ r \in Seq(Node) /\ Len(r) = Len(w) + Len(v)
              /\ \A i \in 1 .. Len(w) : r[i] = w[i]
              /\ \A i \in 1 .. Len(v) : r[Len(w) + i] = v[i]
          <5>1. w \in Seq(Node) /\ v \in Seq(Node)
            BY <3>3, <3>5
          <5>2. QED
            BY <5>1, <3>6
        <4>2. Len(w) + Len(v) = Len(s) + 1
          BY <1>2, <3>2, <3>3, <3>5
        <4>3. QED
          BY <3>5, <4>1, <4>2
      <3>8. ASSUME NEW i \in 1 .. Len(s), i >= k
            PROVE  r[i + 1] = s[i]
        <4>1. i - k + 1 \in 1 .. Len(v) /\ i - k + 1 \in 1 .. Len(s) - k + 1
          BY <1>2, <3>2, <3>3, <3>8
        <4>2. r[k + (i - k + 1)] = v[i - k + 1] /\ v[i - k + 1] = s[k + (i - k + 1) - 1]
          BY <3>3, <3>7, <4>1
        <4>3. k + (i - k + 1) = i + 1 /\ k + (i - k + 1) - 1 = i
          BY <3>2
        <4>4. QED
          BY <4>2, <4>3
      <3>9. QED
        BY <3>1, <3>2, <3>5, <3>7, <3>8
    <2>3. QED
      BY <2>1, <2>2
  <1> HIDE DEF r, k, I
  <1>5. at \in 1 .. Len(r) /\ Len(r) = Len(s) + 1
    BY <1>3, <1>4
  <1> HIDE DEF at
  <1>6. ASSUME NEW i \in 1 .. Len(s), i < at
        PROVE  Before(name[s[i]], c)
    BY <1>3, <1>6, BeforeOrder
  <1>7. ASSUME NEW i \in 2 .. Len(r)
        PROVE  Before(N[r[i - 1]], N[r[i]])
    <2>1. CASE i < at
      <3>1. /\ i - 1 \in 1 .. Len(s) /\ i \in 1 .. Len(s) /\ i - 1 < i /\ i - 1 < at
        BY <1>2, <1>5, <2>1
      <3>2. r[i - 1] = s[i - 1] /\ r[i] = s[i]
        BY <1>4, <2>1, <3>1
      <3>3. Before(name[s[i - 1]], name[s[i]])
        BY <3>1 DEF Sorted
      <3>4. QED
        BY <3>1, <3>2, <3>3
    <2>2. CASE i = at
      <3>1. i - 1 \in 1 .. Len(s) /\ i - 1 < at
        BY <1>2, <1>5, <2>2
      <3>2. r[i - 1] = s[i - 1] /\ r[i] = n
        BY <1>4, <2>2, <3>1
      <3>3. QED
        BY <1>6, <3>1, <3>2
    <2>3. CASE i = at + 1
      <3>1. at \in 1 .. Len(s) /\ at <= Len(s) /\ i - 1 = at /\ at >= at
        BY <1>2, <1>5, <2>3
      <3>2. r[i - 1] = n /\ r[i] = s[at]
        BY <1>4, <2>3, <3>1
      <3>3. Before(c, name[s[at]])
        BY <1>3, <3>1
      <3>4. QED
        BY <3>1, <3>2, <3>3
    <2>4. CASE i > at + 1
      <3>1. /\ i - 2 \in 1 .. Len(s) /\ i - 1 \in 1 .. Len(s) /\ i - 2 < i - 1
            /\ i - 2 >= at /\ i - 1 >= at /\ (i - 2) + 1 = i - 1 /\ (i - 1) + 1 = i
        BY <1>2, <1>5, <2>4
      <3>2. r[i - 1] = s[i - 2] /\ r[i] = s[i - 1]
        BY <1>4, <3>1
      <3>3. Before(name[s[i - 2]], name[s[i - 1]])
        BY <3>1 DEF Sorted
      <3>4. QED
        BY <3>1, <3>2, <3>3
    <2>5. QED
      BY <1>5, <2>1, <2>2, <2>3, <2>4
  <1>8. ASSUME NEW x
        PROVE  Contains(r, x) <=> x = n \/ Contains(s, x)
    <2>1. ASSUME Contains(r, x), x # n
          PROVE  Contains(s, x)
      <3>1. PICK i \in 1 .. Len(r) : r[i] = x
        BY <2>1 DEF Contains
      <3>2. CASE i < at
        <4>1. i \in 1 .. Len(s) /\ s[i] = x
          BY <1>2, <1>4, <1>5, <3>1, <3>2
        <4>2. QED
          BY <4>1 DEF Contains
      <3>3. CASE i > at
        <4>1. i - 1 \in 1 .. Len(s) /\ i - 1 >= at /\ (i - 1) + 1 = i
          BY <1>2, <1>5, <3>3
        <4>2. s[i - 1] = x
          BY <1>4, <3>1, <4>1
        <4>3. QED
          BY <4>1, <4>2 DEF Contains
      <3>4. i # at
        BY <1>4, <2>1, <3>1
      <3>5. QED
        BY <1>5, <3>2, <3>3, <3>4
    <2>2. Contains(r, n)
      BY <1>4, <1>5 DEF Contains
    <2>3. ASSUME Contains(s, x)
          PROVE  Contains(r, x)
      <3>1. PICK i \in 1 .. Len(s) : s[i] = x
        BY <2>3 DEF Contains
      <3>2. CASE i < at
        <4>1. i \in 1 .. Len(r) /\ r[i] = x
          BY <1>2, <1>4, <1>5, <3>1, <3>2
        <4>2. QED
          BY <4>1 DEF Contains
      <3>3. CASE i >= at
        <4>1. i + 1 \in 1 .. Len(r) /\ r[i + 1] = x
          BY <1>2, <1>4, <1>5, <3>1, <3>3
        <4>2. QED
          BY <4>1 DEF Contains
      <3>4. QED
        BY <1>5, <3>2, <3>3
    <2>4. QED
      BY <2>1, <2>2, <2>3
  <1>9. QED
    BY <1>4, <1>7, <1>8 DEF r

-----------------------------------------------------------------------------
\* What holds the tree together besides TreeExact: all but the root and unnamed pipes are
\* in a directory, under a name.
Rooted ==
    /\ kind[root] = "dir" /\ directory[root] = Null
    /\ \A n \in Node \ {root} : IF directory[n] = Null THEN kind[n] \in {"free", "buffer"}
                                                       ELSE name[n] \in ToSet(Names)

Tree == name \in [Node -> ToSet(Names) \cup {Null}] /\ TreeExact /\ Rooted /\ Acyclic

\* Files that go together with what is in them leave a tree.
LEMMA FreeKeeps ==
    ASSUME TypeOK, Tree, NEW gone \in SUBSET Node, root \notin gone, Free(gone),
           \A m \in gone : \A i \in 1 .. Len(list[m]) : list[m][i] \in gone
    PROVE  Tree'
  <1>1. /\ kind' = [n \in Node |-> IF n \in gone THEN "free" ELSE kind[n]]
        /\ name' = [n \in Node |-> IF n \in gone THEN Null ELSE name[n]]
        /\ directory' = [n \in Node |-> IF n \in gone THEN Null ELSE directory[n]]
        /\ list' = [n \in Node |-> IF n \in gone THEN <<>> ELSE Without(list[n], gone)]
    BY DEF Free
  <1>2. ASSUME NEW n \in Node \ gone
        PROVE  /\ kind'[n] = kind[n] /\ name'[n] = name[n] /\ directory'[n] = directory[n]
               /\ list'[n] = Without(list[n], gone)
    BY <1>1
  <1>3. ASSUME NEW n \in gone
        PROVE  /\ kind'[n] = "free" /\ directory'[n] = Null /\ DOMAIN list'[n] = {}
    <2>1. kind'[n] = "free" /\ directory'[n] = Null /\ list'[n] = <<>>
      BY <1>1
    <2>2. DOMAIN <<>> = {}
      OBVIOUS
    <2>3. QED
      BY <2>1, <2>2
  <1>4. root \in Node /\ root \in Node \ gone
    BY FileTreeAssumption
  <1>5. ASSUME NEW d \in Node \ gone
        PROVE  /\ list'[d] \in Seq(Node) /\ Sorted(list'[d]) /\ DOMAIN list'[d] = 1 .. Len(list'[d])
               /\ \A x : Contains(list'[d], x) <=> Contains(list[d], x) /\ x \notin gone
    <2> DEFINE r == Without(list[d], gone)
    <2>1. list[d] \in Seq(Node) /\ Sorted(list[d])
      BY SortedIs DEF Tree
    <2>2. r \in Seq(Node) /\ Sorted(r) /\ \A x : Contains(r, x) <=> Contains(list[d], x) /\ x \notin gone
      BY <2>1, WithoutIs
    <2> HIDE DEF r
    <2>3. DOMAIN r = 1 .. Len(r)
      BY <2>2
    <2>4. list'[d] = r
      BY <1>2 DEF r
    <2>5. QED
      BY <2>2, <2>3, <2>4
  <1>6. ASSUME NEW d \in Node \ gone, NEW i \in DOMAIN list'[d]
        PROVE  /\ i \in 1 .. Len(list'[d]) /\ list'[d][i] \in Node \ gone
               /\ \E h \in DOMAIN list[d] : list[d][h] = list'[d][i]
    <2>1. i \in 1 .. Len(list'[d]) /\ list'[d][i] \in Node /\ Contains(list'[d], list'[d][i])
      BY <1>5, <1>6 DEF Contains
    <2>2. Contains(list[d], list'[d][i]) /\ list'[d][i] \notin gone
      BY <1>5, <2>1
    <2>3. DOMAIN list[d] = 1 .. Len(list[d])
      BY DEF TypeOK
    <2>4. QED
      BY <2>1, <2>2, <2>3 DEF Contains
  <1>7. TreeExact'
    <2>1. ASSUME NEW d \in Node, NEW i \in DOMAIN list'[d]
          PROVE  /\ kind'[d] = "dir" /\ kind'[list'[d][i]] # "free" /\ directory'[list'[d][i]] = d
                 /\ i > 1 => Before(name'[list'[d][i - 1]], name'[list'[d][i]])
      <3>1. d \in Node \ gone
        BY <1>3, <2>1
      <3>2. PICK h \in DOMAIN list[d] : list[d][h] = list'[d][i]
        BY <1>6, <3>1
      <3>3. list'[d][i] \in Node \ gone
        BY <1>6, <3>1
      <3>4. kind[d] = "dir" /\ kind[list'[d][i]] # "free" /\ directory[list'[d][i]] = d
        BY <3>2 DEF Tree, TreeExact
      <3>5. kind'[d] = "dir" /\ kind'[list'[d][i]] # "free" /\ directory'[list'[d][i]] = d
        BY <1>2, <3>1, <3>3, <3>4
      <3>6. ASSUME i > 1
            PROVE  Before(name'[list'[d][i - 1]], name'[list'[d][i]])
        <4>1. i \in 1 .. Len(list'[d]) /\ i - 1 \in 1 .. Len(list'[d]) /\ i - 1 < i
          BY <1>5, <3>1, <3>6
        <4>2. Before(name[list'[d][i - 1]], name[list'[d][i]])
          BY <1>5, <3>1, <4>1 DEF Sorted
        <4>3. list'[d][i - 1] \in Node \ gone
          BY <1>5, <1>6, <3>1, <4>1
        <4>4. QED
          BY <1>2, <3>3, <4>2, <4>3
      <3>7. QED
        BY <3>5, <3>6
    <2>2. ASSUME NEW n \in Node, n # root, directory'[n] # Null
          PROVE  Contains(list'[directory'[n]], n)
      <3> DEFINE d == directory[n]
      <3>1. n \in Node \ gone /\ directory'[n] = d
        BY <1>2, <1>3, <2>2
      <3>2. d \in Node /\ Contains(list[d], n)
        BY <2>2, <3>1 DEF Tree, TreeExact, InTree, TypeOK
      <3>3. d \notin gone
        BY <3>1, <3>2 DEF Contains
      <3> HIDE DEF d
      <3>4. Contains(list'[d], n)
        BY <1>5, <3>1, <3>2, <3>3
      <3>5. QED
        BY <3>1, <3>4
    <2>3. QED
      BY <2>1, <2>2 DEF TreeExact, InTree
  <1>8. Rooted'
    <2>1. kind'[root] = "dir" /\ directory'[root] = Null
      BY <1>2, <1>4 DEF Tree, Rooted
    <2>2. ASSUME NEW n \in Node \ {root}
          PROVE  IF directory'[n] = Null THEN kind'[n] \in {"free", "buffer"} ELSE name'[n] \in ToSet(Names)
      <3>1. CASE n \in gone
        BY <1>3, <3>1
      <3>2. CASE n \notin gone
        BY <1>2, <3>2 DEF Tree, Rooted
      <3>3. QED
        BY <3>1, <3>2
    <2>3. QED
      BY <2>1, <2>2 DEF Rooted
  <1>9. Acyclic'
    <2>1. PICK k \in Nat : \E rank : Ranks(k, rank)
      BY DEF Tree, Acyclic
    <2>2. PICK rank : Ranks(k, rank)
      BY <2>1
    <2>3. ASSUME NEW d \in Node, NEW i \in DOMAIN list'[d]
          PROVE  rank[list'[d][i]] < rank[d]
      <3>1. d \in Node \ gone
        BY <1>3, <2>3
      <3>2. QED
        BY <1>6, <2>2, <3>1 DEF Ranks
    <2>4. rank \in [Node -> 0 .. k]
      BY <2>2 DEF Ranks
    <2>5. QED
      BY <2>3, <2>4 DEF Acyclic, Ranks
  <1>10. name' \in [Node -> ToSet(Names) \cup {Null}]
    BY <1>1 DEF Tree
  <1>11. QED
    BY <1>7, <1>8, <1>9, <1>10 DEF Tree

\* A new file under a name that is free in a directory makes a tree.
LEMMA MakeKeeps ==
    ASSUME TypeOK, Tree, NEW d \in Node, kind[d] = "dir", NEW n \in Node, NEW k \in Kind,
           NEW c \in ToSet(Names), \A i \in 1 .. Len(list[d]) : name[list[d][i]] # c,
           NEW value, Allocate(n, k, c, d, value),
           list' = [list EXCEPT ![d] = Inserted(@, n, c), ![n] = <<>>]
    PROVE  Tree' /\ \A m \in Node : kind[m] # "free" => kind'[m] = kind[m]
  <1>1. /\ kind[n] = "free" /\ kind' = [kind EXCEPT ![n] = k] /\ name' = [name EXCEPT ![n] = c]
        /\ directory' = [directory EXCEPT ![n] = d]
    BY DEF Allocate, Unused
  <1>2. n # d /\ n # root /\ root \in Node /\ k # "free"
    BY <1>1, FileTreeAssumption DEF Tree, Rooted, Kind
  <1>3. /\ kind'[n] = k /\ name'[n] = c /\ directory'[n] = d /\ DOMAIN list'[n] = {}
        /\ list'[d] = Inserted(list[d], n, c)
    <2>1. list'[n] = <<>> /\ list'[d] = Inserted(list[d], n, c)
      BY <1>2 DEF TypeOK
    <2>2. DOMAIN <<>> = {}
      OBVIOUS
    <2>3. QED
      BY <1>1, <2>1, <2>2 DEF TypeOK, Tree
  <1>4. ASSUME NEW m \in Node \ {n}
        PROVE  kind'[m] = kind[m] /\ name'[m] = name[m] /\ directory'[m] = directory[m]
    BY <1>1 DEF TypeOK, Tree
  <1>5. ASSUME NEW m \in Node \ {n, d}
        PROVE  list'[m] = list[m]
    BY DEF TypeOK
  <1>6. ASSUME NEW m \in Node, NEW i \in 1 .. Len(list[m])
        PROVE  /\ list[m][i] \in Node \ {n} /\ i \in DOMAIN list[m]
               /\ kind[list[m][i]] # "free" /\ directory[list[m][i]] = m
    <2>1. list[m] \in Seq(Node) /\ i \in DOMAIN list[m]
      BY DEF TypeOK
    <2>2. kind[list[m][i]] # "free" /\ directory[list[m][i]] = m
      BY <2>1 DEF Tree, TreeExact
    <2>3. QED
      BY <1>1, <2>1, <2>2
  <1> DEFINE s == list[d]
             r == list'[d]
  <1>7. /\ r \in Seq(Node) /\ \A i \in 2 .. Len(r) : Before(name'[r[i - 1]], name'[r[i]])
        /\ \A x : Contains(r, x) <=> x = n \/ Contains(s, x)
    <2>1. s \in Seq(Node) /\ Sorted(s)
      BY SortedIs DEF Tree
    <2>2. ASSUME NEW i \in 1 .. Len(s)
          PROVE  name[s[i]] \in ToSet(Names) /\ name[s[i]] # c /\ name'[s[i]] = name[s[i]]
      <3>1. s[i] \in Node \ {n} /\ directory[s[i]] = d
        BY <1>6
      <3>2. s[i] # root /\ d # Null
        BY <3>1, FileTreeAssumption DEF Tree, Rooted
      <3>3. QED
        BY <1>4, <3>1, <3>2 DEF Tree, Rooted
    <2>3. r = Inserted(s, n, c)
      BY <1>3
    <2> HIDE DEF s, r
    <2> DEFINE N == name'
    <2>4. N[n] = c /\ \A i \in 1 .. Len(s) : N[s[i]] = name[s[i]]
      BY <1>3, <2>2
    <2> HIDE DEF N
    <2>5. /\ Inserted(s, n, c) \in Seq(Node)
          /\ \A i \in 2 .. Len(Inserted(s, n, c)) :
                Before(N[Inserted(s, n, c)[i - 1]], N[Inserted(s, n, c)[i]])
          /\ \A x : Contains(Inserted(s, n, c), x) <=> x = n \/ Contains(s, x)
      BY <2>1, <2>2, <2>4, InsertedIs
    <2>6. QED
      BY <2>3, <2>5 DEF N
  <1>8. DOMAIN r = 1 .. Len(r) /\ Len(r) \in Nat /\ \A i \in 1 .. Len(r) : r[i] \in Node
    <2> HIDE DEF r
    <2> QED
      BY <1>7
  <1>9. ASSUME NEW i \in 1 .. Len(r)
        PROVE  /\ r[i] \in Node /\ kind'[r[i]] # "free" /\ directory'[r[i]] = d
               /\ r[i] = n \/ \E h \in 1 .. Len(s) : r[i] = s[h]
    <2>1. r[i] \in Node /\ (r[i] = n \/ Contains(s, r[i]))
      <3> HIDE DEF r, s
      <3>1. Contains(r, r[i])
        BY DEF Contains
      <3>2. QED
        BY <1>7, <1>8, <3>1
    <2>2. CASE r[i] = n
      BY <1>2, <1>3, <2>2
    <2>3. CASE r[i] # n
      <3>1. PICK h \in 1 .. Len(s) : s[h] = r[i]
        BY <2>1, <2>3 DEF Contains
      <3>2. kind[r[i]] # "free" /\ directory[r[i]] = d
        BY <1>6, <3>1
      <3>3. QED
        BY <1>4, <2>1, <2>3, <3>1, <3>2
    <2>4. QED
      BY <2>1, <2>2, <2>3
  <1> HIDE DEF s, r
  <1>10. TreeExact'
    <2>1. ASSUME NEW m \in Node, NEW i \in DOMAIN list'[m]
          PROVE  /\ kind'[m] = "dir" /\ kind'[list'[m][i]] # "free" /\ directory'[list'[m][i]] = m
                 /\ i > 1 => Before(name'[list'[m][i - 1]], name'[list'[m][i]])
      <3>1. m # n
        BY <1>3, <2>1
      <3>2. CASE m = d
        <4>1. list'[m] = r /\ i \in 1 .. Len(r) /\ kind'[m] = "dir"
          BY <1>4, <1>8, <2>1, <3>1, <3>2 DEF r
        <4>2. kind'[r[i]] # "free" /\ directory'[r[i]] = d
          BY <1>9, <4>1
        <4>3. i > 1 => i \in 2 .. Len(r)
          BY <1>8, <4>1
        <4>4. i > 1 => Before(name'[r[i - 1]], name'[r[i]])
          BY <1>7, <4>3
        <4>5. QED
          BY <3>2, <4>1, <4>2, <4>4
      <3>3. CASE m # d
        <4>1. list'[m] = list[m] /\ list[m] \in Seq(Node)
          BY <1>5, <3>1, <3>3 DEF TypeOK
        <4>2. i \in DOMAIN list[m] /\ i \in 1 .. Len(list[m])
          BY <4>1, <2>1
        <4>3. /\ kind[m] = "dir"
              /\ i > 1 => Before(name[list[m][i - 1]], name[list[m][i]])
          BY <4>2 DEF Tree, TreeExact
        <4>4. /\ list[m][i] \in Node \ {n} /\ kind[list[m][i]] # "free" /\ directory[list[m][i]] = m
          BY <1>6, <4>2
        <4>5. i > 1 => list[m][i - 1] \in Node \ {n}
          <5>1. i > 1 => i - 1 \in 1 .. Len(list[m])
            BY <4>1, <4>2
          <5>2. QED
            BY <1>6, <5>1
        <4>6. QED
          BY <1>4, <3>1, <4>1, <4>3, <4>4, <4>5
      <3>4. QED
        BY <3>2, <3>3
    <2>2. ASSUME NEW m \in Node, m # root, directory'[m] # Null
          PROVE  Contains(list'[directory'[m]], m)
      <3>1. CASE m = n
        BY <1>3, <1>7, <3>1 DEF r
      <3>2. CASE m # n
        <4> DEFINE e == directory[m]
        <4>1. directory'[m] = e /\ e # Null
          BY <1>4, <2>2, <3>2
        <4>2. e \in Node /\ Contains(list[e], m)
          BY <2>2, <4>1 DEF Tree, TreeExact, InTree, TypeOK
        <4> HIDE DEF e
        <4>3. e # n
          <5>1. PICK i \in 1 .. Len(list[e]) : list[e][i] = m
            BY <4>2 DEF Contains
          <5>2. kind[e] = "dir"
            BY <1>6, <4>2, <5>1 DEF Tree, TreeExact
          <5>3. QED
            BY <1>1, <5>2
        <4>4. CASE e = d
          BY <1>7, <4>1, <4>2, <4>4 DEF r, s
        <4>5. CASE e # d
          BY <1>5, <4>1, <4>2, <4>3, <4>5
        <4>6. QED
          BY <4>4, <4>5
      <3>3. QED
        BY <3>1, <3>2
    <2>3. QED
      BY <2>1, <2>2 DEF TreeExact, InTree
  <1>11. Rooted'
    <2>1. kind'[root] = "dir" /\ directory'[root] = Null
      BY <1>2, <1>4 DEF Tree, Rooted
    <2>2. ASSUME NEW m \in Node \ {root}
          PROVE  IF directory'[m] = Null THEN kind'[m] \in {"free", "buffer"} ELSE name'[m] \in ToSet(Names)
      <3>1. CASE m = n
        BY <1>3, <3>1, FileTreeAssumption
      <3>2. CASE m # n
        BY <1>4, <3>2 DEF Tree, Rooted
      <3>3. QED
        BY <3>1, <3>2
    <2>3. QED
      BY <2>1, <2>2 DEF Rooted
  <1>12. Acyclic'
    <2>1. PICK h \in Nat : \E rank : Ranks(h, rank)
      BY DEF Tree, Acyclic
    <2>2. PICK rank : Ranks(h, rank)
      BY <2>1
    <2> DEFINE up == [m \in Node |-> IF m = n THEN 0 ELSE rank[m] + 1]
    <2>3. \A m \in Node : rank[m] \in 0 .. h
      BY <2>2 DEF Ranks
    <2>4. up \in [Node -> 0 .. h + 1]
      BY <2>3
    <2>5. ASSUME NEW m \in Node, NEW i \in DOMAIN list'[m]
          PROVE  up[list'[m][i]] < up[m]
      <3>1. m # n
        BY <1>3, <2>5
      <3>2. CASE m = d
        <4>1. list'[m] = r /\ i \in 1 .. Len(r)
          BY <1>8, <2>5, <3>2 DEF r
        <4>2. CASE r[i] = n
          BY <2>3, <3>1, <4>1, <4>2
        <4>3. CASE r[i] # n
          <5>1. PICK j \in 1 .. Len(s) : r[i] = s[j]
            BY <1>9, <4>1, <4>3
          <5>2. s[j] \in Node /\ rank[s[j]] < rank[d]
            BY <1>6, <2>2, <5>1 DEF s, Ranks
          <5>3. QED
            BY <2>3, <3>1, <3>2, <4>1, <4>3, <5>1, <5>2
        <4>4. QED
          BY <4>2, <4>3
      <3>3. CASE m # d
        <4>1. list'[m] = list[m] /\ list[m] \in Seq(Node)
          BY <1>5, <3>1, <3>3 DEF TypeOK
        <4>2. i \in DOMAIN list[m] /\ i \in 1 .. Len(list[m])
          BY <4>1, <2>5
        <4>3. list[m][i] \in Node \ {n} /\ rank[list[m][i]] < rank[m]
          BY <1>6, <2>2, <4>2 DEF Ranks
        <4>4. QED
          BY <2>3, <3>1, <4>1, <4>3
      <3>4. QED
        BY <3>2, <3>3
    <2> HIDE DEF up
    <2>6. h + 1 \in Nat
      OBVIOUS
    <2>7. QED
      BY <2>4, <2>5, <2>6 DEF Acyclic, Ranks
  <1>13. name' \in [Node -> ToSet(Names) \cup {Null}]
    BY <1>1 DEF Tree
  <1>14. QED
    BY <1>1, <1>4, <1>10, <1>11, <1>12, <1>13 DEF Tree

-----------------------------------------------------------------------------
\* Processes are in directories, and have only files open.
Used == \A p \in Process : /\ kind[cwd[p]] = "dir"
                           /\ \A f \in Fd : fd_table[p][f] # None =>
                                kind[fd_table[p][f].file] \notin {"free", "dir"}

TInv == Tree /\ Used

\* Files of the tree are in a directory of the tree, under a name, and one under each.
LEMMA InTreeIs ==
    ASSUME TypeOK, Tree
    PROVE  /\ root \in InTree
           /\ \A d \in Node : kind[d] = "dir" => d \in InTree
           /\ \A n \in InTree : kind[n] # "free"
           /\ \A n \in InTree \ {root} : /\ directory[n] \in InTree /\ kind[directory[n]] = "dir"
                                         /\ name[n] \in ToSet(Names)
                                         /\ \E i \in DOMAIN list[directory[n]] :
                                                list[directory[n]][i] = n
  <1>1. root \in Node
    BY FileTreeAssumption
  <1>2. \A d \in Node : kind[d] = "dir" => d \in InTree
    BY DEF Tree, Rooted, InTree
  <1>3. ASSUME NEW n \in InTree \ {root}
        PROVE  /\ directory[n] \in InTree /\ kind[directory[n]] = "dir"
               /\ name[n] \in ToSet(Names) /\ kind[n] # "free"
               /\ \E i \in DOMAIN list[directory[n]] : list[directory[n]][i] = n
    <2>1. n \in Node \ {root} /\ directory[n] # Null /\ directory[n] \in Node
      BY DEF InTree, TypeOK
    <2>2. Contains(list[directory[n]], n)
      BY DEF Tree, TreeExact
    <2>3. list[directory[n]] \in Seq(Node)
      BY <2>1 DEF TypeOK
    <2>4. PICK i \in DOMAIN list[directory[n]] : list[directory[n]][i] = n
      BY <2>2, <2>3 DEF Contains
    <2>5. kind[directory[n]] = "dir" /\ kind[n] # "free"
      BY <2>1, <2>4 DEF Tree, TreeExact
    <2>6. name[n] \in ToSet(Names)
      BY <2>1 DEF Tree, Rooted
    <2>7. QED
      BY <1>2, <2>1, <2>4, <2>5, <2>6
  <1>4. kind[root] # "free"
    BY DEF Tree, Rooted
  <1>5. root \in InTree
    BY <1>1 DEF InTree
  <1>6. QED
    BY <1>2, <1>3, <1>4, <1>5

\* In a directory a component that leads somewhere leads to a file; one that does not is a
\* name that is free there, or too long.
LEMMA FindFile ==
    ASSUME TypeOK, Tree, NEW d \in Node, kind[d] = "dir", NEW c
    PROVE  /\ Find(d, c) # Null => Find(d, c) \in InTree
           /\ Find(d, c) = Null => /\ c \notin {"", ".", ".."}
                                   /\ \A i \in 1 .. Len(list[d]) : name[list[d][i]] # c
  <1> DEFINE I == {i \in 1 .. Len(list[d]) : ~Before(name[list[d][i]], c)}
             k == SelectInSeq(list[d], LAMBDA n : ~Before(name[n], c))
  <1>1. /\ root \in InTree /\ d \in InTree /\ Null \notin Node
        /\ list[d] \in Seq(Node) /\ DOMAIN list[d] = 1 .. Len(list[d])
    <2>1. root \in InTree /\ d \in InTree /\ Null \notin Node
      BY InTreeIs, FileTreeAssumption
    <2>2. list[d] \in Seq(Node)
      BY DEF TypeOK
    <2>3. QED
      BY <2>1, <2>2
  <1>2. CASE c \in {"", "."}
    BY <1>1, <1>2 DEF Find, InTree
  <1>3. CASE c = ".."
    <2>1. CASE d = root
      BY <1>1, <1>3, <2>1, FileTreeAssumption DEF Find
    <2>2. CASE d # root
      <3>1. Find(d, c) = directory[d]
        BY <1>3, <2>2 DEF Find
      <3>2. directory[d] \in InTree
        BY <1>1, <2>2, InTreeIs
      <3>3. QED
        BY <1>1, <3>1, <3>2 DEF InTree
    <2>3. QED
      BY <2>1, <2>2
  <1>4. CASE c \notin {"", ".", ".."}
    <2>1. Find(d, c) = IF k # 0 /\ name[list[d][k]] = c THEN list[d][k] ELSE Null
      BY <1>4 DEF Find
    <2>2. k = IF I # {} THEN Min(I) ELSE 0
      BY DEF SelectInSeq
    <2> HIDE DEF k
    <2>3. CASE I # {}
      <3>1. I \in SUBSET (1 .. Len(list[d]))
        OBVIOUS
      <3>2. k \in I
        <4> HIDE DEF I
        <4> QED
          BY <2>2, <2>3, <3>1, First
      <3>8. \A i \in I : k <= i
        <4> HIDE DEF I
        <4> QED
          BY <2>2, <2>3, <3>1, First
      <3>3. k \in 1 .. Len(list[d]) /\ k # 0 /\ k \in DOMAIN list[d]
        BY <1>1, <3>2
      <3>4. list[d][k] \in Node /\ directory[list[d][k]] = d
        BY <1>1, <3>3 DEF Tree, TreeExact
      <3>5. list[d][k] \in InTree
        BY <1>1, <3>4 DEF InTree
      <3>6. CASE name[list[d][k]] = c
        BY <1>1, <2>1, <3>3, <3>4, <3>5, <3>6
      <3>7. CASE name[list[d][k]] # c
        <4>1. ~Before(name[list[d][k]], c)
          BY <3>2
        <4>2. ASSUME NEW i \in 1 .. Len(list[d]), name[list[d][i]] = c
              PROVE  FALSE
          <5>1. CASE i = k
            BY <3>7, <4>2, <5>1
          <5>2. CASE i < k
            <6>1. i \notin I
              BY <1>1, <3>3, <3>8, <5>2
            <6>2. Before(c, c)
              BY <4>2, <6>1
            <6>3. QED
              BY <6>2, BeforeOrder
          <5>3. CASE i > k
            <6>1. Before(name[list[d][k]], name[list[d][i]])
              BY <3>3, <5>3, SortedIs DEF Tree, Sorted
            <6>2. QED
              BY <4>1, <4>2, <6>1
          <5>4. QED
            BY <1>1, <3>3, <5>1, <5>2, <5>3
        <4>3. QED
          BY <1>4, <2>1, <3>7, <4>2
      <3>9. QED
        BY <3>6, <3>7
    <2>4. CASE I = {}
      <3>1. \A i \in 1 .. Len(list[d]) : name[list[d][i]] # c
        BY <2>4, BeforeOrder
      <3>2. QED
        BY <1>4, <2>1, <2>2, <2>4, <3>1
    <2>5. QED
      BY <2>3, <2>4
  <1>5. QED
    BY <1>2, <1>3, <1>4

\* What a path leads to up to its last component is a directory.
LEMMA ParentDir ==
    ASSUME TypeOK, Tree, Used, NEW p \in Process, NEW path, Len(path.names) \in Nat \ {0}
    PROVE  Parent(p, path) # Null => Parent(p, path) \in Node /\ kind[Parent(p, path)] = "dir"
  <1> DEFINE U == {n \in Node : kind[n] = "dir"} \cup {Null}
  <1>1. root \in U /\ cwd[p] \in U
    BY FileTreeAssumption DEF TypeOK, Tree, Rooted, Used
  <1>2. ASSUME NEW d \in U, NEW c
        PROVE  Enter(d, c) \in U
    <2>1. CASE d = Null \/ c = ""
      BY <2>1 DEF Enter
    <2>2. CASE ~ (d = Null \/ c = "")
      <3>1. d \in Node /\ kind[d] = "dir"
        BY <2>2
      <3>2. Find(d, c) # Null => Find(d, c) \in Node
        BY <3>1, FindFile DEF InTree
      <3>3. Enter(d, c) = IF Find(d, c) # Null /\ kind[Find(d, c)] = "dir" THEN Find(d, c) ELSE Null
        BY <2>2 DEF Enter
      <3>4. QED
        BY <3>2, <3>3
    <2>3. QED
      BY <2>1, <2>2
  <1>3. Parent(p, path) \in U
    <2> HIDE DEF U
    <2> QED
      BY <1>1, <1>2, ParentIn
  <1>4. QED
    BY <1>3

\* What a path leads to is a file.
LEMMA GetFileIs ==
    ASSUME TypeOK, Tree, Used, NEW p \in Process, NEW path, Len(path.names) \in Nat \ {0}
    PROVE  GetFile(p, path) # Null =>
              GetFile(p, path) \in Node /\ GetFile(p, path) \in InTree /\ kind[GetFile(p, path)] # "free"
  <1>1. CASE Parent(p, path) = Null
    BY <1>1 DEF GetFile
  <1>2. CASE Parent(p, path) # Null
    <2>1. Parent(p, path) \in Node /\ kind[Parent(p, path)] = "dir"
      BY <1>2, ParentDir
    <2>2. GetFile(p, path) = Find(Parent(p, path), Last(path.names))
      BY <1>2 DEF GetFile
    <2>3. GetFile(p, path) # Null => GetFile(p, path) \in InTree
      BY <2>1, <2>2, FindFile
    <2>4. QED
      BY <2>3, InTreeIs DEF InTree
  <1>3. QED
    BY <1>1, <1>2

-----------------------------------------------------------------------------
\* A call that leaves the tree alone, puts processes in directories and opens files.
LEMMA NoTreeStep ==
    ASSUME TInv, UNCHANGED tree, \A p \in Process : kind[cwd'[p]] = "dir",
           \A p \in Process : \A f \in Fd :
                fd_table'[p][f] # None => kind[fd_table'[p][f].file] \notin {"free", "dir"}
    PROVE  TInv'
  <1>1. kind' = kind /\ name' = name /\ directory' = directory /\ list' = list
    BY DEF tree
  <1>2. TreeExact' /\ Rooted' /\ Acyclic'
    BY <1>1 DEF TInv, Tree, TreeExact, InTree, Rooted, Acyclic, Ranks
  <1>3. Tree'
    BY <1>1, <1>2 DEF TInv, Tree
  <1>4. Used'
    BY <1>1 DEF Used
  <1>5. QED
    BY <1>3, <1>4 DEF TInv

\* makeFile, with a last component that a process may use.
LEMMA MakeFileTree ==
    ASSUME TypeOK, TInv, NEW p \in Process, NEW path, Len(path.names) \in Nat \ {0},
           Last(path.names) \in Component, NEW k \in Kind, NEW value,
           MakeFile(p, path, k, value), UNCHANGED fd_table
    PROVE  TInv'
  <1> DEFINE d == Parent(p, path)
             c == Last(path.names)
  <1>1. d \in Node /\ kind[d] = "dir"
    BY ParentDir DEF MakeFile, TInv
  <1>2. c \in ToSet(Names) /\ \A i \in 1 .. Len(list[d]) : name[list[d][i]] # c
    <2>1. Find(d, c) = Null /\ c # Long
      BY DEF MakeFile
    <2>2. c \notin {"", ".", ".."} /\ \A i \in 1 .. Len(list[d]) : name[list[d][i]] # c
      BY <1>1, <2>1, FindFile DEF TInv
    <2>3. QED
      BY <2>1, <2>2 DEF Component
  <1>3. PICK n \in Node : /\ Allocate(n, k, c, d, value)
                          /\ list' = [list EXCEPT ![d] = Inserted(@, n, c), ![n] = <<>>]
    BY DEF MakeFile
  <1>4. cwd' = cwd /\ fd_table' = fd_table
    BY DEF MakeFile
  <1> HIDE DEF d, c
  <1>5. Tree' /\ \A m \in Node : kind[m] # "free" => kind'[m] = kind[m]
    BY <1>1, <1>2, <1>3, MakeKeeps DEF TInv
  <1>6. Used'
    <2>1. ASSUME NEW q \in Process
          PROVE  kind'[cwd[q]] = "dir"
      BY <1>5 DEF TInv, Used, TypeOK
    <2>2. ASSUME NEW q \in Process, NEW f \in Fd, fd_table[q][f] # None
          PROVE  kind'[fd_table[q][f].file] \notin {"free", "dir"}
      <3>1. fd_table[q][f].file \in Node
        BY <2>2 DEF TypeOK, Descriptor
      <3>2. kind[fd_table[q][f].file] \notin {"free", "dir"}
        BY <2>2 DEF TInv, Used
      <3>3. QED
        BY <1>5, <3>1, <3>2
    <2>3. QED
      BY <1>4, <2>1, <2>2 DEF Used
  <1>7. QED
    BY <1>5, <1>6 DEF TInv

\* Files that are not in use go, with what is in them.
LEMMA GoneTree ==
    ASSUME TypeOK, TInv, NEW gone \in SUBSET Node, root \notin gone, Free(gone),
           \A m \in gone : \A i \in 1 .. Len(list[m]) : list[m][i] \in gone,
           cwd' \in [Process -> Node],
           \A p \in Process : cwd'[p] \notin gone /\ kind[cwd'[p]] = "dir",
           \A p \in Process : \A f \in Fd : fd_table'[p][f] # None =>
                /\ fd_table'[p][f].file \in Node \ gone
                /\ kind[fd_table'[p][f].file] \notin {"free", "dir"}
    PROVE  TInv'
  <1>1. Tree'
    BY FreeKeeps DEF TInv
  <1>2. \A m \in Node \ gone : kind'[m] = kind[m]
    BY DEF Free
  <1>3. Used'
    BY <1>2 DEF Used
  <1>4. QED
    BY <1>1, <1>3 DEF TInv

\* removeFile, of what no process is in.
LEMMA RemoveFileTree ==
    ASSUME TypeOK, CountsExact, TInv, ~ MayRemoveCwd, NEW n, n # Null => n \in Node, RemoveFile(n),
           UNCHANGED fd_table
    PROVE  TInv'
  <1> DEFINE gone == Removed(n)
  <1>1. n \in Node /\ n # root /\ Free(gone) /\ cwd' = cwd /\ \A p \in Process : cwd[p] \notin gone
    BY DEF RemoveFile
  <1>2. /\ gone \subseteq Node /\ gone \cap Opened = {}
        /\ \A m \in gone : /\ m = n \/ directory[m] # Null
                           /\ \A i \in 1 .. Len(list[m]) : list[m][i] \in gone
    BY <1>1, RemovedIs DEF TInv, Tree
  <1> HIDE DEF gone
  <1>3. root \notin gone
    BY <1>1, <1>2 DEF TInv, Tree, Rooted
  <1>4. \A p \in Process : cwd'[p] \notin gone /\ kind[cwd'[p]] = "dir"
    BY <1>1 DEF TInv, Used
  <1>5. ASSUME NEW p \in Process, NEW f \in Fd, fd_table'[p][f] # None
        PROVE  /\ fd_table'[p][f].file \in Node \ gone
               /\ kind[fd_table'[p][f].file] \notin {"free", "dir"}
    <2>1. fd_table' = fd_table
      OBVIOUS
    <2>2. kind[fd_table[p][f].file] \notin {"free", "dir"}
      BY <1>5, <2>1 DEF TInv, Used
    <2>3. fd_table[p][f].file \in Opened
      BY <1>5, <2>1, RefersToOpened DEF RefersOpened, Opened
    <2>4. QED
      BY <1>2, <2>1, <2>2, <2>3 DEF Opened
  <1>6. cwd' \in [Process -> Node]
    BY <1>1 DEF TypeOK
  <1>7. gone \in SUBSET Node
    BY <1>2
  <1>8. QED
    BY <1>1, <1>2, <1>3, <1>4, <1>5, <1>6, <1>7, GoneTree

\* What descriptors refer to after a step is opened then.
LEMMA RefersThen == (TypeOK /\ CountsExact)' => RefersOpened'
  BY RefersToOpened, PTL

\* closeFile: the pipes that nobody has open any more go.
LEMMA CloseFilesTree ==
    ASSUME TypeOK, TInv, (TypeOK /\ CountsExact)', NEW p, NEW F, CloseFiles(p, F),
           \A q \in Process : cwd'[q] \in {cwd[q], root},
           \A q \in Process : \A f \in Fd : fd_table'[q][f] \in {None, fd_table[q][f]}
    PROVE  TInv'
  <1> DEFINE gone == Pipes(opened') \ Pipes(opened)
  <1>1. Free(gone)
    BY DEF CloseFiles
  <1>2. \A m \in gone : m \in Node /\ kind[m] = "buffer" /\ opened'[m] = NotOpened
    BY DEF Pipes
  <1> HIDE DEF gone
  <1>3. root \notin gone /\ gone \in SUBSET Node
    BY <1>2 DEF TInv, Tree, Rooted
  <1>4. ASSUME NEW m \in gone, NEW i \in 1 .. Len(list[m])
        PROVE  list[m][i] \in gone
    <2>1. m \in Node /\ i \in DOMAIN list[m]
      BY <1>2, <1>4 DEF TypeOK
    <2>2. kind[m] = "dir"
      BY <2>1 DEF TInv, Tree, TreeExact
    <2>3. QED
      BY <1>2, <2>2
  <1>5. cwd' \in [Process -> Node]
    BY DEF TypeOK
  <1>6. ASSUME NEW q \in Process
        PROVE  cwd'[q] \notin gone /\ kind[cwd'[q]] = "dir"
    <2>1. kind[cwd'[q]] = "dir"
      BY DEF TInv, Tree, Rooted, Used
    <2>2. QED
      BY <1>2, <2>1
  <1>7. ASSUME NEW q \in Process, NEW f \in Fd, fd_table'[q][f] # None
        PROVE  /\ fd_table'[q][f].file \in Node \ gone
               /\ kind[fd_table'[q][f].file] \notin {"free", "dir"}
    <2>1. fd_table'[q][f] = fd_table[q][f]
      BY <1>7
    <2>2. kind[fd_table'[q][f].file] \notin {"free", "dir"}
      BY <1>7, <2>1 DEF TInv, Used
    <2>3. fd_table'[q][f].file \in Node /\ opened'[fd_table'[q][f].file] # NotOpened
      BY <1>7, RefersThen DEF RefersOpened
    <2>4. QED
      BY <1>2, <2>2, <2>3
  <1>8. QED
    BY <1>1, <1>3, <1>4, <1>5, <1>6, <1>7, GoneTree

\* openUnnamedPipe: the new file is in no directory.
LEMMA OpenUnnamedPipeTree ==
    ASSUME TypeOK, TInv, NEW p \in Process, OpenUnnamedPipe(p)
    PROVE  TInv'
  <1> DEFINE d(n) == [file |-> n, mode |-> "r", cursor |-> 0]
             e(n) == [file |-> n, mode |-> "w", cursor |-> 0]
  <1>1. PICK n \in Node, f \in Fd, g \in Fd :
            /\ Unused(n) /\ kind' = [kind EXCEPT ![n] = "buffer"]
            /\ fd_table' = [fd_table EXCEPT ![p][f] = d(n), ![p][g] = e(n)]
            /\ UNCHANGED <<name, directory, list, cwd>>
    BY DEF OpenUnnamedPipe
  <1>2. kind[n] = "free" /\ n # root
    BY <1>1 DEF Unused, TInv, Tree, Rooted
  <1>3. kind'[n] = "buffer" /\ \A m \in Node \ {n} : kind'[m] = kind[m]
    BY <1>1 DEF TypeOK
  <1>4. ASSUME NEW m \in Node, NEW i \in DOMAIN list[m]
        PROVE  m # n /\ list[m][i] # n /\ list[m][i] \in Node
    <2>1. list[m] \in Seq(Node) /\ list[m][i] \in Node
      BY DEF TypeOK
    <2>2. kind[m] = "dir" /\ kind[list[m][i]] # "free"
      BY DEF TInv, Tree, TreeExact
    <2>3. QED
      BY <1>2, <2>1, <2>2
  <1>5. name' = name /\ directory' = directory /\ list' = list
    BY <1>1
  <1>6. TreeExact'
    <2>1. ASSUME NEW m \in Node, NEW i \in DOMAIN list[m]
          PROVE  /\ kind'[m] = "dir" /\ kind'[list[m][i]] # "free" /\ directory[list[m][i]] = m
                 /\ i > 1 => Before(name[list[m][i - 1]], name[list[m][i]])
      <3>1. kind'[m] = kind[m] /\ kind'[list[m][i]] = kind[list[m][i]]
        BY <1>3, <1>4
      <3>2. QED
        BY <3>1 DEF TInv, Tree, TreeExact
    <2>2. \A m \in InTree \ {root} : Contains(list[directory[m]], m)
      BY DEF TInv, Tree, TreeExact
    <2>3. QED
      BY <1>5, <2>1, <2>2 DEF TreeExact, InTree
  <1>7. Rooted'
    <2>1. root \in Node
      BY FileTreeAssumption
    <2>2. kind'[root] = "dir" /\ directory[root] = Null
      BY <1>2, <1>3, <2>1 DEF TInv, Tree, Rooted
    <2>3. ASSUME NEW m \in Node \ {root}
          PROVE  IF directory[m] = Null THEN kind'[m] \in {"free", "buffer"} ELSE name[m] \in ToSet(Names)
      <3>1. IF directory[m] = Null THEN kind[m] \in {"free", "buffer"} ELSE name[m] \in ToSet(Names)
        BY DEF TInv, Tree, Rooted
      <3>2. QED
        BY <1>3, <3>1
    <2>4. QED
      BY <1>5, <2>2, <2>3 DEF Rooted
  <1>8. Acyclic'
    BY <1>5 DEF TInv, Tree, Acyclic, Ranks
  <1>9. Tree'
    BY <1>5, <1>6, <1>7, <1>8 DEF TInv, Tree
  <1>10. Used'
    <2>1. ASSUME NEW q \in Process
          PROVE  kind'[cwd'[q]] = "dir"
      <3>1. cwd[q] \in Node /\ kind[cwd[q]] = "dir" /\ cwd'[q] = cwd[q]
        BY <1>1 DEF TInv, Used, TypeOK
      <3>2. QED
        BY <1>2, <1>3, <3>1
    <2>2. ASSUME NEW q \in Process, NEW h \in Fd, fd_table'[q][h] # None
          PROVE  kind'[fd_table'[q][h].file] \notin {"free", "dir"}
      <3>1. fd_table'[q][h] \in {d(n), e(n), fd_table[q][h]}
        BY <1>1 DEF TypeOK
      <3>2. CASE fd_table'[q][h] \in {d(n), e(n)}
        BY <1>3, <3>2
      <3>3. CASE fd_table'[q][h] = fd_table[q][h]
        <4>1. fd_table[q][h].file \in Node /\ kind[fd_table[q][h].file] \notin {"free", "dir"}
          BY <2>2, <3>3 DEF TInv, Used, TypeOK, Descriptor
        <4>2. QED
          BY <1>2, <1>3, <3>3, <4>1
      <3>4. QED
        BY <3>1, <3>2, <3>3
    <2>3. QED
      BY <2>1, <2>2 DEF Used
  <1>11. QED
    BY <1>9, <1>10 DEF TInv

\* openFile, in a descriptor.
LEMMA OpenTree ==
    ASSUME TypeOK, TInv, NEW p \in Process, NEW f \in Fd, NEW n, NEW m, OpenFile(p, f, n, m),
           n # Null => kind[n] # "free", UNCHANGED <<tree, cwd>>
    PROVE  TInv'
  <1>1. fd_table' = [fd_table EXCEPT ![p][f] = [file |-> n, mode |-> m, cursor |-> 0]]
    BY DEF OpenFile
  <1>2. kind[n] \notin {"free", "dir"}
    BY DEF OpenFile
  <1>3. ASSUME NEW q \in Process, NEW g \in Fd, fd_table'[q][g] # None
        PROVE  kind[fd_table'[q][g].file] \notin {"free", "dir"}
    <2>1. CASE q = p /\ g = f
      <3>1. fd_table'[q][g].file = n
        BY <1>1, <2>1 DEF TypeOK
      <3>2. QED
        BY <1>2, <3>1
    <2>2. CASE ~ (q = p /\ g = f)
      <3>1. fd_table'[q][g] = fd_table[q][g]
        BY <1>1, <2>2 DEF TypeOK
      <3>2. QED
        BY <1>3, <3>1 DEF TInv, Used
    <2>3. QED
      BY <2>1, <2>2
  <1>4. \A q \in Process : kind[cwd'[q]] = "dir"
    BY DEF TInv, Used
  <1>5. QED
    BY <1>3, <1>4, NoTreeStep

\* createProcess: it begins in the root, with clones or /dev/stdin.
LEMMA CreateProcessTree ==
    ASSUME TypeOK, TInv, NEW p \in Process, NEW q \in Process,
           NEW from \in {<<>>} \cup [{0, 1} \cap Fd -> Fd], CreateProcess(p, q, from)
    PROVE  TInv'
  <1> DEFINE clone == [g \in Fd |-> IF g \in DOMAIN from /\ fd_table[p][from[g]] # None
                                    THEN [fd_table[p][from[g]] EXCEPT !.cursor = 0] ELSE None]
             path == [absolute |-> TRUE, names |-> <<"dev", "stdin">>]
             in == GetFile(p, path)
             opens == clone[0] = None /\ in # Null /\ kind[in] # "dir"
             table == IF opens THEN [clone EXCEPT ![0] = [file |-> in, mode |-> "rw", cursor |-> 0]]
                      ELSE clone
  <1>1. /\ fd_table' = [fd_table EXCEPT ![q] = table]
        /\ cwd' = [cwd EXCEPT ![q] = root] /\ UNCHANGED tree
    BY DEF CreateProcess
  <1>2. ASSUME NEW g \in Fd, clone[g] # None
        PROVE  kind[clone[g].file] \notin {"free", "dir"}
    <2>1. g \in DOMAIN from /\ fd_table[p][from[g]] # None
      BY <1>2
    <2>2. from[g] \in Fd
      BY <2>1
    <2>3. fd_table[p][from[g]] \in [file : Node, mode : Mode, cursor : 0 .. MaxData]
      BY <2>1, <2>2 DEF TypeOK, Descriptor
    <2>4. clone[g].file = fd_table[p][from[g]].file
      BY <2>1, <2>3
    <2>5. kind[fd_table[p][from[g]].file] \notin {"free", "dir"}
      BY <2>1, <2>2 DEF TInv, Used
    <2>6. QED
      BY <2>4, <2>5
  <1>3. in # Null => kind[in] # "free"
    <2>1. Len(path.names) = 2
      OBVIOUS
    <2>2. Tree /\ Used /\ 2 \in Nat \ {0}
      BY DEF TInv
    <2> HIDE DEF path
    <2>3. QED
      BY <2>1, <2>2, GetFileIs
  <1>4. DOMAIN clone = Fd
    OBVIOUS
  <1> HIDE DEF clone, in, path
  <1>5. ASSUME NEW g \in Fd, table[g] # None
        PROVE  kind[table[g].file] \notin {"free", "dir"}
    <2>1. CASE opens /\ g = 0
      <3>1. table[g] = [file |-> in, mode |-> "rw", cursor |-> 0]
        BY <1>4, <2>1
      <3>2. QED
        BY <1>3, <2>1, <3>1
    <2>2. CASE ~ (opens /\ g = 0)
      <3>1. table[g] = clone[g]
        BY <1>4, <2>2
      <3>2. QED
        BY <1>2, <1>5, <3>1
    <2>3. QED
      BY <2>1, <2>2
  <1> HIDE DEF table
  <1>6. ASSUME NEW r \in Process, NEW g \in Fd, fd_table'[r][g] # None
        PROVE  kind[fd_table'[r][g].file] \notin {"free", "dir"}
    <2>1. CASE r = q
      BY <1>1, <1>5, <1>6, <2>1 DEF TypeOK
    <2>2. CASE r # q
      <3>1. fd_table'[r] = fd_table[r]
        BY <1>1, <2>2 DEF TypeOK
      <3>2. QED
        BY <1>6, <3>1 DEF TInv, Used
    <2>3. QED
      BY <2>1, <2>2
  <1>7. \A r \in Process : kind[cwd'[r]] = "dir"
    BY <1>1 DEF TInv, Tree, Rooted, Used, TypeOK
  <1>8. QED
    BY <1>1, <1>6, <1>7, NoTreeStep

\* A call that moves no process and leaves files and descriptors as they are.
LEMMA NothingTree ==
    ASSUME TInv, UNCHANGED <<tree, cwd>>,
           \A q \in Process : \A g \in Fd : fd_table'[q][g] # None =>
                fd_table[q][g] # None /\ fd_table'[q][g].file = fd_table[q][g].file
    PROVE  TInv'
  <1>1. \A p \in Process : kind[cwd'[p]] = "dir"
    BY DEF TInv, Used
  <1>2. ASSUME NEW p \in Process, NEW f \in Fd, fd_table'[p][f] # None
        PROVE  kind[fd_table'[p][f].file] \notin {"free", "dir"}
    BY <1>2 DEF TInv, Used
  <1>3. QED
    BY <1>1, <1>2, NoTreeStep

-----------------------------------------------------------------------------
\* The last component of a path that calls use is one that processes know.
LEMMA PathLast ==
    /\ \A path \in Path \cup DirPath : Last(path.names) \in Component
    /\ \A c \in ShmName : Last(Shm(c).names) \in Component
  <1>1. ASSUME NEW path \in Path \cup DirPath
        PROVE  Last(path.names) \in Component
    <2>1. path.names \in Seq(Component) /\ path.names # <<>>
      BY FileSystemAssumption
    <2>2. QED
      BY <2>1 DEF Last
  <1>2. ASSUME NEW c \in ShmName
        PROVE  Last(Shm(c).names) \in Component
    <2>1. c \in Component
      BY FileSystemAssumption
    <2>2. Last(Shm(c).names) = c
      BY DEF Shm, Last
    <2>3. QED
      BY <2>1, <2>2
  <1>3. QED
    BY <1>1, <1>2

\* What a process finds under a path that it may use is a file.
LEMMA Found ==
    ASSUME TypeOK, TInv, NEW p \in Process, NEW path, Len(path.names) \in Nat \ {0}
    PROVE  GetFile(p, path) # Null =>
              GetFile(p, path) \in Node /\ GetFile(p, path) \in InTree /\ kind[GetFile(p, path)] # "free"
  <1>1. Tree /\ Used
    BY DEF TInv
  <1>2. QED
    BY <1>1, GetFileIs

\* openFileToFD of a file.
LEMMA OpenToFdTree ==
    ASSUME TypeOK, TInv, NEW p \in Process, NEW n, NEW m, OpenToFd(p, n, m),
           n # Null => kind[n] # "free"
    PROVE  TInv'
  <1>1. PICK f \in Fd : OpenFile(p, f, n, m)
    BY DEF OpenToFd
  <1>2. UNCHANGED <<tree, cwd>>
    BY DEF OpenToFd
  <1>3. QED
    BY <1>1, <1>2, OpenTree

\* The calls about paths.
LEMMA TreeCallTree ==
    ASSUME IInv, TInv, ~ MayRemoveCwd, NEW p \in Process, TreeCall(p)
    PROVE  TInv'
  <1>0. TypeOK /\ CountsExact
    BY DEF IInv
  <1>1. ASSUME NEW path \in DirPath, ChangeCWD(p, path), UNCHANGED <<alive, fd_table, asleep>>
        PROVE  TInv'
    <2> DEFINE n == GetFile(p, path)
    <2>1. kind[n] = "dir" /\ cwd' = [cwd EXCEPT ![p] = n] /\ UNCHANGED tree
      BY <1>1 DEF ChangeCWD
    <2> HIDE DEF n
    <2>2. \A q \in Process : kind[cwd'[q]] = "dir"
      BY <1>0, <2>1 DEF TypeOK, TInv, Used
    <2>3. fd_table' = fd_table
      BY <1>1
    <2>4. \A q \in Process : \A f \in Fd :
              fd_table'[q][f] # None => kind[fd_table'[q][f].file] \notin {"free", "dir"}
      BY <2>3 DEF TInv, Used
    <2>5. QED
      BY <2>1, <2>2, <2>4, NoTreeStep
  <1>2. ASSUME NEW path \in Path, NEW k \in Kind, NEW value, MakeFile(p, path, k, value),
               UNCHANGED <<alive, fd_table, asleep>>
        PROVE  TInv'
    <2>1. Len(path.names) \in Nat \ {0} /\ Last(path.names) \in Component
      BY PathLen, PathLast
    <2>2. fd_table' = fd_table
      BY <1>2
    <2>3. QED
      BY <1>0, <1>2, <2>1, <2>2, MakeFileTree
  <1>3. ASSUME NEW path \in Path, ExecCreate(p, path)
        PROVE  TInv'
    <2>1. CASE MakeFile(p, path, "exec", 1)
      BY <1>2, <1>3, <2>1 DEF ExecCreate, Kind
    <2>2. CASE UNCHANGED <<tree, opened, cwd>>
      BY <1>3, <2>2, NothingTree DEF ExecCreate
    <2>3. QED
      BY <1>3, <2>1, <2>2 DEF ExecCreate
  <1>4. ASSUME NEW path \in Path, RemoveFile(GetFile(p, path)), UNCHANGED <<alive, fd_table, asleep>>
        PROVE  TInv'
    <2>1. GetFile(p, path) # Null => GetFile(p, path) \in Node
      BY <1>0, PathLen, Found
    <2>2. fd_table' = fd_table
      BY <1>4
    <2>3. QED
      BY <1>0, <1>4, <2>1, <2>2, RemoveFileTree
  <1>5. ASSUME NEW path \in Path, NEW m \in OpenMode, OpenToFd(p, GetFile(p, path), m)
        PROVE  TInv'
    <2>1. GetFile(p, path) # Null => kind[GetFile(p, path)] # "free"
      BY <1>0, PathLen, Found
    <2>2. QED
      BY <1>0, <1>5, <2>1, OpenToFdTree
  <1>6. "dir" \in Kind /\ "regular" \in Kind
    BY DEF Kind
  <1>7. QED
    BY <1>1, <1>2, <1>3, <1>4, <1>5, <1>6 DEF TreeCall

\* The calls about the names of semaphores and mutexes.
LEMMA ShmCallTree ==
    ASSUME IInv, TInv, ~ MayRemoveCwd, NEW p \in Process, ShmCall(p)
    PROVE  TInv'
  <1>0. TypeOK /\ CountsExact
    BY DEF IInv
  <1>1. PICK c \in ShmName : \/ SemCreate(p, c, 0) \/ MutexCreate(p, c) \/ SemDelete(p, c)
                             \/ MutexDelete(p, c) \/ SemOpen(p, c) \/ MutexOpen(p, c)
    BY DEF ShmCall
  <1> DEFINE n == GetFile(p, Shm(c))
  <1>2. Len(Shm(c).names) \in Nat \ {0} /\ Last(Shm(c).names) \in Component
    BY PathLen, PathLast
  <1>3. n # Null => n \in Node /\ kind[n] # "free"
    BY <1>0, <1>2, Found
  <1>4. CASE SemCreate(p, c, 0) \/ MutexCreate(p, c)
    <2>1. PICK k \in Kind : \E value : MakeFile(p, Shm(c), k, value)
      BY <1>4 DEF SemCreate, MutexCreate, Kind
    <2>2. PICK value : MakeFile(p, Shm(c), k, value)
      BY <2>1
    <2>3. fd_table' = fd_table
      BY <1>4 DEF SemCreate, MutexCreate
    <2>4. QED
      BY <1>0, <1>2, <2>2, <2>3, MakeFileTree
  <1>5. CASE SemDelete(p, c) \/ MutexDelete(p, c)
    <2>1. RemoveFile(n) /\ fd_table' = fd_table
      BY <1>5 DEF SemDelete, MutexDelete, ShmDelete
    <2> HIDE DEF n
    <2>2. QED
      BY <1>0, <1>3, <2>1, RemoveFileTree
  <1>6. CASE SemOpen(p, c) \/ MutexOpen(p, c)
    <2>1. OpenToFd(p, n, "rw")
      BY <1>6 DEF SemOpen, MutexOpen, ShmOpen
    <2> HIDE DEF n
    <2>2. QED
      BY <1>0, <1>3, <2>1, OpenToFdTree
  <1>7. QED
    BY <1>1, <1>4, <1>5, <1>6

\* One descriptor is closed.
LEMMA CloseOneTree ==
    ASSUME TypeOK, TInv, (TypeOK /\ CountsExact)', NEW p \in Process, NEW f \in Fd, CloseOne(p, f)
    PROVE  TInv'
  <1>1. CloseFiles(p, {f}) /\ fd_table' = [fd_table EXCEPT ![p][f] = None] /\ cwd' = cwd
    BY DEF CloseOne
  <1>2. \A q \in Process : \A g \in Fd : fd_table'[q][g] \in {None, fd_table[q][g]}
    BY <1>1 DEF TypeOK
  <1>3. \A q \in Process : cwd'[q] \in {cwd[q], root}
    BY <1>1
  <1>4. QED
    BY <1>1, <1>2, <1>3, CloseFilesTree

\* The calls about descriptors.
LEMMA FdCallTree ==
    ASSUME IInv, TInv, (TypeOK /\ CountsExact)', NEW p \in Process, FdCall(p)
    PROVE  TInv'
  <1>0. TypeOK
    BY DEF IInv
  <1>1. CASE OpenUnnamedPipe(p)
    BY <1>0, <1>1, OpenUnnamedPipeTree
  <1>2. ASSUME NEW f \in Fd, Close(p, f)
        PROVE  TInv'
    BY <1>0, <1>2, CloseOneTree DEF Close
  <1>3. ASSUME NEW f \in Fd, WriteFile(p, f, 1)
        PROVE  TInv'
    BY <1>3, NothingTree DEF WriteFile
  <1>4. ASSUME NEW f \in Fd, ReadFile(p, f, 1)
        PROVE  TInv'
    <2> DEFINE d == fd_table[p][f]
    <2>1. /\ d # None /\ UNCHANGED <<tree, cwd>>
          /\ \E k : fd_table' = [fd_table EXCEPT ![p][f].cursor = k]
      BY <1>4 DEF ReadFile
    <2>2. PICK k : fd_table' = [fd_table EXCEPT ![p][f].cursor = k]
      BY <2>1
    <2>3. d \in [file : Node, mode : Mode, cursor : 0 .. MaxData]
      BY <1>0, <2>1 DEF TypeOK, Descriptor
    <2>4. fd_table'[p][f].file = d.file
      BY <1>0, <2>2, <2>3 DEF TypeOK
    <2>5. \A q \in Process : \A g \in Fd : <<q, g>> # <<p, f>> => fd_table'[q][g] = fd_table[q][g]
      BY <1>0, <2>2 DEF TypeOK
    <2>6. \A q \in Process : \A g \in Fd : fd_table'[q][g] # None =>
              fd_table[q][g] # None /\ fd_table'[q][g].file = fd_table[q][g].file
      BY <2>1, <2>4, <2>5
    <2>7. QED
      BY <2>1, <2>6, NothingTree
  <1>5. ASSUME NEW f \in Fd, NEW g \in Fd, Dup2(p, f, g)
        PROVE  TInv'
    <2> DEFINE n == fd_table[p][f].file
    <2>1. /\ fd_table[p][f] # None /\ OpenFile(p, g, n, fd_table[p][f].mode)
          /\ UNCHANGED <<tree, cwd>>
      BY <1>5 DEF Dup2, CloneFD
    <2>2. kind[n] # "free"
      BY <2>1 DEF TInv, Used
    <2> HIDE DEF n
    <2>3. QED
      BY <1>0, <2>1, <2>2, OpenTree
  <1>6. ASSUME NEW f \in Fd, \/ SemSet(p, f) \/ SemSignal(p, f) \/ SemWait(p, f)
                             \/ MutexLock(p, f) \/ MutexUnlock(p, f)
        PROVE  TInv'
    <2>1. UNCHANGED <<tree, opened, cwd, alive, fd_table>>
      BY <1>6 DEF SemSet, SemSignal, SemWait, MutexLock, MutexUnlock
    <2>2. QED
      BY <2>1, NothingTree
  <1>7. QED
    BY <1>1, <1>2, <1>3, <1>4, <1>5, <1>6 DEF FdCall

\* Every step keeps the tree, as long as nobody's directory is removed.
TreeStepKeeps == ~ MayRemoveCwd /\ IInv /\ TInv /\ [Next]_vars
LEMMA TreeKept == TreeStepKeeps /\ (TypeOK /\ CountsExact)' => TInv'
  <1> SUFFICES ASSUME ~ MayRemoveCwd, IInv, TInv, [Next]_vars, (TypeOK /\ CountsExact)'
               PROVE  TInv'
    BY DEF TreeStepKeeps
  <1>0. TypeOK
    BY DEF IInv
  <1>1. ASSUME NEW p \in Process, TreeCall(p) \/ ShmCall(p) \/ FdCall(p)
        PROVE  TInv'
    BY <1>1, TreeCallTree, ShmCallTree, FdCallTree
  <1>2. ASSUME NEW p \in Process, NEW q \in Process, NEW from \in {<<>>} \cup [{0, 1} \cap Fd -> Fd],
               CreateProcess(p, q, from)
        PROVE  TInv'
    BY <1>0, <1>2, CreateProcessTree
  <1>3. ASSUME NEW p \in Process, KillProcess(p)
        PROVE  TInv'
    <2>1. /\ CloseFiles(p, Fd) /\ fd_table' = [fd_table EXCEPT ![p] = [f \in Fd |-> None]]
          /\ cwd' = [cwd EXCEPT ![p] = root]
      BY <1>3 DEF KillProcess
    <2>2. \A q \in Process : \A g \in Fd : fd_table'[q][g] \in {None, fd_table[q][g]}
      BY <1>0, <2>1 DEF TypeOK
    <2>3. \A q \in Process : cwd'[q] \in {cwd[q], root}
      BY <1>0, <2>1 DEF TypeOK
    <2>4. QED
      BY <1>0, <2>1, <2>2, <2>3, CloseFilesTree
  <1>4. ASSUME NEW p \in Process, ShmCloseCall(p)
        PROVE  TInv'
    BY <1>0, <1>4, CloseOneTree DEF ShmCloseCall, SemClose, MutexClose, ShmClose
  <1>5. ASSUME UNCHANGED vars \/ \E p \in Process, f \in Fd : UseStale(p, f)
        PROVE  TInv'
    <2>1. UNCHANGED <<tree, cwd>> /\ fd_table' = fd_table
      BY <1>5 DEF vars, UseStale
    <2>2. QED
      BY <2>1, NothingTree
  <1>6. QED
    BY <1>1, <1>2, <1>3, <1>4, <1>5 DEF Next, Call

\* init_fileSystem makes a tree.
LEMMA TreeInit == Init => TInv
  <1> SUFFICES ASSUME Init PROVE TInv
    OBVIOUS
  <1> DEFINE T == {"TestFile", "dev", "shm", "stdin"}
  <1>1. /\ root \in Node /\ dev \in Node /\ shm \in Node /\ stdin \in Node /\ TestFile \in Node
        /\ Null \notin Node
    BY FileTreeAssumption
  <1>2. /\ root # dev /\ root # shm /\ root # stdin /\ root # TestFile /\ dev # shm /\ dev # stdin
        /\ dev # TestFile /\ shm # stdin /\ shm # TestFile /\ stdin # TestFile
    <2> DEFINE s == <<root, dev, shm, stdin, TestFile>>
    <2>1. IsInjective(s)
      BY FileTreeAssumption
    <2>2. \A i, j \in DOMAIN s : s[i] = s[j] => i = j
      BY <2>1 DEF IsInjective
    <2>3. DOMAIN s = 1 .. 5
      OBVIOUS
    <2>4. \A i, j \in 1 .. 5 : i # j => s[i] # s[j]
      BY <2>2, <2>3
    <2>5. /\ s[1] # s[2] /\ s[1] # s[3] /\ s[1] # s[4] /\ s[1] # s[5] /\ s[2] # s[3]
          /\ s[2] # s[4] /\ s[2] # s[5] /\ s[3] # s[4] /\ s[3] # s[5] /\ s[4] # s[5]
      <3> HIDE DEF s
      <3> QED
        BY <2>4
    <2>6. QED
      BY <2>5
  <1>3. Before("TestFile", "dev") /\ Before("shm", "stdin") /\ T \subseteq ToSet(Names)
    <2>1. Before("TestFile", "dev") /\ Before("shm", "stdin")
      BY FileTreeAssumption
    <2>2. QED
      BY <2>1 DEF Before, ToSet
  <1>4. /\ DOMAIN Files = {root, dev, shm, stdin, TestFile}
        /\ Files[root] = "dir" /\ Files[dev] = "dir" /\ Files[shm] = "dir" /\ Files[stdin] = "buffer"
        /\ Files[TestFile] = "regular"
    BY <1>2 DEF Files
  <1>5. /\ kind[root] = "dir" /\ kind[dev] = "dir" /\ kind[shm] = "dir" /\ kind[stdin] = "buffer"
        /\ kind[TestFile] = "regular"
        /\ \A n \in Node \ {root, dev, shm, stdin, TestFile} : kind[n] = "free"
    BY <1>1, <1>4 DEF Init, InitTree
  <1>6. /\ name = [n \in Node |-> CASE n = dev -> "dev" [] n = shm -> "shm" [] n = stdin -> "stdin"
                                  [] n = TestFile -> "TestFile" [] OTHER -> Null]
        /\ name[dev] = "dev" /\ name[shm] = "shm" /\ name[stdin] = "stdin"
        /\ name[TestFile] = "TestFile"
    BY <1>1, <1>2 DEF Init, InitTree
  <1>7. /\ directory[dev] = root /\ directory[TestFile] = root /\ directory[shm] = dev
        /\ directory[stdin] = dev
        /\ \A n \in Node \ {dev, shm, stdin, TestFile} : directory[n] = Null
    BY <1>1, <1>2 DEF Init, InitTree
  <1>8. /\ list[root] = <<TestFile, dev>> /\ list[dev] = <<shm, stdin>>
        /\ \A n \in Node \ {root, dev} : DOMAIN list[n] = {}
    <2>1. /\ list[root] = <<TestFile, dev>> /\ list[dev] = <<shm, stdin>>
          /\ \A n \in Node \ {root, dev} : list[n] = <<>>
      BY <1>1, <1>2 DEF Init, InitTree
    <2>2. DOMAIN <<>> = {}
      OBVIOUS
    <2>3. QED
      BY <2>1, <2>2
  <1>9. ASSUME NEW d \in Node, NEW i \in DOMAIN list[d]
        PROVE  \/ d = root /\ i = 1 /\ list[d][i] = TestFile
               \/ d = root /\ i = 2 /\ list[d][i] = dev /\ list[d][i - 1] = TestFile
               \/ d = dev /\ i = 1 /\ list[d][i] = shm
               \/ d = dev /\ i = 2 /\ list[d][i] = stdin /\ list[d][i - 1] = shm
    <2>1. d \in {root, dev}
      BY <1>8
    <2>2. \A x, y : DOMAIN <<x, y>> = 1 .. 2 /\ <<x, y>>[1] = x /\ <<x, y>>[2] = y
      OBVIOUS
    <2>3. i \in 1 .. 2
      BY <1>8, <2>1, <2>2
    <2>4. i = 1 \/ i = 2
      BY <2>3
    <2>5. QED
      BY <1>8, <2>1, <2>2, <2>4
  <1>10. TreeExact
    <2>1. ASSUME NEW d \in Node, NEW i \in DOMAIN list[d]
          PROVE  /\ kind[d] = "dir" /\ kind[list[d][i]] # "free" /\ directory[list[d][i]] = d
                 /\ i > 1 => Before(name[list[d][i - 1]], name[list[d][i]])
      BY <1>3, <1>5, <1>6, <1>7, <1>9
    <2>2. ASSUME NEW n \in Node, n # root, directory[n] # Null
          PROVE  Contains(list[directory[n]], n)
      <3>1. n \in {dev, shm, stdin, TestFile}
        BY <1>7, <2>2
      <3>2. \A x, y : Contains(<<x, y>>, x) /\ Contains(<<x, y>>, y)
        <4>1. \A x, y : Len(<<x, y>>) = 2 /\ <<x, y>>[1] = x /\ <<x, y>>[2] = y
          OBVIOUS
        <4>2. 1 \in 1 .. 2 /\ 2 \in 1 .. 2
          OBVIOUS
        <4>3. QED
          BY <4>1, <4>2 DEF Contains
      <3>3. QED
        BY <1>7, <1>8, <3>1, <3>2
    <2>3. QED
      BY <2>1, <2>2 DEF TreeExact, InTree
  <1>11. Rooted
    <2>1. \A n \in Node \ {root, dev, shm, stdin, TestFile} : directory[n] = Null
      BY <1>7
    <2>2. \A n \in {dev, shm, stdin, TestFile} : directory[n] # Null /\ name[n] \in T
      BY <1>1, <1>6, <1>7
    <2>3. directory[root] = Null
      BY <1>1, <1>2, <1>7
    <2> HIDE DEF T
    <2>4. QED
      BY <1>3, <1>5, <2>1, <2>2, <2>3 DEF Rooted
  <1>12. Acyclic
    <2> DEFINE rank == [n \in Node |-> IF n = root THEN 2 ELSE IF n = dev THEN 1 ELSE 0]
    <2>1. rank \in [Node -> 0 .. 2]
      OBVIOUS
    <2>2. rank[root] = 2 /\ rank[dev] = 1 /\ rank[shm] = 0 /\ rank[stdin] = 0 /\ rank[TestFile] = 0
      BY <1>1, <1>2
    <2> HIDE DEF rank
    <2>3. \A d \in Node : \A i \in DOMAIN list[d] : rank[list[d][i]] < rank[d]
      BY <1>9, <2>2
    <2>4. 2 \in Nat
      OBVIOUS
    <2>5. QED
      BY <2>1, <2>3, <2>4 DEF Acyclic, Ranks
  <1>13. name \in [Node -> ToSet(Names) \cup {Null}]
    <2>1. \A n \in Node : name[n] \in T \cup {Null}
      BY <1>6
    <2>2. QED
      BY <1>3, <1>6, <2>1
  <1>14. Used
    <2>1. \A p \in Process : kind[cwd[p]] = "dir"
      BY <1>5 DEF Init, InitTree
    <2>2. \A p \in Process : \A f \in Fd : fd_table[p][f] \in {None, InitDescriptor}
      BY DEF Init
    <2>3. InitDescriptor.file = stdin
      BY DEF InitDescriptor
    <2>4. QED
      BY <1>5, <2>1, <2>2, <2>3 DEF Used
  <1>15. QED
    BY <1>10, <1>11, <1>12, <1>13, <1>14 DEF TInv, Tree

\* A state of the file system.
Whole == IInv /\ TInv

\* The tree is kept in every state.
LEMMA TreeInvariance == ~ MayRemoveCwd /\ Spec => []Whole
  <1>1. ASSUME ~ MayRemoveCwd
        PROVE  Spec => []Whole
    <2>1. IInv' => (TypeOK /\ CountsExact)'
      BY DEF IInv
    <2>2. Whole /\ [Next]_vars => Whole'
      BY <1>1, <2>1, Step, TreeKept DEF TreeStepKeeps, Whole
    <2>3. Init => Whole
      BY InitInvariant, TreeInit DEF Whole
    <2>4. QED
      BY <2>2, <2>3, PTL DEF Spec
  <1>2. QED
    BY <1>1

\* The tree is one, in the order of the names, whatever is made, removed, opened and
\* closed, and files go with what is in them: as long as rm is not called on a
\* process's current directory.
THEOREM FilesRight == ~ MayRemoveCwd /\ Spec => []FilesExact
  <1>1. Whole /\ StaleOK => FilesExact
    BY DEF Whole, IInv, TInv, Tree, FilesExact
  <1>2. QED
    BY <1>1, TreeInvariance, StaleInvariance, PTL

\* What is opened is a file that some descriptor refers to.
LEMMA OpenedAre == IInv /\ TInv => OpenedFiles
  <1> SUFFICES ASSUME IInv, TInv
               PROVE  OpenedFiles
    OBVIOUS
  <1>1. ASSUME NEW n \in Opened
        PROVE  kind[n] \notin {"free", "dir"}
    <2> DEFINE R(modes) == Refs(fd_table, Process \X Fd, n, modes)
    <2>1. n \in Node /\ opened[n] # NotOpened
      BY DEF Opened
    <2>2. opened[n] = [readers |-> Cardinality(R(Reading)), writers |-> Cardinality(R(Writing))]
      BY <2>1 DEF IInv, CountsExact
    <2>3. R(Reading) # {} \/ R(Writing) # {}
      <3>1. Cardinality({}) = 0
        BY FS_EmptySet
      <3>2. QED
        BY <2>1, <2>2, <3>1 DEF NotOpened
    <2>4. PICK x \in Process \X Fd : fd_table[x[1]][x[2]].file = n
      BY <2>3 DEF Refs
    <2>5. x[1] \in Process /\ x[2] \in Fd
      OBVIOUS
    <2>6. fd_table[x[1]][x[2]] # None
      <3>1. None.file \notin Node
        BY FileTreeAssumption DEF None
      <3>2. QED
        BY <2>1, <2>4, <3>1
    <2>7. QED
      BY <2>4, <2>5, <2>6 DEF TInv, Used
  <1>2. QED
    BY <1>1 DEF OpenedFiles

\* What is opened is a file that some descriptor refers to, and its counts are those of
\* its descriptors, until one is used that semClose or mutexClose closed.
THEOREM OpenedRight == ~ MayRemoveCwd /\ Spec => []OpenedExact
  <1>1. Whole => OpenedExact
    BY OpenedAre DEF Whole, IInv, OpenedExact
  <1>2. QED
    BY <1>1, TreeInvariance, PTL

-----------------------------------------------------------------------------
\* The depth of files grows from a directory to what is in it.
Depths(k, depth) ==
    /\ depth \in [InTree -> 0 .. k]
    /\ \A n \in InTree \ {root} : directory[n] \in InTree /\ depth[directory[n]] < depth[n]

\* No file is above itself.
LEMMA DepthsExist ==
    ASSUME TypeOK, Tree
    PROVE  \E k \in Nat : \E depth : Depths(k, depth)
  <1>1. PICK k \in Nat : \E rank : Ranks(k, rank)
    BY DEF Tree, Acyclic
  <1>2. PICK rank : Ranks(k, rank)
    BY <1>1
  <1> DEFINE depth == [n \in InTree |-> k - rank[n]]
  <1>3. ASSUME NEW n \in InTree
        PROVE  rank[n] \in 0 .. k /\ depth[n] = k - rank[n]
    BY <1>2 DEF Ranks, InTree
  <1>4. depth \in [InTree -> 0 .. k]
    <2>1. \A n \in InTree : k - rank[n] \in 0 .. k
      BY <1>3
    <2>2. QED
      BY <2>1
  <1>5. ASSUME NEW n \in InTree \ {root}
        PROVE  directory[n] \in InTree /\ depth[directory[n]] < depth[n]
    <2>1. directory[n] \in InTree
      BY InTreeIs
    <2>2. PICK i \in DOMAIN list[directory[n]] : list[directory[n]][i] = n
      BY InTreeIs
    <2>3. rank[n] < rank[directory[n]]
      BY <1>2, <2>1, <2>2 DEF Ranks, InTree
    <2>4. /\ rank[n] \in 0 .. k /\ rank[directory[n]] \in 0 .. k
          /\ depth[n] = k - rank[n] /\ depth[directory[n]] = k - rank[directory[n]]
      BY <1>3, <2>1
    <2> HIDE DEF depth
    <2>5. QED
      BY <2>1, <2>3, <2>4
  <1> HIDE DEF depth
  <1>6. Depths(k, depth)
    BY <1>4, <1>5 DEF Depths
  <1>7. QED
    BY <1>6

\* Induction from the root down.
LEMMA Downward ==
    ASSUME TypeOK, Tree, NEW T, root \in T, \A n \in InTree \ {root} : directory[n] \in T => n \in T
    PROVE  InTree \subseteq T
  <1>1. PICK k \in Nat : \E depth : Depths(k, depth)
    BY DepthsExist
  <1>2. PICK depth : Depths(k, depth)
    BY <1>1
  <1> DEFINE J == {j \in 0 .. k + 1 : \A n \in InTree : depth[n] < j => n \in T}
  <1>3. ASSUME NEW n \in InTree
        PROVE  depth[n] \in 0 .. k
    BY <1>2 DEF Depths
  <1>4. 0 \in J
    BY <1>3
  <1>5. ASSUME NEW j \in 1 .. k + 1, j - 1 \in J
        PROVE  j \in J
    <2>1. ASSUME NEW n \in InTree, depth[n] < j
          PROVE  n \in T
      <3>1. CASE n = root
        BY <3>1
      <3>2. CASE n # root
        <4>1. directory[n] \in InTree /\ depth[directory[n]] < depth[n]
          BY <1>2, <3>2 DEF Depths
        <4>2. depth[directory[n]] \in 0 .. k /\ depth[n] \in 0 .. k
          BY <1>3, <4>1
        <4>3. depth[directory[n]] < j - 1
          BY <2>1, <4>1, <4>2
        <4>4. directory[n] \in T
          BY <1>5, <4>1, <4>3
        <4>5. QED
          BY <3>2, <4>4
      <3>3. QED
        BY <3>1, <3>2
    <2>2. QED
      BY <2>1
  <1>6. k + 1 \in J
    <2> HIDE DEF J
    <2>1. k + 1 \in Nat
      OBVIOUS
    <2>2. \A j \in 0 .. k + 1 : j \in J
      BY <1>4, <1>5, <2>1, Induct
    <2>3. QED
      BY <2>1, <2>2
  <1>7. QED
    BY <1>3, <1>6

\* What getCWDPath writes is what its way up from the file says.
LEMMA PathOfIs ==
    ASSUME TypeOK, Tree
    PROVE  /\ PathOf[root] = <<>>
           /\ \A n \in InTree \ {root} : PathOf[n] = Append(PathOf[directory[n]], name[n])
  <1>1. PICK k \in Nat : \E depth : Depths(k, depth)
    BY DepthsExist
  <1>2. PICK depth : Depths(k, depth)
    BY <1>1
  <1> DEFINE U == Seq(ToSet(Names))
             E(f, n) == IF n = root THEN <<>> ELSE Append(f[directory[n]], name[n])
             Is(f) == f = [n \in InTree |-> E(f, n)]
             Upto(f, j) == \A n \in InTree : depth[n] < j => f[n] = E(f, n)
             T == {j \in 0 .. k + 1 : \E f \in [InTree -> U] : Upto(f, j)}
  <1>3. ASSUME NEW n \in InTree
        PROVE  depth[n] \in 0 .. k
    BY <1>2 DEF Depths
  <1>4. ASSUME NEW n \in InTree \ {root}
        PROVE  /\ directory[n] \in InTree /\ depth[directory[n]] < depth[n]
               /\ name[n] \in ToSet(Names)
    BY <1>2, InTreeIs DEF Depths
  <1>5. 0 \in T
    <2>1. [n \in InTree |-> <<>>] \in [InTree -> U]
      OBVIOUS
    <2>2. \A f : Upto(f, 0)
      BY <1>3
    <2> HIDE DEF Upto, U
    <2>3. 0 \in 0 .. k + 1
      OBVIOUS
    <2>4. QED
      BY <2>1, <2>2, <2>3
  <1>6. ASSUME NEW j \in 1 .. k + 1, j - 1 \in T
        PROVE  j \in T
    <2>1. PICK f \in [InTree -> U] : Upto(f, j - 1)
      BY <1>6
    <2> DEFINE h == [n \in InTree |-> E(f, n)]
    <2>2. ASSUME NEW n \in InTree
          PROVE  E(f, n) \in U
      BY <1>4
    <2>3. h \in [InTree -> U]
      <3> HIDE DEF E, U
      <3> QED
        BY <2>2
    <2>4. ASSUME NEW n \in InTree, depth[n] < j
          PROVE  h[n] = E(h, n)
      <3>1. h[n] = E(f, n)
        OBVIOUS
      <3>2. CASE n = root
        BY <3>1, <3>2
      <3>3. CASE n # root
        <4>1. directory[n] \in InTree /\ depth[directory[n]] < depth[n]
          BY <1>4, <3>3
        <4>2. depth[directory[n]] \in 0 .. k /\ depth[n] \in 0 .. k
          BY <1>3, <4>1
        <4>3. depth[directory[n]] < j - 1
          BY <2>4, <4>1, <4>2
        <4>4. h[directory[n]] = f[directory[n]]
          <5>1. h[directory[n]] = E(f, directory[n])
            BY <4>1
          <5>2. f[directory[n]] = E(f, directory[n])
            <6> HIDE DEF E
            <6> QED
              BY <2>1, <4>1, <4>3
          <5>3. QED
            BY <5>1, <5>2
        <4> HIDE DEF h
        <4>5. QED
          BY <3>1, <3>3, <4>4
      <3>4. QED
        BY <3>2, <3>3
    <2>5. Upto(h, j)
      <3> HIDE DEF E, h
      <3> QED
        BY <2>4
    <2> HIDE DEF Upto, h
    <2>6. j \in 0 .. k + 1
      OBVIOUS
    <2>7. QED
      BY <2>3, <2>5, <2>6
  <1>7. PICK f \in [InTree -> U] : Upto(f, k + 1)
    <2> HIDE DEF T
    <2>1. k + 1 \in Nat
      OBVIOUS
    <2>2. \A j \in 0 .. k + 1 : j \in T
      BY <1>5, <1>6, <2>1, Induct
    <2>3. k + 1 \in T
      BY <2>1, <2>2
    <2>4. QED
      BY <2>3 DEF T
  <1>8. Is(f)
    <2>1. \A n \in InTree : depth[n] < k + 1
      BY <1>3
    <2> HIDE DEF E
    <2>2. \A n \in InTree : f[n] = E(f, n)
      BY <1>7, <2>1
    <2>3. QED
      BY <1>7, <2>2
  <1>9. Is(PathOf)
    <2>1. PathOf = CHOOSE F : Is(F)
      BY DEF PathOf
    <2> HIDE DEF Is
    <2>2. QED
      BY <1>8, <2>1
  <1>10. \A n \in InTree : PathOf[n] = E(PathOf, n)
    <2> DEFINE P == PathOf
    <2>1. Is(P)
      BY <1>9
    <2> HIDE DEF E, P
    <2>2. \A n \in InTree : P[n] = E(P, n)
      BY <2>1
    <2>3. QED
      BY <2>2 DEF P
  <1>11. QED
    BY <1>10, InTreeIs

\* What is said of the paths in the tree: they go on from those of the directories, and
\* no two files have the same.
Paths ==
    /\ PathOf[root] = <<>>
    /\ \A n \in InTree \ {root} : PathOf[n] = Append(PathOf[directory[n]], name[n])
    /\ \A n \in InTree : PathOf[n] \in Seq(ToSet(Names))
    /\ \A m, n \in InTree : PathOf[m] = PathOf[n] => m = n

\* Two files of a directory have different names.
LEMMA SameName ==
    ASSUME TypeOK, Tree, NEW m \in InTree \ {root}, NEW n \in InTree \ {root},
           directory[m] = directory[n], name[m] = name[n]
    PROVE  m = n
  <1> DEFINE d == directory[n]
  <1>1. d \in Node
    BY InTreeIs DEF InTree
  <1>2. PICK i \in DOMAIN list[d] : list[d][i] = n
    BY InTreeIs
  <1>3. PICK j \in DOMAIN list[d] : list[d][j] = m
    BY InTreeIs
  <1> HIDE DEF d
  <1>4. list[d] \in Seq(Node) /\ Sorted(list[d])
    BY <1>1, SortedIs DEF Tree
  <1>5. i \in 1 .. Len(list[d]) /\ j \in 1 .. Len(list[d]) /\ Len(list[d]) \in Nat
    BY <1>4
  <1>6. ~ Before(name[n], name[n])
    BY BeforeOrder
  <1>7. ~ (i < j) /\ ~ (j < i)
    BY <1>2, <1>3, <1>4, <1>5, <1>6 DEF Sorted
  <1>8. i = j
    BY <1>5, <1>7
  <1>9. QED
    BY <1>2, <1>3, <1>8

\* What a path was before its last name, and that name.
LEMMA Appended ==
    ASSUME NEW A, NEW s \in Seq(A), NEW x \in A
    PROVE  /\ Append(s, x) \in Seq(A) /\ Len(Append(s, x)) = Len(s) + 1
           /\ SubSeq(Append(s, x), 1, Len(Append(s, x)) - 1) = s
           /\ Append(s, x)[Len(s) + 1] = x
  <1> DEFINE u == Append(s, x)
  <1>1. u \in Seq(A) /\ Len(u) = Len(s) + 1 /\ u[Len(s) + 1] = x /\ \A i \in 1 .. Len(s) : u[i] = s[i]
    OBVIOUS
  <1>2. Len(s) \in Nat /\ s = [i \in 1 .. Len(s) |-> s[i]]
    OBVIOUS
  <1> HIDE DEF u
  <1>3. Len(u) - 1 = Len(s)
    BY <1>1, <1>2
  <1>4. /\ SubSeq(u, 1, Len(s)) \in Seq(A) /\ Len(SubSeq(u, 1, Len(s))) = Len(s)
        /\ \A i \in 1 .. Len(s) : SubSeq(u, 1, Len(s))[i] = u[i]
    BY <1>1, <1>2
  <1>5. SubSeq(u, 1, Len(s)) = s
    <2> DEFINE v == SubSeq(u, 1, Len(s))
    <2>1. v \in Seq(A) /\ Len(v) = Len(s) /\ \A i \in 1 .. Len(s) : v[i] = s[i]
      BY <1>1, <1>4
    <2> HIDE DEF v
    <2>2. v = [i \in 1 .. Len(v) |-> v[i]]
      BY <2>1
    <2>3. v = s
      BY <1>2, <2>1, <2>2
    <2>4. QED
      BY <2>3 DEF v
  <1>6. QED
    BY <1>1, <1>3, <1>5 DEF u

\* The tree gives each of its files a path of its own.
LEMMA PathsAre == TypeOK /\ Tree => Paths
  <1> SUFFICES ASSUME TypeOK, Tree PROVE Paths
    OBVIOUS
  <1> DEFINE U == ToSet(Names)
  <1>1. PathOf[root] = <<>>
    BY PathOfIs
  <1>2. ASSUME NEW n \in InTree \ {root}
        PROVE  /\ PathOf[n] = Append(PathOf[directory[n]], name[n])
               /\ directory[n] \in InTree /\ name[n] \in U
    BY PathOfIs, InTreeIs
  <1> HIDE DEF U
  <1> DEFINE T == {n \in InTree : PathOf[n] \in Seq(U)}
  <1>3. root \in InTree /\ <<>> \in Seq(U)
    BY InTreeIs
  <1>4. root \in T
    BY <1>1, <1>3
  <1>5. ASSUME NEW n \in InTree \ {root}, directory[n] \in T
        PROVE  n \in T
    <2>1. PathOf[directory[n]] \in Seq(U)
      BY <1>5
    <2>2. Append(PathOf[directory[n]], name[n]) \in Seq(U)
      BY <1>2, <2>1
    <2>3. QED
      BY <1>2, <2>2
  <1>6. \A n \in InTree : PathOf[n] \in Seq(U)
    <2> HIDE DEF T
    <2>1. InTree \subseteq T
      BY <1>4, <1>5, Downward
    <2>2. QED
      BY <2>1 DEF T
  <1> DEFINE V == {n \in InTree : \A m \in InTree : PathOf[m] = PathOf[n] => m = n}
  <1>7. ASSUME NEW n \in InTree \ {root}
        PROVE  PathOf[n] # <<>>
    <2>1. PathOf[directory[n]] \in Seq(U)
      BY <1>2, <1>6
    <2>2. Len(PathOf[n]) # 0
      BY <1>2, <2>1
    <2>3. Len(<<>>) = 0
      OBVIOUS
    <2>4. QED
      BY <2>2, <2>3
  <1>8. root \in V
    BY <1>1, <1>3, <1>7
  <1>9. ASSUME NEW n \in InTree \ {root}, directory[n] \in V
        PROVE  n \in V
    <2>1. ASSUME NEW m \in InTree, PathOf[m] = PathOf[n]
          PROVE  m = n
      <3>1. m # root
        BY <1>1, <1>7, <2>1
      <3> DEFINE s == PathOf[directory[n]]
                 t == PathOf[directory[m]]
      <3>2. /\ s \in Seq(U) /\ t \in Seq(U) /\ name[n] \in U /\ name[m] \in U
            /\ Append(s, name[n]) = Append(t, name[m])
        BY <1>2, <1>6, <2>1, <3>1
      <3> HIDE DEF s, t
      <3>3. /\ SubSeq(Append(s, name[n]), 1, Len(Append(s, name[n])) - 1) = s
            /\ SubSeq(Append(t, name[m]), 1, Len(Append(t, name[m])) - 1) = t
            /\ Append(s, name[n])[Len(s) + 1] = name[n] /\ Append(t, name[m])[Len(t) + 1] = name[m]
        BY <3>2, Appended
      <3>4. s = t
        BY <3>2, <3>3
      <3>5. name[m] = name[n]
        BY <3>2, <3>3, <3>4
      <3>6. directory[m] = directory[n]
        BY <1>2, <1>9, <3>1, <3>4 DEF s, t
      <3>7. QED
        BY <3>1, <3>5, <3>6, SameName
    <2>2. QED
      BY <2>1
  <1>10. \A m, n \in InTree : PathOf[m] = PathOf[n] => m = n
    <2> HIDE DEF V
    <2>1. InTree \subseteq V
      BY <1>8, <1>9, Downward
    <2>2. QED
      BY <2>1 DEF V
  <1>11. QED
    BY <1>1, <1>2, <1>6, <1>10 DEF Paths, U

\* It does after a step that leaves a tree.
LEMMA PathsThen == (TypeOK /\ Tree)' => Paths'
  BY PathsAre, PTL

\* A file that is in the same directory, under the same name, as all above it, has the
\* same path.
LEMMA SamePaths ==
    ASSUME TypeOK, Tree, (TypeOK /\ Tree)',
           \A n \in InTree \ {root} : n \in InTree' =>
                /\ directory'[n] = directory[n] /\ name'[n] = name[n]
                /\ directory[n] \in InTree'
    PROVE  \A n \in InTree : n \in InTree' => PathOf'[n] = PathOf[n]
  <1> DEFINE P == PathOf'
             R == InTree'
             T == {n \in InTree : n \in R => P[n] = PathOf[n]}
  <1>1. Paths /\ Paths'
    BY PathsAre, PathsThen
  <1>2. root \in InTree
    BY InTreeIs
  <1>3. P[root] = <<>> /\ PathOf[root] = <<>>
    BY <1>1 DEF Paths
  <1>4. ASSUME NEW n \in InTree \ {root}, n \in R
        PROVE  /\ P[n] = Append(P[directory[n]], name[n]) /\ directory[n] \in R
               /\ PathOf[n] = Append(PathOf[directory[n]], name[n])
    BY <1>1, <1>4 DEF Paths
  <1> HIDE DEF P, R
  <1>5. root \in T
    BY <1>2, <1>3
  <1>6. ASSUME NEW n \in InTree \ {root}, directory[n] \in T
        PROVE  n \in T
    <2>1. CASE n \in R
      <3>1. P[directory[n]] = PathOf[directory[n]]
        BY <1>4, <1>6, <2>1
      <3>2. P[n] = PathOf[n]
        BY <1>4, <2>1, <3>1
      <3>3. QED
        BY <3>2
    <2>2. CASE n \notin R
      BY <2>2
    <2>3. QED
      BY <2>1, <2>2
  <1>7. InTree \subseteq T
    <2> HIDE DEF T
    <2> QED
      BY <1>5, <1>6, Downward
  <1>8. QED
    BY <1>7 DEF P, R

\* What is so then of the paths and of what is opened.
LEMMA WholeIs == Whole => TypeOK /\ Tree /\ Paths /\ OpenedFiles
  BY PathsAre, OpenedAre DEF Whole, IInv, TInv

LEMMA WholeThen == Whole' => (TypeOK /\ Tree)' /\ Paths' /\ OpenedFiles'
  <1>1. Whole' => (TypeOK /\ Tree /\ Paths /\ OpenedFiles)'
    BY WholeIs, PTL
  <1>2. QED
    BY <1>1

\* A step that leaves the files of the tree where and what they are.
LEMMA UseStep ==
    ASSUME Whole, Whole', InTree' = InTree,
           \A n \in InTree : /\ kind'[n] = kind[n] /\ directory'[n] = directory[n]
                             /\ name'[n] = name[n]
    PROVE  S!Use
  <1>1. TypeOK /\ Tree /\ Paths /\ (TypeOK /\ Tree)' /\ Paths' /\ OpenedFiles'
    BY WholeIs, WholeThen
  <1> DEFINE P == PathOf'
             O == Opened'
             K == kind'
  <1>2. ASSUME NEW n \in InTree
        PROVE  P[n] = PathOf[n] /\ K[n] = kind[n]
    <2>1. \A m \in InTree \ {root} : directory[m] \in InTree
      BY <1>1, InTreeIs
    <2>2. QED
      BY <1>1, <2>1, SamePaths
  <1>3. Seen' = {<<P[n], K[n]>> : n \in InTree} /\ SeenOpened' = {P[n] : n \in O \cap InTree}
    BY DEF Seen, SeenOpened
  <1>4. \A n \in O : K[n] # "dir"
    BY <1>1 DEF OpenedFiles
  <1>5. \A m, n \in InTree : PathOf[m] = PathOf[n] => m = n
    BY <1>1 DEF Paths
  <1> HIDE DEF P, O, K
  <1>6. Seen' = Seen
    BY <1>2, <1>3 DEF Seen
  <1>7. ASSUME NEW x \in Seen, x[2] = "dir", x[1] \in SeenOpened'
        PROVE  FALSE
    <2>1. PICK n \in InTree : x = <<PathOf[n], kind[n]>>
      BY <1>7 DEF Seen
    <2>2. PICK m \in O \cap InTree : x[1] = P[m]
      BY <1>3, <1>7
    <2>3. PathOf[m] = PathOf[n]
      BY <1>2, <2>1, <2>2
    <2>4. m = n
      BY <1>5, <2>1, <2>2, <2>3
    <2>5. K[n] = "dir"
      BY <1>2, <1>7, <2>1
    <2>6. QED
      BY <1>4, <2>2, <2>4, <2>5
  <1>8. QED
    BY <1>6, <1>7 DEF S!Use

\* A step that adds a file to a directory of the tree.
LEMMA MakeStep ==
    ASSUME Whole, Whole', UNCHANGED opened, NEW d \in InTree, kind[d] = "dir",
           NEW n \in Node \ InTree, n \notin Opened, InTree' = InTree \cup {n}, directory'[n] = d,
           \A m \in InTree : /\ kind'[m] = kind[m] /\ directory'[m] = directory[m]
                             /\ name'[m] = name[m]
    PROVE  S!Make
  <1>1. TypeOK /\ Tree /\ Paths /\ (TypeOK /\ Tree)' /\ Paths'
    BY WholeIs, WholeThen
  <1>2. root \in InTree /\ n # root
    BY <1>1, InTreeIs
  <1> DEFINE P == PathOf'
             R == InTree'
             K == kind'
             c == name'[n]
  <1>3. ASSUME NEW m \in InTree
        PROVE  P[m] = PathOf[m] /\ K[m] = kind[m]
    <2>1. \A h \in InTree \ {root} : directory[h] \in InTree
      BY <1>1, InTreeIs
    <2>2. QED
      BY <1>1, <2>1, SamePaths
  <1>4. Seen' = {<<P[m], K[m]>> : m \in R} /\ SeenOpened' = {P[m] : m \in Opened \cap R}
    BY DEF Seen, SeenOpened, Opened
  <1>5. /\ P[n] = Append(P[d], c) /\ P[n] \in Seq(ToSet(Names))
        /\ \A g, h \in R : P[g] = P[h] => g = h
    BY <1>1, <1>2 DEF Paths
  <1>6. c \in ToSet(Names) /\ PathOf[d] \in Seq(ToSet(Names))
    <2>1. n \in Node \ {root} /\ directory'[n] # Null
      BY <1>2, FileTreeAssumption DEF InTree
    <2>2. c \in ToSet(Names)
      BY <1>1, <2>1 DEF Tree, Rooted
    <2>3. QED
      BY <1>1, <2>2 DEF Paths
  <1>7. R = InTree \cup {n}
    OBVIOUS
  <1> HIDE DEF P, R, K, c
  <1> DEFINE x == <<P[n], K[n]>>
  <1>8. Seen' = Seen \cup {x}
    BY <1>3, <1>4, <1>7 DEF Seen
  <1>9. ASSUME NEW y \in Seen
        PROVE  y[1] # x[1]
    <2>1. PICK m \in InTree : y[1] = P[m]
      BY <1>3 DEF Seen
    <2>2. m \in R /\ n \in R /\ m # n
      BY <1>7
    <2>3. P[m] # P[n]
      BY <1>5, <2>2
    <2>4. QED
      BY <2>1, <2>3
  <1>10. SeenOpened' = SeenOpened
    <2>1. Opened \cap R = Opened \cap InTree
      BY <1>7
    <2>2. QED
      BY <1>3, <1>4, <2>1 DEF SeenOpened
  <1>11. S!Made = {x} /\ S!Gone = {}
    <2>1. x \notin Seen
      BY <1>9
    <2> HIDE DEF x
    <2>2. QED
      BY <1>8, <2>1 DEF S!Made, S!Gone
  <1>12. S!Parent(x[1]) \in Seen
    <2>1. P[n] = Append(PathOf[d], c)
      BY <1>3, <1>5
    <2>2. SubSeq(P[n], 1, Len(P[n]) - 1) = PathOf[d]
      BY <1>6, <2>1, Appended
    <2>3. S!Parent(x[1]) = <<PathOf[d], kind[d]>>
      BY <2>2 DEF S!Parent
    <2>4. QED
      BY <2>3 DEF Seen
  <1> HIDE DEF x
  <1>13. x \in S!Made /\ \A y \in Seen : y[1] # x[1]
    BY <1>9, <1>11
  <1>14. QED
    BY <1>10, <1>11, <1>12, <1>13 DEF S!Make

-----------------------------------------------------------------------------
\* s is a beginning of t.
Begins(s, t) == Len(t) >= Len(s) /\ SubSeq(t, 1, Len(s)) = s

\* A sequence begins with another if it does so without its last, or is it.
LEMMA BeginsAppend ==
    ASSUME NEW A, NEW s \in Seq(A), NEW t \in Seq(A), NEW x \in A
    PROVE  Begins(s, Append(t, x)) <=> Begins(s, t) \/ s = Append(t, x)
  <1> DEFINE u == Append(t, x)
  <1>1. /\ u \in Seq(A) /\ Len(u) = Len(t) + 1 /\ Len(t) \in Nat /\ Len(s) \in Nat
        /\ \A i \in 1 .. Len(t) : u[i] = t[i]
    OBVIOUS
  <1> HIDE DEF u
  <1>2. CASE Len(s) <= Len(t)
    <2> DEFINE v == SubSeq(u, 1, Len(s))
               w == SubSeq(t, 1, Len(s))
    <2>1. v \in Seq(A) /\ Len(v) = Len(s) /\ \A i \in 1 .. Len(s) : v[i] = u[i]
      BY <1>1, <1>2
    <2>2. w \in Seq(A) /\ Len(w) = Len(s) /\ \A i \in 1 .. Len(s) : w[i] = t[i]
      BY <1>1, <1>2
    <2>3. \A i \in 1 .. Len(s) : v[i] = w[i]
      BY <1>1, <1>2, <2>1, <2>2
    <2> HIDE DEF v, w
    <2>4. v = [i \in 1 .. Len(v) |-> v[i]] /\ w = [i \in 1 .. Len(w) |-> w[i]]
      BY <2>1, <2>2
    <2>5. v = w
      BY <2>1, <2>2, <2>3, <2>4
    <2>6. s # u
      BY <1>1, <1>2
    <2>7. Len(u) >= Len(s) /\ Len(t) >= Len(s)
      BY <1>1, <1>2
    <2>8. Begins(s, u) <=> v = s
      BY <2>7 DEF Begins, v
    <2>9. Begins(s, t) <=> w = s
      BY <2>7 DEF Begins, w
    <2>10. QED
      BY <2>5, <2>6, <2>8, <2>9 DEF u
  <1>3. CASE Len(s) > Len(t)
    <2>1. ~ Begins(s, t)
      BY <1>1, <1>3 DEF Begins
    <2>2. Len(u) >= Len(s) => Len(s) = Len(u)
      BY <1>1, <1>3
    <2>3. SubSeq(u, 1, Len(u)) = u
      <3> DEFINE v == SubSeq(u, 1, Len(u))
      <3>1. v \in Seq(A) /\ Len(v) = Len(u) /\ \A i \in 1 .. Len(u) : v[i] = u[i]
        BY <1>1
      <3> HIDE DEF v
      <3>2. v = [i \in 1 .. Len(v) |-> v[i]] /\ u = [i \in 1 .. Len(u) |-> u[i]]
        BY <1>1, <3>1
      <3>3. v = u
        BY <3>1, <3>2
      <3>4. QED
        BY <3>3 DEF v
    <2>4. Begins(s, u) => s = u
      BY <2>2, <2>3 DEF Begins
    <2>5. s = u => Begins(s, u)
      BY <1>1, <2>3 DEF Begins
    <2>6. QED
      BY <2>1, <2>4, <2>5 DEF u
  <1>4. QED
    BY <1>1, <1>2, <1>3

\* The files at and below n.
Under(n) == {m \in InTree : Begins(PathOf[n], PathOf[m])}

\* They are n, and what is in them.
LEMMA UnderIs ==
    ASSUME TypeOK, Tree, NEW n \in InTree
    PROVE  /\ n \in Under(n)
           /\ \A m \in InTree \ {root} : directory[m] \in Under(n) => m \in Under(n)
           /\ \A m \in Under(n) : m # n => m # root /\ directory[m] \in Under(n)
  <1>1. Paths
    BY PathsAre
  <1> DEFINE A == ToSet(Names)
  <1>2. ASSUME NEW m \in InTree
        PROVE  PathOf[m] \in Seq(A) /\ (PathOf[m] = PathOf[n] => m = n)
    BY <1>1 DEF Paths
  <1>3. ASSUME NEW m \in InTree \ {root}
        PROVE  /\ directory[m] \in InTree /\ name[m] \in A
               /\ PathOf[m] = Append(PathOf[directory[m]], name[m])
    BY <1>1, InTreeIs DEF Paths
  <1>4. \A s : s \in Seq(A) => Begins(s, s)
    <2> HIDE DEF A
    <2>1. ASSUME NEW s \in Seq(A)
          PROVE  Begins(s, s)
      <3>1. Len(s) >= Len(s)
        OBVIOUS
      <3> DEFINE v == SubSeq(s, 1, Len(s))
      <3>2. v \in Seq(A) /\ Len(v) = Len(s) /\ \A i \in 1 .. Len(s) : v[i] = s[i]
        OBVIOUS
      <3> HIDE DEF v
      <3>3. v = [i \in 1 .. Len(v) |-> v[i]] /\ s = [i \in 1 .. Len(s) |-> s[i]]
        BY <3>2
      <3>4. v = s
        BY <3>2, <3>3
      <3>5. QED
        BY <3>1, <3>4 DEF Begins, v
    <2>2. QED
      BY <2>1
  <1> HIDE DEF A
  <1>5. n \in Under(n)
    BY <1>2, <1>4 DEF Under
  <1>6. ASSUME NEW m \in InTree \ {root}
        PROVE  Begins(PathOf[n], PathOf[m]) <=>
                    Begins(PathOf[n], PathOf[directory[m]]) \/ PathOf[n] = PathOf[m]
    <2> DEFINE s == PathOf[n]
               t == PathOf[directory[m]]
    <2>1. s \in Seq(A) /\ t \in Seq(A) /\ name[m] \in A /\ PathOf[m] = Append(t, name[m])
      BY <1>2, <1>3
    <2> HIDE DEF s, t
    <2>2. Begins(s, Append(t, name[m])) <=> Begins(s, t) \/ s = Append(t, name[m])
      BY <2>1, BeginsAppend
    <2>3. QED
      BY <2>1, <2>2 DEF s, t
  <1>7. ASSUME NEW m \in InTree \ {root}, directory[m] \in Under(n)
        PROVE  m \in Under(n)
    BY <1>6, <1>7 DEF Under
  <1>8. ASSUME NEW m \in Under(n), m # n
        PROVE  m # root /\ directory[m] \in Under(n)
    <2>1. m \in InTree /\ Begins(PathOf[n], PathOf[m])
      BY <1>8 DEF Under
    <2>2. m # root
      <3>1. SUFFICES ASSUME m = root PROVE FALSE
        OBVIOUS
      <3>2. PathOf[m] = <<>> /\ Len(<<>>) = 0
        BY <1>1, <3>1 DEF Paths
      <3>3. PathOf[n] \in Seq(A) /\ Len(PathOf[n]) = 0
        BY <1>2, <2>1, <3>2 DEF Begins
      <3>4. PathOf[n] = <<>>
        BY <3>3
      <3>5. QED
        BY <1>2, <1>8, <2>1, <3>2, <3>4
    <2>3. PathOf[n] # PathOf[m]
      BY <1>2, <1>8, <2>1
    <2>4. QED
      BY <1>3, <1>6, <2>1, <2>2, <2>3 DEF Under
  <1>9. QED
    BY <1>5, <1>7, <1>8

\* What is visited in turn is visited for one of the list.
LEMMA InTurnFrom ==
    ASSUME NEW order, NEW s \in Seq(Node), NEW Z,
           \A i \in 1 .. Len(s) : /\ order[s[i]] \in Seq(Node)
                                  /\ \A j \in 1 .. Len(order[s[i]]) : order[s[i]][j] \in Z
    PROVE  /\ InTurn(order, s) \in Seq(Node)
           /\ \A j \in 1 .. Len(InTurn(order, s)) : InTurn(order, s)[j] \in Z
  <1>1. PICK f : Turns(f, order, s) /\ InTurn(order, s) = f[Len(s)]
    BY InTurnIs
  <1>2. Len(s) \in Nat
    OBVIOUS
  <1> DEFINE T == {i \in 0 .. Len(s) : \A j \in 1 .. Len(f[i]) : f[i][j] \in Z}
  <1>3. 0 \in T
    <2>1. f[0] = <<>> /\ Len(<<>>) = 0
      BY <1>1 DEF Turns
    <2>2. 1 .. 0 = {} /\ 0 \in 0 .. Len(s)
      BY <1>2
    <2>3. QED
      BY <2>1, <2>2
  <1>4. ASSUME NEW i \in 1 .. Len(s), i - 1 \in T
        PROVE  i \in T
    <2> DEFINE u == f[i - 1]
               v == order[s[i]]
               w == f[i]
    <2>1. u \in Seq(Node) /\ v \in Seq(Node) /\ w = u \o v
      <3>1. i - 1 \in 0 .. Len(s)
        BY <1>4
      <3>2. QED
        BY <1>1, <3>1 DEF Turns
    <2>2. (\A j \in 1 .. Len(u) : u[j] \in Z) /\ \A j \in 1 .. Len(v) : v[j] \in Z
      BY <1>4
    <2> HIDE DEF u, v, w
    <2>3. ASSUME NEW j \in 1 .. Len(w)
          PROVE  w[j] \in Z
      <3>1. Len(w) = Len(u) + Len(v) /\ Len(u) \in Nat /\ Len(v) \in Nat
        BY <2>1
      <3>2. CASE j <= Len(u)
        <4>1. w[j] = u[j] /\ j \in 1 .. Len(u)
          BY <2>1, <3>1, <3>2
        <4>2. QED
          BY <2>2, <4>1
      <3>3. CASE j > Len(u)
        <4>1. w[j] = v[j - Len(u)] /\ j - Len(u) \in 1 .. Len(v)
          BY <2>1, <3>1, <3>3
        <4>2. QED
          BY <2>2, <4>1
      <3>4. QED
        BY <3>1, <3>2, <3>3
    <2>4. i \in 0 .. Len(s)
      BY <1>2
    <2>5. QED
      BY <2>3, <2>4 DEF w
  <1>5. Len(s) \in T
    <2> HIDE DEF T
    <2>1. \A i \in 0 .. Len(s) : i \in T
      BY <1>2, <1>3, <1>4, Induct
    <2>2. QED
      BY <1>2, <2>1
  <1>6. f[Len(s)] \in Seq(Node)
    BY <1>1, <1>2 DEF Turns
  <1>7. QED
    BY <1>1, <1>5, <1>6

\* removeFile visits what is below a file, and all of it.
LEMMA PostOrderUnder ==
    ASSUME TypeOK, Tree, NEW n \in InTree
    PROVE  /\ \A i \in 1 .. Len(PostOrder[n]) : PostOrder[n][i] \in Under(n)
           /\ \A m \in Under(n) : Contains(PostOrder[n], m)
  <1>0. PICK k \in Nat : \E rank : Ranks(k, rank)
    BY DEF Tree, Acyclic
  <1>1. PICK rank : Ranks(k, rank)
    BY <1>0
  <1>2. TreeExact /\ Acyclic
    BY DEF Tree
  <1>3. ASSUME NEW m \in InTree
        PROVE  /\ m \in Node /\ rank[m] \in 0 .. k /\ list[m] \in Seq(Node)
               /\ PostOrder[m] = Append(InTurn(PostOrder, list[m]), m)
               /\ \A i \in 1 .. Len(list[m]) :
                    /\ list[m][i] \in InTree \ {root} /\ directory[list[m][i]] = m
                    /\ rank[list[m][i]] \in 0 .. k /\ rank[list[m][i]] < rank[m]
                    /\ PostOrder[list[m][i]] \in Seq(Node)
    <2>1. m \in Node /\ list[m] \in Seq(Node) /\ rank[m] \in 0 .. k
      BY <1>1 DEF InTree, TypeOK, Ranks
    <2>2. PostOrder[m] = Append(InTurn(PostOrder, list[m]), m)
      BY <1>2, <2>1, PostOrderIs
    <2>3. ASSUME NEW i \in 1 .. Len(list[m])
          PROVE  /\ list[m][i] \in InTree \ {root} /\ directory[list[m][i]] = m
                 /\ rank[list[m][i]] \in 0 .. k /\ rank[list[m][i]] < rank[m]
                 /\ PostOrder[list[m][i]] \in Seq(Node)
      <3>1. i \in DOMAIN list[m] /\ list[m][i] \in Node
        BY <2>1
      <3>2. directory[list[m][i]] = m /\ m # Null
        BY <2>1, <3>1, FileTreeAssumption DEF Tree, TreeExact
      <3>3. list[m][i] \in InTree \ {root}
        BY <3>1, <3>2 DEF InTree, Tree, Rooted
      <3>4. rank[list[m][i]] \in 0 .. k /\ rank[list[m][i]] < rank[m]
        BY <1>1, <2>1, <3>1 DEF Ranks
      <3>5. PostOrder[list[m][i]] \in Seq(Node)
        BY <1>2, <3>1, PostOrderIs
      <3>6. QED
        BY <3>2, <3>3, <3>4, <3>5
    <2>4. QED
      BY <2>1, <2>2, <2>3
  <1>4. /\ n \in Under(n)
        /\ \A m \in InTree \ {root} : directory[m] \in Under(n) => m \in Under(n)
        /\ \A m \in Under(n) : m # n => m # root /\ directory[m] \in Under(n)
    BY UnderIs
  <1> DEFINE Z == Under(n)
             In(m) == \A i \in 1 .. Len(PostOrder[m]) : PostOrder[m][i] \in Z
             T == {j \in 0 .. k + 1 : \A m \in InTree : rank[m] < j /\ m \in Z => In(m)}
  <1>5. 0 \in T
    <2> HIDE DEF In
    <2> QED
      BY <1>3
  <1>6. ASSUME NEW j \in 1 .. k + 1, j - 1 \in T
        PROVE  j \in T
    <2>1. ASSUME NEW m \in InTree, rank[m] < j, m \in Z
          PROVE  In(m)
      <3> DEFINE s == list[m]
                 r == InTurn(PostOrder, s)
      <3>1. ASSUME NEW i \in 1 .. Len(s)
            PROVE  PostOrder[s[i]] \in Seq(Node) /\ In(s[i])
        <4>1. /\ s[i] \in InTree \ {root} /\ directory[s[i]] = m /\ rank[s[i]] \in 0 .. k
              /\ rank[s[i]] < rank[m] /\ rank[m] \in 0 .. k /\ PostOrder[s[i]] \in Seq(Node)
          BY <1>3
        <4>2. rank[s[i]] < j - 1 /\ s[i] \in Z
          BY <1>4, <2>1, <4>1
        <4> HIDE DEF In, s
        <4>3. QED
          BY <1>6, <4>1, <4>2
      <3>2. s \in Seq(Node) /\ PostOrder[m] = Append(r, m)
        BY <1>3
      <3> HIDE DEF s, Z
      <3>3. r \in Seq(Node) /\ \A i \in 1 .. Len(r) : r[i] \in Z
        BY <3>1, <3>2, InTurnFrom
      <3> HIDE DEF r
      <3>4. /\ Len(Append(r, m)) = Len(r) + 1 /\ Len(r) \in Nat /\ Append(r, m)[Len(r) + 1] = m
            /\ \A i \in 1 .. Len(r) : Append(r, m)[i] = r[i]
        BY <3>3
      <3>5. ASSUME NEW i \in 1 .. Len(PostOrder[m])
            PROVE  PostOrder[m][i] \in Z
        <4>1. i \in 1 .. Len(r) \/ i = Len(r) + 1
          BY <3>2, <3>4
        <4>2. QED
          BY <2>1, <3>2, <3>3, <3>4, <4>1
      <3>6. QED
        BY <3>5
    <2>2. j \in 0 .. k + 1
      OBVIOUS
    <2> HIDE DEF In
    <2>3. QED
      BY <2>1, <2>2
  <1>7. In(n)
    <2> HIDE DEF T
    <2>1. k + 1 \in Nat
      OBVIOUS
    <2>2. \A j \in 0 .. k + 1 : j \in T
      BY <1>5, <1>6, <2>1, Induct
    <2>3. k + 1 \in T
      BY <2>1, <2>2
    <2>4. rank[n] < k + 1
      BY <1>3
    <2> HIDE DEF In
    <2>5. QED
      BY <1>4, <2>3, <2>4 DEF T
  <1> DEFINE V == {m \in InTree : m \in Under(n) => Contains(PostOrder[n], m)}
  <1>8. AfterTheirs(PostOrder[n]) /\ Contains(PostOrder[n], n)
    BY <1>2, <1>3, PostOrderVisits DEF Visits
  <1>9. root \in V
    BY <1>4, <1>8, InTreeIs
  <1>10. ASSUME NEW m \in InTree \ {root}, directory[m] \in V
         PROVE  m \in V
    <2>1. CASE m \notin Under(n)
      BY <2>1
    <2>2. CASE m = n
      BY <1>8, <2>2
    <2>3. CASE m \in Under(n) /\ m # n
      <3> DEFINE d == directory[m]
      <3>1. Contains(PostOrder[n], d)
        BY <1>4, <1>10, <2>3
      <3>2. PICK h \in 1 .. Len(PostOrder[n]) : PostOrder[n][h] = d
        BY <3>1 DEF Contains
      <3>3. d \in Node /\ \E i \in DOMAIN list[d] : list[d][i] = m
        BY InTreeIs DEF InTree
      <3>4. PICK i \in DOMAIN list[d] : list[d][i] = m
        BY <3>3
      <3> HIDE DEF d
      <3>5. i \in 1 .. Len(list[d])
        <4>1. list[d] \in Seq(Node)
          BY <3>3 DEF TypeOK
        <4>2. QED
          BY <4>1
      <3>6. PICK g \in 1 .. h - 1 : PostOrder[n][g] = m
        BY <1>8, <3>2, <3>4, <3>5 DEF AfterTheirs
      <3>7. PostOrder[n] \in Seq(Node)
        BY <1>2, <1>3, PostOrderIs
      <3>8. g \in 1 .. Len(PostOrder[n])
        BY <3>2, <3>6, <3>7
      <3>9. QED
        BY <3>6, <3>8 DEF Contains
    <2>4. QED
      BY <2>1, <2>2, <2>3
  <1>11. InTree \subseteq V
    <2> HIDE DEF V
    <2> QED
      BY <1>9, <1>10, Downward
  <1>12. QED
    BY <1>7, <1>11 DEF Under

\* It frees files that are below the one it is called with, and all of them if none is opened.
LEMMA RemovedUnder ==
    ASSUME TypeOK, Tree, NEW n \in InTree
    PROVE  /\ Removed(n) \subseteq Under(n)
           /\ Under(n) \cap Opened = {} => Removed(n) = Under(n)
  <1> DEFINE s == PostOrder[n]
  <1>1. /\ \A i \in 1 .. Len(s) : s[i] \in Under(n)
        /\ \A m \in Under(n) : Contains(s, m)
    BY PostOrderUnder
  <1>2. Removed(n) = {s[i] : i \in {i \in 1 .. Len(s) : \A j \in 1 .. i : s[j] \notin Opened}}
    BY DEF Removed
  <1>3. Len(s) \in Nat
    <2>1. s \in Seq(Node)
      BY PostOrderIs DEF Tree, InTree
    <2>2. QED
      BY <2>1
  <1> HIDE DEF s
  <1>4. Removed(n) \subseteq Under(n)
    BY <1>1, <1>2
  <1>5. ASSUME Under(n) \cap Opened = {}, NEW m \in Under(n)
        PROVE  m \in Removed(n)
    <2>1. PICK i \in 1 .. Len(s) : s[i] = m
      BY <1>1 DEF Contains
    <2>2. \A j \in 1 .. i : j \in 1 .. Len(s)
      BY <1>3
    <2>3. \A j \in 1 .. i : s[j] \notin Opened
      BY <1>1, <1>5, <2>2
    <2>4. QED
      BY <1>2, <2>1, <2>3
  <1>6. QED
    BY <1>4, <1>5

\* A step that frees files below one.
LEMMA RemoveStep ==
    ASSUME Whole, Whole', NEW n \in InTree \ {root}, Free(Removed(n)), UNCHANGED opened
    PROVE  S!Remove
  <1> DEFINE gone == Removed(n)
  <1>1. TypeOK /\ Tree /\ Paths /\ (TypeOK /\ Tree)' /\ Paths'
    BY WholeIs, WholeThen
  <1>2. /\ gone \subseteq InTree /\ gone \cap Opened = {} /\ root \notin gone
        /\ \A m \in gone : \A i \in 1 .. Len(list[m]) : list[m][i] \in gone
    <2>1. n \in Node
      BY DEF InTree
    <2>2. /\ gone \subseteq Node /\ gone \cap Opened = {}
          /\ \A m \in gone : /\ m = n \/ directory[m] # Null
                             /\ \A i \in 1 .. Len(list[m]) : list[m][i] \in gone
      BY <1>1, <2>1, RemovedIs DEF Tree
    <2> HIDE DEF gone
    <2>3. directory[root] = Null
      BY <1>1 DEF Tree, Rooted
    <2>4. QED
      BY <2>2, <2>3 DEF InTree
  <1>3. /\ gone \subseteq Under(n)
        /\ Under(n) \cap Opened = {} => gone = Under(n)
    BY <1>1, RemovedUnder
  <1>4. /\ kind' = [m \in Node |-> IF m \in gone THEN "free" ELSE kind[m]]
        /\ name' = [m \in Node |-> IF m \in gone THEN Null ELSE name[m]]
        /\ directory' = [m \in Node |-> IF m \in gone THEN Null ELSE directory[m]]
    BY DEF Free
  <1> HIDE DEF gone
  <1> DEFINE P == PathOf'
             R == InTree'
             K == kind'
             Kept == InTree \ gone
             See(m) == <<PathOf[m], kind[m]>>
  <1>5. R = Kept
    <2>1. R = {m \in Node : m = root \/ directory'[m] # Null}
      BY DEF InTree
    <2>2. \A m \in Node : directory'[m] = IF m \in gone THEN Null ELSE directory[m]
      BY <1>4
    <2> HIDE DEF R
    <2>3. QED
      BY <1>2, <2>1, <2>2 DEF InTree
  <1>6. ASSUME NEW m \in Kept \ {root}
        PROVE  directory[m] \in Kept /\ kind[directory[m]] = "dir"
    <2>1. /\ directory[m] \in InTree /\ kind[directory[m]] = "dir"
          /\ \E i \in DOMAIN list[directory[m]] : list[directory[m]][i] = m
      BY <1>1, InTreeIs
    <2>2. PICK i \in DOMAIN list[directory[m]] : list[directory[m]][i] = m
      BY <2>1
    <2>3. list[directory[m]] \in Seq(Node)
      BY <1>1, <2>1 DEF TypeOK, InTree
    <2>4. i \in 1 .. Len(list[directory[m]])
      BY <2>3
    <2>5. QED
      BY <1>2, <2>1, <2>2, <2>4
  <1>7. ASSUME NEW m \in Kept
        PROVE  P[m] = PathOf[m] /\ K[m] = kind[m]
    <2>1. m \in InTree /\ m \in InTree' /\ m \in Node /\ m \notin gone
      BY <1>5 DEF InTree
    <2>2. K[m] = kind[m]
      BY <1>4, <2>1
    <2>3. \A h \in InTree \ {root} : h \in InTree' =>
              directory'[h] = directory[h] /\ name'[h] = name[h] /\ directory[h] \in InTree'
      <3>1. ASSUME NEW h \in InTree \ {root}, h \in InTree'
            PROVE  directory'[h] = directory[h] /\ name'[h] = name[h] /\ directory[h] \in InTree'
        <4>1. h \in Kept \ {root} /\ h \in Node
          BY <1>5, <3>1 DEF InTree
        <4>2. directory[h] \in InTree'
          BY <1>5, <1>6, <4>1
        <4>3. directory'[h] = directory[h] /\ name'[h] = name[h]
          BY <1>4, <4>1
        <4>4. QED
          BY <4>2, <4>3
      <3>2. QED
        BY <3>1
    <2>4. P[m] = PathOf[m]
      BY <1>1, <2>1, <2>3, SamePaths
    <2>5. QED
      BY <2>2, <2>4
  <1>8. \A g, h \in InTree : PathOf[g] = PathOf[h] => g = h
    BY <1>1 DEF Paths
  <1>9. Seen' = {<<P[m], K[m]>> : m \in R} /\ SeenOpened' = {P[m] : m \in Opened \cap R}
    BY DEF Seen, SeenOpened, Opened
  <1>10. Seen = {See(m) : m \in InTree} /\ SeenOpened = {PathOf[m] : m \in Opened \cap InTree}
    BY DEF Seen, SeenOpened
  <1> HIDE DEF P, R, K
  <1>11. Seen' = {See(m) : m \in Kept}
    BY <1>5, <1>7, <1>9
  <1>12. SeenOpened' = SeenOpened
    <2>1. Opened \cap R = Opened \cap InTree /\ Opened \cap R \subseteq Kept
      BY <1>2, <1>5
    <2>2. QED
      BY <1>7, <1>9, <1>10, <2>1
  <1>13. \A g, h \in InTree : See(g) = See(h) => g = h
    BY <1>8
  <1>14. S!InUse = {See(m) : m \in Opened \cap InTree}
    <2>1. ASSUME NEW m \in InTree
          PROVE  PathOf[m] \in SeenOpened <=> m \in Opened
      BY <1>8, <1>10
    <2>2. \A m \in InTree : See(m)[1] \in SeenOpened <=> m \in Opened
      BY <2>1
    <2>3. S!InUse = {x \in Seen : x[1] \in SeenOpened}
      BY DEF S!InUse
    <2> HIDE DEF See
    <2>4. QED
      BY <1>10, <2>2, <2>3
  <1>15. S!Below(PathOf[n]) = {See(m) : m \in Under(n)}
    <2>1. S!Below(PathOf[n]) = {x \in Seen : Begins(PathOf[n], x[1])}
      BY DEF S!Below, Begins
    <2>2. \A m \in InTree : Begins(PathOf[n], See(m)[1]) <=> m \in Under(n)
      BY DEF Under
    <2>3. Under(n) \subseteq InTree
      BY DEF Under
    <2> HIDE DEF See
    <2>4. QED
      BY <1>10, <2>1, <2>2, <2>3
  <1>16. \A x \in Seen' : x[1] = <<>> \/ S!Parent(x[1]) \in Seen'
    <2>1. ASSUME NEW m \in Kept
          PROVE  PathOf[m] = <<>> \/ S!Parent(PathOf[m]) \in Seen'
      <3>1. CASE m = root
        BY <1>1, <3>1 DEF Paths
      <3>2. CASE m # root
        <4> DEFINE d == directory[m]
        <4>1. m \in InTree \ {root} /\ d \in Kept /\ d \in InTree /\ kind[d] = "dir"
          BY <1>6, <3>2
        <4>2. /\ PathOf[m] = Append(PathOf[d], name[m]) /\ name[m] \in ToSet(Names)
              /\ PathOf[d] \in Seq(ToSet(Names))
          BY <1>1, <4>1, InTreeIs DEF Paths
        <4> HIDE DEF d
        <4>3. SubSeq(PathOf[m], 1, Len(PathOf[m]) - 1) = PathOf[d]
          BY <4>2, Appended
        <4>4. S!Parent(PathOf[m]) = See(d)
          BY <4>1, <4>3 DEF S!Parent
        <4>5. QED
          BY <1>11, <4>1, <4>4
      <3>3. QED
        BY <3>1, <3>2
    <2>2. \A m \in Kept : See(m)[1] = PathOf[m]
      OBVIOUS
    <2> HIDE DEF See, Kept
    <2>3. QED
      BY <1>11, <2>1, <2>2
  <1>17. See(n) \in Seen /\ See(n)[1] = PathOf[n] /\ PathOf[n] # <<>>
    <2>1. PathOf[root] = <<>> /\ root \in InTree
      BY <1>1, InTreeIs DEF Paths
    <2>2. QED
      BY <1>8, <1>10, <2>1
  <1> HIDE DEF See
  <1>18. S!Made = {} /\ S!Gone = {See(m) : m \in gone}
    <2>1. Seen' \subseteq Seen
      BY <1>10, <1>11
    <2>2. Seen \ Seen' = {See(m) : m \in gone}
      BY <1>2, <1>10, <1>11, <1>13
    <2>3. QED
      BY <2>1, <2>2 DEF S!Made, S!Gone
  <1>19. S!Gone \cap S!InUse = {}
    BY <1>2, <1>13, <1>14, <1>18
  <1>20. S!Gone \subseteq S!Below(PathOf[n])
    BY <1>3, <1>15, <1>18
  <1>21. S!Gone = S!Below(PathOf[n]) <=> S!Below(PathOf[n]) \cap S!InUse = {}
    <2>1. S!Below(PathOf[n]) \cap S!InUse = {} => Under(n) \cap Opened = {}
      <3>1. \A m \in Under(n) \cap Opened : See(m) \in S!Below(PathOf[n]) \cap S!InUse
        <4>1. Under(n) \subseteq InTree
          BY DEF Under
        <4>2. QED
          BY <1>14, <1>15, <4>1
      <3>2. QED
        BY <3>1
    <2>2. Under(n) \cap Opened = {} => S!Gone = S!Below(PathOf[n])
      BY <1>3, <1>15, <1>18
    <2>3. QED
      BY <1>19, <2>1, <2>2
  <1>22. QED
    <2> DEFINE x == See(n)
    <2>1. /\ x \in Seen /\ x[1] # <<>> /\ S!Gone \subseteq S!Below(x[1])
          /\ S!Gone = S!Below(x[1]) <=> S!Below(x[1]) \cap S!InUse = {}
      BY <1>17, <1>20, <1>21
    <2> HIDE DEF x
    <2>2. QED
      BY <1>12, <1>16, <1>18, <1>19, <2>1 DEF S!Remove

-----------------------------------------------------------------------------
\* makeFile makes a file that users see.
LEMMA MakeFileSeen ==
    ASSUME Whole, Whole', NEW p \in Process, NEW path, Len(path.names) \in Nat \ {0}, NEW k \in Kind,
           NEW value, MakeFile(p, path, k, value)
    PROVE  S!Next
  <1> DEFINE d == Parent(p, path)
             c == Last(path.names)
  <1>1. TypeOK /\ Tree /\ OpenedFiles /\ Used
    BY WholeIs DEF Whole, TInv
  <1>2. d \in Node /\ kind[d] = "dir"
    BY <1>1, ParentDir DEF MakeFile
  <1>3. PICK n \in Node : Allocate(n, k, c, d, value)
    BY DEF MakeFile
  <1>4. UNCHANGED opened
    BY DEF MakeFile
  <1> HIDE DEF d, c
  <1>5. d \in InTree /\ root \in InTree /\ \A m \in InTree : kind[m] # "free"
    BY <1>1, <1>2, InTreeIs
  <1>6. /\ kind[n] = "free" /\ kind' = [kind EXCEPT ![n] = k]
        /\ name' = [name EXCEPT ![n] = c] /\ directory' = [directory EXCEPT ![n] = d]
    BY <1>3 DEF Allocate, Unused
  <1>7. n \in Node \ InTree /\ n \notin Opened
    BY <1>1, <1>5, <1>6 DEF OpenedFiles
  <1>8. directory'[n] = d /\ \A m \in Node \ {n} : directory'[m] = directory[m]
    BY <1>1, <1>6 DEF TypeOK
  <1>9. InTree' = InTree \cup {n}
    <2>1. d # Null
      BY <1>2, FileTreeAssumption
    <2>2. InTree' = {m \in Node : m = root \/ directory'[m] # Null}
      BY DEF InTree
    <2>3. QED
      BY <1>7, <1>8, <2>1, <2>2 DEF InTree
  <1>10. \A m \in InTree : /\ kind'[m] = kind[m] /\ directory'[m] = directory[m]
                           /\ name'[m] = name[m]
    <2>1. \A m \in InTree : m \in Node \ {n}
      BY <1>7 DEF InTree
    <2>2. \A m \in Node \ {n} : kind'[m] = kind[m] /\ name'[m] = name[m]
      BY <1>1, <1>6 DEF TypeOK, Tree
    <2>3. QED
      BY <1>8, <2>1, <2>2
  <1>11. S!Make
    BY <1>2, <1>4, <1>5, <1>7, <1>8, <1>9, <1>10, MakeStep
  <1>12. QED
    BY <1>11 DEF S!Next

\* removeFile removes files that users see.
LEMMA RemoveFileSeen ==
    ASSUME Whole, Whole', NEW n, n # Null => n \in InTree, RemoveFile(n)
    PROVE  S!Next
  <1>1. n \in InTree \ {root} /\ Free(Removed(n)) /\ UNCHANGED opened
    BY DEF RemoveFile
  <1>2. S!Remove
    BY <1>1, RemoveStep
  <1>3. QED
    BY <1>2 DEF S!Next

\* A call that leaves the tree alone.
LEMMA SameSeen ==
    ASSUME Whole, Whole', UNCHANGED tree
    PROVE  S!Next
  <1>1. kind' = kind /\ directory' = directory /\ name' = name
    BY DEF tree
  <1>2. InTree' = InTree
    BY <1>1 DEF InTree
  <1>3. S!Use
    BY <1>1, <1>2, UseStep
  <1>4. QED
    BY <1>3 DEF S!Next

\* The pipes that closeFile frees are not in the tree.
LEMMA CloseFilesSeen ==
    ASSUME Whole, Whole', NEW p, NEW F, CloseFiles(p, F)
    PROVE  S!Next
  <1> DEFINE gone == Pipes(opened') \ Pipes(opened)
  <1>1. /\ kind' = [m \in Node |-> IF m \in gone THEN "free" ELSE kind[m]]
        /\ name' = [m \in Node |-> IF m \in gone THEN Null ELSE name[m]]
        /\ directory' = [m \in Node |-> IF m \in gone THEN Null ELSE directory[m]]
    BY DEF CloseFiles, Free
  <1>2. \A m \in gone : directory[m] = Null /\ m # root
    <2>1. kind[root] = "dir"
      BY WholeIs DEF Tree, Rooted
    <2>2. \A m \in gone : directory[m] = Null /\ kind[m] = "buffer"
      BY DEF Pipes
    <2>3. QED
      BY <2>1, <2>2
  <1> HIDE DEF gone
  <1>3. \A m \in InTree : /\ kind'[m] = kind[m] /\ directory'[m] = directory[m]
                          /\ name'[m] = name[m]
    BY <1>1, <1>2 DEF InTree
  <1>4. InTree' = InTree
    <2>1. InTree' = {m \in Node : m = root \/ directory'[m] # Null}
      BY DEF InTree
    <2>2. \A m \in Node : directory'[m] # Null <=> directory[m] # Null
      BY <1>1, <1>2
    <2>3. QED
      BY <2>1, <2>2 DEF InTree
  <1>5. S!Use
    BY <1>3, <1>4, UseStep
  <1>6. QED
    BY <1>5 DEF S!Next

\* Neither is one that openUnnamedPipe makes.
LEMMA OpenUnnamedPipeSeen ==
    ASSUME Whole, Whole', NEW p \in Process, OpenUnnamedPipe(p)
    PROVE  S!Next
  <1>1. PICK n \in Node : /\ Unused(n) /\ kind' = [kind EXCEPT ![n] = "buffer"]
                          /\ UNCHANGED <<name, directory>>
    BY DEF OpenUnnamedPipe
  <1>2. TypeOK /\ \A m \in InTree : kind[m] # "free"
    BY WholeIs, InTreeIs
  <1>3. \A m \in InTree : m \in Node \ {n}
    BY <1>1, <1>2 DEF Unused, InTree
  <1>4. \A m \in InTree : kind'[m] = kind[m]
    BY <1>1, <1>2, <1>3 DEF TypeOK
  <1>5. directory' = directory /\ name' = name
    BY <1>1
  <1>6. InTree' = InTree
    BY <1>5 DEF InTree
  <1>7. S!Use
    BY <1>4, <1>5, <1>6, UseStep
  <1>8. QED
    BY <1>7 DEF S!Next

\* The calls about paths.
LEMMA TreeCallSeen ==
    ASSUME Whole, Whole', NEW p \in Process, TreeCall(p)
    PROVE  S!Next
  <1>0. TypeOK /\ TInv
    BY WholeIs DEF Whole
  <1>1. ASSUME NEW path \in DirPath, ChangeCWD(p, path)
        PROVE  S!Next
    BY <1>1, SameSeen DEF ChangeCWD
  <1>2. ASSUME NEW path \in Path, NEW k \in Kind, NEW value, MakeFile(p, path, k, value)
        PROVE  S!Next
    BY <1>2, PathLen, MakeFileSeen
  <1>3. ASSUME NEW path \in Path, ExecCreate(p, path)
        PROVE  S!Next
    <2>1. CASE MakeFile(p, path, "exec", 1)
      BY <1>2, <1>3, <2>1 DEF ExecCreate, Kind
    <2>2. CASE UNCHANGED tree
      BY <2>2, SameSeen
    <2>3. QED
      BY <1>3, <2>1, <2>2 DEF ExecCreate
  <1>4. ASSUME NEW path \in Path, RemoveFile(GetFile(p, path))
        PROVE  S!Next
    <2>1. GetFile(p, path) # Null => GetFile(p, path) \in InTree
      BY <1>0, PathLen, Found
    <2>2. QED
      BY <1>4, <2>1, RemoveFileSeen
  <1>5. ASSUME NEW path \in Path, NEW m \in OpenMode, OpenToFd(p, GetFile(p, path), m)
        PROVE  S!Next
    BY <1>5, SameSeen DEF OpenToFd
  <1>6. "dir" \in Kind /\ "regular" \in Kind
    BY DEF Kind
  <1>7. QED
    BY <1>1, <1>2, <1>3, <1>4, <1>5, <1>6 DEF TreeCall

\* The calls about the names of semaphores and mutexes.
LEMMA ShmCallSeen ==
    ASSUME Whole, Whole', NEW p \in Process, ShmCall(p)
    PROVE  S!Next
  <1>1. PICK c \in ShmName : \/ SemCreate(p, c, 0) \/ MutexCreate(p, c) \/ SemDelete(p, c)
                             \/ MutexDelete(p, c) \/ SemOpen(p, c) \/ MutexOpen(p, c)
    BY DEF ShmCall
  <1> DEFINE n == GetFile(p, Shm(c))
  <1>2. Len(Shm(c).names) \in Nat \ {0}
    BY PathLen
  <1>3. CASE SemCreate(p, c, 0)
    BY <1>2, <1>3, MakeFileSeen DEF SemCreate, Kind
  <1>4. CASE MutexCreate(p, c)
    BY <1>2, <1>4, MakeFileSeen DEF MutexCreate, Kind
  <1>5. CASE SemDelete(p, c) \/ MutexDelete(p, c)
    <2>1. RemoveFile(n)
      BY <1>5 DEF SemDelete, MutexDelete, ShmDelete
    <2>2. n # Null => n \in InTree
      BY <1>2, Found, WholeIs DEF Whole
    <2> HIDE DEF n
    <2>3. QED
      BY <2>1, <2>2, RemoveFileSeen
  <1>6. CASE SemOpen(p, c) \/ MutexOpen(p, c)
    <2>1. OpenToFd(p, n, "rw")
      BY <1>6 DEF SemOpen, MutexOpen, ShmOpen
    <2> HIDE DEF n
    <2>2. QED
      BY <2>1, SameSeen DEF OpenToFd
  <1>7. QED
    BY <1>1, <1>3, <1>4, <1>5, <1>6

\* The calls about descriptors.
LEMMA FdCallSeen ==
    ASSUME Whole, Whole', NEW p \in Process, FdCall(p)
    PROVE  S!Next
  <1>1. CASE OpenUnnamedPipe(p)
    BY <1>1, OpenUnnamedPipeSeen
  <1>2. ASSUME NEW f \in Fd, Close(p, f)
        PROVE  S!Next
    BY <1>2, CloseFilesSeen DEF Close, CloseOne
  <1>3. ASSUME NEW f \in Fd, NEW g \in Fd, Dup2(p, f, g)
        PROVE  S!Next
    BY <1>3, SameSeen DEF Dup2, CloneFD
  <1>4. ASSUME NEW f \in Fd, \/ WriteFile(p, f, 1) \/ ReadFile(p, f, 1) \/ SemSet(p, f)
                             \/ SemSignal(p, f) \/ SemWait(p, f) \/ MutexLock(p, f)
                             \/ MutexUnlock(p, f)
        PROVE  S!Next
    <2>1. UNCHANGED tree
      BY <1>4 DEF WriteFile, ReadFile, SemSet, SemSignal, SemWait, MutexLock, MutexUnlock
    <2>2. QED
      BY <2>1, SameSeen
  <1>5. QED
    BY <1>1, <1>2, <1>3, <1>4 DEF FdCall

\* Every step is one of the map from paths to types, or changes nothing that users see.
LEMMA StepSeen == Whole /\ Whole' /\ [Next]_vars => [S!Next]_<<Seen, SeenOpened>>
  <1> SUFFICES ASSUME Whole, Whole', [Next]_vars
               PROVE  S!Next
    OBVIOUS
  <1>1. ASSUME NEW p \in Process, TreeCall(p) \/ ShmCall(p) \/ FdCall(p)
        PROVE  S!Next
    BY <1>1, TreeCallSeen, ShmCallSeen, FdCallSeen
  <1>2. ASSUME NEW p, NEW q, NEW from, CreateProcess(p, q, from)
        PROVE  S!Next
    BY <1>2, SameSeen DEF CreateProcess
  <1>3. ASSUME NEW p \in Process, KillProcess(p)
        PROVE  S!Next
    BY <1>3, CloseFilesSeen DEF KillProcess
  <1>4. ASSUME NEW p \in Process, ShmCloseCall(p)
        PROVE  S!Next
    BY <1>4, CloseFilesSeen DEF ShmCloseCall, SemClose, MutexClose, ShmClose, CloseOne
  <1>5. ASSUME UNCHANGED vars \/ \E p \in Process, f \in Fd : UseStale(p, f)
        PROVE  S!Next
    BY <1>5, SameSeen DEF vars, UseStale
  <1>6. QED
    BY <1>1, <1>2, <1>3, <1>4, <1>5 DEF Next, Call

\* At first users see the root, and each path once.
LEMMA InitSeen == Whole => S!Init
  <1> SUFFICES ASSUME Whole PROVE S!Init
    OBVIOUS
  <1>1. Paths /\ root \in InTree /\ kind[root] = "dir"
    BY WholeIs, InTreeIs DEF Tree, Rooted
  <1>2. <<<<>>, "dir">> \in Seen
    BY <1>1 DEF Seen, Paths
  <1>3. \A x, y \in Seen : x[1] = y[1] => x = y
    BY <1>1 DEF Seen, Paths
  <1>4. QED
    BY <1>2, <1>3 DEF S!Init

\* The tree is a map from paths to types: whatever processes make, remove, open, close and
\* leave behind, they see what NameSpace says, as long as rm is not called on a
\* process's current directory.
THEOREM NameSpaceKept == ~ MayRemoveCwd /\ Spec => ImplementsNameSpace
  <1>1. QED
    BY TreeInvariance, InitSeen, StepSeen, PTL DEF Spec, ImplementsNameSpace, S!Spec
=============================================================================
