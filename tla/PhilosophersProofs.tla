------------------------- MODULE PhilosophersProofs -------------------------
(***************************************************************************)
(* Proofs about Philosophers: any number of places, births, deaths, runs.  *)
(***************************************************************************)
EXTENDS Philosophers, FiniteSetTheorems, TLAPS

\* The places with one fork in hand, with two, and between the two semaphore calls on
\* phiInTable of one who eats.
WithOne == {"fork2", "back2", "dieLock", "dieUnlock", "cancel"}
WithTwo == {"lock1", "unlock1", "back1"}
Inside  == {"fork1", "fork2", "lock1", "unlock1", "back1", "back2", "leave"}

At(place, P) == IF place \in P THEN 1 ELSE 0
Hands(place) == At(place, WithOne) + 2 * At(place, WithTwo)

\* The inductive strengthening.  Forks in use and free ones are never more than births and
\* the forks left by earlier runs.
ForksKept == forks + Cardinality(In(WithOne)) + 2 * Cardinality(In(WithTwo)) <= leftForks + id

\* The table has its places also while main is inside born.
PlacesKept ==
    running /\ asked = 0 =>
        phiInTable + Cardinality(In(Inside))
          = leftPlaces + IF phis = <<>> THEN 0 ELSE Len(phis) - 1

\* Who is not born yet does nothing, nor does anybody between two runs, nobody dies before a death is asked for, and main is
\* inside born with room for the philosopher it has made.
Births ==
    /\ \A i \in Phi : i >= id => pc[i] = "none"
    /\ ~running => \A i \in Phi : pc[i] = "none"
    /\ pMutex = Main => running /\ id > 0 /\ Len(phis) < MaxPhi
    /\ asked = 0 => /\ philosophersToDie = 0
                    /\ \A i \in Phi : pc[i] \notin {"checkId", "suicide", "dieTable", "dieFork",
                                                    "dieLock", "dieUnlock", "cancel"}

IInv == TypeOK /\ ForksKept /\ PlacesKept /\ Births

-----------------------------------------------------------------------------
\* Sets of philosophers are finite.
LEMMA CountType ==
    ASSUME NEW S \in SUBSET Phi
    PROVE  IsFiniteSet(S) /\ Cardinality(S) \in Nat
  <1>1. IsFiniteSet(Phi)
    BY PhilosophersAssumption, FS_Interval DEF Phi
  <1>2. QED
    BY <1>1, FS_Subset, FS_CardinalityType

\* The number of those in some places, when one goes to another place.
LEMMA CountMove ==
    ASSUME pc \in [Phi -> Places], NEW i \in Phi, NEW from, NEW to, Goes(i, from, to), NEW P
    PROVE  Cardinality({j \in Phi : pc'[j] \in P})
             = Cardinality(In(P)) + At(to, P) - At(from, P)
  <1>0. pc[i] = from /\ pc'[i] = to /\ \A j \in Phi : j # i => pc'[j] = pc[j]
    BY DEF Goes
  <1> DEFINE S == In(P)
             T == {j \in Phi : pc'[j] \in P}
  <1>1. S \in SUBSET Phi /\ T \in SUBSET Phi
    BY DEF In
  <1>2. IsFiniteSet(S) /\ Cardinality(S) \in Nat /\ IsFiniteSet(T) /\ Cardinality(T) \in Nat
    BY <1>1, CountType
  <1>3. /\ i \in S <=> from \in P
        /\ i \in T <=> to \in P
        /\ \A j \in Phi : j # i => (j \in S <=> j \in T)
    BY <1>0 DEF In
  <1>4. CASE i \in S /\ i \in T
    <2>1. S = T
      BY <1>1, <1>3, <1>4
    <2>2. QED
      BY <1>2, <1>3, <1>4, <2>1 DEF At
  <1>5. CASE i \notin S /\ i \notin T
    <2>1. S = T
      BY <1>1, <1>3, <1>5
    <2>2. QED
      BY <1>2, <1>3, <1>5, <2>1 DEF At
  <1>6. CASE i \in S /\ i \notin T
    <2>1. T = S \ {i}
      BY <1>1, <1>3, <1>6
    <2>2. Cardinality(T) = Cardinality(S) - 1
      BY <1>2, <1>6, <2>1, FS_RemoveElement
    <2>3. QED
      BY <1>2, <1>3, <1>6, <2>2 DEF At
  <1>7. CASE i \notin S /\ i \in T
    <2>1. T = S \cup {i}
      BY <1>1, <1>3, <1>7
    <2>2. Cardinality(T) = Cardinality(S) + 1
      BY <1>2, <1>7, <2>1, FS_AddElement
    <2>3. QED
      BY <1>2, <1>3, <1>7, <2>2 DEF At
  <1>8. QED
    BY <1>4, <1>5, <1>6, <1>7

\* One sum of weighted counts before and after.
LEMMA ForkSum ==
    ASSUME NEW f \in Int, NEW g \in Int, NEW m \in Int, NEW n \in Int, NEW a \in Int, NEW b \in Int,
           NEW c \in Int, NEW d \in Int, NEW max \in Int, f + m + 2 * n <= max,
           g + (a + 2 * c) = f + (b + 2 * d)
    PROVE  g + (m + a - b) + 2 * (n + c - d) <= max
  OBVIOUS

\* A step of a philosopher keeps the forks, when the free ones and those in its hands are as
\* many as before.
LEMMA ForksStep ==
    ASSUME IInv, NEW i \in Phi, NEW from, NEW to, Goes(i, from, to), id' = id,
           leftForks' = leftForks, forks' \in Nat,
           forks' + Hands(to) = forks + Hands(from)
    PROVE  ForksKept'
  <1> DEFINE one == Cardinality({j \in Phi : pc'[j] \in WithOne})
             two == Cardinality({j \in Phi : pc'[j] \in WithTwo})
  <1>1. pc \in [Phi -> Places] /\ forks \in Int /\ leftForks + id \in Int /\ forks' \in Int
    BY DEF IInv, TypeOK
  <1>2. /\ At(to, WithOne) \in Int /\ At(to, WithTwo) \in Int
        /\ At(from, WithOne) \in Int /\ At(from, WithTwo) \in Int
    BY DEF At
  <1>3. one = Cardinality(In(WithOne)) + At(to, WithOne) - At(from, WithOne)
    BY <1>1, CountMove
  <1>4. two = Cardinality(In(WithTwo)) + At(to, WithTwo) - At(from, WithTwo)
    BY <1>1, CountMove
  <1>5. Cardinality(In(WithOne)) \in Int /\ Cardinality(In(WithTwo)) \in Int
    BY CountType DEF In
  <1>6. forks + Cardinality(In(WithOne)) + 2 * Cardinality(In(WithTwo)) <= leftForks + id
    BY DEF IInv, ForksKept
  <1>7. forks' + (At(to, WithOne) + 2 * At(to, WithTwo))
          = forks + (At(from, WithOne) + 2 * At(from, WithTwo))
    BY DEF Hands
  <1>8. forks' + (Cardinality(In(WithOne)) + At(to, WithOne) - At(from, WithOne))
          + 2 * (Cardinality(In(WithTwo)) + At(to, WithTwo) - At(from, WithTwo)) <= leftForks + id
    BY <1>1, <1>2, <1>5, <1>6, <1>7, ForkSum
  <1>9. forks' + one + 2 * two <= leftForks + id
    <2> HIDE DEF one, two
    <2> QED
      BY <1>3, <1>4, <1>8
  <1>10. QED
    BY <1>9 DEF ForksKept, In

\* And the places at the table, when those left and those taken are as many as before.
LEMMA PlacesStep ==
    ASSUME IInv, NEW i \in Phi, NEW from, NEW to, Goes(i, from, to), asked' = asked,
           running' = running, leftPlaces' = leftPlaces,
           asked = 0 => phis' = phis, phiInTable' \in Nat,
           asked = 0 => phiInTable' + At(to, Inside) = phiInTable + At(from, Inside)
    PROVE  PlacesKept'
  <1> DEFINE ins == Cardinality({j \in Phi : pc'[j] \in Inside})
             due == leftPlaces + IF phis = <<>> THEN 0 ELSE Len(phis) - 1
  <1>1. SUFFICES ASSUME running, asked = 0
                 PROVE  phiInTable' + ins = due
    BY DEF PlacesKept, In
  <1>2. pc \in [Phi -> Places] /\ phiInTable \in Int /\ phiInTable' \in Int
    BY DEF IInv, TypeOK
  <1>3. ins = Cardinality(In(Inside)) + At(to, Inside) - At(from, Inside)
    BY <1>2, CountMove
  <1>4. Cardinality(In(Inside)) \in Int
    BY CountType DEF In
  <1>5. phiInTable + Cardinality(In(Inside)) = due
    BY <1>1 DEF IInv, PlacesKept
  <1>6. At(to, Inside) \in Int /\ At(from, Inside) \in Int
    BY DEF At
  <1>7. phiInTable' + At(to, Inside) = phiInTable + At(from, Inside)
    BY <1>1
  <1>8. QED
    <2> HIDE DEF ins, due
    <2> QED
      BY <1>2, <1>3, <1>4, <1>5, <1>6, <1>7

\* And the rest of the invariant, when no more than the place, the semaphores and eMutex change.
LEMMA RestStep ==
    ASSUME IInv, NEW i \in Phi, NEW from, NEW to \in Places, Goes(i, from, to),
           from # "none", UNCHANGED <<pMutex, book, phiToDie>>,
           forks' \in Nat, phiInTable' \in Nat, eMutex' \in Phi \cup {Nobody, Gone},
           asked = 0 => to \notin {"checkId", "suicide", "dieTable", "dieFork", "dieLock",
                                   "dieUnlock", "cancel"}
    PROVE  TypeOK' /\ Births'
  <1>0. pc[i] = from /\ pc' = [pc EXCEPT ![i] = to]
    BY DEF Goes
  <1>1. TypeOK'
    BY <1>0 DEF IInv, TypeOK, book, run
  <1>2. pc'[i] = to /\ \A j \in Phi : j # i => pc'[j] = pc[j]
    BY <1>0 DEF IInv, TypeOK
  <1>3. Births'
    BY <1>0, <1>2 DEF IInv, Births, book, run
  <1>4. QED
    BY <1>1, <1>3

-----------------------------------------------------------------------------
\* Both counts of a set of places are the same when nobody moves.
LEMMA NobodyMoves ==
    ASSUME pc' = pc, IInv, id' \in Int, forks' \in Int, leftForks' = leftForks,
           forks' - forks <= id' - id
    PROVE  ForksKept'
  <1>1. In(WithOne)' = In(WithOne) /\ In(WithTwo)' = In(WithTwo)
    BY DEF In
  <1>2. Cardinality(In(WithOne)) \in Int /\ Cardinality(In(WithTwo)) \in Int
    BY CountType DEF In
  <1>3. forks \in Int /\ id \in Int /\ leftForks \in Int
    BY DEF IInv, TypeOK
  <1>4. forks + Cardinality(In(WithOne)) + 2 * Cardinality(In(WithTwo)) <= leftForks + id
    BY DEF IInv, ForksKept
  <1>5. forks' + Cardinality(In(WithOne)) + 2 * Cardinality(In(WithTwo)) <= leftForks + id'
    <2>1. \A f, g, m, n, c, d, l \in Int :
             f + m + 2 * n <= l + c /\ g - f <= d - c => g + m + 2 * n <= l + d
      OBVIOUS
    <2>2. QED
      BY <1>2, <1>3, <1>4, <2>1
  <1>6. QED
    BY <1>1, <1>5 DEF ForksKept

\* Who is nowhere is in none of the places.
LEMMA NobodyThere ==
    ASSUME \A i \in Phi : pc[i] = "none"
    PROVE  /\ Cardinality(In(WithOne)) = 0 /\ Cardinality(In(WithTwo)) = 0
           /\ Cardinality(In(Inside)) = 0
  <1>1. In(WithOne) = {} /\ In(WithTwo) = {} /\ In(Inside) = {}
    BY DEF In, WithOne, WithTwo, Inside
  <1>2. QED
    BY <1>1, FS_EmptySet

\* The invariant holds before the first philosopher is born.
LEMMA InitInvariant == Init => IInv
  <1> SUFFICES ASSUME Init PROVE IInv
    OBVIOUS
  <1>1. TypeOK
    <2>1. phis \in Seq(Phi) /\ Len(phis) <= MaxPhi
      BY PhilosophersAssumption DEF Init
    <2>2. pc \in [Phi -> Places] /\ phiToDie \in [Phi -> Phi]
      BY DEF Init, Places
    <2>3. indexToDie \in Phi /\ id \in 0 .. MaxBorn /\ asked \in 0 .. MaxAsked
      BY PhilosophersAssumption DEF Init, Phi
    <2>4. QED
      BY <2>1, <2>2, <2>3 DEF Init, TypeOK
  <1>2. /\ Cardinality(In(WithOne)) = 0 /\ Cardinality(In(WithTwo)) = 0
        /\ Cardinality(In(Inside)) = 0
    BY NobodyThere DEF Init
  <1>4. ForksKept
    BY <1>2 DEF Init, ForksKept
  <1>5. PlacesKept
    BY <1>2 DEF Init, PlacesKept
  <1>6. Births
    BY PhilosophersAssumption DEF Init, Births
  <1>7. QED
    BY <1>1, <1>4, <1>5, <1>6 DEF IInv

\* A thread is created: one birth and one fork more.
LEMMA BornCreateStep ==
    ASSUME IInv, BornCreate
    PROVE  IInv'
  <1>1. id \in Phi /\ pc[id] = "none"
    BY PhilosophersAssumption DEF IInv, TypeOK, Births, BornCreate, Phi
  <1>2. Goes(id, "none", "check")
    BY <1>1 DEF BornCreate, Goes
  <1>3. /\ At("none", WithOne) = 0 /\ At("check", WithOne) = 0
        /\ At("none", WithTwo) = 0 /\ At("check", WithTwo) = 0
        /\ At("none", Inside) = 0 /\ At("check", Inside) = 0
    BY DEF At, WithOne, WithTwo, Inside
  <1>4. /\ Cardinality(In(WithOne)) \in Int /\ Cardinality(In(WithTwo)) \in Int
        /\ Cardinality(In(Inside)) \in Int
    BY CountType DEF In
  <1>5. pc \in [Phi -> Places]
    BY DEF IInv, TypeOK
  <1>6. /\ Cardinality({j \in Phi : pc'[j] \in WithOne}) = Cardinality(In(WithOne))
        /\ Cardinality({j \in Phi : pc'[j] \in WithTwo}) = Cardinality(In(WithTwo))
        /\ Cardinality({j \in Phi : pc'[j] \in Inside}) = Cardinality(In(Inside))
    <2>1. Cardinality({j \in Phi : pc'[j] \in WithOne}) = Cardinality(In(WithOne)) + 0 - 0
      BY <1>1, <1>2, <1>3, <1>5, CountMove
    <2>2. Cardinality({j \in Phi : pc'[j] \in WithTwo}) = Cardinality(In(WithTwo)) + 0 - 0
      BY <1>1, <1>2, <1>3, <1>5, CountMove
    <2>3. Cardinality({j \in Phi : pc'[j] \in Inside}) = Cardinality(In(Inside)) + 0 - 0
      BY <1>1, <1>2, <1>3, <1>5, CountMove
    <2>4. QED
      BY <2>1, <2>2, <2>3, <1>4
  <1>7. /\ Cardinality(In(WithOne))' = Cardinality(In(WithOne))
        /\ Cardinality(In(WithTwo))' = Cardinality(In(WithTwo))
        /\ Cardinality(In(Inside))' = Cardinality(In(Inside))
    BY <1>6 DEF In
  <1>8. TypeOK'
    <2>1. pc' \in [Phi -> Places]
      BY <1>1, <1>5 DEF BornCreate, Places
    <2>2. forks' \in Nat /\ id' \in 0 .. MaxBorn /\ pMutex' \in {Nobody, Main, Gone}
      BY PhilosophersAssumption DEF IInv, TypeOK, BornCreate, run
    <2>3. QED
      BY <2>1, <2>2 DEF IInv, TypeOK, BornCreate, run
  <1>9. ForksKept'
    BY <1>4, <1>7 DEF IInv, TypeOK, ForksKept, BornCreate, run
  <1>10. PlacesKept'
    BY <1>7 DEF IInv, PlacesKept, BornCreate, run
  <1>11. Births'
    BY <1>1 DEF IInv, TypeOK, Births, BornCreate, run, Phi
  <1>12. QED
    BY <1>8, <1>9, <1>10, <1>11 DEF IInv

\* It is written down and the table gets a place, unless it is the first one.
LEMMA BornEnterStep ==
    ASSUME IInv, BornEnter
    PROVE  IInv'
  <1>1. id - 1 \in Phi /\ Len(phis) < MaxPhi
    BY PhilosophersAssumption DEF IInv, TypeOK, Births, BornEnter, Phi
  <1>2. phis' \in Seq(Phi) /\ Len(phis') = Len(phis) + 1 /\ phis' # <<>> /\ Len(phis) \in Nat
    BY <1>1 DEF IInv, TypeOK, BornEnter
  <1>3. TypeOK'
    BY <1>1, <1>2, PhilosophersAssumption DEF IInv, TypeOK, BornEnter, run
  <1>4. ForksKept'
    BY NobodyMoves DEF BornEnter, run, IInv, TypeOK
  <1>5. PlacesKept'
    <2>1. In(Inside)' = In(Inside)
      BY DEF In, BornEnter
    <2>2. Cardinality(In(Inside)) \in Int
      BY CountType DEF In
    <2>3. Len(phis) > 0 <=> phis # <<>>
      BY <1>2 DEF IInv, TypeOK
    <2>4. phiInTable' = IF phis = <<>> THEN phiInTable ELSE phiInTable + 1
      BY <2>3 DEF BornEnter
    <2>5. SUFFICES ASSUME running, asked = 0
                   PROVE  phiInTable' + Cardinality(In(Inside)) = leftPlaces + Len(phis)
      BY <1>2, <2>1 DEF PlacesKept, BornEnter, run
    <2>6. phiInTable + Cardinality(In(Inside))
            = leftPlaces + IF phis = <<>> THEN 0 ELSE Len(phis) - 1
      BY <2>5 DEF IInv, PlacesKept
    <2>7. phiInTable \in Int /\ leftPlaces \in Int
      BY DEF IInv, TypeOK
    <2>8. CASE phis = <<>>
      BY <1>2, <2>2, <2>3, <2>4, <2>6, <2>7, <2>8
    <2>9. CASE phis # <<>>
      BY <1>2, <2>2, <2>4, <2>6, <2>7, <2>9
    <2>10. QED
      BY <2>8, <2>9
  <1>6. Births'
    BY PhilosophersAssumption DEF IInv, Births, BornEnter, run, TypeOK
  <1>7. QED
    BY <1>3, <1>4, <1>5, <1>6 DEF IInv

\* A death is asked for: from here the table may have too many places or too few.
LEMMA DieStep ==
    ASSUME IInv, Die
    PROVE  IInv'
  <1>1. TypeOK' /\ asked' > 0
    BY PhilosophersAssumption DEF IInv, TypeOK, Die, sems, run
  <1>2. ForksKept'
    BY NobodyMoves DEF Die, IInv, TypeOK, sems, run
  <1>3. PlacesKept' /\ Births'
    BY <1>1, PhilosophersAssumption DEF IInv, PlacesKept, Births, Die, run
  <1>4. QED
    BY <1>1, <1>2, <1>3 DEF IInv

-----------------------------------------------------------------------------
\* What the philosopher of a place has in hand, and whether it is inside.
LEMMA HandsAt ==
    /\ \A p \in {"check", "checkId", "enter", "fork1", "leave", "lock2", "unlock2", "suicide",
                 "dieTable", "dieFork"} : Hands(p) = 0
    /\ \A p \in WithOne : Hands(p) = 1
    /\ \A p \in WithTwo : Hands(p) = 2
  <1>1. ASSUME NEW p \in WithOne
        PROVE  At(p, WithOne) = 1 /\ At(p, WithTwo) = 0
    BY DEF At, WithOne, WithTwo
  <1>2. ASSUME NEW p \in WithTwo
        PROVE  At(p, WithOne) = 0 /\ At(p, WithTwo) = 1
    BY DEF At, WithOne, WithTwo
  <1>3. ASSUME NEW p, p \notin WithOne, p \notin WithTwo
        PROVE  At(p, WithOne) = 0 /\ At(p, WithTwo) = 0
    BY <1>3 DEF At
  <1>4. QED
    BY <1>1, <1>2, <1>3 DEF Hands, WithOne, WithTwo

\* Being inside counts as one.
LEMMA InsideAt ==
    /\ \A p \in Inside : At(p, Inside) = 1
    /\ \A p : p \notin Inside => At(p, Inside) = 0
  BY DEF At

\* A step of a philosopher that changes no more than its place, the semaphores and eMutex.
LEMMA LiveStep ==
    ASSUME IInv, NEW i \in Phi, NEW from, NEW to \in Places, Goes(i, from, to),
           from # "none", UNCHANGED <<pMutex, book, phiToDie>>,
           forks' \in Nat, phiInTable' \in Nat, eMutex' \in Phi \cup {Nobody, Gone},
           asked = 0 => to \notin {"checkId", "suicide", "dieTable", "dieFork", "dieLock",
                                   "dieUnlock", "cancel"},
           forks' + Hands(to) = forks + Hands(from),
           asked = 0 => phiInTable' + At(to, Inside) = phiInTable + At(from, Inside)
    PROVE  IInv'
  <1>1. TypeOK' /\ Births'
    BY RestStep
  <1>2. /\ id' = id /\ asked' = asked /\ phis' = phis
        /\ UNCHANGED <<running, leftForks, leftPlaces>>
    BY DEF book, run
  <1>3. ForksKept' /\ PlacesKept'
    BY <1>2, ForksStep, PlacesStep
  <1>4. QED
    BY <1>1, <1>3 DEF IInv

\* A philosopher is where its step starts; who dies does so because a death was asked for.
LEMMA FromPlace ==
    ASSUME IInv, NEW i \in Phi, NEW from, NEW to, Goes(i, from, to)
    PROVE  asked = 0 => from \notin {"checkId", "suicide", "dieTable", "dieFork", "dieLock",
                                     "dieUnlock", "cancel"}
  BY DEF IInv, Births, Goes

\* A place at the table is taken, by one who then has no fork yet.
LEMMA EnterStep ==
    ASSUME IInv, NEW i \in Phi, Enter(i)
    PROVE  IInv'
  <1>1. /\ UNCHANGED <<pMutex, book, phiToDie>>
        /\ forks' = forks /\ phiInTable' = phiInTable - 1
        /\ forks \in Int /\ phiInTable \in Int
        /\ forks' \in Nat /\ phiInTable' \in Nat /\ eMutex' \in Phi \cup {Nobody, Gone}
    BY DEF IInv, TypeOK, Enter, sems
  <1>2. CASE Goes(i, "enter", "fork1")
    <2>1. /\ "fork1" \in Places
          /\ Hands("enter") = 0 /\ At("enter", Inside) = 0
          /\ Hands("fork1") = 0 /\ At("fork1", Inside) = 1
      BY HandsAt, InsideAt DEF Places, WithOne, WithTwo, Inside
    <2>2. forks' + Hands("fork1") = forks + Hands("enter")
      BY <1>1, <2>1
    <2>3. phiInTable' + At("fork1", Inside) = phiInTable + At("enter", Inside)
      BY <1>1, <2>1
    <2>4. QED
      BY <1>1, <1>2, <2>1, <2>2, <2>3, LiveStep
  <1>3. CASE Goes(i, "dieTable", "dieFork")
    <2>1. /\ "dieFork" \in Places
          /\ Hands("dieTable") = 0 /\ At("dieTable", Inside) = 0
          /\ Hands("dieFork") = 0 /\ At("dieFork", Inside) = 0
      BY HandsAt, InsideAt DEF Places, WithOne, WithTwo, Inside
    <2>2. forks' + Hands("dieFork") = forks + Hands("dieTable")
      BY <1>1, <2>1
    <2>3. asked # 0
      BY <1>3, FromPlace
    <2>4. QED
      BY <1>1, <1>3, <2>1, <2>2, <2>3, LiveStep
  <1>4. QED
    BY <1>2, <1>3 DEF Enter

\* A fork goes from the free ones into a hand.
LEMMA TakeForkStep ==
    ASSUME IInv, NEW i \in Phi, TakeFork(i)
    PROVE  IInv'
  <1>1. /\ UNCHANGED <<pMutex, book, phiToDie>>
        /\ forks' = forks - 1 /\ phiInTable' = phiInTable
        /\ forks \in Int /\ phiInTable \in Int
        /\ forks' \in Nat /\ phiInTable' \in Nat /\ eMutex' \in Phi \cup {Nobody, Gone}
    BY DEF IInv, TypeOK, TakeFork, sems
  <1>2. CASE Goes(i, "fork1", "fork2")
    <2>1. /\ "fork2" \in Places
          /\ Hands("fork1") = 0 /\ At("fork1", Inside) = 1
          /\ Hands("fork2") = 1 /\ At("fork2", Inside) = 1
      BY HandsAt, InsideAt DEF Places, WithOne, WithTwo, Inside
    <2>2. forks' + Hands("fork2") = forks + Hands("fork1")
      BY <1>1, <2>1
    <2>3. phiInTable' + At("fork2", Inside) = phiInTable + At("fork1", Inside)
      BY <1>1, <2>1
    <2>4. QED
      BY <1>1, <1>2, <2>1, <2>2, <2>3, LiveStep
  <1>3. CASE Goes(i, "fork2", "lock1")
    <2>1. /\ "lock1" \in Places
          /\ Hands("fork2") = 1 /\ At("fork2", Inside) = 1
          /\ Hands("lock1") = 2 /\ At("lock1", Inside) = 1
      BY HandsAt, InsideAt DEF Places, WithOne, WithTwo, Inside
    <2>2. forks' + Hands("lock1") = forks + Hands("fork2")
      BY <1>1, <2>1
    <2>3. phiInTable' + At("lock1", Inside) = phiInTable + At("fork2", Inside)
      BY <1>1, <2>1
    <2>4. QED
      BY <1>1, <1>3, <2>1, <2>2, <2>3, LiveStep
  <1>4. CASE Goes(i, "dieFork", "dieLock")
    <2>1. /\ "dieLock" \in Places
          /\ Hands("dieFork") = 0 /\ At("dieFork", Inside) = 0
          /\ Hands("dieLock") = 1 /\ At("dieLock", Inside) = 0
      BY HandsAt, InsideAt DEF Places, WithOne, WithTwo, Inside
    <2>2. forks' + Hands("dieLock") = forks + Hands("dieFork")
      BY <1>1, <2>1
    <2>3. asked # 0
      BY <1>4, FromPlace
    <2>4. QED
      BY <1>1, <1>4, <2>1, <2>2, <2>3, LiveStep
  <1>5. QED
    BY <1>2, <1>3, <1>4 DEF TakeFork

\* The bookkeeping of a meal moves no fork and no place.
LEMMA LockStep ==
    ASSUME IInv, NEW i \in Phi, Lock(i)
    PROVE  IInv'
  <1>1. /\ UNCHANGED <<pMutex, book, phiToDie>>
        /\ forks' = forks /\ phiInTable' = phiInTable
        /\ forks \in Int /\ phiInTable \in Int
        /\ forks' \in Nat /\ phiInTable' \in Nat /\ eMutex' \in Phi \cup {Nobody, Gone}
    BY DEF IInv, TypeOK, Lock, sems
  <1>2. CASE Goes(i, "lock1", "unlock1")
    <2>1. /\ "unlock1" \in Places
          /\ Hands("lock1") = 2 /\ At("lock1", Inside) = 1
          /\ Hands("unlock1") = 2 /\ At("unlock1", Inside) = 1
      BY HandsAt, InsideAt DEF Places, WithOne, WithTwo, Inside
    <2>2. forks' + Hands("unlock1") = forks + Hands("lock1")
      BY <1>1, <2>1
    <2>3. phiInTable' + At("unlock1", Inside) = phiInTable + At("lock1", Inside)
      BY <1>1, <2>1
    <2>4. QED
      BY <1>1, <1>2, <2>1, <2>2, <2>3, LiveStep
  <1>3. CASE Goes(i, "lock2", "unlock2")
    <2>1. /\ "unlock2" \in Places
          /\ Hands("lock2") = 0 /\ At("lock2", Inside) = 0
          /\ Hands("unlock2") = 0 /\ At("unlock2", Inside) = 0
      BY HandsAt, InsideAt DEF Places, WithOne, WithTwo, Inside
    <2>2. forks' + Hands("unlock2") = forks + Hands("lock2")
      BY <1>1, <2>1
    <2>3. phiInTable' + At("unlock2", Inside) = phiInTable + At("lock2", Inside)
      BY <1>1, <2>1
    <2>4. QED
      BY <1>1, <1>3, <2>1, <2>2, <2>3, LiveStep
  <1>4. CASE Goes(i, "dieLock", "dieUnlock")
    <2>1. /\ "dieUnlock" \in Places
          /\ Hands("dieLock") = 1 /\ At("dieLock", Inside) = 0
          /\ Hands("dieUnlock") = 1 /\ At("dieUnlock", Inside) = 0
      BY HandsAt, InsideAt DEF Places, WithOne, WithTwo, Inside
    <2>2. forks' + Hands("dieUnlock") = forks + Hands("dieLock")
      BY <1>1, <2>1
    <2>3. asked # 0
      BY <1>4, FromPlace
    <2>4. QED
      BY <1>1, <1>4, <2>1, <2>2, <2>3, LiveStep
  <1>5. QED
    BY <1>2, <1>3, <1>4 DEF Lock

\* Nor does its end.
LEMMA UnlockStep ==
    ASSUME IInv, NEW i \in Phi, Unlock(i)
    PROVE  IInv'
  <1>1. /\ UNCHANGED <<pMutex, book, phiToDie>>
        /\ forks' = forks /\ phiInTable' = phiInTable
        /\ forks \in Int /\ phiInTable \in Int
        /\ forks' \in Nat /\ phiInTable' \in Nat /\ eMutex' \in Phi \cup {Nobody, Gone}
    BY DEF IInv, TypeOK, Unlock, sems
  <1>2. CASE Goes(i, "unlock1", "back1")
    <2>1. /\ "back1" \in Places
          /\ Hands("unlock1") = 2 /\ At("unlock1", Inside) = 1
          /\ Hands("back1") = 2 /\ At("back1", Inside) = 1
      BY HandsAt, InsideAt DEF Places, WithOne, WithTwo, Inside
    <2>2. forks' + Hands("back1") = forks + Hands("unlock1")
      BY <1>1, <2>1
    <2>3. phiInTable' + At("back1", Inside) = phiInTable + At("unlock1", Inside)
      BY <1>1, <2>1
    <2>4. QED
      BY <1>1, <1>2, <2>1, <2>2, <2>3, LiveStep
  <1>3. CASE Goes(i, "unlock2", "check")
    <2>1. /\ "check" \in Places
          /\ Hands("unlock2") = 0 /\ At("unlock2", Inside) = 0
          /\ Hands("check") = 0 /\ At("check", Inside) = 0
      BY HandsAt, InsideAt DEF Places, WithOne, WithTwo, Inside
    <2>2. forks' + Hands("check") = forks + Hands("unlock2")
      BY <1>1, <2>1
    <2>3. phiInTable' + At("check", Inside) = phiInTable + At("unlock2", Inside)
      BY <1>1, <2>1
    <2>4. QED
      BY <1>1, <1>3, <2>1, <2>2, <2>3, LiveStep
  <1>4. CASE Goes(i, "dieUnlock", "cancel")
    <2>1. /\ "cancel" \in Places
          /\ Hands("dieUnlock") = 1 /\ At("dieUnlock", Inside) = 0
          /\ Hands("cancel") = 1 /\ At("cancel", Inside) = 0
      BY HandsAt, InsideAt DEF Places, WithOne, WithTwo, Inside
    <2>2. forks' + Hands("cancel") = forks + Hands("dieUnlock")
      BY <1>1, <2>1
    <2>3. asked # 0
      BY <1>4, FromPlace
    <2>4. QED
      BY <1>1, <1>4, <2>1, <2>2, <2>3, LiveStep
  <1>5. QED
    BY <1>2, <1>3, <1>4 DEF Unlock

\* A fork goes from a hand back to the free ones.
LEMMA PutForkStep ==
    ASSUME IInv, NEW i \in Phi, PutFork(i)
    PROVE  IInv'
  <1>1. /\ UNCHANGED <<pMutex, book, phiToDie>>
        /\ forks' = forks + 1 /\ phiInTable' = phiInTable
        /\ forks \in Int /\ phiInTable \in Int
        /\ forks' \in Nat /\ phiInTable' \in Nat /\ eMutex' \in Phi \cup {Nobody, Gone}
    BY DEF IInv, TypeOK, PutFork, sems
  <1>2. CASE Goes(i, "back1", "back2")
    <2>1. /\ "back2" \in Places
          /\ Hands("back1") = 2 /\ At("back1", Inside) = 1
          /\ Hands("back2") = 1 /\ At("back2", Inside) = 1
      BY HandsAt, InsideAt DEF Places, WithOne, WithTwo, Inside
    <2>2. forks' + Hands("back2") = forks + Hands("back1")
      BY <1>1, <2>1
    <2>3. phiInTable' + At("back2", Inside) = phiInTable + At("back1", Inside)
      BY <1>1, <2>1
    <2>4. QED
      BY <1>1, <1>2, <2>1, <2>2, <2>3, LiveStep
  <1>3. CASE Goes(i, "back2", "leave")
    <2>1. /\ "leave" \in Places
          /\ Hands("back2") = 1 /\ At("back2", Inside) = 1
          /\ Hands("leave") = 0 /\ At("leave", Inside) = 1
      BY HandsAt, InsideAt DEF Places, WithOne, WithTwo, Inside
    <2>2. forks' + Hands("leave") = forks + Hands("back2")
      BY <1>1, <2>1
    <2>3. phiInTable' + At("leave", Inside) = phiInTable + At("back2", Inside)
      BY <1>1, <2>1
    <2>4. QED
      BY <1>1, <1>3, <2>1, <2>2, <2>3, LiveStep
  <1>4. QED
    BY <1>2, <1>3 DEF PutFork

\* The place of one who leaves is free again.
LEMMA LeaveStep ==
    ASSUME IInv, NEW i \in Phi, Leave(i)
    PROVE  IInv'
  <1>1. /\ UNCHANGED <<pMutex, book, phiToDie>>
        /\ forks' = forks /\ phiInTable' = phiInTable + 1
        /\ forks \in Int /\ phiInTable \in Int
        /\ forks' \in Nat /\ phiInTable' \in Nat /\ eMutex' \in Phi \cup {Nobody, Gone}
    BY DEF IInv, TypeOK, Leave, sems
  <1>2. CASE Goes(i, "leave", "lock2")
    <2>1. /\ "lock2" \in Places
          /\ Hands("leave") = 0 /\ At("leave", Inside) = 1
          /\ Hands("lock2") = 0 /\ At("lock2", Inside) = 0
      BY HandsAt, InsideAt DEF Places, WithOne, WithTwo, Inside
    <2>2. forks' + Hands("lock2") = forks + Hands("leave")
      BY <1>1, <2>1
    <2>3. phiInTable' + At("lock2", Inside) = phiInTable + At("leave", Inside)
      BY <1>1, <2>1
    <2>4. QED
      BY <1>1, <1>2, <2>1, <2>2, <2>3, LiveStep
  <1>3. QED
    BY <1>2 DEF Leave

\* A look at philosophersToDie and indexToDie moves nothing, and only leads to a suicide when
\* somebody was sent to die.
LEMMA CheckStep ==
    ASSUME IInv, NEW i \in Phi, Check(i)
    PROVE  IInv'
  <1>1. /\ UNCHANGED <<pMutex, book, phiToDie>>
        /\ forks' = forks /\ phiInTable' = phiInTable
        /\ forks \in Int /\ phiInTable \in Int
        /\ forks' \in Nat /\ phiInTable' \in Nat /\ eMutex' \in Phi \cup {Nobody, Gone}
    BY DEF IInv, TypeOK, Check, sems
  <1>2. \A p \in {"check", "checkId", "enter", "suicide"} :
            p \in Places /\ Hands(p) = 0 /\ At(p, Inside) = 0
    BY HandsAt, InsideAt DEF Places, Inside
  <1>3. ASSUME NEW from \in {"check", "checkId"}, NEW to \in {"checkId", "enter", "suicide"},
               Goes(i, from, to), asked = 0 => to = "enter"
        PROVE  IInv'
    <2>1. forks' + Hands(to) = forks + Hands(from)
      BY <1>1, <1>2
    <2>2. phiInTable' + At(to, Inside) = phiInTable + At(from, Inside)
      BY <1>1, <1>2
    <2>3. from # "none" /\ to \in Places
      BY <1>2
    <2>4. asked = 0 => to \notin {"checkId", "suicide", "dieTable", "dieFork", "dieLock",
                                  "dieUnlock", "cancel"}
      BY <1>3
    <2>5. QED
      BY <1>1, <1>3, <2>1, <2>2, <2>3, <2>4, LiveStep
  <1>4. CASE Goes(i, "check", IF philosophersToDie > 0 THEN "checkId" ELSE "enter")
    <2>1. asked = 0 => philosophersToDie = 0
      BY DEF IInv, Births
    <2>2. CASE philosophersToDie > 0
      BY <1>3, <1>4, <2>1, <2>2
    <2>3. CASE ~(philosophersToDie > 0)
      BY <1>3, <1>4, <2>3
    <2>4. QED
      BY <2>2, <2>3
  <1>5. CASE Goes(i, "checkId", IF i = indexToDie THEN "suicide" ELSE "enter")
    <2>1. asked # 0
      BY <1>5, FromPlace
    <2>2. CASE i = indexToDie
      BY <1>3, <1>5, <2>1, <2>2
    <2>3. CASE i # indexToDie
      BY <1>3, <1>5, <2>1, <2>3
    <2>4. QED
      BY <2>2, <2>3
  <1>6. QED
    BY <1>4, <1>5 DEF Check

\* All but the last of a sequence.
LEMMA FrontType ==
    ASSUME NEW S, NEW s \in Seq(S), s # <<>>
    PROVE  Front(s) \in Seq(S) /\ Len(Front(s)) = Len(s) - 1 /\ Len(s) \in Nat
  <1>1. SubSeq(s, 1, Len(s) - 1) \in Seq(S)
    OBVIOUS
  <1>2. Len(s) \in Nat /\ Len(s) > 0
    OBVIOUS
  <1> DEFINE n == Len(s) - 1
  <1>3. n \in Nat
    BY <1>2
  <1>4. Len(SubSeq(s, 1, n)) = n
    <2> HIDE DEF n
    <2> QED
      BY <1>3
  <1>5. QED
    BY <1>1, <1>2, <1>4 DEF Front

\* A suicide takes the last philosopher off the list; a death was asked for, so that nothing is
\* said of the table's places any more.
LEMMA SuicideStep ==
    ASSUME IInv, NEW i \in Phi, Suicide(i)
    PROVE  IInv'
  <1>1. Goes(i, "suicide", "dieTable") /\ pc \in [Phi -> Places] /\ phis \in Seq(Phi)
    BY DEF Suicide, IInv, TypeOK
  <1>2. asked # 0
    BY <1>1, FromPlace
  <1>3. phis' \in Seq(Phi) /\ Len(phis') <= MaxPhi
    <2>1. phis' = Front(phis) /\ phis # <<>>
      BY DEF Suicide
    <2>2. phis' \in Seq(Phi) /\ Len(phis') = Len(phis) - 1 /\ Len(phis) \in Nat
      BY <1>1, <2>1, FrontType
    <2>3. QED
      BY <2>2, PhilosophersAssumption DEF IInv, TypeOK
  <1>4. phiToDie' \in [Phi -> Phi] /\ indexToDie' \in Phi \cup {-1}
    <2>1. Len(phis) \in Nat /\ Len(phis) > 0
      BY <1>1 DEF Suicide
    <2>2. Last(phis) \in Phi
      BY <1>1, <2>1 DEF Last
    <2>3. Len(phis) > 1 => phis[Len(phis) - 1] \in Phi
      BY <1>1, <2>1
    <2>4. QED
      BY <2>2, <2>3 DEF Suicide, IInv, TypeOK
  <1>5. pc' = [pc EXCEPT ![i] = "dieTable"] /\ pc[i] = "suicide" /\ "dieTable" \in Places
    BY <1>1 DEF Goes, Places
  <1>6. TypeOK'
    BY <1>3, <1>4, <1>5 DEF Suicide, IInv, TypeOK, sems, run
  <1>7. ForksKept'
    <2>1. Hands("suicide") = 0 /\ Hands("dieTable") = 0
      BY HandsAt
    <2>2. forks' = forks /\ id' = id /\ leftForks' = leftForks /\ forks \in Nat
      BY DEF Suicide, sems, run, IInv, TypeOK
    <2>3. QED
      BY <1>1, <2>1, <2>2, ForksStep
  <1>8. PlacesKept'
    BY <1>2 DEF PlacesKept, Suicide
  <1>9. Births'
    <2>1. pMutex' = Nobody /\ asked' = asked /\ id' = id /\ running' = running /\ running
      BY <1>1 DEF Suicide, run, IInv, Births, Goes
    <2>2. i < id
      BY <1>5 DEF IInv, Births, TypeOK, Phi
    <2>3. \A j \in Phi : j >= id => pc'[j] = "none"
      BY <1>1, <1>5, <2>2 DEF IInv, Births, TypeOK, Phi
    <2>4. QED
      BY <1>2, <2>1, <2>3, PhilosophersAssumption DEF Births
  <1>10. QED
    BY <1>6, <1>7, <1>8, <1>9 DEF IInv

\* pthread_cancel: the victim's hands are empty from then on, and so are the caller's (the fork
\* of a dead philosopher is not put back).
LEMMA CancelStep ==
    ASSUME IInv, NEW i \in Phi, Cancel(i)
    PROVE  IInv'
  <1> DEFINE v == phiToDie[i]
  <1>1. /\ v \in Phi /\ pc \in [Phi -> Places] /\ pc[i] = "cancel"
        /\ pc' = [pc EXCEPT ![i] = "enter", ![v] = "none"]
        /\ UNCHANGED <<forks, phiInTable, pMutex, eMutex, phis, philosophersToDie, indexToDie, id,
                       asked, phiToDie, running, leftForks, leftPlaces>>
    BY DEF IInv, TypeOK, Cancel, sems, book, run
  <1>2. asked # 0
    BY <1>1 DEF IInv, Births
  <1>3. pc'[v] = "none" /\ (i # v => pc'[i] = "enter")
        /\ \A j \in Phi : j # i /\ j # v => pc'[j] = pc[j]
    BY <1>1
  <1>4. TypeOK'
    <2>1. pc' \in [Phi -> Places]
      BY <1>1 DEF Places
    <2>2. QED
      BY <1>1, <2>1 DEF IInv, TypeOK
  <1>5. ForksKept'
    <2> DEFINE one == {j \in Phi : pc'[j] \in WithOne}
               two == {j \in Phi : pc'[j] \in WithTwo}
    <2>1. one \subseteq In(WithOne) /\ two \subseteq In(WithTwo)
      BY <1>3 DEF In, WithOne, WithTwo
    <2>2. /\ IsFiniteSet(In(WithOne)) /\ Cardinality(In(WithOne)) \in Nat
          /\ IsFiniteSet(In(WithTwo)) /\ Cardinality(In(WithTwo)) \in Nat
      BY CountType DEF In
    <2>3. /\ Cardinality(one) \in Nat /\ Cardinality(one) <= Cardinality(In(WithOne))
          /\ Cardinality(two) \in Nat /\ Cardinality(two) <= Cardinality(In(WithTwo))
      BY <2>1, <2>2, CountType, FS_Subset
    <2>4. forks + Cardinality(In(WithOne)) + 2 * Cardinality(In(WithTwo)) <= leftForks + id
          /\ forks \in Nat /\ id \in Nat /\ leftForks \in Nat
      BY DEF IInv, ForksKept, TypeOK
    <2>5. forks + Cardinality(one) + 2 * Cardinality(two) <= leftForks + id
      <3> HIDE DEF one, two
      <3> QED
        BY <2>2, <2>3, <2>4
    <2>6. QED
      BY <1>1, <2>5 DEF ForksKept, In
  <1>6. PlacesKept'
    BY <1>1, <1>2 DEF PlacesKept
  <1>7. Births'
    <2>1. i < id
      BY <1>1 DEF IInv, Births, TypeOK, Phi
    <2>2. \A j \in Phi : j >= id => pc'[j] = "none"
      BY <1>1, <1>3, <2>1 DEF IInv, Births, TypeOK, Phi
    <2>3. QED
      BY <1>1, <1>2, <1>3, <2>2 DEF IInv, Births
  <1>8. QED
    BY <1>4, <1>5, <1>6, <1>7 DEF IInv

\* The end of a run: nobody has a fork in hand any more, or sits at the table.
LEMMA EndStep ==
    ASSUME IInv, Quit \/ Interrupt
    PROVE  IInv'
  <1>1. /\ running' = FALSE /\ pc' = [i \in Phi |-> "none"] /\ phiToDie' = [i \in Phi |-> i]
        /\ pMutex' \in {Nobody, Gone} /\ eMutex' \in {Nobody, Gone}
        /\ UNCHANGED <<forks, phiInTable, phis, philosophersToDie, indexToDie, id, asked,
                       leftForks, leftPlaces>>
    BY DEF Quit, Interrupt, Leaves, sems
  <1>2. TypeOK'
    BY <1>1 DEF IInv, TypeOK, Places
  <1>3. ForksKept'
    <2>1. \A i \in Phi : pc'[i] = "none"
      BY <1>1
    <2>2. {i \in Phi : pc'[i] \in WithOne} = {} /\ {i \in Phi : pc'[i] \in WithTwo} = {}
      BY <2>1 DEF WithOne, WithTwo
    <2>3. Cardinality({}) = 0
      BY FS_EmptySet
    <2>4. /\ Cardinality(In(WithOne)) \in Nat /\ Cardinality(In(WithTwo)) \in Nat
          /\ forks + Cardinality(In(WithOne)) + 2 * Cardinality(In(WithTwo)) <= leftForks + id
          /\ forks \in Nat /\ id \in Nat /\ leftForks \in Nat
      BY CountType DEF In, IInv, ForksKept, TypeOK
    <2>5. forks <= leftForks + id
      BY <2>4
    <2>6. In(WithOne)' = {} /\ In(WithTwo)' = {}
      BY <2>2 DEF In
    <2>7. forks' + Cardinality(In(WithOne)') + 2 * Cardinality(In(WithTwo)') <= leftForks' + id'
      BY <1>1, <2>3, <2>4, <2>5, <2>6
    <2>8. QED
      BY <2>7 DEF ForksKept
  <1>4. PlacesKept' /\ Births'
    BY <1>1, PhilosophersAssumption DEF IInv, PlacesKept, Births
  <1>5. QED
    BY <1>2, <1>3, <1>4 DEF IInv

\* A later run begins with the forks and the places that are left.
LEMMA AgainStep ==
    ASSUME IInv, Again
    PROVE  IInv'
  <1>1. /\ ~running /\ running' = TRUE /\ leftForks' = forks /\ leftPlaces' = phiInTable
        /\ phis' = <<>> /\ philosophersToDie' = 0 /\ indexToDie' = 0 /\ id' = 0 /\ asked' = 0
        /\ UNCHANGED <<forks, phiInTable, pMutex, eMutex, pc, phiToDie>>
    BY DEF Again, sems
  <1>2. \A i \in Phi : pc[i] = "none"
    BY <1>1 DEF IInv, Births
  <1>3. TypeOK'
    <2>1. phis' \in Seq(Phi) /\ Len(phis') <= MaxPhi
      BY <1>1, PhilosophersAssumption
    <2>2. indexToDie' \in Phi /\ id' \in 0 .. MaxBorn /\ asked' \in 0 .. MaxAsked
      BY <1>1, PhilosophersAssumption DEF Phi
    <2>3. QED
      BY <1>1, <2>1, <2>2 DEF IInv, TypeOK
  <1>4. /\ In(WithOne)' = {} /\ In(WithTwo)' = {} /\ In(Inside)' = {}
        /\ Cardinality({}) = 0
    BY <1>1, <1>2, FS_EmptySet DEF In, WithOne, WithTwo, Inside
  <1>5. forks \in Nat /\ phiInTable \in Nat
    BY DEF IInv, TypeOK
  <1>6. ForksKept' /\ PlacesKept'
    <2>1. forks' + Cardinality(In(WithOne)') + 2 * Cardinality(In(WithTwo)') <= leftForks' + id'
      BY <1>1, <1>4, <1>5
    <2>2. phiInTable' + Cardinality(In(Inside)') = leftPlaces' + 0
      BY <1>1, <1>4, <1>5
    <2>3. QED
      BY <1>1, <2>1, <2>2 DEF ForksKept, PlacesKept
  <1>7. Births'
    BY <1>1, <1>2 DEF IInv, Births
  <1>8. QED
    BY <1>3, <1>6, <1>7 DEF IInv

-----------------------------------------------------------------------------
\* Every step keeps the invariant.
LEMMA Step == IInv /\ [Next]_vars => IInv'
  <1> SUFFICES ASSUME IInv, [Next]_vars
               PROVE  IInv'
    OBVIOUS
  <1>1. CASE BornCreate
    BY <1>1, BornCreateStep
  <1>2. CASE BornEnter
    BY <1>2, BornEnterStep
  <1>3. CASE Die
    BY <1>3, DieStep
  <1>4. ASSUME NEW i \in Phi, Live(i)
        PROVE  IInv'
    BY <1>4, CheckStep, EnterStep, TakeForkStep, LockStep, UnlockStep, PutForkStep, LeaveStep,
       SuicideStep, CancelStep DEF Live
  <1>7. CASE Quit \/ Interrupt
    BY <1>7, EndStep
  <1>8. CASE Again
    BY <1>8, AgainStep
  <1>5. CASE UNCHANGED vars
    <2>1. TypeOK'
      BY <1>5 DEF vars, sems, book, run, IInv, TypeOK
    <2>2. ForksKept' /\ PlacesKept' /\ Births'
      BY <1>5 DEF vars, sems, book, run, IInv, ForksKept, PlacesKept, Births, In
    <2>3. QED
      BY <2>1, <2>2 DEF IInv
  <1>6. QED
    BY <1>1, <1>2, <1>3, <1>4, <1>5, <1>7, <1>8 DEF Next

\* The invariant holds in every state.
THEOREM Invariance == Spec => []IInv
  <1>1. QED
    BY InitInvariant, Step, PTL DEF Spec

\* In every run, whatever births, meals and deaths interleave and however earlier runs ended,
\* the forks in hand and the free ones are never more than this run's births and those that
\* were left over.
THEOREM ForksRight == Spec => []NoForkInTwoHands
  <1>1. IInv => NoForkInTwoHands
    BY DEF IInv, ForksKept, NoForkInTwoHands, WithOne, WithTwo
  <1>2. QED
    BY <1>1, Invariance, PTL

\* As long as nobody was sent to die in a run the table has one place less than philosophers,
\* besides the places that earlier runs left.
THEOREM TableRight == Spec => []OneStaysOut
  <1>1. IInv => OneStaysOut
    BY DEF IInv, PlacesKept, OneStaysOut, Inside
  <1>2. QED
    BY <1>1, Invariance, PTL
=============================================================================
