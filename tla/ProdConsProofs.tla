--------------------------- MODULE ProdConsProofs ---------------------------
(***************************************************************************)
(* Proofs about ProdCons: any number of threads, trays and runs.           *)
(***************************************************************************)
EXTENDS ProdCons, FiniteSetTheorems, TLAPS

\* The threads that hold a token, the plates that no semaphore counts any more, and those
\* that it does not count yet.
Holders == In({"lock", "check", "giveBack", "plate", "give"})
Served  == Of("chef", {"give"})
Owed    == Of("waiter", {"lock", "check", "giveBack", "plate"})

\* Between its lock and its unlock a thread is the owner, and nobody else is.
Mutual ==
    \A t \in Thread :
        owner = t <=> pc[t] \in {"check", "giveBack", "suicide", "plate", "give", "unlock"}

\* Who works is on the staff, a rest is pending for who goes to rest, and it is the last of
\* its kind, unless somebody has cancelled another one.
Roster ==
    ~crossed =>
        \A t \in Thread :
            /\ pc[t] \notin {"none", "cancel"} =>
                   \E i \in 1 .. Len(staff[job[t]]) : staff[job[t]][i] = t
            /\ pc[t] \in {"giveBack", "suicide"} => toDie[job[t]] > 0
            /\ pc[t] = "cancel" => victim[t] = t

\* Between two runs too there are no more tokens than trays.
Fewer == Tokens(sem) <= Trays

\* The process has ended.
Ended == ~running => \A t \in Thread : pc[t] = "none"

IInv == RestaurantExact /\ Mutual /\ Roster /\ Fewer /\ Ended

-----------------------------------------------------------------------------
\* Two sets of threads that differ in t at most: their sizes differ by that.
LEMMA CountStep ==
    ASSUME NEW S \in SUBSET Thread, NEW T \in SUBSET Thread, NEW t \in Thread,
           \A u \in Thread : u # t => (u \in S <=> u \in T)
    PROVE  /\ Cardinality(S) \in Nat /\ Cardinality(T) \in Nat
           /\ t \in S /\ t \in T => Cardinality(T) = Cardinality(S)
           /\ t \notin S /\ t \in T => Cardinality(T) = Cardinality(S) + 1
           /\ t \in S /\ t \notin T => Cardinality(T) = Cardinality(S) - 1
           /\ t \notin S /\ t \notin T => Cardinality(T) = Cardinality(S)
  <1>1. IsFiniteSet(S) /\ IsFiniteSet(T)
    BY ProdConsAssumption, FS_Subset
  <1>2. Cardinality(S) \in Nat /\ Cardinality(T) \in Nat
    BY <1>1, FS_CardinalityType
  <1>3. t \in S /\ t \in T => S = T
    OBVIOUS
  <1>4. t \notin S /\ t \notin T => S = T
    OBVIOUS
  <1>5. ASSUME t \notin S, t \in T PROVE Cardinality(T) = Cardinality(S) + 1
    <2>1. T = S \cup {t}
      BY <1>5
    <2>2. QED
      BY <1>1, <1>5, <2>1, FS_AddElement
  <1>6. ASSUME t \in S, t \notin T PROVE Cardinality(T) = Cardinality(S) - 1
    <2>1. T = S \ {t}
      BY <1>6
    <2>2. QED
      BY <1>1, <1>6, <2>1, FS_RemoveElement
  <1>7. QED
    BY <1>2, <1>3, <1>4, <1>5, <1>6

\* The sizes of the three sets of threads are numbers, and two of the sets are disjoint parts
\* of the third.
SizesAgree ==
    /\ Cardinality(Holders) \in Nat /\ Cardinality(Served) \in Nat /\ Cardinality(Owed) \in Nat
    /\ Cardinality(Served) + Cardinality(Owed) <= Cardinality(Holders)

\* They always do.
LEMMA Sizes == SizesAgree
  <1>1. Holders \in SUBSET Thread /\ Served \in SUBSET Thread /\ Owed \in SUBSET Thread
    BY DEF Holders, Served, Owed, Of, In
  <1>2. IsFiniteSet(Holders) /\ IsFiniteSet(Served) /\ IsFiniteSet(Owed)
    BY <1>1, ProdConsAssumption, FS_Subset
  <1>3. Served \cup Owed \in SUBSET Holders /\ Served \cap Owed = {}
    BY DEF Holders, Served, Owed, Of, In
  <1>4. Cardinality(Served \cup Owed) <= Cardinality(Holders)
    BY <1>2, <1>3, FS_Subset
  <1>5. Cardinality(Served \cup Owed)
          = Cardinality(Served) + Cardinality(Owed) - Cardinality(Served \cap Owed)
    BY <1>2, FS_Union
  <1>6. Cardinality(Served \cap Owed) = 0
    BY <1>3, FS_EmptySet
  <1>7. QED
    BY <1>2, <1>4, <1>5, <1>6, FS_CardinalityType DEF SizesAgree

\* Whether a thread at a place is one of them.
Bit(b) == IF b THEN 1 ELSE 0
Holding(place)    == place \in {"lock", "check", "giveBack", "plate", "give"}
ServedAt(place, k) == place = "give" /\ k = "chef"
OwedAt(place, k)   == place \in {"lock", "check", "giveBack", "plate"} /\ k = "waiter"

\* Thread t goes to another place, or begins.
Moves(t, to) ==
    /\ pc' = [pc EXCEPT ![t] = to]
    /\ \/ job' = job
       \/ to = "take" /\ pc[t] = "none" /\ \E k \in Kind : job' = [job EXCEPT ![t] = k]

\* What that does to the three sets.
LEMMA Counts ==
    ASSUME TypeOK, NEW t \in Thread, NEW to, Moves(t, to)
    PROVE  /\ Cardinality(Holders')
                = Cardinality(Holders) + Bit(Holding(to)) - Bit(Holding(pc[t]))
           /\ Cardinality(Served')
                = Cardinality(Served) + Bit(ServedAt(to, job[t])) - Bit(ServedAt(pc[t], job[t]))
           /\ Cardinality(Owed')
                = Cardinality(Owed) + Bit(OwedAt(to, job[t])) - Bit(OwedAt(pc[t], job[t]))
  <1>1. pc'[t] = to /\ \A u \in Thread : u # t => pc'[u] = pc[u] /\ job'[u] = job[u]
    <2>1. pc'[t] = to /\ \A u \in Thread : u # t => pc'[u] = pc[u]
      BY DEF TypeOK, Moves
    <2>2. \A u \in Thread : u # t => job'[u] = job[u]
      <3>1. CASE job' = job
        BY <3>1
      <3>2. CASE \E k \in Kind : job' = [job EXCEPT ![t] = k]
        BY <3>2 DEF TypeOK
      <3>3. QED
        BY <3>1, <3>2 DEF Moves
    <2>3. QED
      BY <2>1, <2>2
  <1>2. job'[t] = job[t] \/ (to = "take" /\ pc[t] = "none")
    <2>1. job' = job \/ (to = "take" /\ pc[t] = "none")
      BY DEF Moves
    <2>2. QED
      BY <2>1
  <1>3. /\ Holders \in SUBSET Thread /\ Served \in SUBSET Thread /\ Owed \in SUBSET Thread
        /\ Holders' \in SUBSET Thread /\ Served' \in SUBSET Thread /\ Owed' \in SUBSET Thread
    BY DEF Holders, Served, Owed, Of, In
  <1>4. /\ t \in Holders <=> Holding(pc[t])
        /\ t \in Holders' <=> Holding(to)
        /\ \A u \in Thread : u # t => (u \in Holders <=> u \in Holders')
    BY <1>1 DEF Holders, In, Holding
  <1>5. /\ t \in Served <=> ServedAt(pc[t], job[t])
        /\ t \in Served' <=> ServedAt(to, job[t])
        /\ \A u \in Thread : u # t => (u \in Served <=> u \in Served')
    BY <1>1, <1>2 DEF Served, Of, In, ServedAt
  <1>6. /\ t \in Owed <=> OwedAt(pc[t], job[t])
        /\ t \in Owed' <=> OwedAt(to, job[t])
        /\ \A u \in Thread : u # t => (u \in Owed <=> u \in Owed')
    BY <1>1, <1>2 DEF Owed, Of, In, OwedAt
  <1>7. Cardinality(Holders') = Cardinality(Holders) + Bit(Holding(to)) - Bit(Holding(pc[t]))
    BY <1>3, <1>4, CountStep DEF Bit
  <1>8. Cardinality(Served')
          = Cardinality(Served) + Bit(ServedAt(to, job[t])) - Bit(ServedAt(pc[t], job[t]))
    BY <1>3, <1>5, CountStep DEF Bit
  <1>9. Cardinality(Owed')
          = Cardinality(Owed) + Bit(OwedAt(to, job[t])) - Bit(OwedAt(pc[t], job[t]))
    BY <1>3, <1>6, CountStep DEF Bit
  <1>10. QED
    BY <1>7, <1>8, <1>9

\* The plates are in range, and the tokens not too many, when they and the trays are counted.
CountedInRange ==
    /\ sem \in [{"full", "empty"} -> Nat] /\ began \in [{"full", "empty"} -> Nat]
    /\ TraysExact /\ PlatesCounted /\ running
    => PlatesInRange /\ Fewer

\* They are.
LEMMA PlatesCountedInRange == CountedInRange
  <1> SUFFICES ASSUME sem \in [{"full", "empty"} -> Nat], began \in [{"full", "empty"} -> Nat],
                      TraysExact, PlatesCounted, running
               PROVE  PlatesInRange /\ Fewer
    BY DEF CountedInRange
  <1>1. Trays \in Nat
    BY ProdConsAssumption
  <1>2. /\ sem["full"] + sem["empty"] + Cardinality(Holders) = began["full"] + began["empty"]
        /\ began["full"] + began["empty"] <= Trays
    BY DEF TraysExact, Tokens, Holders
  <1>3. plates = sem["empty"] + Cardinality(Served) + Cardinality(Owed) - began["empty"]
    BY DEF PlatesCounted, Served, Owed
  <1>4. /\ sem["full"] \in Nat /\ sem["empty"] \in Nat
        /\ began["full"] \in Nat /\ began["empty"] \in Nat
    OBVIOUS
  <1>5. plates \in -began["empty"] .. began["full"]
    BY <1>1, <1>2, <1>3, <1>4, Sizes DEF SizesAgree
  <1>6. sem["full"] + sem["empty"] <= Trays
    BY <1>1, <1>2, <1>4, Sizes DEF SizesAgree
  <1>7. QED
    BY <1>5, <1>6 DEF PlatesInRange, Fewer, Tokens

\* A step of a thread keeps the trays and the plates, when the semaphores, the plates and its
\* place change alike.
LEMMA Balance ==
    ASSUME IInv, NEW t \in Thread, NEW to, Moves(t, to), running, running' = running,
           began' = began,
           sem' \in [{"full", "empty"} -> Nat], plates' \in Int,
           sem'["full"] + sem'["empty"] + Bit(Holding(to))
             = sem["full"] + sem["empty"] + Bit(Holding(pc[t])),
           plates' - sem'["empty"] - Bit(ServedAt(to, job[t])) - Bit(OwedAt(to, job[t]))
             = plates - sem["empty"] - Bit(ServedAt(pc[t], job[t])) - Bit(OwedAt(pc[t], job[t]))
    PROVE  TraysExact' /\ PlatesCounted' /\ PlatesInRange' /\ Fewer'
  <1>1. TypeOK /\ TraysExact /\ PlatesCounted
    BY DEF IInv, RestaurantExact
  <1>2. /\ sem["full"] \in Nat /\ sem["empty"] \in Nat /\ plates \in Int
        /\ sem'["full"] \in Nat /\ sem'["empty"] \in Nat
        /\ began["full"] \in Nat /\ began["empty"] \in Nat
    BY <1>1 DEF TypeOK
  <1>a. Tokens(began) <= Trays /\ began' \in [{"full", "empty"} -> Nat]
    BY <1>1 DEF TypeOK, TraysExact
  <1>3. \A b : Bit(b) \in {0, 1}
    BY DEF Bit
  <1>4. /\ Cardinality(Holders) \in Nat /\ Cardinality(Served) \in Nat /\ Cardinality(Owed) \in Nat
    BY Sizes DEF SizesAgree
  <1>5. sem["full"] + sem["empty"] + Cardinality(Holders) = began["full"] + began["empty"]
    BY <1>1 DEF TraysExact, Tokens, Holders
  <1>6. plates = sem["empty"] + Cardinality(Served) + Cardinality(Owed) - began["empty"]
    BY <1>1 DEF PlatesCounted, Served, Owed
  <1>7. sem'["full"] + sem'["empty"] + Cardinality(Holders') = began["full"] + began["empty"]
    <2>1. Cardinality(Holders') = Cardinality(Holders) + Bit(Holding(to)) - Bit(Holding(pc[t]))
      BY <1>1, Counts
    <2>2. QED
      BY <1>2, <1>3, <1>4, <1>5, <2>1, SMT
  <1>8. plates' = sem'["empty"] + Cardinality(Served') + Cardinality(Owed') - began["empty"]
    <2>1. /\ Cardinality(Served')
               = Cardinality(Served) + Bit(ServedAt(to, job[t])) - Bit(ServedAt(pc[t], job[t]))
          /\ Cardinality(Owed')
               = Cardinality(Owed) + Bit(OwedAt(to, job[t])) - Bit(OwedAt(pc[t], job[t]))
      BY <1>1, Counts
    <2>2. QED
      BY <1>2, <1>3, <1>4, <1>6, <2>1
  <1>9. TraysExact' /\ PlatesCounted'
    BY <1>a, <1>7, <1>8 DEF TraysExact, Tokens, PlatesCounted, Holders, Served, Owed
  <1>10. CountedInRange'
    BY PlatesCountedInRange, PTL
  <1>11. QED
    BY <1>a, <1>9, <1>10 DEF CountedInRange

-----------------------------------------------------------------------------
\* sem_wait of the kind's semaphore keeps the invariant.
LEMMA TakeStep ==
    ASSUME ~crossed, IInv, NEW t \in Thread, Take(t)
    PROVE  IInv'
  <1> USE DEF IInv, RestaurantExact
  <1> DEFINE to == "lock"
  <1>1. /\ pc[t] = "take" /\ pc' = [pc EXCEPT ![t] = to] /\ job' = job
        /\ running' = running /\ running /\ began' = began /\ crossed' = crossed
    BY DEF Take, Goes, Ended, past
  <1>2. TypeOK'
    <2>1. Takes(job[t]) \in {"full", "empty"} /\ sem[Takes(job[t])] \in Nat
      BY DEF Takes, TypeOK
    <2>2. sem' \in [{"full", "empty"} -> Nat]
      BY <2>1 DEF Take, TypeOK
    <2>3. QED
      BY <1>1, <2>2 DEF Take, TypeOK
  <1>3. pc'[t] = to /\ \A u \in Thread : u # t => pc'[u] = pc[u]
    BY <1>1 DEF TypeOK
  <1>4. TraysExact' /\ PlatesCounted' /\ PlatesInRange' /\ Fewer'
    <2>1. /\ sem' \in [{"full", "empty"} -> Nat] /\ plates' \in Int
          /\ Moves(t, to) /\ job[t] \in {"chef", "waiter"}
      BY <1>1, <1>2 DEF TypeOK, Moves, Kind
    <2>2. sem'["full"] + sem'["empty"] + Bit(Holding(to))
            = sem["full"] + sem["empty"] + Bit(Holding(pc[t]))
      BY <1>1, <2>1 DEF Take, TypeOK, Takes, Gives, Bit, Holding
    <2>3. plates' - sem'["empty"] - Bit(ServedAt(to, job[t])) - Bit(OwedAt(to, job[t]))
            = plates - sem["empty"] - Bit(ServedAt(pc[t], job[t])) - Bit(OwedAt(pc[t], job[t]))
      BY <1>1, <2>1 DEF Take, TypeOK, Takes, Gives, Bit, ServedAt, OwedAt
    <2>4. QED
      BY <1>1, <2>1, <2>2, <2>3, Balance
  <1>5. Mutual'
    BY <1>1, <1>3, ProdConsAssumption DEF Take, Mutual
  <1>6. Roster'
    <2>1. staff' = staff /\ toDie' = toDie /\ victim' = victim
      BY DEF Take
    <2>2. QED
      BY <1>1, <1>3, <2>1 DEF Roster
  <1>7. Ended'
    BY <1>1 DEF Ended
  <1>8. QED
    BY <1>2, <1>4, <1>5, <1>6, <1>7

\* mutex_lock keeps the invariant.
LEMMA LockStep ==
    ASSUME ~crossed, IInv, NEW t \in Thread, Lock(t)
    PROVE  IInv'
  <1> USE DEF IInv, RestaurantExact
  <1> DEFINE to == "check"
  <1>1. /\ pc[t] = "lock" /\ pc' = [pc EXCEPT ![t] = to] /\ job' = job
        /\ running' = running /\ running /\ began' = began /\ crossed' = crossed
    BY DEF Lock, Goes, Ended, past
  <1>2. TypeOK'
    BY <1>1 DEF Lock, TypeOK
  <1>3. pc'[t] = to /\ \A u \in Thread : u # t => pc'[u] = pc[u]
    BY <1>1 DEF TypeOK
  <1>4. TraysExact' /\ PlatesCounted' /\ PlatesInRange' /\ Fewer'
    <2>1. /\ sem' \in [{"full", "empty"} -> Nat] /\ plates' \in Int
          /\ Moves(t, to) /\ job[t] \in {"chef", "waiter"}
      BY <1>1, <1>2 DEF TypeOK, Moves, Kind
    <2>2. sem'["full"] + sem'["empty"] + Bit(Holding(to))
            = sem["full"] + sem["empty"] + Bit(Holding(pc[t]))
      BY <1>1, <2>1 DEF Lock, TypeOK, Takes, Gives, Bit, Holding
    <2>3. plates' - sem'["empty"] - Bit(ServedAt(to, job[t])) - Bit(OwedAt(to, job[t]))
            = plates - sem["empty"] - Bit(ServedAt(pc[t], job[t])) - Bit(OwedAt(pc[t], job[t]))
      BY <1>1, <2>1 DEF Lock, TypeOK, Takes, Gives, Bit, ServedAt, OwedAt
    <2>4. QED
      BY <1>1, <2>1, <2>2, <2>3, Balance
  <1>5. Mutual'
    BY <1>1, <1>3, ProdConsAssumption DEF Lock, Mutual
  <1>6. Roster'
    <2>1. staff' = staff /\ toDie' = toDie /\ victim' = victim
      BY DEF Lock
    <2>2. QED
      BY <1>1, <1>3, <2>1 DEF Roster
  <1>7. Ended'
    BY <1>1 DEF Ended
  <1>8. QED
    BY <1>2, <1>4, <1>5, <1>6, <1>7

\* The look at the pending rests keeps the invariant.
LEMMA CheckStep ==
    ASSUME ~crossed, IInv, NEW t \in Thread, Check(t)
    PROVE  IInv'
  <1> USE DEF IInv, RestaurantExact
  <1> DEFINE to == IF toDie[job[t]] > 0 THEN "giveBack" ELSE "plate"
  <1>1. /\ pc[t] = "check" /\ pc' = [pc EXCEPT ![t] = to] /\ job' = job
        /\ running' = running /\ running /\ began' = began /\ crossed' = crossed
    BY DEF Check, Goes, Ended, past
  <1>2. TypeOK'
    BY <1>1 DEF Check, TypeOK
  <1>3. pc'[t] = to /\ \A u \in Thread : u # t => pc'[u] = pc[u]
    BY <1>1 DEF TypeOK
  <1>4. TraysExact' /\ PlatesCounted' /\ PlatesInRange' /\ Fewer'
    <2>1. /\ sem' \in [{"full", "empty"} -> Nat] /\ plates' \in Int
          /\ Moves(t, to) /\ job[t] \in {"chef", "waiter"}
      BY <1>1, <1>2 DEF TypeOK, Moves, Kind
    <2>2. sem'["full"] + sem'["empty"] + Bit(Holding(to))
            = sem["full"] + sem["empty"] + Bit(Holding(pc[t]))
      BY <1>1, <2>1 DEF Check, TypeOK, Takes, Gives, Bit, Holding
    <2>3. plates' - sem'["empty"] - Bit(ServedAt(to, job[t])) - Bit(OwedAt(to, job[t]))
            = plates - sem["empty"] - Bit(ServedAt(pc[t], job[t])) - Bit(OwedAt(pc[t], job[t]))
      BY <1>1, <2>1 DEF Check, TypeOK, Takes, Gives, Bit, ServedAt, OwedAt
    <2>4. QED
      BY <1>1, <2>1, <2>2, <2>3, Balance
  <1>5. Mutual'
    BY <1>1, <1>3, ProdConsAssumption DEF Check, Mutual
  <1>6. Roster'
    BY <1>1, <1>3 DEF Check, Mutual, Roster, TypeOK
  <1>7. Ended'
    BY <1>1 DEF Ended
  <1>8. QED
    BY <1>2, <1>4, <1>5, <1>6, <1>7

\* sem_signal of who goes to rest keeps the invariant.
LEMMA GiveBackStep ==
    ASSUME ~crossed, IInv, NEW t \in Thread, GiveBack(t)
    PROVE  IInv'
  <1> USE DEF IInv, RestaurantExact
  <1> DEFINE to == "suicide"
  <1>1. /\ pc[t] = "giveBack" /\ pc' = [pc EXCEPT ![t] = to] /\ job' = job
        /\ running' = running /\ running /\ began' = began /\ crossed' = crossed
    BY DEF GiveBack, Goes, Ended, past
  <1>2. TypeOK'
    <2>1. Takes(job[t]) \in {"full", "empty"} /\ sem[Takes(job[t])] \in Nat
      BY DEF Takes, TypeOK
    <2>2. sem' \in [{"full", "empty"} -> Nat]
      BY <2>1 DEF GiveBack, TypeOK
    <2>3. QED
      BY <1>1, <2>2 DEF GiveBack, TypeOK
  <1>3. pc'[t] = to /\ \A u \in Thread : u # t => pc'[u] = pc[u]
    BY <1>1 DEF TypeOK
  <1>4. TraysExact' /\ PlatesCounted' /\ PlatesInRange' /\ Fewer'
    <2>1. /\ sem' \in [{"full", "empty"} -> Nat] /\ plates' \in Int
          /\ Moves(t, to) /\ job[t] \in {"chef", "waiter"}
      BY <1>1, <1>2 DEF TypeOK, Moves, Kind
    <2>2. sem'["full"] + sem'["empty"] + Bit(Holding(to))
            = sem["full"] + sem["empty"] + Bit(Holding(pc[t]))
      BY <1>1, <2>1 DEF GiveBack, TypeOK, Takes, Gives, Bit, Holding
    <2>3. plates' - sem'["empty"] - Bit(ServedAt(to, job[t])) - Bit(OwedAt(to, job[t]))
            = plates - sem["empty"] - Bit(ServedAt(pc[t], job[t])) - Bit(OwedAt(pc[t], job[t]))
      BY <1>1, <2>1 DEF GiveBack, TypeOK, Takes, Gives, Bit, ServedAt, OwedAt
    <2>4. QED
      BY <1>1, <2>1, <2>2, <2>3, Balance
  <1>5. Mutual'
    BY <1>1, <1>3, ProdConsAssumption DEF GiveBack, Mutual
  <1>6. Roster'
    <2>1. staff' = staff /\ toDie' = toDie /\ victim' = victim
      BY DEF GiveBack
    <2>2. QED
      BY <1>1, <1>3, <2>1 DEF Roster
  <1>7. Ended'
    BY <1>1 DEF Ended
  <1>8. QED
    BY <1>2, <1>4, <1>5, <1>6, <1>7

\* chefSuicide and waiterSuicide keeps the invariant.
LEMMA SuicideStep ==
    ASSUME ~crossed, IInv, NEW t \in Thread, Suicide(t)
    PROVE  IInv'
  <1> USE DEF IInv, RestaurantExact
  <1> DEFINE to == "cancel"
  <1>1. /\ pc[t] = "suicide" /\ pc' = [pc EXCEPT ![t] = to] /\ job' = job
        /\ running' = running /\ running /\ began' = began
    BY DEF Suicide, Goes, Ended
  <1> DEFINE all == staff[job[t]]
  <1>0. /\ all \in Seq(Thread) /\ Len(all) \in Nat /\ Len(all) <= MaxStaff
        /\ job[t] \in Kind /\ toDie[job[t]] \in Nat /\ toDie[job[t]] > 0
        /\ \E i \in 1 .. Len(all) : all[i] = t
    <2>1. all \in Seq(Thread) /\ Len(all) <= MaxStaff /\ job[t] \in Kind /\ toDie[job[t]] \in Nat
      BY DEF TypeOK
    <2>2. toDie[job[t]] > 0 /\ \E i \in 1 .. Len(all) : all[i] = t
      BY <1>1 DEF Roster
    <2>3. QED
      BY <2>1, <2>2
  <1>a. /\ Front(all) \in Seq(Thread) /\ Len(Front(all)) = Len(all) - 1
        /\ \A i \in 1 .. Len(all) - 1 : Front(all)[i] = all[i]
        /\ Last(all) = all[Len(all)] /\ Last(all) \in Thread
    <2>1. Front(all) = SubSeq(all, 1, Len(all) - 1) /\ Last(all) = all[Len(all)]
      BY DEF Front, Last
    <2>2. Len(all) \in Nat /\ Len(all) >= 1 /\ all \in Seq(Thread)
      BY <1>0
    <2>3. QED
      BY <2>1, <2>2
  <1>2. TypeOK'
    <2>1. staff' = [staff EXCEPT ![job[t]] = Front(all)]
      BY DEF Suicide
    <2>2. staff' \in [Kind -> Seq(Thread)]
      BY <1>0, <1>a, <2>1 DEF TypeOK
    <2>3. \A k \in Kind : Len(staff'[k]) <= MaxStaff
      BY <1>0, <1>a, <2>1, ProdConsAssumption DEF TypeOK
    <2>4. toDie' \in [Kind -> Nat]
      BY <1>0 DEF Suicide, TypeOK
    <2>5. victim' \in [Thread -> Thread]
      BY <1>a DEF Suicide, TypeOK
    <2>6. crossed' \in BOOLEAN
      BY DEF Suicide
    <2>7. QED
      BY <1>1, <2>2, <2>3, <2>4, <2>5, <2>6 DEF Suicide, TypeOK
  <1>3. pc'[t] = to /\ \A u \in Thread : u # t => pc'[u] = pc[u]
    BY <1>1 DEF TypeOK
  <1>4. TraysExact' /\ PlatesCounted' /\ PlatesInRange' /\ Fewer'
    <2>1. /\ sem' \in [{"full", "empty"} -> Nat] /\ plates' \in Int
          /\ Moves(t, to) /\ job[t] \in {"chef", "waiter"}
      BY <1>1, <1>2 DEF TypeOK, Moves, Kind
    <2>2. sem'["full"] + sem'["empty"] + Bit(Holding(to))
            = sem["full"] + sem["empty"] + Bit(Holding(pc[t]))
      BY <1>1, <2>1 DEF Suicide, TypeOK, Takes, Gives, Bit, Holding
    <2>3. plates' - sem'["empty"] - Bit(ServedAt(to, job[t])) - Bit(OwedAt(to, job[t]))
            = plates - sem["empty"] - Bit(ServedAt(pc[t], job[t])) - Bit(OwedAt(pc[t], job[t]))
      BY <1>1, <2>1 DEF Suicide, TypeOK, Takes, Gives, Bit, ServedAt, OwedAt
    <2>4. QED
      BY <1>1, <2>1, <2>2, <2>3, Balance
  <1>5. Mutual'
    BY <1>1, <1>3, ProdConsAssumption DEF Suicide, Mutual
  <1>6. Roster'
    <2>1. SUFFICES ASSUME ~crossed'
                   PROVE  \A u \in Thread :
                            /\ pc'[u] \notin {"none", "cancel"} =>
                                 \E i \in 1 .. Len(staff'[job'[u]]) : staff'[job'[u]][i] = u
                            /\ pc'[u] \in {"giveBack", "suicide"} => toDie'[job'[u]] > 0
                            /\ pc'[u] = "cancel" => victim'[u] = u
      BY DEF Roster
    <2>2. Last(all) = t
      BY <2>1 DEF Suicide
    <2>3. /\ staff'[job[t]] = Front(all) /\ \A k \in Kind : k # job[t] => staff'[k] = staff[k]
          /\ \A k \in Kind : k # job[t] => toDie'[k] = toDie[k]
          /\ victim'[t] = t /\ \A u \in Thread : u # t => victim'[u] = victim[u]
      BY <1>0, <2>2 DEF Suicide, TypeOK
    <2>4. ASSUME NEW u \in Thread, u # t
          PROVE  /\ pc'[u] \notin {"none", "cancel"} =>
                      \E i \in 1 .. Len(staff'[job'[u]]) : staff'[job'[u]][i] = u
                 /\ pc'[u] \notin {"giveBack", "suicide"}
                 /\ pc'[u] = "cancel" => victim'[u] = u
      <3>1. pc'[u] = pc[u] /\ job'[u] = job[u] /\ job[u] \in Kind
        BY <1>1, <1>3, <2>4 DEF TypeOK
      <3>2. ASSUME pc'[u] \notin {"none", "cancel"}
            PROVE  \E i \in 1 .. Len(staff'[job'[u]]) : staff'[job'[u]][i] = u
        <4>1. PICK i \in 1 .. Len(staff[job[u]]) : staff[job[u]][i] = u
          BY <3>1, <3>2 DEF Roster
        <4>2. CASE job[u] # job[t]
          BY <2>3, <3>1, <4>1, <4>2
        <4>3. CASE job[u] = job[t]
          <5>1. i \in 1 .. Len(all) /\ all[i] = u
            BY <4>1, <4>3
          <5>2. i # Len(all)
            BY <1>a, <2>2, <2>4, <5>1
          <5>3. i \in 1 .. Len(Front(all)) /\ Front(all)[i] = u
            BY <1>0, <1>a, <5>1, <5>2
          <5>4. QED
            BY <2>3, <3>1, <4>3, <5>3
        <4>4. QED
          BY <4>2, <4>3
      <3>3. pc'[u] \notin {"giveBack", "suicide"}
        BY <1>1, <2>4, <3>1 DEF Mutual
      <3>4. QED
        BY <2>3, <2>4, <3>1, <3>2, <3>3 DEF Roster
    <2>5. QED
      BY <1>3, <2>3, <2>4
  <1>7. Ended'
    BY <1>1 DEF Ended
  <1>8. QED
    BY <1>2, <1>4, <1>5, <1>6, <1>7

\* pthread_cancel keeps the invariant.
LEMMA CancelStep ==
    ASSUME ~crossed, IInv, NEW t \in Thread, Cancel(t)
    PROVE  IInv'
  <1> USE DEF IInv, RestaurantExact
  <1> DEFINE to == "none"
  <1>1. /\ pc[t] = "cancel" /\ pc' = [pc EXCEPT ![t] = to] /\ job' = job
        /\ running' = running /\ running /\ began' = began /\ crossed' = crossed
    BY DEF Cancel, Roster, TypeOK, Ended, past
  <1>2. TypeOK'
    BY <1>1 DEF Cancel, TypeOK
  <1>3. pc'[t] = to /\ \A u \in Thread : u # t => pc'[u] = pc[u]
    BY <1>1 DEF TypeOK
  <1>4. TraysExact' /\ PlatesCounted' /\ PlatesInRange' /\ Fewer'
    <2>1. /\ sem' \in [{"full", "empty"} -> Nat] /\ plates' \in Int
          /\ Moves(t, to) /\ job[t] \in {"chef", "waiter"}
      BY <1>1, <1>2 DEF TypeOK, Moves, Kind
    <2>2. sem'["full"] + sem'["empty"] + Bit(Holding(to))
            = sem["full"] + sem["empty"] + Bit(Holding(pc[t]))
      BY <1>1, <2>1 DEF Cancel, TypeOK, Takes, Gives, Bit, Holding
    <2>3. plates' - sem'["empty"] - Bit(ServedAt(to, job[t])) - Bit(OwedAt(to, job[t]))
            = plates - sem["empty"] - Bit(ServedAt(pc[t], job[t])) - Bit(OwedAt(pc[t], job[t]))
      BY <1>1, <2>1 DEF Cancel, TypeOK, Takes, Gives, Bit, ServedAt, OwedAt
    <2>4. QED
      BY <1>1, <2>1, <2>2, <2>3, Balance
  <1>5. Mutual'
    BY <1>1, <1>3, ProdConsAssumption DEF Cancel, Mutual
  <1>6. Roster'
    BY <1>1, <1>3 DEF Cancel, Mutual, Roster, TypeOK
  <1>7. Ended'
    BY <1>1 DEF Ended
  <1>8. QED
    BY <1>2, <1>4, <1>5, <1>6, <1>7

\* The plate that is put or taken keeps the invariant.
LEMMA PlateStep ==
    ASSUME ~crossed, IInv, NEW t \in Thread, Plate(t)
    PROVE  IInv'
  <1> USE DEF IInv, RestaurantExact
  <1> DEFINE to == "give"
  <1>1. /\ pc[t] = "plate" /\ pc' = [pc EXCEPT ![t] = to] /\ job' = job
        /\ running' = running /\ running /\ began' = began /\ crossed' = crossed
    BY DEF Plate, Goes, Ended, past
  <1>2. TypeOK'
    BY <1>1 DEF Plate, TypeOK
  <1>3. pc'[t] = to /\ \A u \in Thread : u # t => pc'[u] = pc[u]
    BY <1>1 DEF TypeOK
  <1>4. TraysExact' /\ PlatesCounted' /\ PlatesInRange' /\ Fewer'
    <2>1. /\ sem' \in [{"full", "empty"} -> Nat] /\ plates' \in Int
          /\ Moves(t, to) /\ job[t] \in {"chef", "waiter"}
      BY <1>1, <1>2 DEF TypeOK, Moves, Kind
    <2>2. sem'["full"] + sem'["empty"] + Bit(Holding(to))
            = sem["full"] + sem["empty"] + Bit(Holding(pc[t]))
      BY <1>1, <2>1 DEF Plate, TypeOK, Takes, Gives, Bit, Holding
    <2>3. plates' - sem'["empty"] - Bit(ServedAt(to, job[t])) - Bit(OwedAt(to, job[t]))
            = plates - sem["empty"] - Bit(ServedAt(pc[t], job[t])) - Bit(OwedAt(pc[t], job[t]))
      BY <1>1, <2>1 DEF Plate, TypeOK, Takes, Gives, Bit, ServedAt, OwedAt
    <2>4. QED
      BY <1>1, <2>1, <2>2, <2>3, Balance
  <1>5. Mutual'
    BY <1>1, <1>3, ProdConsAssumption DEF Plate, Mutual
  <1>6. Roster'
    <2>1. staff' = staff /\ toDie' = toDie /\ victim' = victim
      BY DEF Plate
    <2>2. QED
      BY <1>1, <1>3, <2>1 DEF Roster
  <1>7. Ended'
    BY <1>1 DEF Ended
  <1>8. QED
    BY <1>2, <1>4, <1>5, <1>6, <1>7

\* sem_signal of the other kind's semaphore keeps the invariant.
LEMMA GiveStep ==
    ASSUME ~crossed, IInv, NEW t \in Thread, Give(t)
    PROVE  IInv'
  <1> USE DEF IInv, RestaurantExact
  <1> DEFINE to == "unlock"
  <1>1. /\ pc[t] = "give" /\ pc' = [pc EXCEPT ![t] = to] /\ job' = job
        /\ running' = running /\ running /\ began' = began /\ crossed' = crossed
    BY DEF Give, Goes, Ended, past
  <1>2. TypeOK'
    <2>1. Gives(job[t]) \in {"full", "empty"} /\ sem[Gives(job[t])] \in Nat
      BY DEF Gives, TypeOK
    <2>2. sem' \in [{"full", "empty"} -> Nat]
      BY <2>1 DEF Give, TypeOK
    <2>3. QED
      BY <1>1, <2>2 DEF Give, TypeOK
  <1>3. pc'[t] = to /\ \A u \in Thread : u # t => pc'[u] = pc[u]
    BY <1>1 DEF TypeOK
  <1>4. TraysExact' /\ PlatesCounted' /\ PlatesInRange' /\ Fewer'
    <2>1. /\ sem' \in [{"full", "empty"} -> Nat] /\ plates' \in Int
          /\ Moves(t, to) /\ job[t] \in {"chef", "waiter"}
      BY <1>1, <1>2 DEF TypeOK, Moves, Kind
    <2>2. sem'["full"] + sem'["empty"] + Bit(Holding(to))
            = sem["full"] + sem["empty"] + Bit(Holding(pc[t]))
      BY <1>1, <2>1 DEF Give, TypeOK, Takes, Gives, Bit, Holding
    <2>3. plates' - sem'["empty"] - Bit(ServedAt(to, job[t])) - Bit(OwedAt(to, job[t]))
            = plates - sem["empty"] - Bit(ServedAt(pc[t], job[t])) - Bit(OwedAt(pc[t], job[t]))
      BY <1>1, <2>1 DEF Give, TypeOK, Takes, Gives, Bit, ServedAt, OwedAt
    <2>4. QED
      BY <1>1, <2>1, <2>2, <2>3, Balance
  <1>5. Mutual'
    BY <1>1, <1>3, ProdConsAssumption DEF Give, Mutual
  <1>6. Roster'
    <2>1. staff' = staff /\ toDie' = toDie /\ victim' = victim
      BY DEF Give
    <2>2. QED
      BY <1>1, <1>3, <2>1 DEF Roster
  <1>7. Ended'
    BY <1>1 DEF Ended
  <1>8. QED
    BY <1>2, <1>4, <1>5, <1>6, <1>7

\* mutex_unlock keeps the invariant.
LEMMA UnlockStep ==
    ASSUME ~crossed, IInv, NEW t \in Thread, Unlock(t)
    PROVE  IInv'
  <1> USE DEF IInv, RestaurantExact
  <1> DEFINE to == "take"
  <1>1. /\ pc[t] = "unlock" /\ pc' = [pc EXCEPT ![t] = to] /\ job' = job
        /\ running' = running /\ running /\ began' = began /\ crossed' = crossed
    BY DEF Unlock, Goes, Ended, past
  <1>2. TypeOK'
    BY <1>1 DEF Unlock, TypeOK
  <1>3. pc'[t] = to /\ \A u \in Thread : u # t => pc'[u] = pc[u]
    BY <1>1 DEF TypeOK
  <1>4. TraysExact' /\ PlatesCounted' /\ PlatesInRange' /\ Fewer'
    <2>1. /\ sem' \in [{"full", "empty"} -> Nat] /\ plates' \in Int
          /\ Moves(t, to) /\ job[t] \in {"chef", "waiter"}
      BY <1>1, <1>2 DEF TypeOK, Moves, Kind
    <2>2. sem'["full"] + sem'["empty"] + Bit(Holding(to))
            = sem["full"] + sem["empty"] + Bit(Holding(pc[t]))
      BY <1>1, <2>1 DEF Unlock, TypeOK, Takes, Gives, Bit, Holding
    <2>3. plates' - sem'["empty"] - Bit(ServedAt(to, job[t])) - Bit(OwedAt(to, job[t]))
            = plates - sem["empty"] - Bit(ServedAt(pc[t], job[t])) - Bit(OwedAt(pc[t], job[t]))
      BY <1>1, <2>1 DEF Unlock, TypeOK, Takes, Gives, Bit, ServedAt, OwedAt
    <2>4. QED
      BY <1>1, <2>1, <2>2, <2>3, Balance
  <1>5. Mutual'
    BY <1>1, <1>3, ProdConsAssumption DEF Unlock, Mutual
  <1>6. Roster'
    <2>1. staff' = staff /\ toDie' = toDie /\ victim' = victim
      BY DEF Unlock
    <2>2. QED
      BY <1>1, <1>3, <2>1 DEF Roster
  <1>7. Ended'
    BY <1>1 DEF Ended
  <1>8. QED
    BY <1>2, <1>4, <1>5, <1>6, <1>7


\* Main's callChef and callWaiter keep it.
LEMMA CallStep ==
    ASSUME ~crossed, IInv, NEW k \in Kind, NEW t \in Thread, Call(k, t)
    PROVE  IInv'
  <1> USE DEF IInv, RestaurantExact
  <1>1. /\ running /\ running' = running /\ owner = Nobody /\ pc[t] = "none"
        /\ pc' = [pc EXCEPT ![t] = "take"] /\ job' = [job EXCEPT ![t] = k]
        /\ staff' = [staff EXCEPT ![k] = Append(@, t)]
        /\ sem' = sem /\ owner' = owner /\ plates' = plates /\ toDie' = toDie /\ victim' = victim
        /\ Len(staff[k]) < MaxStaff /\ began' = began /\ crossed' = crossed
    BY DEF Call, past
  <1>2. /\ pc'[t] = "take" /\ job'[t] = k
        /\ \A u \in Thread : u # t => pc'[u] = pc[u] /\ job'[u] = job[u]
    BY <1>1 DEF TypeOK
  <1>3. staff[k] \in Seq(Thread) /\ Len(staff[k]) \in Nat
    BY DEF TypeOK
  <1>4. /\ \A j \in Kind : j # k => staff'[j] = staff[j]
        /\ staff'[k] = Append(staff[k], t)
    BY <1>1 DEF TypeOK
  <1>5. /\ Append(staff[k], t) \in Seq(Thread)
        /\ Len(Append(staff[k], t)) = Len(staff[k]) + 1
        /\ Append(staff[k], t)[Len(staff[k]) + 1] = t
        /\ \A i \in 1 .. Len(staff[k]) : Append(staff[k], t)[i] = staff[k][i]
    BY <1>3
  <1>6. TypeOK'
    <2>1. staff' \in [Kind -> Seq(Thread)]
      BY <1>1, <1>5 DEF TypeOK
    <2>2. \A j \in Kind : Len(staff'[j]) <= MaxStaff
      BY <1>1, <1>3, <1>4, <1>5, ProdConsAssumption DEF TypeOK
    <2>3. QED
      BY <1>1, <2>1, <2>2 DEF TypeOK
  <1>7. TraysExact' /\ PlatesCounted' /\ PlatesInRange' /\ Fewer'
    <2>1. Moves(t, "take")
      BY <1>1 DEF Moves
    <2>2. sem \in [{"full", "empty"} -> Nat] /\ plates \in Int
      BY DEF TypeOK
    <2>3. /\ Bit(Holding("take")) = Bit(Holding(pc[t]))
          /\ Bit(ServedAt("take", job[t])) = Bit(ServedAt(pc[t], job[t]))
          /\ Bit(OwedAt("take", job[t])) = Bit(OwedAt(pc[t], job[t]))
      BY <1>1 DEF Bit, Holding, ServedAt, OwedAt
    <2>4. QED
      BY <1>1, <2>1, <2>2, <2>3, Balance
  <1>8. Mutual'
    BY <1>1, <1>2, ProdConsAssumption DEF Mutual
  <1>9. Roster'
    <2>2. ASSUME NEW u \in Thread, pc'[u] \notin {"none", "cancel"}
          PROVE  \E i \in 1 .. Len(staff'[job'[u]]) : staff'[job'[u]][i] = u
      <3>1. CASE u = t
        BY <1>2, <1>3, <1>4, <1>5, <3>1
      <3>2. CASE u # t
        <4>1. PICK i \in 1 .. Len(staff[job[u]]) : staff[job[u]][i] = u
          BY <1>2, <2>2, <3>2 DEF Roster
        <4>2. job'[u] = job[u] /\ job[u] \in Kind
          BY <1>2, <3>2 DEF TypeOK
        <4>3. CASE job[u] = k
          BY <1>3, <1>4, <1>5, <4>1, <4>2, <4>3
        <4>4. CASE job[u] # k
          BY <1>4, <4>1, <4>2, <4>4
        <4>5. QED
          BY <4>3, <4>4
      <3>3. QED
        BY <3>1, <3>2
    <2>3. \A u \in Thread : /\ pc'[u] \in {"giveBack", "suicide"} => toDie'[job'[u]] > 0
                            /\ pc'[u] = "cancel" => victim'[u] = u
      BY <1>1, <1>2 DEF Roster
    <2>4. QED
      BY <2>2, <2>3 DEF Roster
  <1>10. Ended'
    BY <1>1 DEF Ended
  <1>11. QED
    BY <1>6, <1>7, <1>8, <1>9, <1>10

\* Main's restChef and restWaiter keep it.
LEMMA RestStep ==
    ASSUME ~crossed, IInv, NEW k \in Kind, Rest(k)
    PROVE  IInv'
  <1> USE DEF IInv, RestaurantExact
  <1>1. /\ toDie' = [toDie EXCEPT ![k] = @ + 1]
        /\ UNCHANGED <<sem, owner, plates, staff, job, pc, victim, running, began, crossed>>
    BY DEF Rest, past
  <1>2. toDie' \in [Kind -> Nat] /\ \A j \in Kind : toDie[j] > 0 => toDie'[j] > 0
    BY <1>1 DEF TypeOK
  <1>3. TypeOK'
    BY <1>1, <1>2 DEF TypeOK
  <1>4. /\ TraysExact' /\ PlatesCounted' /\ PlatesInRange' /\ Fewer'
        /\ Mutual' /\ Ended'
    BY <1>1 DEF TraysExact, PlatesCounted, PlatesInRange, Fewer, Mutual, Ended, Of, In
  <1>5. Roster'
    <2>1. \A t \in Thread : job[t] \in Kind
      BY DEF TypeOK
    <2>2. QED
      BY <1>1, <1>2, <2>1 DEF Roster
  <1>6. QED
    BY <1>3, <1>4, <1>5

\* And the end of the process, with QUIT or with Ctrl-C.
LEMMA EndStep ==
    ASSUME ~crossed, IInv, Quit \/ Interrupt
    PROVE  IInv'
  <1> USE DEF IInv, RestaurantExact
  <1>1. /\ running' = FALSE /\ pc' = [t \in Thread |-> "none"]
        /\ job' = [t \in Thread |-> "chef"] /\ owner' \in {Nobody, Gone}
        /\ UNCHANGED <<sem, plates, staff, toDie, victim, began, crossed>>
    BY DEF Quit, Interrupt, past
  <1>2. TypeOK'
    BY <1>1 DEF TypeOK, Kind
  <1>3. PlatesInRange' /\ TraysExact' /\ PlatesCounted' /\ Fewer' /\ Ended'
    BY <1>1 DEF PlatesInRange, TraysExact, PlatesCounted, Fewer, Ended
  <1>4. Mutual' /\ Roster'
    BY <1>1, ProdConsAssumption DEF Mutual, Roster
  <1>5. QED
    BY <1>2, <1>3, <1>4

\* With nobody at work no token is held.
LEMMA NobodyHolds ==
    ASSUME \A t \in Thread : pc[t] = "none"
    PROVE  Cardinality(Holders) = 0 /\ Cardinality(Served) = 0 /\ Cardinality(Owed) = 0
  <1>1. Holders = {} /\ Served = {} /\ Owed = {}
    BY DEF Holders, Served, Owed, Of, In
  <1>2. QED
    BY <1>1, FS_EmptySet

\* A later run begins with the tokens that are left, all of them counted.
LEMMA AgainStep ==
    ASSUME ~crossed, IInv, Again
    PROVE  IInv'
  <1> USE DEF IInv, RestaurantExact
  <1>1. /\ ~running /\ running' /\ running' = TRUE /\ plates' = 0
        /\ staff' = [k \in Kind |-> <<>>] /\ toDie' = [k \in Kind |-> 0] /\ began' = sem
        /\ UNCHANGED <<sem, owner, job, pc, victim, crossed>>
    BY DEF Again
  <1>2. \A t \in Thread : pc'[t] = "none"
    BY <1>1 DEF Ended
  <1>3. TypeOK'
    <2>1. <<>> \in Seq(Thread) /\ Len(<<>>) = 0 /\ MaxStaff \in Nat
      BY ProdConsAssumption
    <2>2. staff' \in [Kind -> Seq(Thread)] /\ \A k \in Kind : Len(staff'[k]) <= MaxStaff
      BY <1>1, <2>1
    <2>3. QED
      BY <1>1, <2>2 DEF TypeOK
  <1>4. /\ Cardinality(Holders') = 0 /\ Cardinality(Served') = 0 /\ Cardinality(Owed') = 0
    <2>1. Holders' = {} /\ Served' = {} /\ Owed' = {}
      BY <1>2 DEF Holders, Served, Owed, Of, In
    <2>2. QED
      BY <2>1, FS_EmptySet
  <1>5. sem["full"] \in Nat /\ sem["empty"] \in Nat
    BY DEF TypeOK
  <1>6. TraysExact' /\ PlatesCounted'
    <2>1. sem'["full"] + sem'["empty"] + Cardinality(Holders') = began'["full"] + began'["empty"]
          /\ Tokens(began') <= Trays
      BY <1>1, <1>4, <1>5 DEF Fewer
    <2>2. plates' = sem'["empty"] + Cardinality(Served') + Cardinality(Owed') - began'["empty"]
      BY <1>1, <1>4, <1>5
    <2>3. QED
      BY <2>1, <2>2 DEF TraysExact, Tokens, PlatesCounted, Holders, Served, Owed
  <1>7. CountedInRange'
    BY PlatesCountedInRange, PTL
  <1>8. PlatesInRange' /\ Fewer'
    BY <1>1, <1>3, <1>6, <1>7 DEF CountedInRange, TypeOK
  <1>9. Mutual'
    BY <1>1 DEF Mutual
  <1>10. Roster'
    BY <1>2 DEF Roster
  <1>11. Ended'
    BY <1>1 DEF Ended
  <1>12. QED
    BY <1>3, <1>6, <1>8, <1>9, <1>10, <1>11

-----------------------------------------------------------------------------
\* The first state: all trays are free.
LEMMA InitInvariant == Init => IInv
  <1> SUFFICES ASSUME Init PROVE IInv
    OBVIOUS
  <1>1. Trays \in Nat /\ MaxStaff \in Nat /\ Nobody \notin Thread
    BY ProdConsAssumption
  <1>2. /\ sem = [s \in {"full", "empty"} |-> IF s = "full" THEN Trays ELSE 0]
        /\ sem["full"] = Trays /\ sem["empty"] = 0 /\ plates = 0 /\ began = sem
    BY DEF Init
  <1>3. TypeOK
    <2>1. <<>> \in Seq(Thread) /\ Len(<<>>) = 0
      OBVIOUS
    <2>2. staff \in [Kind -> Seq(Thread)] /\ \A k \in Kind : Len(staff[k]) <= MaxStaff
      BY <1>1, <2>1 DEF Init
    <2>3. sem \in [{"full", "empty"} -> Nat] /\ began \in [{"full", "empty"} -> Nat]
      BY <1>1, <1>2
    <2>4. owner \in Thread \cup {Nobody, Gone} /\ plates \in Int /\ toDie \in [Kind -> Nat]
      BY DEF Init
    <2>5. job \in [Thread -> Kind] /\ victim \in [Thread -> Thread]
      BY DEF Init, Kind
    <2>6. QED
      BY <2>2, <2>3, <2>4, <2>5 DEF Init, TypeOK
  <1>4. Cardinality(Holders) = 0 /\ Cardinality(Served) = 0 /\ Cardinality(Owed) = 0
    BY NobodyHolds DEF Init
  <1>5. TraysExact /\ PlatesCounted /\ PlatesInRange /\ Fewer
    BY <1>1, <1>2, <1>4
       DEF TraysExact, Tokens, PlatesCounted, PlatesInRange, Fewer, Holders, Served, Owed
  <1>6. Mutual /\ Roster /\ Ended
    BY <1>1 DEF Init, Mutual, Roster, Ended
  <1>7. QED
    BY <1>3, <1>5, <1>6 DEF IInv, RestaurantExact

\* Every step keeps the invariant.
LEMMA Step == IInv /\ [Next]_vars => IInv'
  <1> SUFFICES ASSUME IInv, [Next]_vars PROVE IInv'
    OBVIOUS
  <1>1. CASE UNCHANGED vars
    BY <1>1 DEF vars, past, IInv, RestaurantExact, TypeOK, TraysExact, PlatesCounted,
                PlatesInRange, Fewer, Mutual, Roster, Ended, Of, In
  <1>2. CASE Next
    <2>1. ~crossed
      BY <1>2 DEF Next
    <2>2. ASSUME NEW t \in Thread, Work(t) PROVE IInv'
      BY <2>1, <2>2, TakeStep, LockStep, CheckStep, GiveBackStep, SuicideStep, CancelStep,
         PlateStep, GiveStep, UnlockStep DEF Work
    <2>3. ASSUME NEW k \in Kind, NEW t \in Thread, Call(k, t) PROVE IInv'
      BY <2>1, <2>3, CallStep
    <2>4. ASSUME NEW k \in Kind, Rest(k) PROVE IInv'
      BY <2>1, <2>4, RestStep
    <2>5. CASE Quit \/ Interrupt
      BY <2>1, <2>5, EndStep
    <2>6. CASE Again
      BY <2>1, <2>6, AgainStep
    <2>7. QED
      BY <1>2, <2>2, <2>3, <2>4, <2>5, <2>6 DEF Next
  <1>3. QED
    BY <1>1, <1>2

\* In every run no tray is made up, none is lost before the run ends, and the plates are
\* counted from what the run began with, with any number of chefs, waiters and trays, up to
\* the first rest that cancels another thread than the one that goes.
THEOREM RestaurantKept == Spec => []RestaurantExact
  <1>1. IInv => RestaurantExact
    BY DEF IInv
  <1>2. QED
    BY <1>1, Step, InitInvariant, PTL DEF Spec

\* The mutex always belongs to a thread that is on its way to unlock it, or to one that died
\* of a Ctrl-C, up to the first rest that cancels another thread than the one that goes.
THEOREM MutexUnlocked == Spec => []OwnerUnlocks
  <1>1. IInv => OwnerUnlocks
    BY DEF IInv, RestaurantExact, TypeOK, Mutual, OwnerUnlocks
  <1>2. QED
    BY <1>1, Step, InitInvariant, PTL DEF Spec
=============================================================================
