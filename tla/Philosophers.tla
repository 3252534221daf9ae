---------------------------- MODULE Philosophers ----------------------------
(***************************************************************************)
(* The dining philosophers of programs/philosophers.c, whose number the    *)
(* user changes: a philosopher enters the table by phiInTable, which keeps *)
(* one of them out, takes two forks, eats and leaves.  The semaphores and  *)
(* the mutexes outlast a run: their files cannot be deleted while the      *)
(* program has them open, and are then not made again.                     *)
(*                                                                         *)
(* User code can be preempted at every instruction; a step is a system     *)
(* call or an access to a shared variable.  A thread is named by the id of *)
(* its philosopher.  The lists that are printed are left out, the mutex    *)
(* around them is not (main's short use of it in born is).                 *)
(***************************************************************************)
EXTENDS Integers, FiniteSets, SequencesExt

CONSTANTS MaxPhi,    \* MAX_PHI
          MaxBorn,   \* bound: births explored in a run
          MaxAsked,  \* bound: deaths the user asks for in a run
          MaxLeft,   \* bound: forks and places left over by earlier runs
          Nobody,    \* a mutex without owner
          Gone,      \* the owner of a mutex that died with it
          Main       \* the main thread

ASSUME PhilosophersAssumption ==
    /\ MaxPhi \in Nat \ {0} /\ MaxBorn \in Nat \ {0} /\ MaxAsked \in Nat /\ MaxLeft \in Nat
    /\ \A o \in {Nobody, Gone, Main} : o \notin 0 .. MaxBorn - 1
    /\ Nobody # Main /\ Nobody # Gone /\ Main # Gone

VARIABLES
    forks, phiInTable,           \* the values of the semaphores
    pMutex, eMutex,              \* the owners of the mutexes
    phis,                        \* phis[0 .. philosophersQty - 1].id
    philosophersToDie, indexToDie,
    id,                          \* the next id
    pc,                          \* what each thread does next
    phiToDie,                    \* the local variable of philosopherSuicide
    running,                     \* the program runs
    leftForks, leftPlaces,       \* history: the semaphores when this run began
    asked                        \* history: how many deaths were asked for in this run

sems == <<forks, phiInTable>>
run  == <<running, leftForks, leftPlaces>>
book == <<phis, philosophersToDie, indexToDie, id, asked, run>>
vars == <<sems, pMutex, eMutex, book, pc, phiToDie>>

Phi == 0 .. MaxBorn - 1

Places == {"none", "check", "checkId", "enter", "fork1", "fork2", "lock1", "unlock1",
           "back1", "back2", "leave", "lock2", "unlock2",
           "suicide", "dieTable", "dieFork", "dieLock", "dieUnlock", "cancel"}

TypeOK ==
    /\ forks \in Nat /\ phiInTable \in Nat
    /\ running \in BOOLEAN /\ leftForks \in Nat /\ leftPlaces \in Nat
    /\ pMutex \in {Nobody, Main, Gone} /\ eMutex \in Phi \cup {Nobody, Gone}
    /\ phis \in Seq(Phi) /\ Len(phis) <= MaxPhi
    /\ philosophersToDie \in Int /\ indexToDie \in Phi \cup {-1}
    /\ id \in 0 .. MaxBorn /\ asked \in 0 .. MaxAsked
    /\ pc \in [Phi -> Places]
    /\ phiToDie \in [Phi -> Phi]

\* The first run after the boot makes the semaphores and the mutexes.
Init ==
    /\ running = TRUE
    /\ forks = 0 /\ phiInTable = 0
    /\ leftForks = 0 /\ leftPlaces = 0
    /\ pMutex = Nobody /\ eMutex = Nobody
    /\ phis = <<>>
    /\ philosophersToDie = 0 /\ indexToDie = 0
    /\ id = 0 /\ asked = 0
    /\ pc = [i \in Phi |-> "none"]
    /\ phiToDie = [i \in Phi |-> i]

-----------------------------------------------------------------------------
\* born: the thread exists, and may run, before it is written down.
BornCreate ==
    /\ running /\ pMutex = Nobody /\ pMutex' = Main
    /\ Len(phis) < MaxPhi /\ id < MaxBorn
    /\ forks' = forks + 1
    /\ id' = id + 1
    /\ pc' = [pc EXCEPT ![id] = "check"]
    /\ UNCHANGED <<phiInTable, eMutex, phis, philosophersToDie, indexToDie, phiToDie, asked, run>>

\* Mutant of BornEnter: the first philosopher gets a place as well.
BornEnterFirst ==
    /\ pMutex = Main /\ pMutex' = Nobody
    /\ indexToDie' = id - 1
    /\ phis' = Append(phis, id - 1)
    /\ phiInTable' = phiInTable + 1
    /\ UNCHANGED <<forks, eMutex, philosophersToDie, id, pc, phiToDie, asked, run>>

BornEnter ==
    /\ pMutex = Main /\ pMutex' = Nobody
    /\ indexToDie' = id - 1
    /\ phis' = Append(phis, id - 1)
    /\ phiInTable' = IF Len(phis) > 0 THEN phiInTable + 1 ELSE phiInTable
    /\ UNCHANGED <<forks, eMutex, philosophersToDie, id, pc, phiToDie, asked, run>>

\* die: the variable is only read and written under the mutex by main, one step.
Die ==
    /\ running /\ pMutex = Nobody
    /\ phis # <<>> /\ asked < MaxAsked
    /\ philosophersToDie' = philosophersToDie + 1
    /\ asked' = asked + 1
    /\ UNCHANGED <<sems, pMutex, eMutex, phis, indexToDie, id, pc, phiToDie, run>>

-----------------------------------------------------------------------------
Goes(i, from, to) == pc[i] = from /\ pc' = [pc EXCEPT ![i] = to]

\* philosophersToDie > 0 && i == indexToDie, read one after the other, unlocked.
Check(i) ==
    /\ \/ Goes(i, "check", IF philosophersToDie > 0 THEN "checkId" ELSE "enter")
       \/ Goes(i, "checkId", IF i = indexToDie THEN "suicide" ELSE "enter")
    /\ UNCHANGED <<sems, pMutex, eMutex, book, phiToDie>>

\* sem_wait(phiInTable), of a philosopher that eats or dies.
Enter(i) ==
    /\ Goes(i, "enter", "fork1") \/ Goes(i, "dieTable", "dieFork")
    /\ phiInTable > 0 /\ phiInTable' = phiInTable - 1
    /\ UNCHANGED <<forks, pMutex, eMutex, book, phiToDie>>

\* sem_wait(forks).
TakeFork(i) ==
    /\ Goes(i, "fork1", "fork2") \/ Goes(i, "fork2", "lock1") \/ Goes(i, "dieFork", "dieLock")
    /\ forks > 0 /\ forks' = forks - 1
    /\ UNCHANGED <<phiInTable, pMutex, eMutex, book, phiToDie>>

\* mutex_lock(eMutex).
Lock(i) ==
    /\ \/ Goes(i, "lock1", "unlock1") \/ Goes(i, "lock2", "unlock2")
       \/ Goes(i, "dieLock", "dieUnlock")
    /\ eMutex = Nobody /\ eMutex' = i
    /\ UNCHANGED <<sems, pMutex, book, phiToDie>>

Unlock(i) ==
    /\ \/ Goes(i, "unlock1", "back1") \/ Goes(i, "unlock2", "check")
       \/ Goes(i, "dieUnlock", "cancel")
    /\ eMutex' = Nobody
    /\ UNCHANGED <<sems, pMutex, book, phiToDie>>

\* Mutant of PutFork: a fork is given back twice on the way out.
PutForkTwice(i) ==
    /\ Goes(i, "back1", "back2") \/ Goes(i, "back2", "leave")
    /\ forks' = forks + 2
    /\ UNCHANGED <<phiInTable, pMutex, eMutex, book, phiToDie>>

\* Mutant of PutFork: only one of the two forks is given back.
PutOneFork(i) ==
    /\ Goes(i, "back1", "back2") \/ Goes(i, "back2", "leave")
    /\ forks' = IF pc[i] = "back1" THEN forks + 1 ELSE forks
    /\ UNCHANGED <<phiInTable, pMutex, eMutex, book, phiToDie>>

PutFork(i) ==
    /\ Goes(i, "back1", "back2") \/ Goes(i, "back2", "leave")
    /\ forks' = forks + 1
    /\ UNCHANGED <<phiInTable, pMutex, eMutex, book, phiToDie>>

Leave(i) ==
    /\ Goes(i, "leave", "lock2")
    /\ phiInTable' = phiInTable + 1
    /\ UNCHANGED <<forks, pMutex, eMutex, book, phiToDie>>

\* philosopherSuicide up to its unlock.  Who dies is the last one, and the new last
\* one is phis[-1] if there is none left, whatever is there.  A suicide with nobody
\* at the table, which reads further below the array, is not followed.
Suicide(i) ==
    /\ Goes(i, "suicide", "dieTable")
    /\ pMutex = Nobody
    /\ phis # <<>>
    /\ phis' = Front(phis)
    /\ philosophersToDie' = philosophersToDie - 1
    /\ indexToDie' \in IF Len(phis) > 1 THEN {phis[Len(phis) - 1]} ELSE Phi \cup {-1}
    /\ phiToDie' = [phiToDie EXCEPT ![i] = Last(phis)]
    /\ UNCHANGED <<sems, pMutex, eMutex, id, asked, run>>

\* pthread_cancel; a caller that is not the victim goes on to eat.
Cancel(i) ==
    /\ pc[i] = "cancel"
    /\ pc' = [pc EXCEPT ![i] = "enter", ![phiToDie[i]] = "none"]
    /\ UNCHANGED <<sems, pMutex, eMutex, book, phiToDie>>

Live(i) == \/ Check(i) \/ Enter(i) \/ TakeFork(i) \/ Lock(i) \/ Unlock(i)
           \/ PutFork(i) \/ Leave(i) \/ Suicide(i) \/ Cancel(i)

-----------------------------------------------------------------------------
Leaves ==
    /\ running /\ running' = FALSE
    /\ pc' = [i \in Phi |-> "none"] /\ phiToDie' = [i \in Phi |-> i]
    /\ UNCHANGED <<sems, phis, philosophersToDie, indexToDie, id, asked, leftForks, leftPlaces>>

\* terminateAllPhi and the end of the process.  A philosopher that is cancelled between a
\* lock and an unlock leaves the mutex locked for ever.
Quit ==
    /\ Leaves
    /\ pMutex = Nobody /\ pMutex' = Nobody
    /\ eMutex' = IF eMutex = Nobody THEN Nobody ELSE Gone

\* Ctrl-C ends the process anywhere, with either mutex locked by any of its threads.
Interrupt ==
    /\ Leaves
    /\ pMutex' = Gone \/ (pMutex = Nobody /\ pMutex' = Nobody)
    /\ eMutex' = Gone \/ (eMutex = Nobody /\ eMutex' = Nobody)

\* A later run finds the semaphores and the mutexes, which it could not delete, as the
\* last one left them.
Again ==
    /\ ~running /\ running' = TRUE
    /\ forks <= MaxLeft /\ phiInTable <= MaxLeft
    /\ leftForks' = forks /\ leftPlaces' = phiInTable
    /\ phis' = <<>> /\ philosophersToDie' = 0 /\ indexToDie' = 0
    /\ id' = 0 /\ asked' = 0
    /\ UNCHANGED <<sems, pMutex, eMutex, pc, phiToDie>>

Next == \/ BornCreate \/ BornEnter \/ Die \/ \E i \in Phi : Live(i)
        \/ Quit \/ Interrupt \/ Again

\* Wait queues are served in their order, and no listed thread starves.
Fairness ==
    /\ WF_vars(BornEnter)
    /\ \A i \in Phi : WF_vars(Live(i)) /\ SF_vars(Enter(i)) /\ SF_vars(TakeFork(i))
                      /\ SF_vars(Lock(i))

Spec == Init /\ [][Next]_vars /\ Fairness

-----------------------------------------------------------------------------
In(places) == {i \in Phi : pc[i] \in places}

\* Every philosopher has brought one fork, to those that earlier runs left; the ones in
\* use and the free ones are never more than that, so that no fork is ever in two hands.
NoForkInTwoHands ==
    /\ TypeOK
    /\ forks + Cardinality(In({"fork2", "back2", "dieLock", "dieUnlock", "cancel"}))
          + 2 * Cardinality(In({"lock1", "unlock1", "back1"})) <= leftForks + id

\* The table always has a place less than there are philosophers, so that one of
\* those inside finds two forks, and the places earlier runs left: as long as nobody was
\* sent to die.
OneStaysOut ==
    running /\ asked = 0 /\ pMutex = Nobody /\ phis # <<>> =>
        phiInTable + Cardinality(In({"fork1", "fork2", "lock1", "unlock1", "back1", "back2",
                                     "leave"})) = leftPlaces + Len(phis) - 1

\* What may keep a philosopher waiting: a death that was asked for, a mutex whose owner is
\* gone, and a run that began with more places than forks for them.
Spoilt == asked > 0 \/ Gone \in {pMutex, eMutex} \/ (leftPlaces > 0 /\ leftForks = 0)

\* No deadlock and no starvation: who is not alone eats, or the run ends.
EveryoneEats ==
    \A i \in Phi : (pc[i] = "enter" /\ Len(phis) > 1) ~> (pc[i] \in {"lock1", "none"} \/ Spoilt)
=============================================================================
