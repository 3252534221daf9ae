------------------------------ MODULE ProdCons ------------------------------
(***************************************************************************)
(* The restaurant of programs/prodCons.c: chefs put plates on a limited    *)
(* number of trays, camareros (waiters) take them, and the user calls      *)
(* either to work and sends them to rest, run after run of the program.    *)
(*                                                                         *)
(* User code can be preempted at every instruction; a step is a system     *)
(* call or an access to a shared variable.  The kernel's semaphores and    *)
(* mutexes are taken as ThreadSync shows them: a counter and an owner.     *)
(* They outlast a run: the files cannot be deleted while the program has   *)
(* them open, and are then not made again.                                 *)
(***************************************************************************)
EXTENDS Integers, FiniteSets, SequencesExt

CONSTANTS Thread,    \* tids of the process, other than the main thread's
          Trays,     \* TRAYS_QTY
          MaxStaff,  \* MAX_PRODCONS
          MaxRests,  \* bound: rests that are pending
          Nobody,    \* a mutex without owner
          Gone       \* the owner of a mutex that died with it

ASSUME ProdConsAssumption ==
    /\ Trays \in Nat \ {0} /\ MaxStaff \in Nat /\ MaxRests \in Nat
    /\ IsFiniteSet(Thread) /\ Nobody \notin Thread /\ Gone \notin Thread
    /\ Nobody # Gone

VARIABLES
    sem,      \* full counts the free trays, empty the plates to take
    owner,    \* of the mutex
    plates,
    staff,    \* chefs and waiters, chefsQty and waitersQty are the lengths
    toDie,    \* chefsToDie and waitersToDie
    job,      \* the routine a thread runs
    pc,       \* what the thread does next, "none" if it does not exist
    victim,   \* chefToDie, waiterToDie
    running,  \* the program runs
    began,    \* history: the semaphores when this run began
    crossed   \* history: one who goes to rest cancels another one

past == <<began, crossed>>
vars == <<sem, owner, plates, staff, toDie, job, pc, victim, running, past>>

Kind == {"chef", "waiter"}

Takes(k) == IF k = "chef" THEN "full" ELSE "empty"
Gives(k) == IF k = "chef" THEN "empty" ELSE "full"

TypeOK ==
    /\ sem \in [{"full", "empty"} -> Nat]
    /\ began \in [{"full", "empty"} -> Nat]
    /\ owner \in Thread \cup {Nobody, Gone}
    /\ plates \in Int
    /\ staff \in [Kind -> Seq(Thread)] /\ \A k \in Kind : Len(staff[k]) <= MaxStaff
    /\ toDie \in [Kind -> Nat]
    /\ job \in [Thread -> Kind]
    /\ pc \in [Thread -> {"none", "take", "lock", "check", "giveBack", "suicide",
                          "cancel", "plate", "give", "unlock"}]
    /\ victim \in [Thread -> Thread]
    /\ running \in BOOLEAN /\ crossed \in BOOLEAN

\* The first run after the boot makes the semaphores and the mutex.
Init ==
    /\ sem = [s \in {"full", "empty"} |-> IF s = "full" THEN Trays ELSE 0]
    /\ owner = Nobody
    /\ plates = 0
    /\ staff = [k \in Kind |-> <<>>]
    /\ toDie = [k \in Kind |-> 0]
    /\ job = [t \in Thread |-> "chef"]
    /\ pc = [t \in Thread |-> "none"]
    /\ victim = [t \in Thread |-> t]
    /\ running = TRUE
    /\ began = sem /\ crossed = FALSE

-----------------------------------------------------------------------------
\* A step of thread t from one place to another.
Goes(t, from, to) == pc[t] = from /\ pc' = [pc EXCEPT ![t] = to]

Take(t) ==
    /\ Goes(t, "take", "lock")
    /\ sem[Takes(job[t])] > 0
    /\ sem' = [sem EXCEPT ![Takes(job[t])] = @ - 1]
    /\ UNCHANGED <<owner, plates, staff, toDie, job, victim, running, past>>

Lock(t) ==
    /\ Goes(t, "lock", "check")
    /\ owner = Nobody /\ owner' = t
    /\ UNCHANGED <<sem, plates, staff, toDie, job, victim, running, past>>

Check(t) ==
    /\ Goes(t, "check", IF toDie[job[t]] > 0 THEN "giveBack" ELSE "plate")
    /\ UNCHANGED <<sem, owner, plates, staff, toDie, job, victim, running, past>>

\* Mutant of GiveBack: the one who goes to rest keeps the token.
GiveNothingBack(t) ==
    /\ Goes(t, "giveBack", "suicide")
    /\ UNCHANGED <<sem, owner, plates, staff, toDie, job, victim, running, past>>

GiveBack(t) ==
    /\ Goes(t, "giveBack", "suicide")
    /\ sem' = [sem EXCEPT ![Takes(job[t])] = @ + 1]
    /\ UNCHANGED <<owner, plates, staff, toDie, job, victim, running, past>>

\* Mutant of Suicide: the mutex is not unlocked.
SuicideLocked(t) ==
    /\ Goes(t, "suicide", "cancel")
    /\ staff' = [staff EXCEPT ![job[t]] = Front(@)]
    /\ toDie' = [toDie EXCEPT ![job[t]] = @ - 1]
    /\ victim' = [victim EXCEPT ![t] = Last(staff[job[t]])]
    /\ crossed' = (Last(staff[job[t]]) # t)
    /\ UNCHANGED <<sem, owner, plates, job, running, began>>

\* chefSuicide and waiterSuicide up to the unlock: the LAST of the kind is to go.
Suicide(t) ==
    /\ Goes(t, "suicide", "cancel")
    /\ staff' = [staff EXCEPT ![job[t]] = Front(@)]
    /\ toDie' = [toDie EXCEPT ![job[t]] = @ - 1]
    /\ victim' = [victim EXCEPT ![t] = Last(staff[job[t]])]
    /\ crossed' = (Last(staff[job[t]]) # t)
    /\ owner' = IF owner = t THEN Nobody ELSE owner
    /\ UNCHANGED <<sem, plates, job, running, began>>

\* pthread_cancel, after which the caller, if it was not the victim, goes on.
Cancel(t) ==
    /\ pc[t] = "cancel"
    /\ pc' = [pc EXCEPT ![t] = "plate", ![victim[t]] = "none"]
    /\ UNCHANGED <<sem, owner, plates, staff, toDie, job, victim, running, past>>

Plate(t) ==
    /\ Goes(t, "plate", "give")
    /\ plates' = plates + IF job[t] = "chef" THEN 1 ELSE -1
    /\ UNCHANGED <<sem, owner, staff, toDie, job, victim, running, past>>

Give(t) ==
    /\ Goes(t, "give", "unlock")
    /\ sem' = [sem EXCEPT ![Gives(job[t])] = @ + 1]
    /\ UNCHANGED <<owner, plates, staff, toDie, job, victim, running, past>>

\* mutex_unlock does nothing for a thread that is not the owner.
Unlock(t) ==
    /\ Goes(t, "unlock", "take")
    /\ owner' = IF owner = t THEN Nobody ELSE owner
    /\ UNCHANGED <<sem, plates, staff, toDie, job, victim, running, past>>

Work(t) == \/ Take(t) \/ Lock(t) \/ Check(t) \/ GiveBack(t) \/ Suicide(t)
           \/ Cancel(t) \/ Plate(t) \/ Give(t) \/ Unlock(t)

-----------------------------------------------------------------------------
\* Main's calls run between a lock and an unlock that only guard the variables they
\* read and write, so that each is one step.

\* callChef, callWaiter.
Call(k, t) ==
    /\ running /\ owner = Nobody
    /\ Len(staff[k]) < MaxStaff
    /\ pc[t] = "none"
    /\ pc' = [pc EXCEPT ![t] = "take"]
    /\ job' = [job EXCEPT ![t] = k]
    /\ staff' = [staff EXCEPT ![k] = Append(@, t)]
    /\ UNCHANGED <<sem, owner, plates, toDie, victim, running, past>>

\* restChef, restWaiter.  MaxRests bounds those that are pending.
Rest(k) ==
    /\ running /\ owner = Nobody
    /\ Len(staff[k]) # 0
    /\ toDie[k] < MaxRests
    /\ toDie' = [toDie EXCEPT ![k] = @ + 1]
    /\ UNCHANGED <<sem, owner, plates, staff, job, pc, victim, running, past>>

\* terminateAll and the end of the main routine, with which the process ends.
Quit ==
    /\ running /\ owner = Nobody
    /\ running' = FALSE
    /\ pc' = [t \in Thread |-> "none"] /\ job' = [t \in Thread |-> "chef"]
    /\ UNCHANGED <<sem, owner, plates, staff, toDie, victim, past>>

\* Ctrl-C ends the process anywhere, main between its lock and its unlock too: the
\* mutex may stay locked for ever.
Interrupt ==
    /\ running /\ running' = FALSE
    /\ pc' = [t \in Thread |-> "none"] /\ job' = [t \in Thread |-> "chef"]
    /\ \/ owner' = Gone
       \/ owner = Nobody /\ owner' = Nobody
    /\ UNCHANGED <<sem, plates, staff, toDie, victim, past>>

\* A later run finds the semaphores and the mutex, which it could not delete, as the last
\* one left them.
Again ==
    /\ ~running /\ running' = TRUE
    /\ plates' = 0
    /\ staff' = [k \in Kind |-> <<>>] /\ toDie' = [k \in Kind |-> 0]
    /\ began' = sem
    /\ UNCHANGED <<sem, owner, job, pc, victim, crossed>>

\* What follows when one who goes to rest cancels another one, who may hold the mutex or
\* a token, is not followed.
Next ==
    /\ ~crossed
    /\ \/ \E t \in Thread : Work(t)
       \/ \E k \in Kind, t \in Thread : Call(k, t)
       \/ \E k \in Kind : Rest(k)
       \/ Quit \/ Interrupt \/ Again

\* Wait queues are served in their order, and no listed thread starves.
Fairness == \A t \in Thread : WF_vars(Work(t)) /\ SF_vars(Take(t)) /\ SF_vars(Lock(t))

Spec == Init /\ [][Next]_vars /\ Fairness

-----------------------------------------------------------------------------
In(places) == {t \in Thread : pc[t] \in places}
Of(k, places) == {t \in In(places) : job[t] = k}

Tokens(s) == s["full"] + s["empty"]

\* prodCons.c, printMenu: the restaurant has a maximum of Trays plates.  A run that began
\* with the tokens of plates nobody took goes below none by that many.
PlatesInRange == running => plates \in -began["empty"] .. began["full"]

\* No tray is made up, in any run, and none is lost within one: the free trays, the
\* plates to take, and the tokens that threads hold between their sem_wait and their
\* sem_signal are all the run began with.
TraysExact ==
    /\ Tokens(began) <= Trays
    /\ running => Tokens(sem)
                     + Cardinality(In({"lock", "check", "giveBack", "plate", "give"}))
                   = Tokens(began)

\* What is counted as plates agrees with the two semaphores.
PlatesCounted ==
    running => plates = sem["empty"] + Cardinality(Of("chef", {"give"}))
                        + Cardinality(Of("waiter", {"lock", "check", "giveBack", "plate"}))
                        - began["empty"]

\* The three together.
RestaurantExact == TypeOK /\ PlatesInRange /\ TraysExact /\ PlatesCounted

\* The mutex belongs to a thread that will unlock it, unless its owner died of a Ctrl-C.
OwnerUnlocks ==
    owner \in Thread =>
        pc[owner] \in {"check", "giveBack", "suicide", "plate", "give", "unlock"}

\* What may keep a thread waiting: a Ctrl-C in the middle of a run, the loss of all trays
\* in runs that were left, and the rest that cancels another one.
Spoilt == owner = Gone \/ Tokens(began) = 0 \/ crossed

\* Nobody waits for ever while the others work: the mutex is always had in the end,
\* and a chef gets a tray and a waiter a plate, unless at some time there is nobody of
\* the other kind.
Serves ==
    \A t \in Thread :
        /\ (pc[t] = "lock") ~> (pc[t] # "lock" \/ Spoilt)
        /\ \A k \in Kind :
               (pc[t] = "take" /\ job[t] # k) ~> (pc[t] # "take" \/ staff[k] = <<>> \/ Spoilt)
=============================================================================
