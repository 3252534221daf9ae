---------------------------- MODULE MCScheduler -----------------------------
\* Small instances of Scheduler: two processes, one of them with two threads.
EXTENDS Scheduler, TLC

CONSTANTS t1, t2, t3, p1, p2

MCThread == {t1, t2, t3}
MCProcess == {p1, p2}
MCProcessOf == t1 :> p1 @@ t2 :> p1 @@ t3 :> p2
MCThreadOrder == <<t1, t2, t3>>
ShortQuanta == 0 :> 2 @@ 1 :> 1
KernelQuanta == 0 :> 8 @@ 1 :> 3
=============================================================================
