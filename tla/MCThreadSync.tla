---------------------------- MODULE MCThreadSync ----------------------------
\* Small instances of ThreadSync: two processes of two threads, three TCBs.
EXTENDS ThreadSync, TLC

CONSTANTS t1, t2, t3, m1, s1

MCTcb == {t1, t2, t3}
MCMutex == {m1}
MCSem == {s1}
TcbSymmetry == Permutations(MCTcb)
=============================================================================
