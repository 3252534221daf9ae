SPECIFICATION Spec
CONSTANTS
    t1 = t1
    t2 = t2
    t3 = t3
    m1 = m1
    s1 = s1
    Tcb <- MCTcb
    Pid = {1, 2}
    Tid = {0, 1}
    Mutex <- MCMutex
    Sem <- MCSem
    MaxValue = 1
    MaxTicks = 2
    NoThread = NoThread
    Idle = Idle
SYMMETRY TcbSymmetry
INVARIANTS
    TypeOK
    MutualExclusion
    HolderOwns
    TcbsExact
    NoLostWakeup
