SPECIFICATION Spec
CONSTANTS
    t1 = t1
    t2 = t2
    t3 = t3
    p1 = p1
    p2 = p2
    Thread <- MCThread
    Process <- MCProcess
    ProcessOf <- MCProcessOf
    ThreadOrder <- MCThreadOrder
    MaxPriority = 2
    Quantum <- ShortQuanta
    MaxNiced = 2
    Idle = Idle
INVARIANTS
    QueuesExact
PROPERTIES
    RunsListed
    NoStarvation
