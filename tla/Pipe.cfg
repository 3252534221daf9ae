SPECIFICATION MCSpec
CONSTANTS
    Thread = {t1, t2, t3}
    Byte = {0, 1}
    BufferSize = 3
    Chunk = {1, 2}
    Scenarios = {{"kill"}, {"fill"}}
INVARIANTS
    ReadsExact
    NoStuckCall
PROPERTIES
    ImplementsQueue
    EOFReleases
CHECK_DEADLOCK FALSE
