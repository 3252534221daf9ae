SPECIFICATION Spec
CONSTANTS
    Thread = {t1, t2}
    Byte = {0, 1}
    BufferSize = 3
    Chunk = {1, 2}
    Scenarios = {{"fill"}}
INVARIANTS
    NoEmptyRead
CHECK_DEADLOCK FALSE
