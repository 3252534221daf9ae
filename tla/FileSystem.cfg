SPECIFICATION Spec
CONSTANTS
    a = a
    b = b
    root = root
    dev = dev
    shm = shm
    stdin = stdin
    TestFile = TestFile
    Node = {a, b, root, dev, shm, stdin, TestFile}
    Null = Null
    p1 = p1
    p2 = p2
    Process = {p1, p2}
    DirPath <- MCDirPath
    Names <- MCNames
    Path <- MCPath
    Long = "long"
    MayRemoveCwd = FALSE
    Fd = {0, 3, 4}
    FirstFd = 3
    MaxData = 1
    MaxOpen = 3
    ShmName = {"a"}
    OpenMode = {"rw"}
SYMMETRY Symmetry
INVARIANTS
    FilesExact
    OpenedExact
    PipesFreed
    NobodySleepsInFreed
PROPERTIES
    ImplementsNameSpace
CHECK_DEADLOCK FALSE
