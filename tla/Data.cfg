SPECIFICATION AllSpec
CONSTANTS
    Pid = {1, 2, 3}
    Proc = {1, 2, 3, 4}
    NoProc = 0
    MaxSignals = 2
    MaxDrift = 2
    MaxOrder = 3
    Pages <- SomePages
    HeapSize = 9
    Blocks <- SomeBlocks
    RingData = {1, 2, 3}
    ListData = {1, 2}
    MaxList = 4
    Key = {"c", "a"}
    Symbol = {"1"}
    BothCtrl = FALSE
    Byte = {1, 2}
    MaxSize = 2
    MaxModules = 2
    Buffer = 2
    Gap = 1
    BssSize = 6
    Name = {"a", "b", "c"}
    MaxCommands = 4
    LineChar = {"c", " ", "|", "&", "quote"}
    CommandLimit = 2
    MaxArgs = 2
    MaxLength = 6
    TextChar = {32, 45, 48, 49, 57}
    MaxText = 5
    CantColors = 5
    CantFreq = 4
    Rows = 2
    Cols = 3
    Letter = {"a", "b"}
    MaxLine = 3
    HistLines = 2
    MaxFunctions = 4
    CursorTicks = 2
    BeepTicks = 1
    DrawTicks = 1
    MaxTyped = 2
    FillsLastRow = FALSE
INVARIANTS
    ReapsItsOwn
    
    TableExact
    PagesExact
    FailsOnlyWhenFull
    HeapExact
    ListsExact
    CallbacksExact
    LineShown
    HistoryExact
    ReadersExact
CHECK_DEADLOCK FALSE
