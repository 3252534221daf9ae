SPECIFICATION PartSpec
CONSTANTS
    Tcb = {1, 2, 3, 4}
    MainTcb = 1
    MaxTid = 2
    Careful = TRUE
    Lines <- SomeLines
    MaxPid = 4
    LateErrors = FALSE
    Width = 2
    Height = 4
    Middle <- SomeMiddle
    MaxSnake = 5
    GrowRate = 1
    FoodSpots <- SomeSpots
    Lower = {"a"}
    Other = {"1"}
    Upper <- SomeUpper
    MaxLine = 3
    N = 2
    Rounds = 1
    MaxDrift = 1
INVARIANTS
    JoinsExact
    CleanPrompt
    ResultsRight
PROPERTIES
    PromptReturns
    ProgramsEnd
CHECK_DEADLOCK FALSE
