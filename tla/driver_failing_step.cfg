SPECIFICATION CallSpec
CONSTANTS
    Steps <- MCSteps
    Deps <- MCDeps
    HumanSteps = {"review"}
    Keys = {"approved"}
    AnswerKeys = {"approved"}
    HumanOutput = {"approved"}
    Required <- MCRequired
    Emits <- MCEmits
    CustomWaits <- MCCustomWaits
    Events = {"paid"}
    AnyEvent = AnyEvent
    NoWait = NoWait
    End = End
    InitialInputs <- AnyInputs
    MaxAttempts = 1
    AutoCheckpoint = TRUE
    SaveMayFail = FALSE
    ActionOrder <- MCOrder
    MaxLost = 1
PROPERTY CallReturns
