SPECIFICATION Spec
CONSTANTS
    Steps <- MCSteps
    Deps <- MCDeps
    HumanSteps = {"review"}
    Keys = {"approved"}
    AnswerKeys = {"approved"}
    HumanOutput = {"approved"}
    Required <- MCOneRequired
    Emits <- MCEmits
    CustomWaits <- MCCustomWaits
    Events = {"paid", "other"}
    AnyEvent = AnyEvent
    NoWait = NoWait
    End = End
    InitialInputs <- NoInputs
    MaxAttempts = 1
    AutoCheckpoint = TRUE
    SaveMayFail = FALSE
INVARIANT TypeOK
INVARIANT DependencyOrder
INVARIANT HumanStepsAreAnswered
INVARIANT EndIsFinal
INVARIANT WaitCanBeResolved
