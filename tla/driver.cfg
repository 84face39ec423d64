SPECIFICATION FairSpec
CONSTANTS
    Steps <- MCSteps
    Deps <- MCDeps
    HumanSteps = {"review"}
    Keys = {"approved"}
    AnswerKeys = {"approved"}
    HumanOutput = {"approved"}
    Required <- MCRequired
    Emits <- MCEmits
    CustomWaits <- MCCustomWaits
    Events = {"paid"}
    AnyEvent = AnyEvent
    NoWait = NoWait
    End = End
    InitialInputs <- AnyInputs
    MaxAttempts = 1
    AutoCheckpoint = TRUE
    SaveMayFail = TRUE
    ActionOrder <- MCOrder
    MaxLost = 1
INVARIANT SnapshotStaysReady
INVARIANT EffectsAreAccountedFor
INVARIANT AckedIsDurable
PROPERTY Implements
PROPERTY CallReturns
PROPERTY WorkflowCompletes
