SPECIFICATION FairSpec
CONSTANTS
    Actions <- MCActions
    Steps <- MCSteps
    ActionOf <- MCActionOf
    Content <- MCContent
    Reproduces <- MCReproduces
    Volatile <- MCVolatile
    Recorded <- DistinctRecorded
    HasArtifact = {"list", "stamp"}
    InitialContent <- MCInitial
    Backend = TRUE
    MaxIters = 2
    FixesPerIter = 2
    Budget = 4
    FixTokens = {0, 3}
    MaxRuns = 3
    MayDie = TRUE
CHECK_DEADLOCK FALSE
INVARIANT ScoreIsOfTheBuild
INVARIANT ConvergedIsClean
INVARIANT BudgetIsKept
INVARIANT NothingIsRespent
PROPERTY RunEnds
