\* Recording, compiling and replaying a few short sessions.
SPECIFICATION Spec
CONSTANTS
    Turn <- MCTurn
    Contracts <- MCContracts
    Words <- MCWords
    Workspace <- MCWorkspace
    MaxSteps = 3
    MaxRuns = 2
    MaxStarts = 2
PROPERTY HandlersRunTheirCommands
CHECK_DEADLOCK FALSE
