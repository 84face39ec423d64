\* Recording, compiling and replaying a few short sessions.
SPECIFICATION Spec
CONSTANTS
    Turn <- MCTurn
    Contracts <- MCContracts
    Words <- MCWords
    Workspace <- MCWorkspace
    MaxSteps = 3
    MaxRuns = 2
    MaxStarts = 2
INVARIANT AcceptedExactlyWhenOrderable
INVARIANT LoopsCompile
INVARIANT PatternIsEarliestBest
INVARIANT PlainTurnsReplay
INVARIANT StraightSessionRebuilds
INVARIANT RestartsConverge
INVARIANT BenchmarkMatches
PROPERTY EvidenceGrows
CHECK_DEADLOCK FALSE
