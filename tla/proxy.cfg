SPECIFICATION Spec
CONSTANTS
    Main = Main
    Sub = Sub
    Plain = Plain
    Agents <- MCAgents
    Key <- MCKey
    NoKey = "none"
    MaxTurns <- MCTurns
    MaxCalls = 1
    MaxRetries <- MCRetries
    FullHistory = {Sub}
    Eager = {Sub}
    Synthetic = {Plain}
CHECK_DEADLOCK FALSE
INVARIANT EveryTurnIsCaptured
INVARIANT ResultsAreAttached
INVARIANT CompiledIsWhole
