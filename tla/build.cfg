SPECIFICATION Spec
CONSTANTS
    Builds <- MCBuilds
    Code = {"read", "check"}
    SelfReferential = {"check"}
    Patched = {"draft", "price"}
    FileModel = {"price"}
    TextModel = {"answer"}
    Data = {"old", "new"}
    Params = {"CUST-1", "CUST-2"}
    Replies = {"done"}
    Silent = Silent
    Error = Error
    Absent = Absent
    LazyAgent = FALSE
INVARIANT EntryIsOfItsUpstream
INVARIANT EscalateOnce
PROPERTY ReplayIsOfThisData
