CONSTANTS
    a = a
    Empty = Empty
    NULL = NULL
    Versions = {51, 52}
    RelDelays = {1}
    Jitter = {1}
    IdleLimit = 1
    RespLimit = 0
    CloseDelay = 1
    NConns = 1
    BindIds = {a}
    MaxPDUs = 2
    MaxConnects = 1
    Segmented = TRUE
    ObserveReplies = FALSE
    ObserveProbes = FALSE
    PDUs <- MCPDUs

SPECIFICATION Spec

PROPERTY ClosedOnlyOnEofOrClosingTime
