CONSTANTS
    a = a
    Empty = Empty
    NULL = NULL
    NConns = 1
    BindIds = {a}
    Versions = {51, 52}
    RelDelays = {1}
    Jitter = {1}
    IdleLimit = 1
    RespLimit = 0
    CloseDelay = 1
    MaxPDUs = 3
    MaxConnects = 1
    Segmented = TRUE
    ObserveReplies = FALSE
    ObserveProbes = TRUE
    PDUs <- MCPDUs

SPECIFICATION Spec


PROPERTY ProbeBeforeUnbind
