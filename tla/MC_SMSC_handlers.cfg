CONSTANTS
    a = a
    Empty = Empty
    NULL = NULL
    NConns = 1
    BindIds = {a}
    Versions = {51, 52}
    RelDelays = {2}
    Jitter = {1}
    IdleLimit = 1
    RespLimit = 0
    CloseDelay = 1
    MaxPDUs = 4
    MaxConnects = 1
    Segmented = TRUE
    ObserveReplies = FALSE
    ObserveProbes = FALSE
    PDUs <- MCPDUs

SPECIFICATION Spec

INVARIANT TypeOK
INVARIANT MessageConservation

PROPERTY NoEarlyDelivery
