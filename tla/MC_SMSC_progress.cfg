CONSTANTS
    a = a
    Empty = Empty
    NULL = NULL
    NConns = 2
    BindIds = {a}
    Versions = {51, 52}
    RelDelays = {1}
    Jitter = {1}
    IdleLimit = 1
    RespLimit = 0
    CloseDelay = 1
    MaxPDUs = 3
    MaxConnects = 2
    Segmented = FALSE
    ObserveReplies = FALSE
    ObserveProbes = FALSE
    PDUs <- MCLivePDUs

SPECIFICATION Spec


INVARIANT MessageConservation

PROPERTY DueMessageDelivered HeardSessionReleased
