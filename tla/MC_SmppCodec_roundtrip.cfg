CONSTANTS
    Cmds <- MCCmds
    Statuses = {0}
    SeqNos <- MCSeqNos
    Bodies <- MCBodies
    Junk = {0, 255}
    BodyBuf = 1024
    MaxPDUs = 3

SPECIFICATION Spec

\* The connection ends when get() returns false and the session is released.
CHECK_DEADLOCK FALSE

INVARIANT PduRoundTrip
PROPERTY ReleasedOnlyWhenShort
