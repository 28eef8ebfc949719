CONSTANTS
    i1 = i1
    i2 = i2
    m1 = m1
    m2 = m2
    Ids <- MCIds
    Msgs <- MCMsgs
    MaxDelay = 2
    MaxPending = 3

SPECIFICATION Spec


PROPERTY MailboxRefined
