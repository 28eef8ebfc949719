-------------------------- MODULE MC_MessageStore --------------------------
EXTENDS MessageStore

CONSTANTS i1, i2, m1, m2

MCIds == {i1, i2}
MCMsgs == {m1, m2}

=============================================================================
