CONSTANTS
    Years <- MCYears
    Months <- MCMonths
    Days <- MCDays
    Hours <- MCHours
    Minutes = {0}
    Seconds <- MCSeconds
    Quarters = {0, 4}
    Lasts <- MCLasts
    Reads <- MCReads
    PastBy = {1, 13}
    Jitters = {0, 9}

SPECIFICATION Spec

INVARIANT MalformedAbsoluteRejected
