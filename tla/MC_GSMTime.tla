----------------------------- MODULE MC_GSMTime -----------------------------
EXTENDS GSMTime

\* Dates on both sides of the YY pivot, months at both ends of the year and
\* beside February, the last day of a 31-day month, both signs and the
\* relative marker, and sscanf stopping early, at the offset, or not at all.
MCYears == {25, 70}
MCMonths == {1, 2, 12}
MCDays == {1, 31}
MCHours == {0, 23}
MCSeconds == {0, 59}
MCLasts == {"+", "-", "R"}
MCReads == {0, 5, 7, 8}

=============================================================================
