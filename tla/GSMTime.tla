------------------------------ MODULE GSMTime ------------------------------
(***************************************************************************)
(* The schedule_delivery_time of a submit_sm: SMPP::GSMStringTime,        *)
(* SMPP::GSMRelativeTime and the check of SMPPSession::run that rejects a  *)
(* schedule before now with ESME_RINVSCHED.                               *)
(*                                                                         *)
(* A schedule string "YYMMDDhhmmsstnnp" is given by what sscanf makes of  *)
(* it: the fields it assigned (nRead of them, in order; the others keep   *)
(* the zero of the memset) and its last character p.  Instants are pairs *)
(* [day, sec] of days since 1970-01-01 and seconds into the day, so that  *)
(* years far beyond 2038 stay within TLC's integers; the code's          *)
(* microseconds only matter to the comparison with now, where they are   *)
(* kept as "now has a fractional second".                                 *)
(***************************************************************************)
EXTENDS Integers

CONSTANTS
    Years, Months, Days, Hours, Minutes, Seconds, \* two-digit field values
    Quarters,   \* values of the nn field (offset from UTC in 15 minutes)
    Lasts,      \* last characters of the string: "+", "-", "R"
    Reads,      \* values sscanf can return for the absolute format (0..8)
    PastBy,     \* seconds by which a submit's now is after the schedule
    Jitters     \* the values of rand() % 10

VARIABLE last   \* the last schedule check: the string, now, the jitter, the status

Fields == [yy : Years, mm : Months, dd : Days, hh : Hours, mi : Minutes,
           ss : Seconds, tdif : Quarters, p : Lasts]

\* What sscanf("%02d%02d%02d%02d%02d%02d%*1d%02d%c") leaves in atm, tdif and
\* chDir after assigning its first n targets.
Scanned(n, f) ==
    [nRead |-> n, last |-> f.p,
     yy |-> IF n >= 1 THEN f.yy ELSE 0, mm |-> IF n >= 2 THEN f.mm ELSE 0,
     dd |-> IF n >= 3 THEN f.dd ELSE 0, hh |-> IF n >= 4 THEN f.hh ELSE 0,
     mi |-> IF n >= 5 THEN f.mi ELSE 0, ss |-> IF n >= 6 THEN f.ss ELSE 0,
     tdif |-> IF n >= 7 THEN f.tdif ELSE 0, chDir |-> IF n >= 8 THEN f.p ELSE "0"]

Strings == {Scanned(n, f) : n \in Reads, f \in Fields}

----------------------------------------------------------------------------
(* Instants                                                                *)

Instant(d, s) == [day |-> d + s \div 86400, sec |-> s % 86400]

Before(a, b) == a.day < b.day \/ (a.day = b.day /\ a.sec < b.sec)

Plus(a, s) == Instant(a.day, a.sec + s)

\* Days from 1970-01-01 to y-m-d in the proleptic Gregorian calendar
\* (m in 1..12), as timegm() counts them.
DaysFromCivil(y, m, d) ==
    LET y1  == IF m <= 2 THEN y - 1 ELSE y
        era == y1 \div 400
        yoe == y1 - era * 400
        doy == (153 * (IF m > 2 THEN m - 3 ELSE m + 9) + 2) \div 5 + d - 1
        doe == yoe * 365 + yoe \div 4 - yoe \div 100 + doy
    IN  era * 146097 + doe - 719468

\* timegm(&atm): tm_year counts from 1900, tm_mon from 0; a tm_mon beyond
\* 11 carries into the year and a tm_mday beyond the month into the next.
TimeGm(tmYear, tmMon, tmMday, h, mi, s) ==
    LET y == 1900 + tmYear + tmMon \div 12
        m == (tmMon % 12) + 1
    IN  Instant(DaysFromCivil(y, m, 1) + tmMday - 1, h * 3600 + mi * 60 + s)

Epoch == Instant(0, 0)

----------------------------------------------------------------------------
(* The code                                                                *)

\* Fault variant of GSMStringTime: the fields are converted whatever sscanf
\* returned.
GSMStringTimeAnyRead(in) ==
    LET tmYear == IF in.yy >= 70 THEN in.yy + 1900 ELSE in.yy + 2000
        t == TimeGm(tmYear, in.mm, in.dd, in.hh, in.mi, in.ss)
    IN  CASE in.chDir = "+" -> Plus(t, -(in.tdif * 15 * 60))
          [] in.chDir = "-" -> Plus(t, in.tdif * 15 * 60)
          [] OTHER          -> t

\* SMPP::GSMStringTime.  timegm() cannot return -1 for these years, so the
\* "invalid time" branch is not taken.
GSMStringTime(in) ==
    IF in.nRead # 8 THEN Epoch
    ELSE LET tmYear == IF in.yy >= 70 THEN in.yy + 1900 ELSE in.yy + 2000
             t == TimeGm(tmYear, in.mm, in.dd, in.hh, in.mi, in.ss)
         IN  CASE in.chDir = "+" -> Plus(t, -(in.tdif * 15 * 60))
               [] in.chDir = "-" -> Plus(t, in.tdif * 15 * 60)
               [] OTHER          -> t

\* SMPP::GSMRelativeTime: "%*02d%*02d%02d%02d%02d%02d..." skips years and
\* months and needs the four fields after them.
GSMRelativeTime(in) ==
    IF in.nRead >= 6 THEN ((in.dd * 24 + in.hh) * 60 + in.mi) * 60 + in.ss ELSE 0

\* tESMEDeliveryTimeRequired < tNow, for now = nowSec + frac (frac: a
\* fractional second) and the uint64 microsecond values of the code, which
\* never wrap for these instants.
Rejected(in, nowSec, frac, r) ==
    IF in.last = "R"
    THEN Before(Plus(nowSec, GSMRelativeTime(in)), nowSec)
    ELSE LET target == Plus(GSMStringTime(in), 3 + r)
         IN  Before(target, nowSec) \/ (target = nowSec /\ frac)

\* The non-empty-schedule branch of SMPPSession::run for one submit_sm.
CheckSchedule(in, nowSec, frac, r) ==
    last' = [in |-> in, now |-> nowSec, frac |-> frac, r |-> r,
             status |-> IF Rejected(in, nowSec, frac, r) THEN "ESME_RINVSCHED" ELSE "ESME_ROK"]

----------------------------------------------------------------------------
(* The instant the spec asks for (section 4.3, Scheduling): YYMMDD is a    *)
(* calendar date (YY >= 70 in the 1900s, else in the 2000s) in the time    *)
(* zone nn quarters of an hour ahead of (+) or behind (-) UTC.            *)

ValidDate(in) ==
    /\ in.nRead = 8 /\ in.last \in {"+", "-"}
    /\ in.mm \in 1..12 /\ in.dd \in 1..28 \cup (IF in.mm = 2 THEN {} ELSE 29..30)
                                         \cup (IF in.mm \in {1, 3, 5, 7, 8, 10, 12} THEN {31} ELSE {})

CalendarInstant(in) ==
    LET y == IF in.yy >= 70 THEN 1900 + in.yy ELSE 2000 + in.yy
        t == Instant(DaysFromCivil(y, in.mm, in.dd), in.hh * 3600 + in.mi * 60 + in.ss)
    IN  IF in.last = "+" THEN Plus(t, -(in.tdif * 900)) ELSE Plus(t, in.tdif * 900)

\* The present of a submit: PastBy seconds after the calendar instant of
\* its schedule when that is a date, an arbitrary present otherwise.
NowFor(in, k) ==
    IF ValidDate(in) THEN Plus(CalendarInstant(in), k) ELSE Instant(20000, k)

\* Between two submits: select() waits and no schedule is being checked.
Idle == [in |-> "none", now |-> Epoch, frac |-> FALSE,
         r |-> 0, status |-> "none"]

Init == last = Idle

\* run() reads one submit_sm with a schedule and answers it.
Submit == \E in \in Strings, k \in PastBy, frac \in BOOLEAN, r \in Jitters :
            /\ last.status = "none"
            /\ CheckSchedule(in, NowFor(in, k), frac, r)

\* run() returns to the select() loop; the next submit is checked afresh.
Return == last.status # "none" /\ last' = Idle

Next == Submit \/ Return

Spec == Init /\ [][Next]_last

----------------------------------------------------------------------------
(* Properties                                                              *)

Checked == last.status # "none"

\* A schedule_delivery_time that does not parse (sscanf assigns fewer than
\* its 8 fields) is rejected with ESME_RINVSCHED, whatever rand() adds:
\* GSMStringTime falls back to 0 and the check against now catches it.
MalformedAbsoluteRejected ==
    Checked /\ last.in.last # "R" /\ last.in.nRead < 8 => last.status = "ESME_RINVSCHED"

\* An absolute schedule already in the past when submitted is rejected
\* with ESME_RINVSCHED (spec 4.3 and the "one second in the past" case of
\* section 8).
PastScheduleRejected ==
    Checked /\ ValidDate(last.in) => last.status = "ESME_RINVSCHED"

=============================================================================
