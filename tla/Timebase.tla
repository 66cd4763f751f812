------------------------------ MODULE Timebase ------------------------------
(***************************************************************************)
(* The clock of timebase_svc.c and SYSTem:DATETIME: a date a client sets   *)
(* is paired with the uptime, a 32-bit count of milliseconds that wraps    *)
(* after 49.7 days, and a reading adds the uptime that has gone by.  The   *)
(* pair is copied under the lock, the uptime is read after its release.    *)
(*                                                                         *)
(* A day has DayParts parts and the uptime counts parts modulo Wrap; a     *)
(* date is [y, m, d, part].                                                *)
(***************************************************************************)
EXTENDS Integers, FiniteSets

CONSTANTS
    Sessions,
    Dates,        \* what clients send: every field within what strptime takes
    DayParts, Wrap,
    MaxElapsed,   \* bound on the clock
    MaxSets       \* bound on dates set

ASSUME ClockAssumption ==
    /\ Dates \subseteq [y : Nat, m : 1..12, d : 1..31, part : Nat]
    /\ {DayParts, Wrap} \subseteq Nat \ {0}
    /\ {MaxElapsed, MaxSets} \subseteq Nat

VARIABLES
    elapsed,        \* parts since boot
    base_mapping,   \* s_timebase_svc
    call,           \* each session's call
    set_at,         \* history: the date the base stands for and when it was set
    sets,           \* dates set so far
    shown           \* history: the last answer, when it was given, and the bases in force in its call

timebaseVars == <<elapsed, base_mapping, call, set_at, sets, shown>>

Epoch == [y |-> 1970, m |-> 1, d |-> 1, part |-> 0]
Error == [y |-> 0, m |-> 0, d |-> 0, part |-> 0]
Nothing == [answer |-> Error]

(* The calendar *)

IsLeap(y) == (y % 4 = 0 /\ y % 100 # 0) \/ y % 400 = 0
DaysIn(y, m) ==
    IF m = 2 THEN IF IsLeap(y) THEN 29 ELSE 28
    ELSE IF m \in {4, 6, 9, 11} THEN 30 ELSE 31

\* Days from 1970-01-01 to the first of January of y, and on to the first of m.
YearStart(y) == 365 * (y - 1970) + (y - 1969) \div 4 - (y - 1901) \div 100 + (y - 1601) \div 400
MonthStart(y, m) ==
    YearStart(y) + (367 * m - 362) \div 12
    - (IF m <= 2 THEN 0 ELSE IF IsLeap(y) THEN 1 ELSE 2)

\* The C library's timegm, which takes any day and part for what it comes to, and its inverse.
timegm(t) == (MonthStart(t.y, t.m) + t.d - 1) * DayParts + t.part
gmtime(unix) ==
    LET n == unix \div DayParts
        y == CHOOSE y \in (1970 + n \div 366)..(1970 + n \div 365) :
                 YearStart(y) <= n /\ n < YearStart(y + 1)
        m == CHOOSE m \in 1..12 :
                 MonthStart(y, m) <= n /\ (m = 12 \/ n < MonthStart(y, m + 1))
    IN [y |-> y, m |-> m, d |-> n - MonthStart(y, m) + 1, part |-> unix % DayParts]

\* Mutant: what timegm makes of the fields is taken.
AcceptedUnchecked(t) == t.y >= 1970
\* scpi_handler_datetime_to_unix_ms: refused when timegm has to change a field.
Accepted(t) == t.y >= 1970 /\ gmtime(timegm(t)) = t

\* scpi_handler_format_datetime: a year has four digits, or the answer is an error.
Formatted(t) == IF t.y > 9999 THEN Error ELSE t
-----------------------------------------------------------------------------
ClockInit ==
    /\ elapsed = 0
    /\ base_mapping = [unix_ms |-> 0, uptime_ms |-> 0]
    /\ call = [s \in Sessions |-> Nothing]
    /\ set_at = [date |-> Epoch, at |-> 0] /\ sets = 0
    /\ shown = Nothing

timebase_svc_uptime_ms == elapsed % Wrap

Elapse ==
    /\ elapsed < MaxElapsed /\ elapsed' = elapsed + 1
    /\ UNCHANGED <<base_mapping, call, set_at, sets, shown>>

SetBase(t) ==
    base_mapping' = [unix_ms |-> timegm(t), uptime_ms |-> timebase_svc_uptime_ms]

\* command_syst_datetime; a date that is not accepted changes nothing.
SetDate ==
    /\ sets < MaxSets /\ sets' = sets + 1
    /\ \E t \in Dates :
           /\ Accepted(t)
           /\ SetBase(t)
           /\ set_at' = [date |-> t, at |-> elapsed]
           /\ call' = [s \in Sessions |->
                  IF call[s] = Nothing THEN Nothing ELSE [call[s] EXCEPT !.bases = @ \cup {set_at'}]]
    /\ UNCHANGED <<elapsed, shown>>

\* timebase_svc_get_current_unix_ms up to the release of the lock, and after it.
CopyBase(s) ==
    /\ call[s] = Nothing
    /\ call' = [call EXCEPT ![s] = [mapping |-> base_mapping, bases |-> {set_at}]]
    /\ UNCHANGED <<elapsed, base_mapping, set_at, sets, shown>>

Answer(s) ==
    /\ call[s] # Nothing /\ call' = [call EXCEPT ![s] = Nothing]
    /\ LET mapping == call[s].mapping
           unix == mapping.unix_ms + ((timebase_svc_uptime_ms - mapping.uptime_ms) % Wrap)
       IN shown' = [answer |-> Formatted(gmtime(unix)), at |-> elapsed, bases |-> call[s].bases]
    /\ UNCHANGED <<elapsed, base_mapping, set_at, sets>>

\* SYSTem:DATETIME:MAP? answers the pair itself.
ReadMap ==
    /\ shown' = [answer |-> Formatted(gmtime(base_mapping.unix_ms)), at |-> set_at.at, bases |-> {set_at}]
    /\ UNCHANGED <<elapsed, base_mapping, call, set_at, sets>>

ClockNext ==
    \/ Elapse \/ SetDate \/ ReadMap
    \/ \E s \in Sessions : CopyBase(s) \/ Answer(s)

ClockSpec == ClockInit /\ [][ClockNext]_timebaseVars
-----------------------------------------------------------------------------
\* Reference: the date one part later, by the calendar alone.
NextPart(t) ==
    IF t.part + 1 < DayParts THEN [t EXCEPT !.part = @ + 1]
    ELSE IF t.d < DaysIn(t.y, t.m) THEN [t EXCEPT !.part = 0, !.d = @ + 1]
    ELSE IF t.m < 12 THEN [t EXCEPT !.part = 0, !.d = 1, !.m = @ + 1]
    ELSE [t EXCEPT !.part = 0, !.d = 1, !.m = 1, !.y = @ + 1]

After(t, n) == LET f[i \in 0..n] == IF i = 0 THEN t ELSE NextPart(f[i - 1]) IN f[n]

\* A reading is the date that was set, or one set during the call, plus the time that has
\* passed, over ends of months and years and one wrap of the uptime: only a base as old as
\* a whole wrap reads wrong.
ReadingIsTime ==
    shown # Nothing =>
        \E b \in shown.bases :
            \/ shown.at - b.at >= Wrap
            \/ /\ b.date.d <= DaysIn(b.date.y, b.date.m)
               /\ shown.answer = Formatted(After(b.date, shown.at - b.at))
=============================================================================
