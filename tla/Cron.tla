-------------------------------- MODULE Cron --------------------------------
(***************************************************************************)
(* The cron schedules of nyangine-core/db/db_jobs.c: nya_cron_parse turns  *)
(* five fields into sets of allowed values (the code's bit masks) and      *)
(* nya_cron_next searches day by day for the first firing after an         *)
(* instant.  The search is a state machine, one step per day it looks at.  *)
(* The calendar is a parameter: its sizes are small for TLC, the           *)
(* algorithm does not depend on them.                                      *)
(***************************************************************************)
EXTENDS Integers, Sequences, FiniteSets

CONSTANTS
    TicksPerMinute,   \* NYA_NS_PER_MINUTE
    MinutesPerHour, HoursPerDay,
    MonthLengths,     \* days of each month of the one-year calendar
    WeekLength,
    HorizonDays,      \* 366 * 8
    Specs,            \* the specs searched, each five fields of terms
    Instants          \* the instants searched from

Months == Len(MonthLengths)
MaxDom == CHOOSE d \in {MonthLengths[i] : i \in 1 .. Months} :
              \A i \in 1 .. Months : MonthLengths[i] <= d

ASSUME CronAssumption ==
    /\ TicksPerMinute \in Nat \ {0} /\ MinutesPerHour \in Nat \ {0}
    /\ HoursPerDay \in Nat \ {0} /\ WeekLength \in Nat \ {0}
    /\ MonthLengths \in Seq(Nat \ {0}) /\ Months > 0
    /\ HorizonDays \in Nat \ {0} /\ Instants \subseteq Nat

(***************************************************************************)
(* nya_cron_parse                                                          *)
(***************************************************************************)

\* One comma-separated term: "*", "a" or "a-b", and its step (NoStep: none).
NoStep == -1
Star == [kind |-> "star", a |-> 0, b |-> 0, step |-> NoStep]
One(a) == [kind |-> "one", a |-> a, b |-> 0, step |-> NoStep]
Span(a, b) == [kind |-> "span", a |-> a, b |-> b, step |-> NoStep]
Every(t, n) == [t EXCEPT !.step = n]

Term == [kind : {"star", "one", "span"}, a : Nat, b : Nat, step : Nat \cup {NoStep}]
Field == Seq(Term)
ASSUME SpecsAssumption ==
    Specs \subseteq [minute : Field, hour : Field, dom : Field, month : Field, dow : Field]

Start(t, lo) == IF t.kind = "star" THEN lo ELSE t.a

\* "a/n" reads as from a to the top of the field.
End(t, hi) == CASE t.kind = "star" -> hi
                [] t.kind = "span" -> t.b
                [] t.kind = "one"  -> IF t.step = NoStep THEN t.a ELSE hi

TermValid(t, lo, hi) ==
    t.step # 0 /\ Start(t, lo) >= lo /\ End(t, hi) <= hi /\ Start(t, lo) <= End(t, hi)

TermMask(t, lo, hi) ==
    {v \in Start(t, lo) .. End(t, hi) :
        t.step = NoStep \/ (v - Start(t, lo)) % t.step = 0}

FieldValid(f, lo, hi) == \A i \in 1 .. Len(f) : TermValid(f[i], lo, hi)

Mask(f, lo, hi) == UNION {TermMask(f[i], lo, hi) : i \in 1 .. Len(f)}

\* strcmp(field, "*"): anything but a bare star restricts the field.
Restricted(f) == f # <<Star>>

\* Cron's two spellings of Sunday.
FoldSunday(days) == IF WeekLength \in days THEN (days \cup {0}) \ {WeekLength} ELSE days

SpecValid(s) ==
    /\ FieldValid(s.minute, 0, MinutesPerHour - 1)
    /\ FieldValid(s.hour, 0, HoursPerDay - 1)
    /\ FieldValid(s.dom, 1, MaxDom)
    /\ FieldValid(s.month, 1, Months)
    /\ FieldValid(s.dow, 0, WeekLength)

Parse(s) ==
    [minute |-> Mask(s.minute, 0, MinutesPerHour - 1),
     hour   |-> Mask(s.hour, 0, HoursPerDay - 1),
     dom    |-> Mask(s.dom, 1, MaxDom),
     month  |-> Mask(s.month, 1, Months),
     dow    |-> FoldSunday(Mask(s.dow, 0, WeekLength)),
     domRestricted |-> Restricted(s.dom),
     dowRestricted |-> Restricted(s.dow)]

(***************************************************************************)
(* The calendar (nya_instant_to_utc, nya_date_weekday): day n of the epoch *)
(* has a month, a day of the month and a weekday, Sunday being 0.          *)
(***************************************************************************)
DaysBefore[m \in 1 .. Months + 1] ==
    IF m = 1 THEN 0 ELSE DaysBefore[m - 1] + MonthLengths[m - 1]
YearLength == DaysBefore[Months + 1]

MonthOf(n) == CHOOSE m \in 1 .. Months :
                  DaysBefore[m] <= n % YearLength /\ n % YearLength < DaysBefore[m + 1]
DomOf(n) == (n % YearLength) - DaysBefore[MonthOf(n)] + 1
DowOf(n) == n % WeekLength

MinutesPerDay == MinutesPerHour * HoursPerDay

\* The Vixie rule: restricted both, a day matches on either.
DayOk(c, n) ==
    /\ MonthOf(n) \in c.month
    /\ \/ ~c.domRestricted /\ ~c.dowRestricted
       \/ c.domRestricted /\ DomOf(n) \in c.dom
       \/ c.dowRestricted /\ DowOf(n) \in c.dow

(***************************************************************************)
(* nya_cron_next                                                           *)
(***************************************************************************)
VARIABLES
    spec, after,   \* the arguments
    day,           \* days looked at so far
    status,        \* "searching", "found", "not_found" or "invalid"
    answer         \* out_next

vars == <<spec, after, day, status, answer>>

\* The first whole minute strictly after the argument.
Candidate(t) == ((t - (t % TicksPerMinute)) + TicksPerMinute) \div TicksPerMinute

FirstDay(t) == Candidate(t) \div MinutesPerDay

\* MUTANT of Firings: the first minute applies to every hour of the first day.
FiringsLateHours(c, d, t) ==
    LET first == Candidate(t) % MinutesPerDay
    IN  {x \in c.hour \X c.minute :
            d = 0 => x[1] >= first \div MinutesPerHour /\ x[2] >= first % MinutesPerHour}

\* The hours and minutes the inner loops visit on the d-th day: from the
\* candidate's own time on the first, from midnight on the others.
Firings(c, d, t) ==
    LET first == Candidate(t) % MinutesPerDay
        firstHour == first \div MinutesPerHour
    IN  {x \in c.hour \X c.minute :
            d = 0 => \/ x[1] > firstHour
                     \/ x[1] = firstHour /\ x[2] >= first % MinutesPerHour}

\* The first one the loops meet: hours outermost.
Earliest(S) == CHOOSE x \in S : \A y \in S : x[1] < y[1] \/ (x[1] = y[1] /\ x[2] <= y[2])

InstantOf(n, x) == (n * MinutesPerDay + x[1] * MinutesPerHour + x[2]) * TicksPerMinute

Init ==
    /\ spec \in Specs /\ after \in Instants
    /\ day = 0 /\ answer = 0
    /\ status = IF SpecValid(spec) THEN "searching" ELSE "invalid"

Today == FirstDay(after) + day

FiresToday == /\ DayOk(Parse(spec), Today)
              /\ Firings(Parse(spec), day, after) # {}

Found ==
    /\ status = "searching" /\ day < HorizonDays
    /\ FiresToday
    /\ status' = "found"
    /\ answer' = InstantOf(Today, Earliest(Firings(Parse(spec), day, after)))
    /\ UNCHANGED <<spec, after, day>>

NextDay ==
    /\ status = "searching" /\ day < HorizonDays
    /\ ~FiresToday
    /\ day' = day + 1
    /\ UNCHANGED <<spec, after, status, answer>>

NotFound ==
    /\ status = "searching" /\ day = HorizonDays
    /\ status' = "not_found"
    /\ UNCHANGED <<spec, after, day, answer>>

Next == Found \/ NextDay \/ NotFound

Spec == Init /\ [][Next]_vars

-----------------------------------------------------------------------------

\* The header's reading of a spec, minute by minute.  Fires(s, m) does not use
\* the parser, the day search or the loops above.
Allows(f, v, lo, hi) ==
    \E i \in 1 .. Len(f) :
        LET t == f[i]
            n == IF t.step = NoStep THEN 1 ELSE t.step
        IN  \/ t.kind = "star" /\ \E k \in 0 .. hi : v = lo + k * n
            \/ t.kind = "one" /\ v = t.a
            \/ t.kind = "one" /\ t.step # NoStep /\ \E k \in 0 .. hi : v = t.a + k * n
            \/ t.kind = "span" /\ v <= t.b /\ \E k \in 0 .. hi : v = t.a + k * n

Fires(s, m) ==
    LET n == m \div MinutesPerDay
        dom == Allows(s.dom, DomOf(n), 1, MaxDom)
        dow == \/ Allows(s.dow, DowOf(n), 0, WeekLength)
               \/ DowOf(n) = 0 /\ Allows(s.dow, WeekLength, 0, WeekLength)
    IN  /\ Allows(s.minute, m % MinutesPerHour, 0, MinutesPerHour - 1)
        /\ Allows(s.hour, (m \div MinutesPerHour) % HoursPerDay, 0, HoursPerDay - 1)
        /\ Allows(s.month, MonthOf(n), 1, Months)
        /\ IF s.dom # <<Star>> /\ s.dow # <<Star>> THEN dom \/ dow ELSE dom /\ dow

\* The instant nya_cron_next answers is a minute the spec names, strictly after
\* the argument, and no earlier one is: completing exactly at a firing does not
\* re-fire it, and no firing is skipped.
EarliestFiring ==
    status = "found" =>
        LET m == answer \div TicksPerMinute
        IN  /\ answer % TicksPerMinute = 0 /\ answer > after
            /\ Fires(spec, m)
            /\ \A e \in 0 .. m - 1 : e * TicksPerMinute > after => ~Fires(spec, e)

\* NOT_FOUND means there is nothing to find: no firing within the horizon.
NotFoundIsEmpty ==
    status = "not_found" =>
        \A e \in Candidate(after) .. (FirstDay(after) + HorizonDays) * MinutesPerDay - 1 :
            ~Fires(spec, e)

\* What nya_cron_next answers is right either way.
AnswerIsRight == EarliestFiring /\ NotFoundIsEmpty

=============================================================================
