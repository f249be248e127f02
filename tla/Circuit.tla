------------------------------- MODULE Circuit -------------------------------
(***************************************************************************)
(* The circuit breaker of nyangine-std/base/base_circuit.c: a table of     *)
(* entries by dependency, each CLOSED, OPEN or HALF_OPEN.  A breaker is    *)
(* one thread's or stands behind its callers' mutex, so nya_circuit_allow  *)
(* and nya_circuit_record are one action each; the calls they bracket      *)
(* overlap, and a call allowed in one state may report in another.         *)
(***************************************************************************)
EXTENDS Integers, FiniteSets

CONSTANTS
    Deps,               \* the keys: dependencies the program calls
    MaxDeps,            \* NYA_CIRCUIT_MAX_KEYS
    FailureThreshold, SuccessThreshold, HalfOpenMax,
    OpenFor,            \* open_ms, in ticks
    MaxFlight           \* bound: calls in flight to one dependency

ASSUME CircuitAssumption ==
    /\ IsFiniteSet(Deps) /\ MaxDeps \in Nat \ {0}
    /\ FailureThreshold \in Nat \ {0} /\ SuccessThreshold \in Nat \ {0}
    /\ HalfOpenMax \in Nat \ {0} /\ OpenFor \in Nat \ {0} /\ MaxFlight \in Nat \ {0}

VARIABLES
    entries,   \* entries[0 .. entry_count - 1], by key
    flight,    \* calls allowed and not reported, by key and kind
    quiet,     \* history: ticks since a failure was reported to a tripped key
    asked,     \* history: calls let through in this half-open period
    up         \* the environment: from now on no call fails

circuitVars == <<entries, flight, quiet, asked, up>>

\* A probe belongs to the half-open period the breaker is in; when that ends,
\* a probe still out is late.  Calls allowed while CLOSED, or of a key the
\* table had no room for, are plain.
Kinds == {"plain", "probe", "late"}

Entry == [state : {"closed", "open", "half_open"}, failures : 0 .. FailureThreshold,
          successes : 0 .. SuccessThreshold, probes : Nat,
          age : 0 .. OpenFor]            \* since opened_at, never more than asked for

NewEntry == [state |-> "closed", failures |-> 0, successes |-> 0, probes |-> 0, age |-> 0]

Resolved(e) ==
    IF e.state = "open" /\ e.age = OpenFor
    THEN [e EXCEPT !.state = "half_open", !.probes = 0, !.successes = 0]
    ELSE e

With(f, k, e) == [d \in DOMAIN f \cup {k} |-> IF d = k THEN e ELSE f[d]]

\* MUTANT of Tables: any entry may be reused.
TablesEvictAny(k) ==
    IF k \in DOMAIN entries THEN {entries}
    ELSE IF Cardinality(DOMAIN entries) < MaxDeps THEN {With(entries, k, NewEntry)}
    ELSE {With([d \in DOMAIN entries \ {v} |-> entries[d]], k, NewEntry) : v \in DOMAIN entries}

\* _nya_circuit_entry: the tables in which k was looked up.  A full table gives
\* up a CLOSED entry (which one of them matters to no property here), having
\* resolved them all; without one k goes untracked.
Tables(k) ==
    IF k \in DOMAIN entries THEN {entries}
    ELSE IF Cardinality(DOMAIN entries) < MaxDeps THEN {With(entries, k, NewEntry)}
    ELSE LET seen == [d \in DOMAIN entries |-> Resolved(entries[d])]
             closed == {d \in DOMAIN entries : seen[d].state = "closed"}
         IN  IF closed = {} THEN {seen}
             ELSE {With([d \in DOMAIN seen \ {v} |-> seen[d]], k, NewEntry) : v \in closed}

Flying(k) == flight[k].plain + flight[k].probe + flight[k].late

CircuitInit ==
    /\ entries = [d \in {} |-> NewEntry]
    /\ flight = [k \in Deps |-> [kind \in Kinds |-> 0]]
    /\ quiet = [k \in Deps |-> OpenFor]
    /\ asked = [k \in Deps |-> 0]
    /\ up = FALSE

\* MUTANT of Lets: the slot is taken before the cap is looked at.
LetsPastCap(e) ==
    e.state = "closed" \/ (e.state = "half_open" /\ e.probes <= HalfOpenMax)

Lets(e) == e.state = "closed" \/ (e.state = "half_open" /\ e.probes < HalfOpenMax)

\* nya_circuit_allow answers go.  Without an entry nothing is refused.
Allow(k, go) ==
    /\ Flying(k) < MaxFlight
    /\ \E table \in Tables(k) :
        LET e == Resolved(table[k])
            probe == k \in DOMAIN table /\ e.state = "half_open"
        IN  /\ go <=> (k \in DOMAIN table => Lets(e))
            /\ entries' = IF k \notin DOMAIN table THEN table
                          ELSE [table EXCEPT ![k] =
                                    IF probe /\ go THEN [e EXCEPT !.probes = @ + 1] ELSE e]
            /\ flight' = IF go THEN [flight EXCEPT ![k][IF probe THEN "probe" ELSE "plain"] = @ + 1]
                         ELSE flight
            /\ asked' = IF go /\ probe THEN [asked EXCEPT ![k] = @ + 1] ELSE asked
    /\ UNCHANGED <<quiet, up>>

\* MUTANT of Heard: a probe's success does not give its slot back.
HeardKeepsSlot(e) ==
    CASE e.state = "half_open" ->
            IF e.successes + 1 >= SuccessThreshold
            THEN [e EXCEPT !.state = "closed", !.failures = 0, !.successes = 0, !.probes = 0]
            ELSE [e EXCEPT !.successes = @ + 1]
      [] e.state = "closed" -> [e EXCEPT !.failures = 0]
      [] OTHER -> e

\* nya_circuit_record of a success, whichever call it belongs to.
Heard(e) ==
    CASE e.state = "half_open" ->
            IF e.successes + 1 >= SuccessThreshold
            THEN [e EXCEPT !.state = "closed", !.failures = 0, !.successes = 0, !.probes = 0]
            ELSE [e EXCEPT !.successes = @ + 1, !.probes = IF @ > 0 THEN @ - 1 ELSE 0]
      [] e.state = "closed" -> [e EXCEPT !.failures = 0]
      [] OTHER -> e

\* Of a failure: an open key's cooldown starts again.
Failed(e) ==
    CASE e.state = "closed" ->
            IF e.failures + 1 >= FailureThreshold
            THEN [e EXCEPT !.failures = @ + 1, !.state = "open", !.age = 0]
            ELSE [e EXCEPT !.failures = @ + 1]
      [] e.state = "half_open" ->
            [e EXCEPT !.state = "open", !.age = 0, !.successes = 0, !.probes = 0]
      [] OTHER -> [e EXCEPT !.age = 0]

\* The probes that are out when a half-open period ends are late ones.
Landed(k, kind, ends) ==
    LET left == [flight[k] EXCEPT ![kind] = @ - 1]
    IN  IF ends THEN [left EXCEPT !.late = @ + left.probe, !.probe = 0] ELSE left

\* nya_circuit_record; it does not resolve, and a key without an entry is ignored.
Report(k, kind, ok) ==
    /\ flight[k][kind] > 0 /\ (up => ok)
    /\ LET tracked == k \in DOMAIN entries
           e == IF ok THEN Heard(entries[k]) ELSE Failed(entries[k])
           ends == tracked /\ entries[k].state = "half_open" /\ e.state # "half_open"
       IN  /\ entries' = IF tracked THEN [entries EXCEPT ![k] = e] ELSE entries
           /\ flight' = [flight EXCEPT ![k] = Landed(k, kind, ends)]
           /\ asked' = IF ends THEN [asked EXCEPT ![k] = 0] ELSE asked
           /\ quiet' = IF tracked /\ ~ok /\ e.state = "open" THEN [quiet EXCEPT ![k] = 0] ELSE quiet
    /\ UNCHANGED up

\* nya_circuit_state
Look(k) ==
    /\ k \in DOMAIN entries
    /\ entries' = [entries EXCEPT ![k] = Resolved(@)]
    /\ UNCHANGED <<flight, quiet, asked, up>>

\* nya_circuit_breaker_destroy: a reset; calls in flight may still report.
Forget ==
    /\ entries' = [d \in {} |-> NewEntry]
    /\ flight' = [k \in Deps |-> [flight[k] EXCEPT !.late = @ + flight[k].probe, !.probe = 0]]
    /\ quiet' = [k \in Deps |-> OpenFor]
    /\ asked' = [k \in Deps |-> 0]
    /\ UNCHANGED up

Aged(n) == IF n < OpenFor THEN n + 1 ELSE n

CircuitTick ==
    /\ entries' = [d \in DOMAIN entries |-> [entries[d] EXCEPT !.age = Aged(@)]]
    /\ quiet' = [k \in Deps |-> Aged(quiet[k])]
    /\ UNCHANGED <<flight, asked, up>>

ComesUp == ~up /\ up' = TRUE /\ UNCHANGED <<entries, flight, quiet, asked>>

CircuitNext ==
    \/ \E k \in Deps, go \in BOOLEAN : Allow(k, go)
    \/ \E k \in Deps, kind \in Kinds, ok \in BOOLEAN : Report(k, kind, ok)
    \/ \E k \in Deps : Look(k)
    \/ Forget \/ CircuitTick \/ ComesUp

\* Callers report every call, as the header obliges them to, and keep calling;
\* time passes.
CircuitFair ==
    /\ WF_circuitVars(CircuitTick)
    /\ \A k \in Deps :
        /\ WF_circuitVars(\E go \in BOOLEAN : Allow(k, go))
        /\ WF_circuitVars(\E kind \in Kinds, ok \in BOOLEAN : Report(k, kind, ok))

CircuitSpec == CircuitInit /\ [][CircuitNext]_circuitVars /\ CircuitFair

-----------------------------------------------------------------------------

CircuitTypeOK ==
    /\ DOMAIN entries \subseteq Deps /\ Cardinality(DOMAIN entries) <= MaxDeps
    /\ \A k \in DOMAIN entries : entries[k] \in Entry
    /\ flight \in [Deps -> [Kinds -> 0 .. MaxFlight]]
    /\ quiet \in [Deps -> 0 .. OpenFor] /\ asked \in [Deps -> Nat] /\ up \in BOOLEAN

\* A tripped key is left alone for a whole cooldown after the last failure
\* reported to it, even while other keys fight for its place in the table.
QuietAfterFailure ==
    [][\A k \in Deps : Flying(k)' > Flying(k) => quiet[k] = OpenFor]_circuitVars

\* Every slot a half-open key counts as taken belongs to a probe that is out
\* and will report, whatever late answers came in between: none is leaked.
SlotsAreOut ==
    \A k \in DOMAIN entries :
        entries[k].state = "half_open" => entries[k].probes <= flight[k].probe

\* In one half-open period a broken dependency is asked at most half_open_max
\* questions more than it answered, and never the flood: an answer to a call
\* from before the trip counts as one (base_circuit.c:202); and no slot leaks.
BoundedQuestions ==
    /\ SlotsAreOut
    /\ \A k \in DOMAIN entries :
          entries[k].state = "half_open" => asked[k] <= HalfOpenMax + entries[k].successes

\* A dependency that recovered is not refused for ever.
BreakerHeals ==
    \A k \in Deps : up ~> (k \in DOMAIN entries => entries[k].state = "closed")

=============================================================================
