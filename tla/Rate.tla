-------------------------------- MODULE Rate --------------------------------
(***************************************************************************)
(* The outbound rate limiter of nyangine-std/base/base_rate.c: a table of  *)
(* token buckets by key, and what the server last said about each.  A      *)
(* token is Period ticks of refill; the code refills lazily up to the      *)
(* burst, which is the same as refilling in every tick.                    *)
(***************************************************************************)
EXTENDS Integers, FiniteSets

CONSTANTS
    Routes,       \* the keys
    MaxBuckets,   \* NYA_RATE_MAX_BUCKETS
    Period,       \* ticks per token: 1 / per_second
    Burst,        \* tokens of a full bucket
    MaxHold       \* bound: the longest wait a server asks for, in ticks

ASSUME RateAssumption ==
    /\ IsFiniteSet(Routes) /\ MaxBuckets \in Nat \ {0}
    /\ Period \in Nat \ {0} /\ Burst \in Nat \ {0} /\ MaxHold \in Nat

VARIABLES
    buckets,   \* buckets[0 .. bucket_count - 1], by key
    budget,    \* history: one bucket per key that is never given up
    told       \* history: what is left of the longest wait a server asked for

rateVars == <<buckets, budget, told>>

Full == Burst * Period
Lesser(a, b) == IF a < b THEN a ELSE b
Greater(a, b) == IF a < b THEN b ELSE a

\* tokens in ticks of refill; held: ticks until held_until_ns.
Bucket == [tokens : 0 .. Full, held : 0 .. MaxHold]
FullBucket == [tokens |-> Full, held |-> 0]

Put(f, k, b) == [d \in DOMAIN f \cup {k} |-> IF d = k THEN b ELSE f[d]]

\* MUTANT of Spare: a bucket that is not held may go, full or not.
SpareUnheld(b) == b.held = 0

\* What may be reused: neither spent nor held.
Spare(b) == b.held = 0 /\ b.tokens = Full

\* _nya_rate_bucket: the tables in which k was looked up (which of the spare
\* buckets goes matters to no property here); without room k has no bucket.
Lookup(k) ==
    IF k \in DOMAIN buckets THEN {buckets}
    ELSE IF Cardinality(DOMAIN buckets) < MaxBuckets THEN {Put(buckets, k, FullBucket)}
    ELSE LET spare == {d \in DOMAIN buckets : Spare(buckets[d])}
         IN  IF spare = {} THEN {buckets}
             ELSE {Put([d \in DOMAIN buckets \ {v} |-> buckets[d]], k, FullBucket) : v \in spare}

RateInit ==
    /\ buckets = [d \in {} |-> FullBucket]
    /\ budget = [k \in Routes |-> Full]
    /\ told = [k \in Routes |-> 0]

\* _nya_rate_bucket_wait_ms: what the server said comes first.
WaitOf(b) == CASE b.held > 0 -> b.held
               [] b.held = 0 /\ b.tokens < Period -> Period - b.tokens
               [] OTHER -> 0

\* nya_rate_take answers true: wait is 0; or false and how long to wait.
Take(k, wait) ==
    \E table \in Lookup(k) :
        /\ wait = IF k \in DOMAIN table THEN WaitOf(table[k]) ELSE 1
        /\ buckets' = IF wait > 0 THEN table
                      ELSE [table EXCEPT ![k].tokens = @ - Period]
        /\ budget' = IF wait > 0 THEN budget ELSE [budget EXCEPT ![k] = @ - Period]
        /\ UNCHANGED told

\* MUTANT of Held: the newest reply wins over a longer wait.
HeldNewest(b, wait) == [b EXCEPT !.held = wait]

\* Later only: replies arrive out of order.
Held(b, wait) == [b EXCEPT !.held = Greater(@, wait)]

\* nya_rate_told
Told(k, wait) ==
    \E table \in Lookup(k) :
        /\ buckets' = IF k \in DOMAIN table
                      THEN [table EXCEPT ![k] = [Held(@, wait) EXCEPT !.tokens = 0]]
                      ELSE table
        /\ told' = IF k \in DOMAIN table THEN [told EXCEPT ![k] = Greater(@, wait)] ELSE told
        /\ UNCHANGED budget

\* nya_rate_observed: the reply counts remaining calls until a reset.  Lower only.
Observed(k, remaining, reset) ==
    \E table \in Lookup(k) :
        LET spent == remaining = 0 /\ reset > 0
            b == [table[k] EXCEPT !.tokens = Lesser(@, remaining * Period)]
        IN  /\ buckets' = IF k \notin DOMAIN table THEN table
                          ELSE [table EXCEPT ![k] = IF spent THEN Held(b, reset) ELSE b]
            /\ told' = IF k \in DOMAIN table /\ spent THEN [told EXCEPT ![k] = Greater(@, reset)]
                       ELSE told
            /\ UNCHANGED budget

\* nya_rate_limiter_destroy: a reset.
RateForget ==
    /\ buckets' = [d \in {} |-> FullBucket]
    /\ budget' = [k \in Routes |-> Full] /\ told' = [k \in Routes |-> 0]

Refilled(tokens) == Lesser(tokens + 1, Full)
Down(n) == IF n > 0 THEN n - 1 ELSE 0

RateTick ==
    /\ buckets' = [d \in DOMAIN buckets |->
                      [tokens |-> Refilled(buckets[d].tokens), held |-> Down(buckets[d].held)]]
    /\ budget' = [k \in Routes |-> Refilled(budget[k])]
    /\ told' = [k \in Routes |-> Down(told[k])]

RateNext ==
    \/ \E k \in Routes, wait \in 0 .. Greater(MaxHold, Period) : Take(k, wait)
    \/ \E k \in Routes, wait \in 0 .. MaxHold : Told(k, wait)
    \/ \E k \in Routes, remaining \in 0 .. Burst, reset \in 0 .. MaxHold :
           Observed(k, remaining, reset)
    \/ RateForget \/ RateTick

RateSpec == RateInit /\ [][RateNext]_rateVars

-----------------------------------------------------------------------------

RateTypeOK ==
    /\ DOMAIN buckets \subseteq Routes /\ Cardinality(DOMAIN buckets) <= MaxBuckets
    /\ \A k \in DOMAIN buckets : buckets[k] \in Bucket
    /\ budget \in [Routes -> Int] /\ told \in [Routes -> 0 .. MaxHold]

\* No key ever goes faster than its rate and burst allow, even when its bucket was
\* given up for another key's and made again: what goes, the bucket that is never
\* given up could pay for.  And nothing goes while a server's wait runs, whatever
\* replies came later and in whatever order.  (A wait that finds the table full of
\* waiting buckets is not recorded, base_rate.c:151, and not in told.)
NeverTooSoon ==
    [][\A k \in Routes : budget'[k] < budget[k] => budget'[k] >= 0 /\ told[k] = 0]_rateVars

=============================================================================
