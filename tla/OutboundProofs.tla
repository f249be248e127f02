---------------------------- MODULE OutboundProofs ----------------------------
(***************************************************************************)
(* What holds of the rate limiter, of the circuit breaker and of the       *)
(* requests that go through both, for every number of keys, every size of  *)
(* the tables and every rate, burst, threshold, cooldown and retry limit.  *)
(***************************************************************************)
EXTENDS Outbound, FiniteSetTheorems, TLAPS

-----------------------------------------------------------------------------
(***************************************************************************)
(* The rate limiter.  A table of buckets is honest when each bucket holds  *)
(* no more than the bucket that is never given up would, and is held at    *)
(* least as long as the server asked for; and a key without a bucket owes  *)
(* nothing, which is what makes it safe to give a spare bucket away.       *)
(***************************************************************************)

BucketHonest(k, b) == /\ b \in Bucket
                      /\ b.tokens <= budget[k] /\ told[k] <= b.held

OwesNothing(k) == budget[k] = Full /\ told[k] = 0

TableHonest(table) ==
    /\ DOMAIN table \subseteq Routes
    /\ Cardinality(DOMAIN table) <= MaxBuckets
    /\ \A k \in DOMAIN table : BucketHonest(k, table[k])
    /\ \A k \in Routes \ DOMAIN table : OwesNothing(k)

RateInv ==
    /\ budget \in [Routes -> 0 .. Full] /\ told \in [Routes -> 0 .. MaxHold]
    /\ TableHonest(buckets)

\* A full bucket pays for one call at least; a count of calls is a count of ticks.
LEMMA FullBounds ==
    /\ Full \in Nat /\ Period <= Full
    /\ \A n \in Nat : n * Period \in Nat
<1>1. Burst * Period \in Nat
  BY RateAssumption
<1>2. Period <= Burst * Period
  BY RateAssumption
<1>3. \A n \in Nat : n * Period \in Nat
  BY RateAssumption
<1> QED
  BY <1>1, <1>2, <1>3 DEF Full

\* Another key can be entered in a table that has room.
LEMMA RoomForOne ==
    ASSUME NEW T, IsFiniteSet(T), NEW S \in SUBSET T, NEW N \in Nat, NEW k,
           k \notin S => Cardinality(S) < N, Cardinality(S) <= N
    PROVE  Cardinality(S \cup {k}) <= N
<1>1. IsFiniteSet(S) /\ Cardinality(S) \in Nat
  BY FS_Subset, FS_CardinalityType
<1>2. Cardinality(S \cup {k}) = IF k \in S THEN Cardinality(S) ELSE Cardinality(S) + 1
  BY <1>1, FS_AddElement
<1> QED
  BY <1>1, <1>2

\* _nya_rate_bucket leaves the table honest: a new bucket is full and not held,
\* and the one it may have replaced was, too.
LEMMA LookupHonest ==
    ASSUME RateInv, NEW k \in Routes, NEW table \in Lookup(k)
    PROVE  TableHonest(table)
<1> USE DEF RateInv, TableHonest
<1>1. BucketHonest(k, FullBucket) \/ k \in DOMAIN buckets
  BY FullBounds, RateAssumption DEF BucketHonest, OwesNothing, FullBucket, Bucket
<1>2. CASE table = buckets
  BY <1>2
<1>3. CASE k \notin DOMAIN buckets /\ Cardinality(DOMAIN buckets) < MaxBuckets
           /\ table = Put(buckets, k, FullBucket)
  <2>1. DOMAIN table = DOMAIN buckets \cup {k}
    BY <1>3 DEF Put
  <2>2. Cardinality(DOMAIN table) <= MaxBuckets
    BY <1>3, <2>1, RoomForOne, RateAssumption
  <2>3. \A d \in DOMAIN table : table[d] = IF d = k THEN FullBucket ELSE buckets[d]
    BY <1>3 DEF Put
  <2> QED
    BY <1>1, <1>3, <2>1, <2>2, <2>3
<1>4. ASSUME k \notin DOMAIN buckets,
             NEW v \in DOMAIN buckets, Spare(buckets[v]),
             table = Put([d \in DOMAIN buckets \ {v} |-> buckets[d]], k, FullBucket)
      PROVE  TableHonest(table)
  <2> DEFINE S == DOMAIN buckets \ {v}
  <2>1. DOMAIN table = S \cup {k}
    BY <1>4 DEF Put
  <2>2. /\ IsFiniteSet(DOMAIN buckets) /\ Cardinality(DOMAIN buckets) \in Nat
        /\ Cardinality(S) = Cardinality(DOMAIN buckets) - 1
    BY RateAssumption, FS_Subset, FS_CardinalityType, FS_RemoveElement
  <2>3. Cardinality(DOMAIN table) <= MaxBuckets
    BY <1>4, <2>1, <2>2, RoomForOne, RateAssumption
  <2>4. \A d \in DOMAIN table : table[d] = IF d = k THEN FullBucket ELSE buckets[d]
    BY <1>4 DEF Put
  <2>5. OwesNothing(v)
    BY <1>4, FullBounds, RateAssumption DEF BucketHonest, OwesNothing, Spare, Bucket
  <2> QED
    BY <1>1, <1>4, <2>1, <2>3, <2>4, <2>5
<1> QED
  BY <1>2, <1>3, <1>4 DEF Lookup

\* What one bucket may become without the table becoming dishonest.
LEMMA BucketChange ==
    ASSUME RateInv, NEW table, TableHonest(table), NEW k \in DOMAIN table, NEW b,
           buckets' = [table EXCEPT ![k] = b],
           budget' \in [Routes -> 0 .. Full], told' \in [Routes -> 0 .. MaxHold],
           \A d \in Routes : d # k => budget'[d] = budget[d] /\ told'[d] = told[d],
           b \in Bucket, b.tokens <= budget'[k], told'[k] <= b.held
    PROVE  RateInv'
<1>1. DOMAIN buckets' = DOMAIN table
  OBVIOUS
<1>2. \A d \in DOMAIN table : buckets'[d] = IF d = k THEN b ELSE table[d]
  OBVIOUS
<1> QED
  BY <1>1, <1>2 DEF RateInv, TableHonest, BucketHonest, OwesNothing

\* The invariant is kept, and nothing goes too soon.
LEMMA RateStep ==
    ASSUME RateInv, [RateNext]_rateVars
    PROVE  /\ RateInv'
           /\ \A k \in Routes : budget'[k] < budget[k] => budget'[k] >= 0 /\ told[k] = 0
<1> USE FullBounds, RateAssumption
<1>0. /\ budget \in [Routes -> 0 .. Full] /\ told \in [Routes -> 0 .. MaxHold]
      /\ \A k \in Routes : budget[k] \in Int
  BY DEF RateInv
<1>1. ASSUME NEW k \in Routes, NEW wait \in 0 .. Greater(MaxHold, Period), Take(k, wait)
      PROVE  /\ RateInv'
             /\ \A d \in Routes : budget'[d] < budget[d] => budget'[d] >= 0 /\ told[d] = 0
  <2>1. PICK table \in Lookup(k) :
          /\ wait = IF k \in DOMAIN table THEN WaitOf(table[k]) ELSE 1
          /\ buckets' = IF wait > 0 THEN table ELSE [table EXCEPT ![k].tokens = @ - Period]
          /\ budget' = IF wait > 0 THEN budget ELSE [budget EXCEPT ![k] = @ - Period]
          /\ UNCHANGED told
    BY <1>1 DEF Take
  <2>2. TableHonest(table)
    BY <2>1, LookupHonest
  <2>3. wait \in Nat
    BY DEF Greater
  <2>4. CASE wait > 0
    <3>1. buckets' = table /\ budget' = budget /\ told' = told
      BY <2>1, <2>4
    <3> QED
      BY <1>0, <2>2, <3>1 DEF RateInv, TableHonest, BucketHonest, OwesNothing
  <2>5. CASE wait = 0
    <3> DEFINE b == [table[k] EXCEPT !.tokens = @ - Period]
    <3>1. k \in DOMAIN table /\ BucketHonest(k, table[k])
      BY <2>1, <2>2, <2>5 DEF TableHonest
    <3>2. table[k] \in Bucket /\ table[k].held = 0 /\ table[k].tokens >= Period
      BY <2>1, <2>5, <3>1 DEF BucketHonest, Bucket, WaitOf
    <3>3. b \in Bucket /\ b.tokens = table[k].tokens - Period /\ b.held = 0
      BY <3>2 DEF Bucket
    <3>4. /\ budget' \in [Routes -> 0 .. Full]
          /\ budget'[k] = budget[k] - Period
          /\ \A d \in Routes : d # k => budget'[d] = budget[d]
      BY <1>0, <2>1, <2>5, <3>1, <3>2 DEF BucketHonest, Bucket
    <3>5. told[k] = 0 /\ told' = told
      BY <1>0, <2>1, <3>1, <3>2 DEF BucketHonest
    <3>6. buckets' = [table EXCEPT ![k] = b]
      BY <2>1, <2>5
    <3>7. b.tokens <= budget'[k]
      BY <1>0, <3>1, <3>2, <3>3, <3>4 DEF BucketHonest, Bucket
    <3> HIDE DEF b
    <3>8. /\ told' \in [Routes -> 0 .. MaxHold] /\ told'[k] <= b.held
          /\ \A d \in Routes : d # k => budget'[d] = budget[d] /\ told'[d] = told[d]
      BY <1>0, <3>3, <3>4, <3>5
    <3>9. RateInv'
      BY <2>2, <3>1, <3>3, <3>4, <3>6, <3>7, <3>8, BucketChange
    <3> QED
      BY <1>0, <3>4, <3>5, <3>9
  <2> QED
    BY <2>3, <2>4, <2>5
<1>2. ASSUME NEW k \in Routes, NEW wait \in 0 .. MaxHold, Told(k, wait)
      PROVE  RateInv' /\ budget' = budget
  <2>1. PICK table \in Lookup(k) :
          /\ buckets' = IF k \in DOMAIN table
                        THEN [table EXCEPT ![k] = [Held(@, wait) EXCEPT !.tokens = 0]]
                        ELSE table
          /\ told' = IF k \in DOMAIN table THEN [told EXCEPT ![k] = Greater(@, wait)] ELSE told
          /\ UNCHANGED budget
    BY <1>2 DEF Told
  <2>2. TableHonest(table)
    BY <2>1, LookupHonest
  <2>3. CASE k \notin DOMAIN table
    BY <1>0, <2>1, <2>2, <2>3 DEF RateInv, TableHonest, BucketHonest, OwesNothing
  <2>4. CASE k \in DOMAIN table
    <3> DEFINE b == [Held(table[k], wait) EXCEPT !.tokens = 0]
    <3>1. table[k] \in Bucket /\ told[k] <= table[k].held
      BY <2>2, <2>4 DEF TableHonest, BucketHonest
    <3>2. b \in Bucket /\ b.tokens = 0 /\ b.held = Greater(table[k].held, wait)
      <4>1. Greater(table[k].held, wait) \in 0 .. MaxHold
        BY <3>1 DEF Bucket, Greater
      <4> DEFINE h == Held(table[k], wait)
      <4>2. h = [tokens |-> table[k].tokens, held |-> Greater(table[k].held, wait)]
        BY <3>1 DEF Bucket, Held
      <4> HIDE DEF h
      <4>3. [h EXCEPT !.tokens = 0] = [tokens |-> 0, held |-> Greater(table[k].held, wait)]
        BY <4>2
      <4>4. b = [tokens |-> 0, held |-> Greater(table[k].held, wait)]
        BY <4>3 DEF h
      <4> QED
        BY <4>1, <4>4 DEF Bucket
    <3>3. /\ told' \in [Routes -> 0 .. MaxHold] /\ told'[k] = Greater(told[k], wait)
          /\ \A d \in Routes : d # k => told'[d] = told[d]
      BY <1>0, <2>1, <2>4 DEF Greater
    <3>4. told'[k] <= b.held /\ b.tokens <= budget'[k]
      BY <1>0, <2>1, <3>1, <3>2, <3>3 DEF Greater, Bucket
    <3>5. buckets' = [table EXCEPT ![k] = b]
      BY <2>1, <2>4
    <3> HIDE DEF b
    <3> QED
      BY <1>0, <2>1, <2>2, <2>4, <3>2, <3>3, <3>4, <3>5, BucketChange, ZenonT(60)
  <2> QED
    BY <2>3, <2>4
<1>3. ASSUME NEW k \in Routes, NEW remaining \in 0 .. Burst, NEW reset \in 0 .. MaxHold,
             Observed(k, remaining, reset)
      PROVE  RateInv' /\ budget' = budget
  <2> DEFINE spent == remaining = 0 /\ reset > 0
             lower(t) == [t[k] EXCEPT !.tokens = Lesser(@, remaining * Period)]
             heard(t) == IF spent THEN Held(lower(t), reset) ELSE lower(t)
  <2>1. PICK table \in Lookup(k) :
          /\ buckets' = IF k \notin DOMAIN table THEN table
                        ELSE [table EXCEPT ![k] = heard(table)]
          /\ told' = IF k \in DOMAIN table /\ spent THEN [told EXCEPT ![k] = Greater(@, reset)]
                     ELSE told
          /\ UNCHANGED budget
    BY <1>3 DEF Observed
  <2>2. TableHonest(table)
    BY <2>1, LookupHonest
  <2>3. CASE k \notin DOMAIN table
    BY <1>0, <2>1, <2>2, <2>3 DEF RateInv, TableHonest, BucketHonest, OwesNothing
  <2>4. CASE k \in DOMAIN table
    <3>1. /\ table[k] \in Bucket /\ told[k] <= table[k].held
          /\ table[k].tokens <= budget[k]
      BY <2>2, <2>4 DEF TableHonest, BucketHonest
    <3>2. remaining * Period \in Nat
      OBVIOUS
    <3>3. /\ lower(table) \in Bucket /\ lower(table).held = table[k].held
          /\ lower(table).tokens <= table[k].tokens
      BY <3>1, <3>2 DEF Bucket, Lesser
    <3>4. /\ heard(table) \in Bucket /\ heard(table).tokens <= table[k].tokens
          /\ heard(table).held = IF spent THEN Greater(table[k].held, reset) ELSE table[k].held
      <4> HIDE DEF lower
      <4> QED
        BY <3>1, <3>3 DEF Bucket, Held, Greater
    <3>5. /\ told' \in [Routes -> 0 .. MaxHold]
          /\ told'[k] = IF spent THEN Greater(told[k], reset) ELSE told[k]
          /\ \A d \in Routes : d # k => told'[d] = told[d]
      BY <1>0, <2>1, <2>4 DEF Greater
    <3> HIDE DEF heard, lower
    <3>6. told'[k] <= heard(table).held /\ heard(table).tokens <= budget'[k]
      BY <1>0, <2>1, <3>1, <3>4, <3>5 DEF Greater, Bucket
    <3>7. buckets' = [table EXCEPT ![k] = heard(table)]
      BY <2>1, <2>4
    <3> HIDE DEF spent
    <3> QED
      BY <1>0, <2>1, <2>2, <2>4, <3>4, <3>5, <3>6, <3>7, BucketChange
  <2> QED
    BY <2>3, <2>4
<1>4. CASE RateForget
  <2>1. DOMAIN buckets' = {}
    BY <1>4 DEF RateForget
  <2>2. Cardinality({}) = 0
    BY FS_EmptySet
  <2>3. \A k \in Routes : budget'[k] = Full /\ told'[k] = 0
    BY <1>4 DEF RateForget
  <2>4. budget' \in [Routes -> 0 .. Full] /\ told' \in [Routes -> 0 .. MaxHold]
    BY <1>4 DEF RateForget
  <2>5. RateInv'
    BY <2>1, <2>2, <2>3, <2>4 DEF RateInv, TableHonest, OwesNothing
  <2> QED
    BY <1>0, <2>3, <2>5
<1>5. CASE RateTick
  <2>1. /\ DOMAIN buckets' = DOMAIN buckets
        /\ \A d \in DOMAIN buckets : buckets'[d] =
              [tokens |-> Refilled(buckets[d].tokens), held |-> Down(buckets[d].held)]
    BY <1>5 DEF RateTick
  <2>2. \A k \in Routes : budget'[k] = Refilled(budget[k]) /\ told'[k] = Down(told[k])
    BY <1>5 DEF RateTick
  <2>3. budget' \in [Routes -> 0 .. Full] /\ told' \in [Routes -> 0 .. MaxHold]
    BY <1>0, <1>5 DEF RateTick, Refilled, Lesser, Down
  <2>4. ASSUME NEW d \in DOMAIN buckets
        PROVE  BucketHonest(d, buckets[d])'
    BY <1>0, <2>1, <2>2 DEF RateInv, TableHonest, BucketHonest, Bucket, Refilled, Lesser, Down
  <2>5. ASSUME NEW d \in Routes \ DOMAIN buckets
        PROVE  OwesNothing(d)'
    BY <1>0, <2>2 DEF RateInv, TableHonest, OwesNothing, Refilled, Lesser, Down
  <2>6. RateInv'
    BY <2>1, <2>3, <2>4, <2>5 DEF RateInv, TableHonest
  <2>7. \A k \in Routes : budget'[k] >= budget[k]
    BY <1>0, <2>2 DEF Refilled, Lesser
  <2> QED
    BY <1>0, <2>3, <2>6, <2>7
<1>6. CASE UNCHANGED rateVars
  BY <1>0, <1>6 DEF rateVars, RateInv, TableHonest, BucketHonest, OwesNothing
<1> QED
  BY <1>0, <1>1, <1>2, <1>3, <1>4, <1>5, <1>6 DEF RateNext

\* An empty table is honest.
LEMMA RateStart == RateInit => RateInv
<1> SUFFICES ASSUME RateInit PROVE RateInv
  OBVIOUS
<1>1. DOMAIN buckets = {} /\ Cardinality({}) = 0
  BY FS_EmptySet DEF RateInit
<1>2. \A k \in Routes : budget[k] = Full /\ told[k] = 0
  BY DEF RateInit
<1>3. budget \in [Routes -> 0 .. Full] /\ told \in [Routes -> 0 .. MaxHold]
  BY FullBounds, RateAssumption DEF RateInit
<1> QED
  BY <1>1, <1>2, <1>3, RateAssumption DEF RateInv, TableHonest, OwesNothing

\* The table of buckets is honest in every reachable state, and well typed.
THEOREM RateHonestAlways == RateSpec => [](RateInv /\ RateTypeOK)
<1>1. RateInv => RateTypeOK
  <2> SUFFICES ASSUME RateInv PROVE RateTypeOK
    OBVIOUS
  <2>1. budget \in [Routes -> Int]
    BY FullBounds DEF RateInv
  <2> QED
    BY <2>1 DEF RateInv, TableHonest, BucketHonest, RateTypeOK
<1>2. RateInv /\ [RateNext]_rateVars => RateInv'
  BY RateStep
<1> QED
  BY <1>1, <1>2, RateStart, PTL DEF RateSpec

\* No key goes faster than its rate and burst allow, nor while a server's wait for
\* it runs, whichever keys fight for the places in the table.
THEOREM NeverTooSoonAlways == RateSpec => NeverTooSoon
<1>1. RateInv /\ [RateNext]_rateVars
        => RateInv' /\ [\A k \in Routes : budget'[k] < budget[k]
                                            => budget'[k] >= 0 /\ told[k] = 0]_rateVars
  BY RateStep
<1> QED
  BY <1>1, RateStart, PTL DEF RateSpec, NeverTooSoon

-----------------------------------------------------------------------------
(***************************************************************************)
(* The circuit breaker.  An entry fits what happened to its key: q ticks   *)
(* since a failure tripped it, a calls let through in this half-open       *)
(* period, p probes out.  BoundedQuestions is not inductive: that a late   *)
(* answer may free a slot but never gives the key more calls than it       *)
(* answered needs a <= successes + probes, and that no call goes before    *)
(* the cooldown is over needs that opened_at is no older than the failure. *)
(***************************************************************************)

Fits(e, q, a, p) ==
    /\ e \in Entry
    /\ e.state = "closed" => q = OpenFor /\ a = 0 /\ e.failures < FailureThreshold
    /\ e.state = "open" => e.age <= q /\ a = 0
    /\ e.state = "half_open" => /\ q = OpenFor
                                /\ e.probes <= p /\ e.probes <= HalfOpenMax
                                /\ a <= e.successes + e.probes

\* A key without an entry was not tripped since the last reset.
Untripped(k) == quiet[k] = OpenFor /\ asked[k] = 0

EntriesFit(table) ==
    /\ DOMAIN table \subseteq Deps
    /\ Cardinality(DOMAIN table) <= MaxDeps
    /\ \A k \in DOMAIN table : Fits(table[k], quiet[k], asked[k], flight[k].probe)
    /\ \A k \in Deps \ DOMAIN table : Untripped(k)

CallsTyped ==
    /\ flight \in [Deps -> [Kinds -> Nat]]
    /\ \A k \in Deps : Flying(k) <= MaxFlight
    /\ quiet \in [Deps -> 0 .. OpenFor] /\ asked \in [Deps -> Nat]
    /\ up \in BOOLEAN

CircuitInv == CallsTyped /\ EntriesFit(entries)

\* An entry that was just made.
LEMMA NewEntryFits ==
    ASSUME NEW p \in Nat
    PROVE  Fits(NewEntry, OpenFor, 0, p)
  BY CircuitAssumption DEF Fits, NewEntry, Entry

\* The ways in which the code changes an entry; its record type is what matters,
\* not the numbers in it.
LEMMA EntryResets ==
    ASSUME NEW e \in Entry
    PROVE  /\ [e EXCEPT !.state = "half_open", !.probes = 0, !.successes = 0] \in Entry
           /\ [e EXCEPT !.state = "closed", !.failures = 0, !.successes = 0, !.probes = 0] \in Entry
           /\ [e EXCEPT !.state = "open", !.age = 0, !.successes = 0, !.probes = 0] \in Entry
<1> DEFINE S == {"closed", "open", "half_open"}
           F == 0 .. FailureThreshold
           U == 0 .. SuccessThreshold
           P == Nat
           G == 0 .. OpenFor
<1>1. Entry = [state : S, failures : F, successes : U, probes : P, age : G]
  BY DEF Entry
<1>2. /\ "closed" \in S /\ "open" \in S /\ "half_open" \in S
      /\ 0 \in F /\ 0 \in U /\ 0 \in P /\ 0 \in G
  BY CircuitAssumption
<1> HIDE DEF S, F, U, P, G
<1>3. /\ [e EXCEPT !.state = "half_open", !.probes = 0, !.successes = 0] \in Entry
      /\ [e EXCEPT !.state = "open", !.age = 0, !.successes = 0, !.probes = 0] \in Entry
  BY <1>1, <1>2
<1>4. [e EXCEPT !.state = "closed", !.failures = 0, !.successes = 0, !.probes = 0] \in Entry
  BY <1>1, <1>2
<1> QED
  BY <1>3, <1>4

\* A failure is counted, and may trip.
LEMMA FailuresChange ==
    ASSUME NEW e \in Entry, NEW n \in 0 .. FailureThreshold
    PROVE  /\ [e EXCEPT !.failures = n] \in Entry
           /\ [e EXCEPT !.failures = n, !.state = "open", !.age = 0] \in Entry
<1> DEFINE S == {"closed", "open", "half_open"}
           F == 0 .. FailureThreshold
           U == 0 .. SuccessThreshold
           P == Nat
           G == 0 .. OpenFor
<1>1. Entry = [state : S, failures : F, successes : U, probes : P, age : G]
  BY DEF Entry
<1>2. "open" \in S /\ 0 \in G /\ n \in F
  BY CircuitAssumption
<1> HIDE DEF S, F, U, P, G
<1> QED
  BY <1>1, <1>2

\* A success is counted.
LEMMA SuccessesChange ==
    ASSUME NEW e \in Entry, NEW u \in 0 .. SuccessThreshold, NEW n \in Nat
    PROVE  [e EXCEPT !.successes = u, !.probes = n] \in Entry
<1> DEFINE S == {"closed", "open", "half_open"}
           F == 0 .. FailureThreshold
           U == 0 .. SuccessThreshold
           P == Nat
           G == 0 .. OpenFor
<1>1. Entry = [state : S, failures : F, successes : U, probes : P, age : G]
  BY DEF Entry
<1>2. u \in U /\ n \in P
  BY CircuitAssumption
<1> HIDE DEF S, F, U, P, G
<1> QED
  BY <1>1, <1>2

\* opened_at moves, or the clock does.
LEMMA AgeChange ==
    ASSUME NEW e \in Entry, NEW n \in 0 .. OpenFor
    PROVE  [e EXCEPT !.age = n] \in Entry
<1> DEFINE S == {"closed", "open", "half_open"}
           F == 0 .. FailureThreshold
           U == 0 .. SuccessThreshold
           P == Nat
           G == 0 .. OpenFor
<1>1. Entry = [state : S, failures : F, successes : U, probes : P, age : G]
  BY DEF Entry
<1>2. n \in G
  BY CircuitAssumption
<1> HIDE DEF S, F, U, P, G
<1> QED
  BY <1>1, <1>2

\* A slot is taken.
LEMMA ProbesChange ==
    ASSUME NEW e \in Entry, NEW n \in Nat
    PROVE  [e EXCEPT !.probes = n] \in Entry
<1> DEFINE S == {"closed", "open", "half_open"}
           F == 0 .. FailureThreshold
           U == 0 .. SuccessThreshold
           P == Nat
           G == 0 .. OpenFor
<1>1. Entry = [state : S, failures : F, successes : U, probes : P, age : G]
  BY DEF Entry
<1>2. n \in P
  BY CircuitAssumption
<1> HIDE DEF S, F, U, P, G
<1> QED
  BY <1>1, <1>2

\* The fields of an entry have their types.
LEMMA EntryFields ==
    ASSUME NEW e \in Entry
    PROVE  /\ e.state \in {"closed", "open", "half_open"}
           /\ e.failures \in 0 .. FailureThreshold /\ e.successes \in 0 .. SuccessThreshold
           /\ e.probes \in Nat /\ e.age \in 0 .. OpenFor
           /\ DOMAIN e = {"state", "failures", "successes", "probes", "age"}
  BY DEF Entry

\* The cooldown of an entry that fits is over (_nya_circuit_resolve).
LEMMA ResolvedFits ==
    ASSUME NEW q \in 0 .. OpenFor, NEW a \in Nat, NEW p \in Nat, NEW e, Fits(e, q, a, p)
    PROVE  Fits(Resolved(e), q, a, p)
<1>0. e \in Entry
  BY DEF Fits
<1>1. CASE e.state = "open" /\ e.age = OpenFor
  <2>1. Resolved(e) = [e EXCEPT !.state = "half_open", !.probes = 0, !.successes = 0]
    BY <1>1 DEF Resolved
  <2>2. Resolved(e) \in Entry
    BY <1>0, <2>1, EntryResets
  <2>3. /\ Resolved(e).state = "half_open"
        /\ Resolved(e).probes = 0 /\ Resolved(e).successes = 0
    BY <1>0, <2>1, EntryFields
  <2>4. q = OpenFor /\ a = 0
    BY <1>1, CircuitAssumption DEF Fits
  <2> QED
    BY <2>2, <2>3, <2>4, CircuitAssumption DEF Fits
<1> QED
  BY <1>1 DEF Resolved

\* It hears of a success, a probe's or a late one.
LEMMA HeardFits ==
    ASSUME NEW q \in 0 .. OpenFor, NEW a \in Nat, NEW p \in Nat, NEW e, Fits(e, q, a, p),
           NEW r \in Nat, r >= p - 1
    PROVE  IF e.state = "half_open" /\ Heard(e).state # "half_open"
           THEN Fits(Heard(e), q, 0, r) ELSE Fits(Heard(e), q, a, r)
<1> USE CircuitAssumption
<1>0. e \in Entry
  BY DEF Fits
<1>1. CASE e.state = "half_open" /\ e.successes + 1 >= SuccessThreshold
  <2>1. Heard(e) = [e EXCEPT !.state = "closed", !.failures = 0, !.successes = 0, !.probes = 0]
    BY <1>1 DEF Heard
  <2>2. Heard(e) \in Entry
    BY <1>0, <2>1, EntryResets
  <2>3. Heard(e).state = "closed" /\ Heard(e).failures = 0
    BY <1>0, <2>1, EntryFields
  <2> QED
    BY <1>1, <2>2, <2>3 DEF Fits
<1>2. CASE e.state = "half_open" /\ ~(e.successes + 1 >= SuccessThreshold)
  <2> DEFINE freed == IF e.probes > 0 THEN e.probes - 1 ELSE 0
  <2>1. Heard(e) = [e EXCEPT !.successes = e.successes + 1, !.probes = freed]
    BY <1>2 DEF Heard
  <2>2. e.successes + 1 \in 0 .. SuccessThreshold /\ e.probes \in Nat /\ freed \in Nat
    BY <1>0, <1>2, EntryFields
  <2>3. Heard(e) \in Entry
    <3>1. [e EXCEPT !.successes = e.successes + 1, !.probes = freed] \in Entry
      BY <1>0, <2>2, SuccessesChange, Zenon
    <3> QED
      BY <2>1, <3>1
  <2>4. /\ Heard(e).state = "half_open"
        /\ Heard(e).successes = e.successes + 1 /\ Heard(e).probes = freed
    BY <1>0, <1>2, <2>1, EntryFields
  <2> QED
    BY <1>0, <1>2, <2>2, <2>3, <2>4, EntryFields DEF Fits
<1>3. CASE e.state = "closed"
  <2>1. Heard(e) = [e EXCEPT !.failures = 0]
    BY <1>3 DEF Heard
  <2>2. Heard(e) \in Entry
    <3>1. 0 \in 0 .. FailureThreshold
      OBVIOUS
    <3>2. [e EXCEPT !.failures = 0] \in Entry
      BY <1>0, <3>1, FailuresChange, Zenon
    <3> QED
      BY <2>1, <3>2
  <2>3. Heard(e).state = "closed" /\ Heard(e).failures = 0
    BY <1>0, <1>3, <2>1, EntryFields
  <2> QED
    BY <1>3, <2>2, <2>3 DEF Fits
<1>4. CASE e.state = "open"
  <2>1. Heard(e) = e
    BY <1>4 DEF Heard
  <2> QED
    BY <1>4, <2>1 DEF Fits
<1> QED
  BY <1>0, <1>1, <1>2, <1>3, <1>4, EntryFields

\* It hears of a failure.
LEMMA FailedFits ==
    ASSUME NEW q \in 0 .. OpenFor, NEW a \in Nat, NEW p \in Nat, NEW e, Fits(e, q, a, p),
           NEW r \in Nat
    PROVE  /\ Failed(e).state # "half_open"
           /\ Fits(Failed(e), IF Failed(e).state = "open" THEN 0 ELSE q, 0, r)
<1> USE CircuitAssumption
<1>0. e \in Entry
  BY DEF Fits
<1>1. CASE e.state = "closed" /\ e.failures + 1 >= FailureThreshold
  <2>1. e.failures + 1 \in 0 .. FailureThreshold
    BY <1>0, <1>1, EntryFields DEF Fits
  <2>2. Failed(e) = [e EXCEPT !.failures = e.failures + 1, !.state = "open", !.age = 0]
    BY <1>1 DEF Failed
  <2>3. Failed(e) \in Entry
    <3>1. [e EXCEPT !.failures = e.failures + 1, !.state = "open", !.age = 0] \in Entry
      BY <1>0, <2>1, FailuresChange, Zenon
    <3> QED
      BY <2>2, <3>1
  <2>4. Failed(e).state = "open" /\ Failed(e).age = 0
    BY <1>0, <2>2, EntryFields
  <2> QED
    BY <2>3, <2>4 DEF Fits
<1>2. CASE e.state = "closed" /\ ~(e.failures + 1 >= FailureThreshold)
  <2>1. e.failures + 1 \in 0 .. FailureThreshold /\ e.failures + 1 < FailureThreshold
    BY <1>0, <1>2, EntryFields
  <2>2. Failed(e) = [e EXCEPT !.failures = e.failures + 1]
    BY <1>2 DEF Failed
  <2>3. Failed(e) \in Entry
    <3>1. [e EXCEPT !.failures = e.failures + 1] \in Entry
      BY <1>0, <2>1, FailuresChange, Zenon
    <3> QED
      BY <2>2, <3>1
  <2>4. Failed(e).state = "closed" /\ Failed(e).failures = e.failures + 1
    BY <1>0, <1>2, <2>2, EntryFields
  <2> QED
    BY <1>2, <2>1, <2>3, <2>4 DEF Fits
<1>3. CASE e.state = "half_open"
  <2>1. Failed(e) = [e EXCEPT !.state = "open", !.age = 0, !.successes = 0, !.probes = 0]
    BY <1>3 DEF Failed
  <2>2. Failed(e) \in Entry
    BY <1>0, <2>1, EntryResets
  <2>3. Failed(e).state = "open" /\ Failed(e).age = 0
    BY <1>0, <2>1, EntryFields
  <2> QED
    BY <2>2, <2>3 DEF Fits
<1>4. CASE e.state = "open"
  <2>1. Failed(e) = [e EXCEPT !.age = 0]
    BY <1>4 DEF Failed
  <2>2. Failed(e) \in Entry
    <3>1. 0 \in 0 .. OpenFor
      OBVIOUS
    <3>2. [e EXCEPT !.age = 0] \in Entry
      BY <1>0, <3>1, AgeChange, Zenon
    <3> QED
      BY <2>1, <3>2
  <2>3. Failed(e).state = "open" /\ Failed(e).age = 0
    BY <1>0, <1>4, <2>1, EntryFields
  <2> QED
    BY <2>2, <2>3 DEF Fits
<1> QED
  BY <1>0, <1>1, <1>2, <1>3, <1>4, EntryFields

\* A call is let through: the cooldown is over, and a probe takes a slot.
LEMMA LetFits ==
    ASSUME NEW q \in 0 .. OpenFor, NEW a \in Nat, NEW p \in Nat, NEW e, Fits(e, q, a, p), Lets(e)
    PROVE  /\ q = OpenFor
           /\ e.state = "half_open" => Fits([e EXCEPT !.probes = @ + 1], q, a + 1, p + 1)
<1>1. q = OpenFor
  BY DEF Fits, Lets
<1>2. CASE e.state = "half_open"
  <2>1. /\ e \in Entry /\ e.probes < HalfOpenMax
        /\ e.probes <= p /\ a <= e.successes + e.probes
    BY <1>2 DEF Fits, Lets
  <2>2. e.probes \in Nat /\ e.successes \in Nat
    BY <2>1, EntryFields
  <2> DEFINE n == [e EXCEPT !.probes = e.probes + 1]
  <2>3. n \in Entry
    <3>1. e.probes + 1 \in Nat
      BY <2>2
    <3> QED
      BY <2>1, <3>1, ProbesChange, Zenon
  <2>4. n.state = "half_open" /\ n.probes = e.probes + 1 /\ n.successes = e.successes
    BY <1>2, <2>1, EntryFields
  <2> HIDE DEF n
  <2>5. Fits(n, q, a + 1, p + 1)
    BY <1>1, <2>1, <2>2, <2>3, <2>4, CircuitAssumption DEF Fits
  <2> QED
    BY <1>1, <2>5 DEF n
<1> QED
  BY <1>1, <1>2

\* _nya_circuit_entry leaves the entries fitting: the one that was given up was
\* closed, so its key was not tripped.
LEMMA TablesFit ==
    ASSUME CircuitInv, NEW k \in Deps, NEW table \in Tables(k)
    PROVE  EntriesFit(table)
<1> USE CircuitAssumption DEF CircuitInv
<1> DEFINE seen == [d \in DOMAIN entries |-> Resolved(entries[d])]
<1>0. /\ \A d \in Deps : /\ quiet[d] \in 0 .. OpenFor /\ asked[d] \in Nat
                         /\ flight[d].probe \in Nat
      /\ DOMAIN entries \subseteq Deps
  BY DEF CallsTyped, Kinds, EntriesFit
<1>1. EntriesFit(seen)
  <2>1. \A d \in DOMAIN entries : Fits(Resolved(entries[d]), quiet[d], asked[d], flight[d].probe)
    BY <1>0, ResolvedFits DEF EntriesFit
  <2> QED
    BY <2>1 DEF EntriesFit
<1>2. ASSUME NEW t, EntriesFit(t), NEW S, S \subseteq DOMAIN t, k \notin S,
             \A v \in DOMAIN t \ S : t[v].state = "closed",
             table = With([d \in S |-> t[d]], k, NewEntry),
             Cardinality(S) < MaxDeps, k \notin DOMAIN t
      PROVE  EntriesFit(table)
  <2>1. DOMAIN table = S \cup {k}
    BY <1>2 DEF With
  <2>2. \A d \in DOMAIN table : table[d] = IF d = k THEN NewEntry ELSE t[d]
    BY <1>2 DEF With
  <2>3. S \in SUBSET Deps /\ DOMAIN t \subseteq Deps
    BY <1>2 DEF EntriesFit
  <2>4. Cardinality(DOMAIN table) <= MaxDeps
    <3>1. IsFiniteSet(S) /\ Cardinality(S) \in Nat
      BY <2>3, FS_Subset, FS_CardinalityType
    <3> QED
      BY <1>2, <2>1, <2>3, <3>1, RoomForOne
  <2>5. \A v \in DOMAIN t \ S : Untripped(v)
    BY <1>2 DEF EntriesFit, Fits, Untripped
  <2>6. Fits(NewEntry, quiet[k], asked[k], flight[k].probe)
    BY <1>0, <1>2, NewEntryFits DEF EntriesFit, Untripped
  <2>7. \A d \in DOMAIN table : Fits(table[d], quiet[d], asked[d], flight[d].probe)
    BY <1>2, <2>1, <2>2, <2>6 DEF EntriesFit
  <2>8. \A d \in Deps \ DOMAIN table : Untripped(d)
    BY <1>2, <2>1, <2>5 DEF EntriesFit
  <2> QED
    BY <2>1, <2>3, <2>4, <2>7, <2>8 DEF EntriesFit
<1>3. CASE k \in DOMAIN entries
  BY <1>3 DEF Tables
<1>4. CASE k \notin DOMAIN entries /\ Cardinality(DOMAIN entries) < MaxDeps
  <2>1. table = With(entries, k, NewEntry)
    BY <1>4 DEF Tables
  <2>2. With(entries, k, NewEntry) = With([d \in DOMAIN entries |-> entries[d]], k, NewEntry)
    BY DEF With
  <2> QED
    BY <1>2, <1>4, <2>1, <2>2
<1>5. CASE k \notin DOMAIN entries /\ ~(Cardinality(DOMAIN entries) < MaxDeps) /\ table # seen
  <2>1. PICK v \in DOMAIN entries : /\ seen[v].state = "closed"
                                    /\ table = With([d \in DOMAIN seen \ {v} |-> seen[d]], k, NewEntry)
    BY <1>5 DEF Tables
  <2> DEFINE S == DOMAIN seen \ {v}
  <2>2. DOMAIN seen = DOMAIN entries
    OBVIOUS
  <2>3. /\ IsFiniteSet(DOMAIN entries) /\ Cardinality(DOMAIN entries) \in Nat
        /\ Cardinality(S) = Cardinality(DOMAIN entries) - 1
    BY <1>0, <2>2, FS_Subset, FS_CardinalityType, FS_RemoveElement
  <2>4. Cardinality(DOMAIN entries) <= MaxDeps
    BY DEF EntriesFit
  <2>5. Cardinality(S) < MaxDeps
    BY <2>3, <2>4
  <2> HIDE DEF seen
  <2> QED
    BY <1>1, <1>2, <1>5, <2>1, <2>2, <2>5
<1> QED
  BY <1>1, <1>3, <1>4, <1>5 DEF Tables

\* What one entry may become without another one, or its key, being disturbed.
LEMMA EntryChange ==
    ASSUME CircuitInv, NEW table, EntriesFit(table), NEW k \in DOMAIN table, NEW e,
           entries' = [table EXCEPT ![k] = e], CallsTyped',
           \A d \in Deps \ {k} :
              quiet'[d] = quiet[d] /\ asked'[d] = asked[d] /\ flight'[d] = flight[d],
           Fits(e, quiet'[k], asked'[k], flight'[k].probe)
    PROVE  CircuitInv'
<1>1. DOMAIN entries' = DOMAIN table
  OBVIOUS
<1>2. \A d \in DOMAIN table : entries'[d] = IF d = k THEN e ELSE table[d]
  OBVIOUS
<1> QED
  BY <1>1, <1>2 DEF CircuitInv, EntriesFit, Untripped

\* A call to k is let through.
LEMMA TakesOff ==
    ASSUME CallsTyped, NEW k \in Deps, NEW kind \in Kinds, Flying(k) < MaxFlight,
           flight' = [flight EXCEPT ![k][kind] = @ + 1]
    PROVE  /\ flight' \in [Deps -> [Kinds -> Nat]]
           /\ Flying(k)' = Flying(k) + 1
           /\ \A d \in Deps \ {k} : flight'[d] = flight[d]
           /\ flight'[k].probe = IF kind = "probe" THEN flight[k].probe + 1 ELSE flight[k].probe
<1>1. flight \in [Deps -> [Kinds -> Nat]]
  BY DEF CallsTyped
<1>2. \A c \in Kinds : flight[k][c] \in Nat
  BY <1>1
<1>3. /\ flight'[k] \in [Kinds -> Nat]
      /\ \A c \in Kinds : flight'[k][c] = IF c = kind THEN flight[k][c] + 1 ELSE flight[k][c]
      /\ \A d \in Deps \ {k} : flight'[d] = flight[d]
  BY <1>1, <1>2
<1>4. flight' \in [Deps -> [Kinds -> Nat]]
  BY <1>1, <1>3
<1>5. {"plain", "probe", "late"} = Kinds
  BY DEF Kinds
<1> QED
  BY <1>2, <1>3, <1>4, <1>5 DEF Flying

\* The probes that are out become late.
LEMMA ProbesTurnLate ==
    ASSUME NEW f \in [Kinds -> Nat], NEW moved,
           moved = [f EXCEPT !.late = @ + f.probe, !.probe = 0]
    PROVE  /\ moved \in [Kinds -> Nat]
           /\ moved.plain = f.plain /\ moved.probe = 0 /\ moved.late = f.late + f.probe
<1> DEFINE sum == f.late + f.probe
<1>1. "late" \in Kinds /\ "probe" \in Kinds /\ "plain" \in Kinds
  BY DEF Kinds
<1>2. sum \in Nat
  BY <1>1
<1>3. moved = [f EXCEPT !.late = sum, !.probe = 0]
  OBVIOUS
<1> HIDE DEF sum
<1>4. moved \in [Kinds -> Nat]
  <2> DEFINE added == [f EXCEPT !.late = sum]
  <2>1. added \in [Kinds -> Nat]
    BY <1>2
  <2>2. moved = [added EXCEPT !.probe = 0]
    BY <1>3
  <2> HIDE DEF added
  <2> QED
    BY <2>1, <2>2
<1>5. moved.plain = f.plain /\ moved.probe = 0
  BY <1>1, <1>3
<1>6. moved.late = sum
  BY <1>1, <1>3
<1> QED
  BY <1>4, <1>5, <1>6 DEF sum

\* A call to k is reported; the half-open period may end with it.
LEMMA Lands ==
    ASSUME CallsTyped, NEW k \in Deps, NEW kind \in Kinds, flight[k][kind] > 0,
           NEW ends \in BOOLEAN, flight' = [flight EXCEPT ![k] = Landed(k, kind, ends)]
    PROVE  /\ flight' \in [Deps -> [Kinds -> Nat]]
           /\ Flying(k)' = Flying(k) - 1
           /\ \A d \in Deps \ {k} : flight'[d] = flight[d]
           /\ ~ends => flight'[k].probe >= flight[k].probe - 1
<1> DEFINE left == [flight[k] EXCEPT ![kind] = @ - 1]
<1>1. flight \in [Deps -> [Kinds -> Nat]]
  BY DEF CallsTyped
<1>2. \A c \in Kinds : flight[k][c] \in Nat
  BY <1>1
<1>3. /\ left \in [Kinds -> Nat]
      /\ \A c \in Kinds : left[c] = IF c = kind THEN flight[k][c] - 1 ELSE flight[k][c]
  BY <1>1, <1>2
<1>4. {"plain", "probe", "late"} = Kinds
  BY DEF Kinds
<1>5. left.plain + left.probe + left.late = Flying(k) - 1
  BY <1>2, <1>3, <1>4 DEF Flying
<1>6. flight'[k] = Landed(k, kind, ends) /\ \A d \in Deps \ {k} : flight'[d] = flight[d]
  BY <1>1
<1>7. Landed(k, kind, ends) = IF ends THEN [left EXCEPT !.late = @ + left.probe, !.probe = 0]
                              ELSE left
  BY DEF Landed
<1> HIDE DEF left
<1>8. /\ flight'[k] \in [Kinds -> Nat]
      /\ flight'[k].plain = left.plain
      /\ flight'[k].probe = IF ends THEN 0 ELSE left.probe
      /\ flight'[k].late = IF ends THEN left.late + left.probe ELSE left.late
  <2> DEFINE moved == [left EXCEPT !.late = @ + left.probe, !.probe = 0]
  <2>1. /\ moved \in [Kinds -> Nat]
        /\ moved.plain = left.plain /\ moved.probe = 0 /\ moved.late = left.late + left.probe
    BY <1>3, ProbesTurnLate
  <2>2. flight'[k] = IF ends THEN moved ELSE left
    BY <1>6, <1>7
  <2> HIDE DEF moved
  <2> QED
    BY <1>3, <2>1, <2>2
<1>9. left.plain \in Nat /\ left.probe \in Nat /\ left.late \in Nat
  BY <1>3, <1>4
<1>10. flight' \in [Deps -> [Kinds -> Nat]]
  BY <1>1, <1>6, <1>8
<1>11. Flying(k)' = Flying(k) - 1
  BY <1>5, <1>8, <1>9 DEF Flying
<1>12. ~ends => flight'[k].probe >= flight[k].probe - 1
  BY <1>2, <1>3, <1>4, <1>8
<1> QED
  BY <1>6, <1>10, <1>11, <1>12

\* The invariant is kept, and no call goes to a key that is not left alone yet.
LEMMA CircuitStep ==
    ASSUME CircuitInv, [CircuitNext]_circuitVars
    PROVE  /\ CircuitInv'
           /\ \A k \in Deps : Flying(k)' > Flying(k) => quiet[k] = OpenFor
<1> USE CircuitAssumption
<1>0. /\ flight \in [Deps -> [Kinds -> Nat]]
      /\ \A d \in Deps : Flying(d) \in Nat /\ Flying(d) <= MaxFlight
      /\ quiet \in [Deps -> 0 .. OpenFor] /\ asked \in [Deps -> Nat] /\ up \in BOOLEAN
      /\ \A d \in Deps : flight[d].probe \in Nat
  BY DEF CircuitInv, CallsTyped, Flying, Kinds
<1>1. ASSUME NEW k \in Deps, NEW go \in BOOLEAN, Allow(k, go)
      PROVE  CircuitInv' /\ \A d \in Deps : Flying(d)' > Flying(d) => quiet[d] = OpenFor
  <2> DEFINE probing(t) == k \in DOMAIN t /\ Resolved(t[k]).state = "half_open"
  <2>1. PICK table \in Tables(k) :
          /\ go <=> (k \in DOMAIN table => Lets(Resolved(table[k])))
          /\ entries' = IF k \notin DOMAIN table THEN table
                        ELSE [table EXCEPT ![k] =
                                 IF probing(table) /\ go
                                 THEN [Resolved(table[k]) EXCEPT !.probes = @ + 1]
                                 ELSE Resolved(table[k])]
          /\ flight' = IF go THEN [flight EXCEPT ![k][IF probing(table) THEN "probe" ELSE "plain"] = @ + 1]
                       ELSE flight
          /\ asked' = IF go /\ probing(table) THEN [asked EXCEPT ![k] = @ + 1] ELSE asked
    BY <1>1 DEF Allow
  <2>2. Flying(k) < MaxFlight /\ quiet' = quiet /\ up' = up
    BY <1>1 DEF Allow
  <2>3. EntriesFit(table)
    BY <2>1, TablesFit
  <2> DEFINE kind == IF probing(table) THEN "probe" ELSE "plain"
  <2>4. CASE ~go
    <3>1. flight' = flight /\ asked' = asked /\ k \in DOMAIN table
          /\ entries' = [table EXCEPT ![k] = Resolved(table[k])]
      BY <2>1, <2>4
    <3>2. CallsTyped'
      BY <2>2, <3>1 DEF CircuitInv, CallsTyped, Flying
    <3>3. Fits(Resolved(table[k]), quiet[k], asked[k], flight[k].probe)
      BY <1>0, <2>3, <3>1, ResolvedFits DEF EntriesFit
    <3>4. CircuitInv'
      BY <2>2, <2>3, <3>1, <3>2, <3>3, EntryChange
    <3> QED
      BY <1>0, <3>1, <3>4 DEF Flying
  <2>5. CASE go
    <3> HIDE DEF probing
    <3>1. kind \in Kinds /\ flight' = [flight EXCEPT ![k][kind] = @ + 1]
      BY <2>1, <2>5 DEF Kinds
    <3> HIDE DEF kind
    <3>2. /\ flight' \in [Deps -> [Kinds -> Nat]]
          /\ Flying(k)' = Flying(k) + 1
          /\ \A d \in Deps \ {k} : flight'[d] = flight[d]
          /\ flight'[k].probe = IF kind = "probe" THEN flight[k].probe + 1 ELSE flight[k].probe
      BY <2>2, <3>1, TakesOff DEF CircuitInv
    <3>3. \A d \in Deps \ {k} : Flying(d)' = Flying(d)
      BY <3>2 DEF Flying
    <3>4. /\ asked' \in [Deps -> Nat]
          /\ asked'[k] = IF probing(table) THEN asked[k] + 1 ELSE asked[k]
          /\ \A d \in Deps \ {k} : asked'[d] = asked[d]
      BY <1>0, <2>1, <2>5
    <3>5. CallsTyped'
      <4>1. \A d \in Deps : Flying(d)' <= MaxFlight
        BY <1>0, <2>2, <3>2, <3>3
      <4> QED
        BY <1>0, <2>2, <3>2, <3>4, <4>1 DEF CallsTyped
    <3>6. CASE k \notin DOMAIN table
      <4>1. entries' = table /\ ~probing(table) /\ kind # "probe"
        BY <2>1, <3>6 DEF probing, kind
      <4>2. quiet[k] = OpenFor
        BY <2>3, <3>6 DEF EntriesFit, Untripped
      <4>3. EntriesFit(entries)'
        BY <2>2, <2>3, <3>2, <3>4, <4>1 DEF EntriesFit, Untripped
      <4> QED
        BY <1>0, <3>3, <3>5, <4>2, <4>3 DEF CircuitInv
    <3>7. CASE k \in DOMAIN table
      <4> DEFINE e == Resolved(table[k])
      <4>1. Fits(e, quiet[k], asked[k], flight[k].probe)
        BY <1>0, <2>3, <3>7, ResolvedFits DEF EntriesFit
      <4>2. Lets(e) /\ (probing(table) <=> e.state = "half_open")
            /\ (kind = "probe" <=> probing(table))
        BY <2>1, <2>5, <3>7 DEF probing, kind
      <4> DEFINE n == IF probing(table) THEN [e EXCEPT !.probes = @ + 1] ELSE e
      <4>3. entries' = [table EXCEPT ![k] = n]
        BY <2>1, <2>5, <3>7
      <4> HIDE DEF e
      <4>4. /\ quiet[k] = OpenFor
            /\ probing(table) =>
                 Fits([e EXCEPT !.probes = @ + 1], quiet[k], asked[k] + 1, flight[k].probe + 1)
        BY <1>0, <4>1, <4>2, LetFits
      <4>5. Fits(n, quiet'[k], asked'[k], flight'[k].probe)
        BY <2>2, <3>2, <3>4, <4>1, <4>2, <4>4
      <4> HIDE DEF n
      <4>6. CircuitInv'
        BY <2>2, <2>3, <3>2, <3>4, <3>5, <3>7, <4>3, <4>5, EntryChange
      <4> QED
        BY <1>0, <3>3, <4>4, <4>6
    <3> QED
      BY <3>6, <3>7
  <2> QED
    BY <2>4, <2>5
<1>2. ASSUME NEW k \in Deps, NEW kind \in Kinds, NEW ok \in BOOLEAN, Report(k, kind, ok)
      PROVE  CircuitInv' /\ \A d \in Deps : Flying(d)' > Flying(d) => quiet[d] = OpenFor
  <2> DEFINE tracked == k \in DOMAIN entries
             e == IF ok THEN Heard(entries[k]) ELSE Failed(entries[k])
             ends == tracked /\ entries[k].state = "half_open" /\ e.state # "half_open"
             trips == tracked /\ ~ok /\ e.state = "open"
  <2>1. /\ flight[k][kind] > 0 /\ up' = up
        /\ entries' = IF tracked THEN [entries EXCEPT ![k] = e] ELSE entries
        /\ flight' = [flight EXCEPT ![k] = Landed(k, kind, ends)]
        /\ asked' = IF ends THEN [asked EXCEPT ![k] = 0] ELSE asked
        /\ quiet' = IF trips THEN [quiet EXCEPT ![k] = 0] ELSE quiet
    BY <1>2 DEF Report
  <2>2. ends \in BOOLEAN
    OBVIOUS
  <2>3. tracked => /\ Fits(entries[k], quiet[k], asked[k], flight[k].probe)
    BY DEF CircuitInv, EntriesFit
  <2> HIDE DEF ends
  <2>4. /\ flight' \in [Deps -> [Kinds -> Nat]]
        /\ Flying(k)' = Flying(k) - 1
        /\ \A d \in Deps \ {k} : flight'[d] = flight[d]
        /\ ~ends => flight'[k].probe >= flight[k].probe - 1
    BY <2>1, <2>2, Lands DEF CircuitInv
  <2>5. \A d \in Deps \ {k} : Flying(d)' = Flying(d)
    BY <2>4 DEF Flying
  <2>6. \A d \in Deps : ~(Flying(d)' > Flying(d))
    BY <1>0, <2>4, <2>5
  <2>7. /\ asked' \in [Deps -> Nat] /\ asked'[k] = IF ends THEN 0 ELSE asked[k]
        /\ \A d \in Deps \ {k} : asked'[d] = asked[d]
    BY <1>0, <2>1
  <2>8. /\ quiet' \in [Deps -> 0 .. OpenFor] /\ quiet'[k] = IF trips THEN 0 ELSE quiet[k]
        /\ \A d \in Deps \ {k} : quiet'[d] = quiet[d]
    <3> HIDE DEF trips
    <3> QED
      BY <1>0, <2>1
  <2>9. CallsTyped'
    <3>1. \A d \in Deps : Flying(d)' <= MaxFlight
      BY <1>0, <2>4, <2>5
    <3> QED
      BY <1>0, <2>1, <2>4, <2>7, <2>8, <3>1 DEF CallsTyped
  <2>10. flight'[k].probe \in Nat
    BY <2>4 DEF Kinds
  <2>11. CASE ~tracked
    <3>1. entries' = entries /\ ~ends /\ ~trips
      BY <2>1, <2>11 DEF ends
    <3>2. EntriesFit(entries)'
      BY <2>4, <2>7, <2>8, <2>11, <3>1 DEF CircuitInv, EntriesFit, Untripped
    <3> QED
      BY <2>6, <2>9, <3>2 DEF CircuitInv
  <2>12. CASE tracked /\ ok
    <3>1. e = Heard(entries[k]) /\ ~trips
      BY <2>12
    <3>2. ends <=> entries[k].state = "half_open" /\ Heard(entries[k]).state # "half_open"
      BY <2>12, <3>1 DEF ends
    <3>3. ~ends => Fits(e, quiet[k], asked[k], flight'[k].probe)
      BY <1>0, <2>3, <2>4, <2>10, <2>12, <3>1, <3>2, HeardFits
    <3>4. ends => Fits(e, quiet[k], 0, flight'[k].probe)
      <4>1. ASSUME ends
            PROVE  Fits(Heard(entries[k]), quiet[k], 0, flight[k].probe)
        BY <1>0, <2>3, <2>12, <3>2, <4>1, HeardFits
      <4> QED
        BY <3>1, <3>2, <4>1 DEF Fits
    <3>5. Fits(e, quiet'[k], asked'[k], flight'[k].probe)
      BY <2>7, <2>8, <3>1, <3>3, <3>4
    <3>6. entries' = [entries EXCEPT ![k] = e]
      BY <2>1, <2>12
    <3> HIDE DEF e, trips
    <3>7. CircuitInv'
      BY <2>4, <2>7, <2>8, <2>9, <2>12, <3>5, <3>6, EntryChange DEF CircuitInv
    <3> QED
      BY <2>6, <3>7
  <2>13. CASE tracked /\ ~ok
    <3>1. e = Failed(entries[k]) /\ (trips <=> Failed(entries[k]).state = "open")
      BY <2>13
    <3>2. /\ Failed(entries[k]).state # "half_open"
          /\ Fits(e, IF trips THEN 0 ELSE quiet[k], 0, flight'[k].probe)
      BY <1>0, <2>3, <2>10, <2>13, <3>1, FailedFits
    <3>3. ends <=> entries[k].state = "half_open"
      BY <2>13, <3>1, <3>2 DEF ends
    <3>4. ~ends => asked[k] = 0
      BY <2>3, <2>13, <3>3, EntryFields DEF Fits
    <3>5. Fits(e, quiet'[k], asked'[k], flight'[k].probe)
      BY <2>7, <2>8, <3>2, <3>4
    <3>6. entries' = [entries EXCEPT ![k] = e]
      BY <2>1, <2>13
    <3> HIDE DEF e, trips
    <3>7. CircuitInv'
      BY <2>4, <2>7, <2>8, <2>9, <2>13, <3>5, <3>6, EntryChange DEF CircuitInv
    <3> QED
      BY <2>6, <3>7
  <2> QED
    BY <2>11, <2>12, <2>13
<1>3. ASSUME NEW k \in Deps, Look(k)
      PROVE  CircuitInv' /\ \A d \in Deps : Flying(d)' = Flying(d)
  <2>1. /\ k \in DOMAIN entries /\ entries' = [entries EXCEPT ![k] = Resolved(entries[k])]
        /\ flight' = flight /\ quiet' = quiet /\ asked' = asked /\ up' = up
    BY <1>3 DEF Look
  <2>2. Fits(Resolved(entries[k]), quiet[k], asked[k], flight[k].probe)
    BY <1>0, <2>1, ResolvedFits DEF CircuitInv, EntriesFit
  <2>3. CallsTyped'
    BY <2>1 DEF CircuitInv, CallsTyped, Flying
  <2> QED
    BY <2>1, <2>2, <2>3, EntryChange DEF CircuitInv, Flying
<1>4. CASE Forget
  <2>1. /\ DOMAIN entries' = {} /\ up' = up
        /\ \A d \in Deps : flight'[d] = [flight[d] EXCEPT !.late = @ + flight[d].probe, !.probe = 0]
        /\ flight' = [d \in Deps |-> flight'[d]]
        /\ quiet' = [d \in Deps |-> OpenFor] /\ asked' = [d \in Deps |-> 0]
    BY <1>4 DEF Forget
  <2>2. ASSUME NEW d \in Deps
        PROVE  flight'[d] \in [Kinds -> Nat] /\ Flying(d)' = Flying(d)
    <3>1. flight[d] \in [Kinds -> Nat]
      BY <1>0
    <3>2. /\ flight'[d] \in [Kinds -> Nat]
          /\ flight'[d].plain = flight[d].plain /\ flight'[d].probe = 0
          /\ flight'[d].late = flight[d].late + flight[d].probe
      BY <2>1, <3>1, ProbesTurnLate
    <3>3. /\ flight[d].plain \in Nat /\ flight[d].late \in Nat /\ flight[d].probe \in Nat
      BY <3>1 DEF Kinds
    <3>4. Flying(d)' = Flying(d)
      BY <3>2, <3>3 DEF Flying
    <3> QED
      BY <3>2, <3>4
  <2>3. CallsTyped'
    <3>1. flight' \in [Deps -> [Kinds -> Nat]]
      BY <2>1, <2>2
    <3>2. \A d \in Deps : Flying(d)' <= MaxFlight
      BY <1>0, <2>2
    <3>3. quiet' \in [Deps -> 0 .. OpenFor] /\ asked' \in [Deps -> Nat]
      <4>1. quiet' = [d \in Deps |-> OpenFor] /\ asked' = [d \in Deps |-> 0]
        BY <2>1
      <4>2. OpenFor \in 0 .. OpenFor
        OBVIOUS
      <4> QED
        BY <4>1, <4>2
    <3> QED
      BY <1>0, <2>1, <3>1, <3>2, <3>3 DEF CallsTyped
  <2>4. Cardinality(DOMAIN entries') = 0
    BY <2>1, FS_EmptySet
  <2>5. \A d \in Deps : Untripped(d)'
    BY <2>1 DEF Untripped
  <2>6. EntriesFit(entries)'
    <3>1. Cardinality(DOMAIN entries') <= MaxDeps
      BY <2>4
    <3>2. \A d \in Deps \ DOMAIN entries' : Untripped(d)'
      BY <2>5
    <3> QED
      BY <2>1, <3>1, <3>2 DEF EntriesFit
  <2> QED
    BY <1>0, <2>2, <2>3, <2>6 DEF CircuitInv
<1>5. CASE CircuitTick
  <2>1. /\ flight' = flight /\ asked' = asked /\ up' = up
        /\ DOMAIN entries' = DOMAIN entries
        /\ \A d \in DOMAIN entries :
              entries'[d] = [entries[d] EXCEPT !.age = Aged(entries[d].age)]
        /\ \A d \in Deps : quiet'[d] = Aged(quiet[d])
        /\ quiet' \in [Deps -> 0 .. OpenFor]
    BY <1>0, <1>5 DEF CircuitTick, Aged
  <2>2. ASSUME NEW d \in DOMAIN entries
        PROVE  Fits(entries'[d], quiet'[d], asked'[d], flight'[d].probe)
    <3> DEFINE e == entries[d]
    <3>1. e \in Entry /\ Fits(e, quiet[d], asked[d], flight[d].probe) /\ d \in Deps
      BY DEF CircuitInv, EntriesFit, Fits
    <3>2. e.age \in 0 .. OpenFor /\ Aged(e.age) \in 0 .. OpenFor
      BY <3>1, EntryFields DEF Aged
    <3>3. entries'[d] = [e EXCEPT !.age = Aged(e.age)]
      BY <2>1
    <3> HIDE DEF e
    <3>4. entries'[d] \in Entry
      <4>1. [e EXCEPT !.age = Aged(e.age)] \in Entry
        BY <3>1, <3>2, AgeChange, Zenon
      <4> QED
        BY <3>3, <4>1
    <3>5. /\ entries'[d].state = e.state /\ entries'[d].age = Aged(e.age)
          /\ entries'[d].failures = e.failures /\ entries'[d].successes = e.successes
          /\ entries'[d].probes = e.probes
      BY <3>1, <3>3 DEF Entry
    <3>6. quiet[d] \in 0 .. OpenFor /\ quiet'[d] = Aged(quiet[d])
      BY <1>0, <2>1, <3>1
    <3> QED
      BY <2>1, <3>1, <3>2, <3>4, <3>5, <3>6 DEF Fits, Aged
  <2>3. \A d \in Deps \ DOMAIN entries : Untripped(d)'
    BY <2>1 DEF CircuitInv, EntriesFit, Untripped, Aged
  <2>4. CallsTyped'
    BY <2>1 DEF CircuitInv, CallsTyped, Flying
  <2>5. EntriesFit(entries)'
    BY <2>1, <2>2, <2>3 DEF CircuitInv, EntriesFit
  <2> QED
    BY <1>0, <2>1, <2>4, <2>5 DEF CircuitInv, Flying
<1>6. CASE ComesUp \/ UNCHANGED circuitVars
  <2>1. /\ entries' = entries /\ flight' = flight /\ quiet' = quiet /\ asked' = asked
        /\ up' \in BOOLEAN
    BY <1>0, <1>6 DEF ComesUp, circuitVars
  <2> QED
    BY <1>0, <2>1 DEF CircuitInv, CallsTyped, EntriesFit, Untripped, Flying
<1> QED
  BY <1>0, <1>1, <1>2, <1>3, <1>4, <1>5, <1>6 DEF CircuitNext

\* An empty table fits.
LEMMA CircuitStart == CircuitInit => CircuitInv
<1> USE CircuitAssumption
<1> SUFFICES ASSUME CircuitInit PROVE CircuitInv
  OBVIOUS
<1>1. Cardinality(DOMAIN entries) = 0 /\ DOMAIN entries = {}
  BY FS_EmptySet DEF CircuitInit
<1>2. \A k \in Deps : Untripped(k)
  BY DEF CircuitInit, Untripped
<1>3. EntriesFit(entries)
  BY <1>1, <1>2 DEF EntriesFit
<1>4. \A k \in Deps : Flying(k) <= MaxFlight
  BY DEF CircuitInit, Flying, Kinds
<1>5. /\ flight \in [Deps -> [Kinds -> Nat]] /\ asked \in [Deps -> Nat]
      /\ quiet \in [Deps -> 0 .. OpenFor]
  BY DEF CircuitInit
<1>6. CallsTyped
  BY <1>4, <1>5 DEF CircuitInit, CallsTyped
<1> QED
  BY <1>3, <1>6 DEF CircuitInv

\* What the invariant is for.
LEMMA CircuitGood == CircuitInv => CircuitTypeOK /\ BoundedQuestions
<1> SUFFICES ASSUME CircuitInv PROVE CircuitTypeOK /\ BoundedQuestions
  OBVIOUS
<1> USE CircuitAssumption
<1>1. ASSUME NEW k \in DOMAIN entries
      PROVE  /\ entries[k] \in Entry
             /\ entries[k].state = "half_open" =>
                   /\ entries[k].probes <= flight[k].probe
                   /\ asked[k] <= HalfOpenMax + entries[k].successes
  <2>1. entries[k] \in Entry /\ k \in Deps /\ Fits(entries[k], quiet[k], asked[k], flight[k].probe)
    BY DEF CircuitInv, EntriesFit, Fits
  <2>2. asked[k] \in Nat
    BY <2>1 DEF CircuitInv, CallsTyped
  <2> QED
    BY <2>1, <2>2, EntryFields DEF Fits
<1>2. flight \in [Deps -> [Kinds -> 0 .. MaxFlight]]
  <2>1. ASSUME NEW k \in Deps
        PROVE  flight[k] \in [Kinds -> 0 .. MaxFlight]
    <3>1. flight[k] \in [Kinds -> Nat] /\ Flying(k) <= MaxFlight
      BY DEF CircuitInv, CallsTyped
    <3>2. \A kind \in Kinds : flight[k][kind] \in 0 .. MaxFlight
      BY <3>1 DEF Flying, Kinds
    <3> QED
      BY <3>1, <3>2
  <2> QED
    BY <2>1 DEF CircuitInv, CallsTyped
<1>3. CircuitTypeOK
  BY <1>1, <1>2 DEF CircuitInv, CallsTyped, EntriesFit, CircuitTypeOK
<1> QED
  BY <1>1, <1>3 DEF BoundedQuestions, SlotsAreOut

\* Every variable of the breaker has its type; no more calls are in flight to a
\* key than were made.
THEOREM CircuitTypeCorrect == CircuitSpec => []CircuitTypeOK
<1>1. CircuitInv /\ [CircuitNext]_circuitVars => CircuitInv'
  BY CircuitStep
<1> QED
  BY <1>1, CircuitStart, CircuitGood, PTL DEF CircuitSpec

\* No slot of a half-open key leaks, and in one half-open period it is asked at most
\* half_open_max questions more than it answered, whatever late answers come in.
THEOREM BoundedQuestionsAlways == CircuitSpec => []BoundedQuestions
<1>1. CircuitInv /\ [CircuitNext]_circuitVars => CircuitInv'
  BY CircuitStep
<1> QED
  BY <1>1, CircuitStart, CircuitGood, PTL DEF CircuitSpec

\* A tripped key is left alone for a whole cooldown after the last failure reported to
\* it, also while other keys fight for its place in the table.
THEOREM QuietAfterFailureAlways == CircuitSpec => QuietAfterFailure
<1>1. CircuitInv /\ [CircuitNext]_circuitVars
        => CircuitInv' /\ [\A k \in Deps : Flying(k)' > Flying(k)
                                             => quiet[k] = OpenFor]_circuitVars
  BY CircuitStep
<1> QED
  BY <1>1, CircuitStart, PTL DEF CircuitSpec, QuietAfterFailure

-----------------------------------------------------------------------------
(***************************************************************************)
(* nya_request_perform.  A step of a request is a step of the limiter, of  *)
(* the breaker, or of neither, so what holds of them holds behind it.  Its *)
(* own invariant says what each stage of an attempt knows: an unsafe       *)
(* request that goes round again was not acted on; the limiter knows of    *)
(* every wait the server asked for, once the answer was learned; and an    *)
(* attempt past the budget or the gate has what they gave it.              *)
(***************************************************************************)

AttemptInv ==
    /\ CallTypeOK
    /\ DOMAIN buckets \subseteq {Host}
    \* What the server did to a request that may not be sent twice.
    /\ ~request.safe =>
          /\ acted <= 1
          /\ pc \in {"budget", "gate", "send"} => acted = 0
          /\ pc = "learn" /\ reply.status = "busy" => acted = 0
    \* The waits it asked for.
    /\ pc = "learn" /\ reply.status = "busy" /\ request.limited
          => asks <= Greater(told[Host], reply.wait)
    /\ ~(pc = "learn" /\ reply.status = "busy" /\ request.limited) => asks <= told[Host]
    \* What the attempt was given.
    /\ pc \in {"gate", "send"} /\ request.limited => asks = 0 \/ waited = MaxWait
    /\ pc = "send" /\ request.guarded => quiet[Host] = OpenFor

OutboundInv == CircuitInv /\ RateInv /\ AttemptInv

\* A wait the limiter is told of is one the server may ask for.
LEMMA WaitsBound ==
    ASSUME CallTypeOK
    PROVE  /\ Waits \subseteq 0 .. MaxHold /\ reply.wait \in 0 .. MaxHold
           /\ reply.status \in Statuses
           /\ \A wait \in Waits : reply.wait <= wait
  BY OutboundAssumption, RateAssumption DEF CallTypeOK, Reply, Waits

\* What an answer teaches is a step of the limiter's, if any.
LEMMA LearnStep ==
    ASSUME CallTypeOK, Learn
    PROVE  RateNext \/ UNCHANGED rateVars
<1>1. Host \in Routes
  BY OutboundAssumption
<1>2. ASSUME NEW wait \in Waits, Told(Host, wait) PROVE RateNext
  BY <1>1, <1>2, WaitsBound DEF RateNext
<1>3. ASSUME NEW n \in 0 .. Burst, Observed(Host, n, reply.wait) PROVE RateNext
  BY <1>1, <1>3, WaitsBound DEF RateNext
<1> QED
  BY <1>2, <1>3 DEF Learn, Counts

\* ... and by the breaker.
LEMMA TrainStep ==
    ASSUME Train
    PROVE  CircuitNext \/ UNCHANGED circuitVars
<1>1. Host \in Deps /\ HostIsUp \in BOOLEAN
  BY OutboundAssumption DEF HostIsUp
<1>2. ASSUME NEW kind \in Kinds, Report(Host, kind, HostIsUp) PROVE CircuitNext
  BY <1>1, <1>2 DEF CircuitNext
<1> QED
  BY <1>2 DEF Train

\* Every step behind nya_request_perform is one of the limiter's or leaves it alone,
\* and one of the breaker's or leaves it alone.
LEMMA PartSteps ==
    ASSUME CallTypeOK, [CallNext]_outboundVars
    PROVE  [RateNext]_rateVars /\ [CircuitNext]_circuitVars
<1>1. Host \in Routes /\ Host \in Deps
  BY OutboundAssumption
<1>2. CASE \E r \in Requests : Call(r)
  BY <1>2 DEF Call
<1>3. CASE NoBudget \/ NoGate
  BY <1>3 DEF NoBudget, NoGate
<1>4. ASSUME NEW wait \in 0 .. Greater(MaxHold, Period), Budget(wait)
      PROVE  [RateNext]_rateVars /\ [CircuitNext]_circuitVars
  <2>1. Take(Host, wait) /\ UNCHANGED circuitVars
    BY <1>4 DEF Budget
  <2> QED
    BY <1>1, <2>1 DEF RateNext
<1>5. CASE GateOpen \/ GateShut
  <2>1. (Allow(Host, TRUE) \/ Allow(Host, FALSE)) /\ UNCHANGED rateVars
    BY <1>5 DEF GateOpen, GateShut
  <2> QED
    BY <1>1, <2>1 DEF CircuitNext
<1>6. ASSUME NEW r \in Reply, NEW acts \in BOOLEAN, Exchange(r, acts)
      PROVE  [RateNext]_rateVars /\ [CircuitNext]_circuitVars
  BY <1>6 DEF Exchange
<1>7. CASE Settles \/ Retries
  BY <1>7, LearnStep, TrainStep DEF Settles, Retries, Again
<1>8. CASE CallTick
  BY <1>8 DEF CallTick, RateNext, CircuitNext
<1>9. CASE UNCHANGED outboundVars
  BY <1>9 DEF outboundVars
<1> QED
  BY <1>2, <1>3, <1>4, <1>5, <1>6, <1>7, <1>8, <1>9 DEF CallNext, CallSteps

\* The limiter of one thread's requests has room for their host: it is the only key.
LEMMA HostHasRoom ==
    ASSUME DOMAIN buckets \subseteq {Host}, NEW table \in Lookup(Host)
    PROVE  DOMAIN table = {Host}
<1>1. CASE Host \in DOMAIN buckets
  BY <1>1 DEF Lookup
<1>2. CASE Host \notin DOMAIN buckets
  <2>1. DOMAIN buckets = {}
    BY <1>2
  <2>2. Cardinality(DOMAIN buckets) < MaxBuckets
    BY <2>1, FS_EmptySet, RateAssumption
  <2>3. table = Put(buckets, Host, FullBucket)
    BY <1>2, <2>2 DEF Lookup
  <2> QED
    BY <2>1, <2>3 DEF Put
<1> QED
  BY <1>1, <1>2

\* nya_rate_take for the host: it goes only when nothing is left to wait for.
LEMMA TakeStep ==
    ASSUME OutboundInv, NEW wait \in 0 .. Greater(MaxHold, Period), Take(Host, wait)
    PROVE  /\ DOMAIN buckets' = {Host} /\ told' = told
           /\ wait = 0 => told[Host] = 0
<1>1. PICK table \in Lookup(Host) :
        /\ wait = IF Host \in DOMAIN table THEN WaitOf(table[Host]) ELSE 1
        /\ buckets' = IF wait > 0 THEN table ELSE [table EXCEPT ![Host].tokens = @ - Period]
        /\ UNCHANGED told
  BY DEF Take
<1>2. DOMAIN table = {Host}
  BY HostHasRoom DEF OutboundInv, AttemptInv
<1>3. DOMAIN buckets' = {Host}
  BY <1>1, <1>2
<1>4. TableHonest(table) /\ told[Host] \in 0 .. MaxHold
  BY LookupHonest, OutboundAssumption DEF OutboundInv, RateInv
<1>5. table[Host] \in Bucket /\ told[Host] <= table[Host].held
  BY <1>2, <1>4 DEF TableHonest, BucketHonest
<1>6. wait = 0 => table[Host].held = 0
  BY <1>1, <1>2, <1>5, RateAssumption DEF WaitOf, Bucket
<1> QED
  BY <1>1, <1>3, <1>4, <1>5, <1>6, RateAssumption

\* What was learned of an answer: every wait a 429 asked for is known to the limiter.
LEMMA LearnedStep ==
    ASSUME OutboundInv, pc = "learn", Learn
    PROVE  /\ DOMAIN buckets' \subseteq {Host}
           /\ told'[Host] \in 0 .. MaxHold
           /\ asks <= told'[Host]
<1> USE OutboundAssumption, RateAssumption DEF OutboundInv, AttemptInv
<1>0. /\ told \in [Routes -> 0 .. MaxHold] /\ Host \in Routes /\ asks \in 0 .. MaxHold
      /\ reply.wait \in 0 .. MaxHold
  BY WaitsBound DEF RateInv, CallTypeOK
<1>1. ASSUME NEW wait \in Waits, Told(Host, wait), request.limited, reply.status = "busy"
      PROVE  /\ DOMAIN buckets' \subseteq {Host} /\ told'[Host] \in 0 .. MaxHold
             /\ asks <= told'[Host]
  <2>1. PICK table \in Lookup(Host) :
          /\ buckets' = IF Host \in DOMAIN table
                        THEN [table EXCEPT ![Host] = [Held(@, wait) EXCEPT !.tokens = 0]]
                        ELSE table
          /\ told' = IF Host \in DOMAIN table
                     THEN [told EXCEPT ![Host] = Greater(@, wait)] ELSE told
    BY <1>1 DEF Told
  <2>2. DOMAIN table = {Host}
    BY HostHasRoom
  <2>3. DOMAIN buckets' = {Host} /\ told'[Host] = Greater(told[Host], wait)
    BY <1>0, <2>1, <2>2
  <2>4. wait \in 0 .. MaxHold /\ reply.wait <= wait
    BY WaitsBound
  <2> QED
    BY <1>0, <1>1, <2>3, <2>4 DEF Greater
<1>2. ASSUME NEW n \in 0 .. Burst, Observed(Host, n, reply.wait), reply.status # "busy"
      PROVE  /\ DOMAIN buckets' \subseteq {Host} /\ told'[Host] \in 0 .. MaxHold
             /\ asks <= told'[Host]
  <2> DEFINE spent == n = 0 /\ reply.wait > 0
             lower(t) == [t[Host] EXCEPT !.tokens = Lesser(@, n * Period)]
             heard(t) == IF spent THEN Held(lower(t), reply.wait) ELSE lower(t)
  <2>1. PICK table \in Lookup(Host) :
          /\ buckets' = IF Host \notin DOMAIN table THEN table
                        ELSE [table EXCEPT ![Host] = heard(table)]
          /\ told' = IF Host \in DOMAIN table /\ spent
                     THEN [told EXCEPT ![Host] = Greater(@, reply.wait)] ELSE told
    BY <1>2 DEF Observed
  <2> HIDE DEF heard, lower
  <2>2. DOMAIN table = {Host}
    BY HostHasRoom
  <2>3. DOMAIN buckets' = {Host}
    BY <2>1, <2>2
  <2>4. told'[Host] = IF spent THEN Greater(told[Host], reply.wait) ELSE told[Host]
    BY <1>0, <2>1, <2>2
  <2> QED
    BY <1>0, <1>2, <2>3, <2>4 DEF Greater
<1>3. CASE UNCHANGED rateVars /\ (~request.limited \/ reply.status # "busy")
  BY <1>0, <1>3 DEF rateVars
<1> QED
  BY <1>1, <1>2, <1>3 DEF Learn, Counts

\* The invariant is kept, and an attempt reaches the host only when it may.
LEMMA AttemptStep ==
    ASSUME OutboundInv, [CallNext]_outboundVars
    PROVE  /\ AttemptInv'
           /\ pc = "send" /\ pc' = "learn" =>
                 /\ request.guarded => quiet[Host] = OpenFor
                 /\ request.limited => asks = 0 \/ waited = MaxWait
<1> USE OutboundAssumption, RateAssumption, CircuitAssumption DEF OutboundInv
<1>0. /\ CallTypeOK /\ Host \in Routes /\ Host \in Deps
      /\ told[Host] \in 0 .. MaxHold /\ asks \in 0 .. MaxHold
      /\ quiet \in [Deps -> 0 .. OpenFor]
      /\ pc \in {"budget", "gate"} => asks <= told[Host]
  BY DEF AttemptInv, CallTypeOK, RateInv, CircuitInv, CallsTyped
<1>1. ASSUME NEW r \in Requests, Call(r)
      PROVE  AttemptInv' /\ pc # "send"
  BY <1>0, <1>1 DEF Call, AttemptInv, CallTypeOK, Reply, NoReply, Statuses, rateVars, circuitVars
<1>2. CASE NoBudget
  BY <1>0, <1>2 DEF NoBudget, Awake, AttemptInv, CallTypeOK, rateVars, circuitVars
<1>3. ASSUME NEW wait \in 0 .. Greater(MaxHold, Period), Budget(wait)
      PROVE  AttemptInv' /\ pc # "send"
  <2>1. /\ pc = "budget" /\ request.limited /\ Take(Host, wait) /\ UNCHANGED circuitVars
        /\ nap' = IF wait > MaxWait - waited THEN MaxWait - waited ELSE wait
        /\ waited' = IF wait > MaxWait - waited THEN MaxWait ELSE waited + wait
        /\ pc' = IF wait = 0 \/ wait > MaxWait - waited THEN "gate" ELSE "budget"
        /\ UNCHANGED <<request, attempt, reply, acted, asks>>
    BY <1>3 DEF Budget, Awake
  <2>2. DOMAIN buckets' = {Host} /\ told' = told /\ (wait = 0 => told[Host] = 0)
    BY <2>1, TakeStep
  <2>3. waited \in 0 .. MaxWait /\ wait \in Nat
    BY <1>0 DEF CallTypeOK, Greater
  <2>4. nap' \in Nat /\ waited' \in 0 .. MaxWait
    BY <2>1, <2>3
  <2>5. CallTypeOK'
    BY <1>0, <2>1, <2>4 DEF CallTypeOK
  <2>6. pc' = "gate" => asks' = 0 \/ waited' = MaxWait
    BY <1>0, <2>1, <2>2, <2>3
  <2>7. quiet' = quiet
    BY <2>1 DEF circuitVars
  <2> QED
    BY <1>0, <2>1, <2>2, <2>5, <2>6, <2>7 DEF AttemptInv
<1>4. CASE GateOpen
  <2>1. /\ pc = "gate" /\ request.guarded /\ Allow(Host, TRUE) /\ pc' = "send"
        /\ UNCHANGED <<request, attempt, waited, nap, reply, acted, asks, rateVars>>
    BY <1>4 DEF GateOpen, Guarded, Awake
  <2>2. Flying(Host)' > Flying(Host) /\ quiet' = quiet
    <3>1. Flying(Host) < MaxFlight /\ CallsTyped /\ quiet' = quiet
      BY <2>1 DEF Allow, CircuitInv
    <3>2. Flying(Host) \in Nat
      BY <3>1, <1>0 DEF CallsTyped, Flying, Kinds
    <3>3. PICK kind \in Kinds : flight' = [flight EXCEPT ![Host][kind] = @ + 1]
      BY <2>1 DEF Allow, Kinds
    <3>4. Flying(Host)' = Flying(Host) + 1
      BY <1>0, <3>1, <3>3, TakesOff, Zenon
    <3> QED
      BY <3>1, <3>2, <3>4
  <2>3. quiet[Host] = OpenFor
    <3>1. CircuitNext
      BY <1>0, <2>1 DEF CircuitNext
    <3> QED
      BY <1>0, <2>2, <3>1, CircuitStep
  <2> QED
    BY <1>0, <2>1, <2>2, <2>3 DEF AttemptInv, CallTypeOK, rateVars
<1>5. CASE GateShut
  <2>1. pc = "gate" /\ pc' = "idle" /\ reply' = NoReply
        /\ UNCHANGED <<request, attempt, waited, nap, acted, asks, rateVars>>
    BY <1>5 DEF GateShut, Guarded, Awake
  <2> QED
    BY <1>0, <2>1 DEF AttemptInv, CallTypeOK, Reply, NoReply, Statuses, rateVars
<1>6. CASE NoGate
  BY <1>0, <1>6 DEF NoGate, Awake, AttemptInv, CallTypeOK, rateVars, circuitVars
<1>7. ASSUME NEW r \in Reply, NEW acts \in BOOLEAN, Exchange(r, acts)
      PROVE  /\ AttemptInv'
             /\ request.guarded => quiet[Host] = OpenFor
             /\ request.limited => asks = 0 \/ waited = MaxWait
  <2>1. /\ pc = "send" /\ pc' = "learn" /\ reply' = r
        /\ r.status = "busy" => ~acts
        /\ acted' = acted + IF acts THEN 1 ELSE 0
        /\ asks' = IF r.status = "busy" /\ request.limited THEN Greater(asks, r.wait) ELSE asks
        /\ UNCHANGED <<request, attempt, waited, nap, circuitVars, rateVars>>
    BY <1>7 DEF Exchange
  <2>2. /\ request.guarded => quiet[Host] = OpenFor
        /\ request.limited => asks = 0 \/ waited = MaxWait
        /\ asks <= told[Host]
        /\ ~request.safe => acted = 0
    BY <2>1 DEF AttemptInv
  <2>3. r.wait \in 0 .. MaxHold
    BY DEF Reply
  <2>4. asks' \in 0 .. MaxHold /\ acted' \in Nat
    BY <1>0, <2>1, <2>3 DEF Greater, CallTypeOK
  <2>5. CallTypeOK'
    BY <1>0, <2>1, <2>4 DEF CallTypeOK
  <2>6. /\ r.status = "busy" /\ request.limited => asks' <= Greater(told[Host], r.wait)
        /\ ~(r.status = "busy" /\ request.limited) => asks' <= told[Host]
    BY <1>0, <2>1, <2>2, <2>3 DEF Greater
  <2>7. ~request.safe => acted' <= 1 /\ (r.status = "busy" => acted' = 0)
    BY <2>1, <2>2
  <2> QED
    BY <2>1, <2>2, <2>5, <2>6, <2>7 DEF AttemptInv, rateVars, circuitVars
<1>8. ASSUME pc = "learn", Learn, Train
      PROVE  /\ DOMAIN buckets' \subseteq {Host} /\ asks <= told'[Host]
             /\ ~request.safe => acted <= 1
  BY <1>8, LearnedStep DEF AttemptInv
<1>9. CASE Settles
  <2>1. pc = "learn" /\ Learn /\ Train /\ pc' = "idle"
        /\ UNCHANGED <<request, attempt, waited, nap, reply, acted, asks>>
    BY <1>9 DEF Settles
  <2> QED
    BY <1>0, <1>8, <2>1 DEF AttemptInv, CallTypeOK
<1>10. ASSUME NEW sleep \in Nat, Again(sleep)
       PROVE  AttemptInv' /\ pc # "send"
  <2>1. /\ pc = "learn" /\ Learn /\ Train /\ Resends
        /\ pc' = "budget" /\ waited' = 0 /\ nap' = sleep /\ attempt' = attempt + 1
        /\ UNCHANGED <<request, reply, acted, asks>>
    BY <1>10 DEF Again
  <2>2. CallTypeOK'
    BY <1>0, <2>1 DEF CallTypeOK, Resends
  <2>3. ~request.safe => acted = 0
    BY <2>1 DEF AttemptInv, Resends
  <2> QED
    BY <1>8, <2>1, <2>2, <2>3 DEF AttemptInv
<1>11. CASE Retries
  <2>1. PICK sleep \in Nat : Again(sleep)
    <3>1. CASE Again(0)
      BY <3>1
    <3>2. ASSUME NEW wait \in Waits, Again(Lesser(MaxWait, wait))
          PROVE  \E sleep \in Nat : Again(sleep)
      <4>1. Lesser(MaxWait, wait) \in Nat
        BY <1>0, WaitsBound DEF Lesser
      <4> QED
        BY <3>2, <4>1
    <3>3. ASSUME NEW sleep \in 0 .. MaxBackoff, Again(sleep)
          PROVE  \E n \in Nat : Again(n)
      BY <3>3
    <3> QED
      BY <1>11, <3>1, <3>2, <3>3 DEF Retries
  <2> QED
    BY <1>10, <2>1
<1>12. CASE CallTick
  <2>1. /\ CircuitTick /\ RateTick /\ nap' = Down(nap) /\ asks' = Down(asks)
        /\ UNCHANGED <<pc, request, attempt, waited, reply, acted>>
    BY <1>12 DEF CallTick
  <2>2. told'[Host] = Down(told[Host]) /\ DOMAIN buckets' = DOMAIN buckets
    BY <1>0, <2>1 DEF RateTick
  <2>3. quiet'[Host] = Aged(quiet[Host])
    BY <1>0, <2>1 DEF CircuitTick
  <2>4. CallTypeOK'
    BY <1>0, <2>1 DEF CallTypeOK, Down
  <2>5. /\ asks <= told[Host] => asks' <= told'[Host]
        /\ asks <= Greater(told[Host], reply.wait) => asks' <= Greater(told'[Host], reply.wait)
        /\ asks = 0 => asks' = 0
        /\ quiet[Host] = OpenFor => quiet'[Host] = OpenFor
    BY <1>0, <2>1, <2>2, <2>3, WaitsBound DEF Down, Greater, Aged
  <2> QED
    BY <2>1, <2>2, <2>4, <2>5 DEF AttemptInv
<1>13. CASE UNCHANGED outboundVars
  BY <1>13 DEF outboundVars, callVars, rateVars, circuitVars, AttemptInv, CallTypeOK
<1>14. CASE pc = "send" /\ pc' = "learn" /\ ~(\E r \in Reply, acts \in BOOLEAN : Exchange(r, acts))
  <2>1. \A r \in Reply, acts \in BOOLEAN : ~Exchange(r, acts)
    BY <1>14
  <2>2. ~Settles /\ ~Retries
    BY <1>14 DEF Settles, Retries, Again
  <2> QED
    BY <1>1, <1>3, <1>14, <2>1, <2>2 DEF CallNext, CallSteps, NoBudget, NoGate, GateOpen, GateShut,
       Guarded, Awake, CallTick, outboundVars, callVars
<1>15. AttemptInv'
  BY <1>1, <1>2, <1>3, <1>4, <1>5, <1>6, <1>7, <1>9, <1>11, <1>12, <1>13 DEF CallNext, CallSteps
<1> QED
  BY <1>7, <1>14, <1>15

\* The three invariants hold together along a request.
LEMMA OutboundStep ==
    ASSUME OutboundInv, [CallNext]_outboundVars
    PROVE  OutboundInv' /\ [RateNext]_rateVars /\ [CircuitNext]_circuitVars
<1>1. [RateNext]_rateVars /\ [CircuitNext]_circuitVars
  BY PartSteps DEF OutboundInv, AttemptInv
<1>2. RateInv' /\ CircuitInv'
  BY <1>1, RateStep, CircuitStep DEF OutboundInv
<1>3. AttemptInv'
  BY AttemptStep
<1> QED
  BY <1>1, <1>2, <1>3 DEF OutboundInv

\* Before the first request.
LEMMA OutboundStart == CircuitInit /\ RateInit /\ CallInit => OutboundInv
<1> SUFFICES ASSUME CircuitInit, RateInit, CallInit PROVE OutboundInv
  OBVIOUS
<1>1. CallTypeOK
  BY OutboundAssumption, RateAssumption DEF CallInit, CallTypeOK, Reply, NoReply, Statuses
<1>2. DOMAIN buckets = {} /\ told[Host] = 0
  BY OutboundAssumption DEF RateInit
<1>3. AttemptInv
  BY <1>1, <1>2 DEF AttemptInv, CallInit, NoReply
<1> QED
  BY <1>3, RateStart, CircuitStart DEF OutboundInv

\* A request that may not be sent twice is acted on once at most, however its answers
\* are lost and however often it is sent; and the variables have their types.
THEOREM ActedOnceAlways == CallSpec => [](CallTypeOK /\ ActedOnce)
<1>1. OutboundInv /\ [CallNext]_outboundVars => OutboundInv'
  BY OutboundStep
<1>2. OutboundInv => CallTypeOK /\ ActedOnce
  BY DEF OutboundInv, AttemptInv, ActedOnce
<1> QED
  BY <1>1, <1>2, OutboundStart, PTL DEF CallSpec

\* No attempt reaches the host within a cooldown of the last failure that tripped its
\* breaker, nor while the wait the server asked for runs, unless a whole MaxWait went.
THEOREM AttemptsAreGatedAlways == CallSpec => AttemptsAreGated
<1>1. OutboundInv /\ [CallNext]_outboundVars
        => OutboundInv' /\ [pc = "send" /\ pc' = "learn" =>
                             /\ request.guarded => quiet[Host] = OpenFor
                             /\ request.limited => asks = 0 \/ waited = MaxWait]_outboundVars
  BY OutboundStep, AttemptStep
<1> QED
  BY <1>1, OutboundStart, PTL DEF CallSpec, AttemptsAreGated

\* What a request does to the limiter it shares is what the limiter allows: a behaviour
\* of nya_request_perform is one of the limiter, so its promise holds behind it.
THEOREM RequestsKeepRate == CallSpec => RateSpec /\ NeverTooSoon
<1>1. OutboundInv /\ [CallNext]_outboundVars => OutboundInv' /\ [RateNext]_rateVars
  BY OutboundStep
<1>2. CallSpec => RateSpec
  BY <1>1, OutboundStart, PTL DEF CallSpec, RateSpec
<1> QED
  BY <1>2, NeverTooSoonAlways

\* ... and so for the breaker, whatever its callers' fairness.
THEOREM RequestsKeepCircuit ==
    CallSpec => /\ CircuitInit /\ [][CircuitNext]_circuitVars
                /\ []BoundedQuestions /\ QuietAfterFailure
<1>1. OutboundInv /\ [CallNext]_outboundVars => OutboundInv' /\ [CircuitNext]_circuitVars
  BY OutboundStep
<1>2. CircuitInv /\ [CircuitNext]_circuitVars
        => CircuitInv' /\ [\A k \in Deps : Flying(k)' > Flying(k)
                                             => quiet[k] = OpenFor]_circuitVars
  BY CircuitStep
<1> QED
  BY <1>1, <1>2, OutboundStart, CircuitStart, CircuitGood, PTL DEF CallSpec, QuietAfterFailure

=============================================================================
