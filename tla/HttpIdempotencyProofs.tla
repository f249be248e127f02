------------------------ MODULE HttpIdempotencyProofs ------------------------
(***************************************************************************)
(* What holds of the idempotency layer for every set of requests, keys and *)
(* payloads, every table and TTL, with a database and without, through any *)
(* number of crashes.  What the layer says of one order and of its answers *)
(* is proved for requests that settle within the TTL of their stamp        *)
(* (Prompt); that nothing leaks is proved without it.                      *)
(***************************************************************************)
EXTENDS HttpIdempotency, FiniteSetTheorems, TLAPS

-----------------------------------------------------------------------------
(***************************************************************************)
(* The inductive invariant of NothingLeaks: where a request may be tracked,*)
(* and which stages only the durable path has.                             *)
(***************************************************************************)

\* A request that arrived has a key; only one that reserved it is tracked, and
\* only with a database is there a lock to wait for, a row to read, a savepoint to
\* commit.
Stages ==
    \A r \in Requests :
        /\ req[r].pc # "new" => req[r].key \in Keys
        /\ req[r].pc \in {"new", "arrived"} => ~ req[r].tracked
        /\ req[r].pc \in {"wait", "read", "ran"} => durable /\ req[r].tracked
        /\ req[r].pc = "settle" => req[r].tracked

\* An entry is under the key of a request.
Keyed == \A s \in Occupied : table[s].key \in Keys

LeakInv == IdempotencyTypeOK /\ Stages /\ Keyed /\ NothingLeaks

-----------------------------------------------------------------------------
(***************************************************************************)
(* The inductive invariant of OneOrder and AnswersAreTrue.  Neither is     *)
(* inductive: that a handler runs once needs to know that its reservation  *)
(* is still the one entry of its key, which is what the settling at its    *)
(* end finds again, and what of an earlier request is still remembered; an *)
(* answer that is replayed came from an entry or a row, so all that is     *)
(* kept must be vouched for.                                               *)
(***************************************************************************)

\* The clock runs, no stamp is of the future, and a request under way was
\* stamped less than a TTL ago.
Stamped ==
    /\ clock > 0
    /\ \A r \in Requests : /\ req[r].now <= clock
                           /\ Active(r) => clock < req[r].now + TTL

\* The requests that hold a reservation.
Holds(r) == req[r].tracked /\ req[r].pc \in {"wait", "read", "run", "ran", "settle"}

\* A key has one entry; a request that holds a reservation is the only one of its
\* key, and its entry is as it wrote it.
Reserved ==
    /\ \A s, t \in Occupied : table[s].key = table[t].key => s = t
    /\ \A r \in Requests : Holds(r) => \E s \in Slots : table[s] = Reservation(r)
    /\ \A q, r \in Requests : Holds(q) /\ Holds(r) /\ req[q].key = req[r].key => q = r

\* The answer is of a request that asked this, and with a database its writes are
\* permanent.
Vouched(answer, k, p) ==
    /\ answer \in Requests /\ req[answer].pc # "new"
    /\ req[answer].key = k /\ req[answer].payload = p
    /\ durable => applied[answer] # 0

\* Whatever is kept, in the table, in the rows or on its way, is vouched for.
Kept ==
    /\ \A s \in Slots : table[s].state = "completed" =>
          Vouched(table[s].answer, table[s].key, table[s].payload)
    /\ \A k \in Keys : rows[k].answer # None =>
          durable /\ Vouched(rows[k].answer, k, rows[k].payload)
    /\ \A r \in Requests :
          /\ req[r].pc = "settle" /\ req[r].keep =>
                Vouched(req[r].answer, req[r].key, req[r].payload)
          /\ req[r].pc \in {"settle", "answered"} /\ req[r].result = "replayed" =>
                Vouched(req[r].answer, req[r].key, req[r].payload)

\* The open savepoint holds the writes of the request that opened it and of
\* requests without a reservation, which are answered by then.
InSavepoint ==
    /\ \A r \in Requests : req[r].pc = "ran" => r \in txn
    /\ \A r \in txn : req[r].pc = "ran" \/ (req[r].pc = "answered" /\ ~ req[r].tracked)

\* Writes are permanent only of requests past their handler, and with a database
\* exactly of those that will be told so.
Outcomes ==
    \A r \in Requests :
        /\ applied[r] # 0 => req[r].pc \in {"settle", "answered", "gone"}
        /\ durable /\ req[r].tracked /\ req[r].pc \in {"settle", "answered"} =>
              /\ req[r].result = "ok" => applied[r] # 0
              /\ req[r].result \in {"failed", "unavailable", "mismatch"} => applied[r] = 0

\* The key of a request whose writes are permanent is remembered for a TTL, by a
\* row or by an entry no older than its stamp.
Remembered ==
    \A q \in Requests : req[q].tracked /\ applied[q] # 0 =>
        \/ clock >= req[q].now + TTL
        \/ durable /\ rows[req[q].key].answer # None /\ rows[req[q].key].at >= req[q].now
        \/ ~ durable /\ req[q].key \in forgotten
        \/ /\ ~ durable
           /\ \E s \in Occupied : table[s].key = req[q].key /\ table[s].at >= req[q].now

\* A handler that runs, or has run in its savepoint, is a TTL later than all
\* whose writes are permanent.
Cleared ==
    \A q, r \in Requests :
        /\ q # r /\ req[q].key = req[r].key /\ req[q].tracked /\ req[r].tracked
        /\ req[r].pc \in {"run", "ran"} /\ applied[q] # 0
        /\ durable \/ req[q].key \notin forgotten
        => clock >= req[q].now + TTL

OrderInv == /\ LeakInv /\ Stamped /\ Reserved /\ Kept /\ InSavepoint
            /\ Outcomes /\ Remembered /\ Cleared /\ OncePerTTL

-----------------------------------------------------------------------------
(* The shape of the steps: what they write of an exchange and of an entry *)

Untouched(r) == \A q \in Requests : q # r => req'[q] = req[q]
SameQuestion(r) == /\ req'[r].key = req[r].key /\ req'[r].payload = req[r].payload
                   /\ req'[r].now = req[r].now

\* Up to four fields of an exchange are written at once; the sets of the fields
\* play no part.
LEMMA FieldsWritten ==
    ASSUME NEW P, NEW K, NEW L, NEW N, NEW B, NEW U, NEW A,
           NEW e \in [pc : P, key : K, payload : L, now : N, tracked : B, keep : B,
                      result : U, answer : A],
           NEW p \in P, NEW b \in B, NEW u \in U, NEW a \in A
    PROVE  LET R == [pc : P, key : K, payload : L, now : N, tracked : B, keep : B,
                     result : U, answer : A]
               moved == [e EXCEPT !.pc = p]
               told == [moved EXCEPT !.result = u]
               given == [told EXCEPT !.answer = a]
               settled == [given EXCEPT !.keep = b]
               noted == [moved EXCEPT !.tracked = b]
           IN /\ moved \in R /\ told \in R /\ given \in R /\ settled \in R /\ noted \in R
              /\ moved.pc = p /\ moved.key = e.key /\ moved.payload = e.payload
              /\ moved.now = e.now /\ moved.tracked = e.tracked /\ moved.keep = e.keep
              /\ moved.result = e.result /\ moved.answer = e.answer
              /\ told.pc = p /\ told.key = e.key /\ told.payload = e.payload
              /\ told.now = e.now /\ told.tracked = e.tracked /\ told.keep = e.keep
              /\ told.result = u /\ told.answer = e.answer
              /\ given.pc = p /\ given.key = e.key /\ given.payload = e.payload
              /\ given.now = e.now /\ given.tracked = e.tracked /\ given.keep = e.keep
              /\ given.result = u /\ given.answer = a
              /\ settled.pc = p /\ settled.key = e.key /\ settled.payload = e.payload
              /\ settled.now = e.now /\ settled.tracked = e.tracked /\ settled.keep = b
              /\ settled.result = u /\ settled.answer = a
              /\ noted.pc = p /\ noted.key = e.key /\ noted.payload = e.payload
              /\ noted.now = e.now /\ noted.tracked = b /\ noted.keep = e.keep
              /\ noted.result = e.result /\ noted.answer = e.answer
<1> DEFINE R == [pc : P, key : K, payload : L, now : N, tracked : B, keep : B,
                 result : U, answer : A]
           moved == [e EXCEPT !.pc = p]
           told == [moved EXCEPT !.result = u]
           given == [told EXCEPT !.answer = a]
           settled == [given EXCEPT !.keep = b]
           noted == [moved EXCEPT !.tracked = b]
<1>1. /\ moved \in R
      /\ moved.pc = p /\ moved.key = e.key /\ moved.payload = e.payload
      /\ moved.now = e.now /\ moved.tracked = e.tracked /\ moved.keep = e.keep
      /\ moved.result = e.result /\ moved.answer = e.answer
  OBVIOUS
<1> HIDE DEF moved
<1>2. /\ told \in R
      /\ told.pc = p /\ told.key = e.key /\ told.payload = e.payload
      /\ told.now = e.now /\ told.tracked = e.tracked /\ told.keep = e.keep
      /\ told.result = u /\ told.answer = e.answer
  BY <1>1
<1>3. /\ noted \in R
      /\ noted.pc = p /\ noted.key = e.key /\ noted.payload = e.payload
      /\ noted.now = e.now /\ noted.tracked = b /\ noted.keep = e.keep
      /\ noted.result = e.result /\ noted.answer = e.answer
  BY <1>1
<1> HIDE DEF told, noted
<1>4. /\ given \in R
      /\ given.pc = p /\ given.key = e.key /\ given.payload = e.payload
      /\ given.now = e.now /\ given.tracked = e.tracked /\ given.keep = e.keep
      /\ given.result = u /\ given.answer = a
  BY <1>2
<1> HIDE DEF given
<1>5. /\ settled \in R
      /\ settled.pc = p /\ settled.key = e.key /\ settled.payload = e.payload
      /\ settled.now = e.now /\ settled.tracked = e.tracked /\ settled.keep = b
      /\ settled.result = u /\ settled.answer = a
  BY <1>4
<1> QED
  BY <1>1, <1>2, <1>3, <1>4, <1>5 DEF moved, told, given, settled, noted

Places == {"new", "arrived", "wait", "read", "run", "ran", "settle", "answered", "gone"}

\* What each step writes of its exchange.
Moves(r, p) ==
    /\ req' \in [Requests -> ARequest] /\ Untouched(r) /\ SameQuestion(r) /\ req'[r].pc = p
Keeps(r) == /\ req'[r].tracked = req[r].tracked /\ req'[r].keep = req[r].keep
            /\ req'[r].result = req[r].result /\ req'[r].answer = req[r].answer
Tells(r, result) == req'[r].tracked = req[r].tracked /\ req'[r].result = result
Gives(r, result, answer) == Tells(r, result) /\ req'[r].answer = answer
Settles(r, keep, result, answer) == Gives(r, result, answer) /\ req'[r].keep = keep

\* What the steps write of one exchange.
LEMMA Writes ==
    ASSUME req \in [Requests -> ARequest], NEW r \in Requests
    PROVE  \A p \in Places, b \in BOOLEAN, u \in Results, a \in MaybeRequest :
              /\ req' = [req EXCEPT ![r].pc = p] => Moves(r, p) /\ Keeps(r)
              /\ req' = [req EXCEPT ![r].pc = p, ![r].tracked = b] =>
                    Moves(r, p) /\ req'[r].tracked = b /\ req'[r].result = req[r].result
              /\ req' = [req EXCEPT ![r].pc = p, ![r].result = u] => Moves(r, p) /\ Tells(r, u)
              /\ req' = [req EXCEPT ![r].pc = p, ![r].result = u, ![r].answer = a] =>
                    Moves(r, p) /\ Gives(r, u, a)
              /\ req' = [req EXCEPT ![r].pc = p, ![r].result = u, ![r].answer = a, ![r].keep = b]
                    => Moves(r, p) /\ Settles(r, b, u, a)
<1> SUFFICES ASSUME NEW p \in Places, NEW b \in BOOLEAN, NEW u \in Results,
                    NEW a \in MaybeRequest
             PROVE  /\ req' = [req EXCEPT ![r].pc = p] => Moves(r, p) /\ Keeps(r)
                    /\ req' = [req EXCEPT ![r].pc = p, ![r].tracked = b] =>
                          Moves(r, p) /\ req'[r].tracked = b /\ req'[r].result = req[r].result
                    /\ req' = [req EXCEPT ![r].pc = p, ![r].result = u] => Moves(r, p) /\ Tells(r, u)
                    /\ req' = [req EXCEPT ![r].pc = p, ![r].result = u, ![r].answer = a] =>
                          Moves(r, p) /\ Gives(r, u, a)
                    /\ req' = [req EXCEPT ![r].pc = p, ![r].result = u, ![r].answer = a, ![r].keep = b]
                          => Moves(r, p) /\ Settles(r, b, u, a)
  OBVIOUS
<1> DEFINE e == req[r]
           moved == [e EXCEPT !.pc = p]
           told == [moved EXCEPT !.result = u]
           given == [told EXCEPT !.answer = a]
           settled == [given EXCEPT !.keep = b]
           noted == [moved EXCEPT !.tracked = b]
<1>1. e \in ARequest
  OBVIOUS
<1>2. /\ moved \in ARequest /\ told \in ARequest /\ given \in ARequest /\ settled \in ARequest
      /\ noted \in ARequest
      /\ moved.pc = p /\ moved.key = e.key /\ moved.payload = e.payload
      /\ moved.now = e.now /\ moved.tracked = e.tracked /\ moved.keep = e.keep
      /\ moved.result = e.result /\ moved.answer = e.answer
      /\ told.pc = p /\ told.key = e.key /\ told.payload = e.payload
      /\ told.now = e.now /\ told.tracked = e.tracked /\ told.keep = e.keep
      /\ told.result = u /\ told.answer = e.answer
      /\ given.pc = p /\ given.key = e.key /\ given.payload = e.payload
      /\ given.now = e.now /\ given.tracked = e.tracked /\ given.keep = e.keep
      /\ given.result = u /\ given.answer = a
      /\ settled.pc = p /\ settled.key = e.key /\ settled.payload = e.payload
      /\ settled.now = e.now /\ settled.tracked = e.tracked /\ settled.keep = b
      /\ settled.result = u /\ settled.answer = a
      /\ noted.pc = p /\ noted.key = e.key /\ noted.payload = e.payload
      /\ noted.now = e.now /\ noted.tracked = b /\ noted.keep = e.keep
      /\ noted.result = e.result /\ noted.answer = e.answer
  BY <1>1, FieldsWritten, ZenonT(60) DEF ARequest, Places
<1>3. /\ req' = [req EXCEPT ![r].pc = p] => req' = [req EXCEPT ![r] = moved]
      /\ req' = [req EXCEPT ![r].pc = p, ![r].tracked = b] => req' = [req EXCEPT ![r] = noted]
      /\ req' = [req EXCEPT ![r].pc = p, ![r].result = u] => req' = [req EXCEPT ![r] = told]
  OBVIOUS
<1>4. req' = [req EXCEPT ![r].pc = p, ![r].result = u, ![r].answer = a]
        => req' = [req EXCEPT ![r] = given]
  OBVIOUS
<1>5. req' = [req EXCEPT ![r].pc = p, ![r].result = u, ![r].answer = a, ![r].keep = b]
        => req' = [req EXCEPT ![r] = settled]
  OBVIOUS
<1> HIDE DEF moved, told, given, settled, noted
<1>6. \A x \in ARequest : req' = [req EXCEPT ![r] = x] =>
          req' \in [Requests -> ARequest] /\ Untouched(r) /\ req'[r] = x
  BY DEF Untouched
<1> USE DEF Moves, Keeps, Tells, Gives, Settles, SameQuestion
<1>7. req' = [req EXCEPT ![r] = moved] => Moves(r, p) /\ Keeps(r)
  BY <1>2, <1>6, Zenon
<1>8. req' = [req EXCEPT ![r] = noted] =>
          Moves(r, p) /\ req'[r].tracked = b /\ req'[r].result = req[r].result
  BY <1>2, <1>6, Zenon
<1>9. req' = [req EXCEPT ![r] = told] => Moves(r, p) /\ Tells(r, u)
  BY <1>2, <1>6, Zenon
<1>10. req' = [req EXCEPT ![r] = given] => Moves(r, p) /\ Gives(r, u, a)
  BY <1>2, <1>6, Zenon
<1>11. req' = [req EXCEPT ![r] = settled] => Moves(r, p) /\ Settles(r, b, u, a)
  BY <1>2, <1>6, Zenon
<1> HIDE DEF Moves, Keeps, Tells, Gives, Settles
<1> QED
  BY <1>3, <1>4, <1>5, <1>7, <1>8, <1>9, <1>10, <1>11, Zenon

-----------------------------------------------------------------------------
(* The table and its count *)

\* Entries are records of the table; a sweep leaves what has not expired and
\* subtracts what it takes away.
LEMMA EntriesTyped ==
    ASSUME IdempotencyTypeOK, NEW r \in Requests
    PROVE  /\ EmptyEntry \in AnEntry /\ Reservation(r) \in AnEntry
           /\ Reservation(r).state = "in_flight" /\ Reservation(r).key = req[r].key
           /\ Reservation(r).at = req[r].now /\ EmptyEntry.state = "empty"
           /\ req[r].now \in Nat /\ req[r].key \in MaybeKey /\ req[r].payload \in MaybePayload
<1>1. req[r] \in ARequest
  BY DEF IdempotencyTypeOK
<1>2. req[r].now \in Nat /\ req[r].key \in MaybeKey /\ req[r].payload \in MaybePayload
  BY <1>1 DEF ARequest
<1> QED
  BY <1>2 DEF EmptyEntry, Reservation, AnEntry, MaybeKey, MaybePayload, MaybeRequest

\* The slots are finitely many, and so are the occupied ones.
LEMMA SlotsFinite ==
    /\ IsFiniteSet(Slots) /\ Cardinality(Slots) = MaxEntries
    /\ \A S \in SUBSET Slots : /\ IsFiniteSet(S) /\ Cardinality(S) \in Nat
                               /\ Cardinality(S) <= MaxEntries
                               /\ Cardinality(S) = MaxEntries => S = Slots
<1>1. IsFiniteSet(Slots) /\ Cardinality(Slots) = MaxEntries
  BY FS_Interval, IdempotencyAssumption DEF Slots
<1>2. ASSUME NEW S \in SUBSET Slots
      PROVE  /\ IsFiniteSet(S) /\ Cardinality(S) \in Nat
             /\ Cardinality(S) <= MaxEntries
             /\ Cardinality(S) = MaxEntries => S = Slots
  <2>1. IsFiniteSet(S) /\ Cardinality(S) <= Cardinality(Slots)
    BY <1>1, FS_Subset
  <2>2. Cardinality(S) = Cardinality(Slots) => S = Slots
    BY <1>1, FS_Subset
  <2> QED
    BY <1>1, <2>1, <2>2, FS_CardinalityType
<1> QED
  BY <1>1, <1>2

\* What the sweep of expired entries leaves, and its count.
LEMMA Sweep ==
    ASSUME IdempotencyTypeOK, CountHonest, NEW now \in Nat
    PROVE  LET left == Occupied \ ExpiredAt(now)
           IN /\ Swept(now) \in [Slots -> AnEntry]
              /\ left = {s \in Slots : Swept(now)[s].state # "empty"}
              /\ \A s \in left : Swept(now)[s] = table[s]
              /\ CountAfter(now) = Cardinality(left)
              /\ left \subseteq Slots
<1> DEFINE left == Occupied \ ExpiredAt(now)
<1>1. ExpiredAt(now) \in SUBSET Occupied /\ Occupied \in SUBSET Slots
  BY DEF ExpiredAt, Occupied
<1>2. IsFiniteSet(Occupied) /\ Cardinality(Occupied) \in Nat
  BY <1>1, SlotsFinite
<1>3. IsFiniteSet(ExpiredAt(now)) /\ Cardinality(ExpiredAt(now)) \in Nat
  BY <1>1, <1>2, FS_Subset, FS_CardinalityType
<1>4. Cardinality(left) = Cardinality(Occupied) - Cardinality(ExpiredAt(now))
  <2>1. Cardinality(left) = Cardinality(Occupied) - Cardinality(Occupied \cap ExpiredAt(now))
    BY <1>2, FS_Difference
  <2>2. Occupied \cap ExpiredAt(now) = ExpiredAt(now)
    BY <1>1
  <2> QED
    BY <2>1, <2>2, Zenon
<1>5. left \in SUBSET Slots /\ Cardinality(left) \in Nat
  BY <1>1, SlotsFinite
<1>6. CountAfter(now) = Cardinality(left)
  <2> HIDE DEF left
  <2> QED
    BY <1>2, <1>3, <1>4, <1>5 DEF CountAfter, CountHonest
<1>7. EmptyEntry \in AnEntry /\ EmptyEntry.state = "empty"
  BY DEF EmptyEntry, AnEntry, MaybeKey, MaybePayload, MaybeRequest
<1>8. /\ Swept(now) \in [Slots -> AnEntry]
      /\ \A s \in Slots : Swept(now)[s] = IF s \in ExpiredAt(now) THEN EmptyEntry ELSE table[s]
  BY <1>7 DEF Swept, IdempotencyTypeOK
<1>9. left = {s \in Slots : Swept(now)[s].state # "empty"}
  BY <1>1, <1>7, <1>8 DEF Occupied
<1> QED
  BY <1>1, <1>5, <1>6, <1>8, <1>9

\* A reservation goes into a free slot, which the count says there is, or takes the
\* slot of a completed entry when the count says there is none.
LEMMA ReservedCount ==
    ASSUME IdempotencyTypeOK, CountHonest, NEW r \in Requests,
           ReserveFree(r) \/ ReserveEvicting(r)
    PROVE  /\ table' \in [Slots -> AnEntry] /\ count' \in 0 .. MaxEntries /\ CountHonest'
           /\ \E s \in Slots :
                 /\ table' = [Swept(req[r].now) EXCEPT ![s] = Reservation(r)]
                 /\ \/ Swept(req[r].now)[s].state = "empty" /\ forgotten' = forgotten
                    \/ /\ Swept(req[r].now)[s] = table[s] /\ table[s].state = "completed"
                       /\ forgotten' = forgotten \cup {table[s].key}
<1> DEFINE now == req[r].now
           left == Occupied \ ExpiredAt(now)
<1>0. now \in Nat /\ Reservation(r) \in AnEntry /\ Reservation(r).state # "empty"
  BY EntriesTyped
<1> HIDE DEF now
<1>1. /\ Swept(now) \in [Slots -> AnEntry]
      /\ left = {s \in Slots : Swept(now)[s].state # "empty"}
      /\ \A s \in left : Swept(now)[s] = table[s]
      /\ CountAfter(now) = Cardinality(left)
      /\ left \in SUBSET Slots
  BY <1>0, Sweep
<1>2. IsFiniteSet(left) /\ Cardinality(left) \in Nat /\ Cardinality(left) <= MaxEntries
  BY <1>1, SlotsFinite
<1>3. CASE ReserveFree(r)
  <2>1. PICK s \in Slots : /\ Swept(now)[s].state = "empty"
                           /\ table' = [Swept(now) EXCEPT ![s] = Reservation(r)]
    BY <1>3 DEF ReserveFree, First, now
  <2>2. /\ count' = CountAfter(now) + 1 /\ CountAfter(now) < MaxEntries
        /\ forgotten' = forgotten
    BY <1>3 DEF ReserveFree, now
  <2>3. Occupied' = left \cup {s} /\ s \notin left
    BY <1>0, <1>1, <2>1 DEF Occupied
  <2>4. Cardinality(Occupied') = Cardinality(left) + 1
    BY <1>2, <2>3, FS_AddElement
  <2>5. count' \in 0 .. MaxEntries /\ CountHonest'
    BY <1>1, <1>2, <2>2, <2>4, IdempotencyAssumption DEF CountHonest
  <2>6. table' \in [Slots -> AnEntry]
    BY <1>0, <1>1, <2>1
  <2> QED
    BY <2>1, <2>2, <2>5, <2>6 DEF now
<1>4. CASE ReserveEvicting(r)
  <2>1. PICK s \in Slots : /\ Evictable(s, now)
                           /\ table' = [Swept(now) EXCEPT ![s] = Reservation(r)]
                           /\ forgotten' = forgotten \cup {table[s].key}
    BY <1>4 DEF ReserveEvicting, now
  <2>2. count' = CountAfter(now) /\ CountAfter(now) >= MaxEntries
    BY <1>4 DEF ReserveEvicting, now
  <2>3. table[s].state = "completed" /\ s \in left
    BY <2>1 DEF Evictable, Occupied
  <2>4. Occupied' = left
    BY <1>0, <1>1, <2>1, <2>3 DEF Occupied
  <2>5. count' \in 0 .. MaxEntries /\ CountHonest'
    <3>1. count' = Cardinality(left) /\ Cardinality(Occupied') = Cardinality(left)
      BY <1>1, <2>2, <2>4
    <3> HIDE DEF left
    <3> QED
      BY <1>2, <3>1, IdempotencyAssumption DEF CountHonest
  <2>6. table' \in [Slots -> AnEntry] /\ Swept(now)[s] = table[s]
    BY <1>0, <1>1, <2>1, <2>3
  <2> QED
    BY <2>1, <2>3, <2>5, <2>6 DEF now
<1> QED
  BY <1>3, <1>4

\* Settling writes the one entry it finds: its answer, or that it is free again.
LEMMA SettledCount ==
    ASSUME IdempotencyTypeOK, CountHonest, NEW r \in Requests, SettleEntry(r)
    PROVE  /\ table' \in [Slots -> AnEntry] /\ count' \in 0 .. MaxEntries /\ CountHonest'
           /\ \E s \in Live(req[r].key, req[r].now) :
                 /\ table[s].state = "in_flight"
                 /\ \A t \in Slots : t # s => table'[t] = table[t]
                 /\ \/ /\ req[r].keep /\ table'[s].state = "completed"
                       /\ table'[s].answer = req[r].answer /\ table'[s].at = req[r].now
                       /\ table'[s].key = table[s].key /\ table'[s].payload = table[s].payload
                       /\ UNCHANGED forgotten
                    \/ /\ ~ req[r].keep /\ table'[s].state = "empty"
                       /\ forgotten' = forgotten \cup {req[r].key}
<1>1. PICK s \in Live(req[r].key, req[r].now) :
            /\ table[s].state = "in_flight"
            /\ \/ /\ req[r].keep
                  /\ table' = [table EXCEPT ![s].state = "completed", ![s].answer = req[r].answer,
                                            ![s].at = req[r].now]
                  /\ UNCHANGED <<count, forgotten>>
               \/ /\ ~req[r].keep
                  /\ table' = [table EXCEPT ![s].state = "empty"]
                  /\ count' = IF count > 0 THEN count - 1 ELSE 0
                  /\ forgotten' = forgotten \cup {req[r].key}
  BY DEF SettleEntry, First
<1>2. s \in Slots /\ s \in Occupied /\ table \in [Slots -> AnEntry] /\ table[s] \in AnEntry
  BY DEF Live, Occupied, IdempotencyTypeOK
<1>3. req[r].now \in Nat /\ req[r].answer \in MaybeRequest
  <2>1. req[r] \in ARequest
    BY DEF IdempotencyTypeOK
  <2> QED
    BY <2>1 DEF ARequest
<1>4. Occupied \in SUBSET Slots /\ IsFiniteSet(Occupied) /\ Cardinality(Occupied) \in Nat
      /\ count = Cardinality(Occupied) /\ count \in 0 .. MaxEntries
  BY SlotsFinite DEF Occupied, CountHonest, IdempotencyTypeOK
<1>5. CASE req[r].keep
  <2> DEFINE x == [table[s] EXCEPT !.state = "completed", !.answer = req[r].answer,
                                   !.at = req[r].now]
             S == {"empty", "in_flight", "completed"}
  <2>1. table' = [table EXCEPT ![s] = x] /\ UNCHANGED <<count, forgotten>>
    BY <1>1, <1>2, <1>5
  <2>2. /\ x \in AnEntry /\ x.state = "completed" /\ x.answer = req[r].answer
        /\ x.at = req[r].now /\ x.key = table[s].key /\ x.payload = table[s].payload
    <3>1. "completed" \in S
      OBVIOUS
    <3>2. table[s] \in [state : S, key : MaybeKey, payload : MaybePayload,
                        answer : MaybeRequest, at : Nat]
      BY <1>2 DEF AnEntry
    <3> HIDE DEF S
    <3> DEFINE y == [table[s] EXCEPT !.state = "completed"]
               z == [y EXCEPT !.answer = req[r].answer]
    <3>3. /\ y \in [state : S, key : MaybeKey, payload : MaybePayload,
                    answer : MaybeRequest, at : Nat]
          /\ y.state = "completed" /\ y.key = table[s].key /\ y.payload = table[s].payload
      BY <3>1, <3>2
    <3> HIDE DEF y
    <3>4. /\ z \in [state : S, key : MaybeKey, payload : MaybePayload,
                    answer : MaybeRequest, at : Nat]
          /\ z.state = "completed" /\ z.key = table[s].key /\ z.payload = table[s].payload
          /\ z.answer = req[r].answer
      BY <1>3, <3>3
    <3>5. x = [z EXCEPT !.at = req[r].now]
      BY DEF y
    <3> HIDE DEF z, x
    <3>6. /\ x \in [state : S, key : MaybeKey, payload : MaybePayload,
                    answer : MaybeRequest, at : Nat]
          /\ x.state = "completed" /\ x.key = table[s].key /\ x.payload = table[s].payload
          /\ x.answer = req[r].answer /\ x.at = req[r].now
      BY <1>3, <3>4, <3>5
    <3> QED
      BY <3>6 DEF AnEntry, S
  <2> HIDE DEF x
  <2>3. table' \in [Slots -> AnEntry] /\ table'[s] = x /\ \A t \in Slots : t # s => table'[t] = table[t]
    BY <1>2, <2>1, <2>2
  <2>4. Occupied' = Occupied
    BY <1>2, <2>2, <2>3 DEF Occupied
  <2>5. CountHonest'
    BY <1>4, <2>1, <2>4 DEF CountHonest
  <2> QED
    BY <1>1, <1>4, <1>5, <2>1, <2>2, <2>3, <2>5
<1>6. CASE ~ req[r].keep
  <2> DEFINE x == [table[s] EXCEPT !.state = "empty"]
  <2>1. /\ table' = [table EXCEPT ![s] = x] /\ count' = IF count > 0 THEN count - 1 ELSE 0
        /\ forgotten' = forgotten \cup {req[r].key}
    BY <1>1, <1>2, <1>6
  <2>2. x \in AnEntry /\ x.state = "empty"
    BY <1>2 DEF AnEntry
  <2> HIDE DEF x
  <2>3. table' \in [Slots -> AnEntry] /\ table'[s] = x /\ \A t \in Slots : t # s => table'[t] = table[t]
    BY <1>2, <2>1, <2>2
  <2>4. Occupied' = Occupied \ {s}
    BY <1>2, <2>2, <2>3 DEF Occupied
  <2>5. Cardinality(Occupied') = Cardinality(Occupied) - 1 /\ Cardinality(Occupied') \in Nat
    BY <1>2, <1>4, <2>4, FS_RemoveElement, FS_CardinalityType
  <2>6. CountHonest' /\ count' \in 0 .. MaxEntries
    <3>1. count > 0 /\ count \in Nat /\ MaxEntries \in Nat /\ count <= MaxEntries
      BY <1>4, <2>5, IdempotencyAssumption
    <3>2. count' = count - 1 /\ count' = Cardinality(Occupied')
      BY <1>4, <2>1, <2>5, <3>1
    <3> QED
      BY <3>1, <3>2 DEF CountHonest
  <2> QED
    BY <1>1, <1>6, <2>1, <2>2, <2>3, <2>6
<1> QED
  BY <1>5, <1>6

-----------------------------------------------------------------------------
(* What a step leaves alone *)

\* Only a reservation, a sweep or a settling writes the table, only a commit
\* writes the rows, and an exchange is served once it has been dispatched.
LEMMA ServeFrame ==
    ASSUME NEW r \in Requests, Serve(r) \/ StoreFails(r), req \in [Requests -> ARequest]
    PROVE  /\ UNCHANGED <<durable, clock, crashes>>
           /\ UNCHANGED rows \/ Commit(r)
           /\ \/ UNCHANGED <<table, count, forgotten>>
              \/ ReserveFree(r) \/ ReserveEvicting(r) \/ PassThrough(r) \/ Settle(r)
           /\ Active(r) /\ \E x : req' = [req EXCEPT ![r] = x]
<1> DEFINE Touched == \E x : req' = [req EXCEPT ![r] = x]
           Goal == /\ UNCHANGED <<durable, clock, crashes>>
                   /\ UNCHANGED rows \/ Commit(r)
                   /\ \/ UNCHANGED <<table, count, forgotten>>
                      \/ ReserveFree(r) \/ ReserveEvicting(r) \/ PassThrough(r) \/ Settle(r)
                   /\ Active(r) /\ Touched
<1>0. ASSUME NEW x, req' = [req EXCEPT ![r].pc = x] PROVE Touched
  BY <1>0
<1>1. ASSUME NEW x, NEW u, req' = [req EXCEPT ![r].pc = x, ![r].result = u] PROVE Touched
  BY <1>1
<1>2. ASSUME NEW b, NEW u, NEW a, ToSettle(r, b, u, a) PROVE Touched
  BY <1>2 DEF ToSettle
<1>20. ASSUME NEW u, Answer(r, u) PROVE Touched
  BY <1>20 DEF Answer
<1>21. ASSUME NEW u, NEW a,
              req' = [req EXCEPT ![r].pc = "answered", ![r].result = u, ![r].answer = a]
       PROVE  Touched
  <2> DEFINE x == [[[req[r] EXCEPT !.pc = "answered"] EXCEPT !.result = u] EXCEPT !.answer = a]
  <2>1. req' = [req EXCEPT ![r] = x]
    BY <1>21
  <2> HIDE DEF x
  <2> QED
    BY <2>1
<1>4. ASSUME GoOn(r) PROVE Touched
  BY <1>4 DEF GoOn
<1> HIDE DEF Touched
<1>3. ASSUME FindsEntry(r) PROVE Goal
  <2>1. UNCHANGED <<durable, clock, table, count, rows, crashes, forgotten>> /\ Active(r)
    BY <1>3 DEF FindsEntry, Active
  <2>2. PICK s \in Slots :
           \/ Answer(r, "conflict") \/ Answer(r, "mismatch")
           \/ req' = [req EXCEPT ![r].pc = "answered", ![r].result = "replayed",
                                 ![r].answer = table[s].answer]
    BY <1>3 DEF FindsEntry
  <2> DEFINE a == table[s].answer
  <2> HIDE DEF a
  <2>3. req' = [req EXCEPT ![r].pc = "answered", ![r].result = "replayed", ![r].answer = a]
          => Touched
    BY <1>21, Zenon
  <2>4. Touched
    BY <1>20, <2>2, <2>3, Zenon DEF a
  <2> QED
    BY <2>1, <2>4
<1>5. ASSUME ReserveFree(r) PROVE Goal
  <2>1. UNCHANGED <<durable, clock, rows, crashes>> /\ Active(r) /\ GoOn(r)
    BY <1>5 DEF ReserveFree, Active
  <2> QED
    BY <1>4, <1>5, <2>1
<1>6. ASSUME ReserveEvicting(r) PROVE Goal
  <2>1. UNCHANGED <<durable, clock, rows, crashes>> /\ Active(r) /\ GoOn(r)
    BY <1>6 DEF ReserveEvicting, Active
  <2> QED
    BY <1>4, <1>6, <2>1
<1>7. ASSUME PassThrough(r) PROVE Goal
  <2>1. UNCHANGED <<durable, clock, rows, crashes>> /\ Active(r)
        /\ req' = [req EXCEPT ![r].pc = "run"]
    BY <1>7 DEF PassThrough, Active
  <2> QED
    BY <1>0, <1>7, <2>1
<1>8. ASSUME NEW u, HandleUntracked(r, u) PROVE Goal
  <2>1. UNCHANGED <<durable, clock, table, count, rows, crashes, forgotten>> /\ Active(r)
        /\ Answer(r, u)
    BY <1>8 DEF HandleUntracked, Active
  <2> QED
    BY <1>20, <2>1
<1>9. ASSUME NEW u, HandleInMemory(r, u) PROVE Goal
  <2>1. UNCHANGED <<durable, clock, table, count, rows, crashes, forgotten>> /\ Active(r)
        /\ ToSettle(r, u = "ok", u, r)
    BY <1>9 DEF HandleInMemory, Active, ToSettle
  <2>2. Touched
    BY <1>2, <2>1
  <2> QED
    BY <2>1, <2>2
<1>10. ASSUME NEW u, HandleDurable(r, u) PROVE Goal
  <2>1. UNCHANGED <<durable, clock, table, count, rows, crashes, forgotten>> /\ Active(r)
        /\ req' = [req EXCEPT ![r].pc = "ran", ![r].result = u]
    BY <1>10 DEF HandleDurable, Active
  <2>2. Touched
    BY <1>1, <2>1, Zenon
  <2> QED
    BY <2>1, <2>2
<1>11. ASSUME TakeChainLock(r) PROVE Goal
  <2>1. UNCHANGED <<durable, clock, table, count, rows, crashes, forgotten>> /\ Active(r)
        /\ req' = [req EXCEPT ![r].pc = "read"]
    BY <1>11 DEF TakeChainLock, Active
  <2> QED
    BY <1>0, <2>1
<1>12. ASSUME FindsRow(r) PROVE Goal
  <2>1. UNCHANGED <<durable, clock, table, count, rows, crashes, forgotten>> /\ Active(r)
        /\ \E b, u, a : ToSettle(r, b, u, a)
    BY <1>12 DEF FindsRow, Active
  <2> QED
    BY <1>2, <2>1
<1>13. ASSUME OpenSavepoint(r) PROVE Goal
  <2>1. UNCHANGED <<durable, clock, table, count, rows, crashes, forgotten>> /\ Active(r)
        /\ req' = [req EXCEPT ![r].pc = "run"]
    BY <1>13 DEF OpenSavepoint, Active
  <2> QED
    BY <1>0, <2>1
<1>14. ASSUME Commit(r) PROVE Goal
  <2>1. UNCHANGED <<durable, clock, table, count, crashes, forgotten>> /\ Active(r)
        /\ ToSettle(r, TRUE, "ok", r)
    BY <1>14 DEF Commit, Active
  <2> QED
    BY <1>2, <1>14, <2>1
<1>15. ASSUME Unwind(r) PROVE Goal
  <2>1. UNCHANGED <<durable, clock, table, count, rows, crashes, forgotten>> /\ Active(r)
        /\ \E u : ToSettle(r, FALSE, u, None)
    BY <1>15 DEF Unwind, Active
  <2> QED
    BY <1>2, <2>1
<1>16. ASSUME Settle(r) PROVE Goal
  <2>1. UNCHANGED <<durable, clock, rows, crashes>> /\ Active(r)
        /\ req' = [req EXCEPT ![r].pc = "answered"]
    BY <1>16 DEF Settle, Active
  <2> QED
    BY <1>0, <1>16, <2>1
<1>17. ASSUME StoreFails(r) PROVE Goal
  <2>1. UNCHANGED <<durable, clock, table, count, rows, crashes, forgotten>> /\ Active(r)
        /\ ToSettle(r, FALSE, "unavailable", None)
    BY <1>17 DEF StoreFails, Active
  <2> QED
    BY <1>2, <2>1
<1>18. \A u \in {"ok", "large", "failed"} :
           HandleUntracked(r, u) \/ HandleInMemory(r, u) \/ HandleDurable(r, u) => Goal
  BY <1>8, <1>9, <1>10
<1> HIDE DEF Goal
<1>19. Goal
  BY <1>3, <1>5, <1>6, <1>7, <1>11, <1>12, <1>13, <1>14, <1>15, <1>16, <1>17, <1>18 DEF Serve
<1> QED
  BY <1>19 DEF Goal, Touched

\* Who writes what, over all steps.
LEMMA Frames ==
    ASSUME req \in [Requests -> ARequest], [Next]_vars
    PROVE  /\ durable' = durable /\ (clock' = clock \/ clock' = clock + 1)
           /\ UNCHANGED rows \/ \E r \in Requests : Commit(r)
           /\ \/ UNCHANGED <<table, count, forgotten>> \/ Crash
              \/ \E r \in Requests :
                     ReserveFree(r) \/ ReserveEvicting(r) \/ PassThrough(r) \/ Settle(r)
           /\ Tick \/ Crash \/ UNCHANGED <<clock, crashes>>
<1> DEFINE Goal == /\ durable' = durable /\ (clock' = clock \/ clock' = clock + 1)
                   /\ UNCHANGED rows \/ \E r \in Requests : Commit(r)
                   /\ \/ UNCHANGED <<table, count, forgotten>> \/ Crash
                      \/ \E r \in Requests :
                             ReserveFree(r) \/ ReserveEvicting(r) \/ PassThrough(r) \/ Settle(r)
                   /\ Tick \/ Crash \/ UNCHANGED <<clock, crashes>>
<1>1. Tick => UNCHANGED <<durable, rows, table, count, forgotten>> /\ clock' = clock + 1
  BY DEF Tick
<1>2. Crash => UNCHANGED <<durable, clock, rows>>
  BY DEF Crash
<1>3. ASSUME NEW r \in Requests, NEW k \in Keys, NEW p \in Payloads, Arrive(r, k, p)
      PROVE  UNCHANGED <<durable, clock, rows, table, count, forgotten, crashes>>
  BY <1>3 DEF Arrive
<1>4. ASSUME NEW r \in Requests, Serve(r) \/ StoreFails(r)
      PROVE  /\ UNCHANGED <<durable, clock, crashes>> /\ (UNCHANGED rows \/ Commit(r))
             /\ \/ UNCHANGED <<table, count, forgotten>>
                \/ ReserveFree(r) \/ ReserveEvicting(r) \/ PassThrough(r) \/ Settle(r)
  BY <1>4, ServeFrame
<1> QED
  <2> HIDE DEF Goal
  <2>1. ASSUME UNCHANGED <<durable, clock, rows, table, count, forgotten, crashes>>
        PROVE  Goal
    BY <2>1 DEF Goal
  <2>2. ASSUME NEW r \in Requests, Serve(r) \/ StoreFails(r) PROVE Goal
    <3>1. /\ UNCHANGED <<durable, clock, crashes>> /\ (UNCHANGED rows \/ Commit(r))
          /\ \/ UNCHANGED <<table, count, forgotten>>
             \/ ReserveFree(r) \/ ReserveEvicting(r) \/ PassThrough(r) \/ Settle(r)
      BY <1>4, <2>2, Zenon
    <3>2. durable' = durable /\ clock' = clock /\ UNCHANGED <<clock, crashes>>
      BY <3>1
    <3>3. UNCHANGED rows \/ \E q \in Requests : Commit(q)
      BY <3>1, Zenon
    <3>4. \/ UNCHANGED <<table, count, forgotten>>
          \/ \E q \in Requests :
                 ReserveFree(q) \/ ReserveEvicting(q) \/ PassThrough(q) \/ Settle(q)
      BY <3>1, Zenon
    <3> QED
      BY <3>2, <3>3, <3>4, Zenon DEF Goal
  <2>3. ASSUME Tick PROVE Goal
    BY <1>1, <2>3 DEF Goal
  <2>4. ASSUME Crash PROVE Goal
    BY <1>2, <2>4 DEF Goal
  <2>5. ASSUME NEW r \in Requests, NEW k \in Keys, NEW p \in Payloads, Arrive(r, k, p)
        PROVE  Goal
    BY <1>3, <2>1, <2>5
  <2>6. ASSUME UNCHANGED vars PROVE Goal
    BY <2>1, <2>6 DEF vars
  <2>7. Goal
    <3>1. CASE Next
      BY <2>2, <2>3, <2>4, <2>5, <3>1 DEF Next
    <3> QED
      BY <2>6, <3>1
  <2> QED
    BY <2>7 DEF Goal

-----------------------------------------------------------------------------
(* Nothing leaks *)

\* The table, its count and what is forgotten, under every step.
LEMMA CountStep ==
    ASSUME LeakInv, [Next]_vars
    PROVE  /\ table' \in [Slots -> AnEntry] /\ count' \in 0 .. MaxEntries /\ CountHonest'
<1> USE DEF LeakInv, NothingLeaks
<1>0. /\ table \in [Slots -> AnEntry] /\ count \in 0 .. MaxEntries
      /\ \A r \in Requests : req[r].now \in Nat
  BY EntriesTyped DEF IdempotencyTypeOK
<1>1. CASE UNCHANGED <<table, count>>
  BY <1>0, <1>1 DEF CountHonest, Occupied
<1>2. ASSUME NEW r \in Requests, ReserveFree(r) \/ ReserveEvicting(r)
      PROVE  /\ table' \in [Slots -> AnEntry] /\ count' \in 0 .. MaxEntries /\ CountHonest'
  BY <1>2, ReservedCount
<1>3. ASSUME NEW r \in Requests, PassThrough(r)
      PROVE  /\ table' \in [Slots -> AnEntry] /\ count' \in 0 .. MaxEntries /\ CountHonest'
  <2> DEFINE now == req[r].now
             left == Occupied \ ExpiredAt(now)
  <2>1. now \in Nat /\ table' = Swept(now) /\ count' = CountAfter(now)
    BY <1>0, <1>3 DEF PassThrough
  <2> HIDE DEF now
  <2>2. /\ Swept(now) \in [Slots -> AnEntry]
        /\ left = {s \in Slots : Swept(now)[s].state # "empty"}
        /\ CountAfter(now) = Cardinality(left)
        /\ left \in SUBSET Slots
    BY <2>1, Sweep
  <2>3. Cardinality(left) \in Nat /\ Cardinality(left) <= MaxEntries
    BY <2>2, SlotsFinite
  <2>4. Occupied' = left
    BY <2>1, <2>2 DEF Occupied
  <2> HIDE DEF left
  <2> QED
    BY <2>1, <2>2, <2>3, <2>4, IdempotencyAssumption DEF CountHonest
<1>4. ASSUME NEW r \in Requests, Settle(r)
      PROVE  /\ table' \in [Slots -> AnEntry] /\ count' \in 0 .. MaxEntries /\ CountHonest'
  <2>1. CASE SettleEntry(r)
    BY <2>1, SettledCount
  <2>2. CASE NothingToSettle(r)
    BY <1>1, <2>2 DEF NothingToSettle
  <2> QED
    BY <1>4, <2>1, <2>2 DEF Settle
<1>5. CASE Crash
  <2>1. EmptyEntry \in AnEntry /\ EmptyEntry.state = "empty"
    BY DEF EmptyEntry, AnEntry, MaybeKey, MaybePayload, MaybeRequest
  <2>2. table' = [s \in Slots |-> EmptyEntry] /\ count' = 0
    BY <1>5 DEF Crash
  <2>3. Occupied' = {}
    BY <2>1, <2>2 DEF Occupied
  <2> QED
    BY <2>1, <2>2, <2>3, FS_EmptySet, IdempotencyAssumption DEF CountHonest
<1> QED
  BY <1>1, <1>2, <1>3, <1>4, <1>5, Frames DEF IdempotencyTypeOK

\* A step of one exchange: what it takes and gives back of the chain lock.
LEMMA LockStep ==
    ASSUME LeakInv, NEW r \in Requests, req' \in [Requests -> ARequest], Untouched(r),
           durable' = durable,
           req[r].tracked => req'[r].tracked, req'[r].key \in Keys,
           \/ /\ chainLock' = chainLock
              /\ req'[r].pc \in {"read", "run", "ran", "settle"} /\ durable /\ req'[r].tracked
                    <=> req[r].pc \in {"read", "run", "ran", "settle"} /\ durable /\ req[r].tracked
           \/ /\ chainLock = None /\ chainLock' = r
              /\ durable /\ req'[r].tracked /\ req'[r].pc = "read"
           \/ /\ chainLock' = IF chainLock = r THEN None ELSE chainLock
              /\ req'[r].pc = "answered",
           req'[r].pc \in {"new", "arrived"} => ~ req'[r].tracked,
           req'[r].pc \in {"wait", "read", "ran"} => durable /\ req'[r].tracked,
           req'[r].pc = "settle" => req'[r].tracked
    PROVE  Stages' /\ ChainLockHeld' /\ chainLock' \in MaybeRequest
<1> USE DEF LeakInv, NothingLeaks
<1>1. None \notin Requests /\ chainLock \in MaybeRequest
  BY IdempotencyAssumption DEF IdempotencyTypeOK
<1>2. Stages'
  BY DEF Stages, Untouched
<1>3. ChainLockHeld'
  <2> SUFFICES ASSUME NEW q \in Requests
               PROVE  chainLock' = q <=> /\ durable /\ req'[q].tracked
                                         /\ req'[q].pc \in {"read", "run", "ran", "settle"}
    BY DEF ChainLockHeld
  <2>1. chainLock = q <=> /\ durable /\ req[q].tracked
                          /\ req[q].pc \in {"read", "run", "ran", "settle"}
    BY DEF ChainLockHeld
  <2> QED
    BY <1>1, <2>1 DEF Untouched
<1>4. chainLock' \in MaybeRequest
  BY <1>1 DEF MaybeRequest
<1> QED
  BY <1>2, <1>3, <1>4

\* A request that arrives is one, and is the only one that changes.
LEMMA ArriveShape ==
    ASSUME IdempotencyTypeOK, NEW r \in Requests, NEW k \in Keys, NEW p \in Payloads,
           Arrive(r, k, p)
    PROVE  /\ req' \in [Requests -> ARequest] /\ Untouched(r) /\ Keeps(r)
           /\ req'[r].pc = "arrived" /\ req'[r].key = k /\ req'[r].payload = p
           /\ req'[r].now = clock
<1> DEFINE P == Places
           x == [req[r] EXCEPT !.pc = "arrived", !.key = k, !.payload = p, !.now = clock]
           R == [pc : P, key : MaybeKey, payload : MaybePayload, now : Nat, tracked : BOOLEAN,
                 keep : BOOLEAN, result : Results, answer : MaybeRequest]
           y == [req[r] EXCEPT !.pc = "arrived"]
           z == [y EXCEPT !.key = k]
           w == [z EXCEPT !.payload = p]
<1>1. /\ req[r] \in R /\ "arrived" \in P /\ k \in MaybeKey /\ p \in MaybePayload /\ clock \in Nat
  BY DEF IdempotencyTypeOK, ARequest, MaybeKey, MaybePayload, Places
<1>2. req' = [req EXCEPT ![r] = x] /\ req \in [Requests -> ARequest]
  BY DEF Arrive, IdempotencyTypeOK
<1>3. x = [w EXCEPT !.now = clock]
  OBVIOUS
<1> HIDE DEF P, x
<1>4. /\ y \in R /\ y.pc = "arrived" /\ y.tracked = req[r].tracked /\ y.keep = req[r].keep
      /\ y.result = req[r].result /\ y.answer = req[r].answer
  BY <1>1
<1> HIDE DEF y
<1>5. /\ z \in R /\ z.pc = "arrived" /\ z.tracked = req[r].tracked /\ z.keep = req[r].keep
      /\ z.result = req[r].result /\ z.answer = req[r].answer /\ z.key = k
  BY <1>1, <1>4
<1> HIDE DEF z
<1>6. /\ w \in R /\ w.pc = "arrived" /\ w.tracked = req[r].tracked /\ w.keep = req[r].keep
      /\ w.result = req[r].result /\ w.answer = req[r].answer /\ w.key = k /\ w.payload = p
  BY <1>1, <1>5
<1> HIDE DEF w
<1>7. /\ x \in R /\ x.pc = "arrived" /\ x.tracked = req[r].tracked /\ x.keep = req[r].keep
      /\ x.result = req[r].result /\ x.answer = req[r].answer /\ x.key = k /\ x.payload = p
      /\ x.now = clock
  BY <1>1, <1>3, <1>6
<1>8. x \in ARequest
  BY <1>7, Zenon DEF P, Places, ARequest
<1> QED
  BY <1>2, <1>7, <1>8 DEF Untouched, Keeps

\* What each stage does to its request.
LEMMA Shapes ==
    ASSUME IdempotencyTypeOK, NEW r \in Requests
    PROVE  /\ FindsEntry(r) =>
                \/ Moves(r, "answered") /\ Tells(r, "conflict")
                \/ Moves(r, "answered") /\ Tells(r, "mismatch")
                \/ /\ Moves(r, "answered")
                   /\ \E s \in Live(req[r].key, req[r].now) :
                         /\ table[s].state = "completed" /\ ~ Differs(s, r)
                         /\ Gives(r, "replayed", table[s].answer)
           /\ GoOn(r) => /\ Moves(r, IF durable THEN "wait" ELSE "run") /\ req'[r].tracked
                         /\ req'[r].result = req[r].result
           /\ PassThrough(r) \/ OpenSavepoint(r) => Moves(r, "run") /\ Keeps(r)
           /\ \A u \in {"ok", "large", "failed"} :
                 /\ HandleUntracked(r, u) => Moves(r, "answered") /\ Tells(r, u)
                 /\ HandleInMemory(r, u) => Moves(r, "settle") /\ Settles(r, u = "ok", u, r)
                 /\ HandleDurable(r, u) => Moves(r, "ran") /\ Tells(r, u)
           /\ TakeChainLock(r) => Moves(r, "read") /\ Keeps(r)
           /\ \A b \in BOOLEAN, u \in Results, a \in MaybeRequest :
                 ToSettle(r, b, u, a) => Moves(r, "settle") /\ Settles(r, b, u, a)
           /\ Settle(r) => Moves(r, "answered") /\ Keeps(r)
<1>1. req \in [Requests -> ARequest]
  BY DEF IdempotencyTypeOK
<1>2. /\ \A p \in Places : req' = [req EXCEPT ![r].pc = p] => Moves(r, p) /\ Keeps(r)
      /\ \A p \in Places, b \in BOOLEAN :
            req' = [req EXCEPT ![r].pc = p, ![r].tracked = b] =>
                Moves(r, p) /\ req'[r].tracked = b /\ req'[r].result = req[r].result
      /\ \A p \in Places, u \in Results :
            req' = [req EXCEPT ![r].pc = p, ![r].result = u] => Moves(r, p) /\ Tells(r, u)
      /\ \A p \in Places, u \in Results, a \in MaybeRequest :
            req' = [req EXCEPT ![r].pc = p, ![r].result = u, ![r].answer = a] =>
                Moves(r, p) /\ Gives(r, u, a)
      /\ \A p \in Places, b \in BOOLEAN, u \in Results, a \in MaybeRequest :
            req' = [req EXCEPT ![r].pc = p, ![r].result = u, ![r].answer = a, ![r].keep = b] =>
                Moves(r, p) /\ Settles(r, b, u, a)
  <2>1. TRUE \in BOOLEAN /\ "none" \in Results /\ None \in MaybeRequest
    BY DEF Results, MaybeRequest
  <2>2. \A p \in Places, b \in BOOLEAN, u \in Results, a \in MaybeRequest :
          /\ req' = [req EXCEPT ![r].pc = p] => Moves(r, p) /\ Keeps(r)
          /\ req' = [req EXCEPT ![r].pc = p, ![r].tracked = b] =>
                Moves(r, p) /\ req'[r].tracked = b /\ req'[r].result = req[r].result
          /\ req' = [req EXCEPT ![r].pc = p, ![r].result = u] => Moves(r, p) /\ Tells(r, u)
          /\ req' = [req EXCEPT ![r].pc = p, ![r].result = u, ![r].answer = a] =>
                Moves(r, p) /\ Gives(r, u, a)
          /\ req' = [req EXCEPT ![r].pc = p, ![r].result = u, ![r].answer = a, ![r].keep = b]
                => Moves(r, p) /\ Settles(r, b, u, a)
    BY <1>1, Writes, Zenon
  <2> QED
    BY <2>1, <2>2, Zenon
<1>3. \A p \in {"wait", "read", "run", "ran", "settle", "answered"} : p \in Places
  BY DEF Places
<1>4. \A u \in {"ok", "large", "failed", "conflict", "mismatch", "replayed", "unavailable"} :
          u \in Results
  BY DEF Results
<1>5. FindsEntry(r) =>
        \/ Moves(r, "answered") /\ Tells(r, "conflict")
        \/ Moves(r, "answered") /\ Tells(r, "mismatch")
        \/ /\ Moves(r, "answered")
           /\ \E s \in Live(req[r].key, req[r].now) :
                 /\ table[s].state = "completed" /\ ~ Differs(s, r)
                 /\ Gives(r, "replayed", table[s].answer)
  <2>1. \A s \in Slots : table[s].answer \in MaybeRequest
    <3>1. \A s \in Slots : table[s] \in AnEntry
      BY DEF IdempotencyTypeOK
    <3> QED
      BY <3>1 DEF AnEntry
  <2>2. \A u \in Results : Answer(r, u) => Moves(r, "answered") /\ Tells(r, u)
    BY <1>2, <1>3, Zenon DEF Answer
  <2>3. \A s \in Slots :
          req' = [req EXCEPT ![r].pc = "answered", ![r].result = "replayed",
                             ![r].answer = table[s].answer]
            => Moves(r, "answered") /\ Gives(r, "replayed", table[s].answer)
    BY <1>2, <1>3, <1>4, <2>1, Zenon
  <2> QED
    BY <1>4, <2>2, <2>3, Zenon DEF FindsEntry, First
<1>6. GoOn(r) => /\ Moves(r, IF durable THEN "wait" ELSE "run") /\ req'[r].tracked
                 /\ req'[r].result = req[r].result
  <2>1. (IF durable THEN "wait" ELSE "run") \in Places /\ TRUE \in BOOLEAN
    BY DEF Places
  <2> QED
    BY <1>2, <2>1, Zenon DEF GoOn
<1>7. PassThrough(r) \/ OpenSavepoint(r) => Moves(r, "run") /\ Keeps(r)
  BY <1>2, <1>3, Zenon DEF PassThrough, OpenSavepoint
<1>8. TakeChainLock(r) => Moves(r, "read") /\ Keeps(r)
  BY <1>2, <1>3, Zenon DEF TakeChainLock
<1>9. Settle(r) => Moves(r, "answered") /\ Keeps(r)
  BY <1>2, <1>3, Zenon DEF Settle
<1>10. \A b \in BOOLEAN, u \in Results, a \in MaybeRequest :
                 ToSettle(r, b, u, a) => Moves(r, "settle") /\ Settles(r, b, u, a)
  BY <1>2, <1>3, Zenon DEF ToSettle
<1>11. ASSUME NEW u \in {"ok", "large", "failed"}
       PROVE  /\ HandleUntracked(r, u) => Moves(r, "answered") /\ Tells(r, u)
              /\ HandleInMemory(r, u) => Moves(r, "settle") /\ Settles(r, u = "ok", u, r)
              /\ HandleDurable(r, u) => Moves(r, "ran") /\ Tells(r, u)
  <2>1. u \in Results /\ (u = "ok") \in BOOLEAN /\ r \in MaybeRequest
    BY DEF Results, MaybeRequest
  <2>2. HandleUntracked(r, u) => Moves(r, "answered") /\ Tells(r, u)
    BY <1>2, <1>3, <2>1, Zenon DEF HandleUntracked, Answer
  <2>3. HandleInMemory(r, u) => Moves(r, "settle") /\ Settles(r, u = "ok", u, r)
    BY <1>2, <1>3, <2>1, Zenon DEF HandleInMemory
  <2>4. HandleDurable(r, u) => Moves(r, "ran") /\ Tells(r, u)
    BY <1>2, <1>3, <2>1, Zenon DEF HandleDurable
  <2> QED
    BY <2>2, <2>3, <2>4
<1> QED
  BY <1>5, <1>6, <1>7, <1>8, <1>9, <1>10, <1>11, Zenon

\* What a crash leaves of the exchanges.
LEMMA CrashShape ==
    ASSUME IdempotencyTypeOK, Crash
    PROVE  /\ req' \in [Requests -> ARequest]
           /\ \A r \in Requests : Active(r) =>
                 /\ req'[r].pc = "gone" /\ Keeps(r) /\ SameQuestion(r)
           /\ \A r \in Requests : ~ Active(r) => req'[r] = req[r]
<1>1. req' = [r \in Requests |-> IF Active(r) THEN [req[r] EXCEPT !.pc = "gone"] ELSE req[r]]
  BY DEF Crash
<1>2. ASSUME NEW e \in ARequest
      PROVE  LET x == [e EXCEPT !.pc = "gone"]
             IN /\ x \in ARequest /\ x.pc = "gone" /\ x.key = e.key /\ x.payload = e.payload
                /\ x.now = e.now /\ x.tracked = e.tracked /\ x.keep = e.keep
                /\ x.result = e.result /\ x.answer = e.answer
  <2> DEFINE P == Places
             x == [e EXCEPT !.pc = "gone"]
             R == [pc : P, key : MaybeKey, payload : MaybePayload, now : Nat, tracked : BOOLEAN,
                   keep : BOOLEAN, result : Results, answer : MaybeRequest]
  <2>1. R = ARequest
    BY DEF ARequest, Places
  <2>2. e \in R /\ "gone" \in P
    BY <2>1 DEF Places
  <2> HIDE DEF P
  <2>3. /\ x \in R /\ x.pc = "gone" /\ x.key = e.key /\ x.payload = e.payload
        /\ x.now = e.now /\ x.tracked = e.tracked /\ x.keep = e.keep
        /\ x.result = e.result /\ x.answer = e.answer
    BY <2>2
  <2> QED
    BY <2>1, <2>3
<1>3. \A r \in Requests : req[r] \in ARequest
  BY DEF IdempotencyTypeOK
<1>4. \A r \in Requests : LET x == [req[r] EXCEPT !.pc = "gone"] IN
        /\ x \in ARequest /\ x.pc = "gone" /\ x.key = req[r].key /\ x.payload = req[r].payload
        /\ x.now = req[r].now /\ x.tracked = req[r].tracked /\ x.keep = req[r].keep
        /\ x.result = req[r].result /\ x.answer = req[r].answer
  BY <1>2, <1>3
<1>5. \A r \in Requests : req'[r] = IF Active(r) THEN [req[r] EXCEPT !.pc = "gone"] ELSE req[r]
  BY <1>1
<1>6. req' \in [Requests -> ARequest]
  BY <1>1, <1>3, <1>4
<1> QED
  BY <1>4, <1>5, <1>6, ZenonT(60) DEF Keeps, SameQuestion

\* Every entry still has a key when it is swept, reserved, settled or dropped.
LEMMA KeyedStep ==
    ASSUME LeakInv, [Next]_vars
    PROVE  Keyed'
<1> USE DEF LeakInv, NothingLeaks
<1>0. \A r \in Requests : req[r].now \in Nat /\ (req[r].pc # "new" => req[r].key \in Keys)
  BY EntriesTyped DEF Stages
<1>1. CASE UNCHANGED table
  BY <1>1 DEF Keyed, Occupied
<1>2. \A r \in Requests : \A s \in Slots :
          Swept(req[r].now)[s].state # "empty" => Swept(req[r].now)[s].key \in Keys
  BY <1>0, Sweep DEF Keyed
<1>3. ASSUME NEW r \in Requests, ReserveFree(r) \/ ReserveEvicting(r) PROVE Keyed'
  <2>1. Reservation(r).key \in Keys
    BY <1>0, <1>3 DEF ReserveFree, ReserveEvicting, Reservation
  <2>2. PICK s \in Slots : table' = [Swept(req[r].now) EXCEPT ![s] = Reservation(r)]
    BY <1>3, ReservedCount
  <2>3. Swept(req[r].now) \in [Slots -> AnEntry]
    BY <1>0, Sweep
  <2> QED
    BY <1>2, <2>1, <2>2, <2>3 DEF Keyed, Occupied
<1>4. ASSUME NEW r \in Requests, PassThrough(r) PROVE Keyed'
  BY <1>2, <1>4 DEF PassThrough, Keyed, Occupied
<1>5. ASSUME NEW r \in Requests, Settle(r) PROVE Keyed'
  <2>1. CASE SettleEntry(r)
    <3>1. PICK s \in Live(req[r].key, req[r].now) :
              /\ \A t \in Slots : t # s => table'[t] = table[t]
              /\ table'[s].key = table[s].key \/ table'[s].state = "empty"
      BY <2>1, SettledCount
    <3>2. s \in Occupied
      BY DEF Live
    <3> QED
      BY <3>1, <3>2 DEF Keyed, Occupied
  <2>2. CASE NothingToSettle(r)
    BY <1>1, <2>2 DEF NothingToSettle
  <2> QED
    BY <1>5, <2>1, <2>2 DEF Settle
<1>6. CASE Crash
  BY <1>6 DEF Crash, Keyed, Occupied, EmptyEntry
<1> QED
  BY <1>1, <1>3, <1>4, <1>5, <1>6, Frames DEF LeakInv, IdempotencyTypeOK

\* The exchanges, the stages they may be in and the chain lock, under every step.
LEMMA ReqStep ==
    ASSUME LeakInv, [Next]_vars
    PROVE  req' \in [Requests -> ARequest] /\ Stages' /\ ChainLockHeld' /\ chainLock' \in MaybeRequest
<1> DEFINE Goal == /\ req' \in [Requests -> ARequest] /\ Stages' /\ ChainLockHeld'
                   /\ chainLock' \in MaybeRequest
<1>0. IdempotencyTypeOK /\ Stages /\ ChainLockHeld /\ durable' = durable
  BY Frames DEF LeakInv, NothingLeaks, IdempotencyTypeOK
<1>1. CASE UNCHANGED <<req, chainLock>>
  BY <1>0, <1>1 DEF Stages, ChainLockHeld, IdempotencyTypeOK
<1>2. CASE Crash
  <2>1. chainLock' = None
    BY <1>2 DEF Crash
  <2>2. \A r \in Requests : /\ req'[r].pc \in {"new", "answered", "gone"}
                            /\ req'[r].pc = "new" => req'[r] = req[r]
                            /\ req'[r].pc # "new" => req[r].pc # "new"
                            /\ req'[r].key = req[r].key
    BY <1>0, <1>2, CrashShape DEF Active, SameQuestion
  <2>3. None \notin Requests
    BY IdempotencyAssumption
  <2> QED
    BY <1>0, <1>2, <2>1, <2>2, <2>3, CrashShape DEF Stages, ChainLockHeld, MaybeRequest
<1>3. ASSUME NEW r \in Requests, NEW k \in Keys, NEW p \in Payloads, Arrive(r, k, p) PROVE Goal
  <2>1. chainLock' = chainLock /\ req[r].pc = "new"
    BY <1>3 DEF Arrive
  <2> QED
    BY <1>0, <1>3, <2>1, ArriveShape, LockStep DEF Keeps, Stages
<1>4. ASSUME NEW r \in Requests, FindsEntry(r) PROVE Goal
  <2>1. chainLock' = chainLock /\ req[r].pc = "arrived" /\ ~ req[r].tracked
    BY <1>0, <1>4 DEF FindsEntry, Stages
  <2>2. /\ req' \in [Requests -> ARequest] /\ Untouched(r) /\ req'[r].key = req[r].key
        /\ req'[r].pc = "answered"
        /\ req'[r].tracked = req[r].tracked
    BY <1>0, <1>4, Shapes DEF Moves, SameQuestion, Tells, Gives
  <2> QED
    BY <1>0, <2>1, <2>2, LockStep DEF Stages
<1>5. ASSUME NEW r \in Requests, ReserveFree(r) \/ ReserveEvicting(r) PROVE Goal
  <2>1. chainLock' = chainLock /\ req[r].pc = "arrived" /\ GoOn(r) /\ ~ req[r].tracked
    BY <1>0, <1>5 DEF ReserveFree, ReserveEvicting, Stages
  <2>2. /\ req' \in [Requests -> ARequest] /\ Untouched(r) /\ req'[r].key = req[r].key
        /\ req'[r].pc = IF durable THEN "wait" ELSE "run"
        /\ req'[r].tracked
    BY <1>0, <2>1, Shapes DEF Moves, SameQuestion
  <2> QED
    BY <1>0, <2>1, <2>2, LockStep DEF Stages
<1>6. ASSUME NEW r \in Requests, PassThrough(r) \/ OpenSavepoint(r) PROVE Goal
  <2>1. /\ chainLock' = chainLock
        /\ \/ req[r].pc = "arrived" /\ ~ req[r].tracked
           \/ req[r].pc = "read" /\ req[r].tracked /\ durable
    BY <1>0, <1>6 DEF PassThrough, OpenSavepoint, Stages
  <2>2. /\ req' \in [Requests -> ARequest] /\ Untouched(r) /\ req'[r].key = req[r].key
        /\ req'[r].pc = "run"
        /\ req'[r].tracked = req[r].tracked
    BY <1>0, <1>6, Shapes DEF Moves, SameQuestion, Keeps
  <2> QED
    BY <1>0, <2>1, <2>2, LockStep DEF Stages
<1>7. ASSUME NEW r \in Requests, NEW u \in {"ok", "large", "failed"},
             HandleUntracked(r, u) \/ HandleInMemory(r, u) \/ HandleDurable(r, u)
      PROVE Goal
  <2>1. chainLock' = chainLock /\ req[r].pc = "run"
    BY <1>7 DEF HandleUntracked, HandleInMemory, HandleDurable
  <2>2. /\ req' \in [Requests -> ARequest] /\ Untouched(r) /\ req'[r].key = req[r].key
        /\ req'[r].tracked = req[r].tracked
        /\ \/ req'[r].pc = "answered" /\ ~ req[r].tracked
           \/ req'[r].pc = "settle" /\ req[r].tracked /\ ~ durable
           \/ req'[r].pc = "ran" /\ req[r].tracked /\ durable
    BY <1>0, <1>7, Shapes, ZenonT(60)
    DEF Moves, SameQuestion, Tells, Gives, Settles, HandleUntracked, HandleInMemory, HandleDurable
  <2> QED
    BY <1>0, <2>1, <2>2, LockStep DEF Stages
<1>8. ASSUME NEW r \in Requests, TakeChainLock(r) PROVE Goal
  <2>1. /\ chainLock' = r /\ chainLock = None /\ req[r].pc = "wait" /\ req[r].tracked
        /\ durable
    BY <1>0, <1>8 DEF TakeChainLock, Stages
  <2>2. /\ req' \in [Requests -> ARequest] /\ Untouched(r) /\ req'[r].key = req[r].key
        /\ req'[r].pc = "read"
        /\ req'[r].tracked = req[r].tracked
    BY <1>0, <1>8, Shapes DEF Moves, SameQuestion, Keeps
  <2> QED
    BY <1>0, <2>1, <2>2, LockStep DEF Stages
<1>9. ASSUME NEW r \in Requests, StoreFails(r) \/ FindsRow(r) \/ Commit(r) \/ Unwind(r) PROVE Goal
  <2>1. /\ chainLock' = chainLock /\ req[r].pc \in {"read", "ran"}
        /\ req[r].tracked /\ durable
    BY <1>0, <1>9 DEF StoreFails, FindsRow, Commit, Unwind, Stages
  <2>2. \E b \in BOOLEAN, u \in Results, a \in MaybeRequest : ToSettle(r, b, u, a)
    <3>1. /\ {"unavailable", "mismatch", "replayed", "ok", "failed"} \subseteq Results
          /\ None \in MaybeRequest /\ r \in MaybeRequest
      BY DEF Results, MaybeRequest
    <3>2. FindsRow(r) => rows[req[r].key].answer \in MaybeRequest
      <4>1. rows[req[r].key] \in ARow
        BY <1>0, <2>1 DEF IdempotencyTypeOK, Stages
      <4> QED
        BY <4>1 DEF ARow
    <3> QED
      BY <1>9, <3>1, <3>2 DEF StoreFails, FindsRow, Commit, Unwind
  <2>3. /\ req' \in [Requests -> ARequest] /\ Untouched(r) /\ req'[r].key = req[r].key
        /\ req'[r].pc = "settle"
        /\ req'[r].tracked = req[r].tracked
    BY <1>0, <2>2, Shapes DEF Moves, SameQuestion, Tells, Gives, Settles
  <2> QED
    BY <1>0, <2>1, <2>3, LockStep DEF Stages
<1>10. ASSUME NEW r \in Requests, Settle(r) PROVE Goal
  <2>1. /\ chainLock' = IF chainLock = r THEN None ELSE chainLock
        /\ req[r].pc = "settle"
    BY <1>10 DEF Settle, Unlocked
  <2>2. /\ req' \in [Requests -> ARequest] /\ Untouched(r) /\ req'[r].key = req[r].key
        /\ req'[r].pc = "answered"
        /\ req'[r].tracked = req[r].tracked
    BY <1>0, <1>10, Shapes DEF Moves, SameQuestion, Keeps
  <2> QED
    BY <1>0, <2>1, <2>2, LockStep DEF Stages
<1>11. CASE Tick \/ UNCHANGED vars
  BY <1>1, <1>11 DEF Tick, vars
<1> HIDE DEF Goal
<1>12. ASSUME NEW r \in Requests, Serve(r) PROVE Goal
  BY <1>4, <1>5, <1>6, <1>7, <1>8, <1>9, <1>10, <1>12 DEF Serve
<1>13. Goal
  BY <1>1, <1>2, <1>3, <1>9, <1>11, <1>12 DEF Next, Goal
<1> QED
  BY <1>13 DEF Goal

\* What the database holds and what is remembered, under every step.
LEMMA HistoryTyped ==
    ASSUME LeakInv, [Next]_vars
    PROVE  /\ durable' = durable /\ clock' \in Nat /\ crashes' \in 0 .. MaxCrashes
           /\ rows' \in [Keys -> ARow] /\ txn' \subseteq Requests
           /\ applied' \in [Requests -> Nat] /\ forgotten' \subseteq Keys
<1>10. /\ durable' = durable /\ (UNCHANGED rows \/ \E r \in Requests : Commit(r))
       /\ Tick \/ Crash \/ UNCHANGED <<clock, crashes>>
       /\ \/ forgotten' = forgotten \/ Crash
          \/ \E r \in Requests :
                 ReserveFree(r) \/ ReserveEvicting(r) \/ PassThrough(r) \/ Settle(r)
  BY Frames DEF LeakInv, IdempotencyTypeOK
<1> USE DEF LeakInv, NothingLeaks
<1>0. /\ durable \in BOOLEAN /\ clock \in Nat /\ crashes \in 0 .. MaxCrashes
      /\ rows \in [Keys -> ARow] /\ txn \subseteq Requests
      /\ applied \in [Requests -> Nat] /\ forgotten \subseteq Keys
      /\ \A r \in Requests : req[r].now \in Nat /\ req[r].payload \in MaybePayload
  BY EntriesTyped DEF IdempotencyTypeOK
<1>1. durable' = durable /\ clock' \in Nat /\ crashes' \in 0 .. MaxCrashes
  <2>1. CASE Tick
    BY <1>0, <2>1 DEF Tick
  <2>2. CASE Crash
    BY <1>0, <1>10, <2>2, IdempotencyAssumption DEF Crash
  <2>3. CASE UNCHANGED <<clock, crashes>>
    BY <1>0, <1>10, <2>3
  <2> QED
    BY <1>10, <2>1, <2>2, <2>3, Zenon
<1>2. forgotten' \subseteq Keys
  <2>1. ASSUME NEW r \in Requests, ReserveEvicting(r) PROVE forgotten' \subseteq Keys
    <3>1. \A s \in Slots : table[s].state = "completed" => table[s].key \in Keys
      BY DEF Keyed, Occupied
    <3> QED
      BY <1>0, <2>1, <3>1 DEF ReserveEvicting, Evictable
  <2>2. ASSUME NEW r \in Requests, Settle(r) PROVE forgotten' \subseteq Keys
    BY <1>0, <2>2 DEF Settle, SettleEntry, NothingToSettle, Stages
  <2>3. CASE Crash
    BY <2>3 DEF Crash
  <2>4. ASSUME NEW r \in Requests, ReserveFree(r) \/ PassThrough(r) PROVE forgotten' \subseteq Keys
    BY <1>0, <2>4 DEF ReserveFree, PassThrough
  <2>5. CASE forgotten' = forgotten
    BY <1>0, <2>5
  <2> QED
    BY <1>10, <2>1, <2>2, <2>3, <2>4, <2>5, Zenon
<1>3. rows' \in [Keys -> ARow]
  <2>1. ASSUME NEW r \in Requests, Commit(r) PROVE rows' \in [Keys -> ARow]
    <3>1. /\ [payload |-> req[r].payload, answer |-> r, at |-> req[r].now] \in ARow
          /\ NoRow \in ARow
      BY <1>0 DEF ARow, NoRow, MaybePayload, MaybeRequest
    <3> QED
      BY <1>0, <2>1, <3>1 DEF Commit
  <2> QED
    <3>1. CASE rows' = rows
      BY <1>0, <3>1
    <3> QED
      BY <1>10, <2>1, <3>1, Zenon
<1>4. txn' \subseteq Requests /\ applied' \in [Requests -> Nat]
  <2>1. ASSUME NEW r \in Requests, Write(r)
        PROVE  txn' \subseteq Requests /\ applied' \in [Requests -> Nat]
    BY <1>0, <2>1 DEF Write
  <2>2. ASSUME NEW r \in Requests, Commit(r)
        PROVE  txn' \subseteq Requests /\ applied' \in [Requests -> Nat]
    BY <1>0, <2>2 DEF Commit
  <2>3. ASSUME txn' = txn \/ txn' = {}, applied' = applied
        PROVE  txn' \subseteq Requests /\ applied' \in [Requests -> Nat]
    BY <1>0, <2>3
  <2>4. ASSUME NEW r \in Requests, Serve(r) \/ StoreFails(r)
        PROVE  txn' \subseteq Requests /\ applied' \in [Requests -> Nat]
    BY <2>1, <2>2, <2>3, <2>4
    DEF Serve, FindsEntry, ReserveFree, ReserveEvicting, PassThrough, HandleUntracked,
        HandleInMemory, HandleDurable, TakeChainLock, FindsRow, OpenSavepoint, Unwind, Unwound,
        Settle, StoreFails
  <2> QED
    BY <2>3, <2>4 DEF Next, vars, Tick, Crash, Arrive
<1> QED
  BY <1>1, <1>2, <1>3, <1>4

\* Every step keeps the invariant of the entries and their owners.
LEMMA LeakInvStep == LeakInv /\ [Next]_vars => LeakInv'
  BY CountStep, KeyedStep, ReqStep, HistoryTyped
  DEF LeakInv, NothingLeaks, IdempotencyTypeOK

\* The server starts with an empty table and nobody served.
LEMMA LeakInvInit == Init => LeakInv
<1> SUFFICES ASSUME Init PROVE LeakInv
  OBVIOUS
<1>1. /\ EmptyEntry \in AnEntry /\ EmptyEntry.state = "empty" /\ NoRow \in ARow
      /\ NewRequest \in ARequest /\ NewRequest.pc = "new" /\ NewRequest.tracked = FALSE
  BY DEF EmptyEntry, AnEntry, NoRow, ARow, NewRequest, ARequest, Results, MaybeKey, MaybePayload,
         MaybeRequest
<1>2. IdempotencyTypeOK
  BY <1>1, IdempotencyAssumption DEF Init, IdempotencyTypeOK, MaybeRequest
<1>3. Occupied = {}
  BY <1>1 DEF Init, Occupied
<1>4. Stages /\ Keyed /\ ChainLockHeld
  BY <1>1, <1>3, IdempotencyAssumption DEF Init, Stages, Keyed, ChainLockHeld
<1>5. CountHonest
  BY <1>3, FS_EmptySet DEF Init, CountHonest
<1> QED
  BY <1>2, <1>4, <1>5 DEF LeakInv, NothingLeaks

\* It holds throughout.
LEMMA LeakInvAlways == Spec => []LeakInv
  BY LeakInvInit, LeakInvStep, PTL DEF Spec

\* The store, the exchanges and the rows have their types, the count its bound.
THEOREM IdempotencyTypeCorrect == Spec => []IdempotencyTypeOK
<1>1. LeakInv => IdempotencyTypeOK
  BY DEF LeakInv
<1> QED
  BY <1>1, LeakInvAlways, PTL

\* No path out of the layer keeps a slot of the count or the chain lock, however
\* late a request settles and whoever swept, evicted or settled its entry.
THEOREM NothingLeaksAlways == Spec => []NothingLeaks
<1>1. LeakInv => NothingLeaks
  BY DEF LeakInv
<1> QED
  BY <1>1, LeakInvAlways, PTL

-----------------------------------------------------------------------------
(* One order, and true answers: what every step keeps *)

\* An exchange keeps the question it arrived with; what is permanent stays so; only
\* a reservation tracks a request.
LEMMA Persist ==
    ASSUME LeakInv, clock > 0, [Next]_vars
    PROVE  /\ \A r \in Requests : req[r].pc # "new" => SameQuestion(r) /\ req'[r].pc # "new"
           /\ \A r \in Requests : req[r].pc = "new" =>
                 req'[r] = req[r] \/ \E k \in Keys, p \in Payloads : Arrive(r, k, p)
           /\ \A r \in Requests : applied[r] # 0 => applied'[r] # 0
           /\ \A r \in Requests : req[r].tracked => req'[r].tracked
           /\ \A r \in Requests : req'[r].tracked /\ ~ req[r].tracked =>
                 ReserveFree(r) \/ ReserveEvicting(r)
           /\ clock' \in Nat /\ clock <= clock' /\ durable' = durable
<1> DEFINE Goal == /\ \A r \in Requests : req[r].pc # "new" => SameQuestion(r) /\ req'[r].pc # "new"
                   /\ \A r \in Requests : req[r].pc = "new" =>
                         req'[r] = req[r] \/ \E k \in Keys, p \in Payloads : Arrive(r, k, p)
                   /\ \A r \in Requests : req[r].tracked => req'[r].tracked
                   /\ \A r \in Requests : req'[r].tracked /\ ~ req[r].tracked =>
                         ReserveFree(r) \/ ReserveEvicting(r)
<1>0. IdempotencyTypeOK /\ Stages /\ clock \in Nat
  BY DEF LeakInv, IdempotencyTypeOK
<1>1. ASSUME UNCHANGED req PROVE Goal
  BY <1>1 DEF SameQuestion
<1>2. ASSUME Crash PROVE Goal
  BY <1>0, <1>2, CrashShape DEF Active, SameQuestion, Keeps
<1>3. ASSUME NEW r \in Requests, NEW k \in Keys, NEW p \in Payloads, Arrive(r, k, p) PROVE Goal
  <2>1. req[r].pc = "new"
    BY <1>3 DEF Arrive
  <2> QED
    BY <1>0, <1>3, <2>1, ArriveShape DEF Untouched, SameQuestion, Keeps
<1>4. ASSUME NEW r \in Requests, Serve(r) \/ StoreFails(r) PROVE Goal
  <2>1. req[r].pc # "new"
    BY <1>4
    DEF Serve, FindsEntry, ReserveFree, ReserveEvicting, PassThrough, HandleUntracked,
        HandleInMemory, HandleDurable, TakeChainLock, FindsRow, OpenSavepoint, Commit, Unwind,
        Settle, StoreFails
  <2>2. ASSUME Untouched(r), SameQuestion(r), req'[r].pc # "new",
               \/ req'[r].tracked = req[r].tracked
               \/ req'[r].tracked /\ (ReserveFree(r) \/ ReserveEvicting(r))
        PROVE  Goal
    BY <2>1, <2>2 DEF Untouched, SameQuestion
  <2> HIDE DEF Goal
  <2>3. CASE FindsEntry(r)
    BY <1>0, <2>2, <2>3, Shapes DEF Moves, Tells, Gives
  <2>4. CASE ReserveFree(r) \/ ReserveEvicting(r)
    <3>1. GoOn(r)
      BY <2>4 DEF ReserveFree, ReserveEvicting
    <3> QED
      BY <1>0, <2>2, <2>4, <3>1, Shapes DEF Moves
  <2>5. CASE PassThrough(r) \/ OpenSavepoint(r) \/ TakeChainLock(r) \/ Settle(r)
    BY <1>0, <2>2, <2>5, Shapes DEF Moves, Keeps
  <2>6. ASSUME NEW u \in {"ok", "large", "failed"},
               HandleUntracked(r, u) \/ HandleInMemory(r, u) \/ HandleDurable(r, u)
        PROVE  Goal
    BY <1>0, <2>2, <2>6, Shapes DEF Moves, Tells, Gives, Settles
  <2>7. CASE StoreFails(r) \/ FindsRow(r) \/ Commit(r) \/ Unwind(r)
    <3>1. \E b, u, a : ToSettle(r, b, u, a)
      BY <2>7 DEF StoreFails, FindsRow, Commit, Unwind
    <3>2. /\ Untouched(r) /\ SameQuestion(r) /\ req'[r].pc = "settle"
          /\ req'[r].tracked = req[r].tracked
      BY <1>0, <3>1 DEF ToSettle, IdempotencyTypeOK, ARequest, Untouched, SameQuestion
    <3> QED
      BY <2>2, <3>2
  <2> QED
    BY <1>4, <2>3, <2>4, <2>5, <2>6, <2>7 DEF Serve
<1>5. Goal
  BY <1>1, <1>2, <1>3, <1>4 DEF Next, vars, Tick
<1>6. \A r \in Requests : applied[r] # 0 => applied'[r] # 0
  <2>0. applied \in [Requests -> Nat]
    BY DEF LeakInv, IdempotencyTypeOK
  <2>1. ASSUME NEW r \in Requests, Write(r)
        PROVE  \A q \in Requests : applied[q] # 0 => applied'[q] # 0
    BY <2>0, <2>1 DEF Write
  <2>2. ASSUME NEW r \in Requests, Commit(r)
        PROVE  \A q \in Requests : applied[q] # 0 => applied'[q] # 0
    BY <2>0, <2>2 DEF Commit
  <2>3. ASSUME NEW r \in Requests, Serve(r) \/ StoreFails(r)
        PROVE  \A q \in Requests : applied[q] # 0 => applied'[q] # 0
    BY <2>1, <2>2, <2>3
    DEF Serve, FindsEntry, ReserveFree, ReserveEvicting, PassThrough, HandleUntracked,
        HandleInMemory, HandleDurable, TakeChainLock, FindsRow, OpenSavepoint, Unwind, Unwound,
        Settle, StoreFails
  <2> QED
    BY <2>3 DEF Next, vars, Tick, Crash, Arrive
<1>7. clock' \in Nat /\ clock <= clock' /\ durable' = durable
  <2>1. clock' = clock \/ clock' = clock + 1
    BY <1>0, Frames DEF LeakInv, IdempotencyTypeOK
  <2> QED
    BY <1>0, <2>1, HistoryTyped
<1> QED
  BY <1>5, <1>6, <1>7 DEF Goal

\* Requests stay within a TTL of their stamps: the clock waits for them (Prompt).
LEMMA StampedStep ==
    ASSUME Prompt, LeakInv, Stamped, [Next]_vars
    PROVE  Stamped'
<1>0. /\ IdempotencyTypeOK /\ clock \in Nat /\ clock > 0
      /\ \A r \in Requests : req[r].now \in Nat
  BY EntriesTyped DEF LeakInv, IdempotencyTypeOK, Stamped
<1>1. CASE Tick
  <2>1. /\ clock' = clock + 1 /\ req' = req
        /\ \A r \in Requests : Active(r) => clock + 1 < req[r].now + TTL
    BY <1>1 DEF Tick
  <2> QED
    BY <1>0, <2>1 DEF Stamped, Active
<1>2. ASSUME NEW r \in Requests, NEW k \in Keys, NEW p \in Payloads, Arrive(r, k, p)
      PROVE  Stamped'
  <2>1. clock' = clock
    BY <1>2 DEF Arrive
  <2>2. req'[r].now = clock /\ Untouched(r)
    BY <1>0, <1>2, ArriveShape
  <2> QED
    BY <1>0, <2>1, <2>2, IdempotencyAssumption DEF Stamped, Untouched, Active
<1>3. ASSUME clock' = clock, \A r \in Requests : \A k \in Keys, p \in Payloads : ~ Arrive(r, k, p),
             \A r \in Requests : Active(r)' => Active(r)
      PROVE  Stamped'
  <2>1. \A r \in Requests : req'[r].now = req[r].now
    BY <1>0, <1>3, Persist DEF SameQuestion
  <2> QED
    BY <1>3, <2>1 DEF Stamped
<1>4. CASE Crash
  BY <1>0, <1>2, <1>3, <1>4, CrashShape DEF Active, Crash
<1>5. ASSUME NEW r \in Requests, Serve(r) \/ StoreFails(r) PROVE Stamped'
  <2>1. /\ Active(r) /\ clock' = clock
        /\ \E x : req' = [req EXCEPT ![r] = x]
    BY <1>0, <1>5, ServeFrame DEF IdempotencyTypeOK
  <2>2. \A q \in Requests : Active(q)' => Active(q)
    BY <1>0, <2>1 DEF Active, IdempotencyTypeOK
  <2>3. \A q \in Requests : req[q].pc = "new" => req'[q] = req[q]
    BY <1>0, <2>1 DEF Active, IdempotencyTypeOK
  <2>4. \A q \in Requests : req'[q].now = req[q].now
    BY <1>0, <2>3, Persist DEF SameQuestion
  <2> QED
    BY <2>1, <2>2, <2>4 DEF Stamped
<1>6. CASE UNCHANGED vars
  BY <1>6 DEF vars, Stamped, Active
<1> QED
  BY <1>1, <1>2, <1>4, <1>5, <1>6 DEF Next
\* How the durable path ends.
LEMMA EndShapes ==
    ASSUME LeakInv, NEW r \in Requests
    PROVE  /\ StoreFails(r) => Moves(r, "settle") /\ Settles(r, FALSE, "unavailable", None)
           /\ FindsRow(r) => /\ Moves(r, "settle")
                             /\ \/ Settles(r, FALSE, "mismatch", None)
                                \/ /\ rows[req[r].key].payload = req[r].payload
                                   /\ Settles(r, TRUE, "replayed", rows[req[r].key].answer)
           /\ Commit(r) => Moves(r, "settle") /\ Settles(r, TRUE, "ok", r)
           /\ Unwind(r) => /\ Moves(r, "settle")
                           /\ \E u \in {"unavailable", "failed"} : Settles(r, FALSE, u, None)
<1>0. IdempotencyTypeOK /\ Stages
  BY DEF LeakInv
<1>1. \A b \in BOOLEAN, u \in Results, a \in MaybeRequest :
          ToSettle(r, b, u, a) => Moves(r, "settle") /\ Settles(r, b, u, a)
  BY <1>0, Shapes
<1>2. /\ \A u \in {"unavailable", "mismatch", "replayed", "ok", "failed"} : u \in Results
      /\ None \in MaybeRequest /\ r \in MaybeRequest
  BY DEF Results, MaybeRequest
<1>3. StoreFails(r) => Moves(r, "settle") /\ Settles(r, FALSE, "unavailable", None)
  BY <1>1, <1>2, Zenon DEF StoreFails
<1>4. Commit(r) => Moves(r, "settle") /\ Settles(r, TRUE, "ok", r)
  BY <1>1, <1>2, Zenon DEF Commit
<1>5. Unwind(r) => /\ Moves(r, "settle")
                   /\ \E u \in {"unavailable", "failed"} : Settles(r, FALSE, u, None)
  <2>1. Unwind(r) => \E u \in {"unavailable", "failed"} : ToSettle(r, FALSE, u, None)
    <3>1. (IF req[r].result = "ok" THEN "unavailable" ELSE "failed") \in {"unavailable", "failed"}
      OBVIOUS
    <3> QED
      BY <3>1, Zenon DEF Unwind
  <2> QED
    BY <1>1, <1>2, <2>1, Zenon
<1>6. ASSUME FindsRow(r)
      PROVE  /\ Moves(r, "settle")
             /\ \/ Settles(r, FALSE, "mismatch", None)
                \/ /\ rows[req[r].key].payload = req[r].payload
                   /\ Settles(r, TRUE, "replayed", rows[req[r].key].answer)
  <2>1. rows[req[r].key].answer \in MaybeRequest
    <3>1. req[r].key \in Keys
      BY <1>0, <1>6 DEF FindsRow, Stages
    <3>2. rows[req[r].key] \in ARow
      BY <1>0, <3>1 DEF IdempotencyTypeOK
    <3> QED
      BY <3>2 DEF ARow
  <2>2. \/ ToSettle(r, FALSE, "mismatch", None)
        \/ /\ rows[req[r].key].payload = req[r].payload
           /\ ToSettle(r, TRUE, "replayed", rows[req[r].key].answer)
    BY <1>6 DEF FindsRow
  <2> QED
    BY <1>1, <1>2, <2>1, <2>2, Zenon
<1> QED
  BY <1>3, <1>4, <1>5, <1>6

\* The entry of a request under way is there for whoever looks its key up, and is
\* the only one under its key.
LEMMA HolderLives ==
    ASSUME LeakInv, Stamped, Reserved, NEW q \in Requests, Holds(q), NEW now \in Nat, now <= clock
    PROVE  \E s \in Slots : /\ table[s] = Reservation(q) /\ s \in Occupied \ ExpiredAt(now)
                            /\ Live(req[q].key, now) = {s}
<1>0. /\ req[q].now \in Nat /\ clock \in Nat /\ clock < req[q].now + TTL /\ TTL \in Nat
  BY EntriesTyped, IdempotencyAssumption DEF LeakInv, IdempotencyTypeOK, Stamped, Active, Holds
<1>1. PICK s \in Slots : table[s] = Reservation(q)
  BY DEF Reserved
<1>2. table[s].state = "in_flight" /\ table[s].key = req[q].key /\ table[s].at = req[q].now
  BY <1>1, EntriesTyped DEF LeakInv
<1>3. s \in Occupied \ ExpiredAt(now)
  BY <1>0, <1>2 DEF Occupied, ExpiredAt, Old
<1>4. Live(req[q].key, now) = {s}
  BY <1>2, <1>3 DEF Live, Reserved
<1> QED
  BY <1>1, <1>3, <1>4

\* What the forgotten keys are never becomes known again.
LEMMA StaysForgotten == ASSUME LeakInv, [Next]_vars PROVE forgotten \subseteq forgotten'
<1>1. ASSUME NEW r \in Requests, Settle(r) PROVE forgotten \subseteq forgotten'
  BY <1>1 DEF Settle, SettleEntry, NothingToSettle
<1>2. ASSUME NEW r \in Requests, ReserveEvicting(r) PROVE forgotten \subseteq forgotten'
  BY <1>2 DEF ReserveEvicting
<1>3. CASE Crash
  BY <1>3 DEF Crash, LeakInv, IdempotencyTypeOK
<1> QED
  BY <1>1, <1>2, <1>3, Frames DEF ReserveFree, PassThrough, LeakInv, IdempotencyTypeOK

\* Nothing happens to the reservations when the table stays and nobody new holds one.
LEMMA ReservedStays ==
    ASSUME LeakInv, Reserved, table' = table,
           \A q \in Requests : Holds(q)' => Holds(q) /\ SameQuestion(q)
    PROVE  Reserved'
<1>1. \A q \in Requests : Holds(q)' => Reservation(q)' = Reservation(q)
  BY DEF Reservation, SameQuestion
<1> HIDE DEF Holds, Reservation
<1>2. \A s, t \in Occupied' : table'[s].key = table'[t].key => s = t
  BY DEF Reserved, Occupied
<1>3. \A q \in Requests : Holds(q)' => \E s \in Slots : table'[s] = Reservation(q)'
  BY <1>1 DEF Reserved
<1>4. \A q, r \in Requests : Holds(q)' /\ Holds(r)' /\ req'[q].key = req'[r].key => q = r
  BY DEF Reserved, SameQuestion
<1> QED
  BY <1>2, <1>3, <1>4 DEF Reserved

\* A new reservation is the only one of its key: whoever held one would be live.
LEMMA ReservedByReserving ==
    ASSUME LeakInv, Stamped, Reserved, NEW r \in Requests, ReserveFree(r) \/ ReserveEvicting(r)
    PROVE  Reserved'
<1> DEFINE now == req[r].now
           left == Occupied \ ExpiredAt(now)
<1>0. /\ IdempotencyTypeOK /\ CountHonest /\ now \in Nat /\ now <= clock
      /\ req[r].pc = "arrived" /\ Live(req[r].key, now) = {} /\ GoOn(r)
  BY EntriesTyped DEF LeakInv, NothingLeaks, Stamped, ReserveFree, ReserveEvicting
<1>1. PICK s \in Slots : /\ table' = [Swept(now) EXCEPT ![s] = Reservation(r)]
                         /\ \/ Swept(now)[s].state = "empty"
                            \/ Swept(now)[s] = table[s] /\ table[s].state = "completed"
  BY <1>0, ReservedCount
<1>2. Untouched(r) /\ SameQuestion(r)
  BY <1>0, Shapes DEF Moves
<1> HIDE DEF now
<1>3. /\ Swept(now) \in [Slots -> AnEntry]
      /\ left = {t \in Slots : Swept(now)[t].state # "empty"}
      /\ \A t \in left : Swept(now)[t] = table[t]
      /\ left \subseteq Occupied
  BY <1>0, Sweep
<1>4. /\ Reservation(r).state = "in_flight" /\ Reservation(r).key = req[r].key
      /\ \A q \in Requests : Reservation(q).state = "in_flight" /\ Reservation(q)' = Reservation(q)
  <2>1. \A q \in Requests : SameQuestion(q)
    BY <1>2 DEF Untouched, SameQuestion
  <2>2. \A q \in Requests : Reservation(q)' = Reservation(q)
    BY <2>1, Zenon DEF Reservation, SameQuestion
  <2> QED
    BY <1>0, <2>2, EntriesTyped
<1>5. \A t \in left : table[t].key # req[r].key
  BY <1>0 DEF Live, now
<1>6. /\ table'[s] = Reservation(r) /\ \A t \in Slots : t # s => table'[t] = Swept(now)[t]
      /\ \A t \in Occupied' : t # s => t \in left /\ table'[t] = table[t]
  <2>1. table'[s] = Reservation(r) /\ \A t \in Slots : t # s => table'[t] = Swept(now)[t]
    BY <1>1, <1>3
  <2> QED
    BY <1>3, <2>1 DEF Occupied
<1>7. \A t, u \in Occupied' : table'[t].key = table'[u].key => t = u
  BY <1>3, <1>4, <1>5, <1>6 DEF Reserved
<1>8. \A q \in Requests \ {r} : Holds(q)' <=> Holds(q)
  BY <1>2 DEF Untouched, Holds
<1>9. ASSUME NEW q \in Requests \ {r}, Holds(q)
      PROVE  /\ \E t \in Slots : table'[t] = Reservation(q)
             /\ req[q].key # req[r].key
  <2>1. PICK t \in Slots : table[t] = Reservation(q) /\ t \in left /\ table[t].key = req[q].key
    <3>1. PICK t \in Slots : table[t] = Reservation(q) /\ t \in left
      BY <1>0, <1>9, HolderLives
    <3> QED
      BY <1>0, <3>1, EntriesTyped
  <2>2. t # s
    BY <1>1, <1>3, <1>4, <2>1
  <2> QED
    BY <1>3, <1>5, <1>6, <2>1, <2>2
<1>10. \A q \in Requests : Holds(q)' => \E t \in Slots : table'[t] = Reservation(q)'
  BY <1>4, <1>6, <1>8, <1>9
<1>11. \A p, q \in Requests : Holds(p)' /\ Holds(q)' /\ req'[p].key = req'[q].key => p = q
  <2>1. \A q \in Requests : req'[q].key = req[q].key
    BY <1>2 DEF Untouched, SameQuestion
  <2> HIDE DEF Holds
  <2> QED
    BY <1>8, <1>9, <2>1 DEF Reserved
<1> QED
  BY <1>7, <1>10, <1>11 DEF Reserved

\* A request that finds no slot sweeps the table and holds nothing itself.
LEMMA ReservedByPassing ==
    ASSUME LeakInv, Stamped, Reserved, NEW r \in Requests, PassThrough(r)
    PROVE  Reserved'
<1> DEFINE now == req[r].now
           left == Occupied \ ExpiredAt(now)
<1>0. /\ IdempotencyTypeOK /\ CountHonest /\ now \in Nat /\ now <= clock
      /\ req[r].pc = "arrived" /\ ~ req[r].tracked /\ table' = Swept(now)
  BY EntriesTyped DEF LeakInv, NothingLeaks, Stamped, PassThrough, Stages
<1>1. Untouched(r) /\ SameQuestion(r) /\ ~ req'[r].tracked
  BY <1>0, Shapes DEF Moves, Keeps
<1>2. \A q \in Requests : /\ Holds(q)' => q # r /\ Holds(q)
                          /\ req'[q].key = req[q].key /\ Reservation(q)' = Reservation(q)
  <2>1. \A q \in Requests : SameQuestion(q)
    BY <1>1 DEF Untouched, SameQuestion
  <2>2. \A q \in Requests : Reservation(q)' = Reservation(q)
    BY <2>1, Zenon DEF Reservation, SameQuestion
  <2> QED
    BY <1>1, <2>1, <2>2 DEF Holds, Untouched, SameQuestion
<1> HIDE DEF now, Holds
<1>3. /\ left = {t \in Slots : Swept(now)[t].state # "empty"}
      /\ \A t \in left : Swept(now)[t] = table[t]
      /\ left \subseteq Occupied
  BY <1>0, Sweep
<1>4. \A t, u \in Occupied' : table'[t].key = table'[u].key => t = u
  BY <1>0, <1>3 DEF Occupied, Reserved
<1>5. ASSUME NEW q \in Requests, Holds(q)' PROVE \E t \in Slots : table'[t] = Reservation(q)'
  <2>1. PICK t \in Slots : table[t] = Reservation(q) /\ t \in left
    BY <1>0, <1>2, <1>5, HolderLives
  <2> QED
    BY <1>0, <1>2, <1>3, <2>1
<1>6. \A p, q \in Requests : Holds(p)' /\ Holds(q)' /\ req'[p].key = req'[q].key => p = q
  BY <1>2 DEF Reserved
<1> QED
  BY <1>4, <1>5, <1>6 DEF Reserved

\* Settling ends the request's own reservation.
LEMMA SettlesItsOwn ==
    ASSUME LeakInv, Stamped, Reserved, NEW r \in Requests, Settle(r)
    PROVE  \E s \in Occupied :
              /\ table[s] = Reservation(r) /\ \A t \in Slots : t # s => table'[t] = table[t]
              /\ table'[s].state = "empty" \/ table'[s].key = req[r].key
              /\ \/ /\ req[r].keep /\ table'[s].state = "completed"
                    /\ table'[s].answer = req[r].answer /\ table'[s].at = req[r].now
                    /\ table'[s].key = req[r].key /\ table'[s].payload = req[r].payload
                    /\ UNCHANGED forgotten
                 \/ /\ ~ req[r].keep /\ table'[s].state = "empty"
                    /\ forgotten' = forgotten \cup {req[r].key}
<1>0. /\ IdempotencyTypeOK /\ CountHonest /\ req[r].now \in Nat /\ req[r].now <= clock
      /\ Holds(r) /\ req[r].pc = "settle"
  BY EntriesTyped DEF LeakInv, NothingLeaks, Stamped, Settle, Stages, Holds
<1>1. PICK s \in Slots : /\ table[s] = Reservation(r) /\ s \in Occupied
                         /\ Live(req[r].key, req[r].now) = {s}
  BY <1>0, HolderLives
<1>2. /\ table[s].state = "in_flight" /\ table[s].key = req[r].key
      /\ table[s].payload = req[r].payload /\ table[s].at = req[r].now
  BY <1>1 DEF Reservation
<1>3. ~ NothingToSettle(r)
  <2>1. First(s, {s})
    BY DEF First, Slots
  <2> QED
    BY <1>1, <1>2, <2>1 DEF NothingToSettle
<1>4. SettleEntry(r)
  BY <1>3 DEF Settle
<1> QED
  BY <1>0, <1>1, <1>2, <1>4, SettledCount

\* Settling a reservation leaves the others reserved.
LEMMA ReservedBySettling ==
    ASSUME LeakInv, Stamped, Reserved, NEW r \in Requests, Settle(r)
    PROVE  Reserved'
<1>0. IdempotencyTypeOK /\ Holds(r)
  BY DEF LeakInv, Settle, Stages, Holds
<1>1. PICK s \in Occupied :
              /\ table[s] = Reservation(r) /\ \A t \in Slots : t # s => table'[t] = table[t]
              /\ table'[s].state = "empty" \/ table'[s].key = req[r].key
  BY SettlesItsOwn
<1>2. Untouched(r) /\ SameQuestion(r) /\ req'[r].pc = "answered"
  BY <1>0, Shapes DEF Moves
<1>3. \A q \in Requests : /\ Holds(q)' => q # r /\ Holds(q)
                          /\ req'[q].key = req[q].key /\ Reservation(q)' = Reservation(q)
  <2>1. \A q \in Requests : SameQuestion(q)
    BY <1>2 DEF Untouched, SameQuestion
  <2>2. \A q \in Requests : Reservation(q)' = Reservation(q)
    BY <2>1, Zenon DEF Reservation, SameQuestion
  <2> QED
    BY <1>2, <2>1, <2>2 DEF Holds, Untouched, SameQuestion
<1>4. \A q \in Requests : Reservation(q).key = req[q].key
  BY DEF Reservation
<1> HIDE DEF Holds
<1>5. s \in Slots /\ \A t \in Occupied' : t \in Occupied /\ table'[t].key = table[t].key
  BY <1>1, <1>4 DEF Occupied
<1>6. \A t, u \in Occupied' : table'[t].key = table'[u].key => t = u
  BY <1>5 DEF Reserved
<1>7. ASSUME NEW q \in Requests, Holds(q)' PROVE \E t \in Slots : table'[t] = Reservation(q)'
  <2>1. PICK t \in Slots : table[t] = Reservation(q)
    BY <1>3, <1>7 DEF Reserved
  <2>2. t # s
    BY <1>0, <1>1, <1>3, <1>4, <1>7, <2>1 DEF Reserved
  <2> QED
    BY <1>1, <1>3, <2>1, <2>2
<1>8. \A p, q \in Requests : Holds(p)' /\ Holds(q)' /\ req'[p].key = req'[q].key => p = q
  BY <1>3 DEF Reserved
<1> QED
  BY <1>6, <1>7, <1>8 DEF Reserved

\* Every request under way keeps its entry, whoever sweeps, evicts or settles.
LEMMA ReservedStep ==
    ASSUME LeakInv, Stamped, Reserved, [Next]_vars
    PROVE  Reserved'
<1>0. IdempotencyTypeOK /\ Stages
  BY DEF LeakInv
<1>1. CASE Tick \/ UNCHANGED vars
  <2>1. UNCHANGED <<table, req>>
    BY <1>1 DEF Tick, vars
  <2> QED
    BY <2>1, ReservedStays DEF Holds, SameQuestion
<1>2. CASE Crash
  <2>1. table' = [s \in Slots |-> EmptyEntry] /\ EmptyEntry.state = "empty"
    BY <1>2 DEF Crash, EmptyEntry
  <2>2. \A q \in Requests : ~ Holds(q)'
    BY <1>0, <1>2, CrashShape DEF Holds, Active
  <2> HIDE DEF Holds
  <2> QED
    BY <2>1, <2>2 DEF Reserved, Occupied
<1>3. ASSUME NEW r \in Requests, NEW k \in Keys, NEW p \in Payloads, Arrive(r, k, p)
      PROVE  Reserved'
  <2>1. table' = table /\ req[r].pc = "new"
    BY <1>3 DEF Arrive
  <2>2. Untouched(r) /\ req'[r].pc = "arrived"
    BY <1>0, <1>3, ArriveShape
  <2> QED
    BY <2>1, <2>2, ReservedStays DEF Holds, Untouched, SameQuestion
<1>4. ASSUME NEW r \in Requests, table' = table, Untouched(r), SameQuestion(r),
             req'[r].tracked = req[r].tracked,
             req'[r].pc = "answered" \/ req[r].pc \in {"wait", "read", "run", "ran", "settle"}
      PROVE  Reserved'
  BY <1>4, ReservedStays DEF Holds, Untouched, SameQuestion
<1>5. ASSUME NEW r \in Requests, Serve(r) \/ StoreFails(r) PROVE Reserved'
  <2>1. CASE FindsEntry(r)
    <3>1. table' = table
      BY <2>1 DEF FindsEntry
    <3> QED
      BY <1>0, <1>4, <2>1, <3>1, Shapes DEF Moves, Tells, Gives
  <2>2. CASE ReserveFree(r) \/ ReserveEvicting(r)
    BY <2>2, ReservedByReserving
  <2>3. CASE PassThrough(r)
    BY <2>3, ReservedByPassing
  <2>4. CASE OpenSavepoint(r) \/ TakeChainLock(r)
    <3>1. table' = table /\ req[r].pc \in {"wait", "read"}
      BY <2>4 DEF OpenSavepoint, TakeChainLock
    <3> QED
      BY <1>0, <1>4, <2>4, <3>1, Shapes DEF Moves, Keeps
  <2>5. ASSUME NEW u \in {"ok", "large", "failed"},
               HandleUntracked(r, u) \/ HandleInMemory(r, u) \/ HandleDurable(r, u)
        PROVE  Reserved'
    <3>1. table' = table /\ req[r].pc = "run"
      BY <2>5 DEF HandleUntracked, HandleInMemory, HandleDurable
    <3> QED
      BY <1>0, <1>4, <2>5, <3>1, Shapes DEF Moves, Tells, Gives, Settles
  <2>6. CASE StoreFails(r) \/ FindsRow(r) \/ Commit(r) \/ Unwind(r)
    <3>1. table' = table /\ req[r].pc \in {"read", "ran"}
      BY <2>6 DEF StoreFails, FindsRow, Commit, Unwind
    <3> QED
      BY <1>4, <2>6, <3>1, EndShapes DEF Moves, Tells, Gives, Settles
  <2>7. CASE Settle(r)
    BY <2>7, ReservedBySettling
  <2> QED
    BY <1>5, <2>1, <2>2, <2>3, <2>4, <2>5, <2>6, <2>7 DEF Serve
<1> QED
  BY <1>1, <1>2, <1>3, <1>5 DEF Next

\* A handler on the durable path writes into its own savepoint; at most one request
\* has one.
LEMMA OneSavepoint ==
    ASSUME LeakInv
    PROVE  /\ \A q, r \in Requests : /\ durable /\ req[q].tracked /\ req[r].tracked
                                     /\ req[q].pc \in {"run", "ran"} /\ req[r].pc \in {"run", "ran"}
                                     => q = r
           /\ \A r \in Requests : \A u : HandleDurable(r, u) =>
                 txn' = txn \cup {r} /\ applied' = applied
<1>0. ChainLockHeld /\ None \notin Requests
  BY IdempotencyAssumption DEF LeakInv, NothingLeaks
<1>1. ASSUME NEW r \in Requests, NEW u, HandleDurable(r, u)
      PROVE  txn' = txn \cup {r} /\ applied' = applied
  <2>1. chainLock = r /\ req[r].pc = "run" /\ durable
    BY <1>0, <1>1 DEF HandleDurable, ChainLockHeld
  <2>2. SavepointOpen
    BY <1>0, <2>1 DEF SavepointOpen
  <2> QED
    BY <1>1, <2>1, <2>2 DEF HandleDurable, Write
<1> QED
  BY <1>0, <1>1 DEF ChainLockHeld

\* Every write in the savepoint is of its request or of one that is answered.
LEMMA InSavepointStep ==
    ASSUME LeakInv, InSavepoint, [Next]_vars
    PROVE  InSavepoint'
<1>0. IdempotencyTypeOK /\ Stages /\ txn \subseteq Requests
  BY DEF LeakInv, IdempotencyTypeOK
<1>1. CASE Tick \/ UNCHANGED vars
  <2>1. UNCHANGED <<txn, req>>
    BY <1>1 DEF Tick, vars
  <2> QED
    BY <2>1 DEF InSavepoint
<1>2. CASE Crash
  <2>1. txn' = {} /\ \A q \in Requests : req'[q].pc # "ran"
    BY <1>0, <1>2, CrashShape DEF Crash, Active
  <2> QED
    BY <2>1 DEF InSavepoint
\* A step of a request outside the savepoint.
<1>3. ASSUME NEW r \in Requests, Untouched(r), txn' = txn, req[r].pc \notin {"ran", "answered"},
             req'[r].pc # "ran"
      PROVE  InSavepoint'
  BY <1>0, <1>3 DEF InSavepoint, Untouched
<1>4. ASSUME NEW r \in Requests, Commit(r) \/ Unwind(r) PROVE InSavepoint'
  <2>1. /\ txn' = {} /\ req[r].pc = "ran" /\ Untouched(r) /\ req'[r].pc = "settle"
    BY <1>4, EndShapes DEF Commit, Unwind, Moves
  <2>2. \A q \in Requests : req[q].pc = "ran" => q = r
    BY <1>0, <2>1, OneSavepoint DEF Stages
  <2> QED
    BY <2>1, <2>2 DEF InSavepoint, Untouched
<1>5. ASSUME NEW r \in Requests, NEW u \in {"ok", "large", "failed"}, HandleUntracked(r, u)
      PROVE  InSavepoint'
  <2>1. /\ req[r].pc = "run" /\ ~ req[r].tracked /\ txn' \in {txn, txn \cup {r}}
    BY <1>5 DEF HandleUntracked, Write
  <2>2. Untouched(r) /\ req'[r].pc = "answered" /\ ~ req'[r].tracked
    BY <1>0, <1>5, <2>1, Shapes DEF Moves, Tells
  <2> QED
    BY <1>0, <2>1, <2>2 DEF InSavepoint, Untouched
<1>6. ASSUME NEW r \in Requests, NEW u \in {"ok", "large", "failed"}, HandleInMemory(r, u)
      PROVE  InSavepoint'
  <2>1. req[r].pc = "run" /\ txn' = txn
    BY <1>6 DEF HandleInMemory, Write
  <2>2. Untouched(r) /\ req'[r].pc = "settle"
    BY <1>0, <1>6, Shapes DEF Moves
  <2> QED
    BY <1>3, <2>1, <2>2
<1>7. ASSUME NEW r \in Requests, NEW u \in {"ok", "large", "failed"}, HandleDurable(r, u)
      PROVE  InSavepoint'
  <2>1. req[r].pc = "run" /\ txn' = txn \cup {r}
    BY <1>7, OneSavepoint DEF HandleDurable
  <2>2. Untouched(r) /\ req'[r].pc = "ran"
    BY <1>0, <1>7, Shapes DEF Moves
  <2> QED
    BY <1>0, <2>1, <2>2 DEF InSavepoint, Untouched
<1>8. ASSUME NEW r \in Requests, NEW k \in Keys, NEW p \in Payloads, Arrive(r, k, p)
      PROVE  InSavepoint'
  <2>1. req[r].pc = "new" /\ txn' = txn
    BY <1>8 DEF Arrive
  <2> QED
    BY <1>0, <1>3, <1>8, <2>1, ArriveShape
<1>9. ASSUME NEW r \in Requests, FindsEntry(r) \/ PassThrough(r) \/ OpenSavepoint(r)
                                 \/ TakeChainLock(r) \/ Settle(r)
      PROVE  InSavepoint'
  <2>1. txn' = txn /\ req[r].pc \notin {"ran", "answered"}
    BY <1>9 DEF FindsEntry, PassThrough, OpenSavepoint, TakeChainLock, Settle
  <2>2. Untouched(r) /\ req'[r].pc # "ran"
    BY <1>0, <1>9, Shapes DEF Moves
  <2> QED
    BY <1>3, <2>1, <2>2
<1>10. ASSUME NEW r \in Requests, ReserveFree(r) \/ ReserveEvicting(r) PROVE InSavepoint'
  <2>1. txn' = txn /\ req[r].pc = "arrived" /\ GoOn(r)
    BY <1>10 DEF ReserveFree, ReserveEvicting
  <2>2. Untouched(r) /\ req'[r].pc # "ran"
    BY <1>0, <2>1, Shapes DEF Moves
  <2> QED
    BY <1>3, <2>1, <2>2
<1>11. ASSUME NEW r \in Requests, StoreFails(r) \/ FindsRow(r) PROVE InSavepoint'
  <2>1. txn' = txn /\ req[r].pc = "read"
    BY <1>11 DEF StoreFails, FindsRow
  <2>2. Untouched(r) /\ req'[r].pc # "ran"
    BY <1>11, EndShapes DEF Moves
  <2> QED
    BY <1>3, <2>1, <2>2
<1> HIDE DEF Stages
<1>12. ASSUME NEW r \in Requests, Serve(r) \/ StoreFails(r) PROVE InSavepoint'
  BY <1>4, <1>5, <1>6, <1>7, <1>9, <1>10, <1>11, <1>12 DEF Serve
<1> QED
  BY <1>1, <1>2, <1>8, <1>12 DEF Next

\* Writes become permanent at the end of a request's own handler, in memory, or at
\* its own commit; with them may come those of requests without a reservation.
LEMMA AppliedStep ==
    ASSUME LeakInv, Stamped, InSavepoint, Outcomes, [Next]_vars
    PROVE  /\ \A q \in Requests : req'[q].tracked /\ ~ req[q].tracked =>
                 applied[q] = 0 /\ applied'[q] = 0
           /\ \/ \A q \in Requests : req'[q].tracked => applied'[q] = applied[q]
              \/ \E q \in Requests :
                    /\ Commit(q) \/ \E u \in {"ok", "large", "failed"} : HandleInMemory(q, u)
                    /\ req[q].tracked /\ applied[q] = 0 /\ applied'[q] = clock
                    /\ \A r \in Requests \ {q} : req'[r].tracked => applied'[r] = applied[r]
<1> DEFINE Gains(q) ==
             /\ Commit(q) \/ \E u \in {"ok", "large", "failed"} : HandleInMemory(q, u)
             /\ req[q].tracked /\ applied[q] = 0 /\ applied'[q] = clock
             /\ \A r \in Requests \ {q} : req'[r].tracked => applied'[r] = applied[r]
           Same == \A q \in Requests : req'[q].tracked => applied'[q] = applied[q]
<1>0. /\ IdempotencyTypeOK /\ Stages /\ txn \subseteq Requests /\ applied \in [Requests -> Nat]
  BY DEF LeakInv, IdempotencyTypeOK
<1>1. ASSUME NEW r \in Requests, Commit(r) PROVE Gains(r)
  <2>1. /\ req[r].pc = "ran" /\ req[r].tracked /\ r \in txn /\ applied[r] = 0
        /\ applied' = [q \in Requests |-> IF q \in txn THEN clock ELSE applied[q]]
    BY <1>0, <1>1 DEF Commit, Stages, InSavepoint, Outcomes
  <2>2. Untouched(r)
    BY <1>1, EndShapes DEF Moves
  <2>3. \A q \in txn : q = r \/ ~ req'[q].tracked
    BY <1>0, <2>1, <2>2, OneSavepoint DEF InSavepoint, Untouched, Stages
  <2> QED
    BY <1>0, <1>1, <2>1, <2>3
<1>2. ASSUME NEW r \in Requests, NEW u \in {"ok", "large", "failed"}, HandleInMemory(r, u)
      PROVE  Gains(r)
  <2>1. /\ req[r].pc = "run" /\ req[r].tracked /\ applied[r] = 0
        /\ applied' = [applied EXCEPT ![r] = clock]
    BY <1>0, <1>2 DEF HandleInMemory, Write, Outcomes
  <2> QED
    BY <1>0, <1>2, <2>1
<1>3. ASSUME NEW r \in Requests, NEW u \in {"ok", "large", "failed"}, HandleUntracked(r, u)
      PROVE  Same
  <2>1. ~ req[r].tracked /\ (applied' = applied \/ applied' = [applied EXCEPT ![r] = clock])
    BY <1>3 DEF HandleUntracked, Write
  <2>2. ~ req'[r].tracked
    BY <1>0, <1>3, <2>1, Shapes DEF Tells
  <2> QED
    BY <1>0, <2>1, <2>2
<1>4. ASSUME NEW r \in Requests, NEW u \in {"ok", "large", "failed"}, HandleDurable(r, u)
      PROVE  Same
  BY <1>4, OneSavepoint
<1> HIDE DEF Same, Gains
<1>6. ASSUME NEW r \in Requests, Serve(r) \/ StoreFails(r)
      PROVE  Same \/ \E q \in Requests : Gains(q)
  <2>1. CASE UNCHANGED applied
    BY <2>1 DEF Same
  <2> QED
    BY <1>1, <1>2, <1>3, <1>4, <1>6, <2>1
    DEF Serve, FindsEntry, ReserveFree, ReserveEvicting, PassThrough, TakeChainLock, FindsRow,
        OpenSavepoint, Unwind, Unwound, Settle, StoreFails
<1>7. Same \/ \E q \in Requests : Gains(q)
  <2>1. CASE UNCHANGED applied
    BY <2>1 DEF Same
  <2> QED
    BY <1>6, <2>1 DEF Next, vars, Tick, Crash, Arrive
<1>8. ASSUME NEW q \in Requests, req'[q].tracked, ~ req[q].tracked
      PROVE  applied[q] = 0 /\ applied'[q] = 0
  <2>1. ReserveFree(q) \/ ReserveEvicting(q)
    BY <1>8, Persist DEF Stamped
  <2>2. req[q].pc = "arrived" /\ UNCHANGED applied
    BY <2>1 DEF ReserveFree, ReserveEvicting
  <2> QED
    BY <2>2 DEF Outcomes
<1> QED
  BY <1>7, <1>8 DEF Same, Gains

\* What a request is told of its writes is what became of them.
LEMMA OutcomesStep ==
    ASSUME LeakInv, Stamped, InSavepoint, Outcomes, [Next]_vars
    PROVE  Outcomes'
<1>0. /\ IdempotencyTypeOK /\ Stages /\ txn \subseteq Requests /\ applied \in [Requests -> Nat]
      /\ durable' = durable /\ clock \in Nat /\ clock > 0
  BY HistoryTyped DEF LeakInv, IdempotencyTypeOK, Stamped
<1>1. CASE Tick \/ UNCHANGED vars
  <2>1. UNCHANGED <<applied, req>>
    BY <1>1 DEF Tick, vars
  <2> QED
    BY <1>0, <2>1 DEF Outcomes
<1>2. CASE Crash
  <2>1. UNCHANGED applied
    BY <1>2 DEF Crash
  <2> QED
    BY <1>0, <1>2, <2>1, CrashShape DEF Outcomes, Active
<1>3. ASSUME NEW r \in Requests, NEW k \in Keys, NEW p \in Payloads, Arrive(r, k, p)
      PROVE  Outcomes'
  <2>1. UNCHANGED applied /\ req[r].pc = "new"
    BY <1>3 DEF Arrive
  <2> QED
    BY <1>0, <1>3, <2>1, ArriveShape DEF Outcomes, Untouched
\* A step of one request that writes nothing.
<1>4. ASSUME NEW r \in Requests, UNCHANGED applied, Untouched(r),
             \/ req'[r].pc \in {"wait", "read", "run", "ran"} /\ applied[r] = 0
             \/ /\ req'[r].pc \in {"settle", "answered"}
                /\ durable /\ req'[r].tracked =>
                      /\ req'[r].result = "ok" => applied[r] # 0
                      /\ req'[r].result \in {"failed", "unavailable", "mismatch"} => applied[r] = 0
      PROVE  Outcomes'
  BY <1>0, <1>4 DEF Outcomes, Untouched
<1>5. ASSUME NEW r \in Requests, ReserveFree(r) \/ ReserveEvicting(r) PROVE Outcomes'
  <2>1. UNCHANGED applied /\ req[r].pc = "arrived" /\ GoOn(r)
    BY <1>5 DEF ReserveFree, ReserveEvicting
  <2>2. Untouched(r) /\ req'[r].pc \in {"wait", "run"}
    BY <1>0, <2>1, Shapes DEF Moves
  <2> QED
    BY <1>4, <2>1, <2>2 DEF Outcomes
<1>6. ASSUME NEW r \in Requests, PassThrough(r) \/ OpenSavepoint(r) \/ TakeChainLock(r)
      PROVE  Outcomes'
  <2>1. UNCHANGED applied /\ req[r].pc \in {"arrived", "wait", "read"}
    BY <1>6 DEF PassThrough, OpenSavepoint, TakeChainLock
  <2>2. Untouched(r) /\ req'[r].pc \in {"read", "run"}
    BY <1>0, <1>6, Shapes DEF Moves
  <2> QED
    BY <1>4, <2>1, <2>2 DEF Outcomes
<1>7. ASSUME NEW r \in Requests, FindsEntry(r) PROVE Outcomes'
  <2>1. UNCHANGED applied /\ req[r].pc = "arrived" /\ ~ req[r].tracked
    BY <1>0, <1>7 DEF FindsEntry, Stages
  <2>2. Untouched(r) /\ req'[r].pc = "answered" /\ req'[r].tracked = req[r].tracked
    BY <1>0, <1>7, Shapes DEF Moves, Tells, Gives
  <2> QED
    BY <1>4, <2>1, <2>2
<1>8. ASSUME NEW r \in Requests, StoreFails(r) \/ FindsRow(r) PROVE Outcomes'
  <2>1. UNCHANGED applied /\ req[r].pc = "read"
    BY <1>8 DEF StoreFails, FindsRow
  <2>2. /\ Untouched(r) /\ req'[r].pc = "settle"
        /\ req'[r].result \in {"unavailable", "mismatch", "replayed"}
    BY <1>8, EndShapes DEF Moves, Settles, Gives, Tells
  <2> QED
    BY <1>4, <2>1, <2>2 DEF Outcomes
<1>9. ASSUME NEW r \in Requests, Unwind(r) PROVE Outcomes'
  <2>1. UNCHANGED applied /\ req[r].pc = "ran"
    BY <1>9 DEF Unwind, Unwound
  <2>2. /\ Untouched(r) /\ req'[r].pc = "settle" /\ req'[r].result \in {"unavailable", "failed"}
    BY <1>9, EndShapes DEF Moves, Settles, Gives, Tells
  <2> QED
    BY <1>4, <2>1, <2>2 DEF Outcomes
<1>10. ASSUME NEW r \in Requests, Commit(r) PROVE Outcomes'
  <2>1. /\ applied' = [q \in Requests |-> IF q \in txn THEN clock ELSE applied[q]]
        /\ r \in txn
    BY <1>10 DEF Commit, InSavepoint
  <2>2. /\ Untouched(r) /\ req'[r].pc = "settle" /\ req'[r].result = "ok"
    BY <1>10, EndShapes DEF Moves, Settles, Gives, Tells
  <2>3. ASSUME NEW q \in Requests \ {r}, q \in txn
        PROVE  req[q].pc = "answered" /\ ~ req[q].tracked
    <3>1. req[q].pc # "ran"
      BY <1>0, <1>10, <2>3, OneSavepoint DEF Commit, Stages
    <3> QED
      BY <2>3, <3>1 DEF InSavepoint
  <2>4. applied'[r] = clock
    BY <2>1
  <2>5. \A q \in Requests \ {r} : req'[q] = req[q] /\ (applied'[q] = applied[q] \/ q \in txn)
    BY <2>1, <2>2 DEF Untouched
  <2> QED
    BY <1>0, <2>2, <2>3, <2>4, <2>5 DEF Outcomes
<1>11. ASSUME NEW r \in Requests, Settle(r) PROVE Outcomes'
  <2>1. UNCHANGED applied /\ req[r].pc = "settle"
    BY <1>11 DEF Settle
  <2>2. Untouched(r) /\ req'[r].pc = "answered" /\ req'[r].tracked = req[r].tracked
        /\ req'[r].result = req[r].result
    BY <1>0, <1>11, Shapes DEF Moves, Keeps
  <2> QED
    BY <1>4, <2>1, <2>2 DEF Outcomes
<1>12. ASSUME NEW r \in Requests, NEW u \in {"ok", "large", "failed"},
              HandleUntracked(r, u) \/ HandleInMemory(r, u)
       PROVE  Outcomes'
  <2>1. /\ \A q \in Requests \ {r} : applied'[q] = applied[q]
        /\ ~ durable \/ ~ req[r].tracked
    BY <1>0, <1>12 DEF HandleUntracked, HandleInMemory, Write
  <2>2. /\ Untouched(r) /\ req'[r].pc \in {"answered", "settle"}
        /\ req'[r].tracked = req[r].tracked
    BY <1>0, <1>12, Shapes DEF Moves, Settles, Gives, Tells
  <2> QED
    BY <1>0, <2>1, <2>2 DEF Outcomes, Untouched
<1>13. ASSUME NEW r \in Requests, NEW u \in {"ok", "large", "failed"}, HandleDurable(r, u)
       PROVE  Outcomes'
  <2>1. UNCHANGED applied /\ req[r].pc = "run"
    BY <1>13, OneSavepoint DEF HandleDurable
  <2>2. Untouched(r) /\ req'[r].pc = "ran"
    BY <1>0, <1>13, Shapes DEF Moves
  <2> QED
    BY <1>4, <2>1, <2>2 DEF Outcomes
<1> HIDE DEF Outcomes
<1>14. ASSUME NEW r \in Requests, Serve(r) \/ StoreFails(r) PROVE Outcomes'
  BY <1>5, <1>6, <1>7, <1>8, <1>9, <1>10, <1>11, <1>12, <1>13, <1>14 DEF Serve
<1> QED
  BY <1>1, <1>2, <1>3, <1>14 DEF Next

\* A handler starts after its key was looked up, in the table or in the rows.
LEMMA RunStep ==
    ASSUME LeakInv, [Next]_vars, NEW r \in Requests,
           req'[r].tracked, req'[r].pc \in {"run", "ran"}
    PROVE  \/ req[r].tracked /\ req[r].pc \in {"run", "ran"}
           \/ OpenSavepoint(r) /\ durable
           \/ ~ durable /\ (ReserveFree(r) \/ ReserveEvicting(r))
<1> DEFINE Goal == \/ req[r].tracked /\ req[r].pc \in {"run", "ran"}
                   \/ OpenSavepoint(r) /\ durable
                   \/ ~ durable /\ (ReserveFree(r) \/ ReserveEvicting(r))
<1>0. IdempotencyTypeOK /\ Stages
  BY DEF LeakInv
<1>1. ASSUME req'[r] = req[r] PROVE Goal
  BY <1>1
<1>2. ASSUME Crash PROVE Goal
  BY <1>0, <1>1, <1>2, CrashShape
<1>3. ASSUME NEW q \in Requests, NEW k \in Keys, NEW p \in Payloads, Arrive(q, k, p) PROVE Goal
  BY <1>0, <1>1, <1>3, ArriveShape DEF Untouched
<1>4. ASSUME NEW q \in Requests, Untouched(q), q # r PROVE Goal
  BY <1>1, <1>4 DEF Untouched
<1>5. ASSUME NEW q \in Requests, ReserveFree(q) \/ ReserveEvicting(q) PROVE Goal
  <2>1. GoOn(q)
    BY <1>5 DEF ReserveFree, ReserveEvicting
  <2>2. Untouched(q) /\ req'[q].pc = IF durable THEN "wait" ELSE "run"
    BY <1>0, <2>1, Shapes DEF Moves
  <2> QED
    BY <1>4, <1>5, <2>2
<1>6. ASSUME NEW q \in Requests, FindsEntry(q) \/ TakeChainLock(q) \/ Settle(q) PROVE Goal
  <2>1. Untouched(q) /\ req'[q].pc \in {"answered", "read"}
    BY <1>0, <1>6, Shapes DEF Moves
  <2> QED
    BY <1>4, <2>1
<1>7. ASSUME NEW q \in Requests, PassThrough(q) PROVE Goal
  <2>1. Untouched(q) /\ req'[q].tracked = req[q].tracked /\ ~ req[q].tracked
    BY <1>0, <1>7, Shapes DEF Moves, Keeps, Stages, PassThrough
  <2> QED
    BY <1>4, <2>1
<1>8. ASSUME NEW q \in Requests, OpenSavepoint(q) PROVE Goal
  <2>1. Untouched(q) /\ durable
    BY <1>0, <1>8, Shapes DEF Moves, Stages, OpenSavepoint
  <2> QED
    BY <1>4, <1>8, <2>1
<1>9. ASSUME NEW q \in Requests, NEW u \in {"ok", "large", "failed"},
             HandleUntracked(q, u) \/ HandleInMemory(q, u) \/ HandleDurable(q, u)
      PROVE  Goal
  <2>1. Untouched(q) /\ req'[q].tracked = req[q].tracked
    BY <1>0, <1>9, Shapes DEF Moves, Settles, Gives, Tells
  <2>2. req[q].pc = "run"
    BY <1>9 DEF HandleUntracked, HandleInMemory, HandleDurable
  <2> QED
    BY <1>4, <2>1, <2>2
<1>10. ASSUME NEW q \in Requests, StoreFails(q) \/ FindsRow(q) \/ Commit(q) \/ Unwind(q)
       PROVE  Goal
  <2>1. Untouched(q) /\ req'[q].pc = "settle"
    BY <1>10, EndShapes DEF Moves
  <2> QED
    BY <1>4, <2>1
<1> HIDE DEF Goal
<1>11. Goal
  BY <1>1, <1>2, <1>3, <1>5, <1>6, <1>7, <1>8, <1>9, <1>10 DEF Next, Serve, Tick, vars
<1> QED
  BY <1>11 DEF Goal

\* A row goes only when another answer of its key replaces it, or a TTL has passed.
LEMMA RowStep ==
    ASSUME LeakInv, Stamped, [Next]_vars, NEW k \in Keys, rows[k].answer # None
    PROVE  \/ rows'[k] = rows[k]
           \/ clock >= rows[k].at + TTL
           \/ \E r \in Requests : Commit(r) /\ req[r].key = k
<1>1. ASSUME NEW r \in Requests, Commit(r), req[r].key # k
      PROVE  rows'[k] = rows[k] \/ clock >= rows[k].at + TTL
  <2>1. rows[k].at + TTL <= req[r].now \/ rows'[k] = rows[k]
    BY <1>1 DEF Commit
  <2>2. /\ req[r].now \in Nat /\ req[r].now <= clock /\ clock \in Nat
        /\ rows[k].at \in Nat /\ TTL \in Nat
    <3>1. rows[k] \in ARow
      BY DEF LeakInv, IdempotencyTypeOK
    <3> QED
      BY <3>1, EntriesTyped, IdempotencyAssumption DEF LeakInv, IdempotencyTypeOK, Stamped, ARow
  <2> QED
    BY <2>1, <2>2
<1>2. UNCHANGED rows \/ \E r \in Requests : Commit(r)
  BY Frames DEF LeakInv, IdempotencyTypeOK
<1> QED
  BY <1>1, <1>2

\* An entry goes only when it has expired, or its key is marked as forgotten.
LEMMA EntryStep ==
    ASSUME LeakInv, Stamped, Reserved, [Next]_vars, NEW s \in Occupied
    PROVE  \/ table'[s].state # "empty" /\ table'[s].key = table[s].key /\ table'[s].at = table[s].at
           \/ clock >= table[s].at + TTL
           \/ table[s].key \in forgotten'
<1> DEFINE Goal == \/ /\ table'[s].state # "empty" /\ table'[s].key = table[s].key
                      /\ table'[s].at = table[s].at
                   \/ clock >= table[s].at + TTL
                   \/ table[s].key \in forgotten'
<1>0. /\ IdempotencyTypeOK /\ CountHonest /\ s \in Slots /\ table[s].state # "empty"
      /\ table[s].key \in Keys /\ clock \in Nat /\ TTL \in Nat /\ table[s].at \in Nat
  <2>1. s \in Slots /\ table[s] \in AnEntry
    BY DEF LeakInv, IdempotencyTypeOK, Occupied
  <2> QED
    BY <2>1, IdempotencyAssumption
    DEF LeakInv, NothingLeaks, IdempotencyTypeOK, Occupied, Keyed, AnEntry
<1>1. ASSUME table'[s] = table[s] PROVE Goal
  BY <1>0, <1>1
<1>2. ASSUME Crash PROVE Goal
  BY <1>0, <1>2 DEF Crash
\* A sweep judges by the stamp of a request, which is not of the future.
<1>3. ASSUME NEW r \in Requests, s \in ExpiredAt(req[r].now) PROVE Goal
  <2>1. req[r].now \in Nat /\ req[r].now <= clock
    BY <1>0, EntriesTyped DEF Stamped
  <2> QED
    BY <1>0, <1>3, <2>1 DEF ExpiredAt, Old
<1>4. ASSUME NEW r \in Requests, s \notin ExpiredAt(req[r].now)
      PROVE  Swept(req[r].now)[s] = table[s]
  BY <1>0, <1>4 DEF Swept
<1>5. ASSUME NEW r \in Requests, ReserveFree(r) \/ ReserveEvicting(r) PROVE Goal
  <2>1. PICK t \in Slots :
                 /\ table' = [Swept(req[r].now) EXCEPT ![t] = Reservation(r)]
                 /\ \/ Swept(req[r].now)[t].state = "empty"
                    \/ /\ Swept(req[r].now)[t] = table[t] /\ table[t].state = "completed"
                       /\ forgotten' = forgotten \cup {table[t].key}
    BY <1>0, <1>5, ReservedCount
  <2>2. t # s => table'[s] = Swept(req[r].now)[s]
    BY <1>0, <2>1 DEF Swept
  <2> HIDE DEF Goal
  <2>3. CASE s \in ExpiredAt(req[r].now)
    BY <1>3, <2>3
  <2>4. CASE s \notin ExpiredAt(req[r].now) /\ t # s
    BY <1>1, <1>4, <2>2, <2>4
  <2>5. CASE s \notin ExpiredAt(req[r].now) /\ t = s
    <3>1. table[s].key \in forgotten'
      BY <1>0, <1>4, <2>1, <2>5
    <3> QED
      BY <3>1 DEF Goal
  <2> QED
    BY <2>3, <2>4, <2>5
<1>6. ASSUME NEW r \in Requests, PassThrough(r) PROVE Goal
  <2>1. table' = Swept(req[r].now)
    BY <1>6 DEF PassThrough
  <2> HIDE DEF Goal
  <2> QED
    BY <1>1, <1>3, <1>4, <2>1
<1>7. ASSUME NEW r \in Requests, Settle(r) PROVE Goal
  <2>1. PICK t \in Occupied :
              /\ table[t] = Reservation(r) /\ \A u \in Slots : u # t => table'[u] = table[u]
              /\ \/ /\ table'[t].state = "completed"
                    /\ table'[t].at = req[r].now /\ table'[t].key = req[r].key
                 \/ forgotten' = forgotten \cup {req[r].key}
    BY <1>7, SettlesItsOwn
  <2>2. table[t].key = req[r].key /\ table[t].at = req[r].now
    BY <2>1 DEF Reservation
  <2>3. CASE t # s
    BY <1>0, <1>1, <2>1, <2>3
  <2>4. CASE t = s
    BY <2>1, <2>2, <2>4
  <2> QED
    BY <2>3, <2>4
<1> HIDE DEF Goal
<1>8. Goal
  BY <1>1, <1>2, <1>5, <1>6, <1>7, Frames DEF LeakInv, IdempotencyTypeOK
<1> QED
  BY <1>8 DEF Goal

\* The layer remembers for a TTL what it let happen, or has marked it as forgotten.
LEMMA RememberedStep ==
    ASSUME LeakInv, Stamped, Reserved, InSavepoint, Outcomes, Remembered, Cleared, [Next]_vars
    PROVE  Remembered'
<1>0. /\ IdempotencyTypeOK /\ Stages /\ clock \in Nat /\ TTL \in Nat
      /\ clock' \in Nat /\ clock <= clock' /\ durable' = durable
      /\ forgotten \subseteq forgotten' /\ durable \in BOOLEAN
  BY Persist, StaysForgotten, IdempotencyAssumption DEF LeakInv, IdempotencyTypeOK, Stamped
<1> DEFINE Known(q) ==
             \/ clock >= req[q].now + TTL
             \/ durable /\ rows[req[q].key].answer # None /\ rows[req[q].key].at >= req[q].now
             \/ ~ durable /\ req[q].key \in forgotten
             \/ /\ ~ durable
                /\ \E s \in Occupied : table[s].key = req[q].key /\ table[s].at >= req[q].now
<1> SUFFICES ASSUME NEW q \in Requests, req'[q].tracked, applied'[q] # 0
             PROVE  Known(q)'
  BY DEF Remembered
<1>1. /\ req[q].pc # "new" /\ req[q].key \in Keys /\ req[q].now \in Nat
      /\ req'[q].key = req[q].key /\ req'[q].now = req[q].now /\ req[q].tracked
  <2>1. req[q].tracked
    BY AppliedStep
  <2>2. req[q].pc # "new"
    BY <1>0, <2>1 DEF Stages
  <2> QED
    BY <1>0, <2>1, <2>2, Persist, EntriesTyped DEF Stages, SameQuestion, Stamped
<1>2. CASE clock >= req[q].now + TTL
  BY <1>0, <1>1, <1>2
<1>3. CASE durable /\ rows[req[q].key].answer # None /\ rows[req[q].key].at >= req[q].now
           /\ applied[q] # 0
  <2>1. rows[req[q].key].at \in Nat
    <3>1. rows[req[q].key] \in ARow
      BY <1>0, <1>1 DEF IdempotencyTypeOK
    <3> QED
      BY <3>1 DEF ARow
  <2>2. CASE rows'[req[q].key] = rows[req[q].key]
    BY <1>0, <1>1, <1>3, <2>2
  <2>3. CASE clock >= rows[req[q].key].at + TTL
    BY <1>0, <1>1, <1>2, <1>3, <2>1, <2>3
  <2>4. ASSUME NEW r \in Requests, Commit(r), req[r].key = req[q].key PROVE Known(q)'
    <3>1. req[r].pc = "ran" /\ req[r].tracked /\ q # r
      BY <1>0, <1>3, <2>4 DEF Commit, Stages, Outcomes
    <3>2. clock >= req[q].now + TTL
      BY <1>1, <1>3, <2>4, <3>1 DEF Cleared
    <3> QED
      BY <1>2, <3>2
  <2> QED
    BY <1>1, <1>3, <2>2, <2>3, <2>4, RowStep
<1>4. CASE ~ durable /\ req[q].key \in forgotten
  BY <1>0, <1>1, <1>4
<1>5. ASSUME ~ durable, NEW s \in Occupied, table[s].key = req[q].key, table[s].at >= req[q].now
      PROVE  Known(q)'
  <2>1. table[s].at \in Nat /\ s \in Slots
    <3>1. s \in Slots /\ table[s] \in AnEntry
      BY <1>0 DEF IdempotencyTypeOK, Occupied
    <3> QED
      BY <3>1 DEF AnEntry
  <2>2. CASE /\ table'[s].state # "empty" /\ table'[s].key = table[s].key
             /\ table'[s].at = table[s].at
    <3>1. s \in Occupied'
      BY <2>1, <2>2 DEF Occupied
    <3> QED
      BY <1>0, <1>1, <1>5, <2>2, <3>1
  <2>3. CASE clock >= table[s].at + TTL
    BY <1>0, <1>1, <1>2, <1>5, <2>1, <2>3
  <2>4. CASE table[s].key \in forgotten'
    BY <1>0, <1>1, <1>5, <2>4
  <2> QED
    BY <2>2, <2>3, <2>4, EntryStep
\* Its own writes have just become permanent: with its row, or under its entry.
<1>6. ASSUME Commit(q) PROVE Known(q)'
  <2>1. durable /\ rows'[req[q].key] = [payload |-> req[q].payload, answer |-> q, at |-> req[q].now]
    BY <1>0, <1>1, <1>6 DEF Commit, Stages
  <2>2. q # None
    BY IdempotencyAssumption
  <2> QED
    BY <1>0, <1>1, <2>1, <2>2
<1>7. ASSUME NEW u \in {"ok", "large", "failed"}, HandleInMemory(q, u) PROVE Known(q)'
  <2>1. ~ durable /\ Holds(q) /\ table' = table /\ req[q].now <= clock
    BY <1>7 DEF HandleInMemory, Holds, Stamped
  <2>2. PICK s \in Slots : table[s] = Reservation(q) /\ s \in Occupied
    BY <1>0, <1>1, <2>1, HolderLives
  <2>3. table[s].key = req[q].key /\ table[s].at = req[q].now
    BY <2>2 DEF Reservation
  <2> QED
    BY <1>0, <1>1, <1>5, <2>1, <2>2, <2>3
<1> HIDE DEF Known
<1>8. applied[q] # 0 \/ Commit(q) \/ \E u \in {"ok", "large", "failed"} : HandleInMemory(q, u)
  BY AppliedStep
<1>9. applied[q] # 0 => Known(q)
  BY <1>1 DEF Remembered, Known
<1> QED
  BY <1>2, <1>3, <1>4, <1>5, <1>6, <1>7, <1>8, <1>9 DEF Known

\* Only one of two requests under one key gets to have its writes made permanent
\* while the other's handler runs: itself.
LEMMA ClearedStep ==
    ASSUME LeakInv, Stamped, Reserved, InSavepoint, Outcomes, Remembered, Cleared, [Next]_vars
    PROVE  Cleared'
<1>0. /\ IdempotencyTypeOK /\ Stages /\ clock \in Nat /\ TTL \in Nat
      /\ clock' \in Nat /\ clock <= clock' /\ durable' = durable
      /\ forgotten \subseteq forgotten' /\ durable \in BOOLEAN
  BY Persist, StaysForgotten, IdempotencyAssumption DEF LeakInv, IdempotencyTypeOK, Stamped
<1> SUFFICES ASSUME NEW q \in Requests, NEW r \in Requests, q # r, req'[q].key = req'[r].key,
                    req'[q].tracked, req'[r].tracked, req'[r].pc \in {"run", "ran"},
                    applied'[q] # 0, durable \/ req'[q].key \notin forgotten'
             PROVE  clock' >= req'[q].now + TTL
  BY <1>0 DEF Cleared
<1>1. /\ req[q].pc # "new" /\ req[q].key \in Keys /\ req[q].now \in Nat
      /\ req'[q].key = req[q].key /\ req'[q].now = req[q].now /\ req[q].tracked
  <2>1. req[q].tracked
    BY AppliedStep
  <2>2. req[q].pc # "new"
    BY <1>0, <2>1 DEF Stages
  <2> QED
    BY <1>0, <2>1, <2>2, Persist, EntriesTyped DEF Stages, SameQuestion, Stamped
<1>2. /\ req[r].key = req[q].key /\ req[r].now \in Nat /\ req[r].now <= clock
      /\ req[r].pc \in {"run", "ran"} \/ req[r].pc \in {"read", "arrived"}
  <2>1. req[r].pc # "new"
    BY <1>0, RunStep DEF Stages, OpenSavepoint, ReserveFree, ReserveEvicting
  <2>2. req[r].pc \in {"run", "ran"} \/ req[r].pc \in {"read", "arrived"}
    BY RunStep DEF OpenSavepoint, ReserveFree, ReserveEvicting
  <2> QED
    BY <1>0, <1>1, <2>1, <2>2, Persist, EntriesTyped DEF SameQuestion, Stamped
<1>3. SUFFICES clock >= req[q].now + TTL
  BY <1>0, <1>1
<1>4. durable \/ req[q].key \notin forgotten
  BY <1>0, <1>1
\* Both in their handlers: neither can end before the other.
<1>5. ASSUME req[r].tracked, req[r].pc \in {"run", "ran"}, applied[q] = 0 PROVE FALSE
  <2>1. CASE Commit(q)
    BY <1>0, <1>1, <1>5, <2>1, OneSavepoint DEF Commit, Stages
  <2>2. ASSUME NEW u \in {"ok", "large", "failed"}, HandleInMemory(q, u) PROVE FALSE
    <3>1. Holds(q) /\ Holds(r)
      BY <1>1, <1>5, <2>2 DEF HandleInMemory, Holds
    <3> HIDE DEF Holds
    <3> QED
      BY <1>1, <1>2, <3>1 DEF Reserved
  <2> QED
    BY <1>5, <2>1, <2>2, AppliedStep
<1>6. CASE req[r].tracked /\ req[r].pc \in {"run", "ran"}
  BY <1>1, <1>2, <1>4, <1>5, <1>6 DEF Cleared
\* r's handler starts now: what is remembered of q was found expired.
<1>7. ASSUME OpenSavepoint(r) \/ ReserveFree(r) \/ ReserveEvicting(r)
      PROVE  applied[q] # 0
  <2>1. UNCHANGED applied
    BY <1>7 DEF OpenSavepoint, ReserveFree, ReserveEvicting
  <2> QED
    BY <2>1
<1>8. CASE OpenSavepoint(r) /\ durable
  <2>1. ~ LiveRow(r)
    BY <1>8 DEF OpenSavepoint
  <2>2. \/ clock >= req[q].now + TTL
        \/ rows[req[q].key].answer # None /\ rows[req[q].key].at >= req[q].now
    BY <1>1, <1>7, <1>8 DEF Remembered
  <2>3. rows[req[q].key].at \in Nat
    <3>1. rows[req[q].key] \in ARow
      BY <1>0, <1>1 DEF IdempotencyTypeOK
    <3> QED
      BY <3>1 DEF ARow
  <2> QED
    BY <1>0, <1>1, <1>2, <2>1, <2>2, <2>3 DEF LiveRow, Old
<1>9. CASE ~ durable /\ (ReserveFree(r) \/ ReserveEvicting(r))
  <2>1. Live(req[r].key, req[r].now) = {}
    BY <1>9 DEF ReserveFree, ReserveEvicting
  <2>2. \/ clock >= req[q].now + TTL
        \/ \E s \in Occupied : table[s].key = req[q].key /\ table[s].at >= req[q].now
    BY <1>1, <1>4, <1>7, <1>9 DEF Remembered
  <2>3. ASSUME NEW s \in Occupied, table[s].key = req[q].key, table[s].at >= req[q].now
        PROVE  clock >= req[q].now + TTL
    <3>1. table[s].at \in Nat
      <4>1. table[s] \in AnEntry
        BY <1>0 DEF IdempotencyTypeOK, Occupied
      <4> QED
        BY <4>1 DEF AnEntry
    <3>2. Old(table[s].at, req[r].now)
      BY <1>2, <2>1, <2>3 DEF Live, ExpiredAt
    <3> QED
      BY <1>0, <1>1, <1>2, <2>3, <3>1, <3>2 DEF Old
  <2> QED
    BY <2>2, <2>3
<1> QED
  BY <1>6, <1>8, <1>9, RunStep

\* Of two orders under one key the later comes a TTL after the stamp of the other.
LEMMA OncePerTTLStep ==
    ASSUME LeakInv, Stamped, Reserved, InSavepoint, Outcomes, Cleared, OncePerTTL, [Next]_vars
    PROVE  OncePerTTL'
<1>0. /\ IdempotencyTypeOK /\ Stages /\ durable' = durable /\ forgotten \subseteq forgotten'
  BY Persist, StaysForgotten DEF LeakInv, Stamped
<1>1. ASSUME NEW q \in Requests, req'[q].tracked, applied'[q] # 0
      PROVE  /\ req'[q].key = req[q].key /\ req'[q].now = req[q].now /\ req[q].tracked
             /\ \/ applied'[q] = applied[q]
                \/ /\ applied[q] = 0 /\ applied'[q] = clock /\ req[q].pc \in {"run", "ran"}
                   /\ \A r \in Requests \ {q} : req'[r].tracked => applied'[r] = applied[r]
  <2>1. req[q].tracked
    BY <1>1, AppliedStep
  <2>2. req[q].pc # "new"
    BY <1>0, <2>1 DEF Stages
  <2>3. \/ applied'[q] = applied[q]
        \/ /\ applied[q] = 0 /\ applied'[q] = clock
           /\ Commit(q) \/ \E u \in {"ok", "large", "failed"} : HandleInMemory(q, u)
           /\ \A r \in Requests \ {q} : req'[r].tracked => applied'[r] = applied[r]
    BY <1>1, AppliedStep
  <2> QED
    BY <2>1, <2>2, <2>3, Persist DEF SameQuestion, Stamped, Commit, HandleInMemory
<1> SUFFICES ASSUME NEW q \in Requests, NEW r \in Requests, q # r, req'[q].key = req'[r].key,
                    req'[q].tracked, req'[r].tracked, applied'[q] # 0, applied'[r] # 0,
                    durable \/ req'[q].key \notin forgotten'
             PROVE  applied'[r] >= req'[q].now + TTL \/ applied'[q] >= req'[r].now + TTL
  BY <1>0 DEF OncePerTTL
<1>2. durable \/ req[q].key \notin forgotten
  BY <1>0, <1>1
<1>3. CASE applied'[q] = applied[q] /\ applied'[r] = applied[r]
  BY <1>1, <1>2, <1>3 DEF OncePerTTL
<1>4. CASE applied'[q] # applied[q]
  BY <1>1, <1>2, <1>4 DEF Cleared
<1>5. CASE applied'[r] # applied[r]
  BY <1>1, <1>2, <1>5 DEF Cleared
<1> QED
  BY <1>3, <1>4, <1>5

\* Whatever is replayed is the answer of a request that asked the same.
LEMMA KeptStep ==
    ASSUME LeakInv, Stamped, Reserved, InSavepoint, Kept, [Next]_vars
    PROVE  Kept'
<1>0. /\ IdempotencyTypeOK /\ Stages /\ durable' = durable /\ clock > 0
      /\ None \notin Requests /\ durable \in BOOLEAN
  BY Persist, IdempotencyAssumption DEF LeakInv, IdempotencyTypeOK, Stamped
<1> DEFINE After(a, k, p) == /\ a \in Requests /\ req'[a].pc # "new"
                             /\ req'[a].key = k /\ req'[a].payload = p
                             /\ durable => applied'[a] # 0
<1>1. \A a, k, p : Vouched(a, k, p) => After(a, k, p)
  BY <1>0, Persist DEF Vouched, SameQuestion
<1>2. \A r \in Requests : req[r].pc # "new" => /\ req'[r].key = req[r].key
                                               /\ req'[r].payload = req[r].payload
                                               /\ req'[r].pc # "new"
  BY <1>0, Persist DEF SameQuestion
\* The request that ends its handler vouches for its own answer.
<1>3. ASSUME NEW r \in Requests, Commit(r) \/ HandleInMemory(r, "ok")
      PROVE  After(r, req[r].key, req[r].payload)
  <2>1. req[r].pc # "new"
    BY <1>3 DEF Commit, HandleInMemory
  <2>2. durable => applied'[r] # 0
    <3>1. CASE Commit(r)
      <4>1. r \in txn /\ applied' = [q \in Requests |-> IF q \in txn THEN clock ELSE applied[q]]
        BY <3>1 DEF Commit, InSavepoint
      <4> QED
        BY <1>0, <4>1
    <3>2. CASE HandleInMemory(r, "ok")
      BY <3>2 DEF HandleInMemory
    <3> QED
      BY <1>3, <3>1, <3>2
  <2> QED
    BY <1>2, <2>1, <2>2
<1>4. \A s \in Slots : table[s].state = "completed" =>
                           Vouched(table[s].answer, table[s].key, table[s].payload)
  BY DEF Kept
<1>5. \A k \in Keys : rows[k].answer # None =>
                           durable /\ Vouched(rows[k].answer, k, rows[k].payload)
  BY DEF Kept
<1>6. \A r \in Requests :
        /\ req[r].pc = "settle" /\ req[r].keep =>
               Vouched(req[r].answer, req[r].key, req[r].payload)
        /\ req[r].pc \in {"settle", "answered"} /\ req[r].result = "replayed" =>
               Vouched(req[r].answer, req[r].key, req[r].payload)
  BY DEF Kept
<1> HIDE DEF After
<1>7. \A k \in Keys : rows'[k].answer # None =>
                           durable' /\ After(rows'[k].answer, k, rows'[k].payload)
  <2> DEFINE Goal == \A k \in Keys : rows'[k].answer # None =>
                           durable' /\ After(rows'[k].answer, k, rows'[k].payload)
  <2>1. ASSUME NEW k \in Keys, rows'[k] = rows[k] \/ rows'[k] = NoRow, rows'[k].answer # None
        PROVE  durable' /\ After(rows'[k].answer, k, rows'[k].payload)
    <3>1. rows'[k] = rows[k]
      BY <2>1 DEF NoRow
    <3>2. durable /\ Vouched(rows[k].answer, k, rows[k].payload)
      BY <1>5, <2>1, <3>1
    <3> QED
      BY <1>0, <1>1, <3>1, <3>2
  <2>2. ASSUME NEW r \in Requests, Commit(r) PROVE Goal
    <3>1. /\ rows' = [k \in Keys |->
                  IF k = req[r].key
                  THEN [payload |-> req[r].payload, answer |-> r, at |-> req[r].now]
                  ELSE IF rows[k].at + TTL <= req[r].now
                       THEN NoRow ELSE rows[k]]
          /\ durable
      BY <1>0, <2>2 DEF Commit, Stages
    <3>2. After(r, req[r].key, req[r].payload)
      BY <1>3, <2>2
    <3>3. ASSUME NEW k \in Keys, rows'[k].answer # None
          PROVE  durable' /\ After(rows'[k].answer, k, rows'[k].payload)
      <4>1. CASE k = req[r].key
        <5>1. rows'[k].answer = r /\ rows'[k].payload = req[r].payload
          BY <3>1, <4>1
        <5> QED
          BY <1>0, <3>1, <3>2, <4>1, <5>1
      <4>2. CASE k # req[r].key
        <5>1. rows'[k] = rows[k] \/ rows'[k] = NoRow
          BY <3>1, <4>2
        <5> QED
          BY <2>1, <3>3, <5>1
      <4> QED
        BY <4>1, <4>2
    <3> QED
      BY <3>3
  <2>3. ASSUME UNCHANGED rows PROVE Goal
    BY <2>1, <2>3
  <2> HIDE DEF Goal
  <2>4. Goal
    BY <2>2, <2>3, Frames DEF LeakInv, IdempotencyTypeOK
  <2> QED
    BY <2>4 DEF Goal
<1>8. \A s \in Slots : table'[s].state = "completed" =>
                           After(table'[s].answer, table'[s].key, table'[s].payload)
  <2> DEFINE Goal == \A s \in Slots : table'[s].state = "completed" =>
                           After(table'[s].answer, table'[s].key, table'[s].payload)
  <2>1. ASSUME NEW s \in Slots, table'[s] = table[s] \/ table'[s] = EmptyEntry,
               table'[s].state = "completed"
        PROVE  After(table'[s].answer, table'[s].key, table'[s].payload)
    <3>1. table'[s] = table[s]
      BY <2>1 DEF EmptyEntry
    <3> QED
      BY <1>1, <1>4, <2>1, <3>1
  <2>2. ASSUME UNCHANGED table PROVE Goal
    BY <2>1, <2>2
  <2>3. ASSUME Crash PROVE Goal
    BY <2>1, <2>3 DEF Crash
  <2>4. ASSUME NEW r \in Requests, PassThrough(r) PROVE Goal
    <3>1. \A s \in Slots : table'[s] = table[s] \/ table'[s] = EmptyEntry
      BY <2>4 DEF PassThrough, Swept
    <3> QED
      BY <2>1, <3>1
  <2>5. ASSUME NEW r \in Requests, ReserveFree(r) \/ ReserveEvicting(r) PROVE Goal
    <3>1. \E t \in Slots : table' = [Swept(req[r].now) EXCEPT ![t] = Reservation(r)]
      BY <2>5 DEF ReserveFree, ReserveEvicting
    <3>2. \A s \in Slots : \/ table'[s] = table[s] \/ table'[s] = EmptyEntry
                           \/ table'[s].state = "in_flight"
      BY <3>1 DEF Swept, Reservation
    <3> QED
      BY <2>1, <3>2
  <2>6. ASSUME NEW r \in Requests, Settle(r) PROVE Goal
    <3>1. PICK s \in Occupied :
              /\ \A t \in Slots : t # s => table'[t] = table[t]
              /\ \/ /\ req[r].keep /\ table'[s].state = "completed"
                    /\ table'[s].answer = req[r].answer
                    /\ table'[s].key = req[r].key /\ table'[s].payload = req[r].payload
                 \/ table'[s].state = "empty"
      BY <2>6, SettlesItsOwn
    <3>2. req[r].keep => After(req[r].answer, req[r].key, req[r].payload)
      BY <1>1, <1>6, <2>6 DEF Settle
    <3>3. table'[s].state = "completed" => After(table'[s].answer, table'[s].key, table'[s].payload)
      BY <3>1, <3>2
    <3> QED
      BY <2>1, <3>1, <3>3
  <2> HIDE DEF Goal
  <2>7. Goal
    BY <2>2, <2>3, <2>4, <2>5, <2>6, Frames DEF LeakInv, IdempotencyTypeOK
  <2> QED
    BY <2>7 DEF Goal
<1>9. \A r \in Requests :
        /\ req'[r].pc = "settle" /\ req'[r].keep =>
               After(req'[r].answer, req'[r].key, req'[r].payload)
        /\ req'[r].pc \in {"settle", "answered"} /\ req'[r].result = "replayed" =>
               After(req'[r].answer, req'[r].key, req'[r].payload)
  <2> DEFINE Says(r) ==
        /\ req'[r].pc = "settle" /\ req'[r].keep =>
               After(req'[r].answer, req'[r].key, req'[r].payload)
        /\ req'[r].pc \in {"settle", "answered"} /\ req'[r].result = "replayed" =>
               After(req'[r].answer, req'[r].key, req'[r].payload)
             Goal == \A r \in Requests : Says(r)
  <2>1. ASSUME NEW r \in Requests, req'[r] = req[r] \/ req'[r].pc \notin {"settle", "answered"}
        PROVE  Says(r)
    BY <1>1, <1>6, <2>1
  <2>2. ASSUME NEW r \in Requests, req'[r].pc \in {"settle", "answered"}, Untouched(r),
               (req'[r].pc = "settle" /\ req'[r].keep) \/ req'[r].result = "replayed" =>
                  After(req'[r].answer, req'[r].key, req'[r].payload)
        PROVE  Goal
    BY <2>1, <2>2 DEF Untouched
  <2>3. ASSUME NEW r \in Requests, req'[r].pc \notin {"settle", "answered"}, Untouched(r)
        PROVE  Goal
    BY <2>1, <2>3 DEF Untouched
  <2> HIDE DEF Says
  <2>4. ASSUME Crash PROVE Goal
    BY <1>0, <2>1, <2>4, CrashShape
  <2>5. ASSUME UNCHANGED req PROVE Goal
    BY <2>1, <2>5
  <2> HIDE DEF Goal
  <2>6. ASSUME NEW r \in Requests, NEW k \in Keys, NEW p \in Payloads, Arrive(r, k, p) PROVE Goal
    BY <1>0, <2>3, <2>6, ArriveShape
  <2>7. ASSUME NEW r \in Requests, ReserveFree(r) \/ ReserveEvicting(r) PROVE Goal
    <3>1. GoOn(r)
      BY <2>7 DEF ReserveFree, ReserveEvicting
    <3>2. Untouched(r) /\ req'[r].pc \in {"wait", "run"}
      BY <1>0, <3>1, Shapes DEF Moves
    <3> QED
      BY <2>3, <3>2
  <2>8. ASSUME NEW r \in Requests, PassThrough(r) \/ OpenSavepoint(r) \/ TakeChainLock(r) PROVE Goal
    <3>1. Untouched(r) /\ req'[r].pc \in {"read", "run"}
      BY <1>0, <2>8, Shapes DEF Moves
    <3> QED
      BY <2>3, <3>1
  <2>9. ASSUME NEW r \in Requests, NEW u \in {"ok", "large", "failed"}, HandleDurable(r, u)
        PROVE  Goal
    <3>1. Untouched(r) /\ req'[r].pc = "ran"
      BY <1>0, <2>9, Shapes DEF Moves
    <3> QED
      BY <2>3, <3>1
  <2>10. ASSUME NEW r \in Requests, FindsEntry(r) PROVE Goal
    <3>1. Untouched(r) /\ SameQuestion(r) /\ req'[r].pc = "answered"
      BY <1>0, <2>10, Shapes DEF Moves
    <3>2. \/ req'[r].result \in {"conflict", "mismatch"}
          \/ \E s \in Live(req[r].key, req[r].now) :
                /\ table[s].state = "completed" /\ ~ Differs(s, r)
                /\ Gives(r, "replayed", table[s].answer)
      BY <1>0, <2>10, Shapes DEF Tells
    <3>3. ASSUME NEW s \in Live(req[r].key, req[r].now), table[s].state = "completed",
                 ~ Differs(s, r), Gives(r, "replayed", table[s].answer)
          PROVE  After(req'[r].answer, req'[r].key, req'[r].payload)
      <4>1. /\ req'[r].answer = table[s].answer /\ req'[r].key = table[s].key
            /\ req'[r].payload = table[s].payload
        BY <3>1, <3>3 DEF Live, Differs, SameQuestion, Gives
      <4>2. Vouched(table[s].answer, table[s].key, table[s].payload)
        BY <1>4, <3>3 DEF Live, Occupied
      <4> QED
        BY <1>1, <4>1, <4>2
    <3> QED
      BY <2>2, <3>1, <3>2, <3>3
  <2>11. ASSUME NEW r \in Requests, NEW u \in {"ok", "large", "failed"}, HandleUntracked(r, u)
         PROVE  Goal
    <3>1. Untouched(r) /\ req'[r].pc = "answered" /\ req'[r].result = u
      BY <1>0, <2>11, Shapes DEF Moves, Tells
    <3> QED
      BY <2>2, <3>1
  <2>12. ASSUME NEW r \in Requests, NEW u \in {"ok", "large", "failed"}, HandleInMemory(r, u)
         PROVE  Goal
    <3>1. /\ Untouched(r) /\ SameQuestion(r) /\ req'[r].pc = "settle" /\ req'[r].result = u
          /\ req'[r].answer = r /\ req'[r].keep = (u = "ok")
      BY <1>0, <2>12, Shapes DEF Moves, Settles, Gives, Tells
    <3>2. u = "ok" => After(r, req[r].key, req[r].payload)
      BY <1>3, <2>12
    <3> QED
      BY <2>2, <3>1, <3>2 DEF SameQuestion
  <2>13. ASSUME NEW r \in Requests, StoreFails(r) \/ FindsRow(r) \/ Commit(r) \/ Unwind(r)
         PROVE  Goal
    <3>1. Untouched(r) /\ SameQuestion(r) /\ req'[r].pc = "settle"
      BY <2>13, EndShapes DEF Moves
    <3>2. CASE StoreFails(r) \/ Unwind(r)
      <4>1. ~ req'[r].keep /\ req'[r].result # "replayed"
        BY <3>2, EndShapes DEF Settles, Gives, Tells
      <4> QED
        BY <2>2, <3>1, <4>1
    <3>3. CASE FindsRow(r)
      <4>1. \/ ~ req'[r].keep /\ req'[r].result = "mismatch"
            \/ /\ rows[req[r].key].payload = req[r].payload
               /\ req'[r].answer = rows[req[r].key].answer
        BY <3>3, EndShapes DEF Settles, Gives, Tells
      <4>2. Vouched(rows[req[r].key].answer, req[r].key, rows[req[r].key].payload)
        BY <1>0, <1>5, <3>3 DEF FindsRow, LiveRow, Stages
      <4> QED
        BY <1>1, <2>2, <3>1, <4>1, <4>2 DEF SameQuestion
    <3>4. CASE Commit(r)
      <4>1. req'[r].answer = r
        BY <3>4, EndShapes DEF Settles, Gives
      <4> QED
        BY <1>3, <2>2, <3>1, <3>4, <4>1 DEF SameQuestion
    <3> QED
      BY <2>13, <3>2, <3>3, <3>4
  <2>14. ASSUME NEW r \in Requests, Settle(r) PROVE Goal
    <3>1. Untouched(r) /\ SameQuestion(r) /\ req'[r].pc = "answered" /\ Keeps(r)
      BY <1>0, <2>14, Shapes DEF Moves
    <3>2. req[r].result = "replayed" => After(req[r].answer, req[r].key, req[r].payload)
      BY <1>1, <1>6, <2>14 DEF Settle
    <3> QED
      BY <2>2, <3>1, <3>2 DEF SameQuestion, Keeps
  <2>15. Goal
    BY <2>4, <2>5, <2>6, <2>7, <2>8, <2>9, <2>10, <2>11, <2>12, <2>13, <2>14
    DEF Next, Serve, vars, Tick
  <2> QED
    BY <2>15 DEF Goal, Says
<1> QED
  BY <1>0, <1>7, <1>8, <1>9 DEF Kept, Vouched, After

-----------------------------------------------------------------------------
(* One order, and true answers *)

\* The table is empty and no order placed.
LEMMA OrderInvInit == Init => OrderInv
<1> SUFFICES ASSUME Init PROVE OrderInv
  OBVIOUS
<1>1. /\ EmptyEntry.state = "empty" /\ NoRow.answer = None
      /\ NewRequest.pc = "new" /\ NewRequest.tracked = FALSE /\ NewRequest.now = 0
  BY DEF EmptyEntry, NoRow, NewRequest
<1>2. /\ \A r \in Requests : req[r] = NewRequest /\ applied[r] = 0
      /\ \A s \in Slots : table[s] = EmptyEntry
      /\ \A k \in Keys : rows[k] = NoRow
      /\ txn = {} /\ clock = 1
  BY DEF Init
<1>3. Stamped /\ Reserved
  BY <1>1, <1>2 DEF Stamped, Active, Reserved, Holds, Occupied
<1>4. Kept /\ InSavepoint
  BY <1>1, <1>2 DEF Kept, InSavepoint
<1>5. Outcomes /\ Remembered /\ Cleared /\ OncePerTTL
  BY <1>1, <1>2 DEF Outcomes, Remembered, Cleared, OncePerTTL
<1> QED
  BY <1>3, <1>4, <1>5, LeakInvInit DEF OrderInv

\* While no handler outlives its TTL, the invariant of the orders holds throughout.
LEMMA OrderInvAlways == ASSUME Prompt PROVE Spec => []OrderInv
<1>1. OrderInv /\ [Next]_vars => OrderInv'
  BY LeakInvStep, StampedStep, ReservedStep, KeptStep, InSavepointStep, OutcomesStep,
     RememberedStep, ClearedStep, OncePerTTLStep
  DEF OrderInv
<1> QED
  BY <1>1, OrderInvInit, PTL DEF Spec

\* "Two copies of the same request in flight at once still place one order", and a
\* retry within the TTL places none: across any number of requests, evictions and
\* restarts, as long as no handler outlives the TTL of its request.
THEOREM OneOrderAlways == ASSUME Prompt PROVE Spec => []OneOrder
<1>1. OrderInv => OneOrder
  <2>1. Reserved => OneInFlight
    BY DEF Reserved, OneInFlight, Holds
  <2> QED
    BY <2>1 DEF OrderInv, OneOrder
<1> QED
  BY <1>1, OrderInvAlways, PTL

\* What the client is told is what happened: a replay answers the question that was
\* asked, a success is permanent, and a failure left nothing behind.
THEOREM AnswersAreTrueAlways == ASSUME Prompt PROVE Spec => []AnswersAreTrue
<1>1. OrderInv => AnswersAreTrue
  <2> SUFFICES ASSUME OrderInv PROVE AnswersAreTrue
    OBVIOUS
  <2>1. None \notin Requests
    BY IdempotencyAssumption
  <2>2. ReplayMatches
    BY <2>1 DEF OrderInv, Kept, Vouched, ReplayMatches
  <2>3. ASSUME NEW r \in Requests, durable, req[r].pc = "answered", req[r].tracked
        PROVE  /\ req[r].result = "ok" => applied[r] # 0
               /\ req[r].result \in {"failed", "unavailable", "mismatch"} => applied[r] = 0
               /\ req[r].result = "replayed" => applied[req[r].answer] # 0
    BY <2>3 DEF OrderInv, Outcomes, Kept, Vouched
  <2> QED
    BY <2>2, <2>3 DEF AnswersAreTrue
<1> QED
  BY <1>1, OrderInvAlways, PTL

=============================================================================
