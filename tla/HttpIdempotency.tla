--------------------------- MODULE HttpIdempotency ---------------------------
(***************************************************************************)
(* The layer that makes a retried unsafe request run once                  *)
(* (nyangine-core/http/http_idempotency.c).  Server threads share one      *)
(* table of keys under a mutex that is never held across the handler; with *)
(* a database the answers are kept there too, and each keyed request runs  *)
(* its handler inside one savepoint, one request at a time.                *)
(*                                                                         *)
(* A request is one exchange: it is stamped with the wall clock when it is *)
(* dispatched (exchange->now_s) and judges every age by that stamp.  A     *)
(* client's retry is another request with the same key and payload.        *)
(***************************************************************************)
EXTENDS Naturals, FiniteSets

CONSTANTS
    Requests,    \* bound: the exchanges of a behaviour
    Keys,        \* values of the Idempotency-Key header
    Payloads,    \* what the fingerprint tells apart: method, path and body
    MaxEntries,  \* NYA_HTTP_IDEMPOTENCY_MAX_ENTRIES
    TTL,         \* _nya_http_idempotency_ttl_s()
    MaxTime,     \* bound: the last second of the wall clock
    MaxCrashes,  \* bound: restarts of the process
    Prompt,      \* TRUE: every request is settled within the TTL of its stamp
    None         \* no request, key or payload

ASSUME IdempotencyAssumption ==
    /\ MaxEntries \in Nat \ {0} /\ TTL \in Nat \ {0}
    /\ MaxTime \in Nat /\ MaxCrashes \in Nat
    /\ Prompt \in BOOLEAN /\ None \notin Requests \cup Keys \cup Payloads

Slots == 1 .. MaxEntries

VARIABLES
    durable,    \* whether the options named a database
    clock,      \* nya_clock_get_timestamp_s()
    table,      \* the entries: state, key, fingerprint, answer, updated_at_s
    count,      \* occupied slots, as the store counts them
    rows,       \* the database's table, by key; answer None: no row
    txn,        \* requests whose writes are in the open savepoint
    chainLock,  \* who holds chain_mutex
    req,        \* the exchanges
    crashes,
    applied,    \* history: when a request's writes became permanent, 0 never
    forgotten   \* history: keys whose stored answer or reservation was given up

vars == <<durable, clock, table, count, rows, txn, chainLock, req, crashes, applied, forgotten>>

(***************************************************************************)
(* An answer is named by the request whose handler produced it.            *)
(***************************************************************************)
MaybeKey == Keys \cup {None}
MaybePayload == Payloads \cup {None}
MaybeRequest == Requests \cup {None}

EmptyEntry == [state |-> "empty", key |-> None, payload |-> None, answer |-> None, at |-> 0]
AnEntry == [state : {"empty", "in_flight", "completed"}, key : MaybeKey,
            payload : MaybePayload, answer : MaybeRequest, at : Nat]
NoRow == [payload |-> None, answer |-> None, at |-> 0]
ARow == [payload : MaybePayload, answer : MaybeRequest, at : Nat]

(***************************************************************************)
(* pc is where the exchange is:                                            *)
(*   new       not dispatched yet                                          *)
(*   arrived   stamped; about to look its key up                           *)
(*   wait      reserved; about to take chain_mutex (durable)               *)
(*   read      holds chain_mutex; about to SELECT (durable)                *)
(*   run       the rest of the chain, the handler, is running              *)
(*   ran       the handler returned `result`; to be committed (durable)    *)
(*   settle    about to end its reservation, keeping the answer or not     *)
(*   answered  result, and for a replay whose answer, went to the client   *)
(*   gone      the process died under it                                   *)
(***************************************************************************)
Results == {"none", "ok", "large", "failed", "conflict", "mismatch", "replayed", "unavailable"}
ARequest == [pc : {"new", "arrived", "wait", "read", "run", "ran", "settle", "answered", "gone"},
             key : MaybeKey, payload : MaybePayload, now : Nat, tracked : BOOLEAN,
             keep : BOOLEAN, result : Results, answer : MaybeRequest]
NewRequest == [pc |-> "new", key |-> None, payload |-> None, now |-> 0, tracked |-> FALSE,
               keep |-> FALSE, result |-> "none", answer |-> None]

Active(r) == req[r].pc \notin {"new", "answered", "gone"}

Init ==
    /\ durable \in BOOLEAN /\ clock = 1
    /\ table = [s \in Slots |-> EmptyEntry]
    /\ rows = [k \in Keys |-> NoRow]
    /\ req = [r \in Requests |-> NewRequest]
    /\ count = 0 /\ txn = {} /\ chainLock = None /\ crashes = 0
    /\ applied = [r \in Requests |-> 0] /\ forgotten = {}

Tick ==
    /\ clock < MaxTime
    /\ Prompt => \A r \in Requests : Active(r) => clock + 1 < req[r].now + TTL
    /\ clock' = clock + 1
    /\ UNCHANGED <<durable, table, count, rows, txn, chainLock, req, crashes, applied, forgotten>>

(***************************************************************************)
(* The table                                                               *)
(***************************************************************************)

\* _nya_http_idempotency_expired; a stamp in the future is not expiry.
Old(at, now) == now > at /\ now - at >= TTL

Occupied == {s \in Slots : table[s].state # "empty"}
ExpiredAt(now) == {s \in Occupied : Old(table[s].at, now)}
Live(k, now) == {s \in Occupied \ ExpiredAt(now) : table[s].key = k}
First(s, S) == s \in S /\ \A t \in S : s <= t

Answer(r, result) == req' = [req EXCEPT ![r].pc = "answered", ![r].result = result]

\* The exchange is dispatched with a key and stamped.  Safe methods and
\* requests without a key pass straight through and never touch the layer.
Arrive(r, k, p) ==
    /\ req[r].pc = "new"
    /\ req' = [req EXCEPT ![r].pc = "arrived", ![r].key = k, ![r].payload = p, ![r].now = clock]
    /\ UNCHANGED <<durable, clock, table, count, rows, txn, chainLock, crashes, applied, forgotten>>

Differs(s, r) == table[s].payload # req[r].payload

\* A live entry under the key: 409 while it is in flight, 422 for another
\* payload, otherwise its answer, copied out under the lock.
FindsEntry(r) ==
    /\ req[r].pc = "arrived"
    /\ \E s \in Slots :
         /\ First(s, Live(req[r].key, req[r].now))
         /\ \/ table[s].state = "in_flight" /\ Answer(r, "conflict")
            \/ table[s].state = "completed" /\ Differs(s, r) /\ Answer(r, "mismatch")
            \/ /\ table[s].state = "completed" /\ ~Differs(s, r)
               /\ req' = [req EXCEPT ![r].pc = "answered", ![r].result = "replayed",
                                     ![r].answer = table[s].answer]
    /\ UNCHANGED <<durable, clock, table, count, rows, txn, chainLock, crashes, applied, forgotten>>

\* What the sweep at the head of a reservation leaves.
Swept(now) == [s \in Slots |->
                 IF s \in ExpiredAt(now) THEN EmptyEntry ELSE table[s]]
CountAfter(now) ==
    LET expired == Cardinality(ExpiredAt(now))
    IN  IF count > expired THEN count - expired ELSE 0

\* The oldest completed entry, the first of several.
Evictable(s, now) ==
    LET completed == {t \in Slots \ ExpiredAt(now) : table[t].state = "completed"}
    IN  /\ s \in completed
        /\ \A t \in completed : table[s].at < table[t].at \/ (table[s].at = table[t].at /\ s <= t)

Reservation(r) == [state |-> "in_flight", key |-> req[r].key, payload |-> req[r].payload,
                   answer |-> None, at |-> req[r].now]

\* Where a reserved request goes on: the durable path or the handler.
GoOn(r) == req' = [req EXCEPT ![r].pc = IF durable THEN "wait" ELSE "run", ![r].tracked = TRUE]

ReserveFree(r) ==
    /\ req[r].pc = "arrived" /\ Live(req[r].key, req[r].now) = {}
    /\ CountAfter(req[r].now) < MaxEntries
    /\ \E s \in Slots :
         /\ First(s, {t \in Slots : Swept(req[r].now)[t].state = "empty"})
         /\ table' = [Swept(req[r].now) EXCEPT ![s] = Reservation(r)]
    /\ count' = CountAfter(req[r].now) + 1
    /\ GoOn(r)
    /\ UNCHANGED <<durable, clock, rows, txn, chainLock, crashes, applied, forgotten>>

ReserveEvicting(r) ==
    /\ req[r].pc = "arrived" /\ Live(req[r].key, req[r].now) = {}
    /\ CountAfter(req[r].now) >= MaxEntries
    /\ \E s \in Slots :
         /\ Evictable(s, req[r].now)
         /\ table' = [Swept(req[r].now) EXCEPT ![s] = Reservation(r)]
         /\ forgotten' = forgotten \cup {table[s].key}
    /\ count' = CountAfter(req[r].now)
    /\ GoOn(r)
    /\ UNCHANGED <<durable, clock, rows, txn, chainLock, crashes, applied>>

\* Every slot is in flight: the newcomer runs as if it had no key, also past
\* the database.
PassThrough(r) ==
    /\ req[r].pc = "arrived" /\ Live(req[r].key, req[r].now) = {}
    /\ CountAfter(req[r].now) >= MaxEntries
    /\ \A s \in Slots : ~Evictable(s, req[r].now)
    /\ table' = Swept(req[r].now) /\ count' = CountAfter(req[r].now)
    /\ req' = [req EXCEPT ![r].pc = "run"]
    /\ UNCHANGED <<durable, clock, rows, txn, chainLock, crashes, applied, forgotten>>

(***************************************************************************)
(* The chain                                                               *)
(***************************************************************************)
SavepointOpen == chainLock # None /\ req[chainLock].pc \in {"run", "ran"}

\* The handler's writes: into the savepoint that is open on the connection, if
\* there is one, and permanent otherwise.
Write(r) ==
    \/ durable /\ SavepointOpen /\ txn' = txn \cup {r} /\ UNCHANGED applied
    \/ /\ ~(durable /\ SavepointOpen)
       /\ applied' = [applied EXCEPT ![r] = clock] /\ UNCHANGED txn

\* The handler of an untracked request: its answer is the client's.
HandleUntracked(r, result) ==
    /\ req[r].pc = "run" /\ ~req[r].tracked
    /\ Write(r) /\ Answer(r, result)
    /\ UNCHANGED <<durable, clock, table, count, rows, chainLock, crashes, forgotten>>

\* Without a database: the answer is kept unless it is a 5xx or too large.
HandleInMemory(r, result) ==
    /\ req[r].pc = "run" /\ req[r].tracked /\ ~durable
    /\ Write(r)
    /\ req' = [req EXCEPT ![r].pc = "settle", ![r].result = result, ![r].answer = r,
                          ![r].keep = (result = "ok")]
    /\ UNCHANGED <<durable, clock, table, count, rows, chainLock, crashes, forgotten>>

HandleDurable(r, result) ==
    /\ req[r].pc = "run" /\ req[r].tracked /\ durable
    /\ Write(r)
    /\ req' = [req EXCEPT ![r].pc = "ran", ![r].result = result]
    /\ UNCHANGED <<durable, clock, table, count, rows, chainLock, crashes, forgotten>>

(***************************************************************************)
(* _nya_http_idempotency_settle: the entry is found again, by key.         *)
(***************************************************************************)

SettleEntry(r) ==
    \E s \in Slots :
      /\ First(s, Live(req[r].key, req[r].now)) /\ table[s].state = "in_flight"
      /\ \/ /\ req[r].keep
            /\ table' = [table EXCEPT ![s].state = "completed", ![s].answer = req[r].answer,
                                      ![s].at = req[r].now]
            /\ UNCHANGED <<count, forgotten>>
         \/ /\ ~req[r].keep
            /\ table' = [table EXCEPT ![s].state = "empty"]
            /\ count' = IF count > 0 THEN count - 1 ELSE 0
            /\ forgotten' = forgotten \cup {req[r].key}

NothingToSettle(r) ==
    /\ \A s \in Live(req[r].key, req[r].now) :
          First(s, Live(req[r].key, req[r].now)) => table[s].state # "in_flight"
    /\ UNCHANGED <<table, count, forgotten>>

\* MUTANT of Unlocked: the lock is only released when the answer was kept.
UnlockedIfKept(r) == IF chainLock = r /\ req[r].keep THEN None ELSE chainLock

Unlocked(r) == IF chainLock = r THEN None ELSE chainLock

\* Settled, the chain lock released, answered.
Settle(r) ==
    /\ req[r].pc = "settle"
    /\ SettleEntry(r) \/ NothingToSettle(r)
    /\ chainLock' = Unlocked(r)
    /\ req' = [req EXCEPT ![r].pc = "answered"]
    /\ UNCHANGED <<durable, clock, rows, txn, crashes, applied>>

(***************************************************************************)
(* _nya_http_idempotency_durable                                           *)
(***************************************************************************)
TakeChainLock(r) ==
    /\ req[r].pc = "wait" /\ chainLock = None
    /\ chainLock' = r /\ req' = [req EXCEPT ![r].pc = "read"]
    /\ UNCHANGED <<durable, clock, table, count, rows, txn, crashes, applied, forgotten>>

\* On to the settling that ends the durable path.
ToSettle(r, keep, result, answer) ==
    req' = [req EXCEPT ![r].pc = "settle", ![r].result = result, ![r].answer = answer,
                       ![r].keep = keep]

\* MUTANT of LiveRow: the rows are written and never read.
LiveRowUnread(r) == FALSE

LiveRow(r) == /\ rows[req[r].key].answer # None
              /\ ~Old(rows[req[r].key].at, req[r].now)

\* The SELECT, or the SAVEPOINT, is refused.
StoreFails(r) ==
    /\ req[r].pc = "read"
    /\ ToSettle(r, FALSE, "unavailable", None)
    /\ UNCHANGED <<durable, clock, table, count, rows, txn, chainLock, crashes, applied, forgotten>>

\* A row of before a restart, or one whose entry was evicted.
FindsRow(r) ==
    /\ req[r].pc = "read" /\ LiveRow(r)
    /\ LET row == rows[req[r].key]
       IN  IF row.payload # req[r].payload THEN ToSettle(r, FALSE, "mismatch", None)
           ELSE ToSettle(r, TRUE, "replayed", row.answer)
    /\ UNCHANGED <<durable, clock, table, count, rows, txn, chainLock, crashes, applied, forgotten>>

OpenSavepoint(r) ==
    /\ req[r].pc = "read" /\ ~LiveRow(r)
    /\ req' = [req EXCEPT ![r].pc = "run"]
    /\ UNCHANGED <<durable, clock, table, count, rows, txn, chainLock, crashes, applied, forgotten>>

\* Expired rows go, the answer's row comes, and RELEASE makes them permanent
\* together with every write in the savepoint.
Commit(r) ==
    /\ req[r].pc = "ran" /\ req[r].result = "ok"
    /\ rows' = [k \in Keys |->
                  IF k = req[r].key
                  THEN [payload |-> req[r].payload, answer |-> r, at |-> req[r].now]
                  ELSE IF rows[k].at + TTL <= req[r].now
                       THEN NoRow ELSE rows[k]]
    /\ applied' = [q \in Requests |-> IF q \in txn THEN clock ELSE applied[q]]
    /\ txn' = {}
    /\ ToSettle(r, TRUE, "ok", r)
    /\ UNCHANGED <<durable, clock, table, count, chainLock, crashes, forgotten>>

\* MUTANT of Unwound: the savepoint's writes survive the failure.
UnwoundNot == applied' = [q \in Requests |-> IF q \in txn THEN clock ELSE applied[q]]

Unwound == UNCHANGED applied

\* A 5xx, an answer too large to keep, or a commit that is refused: the
\* savepoint is rolled back, and the client is told.
Unwind(r) ==
    /\ req[r].pc = "ran"
    /\ txn' = {} /\ Unwound
    /\ ToSettle(r, FALSE, IF req[r].result = "ok" THEN "unavailable" ELSE "failed", None)
    /\ UNCHANGED <<durable, clock, table, count, rows, chainLock, crashes, forgotten>>

(***************************************************************************)
(* The process dies and starts again: the table is memory, the rows stay.  *)
(***************************************************************************)
Crash ==
    /\ crashes < MaxCrashes /\ crashes' = crashes + 1
    /\ table' = [s \in Slots |-> EmptyEntry] /\ count' = 0
    /\ txn' = {} /\ chainLock' = None
    /\ req' = [r \in Requests |-> IF Active(r) THEN [req[r] EXCEPT !.pc = "gone"] ELSE req[r]]
    /\ forgotten' = Keys
    /\ UNCHANGED <<durable, clock, rows, applied>>

Serve(r) ==
    \/ FindsEntry(r) \/ ReserveFree(r) \/ ReserveEvicting(r) \/ PassThrough(r)
    \/ \E result \in {"ok", "large", "failed"} :
          HandleUntracked(r, result) \/ HandleInMemory(r, result) \/ HandleDurable(r, result)
    \/ TakeChainLock(r) \/ FindsRow(r) \/ OpenSavepoint(r)
    \/ Commit(r) \/ Unwind(r) \/ Settle(r)

Next == \/ Tick \/ Crash
        \/ \E r \in Requests : \/ \E k \in Keys, p \in Payloads : Arrive(r, k, p)
                               \/ Serve(r) \/ StoreFails(r)

Spec == Init /\ [][Next]_vars

-----------------------------------------------------------------------------

\* Every field has its type, and the store never counts more than it holds.
IdempotencyTypeOK ==
    /\ durable \in BOOLEAN /\ clock \in Nat /\ count \in 0 .. MaxEntries
    /\ table \in [Slots -> AnEntry] /\ rows \in [Keys -> ARow]
    /\ txn \subseteq Requests /\ chainLock \in MaybeRequest
    /\ req \in [Requests -> ARequest] /\ crashes \in 0 .. MaxCrashes
    /\ applied \in [Requests -> Nat] /\ forgotten \subseteq Keys

\* The store's count is the number of occupied slots, whatever was swept,
\* settled, evicted and dropped: a count that drifts below them would promise
\* _nya_http_idempotency_reserve a free slot that is not there.
CountHonest == count = Cardinality(Occupied)

\* "Two copies of the same request in flight at once still place one order":
\* of two requests tracked under one key and stamped within a TTL of each
\* other, at most one is running its handler.
OneInFlight ==
    \A q, r \in Requests :
        /\ q # r /\ req[q].key = req[r].key /\ req[q].tracked /\ req[r].tracked
        /\ req[r].now < req[q].now + TTL /\ req[q].now < req[r].now + TTL
        => ~(req[q].pc = "run" /\ req[r].pc = "run")

\* "The handler runs exactly once": when the writes of two tracked requests
\* under one key are both permanent, the later ones came a TTL after the stamp
\* of the earlier ones.  With a database this holds across crashes and
\* evictions; in memory, as long as the key's entry was not given up.
OncePerTTL ==
    \A q, r \in Requests :
        /\ q # r /\ req[q].key = req[r].key /\ req[q].tracked /\ req[r].tracked
        /\ applied[q] # 0 /\ applied[r] # 0
        /\ durable \/ req[q].key \notin forgotten
        => applied[r] >= req[q].now + TTL \/ applied[q] >= req[r].now + TTL

\* One order is placed: by one handler at a time, and once within a TTL.
OneOrder == OneInFlight /\ OncePerTTL

\* A replay answers the question that was asked: the answer comes from a
\* request with the same key and the same payload.
ReplayMatches ==
    \A r \in Requests : req[r].pc = "answered" /\ req[r].result = "replayed" =>
        /\ req[r].answer # None
        /\ req[req[r].answer].key = req[r].key
        /\ req[req[r].answer].payload = req[r].payload

\* What the client is told is what happened.  A replay answers the question
\* that was asked; and with a database a tracked request answered with success
\* is permanent, one answered with a failure left nothing behind, and a
\* replayed answer's writes are permanent.
AnswersAreTrue ==
    /\ ReplayMatches
    /\ durable => \A r \in Requests : req[r].pc = "answered" /\ req[r].tracked =>
          /\ req[r].result = "ok" => applied[r] # 0
          /\ req[r].result \in {"failed", "unavailable", "mismatch"} => applied[r] = 0
          /\ req[r].result = "replayed" => applied[req[r].answer] # 0

\* The chain lock is always held by a request on the durable path between the
\* lock and its answer, whichever of the path's returns it leaves by: a lock
\* kept by an answered request would hang every keyed request after it.
ChainLockHeld ==
    \A r \in Requests : chainLock = r <=> /\ durable /\ req[r].tracked
                                         /\ req[r].pc \in {"read", "run", "ran", "settle"}

\* Every path out of the layer, refused statements and failed handlers
\* included, gives back what it took: its slot of the count and the chain lock.
NothingLeaks == CountHonest /\ ChainLockHeld

=============================================================================
