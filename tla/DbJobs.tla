------------------------------- MODULE DbJobs -------------------------------
(***************************************************************************)
(* The durable job queue of nyangine-core/db/db_jobs.c: one SQLite table,  *)
(* any number of connections.  Every SQL statement is one atomic step (it  *)
(* runs under SQLite's lock); what the C code does BETWEEN two statements  *)
(* of one call is kept in op[c], so the calls of several clients           *)
(* interleave statement by statement, as the code's do.                    *)
(*                                                                         *)
(* A client is one connection: a worker (of the pool, or a second process  *)
(* on the same file) or a producer.  It may crash between any two          *)
(* statements (the table survives, op[c] does not), and a statement may    *)
(* lose the wait for the write lock and report NYA_ERROR_TIMEOUT.          *)
(***************************************************************************)
EXTENDS Integers, FiniteSets

CONSTANTS
    Workers,             \* the connections that claim and resolve
    Producers,           \* the connections that enqueue and sweep
    NoClient,            \* the NULL of the worker column
    Keys,                \* values of unique_key
    NoKey,               \* the NULL of the unique_key column
    MaxJobs,             \* bound: rows ever inserted
    MaxTime,             \* bound: the last instant of the wall clock
    MaxFaults,           \* bound: crashes and lock timeouts together
    Lease,               \* queue->lease_ns
    BackoffBase,         \* queue->backoff_base_ns
    BackoffCap,          \* queue->backoff_cap_ns
    JitterPercent,       \* queue->jitter, as a percentage of the delay
    DefaultMaxAttempts,  \* queue->default_max_attempts
    Options,             \* the NYA_JobOptions producers enqueue with
    HonestLease          \* TRUE: the lease outlasts every live holder

Clients == Workers \cup Producers
Ids == 1 .. MaxJobs

(***************************************************************************)
(* NYA_JobOptions.  delay and life are relative to the enqueue; 0 is the   *)
(* zeroed option.  cron is the distance between the firings of the spec, 0 *)
(* for none, and Unsatisfiable for one that never fires ("0 0 30 2 *").    *)
(***************************************************************************)
Unsatisfiable == -1

Option == [delay   : Nat, life : Nat, max : Nat, key : Keys \cup {NoKey},
           replace : BOOLEAN, recur : Nat, cron : Nat \cup {Unsatisfiable}]

ASSUME DbJobsAssumption ==
    /\ MaxJobs \in Nat /\ MaxTime \in Nat /\ MaxFaults \in Nat
    /\ Lease \in Nat \ {0}
    /\ BackoffCap \in Nat \ {0} /\ BackoffBase \in 1 .. BackoffCap
    /\ JitterPercent \in 0 .. 100
    /\ DefaultMaxAttempts \in Nat \ {0}
    /\ NoClient \notin Clients /\ NoKey \notin Keys
    /\ Options \subseteq Option
    /\ HonestLease \in BOOLEAN

VARIABLES
    now,     \* nya_instant_now(), the one wall clock
    jobs,    \* the table, by id; "absent" rows are not inserted yet
    op,      \* what each client's call holds between its statements
    faults   \* crashes and timeouts so far

vars == <<now, jobs, op, faults>>

(***************************************************************************)
(* The table                                                               *)
(***************************************************************************)
Active == {"pending", "claimed"}
Settled == {"done", "dead"}

Row == [state : {"absent", "expired"} \cup Active \cup Settled,
        attempts : Nat, max : Nat, runAt : Nat, deadline : Nat, lease : Nat,
        worker : Clients \cup {NoClient}, key : Keys \cup {NoKey},
        recur : Nat, cron : Nat \cup {Unsatisfiable}]

AbsentRow == [state |-> "absent", attempts |-> 0, max |-> 0, runAt |-> 0,
              deadline |-> 0, lease |-> 0, worker |-> NoClient, key |-> NoKey,
              recur |-> 0, cron |-> 0]

(***************************************************************************)
(* A client's call.  pc is the statement it executes next:                 *)
(*   idle      outside the queue                                           *)
(*   lookup    nya_job_enqueue, keyed: inserted, the id not yet selected   *)
(*   enqueued  nya_job_enqueue returned the id in job (0: none)            *)
(*   claim     nya_job_claim: reaped, the claiming UPDATE to come          *)
(*   run       the handler is running job                                  *)
(*   resolve   the handler returned outcome, nothing read yet              *)
(*   write     nya_job_complete / nya_job_fail: SELECTed, UPDATE to come   *)
(* at is the instant the call read; next the run_at a completion will      *)
(* write, tries the attempts a failure read, again whether the job goes    *)
(* back to pending; res is what the last resolving call returned.          *)
(***************************************************************************)
Outcomes == {"complete", "retry", "fail"}

Op == [pc : {"idle", "lookup", "enqueued", "claim", "run", "resolve", "write"},
       job : Ids \cup {0}, key : Keys \cup {NoKey}, at : Nat,
       outcome : Outcomes, next : Nat, tries : Nat, again : BOOLEAN,
       res : {"none", "ok", "not_found", "error"}]

IdleOp == [pc |-> "idle", job |-> 0, key |-> NoKey, at |-> 0,
           outcome |-> "complete", next |-> 0, tries |-> 0,
           again |-> FALSE, res |-> "none"]

\* The client is between taking the job and the end of the call resolving it.
Holds(c) == op[c].pc \in {"run", "resolve", "write"}

Init ==
    /\ now = 1
    /\ jobs = [j \in Ids |-> AbsentRow]
    /\ op = [c \in Clients |-> IdleOp]
    /\ faults = 0

(***************************************************************************)
(* Time                                                                    *)
(***************************************************************************)

\* The header's contract on the lease, "long enough that a live worker
\* finishes or fails the job before it expires": no live holder's lease, and
\* no lease a claim in progress is about to write, runs out at t.
LeasesOutlast(t) ==
    \A c \in Clients :
        /\ op[c].pc = "claim" => t < op[c].at + Lease
        /\ Holds(c) /\ jobs[op[c].job].state = "claimed"
             => t < jobs[op[c].job].lease

Tick ==
    /\ now < MaxTime
    /\ HonestLease => LeasesOutlast(now + 1)
    /\ now' = now + 1
    /\ UNCHANGED <<jobs, op, faults>>

(***************************************************************************)
(* nya_job_enqueue                                                         *)
(***************************************************************************)

\* nya_cron_next: the first firing strictly after t of a spec that fires
\* every p instants.
CronNext(p, t) == ((t \div p) + 1) * p

FirstRun(o) ==
    IF o.delay # 0 THEN now + o.delay
    ELSE IF o.cron > 0 THEN CronNext(o.cron, now) ELSE now

MaxAttempts(o) == IF o.max # 0 THEN o.max ELSE DefaultMaxAttempts

Deadline(o) == IF o.life # 0 THEN now + o.life ELSE 0

\* The row the INSERT writes; cron outranks recur.
NewRow(o) ==
    [state |-> "pending", attempts |-> 0, max |-> MaxAttempts(o),
     runAt |-> FirstRun(o), deadline |-> Deadline(o), lease |-> 0,
     worker |-> NoClient, key |-> o.key,
     recur |-> IF o.cron # 0 THEN 0 ELSE o.recur, cron |-> o.cron]

\* INTEGER PRIMARY KEY: the next id is one past the largest; no row is deleted.
IsNextId(j) == /\ jobs[j].state = "absent"
               /\ \A i \in Ids : i < j => jobs[i].state # "absent"

\* MUTANT of Rivals: an index that forgets the claimed state.
RivalsPendingOnly(k, j) == {i \in Ids \ {j} : /\ k # NoKey
                                              /\ jobs[i].key = k
                                              /\ jobs[i].state = "pending"}

\* The partial unique index: the active rows under key k, other than j.
Rivals(k, j) == {i \in Ids \ {j} : /\ k # NoKey
                                   /\ jobs[i].key = k
                                   /\ jobs[i].state \in Active}

\* nya_cron_next only runs when the caller pinned no run_at, so only then is
\* an unsatisfiable spec refused.
Accepted(o) == o.cron = Unsatisfiable => o.delay # 0

AfterInsert(c, o) ==
    op' = [op EXCEPT ![c] = IF o.key = NoKey THEN IdleOp
                            ELSE [IdleOp EXCEPT !.pc = "lookup", !.key = o.key]]

EnqueueNew(c, o) ==
    /\ op[c].pc = "idle" /\ Accepted(o)
    /\ \E j \in Ids : /\ IsNextId(j)
                      /\ Rivals(o.key, j) = {}
                      /\ jobs' = [jobs EXCEPT ![j] = NewRow(o)]
    /\ AfterInsert(c, o)
    /\ UNCHANGED <<now, faults>>

\* ON CONFLICT: DO NOTHING, or with replace DO UPDATE ... WHERE state = pending.
EnqueueConflict(c, o) ==
    /\ op[c].pc = "idle" /\ Accepted(o)
    /\ \E j \in Rivals(o.key, 0) :
          jobs' = IF o.replace /\ jobs[j].state = "pending"
                  THEN [jobs EXCEPT ![j] = NewRow(o)]
                  ELSE jobs
    /\ AfterInsert(c, o)
    /\ UNCHANGED <<now, faults>>

Lookup(c) ==
    /\ op[c].pc = "lookup"
    /\ LET active == Rivals(op[c].key, 0)
       IN  \E j \in active \cup {0} :
              /\ j = 0 <=> active = {}
              /\ \A i \in active : j <= i
              /\ op' = [op EXCEPT ![c].pc = "enqueued", ![c].job = j]
    /\ UNCHANGED <<now, jobs, faults>>

EnqueueReturn(c) ==
    /\ op[c].pc = "enqueued"
    /\ op' = [op EXCEPT ![c] = IdleOp]
    /\ UNCHANGED <<now, jobs, faults>>

(***************************************************************************)
(* nya_job_claim and nya_jobs_reap_expired                                 *)
(***************************************************************************)

\* MUTANT of Reaped: the sweep without its state filter.
ReapedWhateverState(t) ==
    [j \in Ids |->
        IF jobs[j].deadline # 0 /\ jobs[j].deadline <= t
        THEN [jobs[j] EXCEPT !.state = "expired", !.worker = NoClient, !.lease = 0]
        ELSE jobs[j]]

\* _nya_jobs_reap at instant t: every active row past its deadline expires.
Reaped(t) ==
    [j \in Ids |->
        IF /\ jobs[j].deadline # 0 /\ jobs[j].deadline <= t
           /\ jobs[j].state \in Active
        THEN [jobs[j] EXCEPT !.state = "expired", !.worker = NoClient, !.lease = 0]
        ELSE jobs[j]]

ReapExpired(c) ==
    /\ op[c].pc = "idle"
    /\ jobs' = Reaped(now)
    /\ UNCHANGED <<now, op, faults>>

\* The first statement of a claim: read the clock, sweep.
ClaimReap(c) ==
    /\ op[c].pc = "idle"
    /\ jobs' = Reaped(now)
    /\ op' = [op EXCEPT ![c] = [IdleOp EXCEPT !.pc = "claim", !.at = now]]
    /\ UNCHANGED <<now, faults>>

\* MUTANT of Due: a claimed row is due whether or not its lease ran out.
DueDespiteLease(j, t) ==
    /\ jobs[j].state \in Active
    /\ jobs[j].runAt <= t
    /\ jobs[j].deadline = 0 \/ jobs[j].deadline > t

\* MUTANT of Due: a lease that ran out is never taken over.
DuePendingOnly(j, t) ==
    /\ jobs[j].state = "pending"
    /\ jobs[j].runAt <= t
    /\ jobs[j].deadline = 0 \/ jobs[j].deadline > t

Due(j, t) ==
    /\ jobs[j].state \in Active
    /\ jobs[j].runAt <= t
    /\ jobs[j].deadline = 0 \/ jobs[j].deadline > t
    /\ jobs[j].state = "claimed" => jobs[j].lease <= t

\* ORDER BY run_at ASC, id ASC
Before(i, j) == \/ jobs[i].runAt < jobs[j].runAt
                \/ jobs[i].runAt = jobs[j].runAt /\ i <= j

\* The row as the claiming UPDATE leaves it: leased to c from instant t on.
Leased(j, c, t) ==
    [jobs[j] EXCEPT !.state = "claimed", !.worker = c, !.lease = t + Lease,
                    !.attempts = jobs[j].attempts + 1]

ClaimTake(c) ==
    /\ op[c].pc = "claim"
    /\ \E j \in Ids :
          /\ Due(j, op[c].at)
          /\ \A i \in Ids : Due(i, op[c].at) => Before(j, i)
          /\ jobs' = [jobs EXCEPT ![j] = Leased(j, c, op[c].at)]
          /\ op' = [op EXCEPT ![c] = [IdleOp EXCEPT !.pc = "run", !.job = j]]
    /\ UNCHANGED <<now, faults>>

ClaimNothing(c) ==
    /\ op[c].pc = "claim"
    /\ \A j \in Ids : ~Due(j, op[c].at)
    /\ op' = [op EXCEPT ![c] = IdleOp]
    /\ UNCHANGED <<now, jobs, faults>>

(***************************************************************************)
(* The handler returns, and the client resolves the job it claimed.        *)
(* nya_job_complete reads the clock before its SELECT, nya_job_fail after. *)
(***************************************************************************)
HandlerReturns(c, outcome) ==
    /\ op[c].pc = "run"
    /\ op' = [op EXCEPT ![c].pc = "resolve", ![c].outcome = outcome, ![c].at = now]
    /\ UNCHANGED <<now, jobs, faults>>

Return(c, result) == op' = [op EXCEPT ![c] = [IdleOp EXCEPT !.res = result]]

\* Both calls SELECT ... WHERE id = ? AND state = claimed first; no such row
\* is NYA_ERROR_NOT_FOUND.
NotInFlight(c) ==
    /\ op[c].pc = "resolve"
    /\ jobs[op[c].job].state # "claimed"
    /\ Return(c, "not_found")
    /\ UNCHANGED <<now, jobs, faults>>

\* MUTANT of NextOccurrence: one interval on, however late the run was.
NextIntervalOnly(runAt, interval, t) == runAt + interval

\* _nya_jobs_next_occurrence: the next point of the grid run_at + k * interval
\* strictly after t.
NextOccurrence(runAt, interval, t) ==
    IF runAt + interval > t THEN runAt + interval
    ELSE runAt + (((t - runAt) \div interval) + 1) * interval

\* MUTANT of Recurs: only a bare interval reschedules.
RecursByInterval(j) == jobs[j].recur > 0

Recurs(j) == jobs[j].cron > 0 \/ (jobs[j].cron = 0 /\ jobs[j].recur > 0)

NextFire(j, t) ==
    IF jobs[j].cron > 0 THEN CronNext(jobs[j].cron, t)
    ELSE NextOccurrence(jobs[j].runAt, jobs[j].recur, t)

CompleteRead(c) ==
    /\ op[c].pc = "resolve" /\ op[c].outcome = "complete"
    /\ LET j == op[c].job
       IN  /\ jobs[j].state = "claimed"
           /\ jobs[j].cron # Unsatisfiable
           /\ op' = [op EXCEPT ![c].pc = "write", ![c].again = Recurs(j),
                               ![c].next = IF Recurs(j) THEN NextFire(j, op[c].at) ELSE 0]
    /\ UNCHANGED <<now, jobs, faults>>

\* A cron spec with no next firing: nya_cron_next fails and so does the call,
\* before anything is written.
CompleteUnschedulable(c) ==
    /\ op[c].pc = "resolve" /\ op[c].outcome = "complete"
    /\ jobs[op[c].job].state = "claimed"
    /\ jobs[op[c].job].cron = Unsatisfiable
    /\ Return(c, "error")
    /\ UNCHANGED <<now, jobs, faults>>

\* UPDATE ... WHERE id = ? AND state = claimed.  The rescheduling form does
\* not look at the rows it affected.
CompleteWrite(c) ==
    /\ op[c].pc = "write" /\ op[c].outcome = "complete"
    /\ LET j == op[c].job
           hit == jobs[j].state = "claimed"
       IN  /\ jobs' = IF ~hit THEN jobs
                      ELSE IF op[c].again
                      THEN [jobs EXCEPT ![j].state = "pending", ![j].worker = NoClient,
                                        ![j].lease = 0, ![j].attempts = 0,
                                        ![j].runAt = op[c].next]
                      ELSE [jobs EXCEPT ![j].state = "done", ![j].worker = NoClient,
                                        ![j].lease = 0]
           /\ Return(c, IF hit \/ op[c].again THEN "ok" ELSE "not_found")
    /\ UNCHANGED <<now, faults>>

TriesLeft(j) == jobs[j].attempts < jobs[j].max

\* nya_job_fail decides on the attempts it read.
FailRead(c) ==
    /\ op[c].pc = "resolve" /\ op[c].outcome # "complete"
    /\ LET j == op[c].job
       IN  /\ jobs[j].state = "claimed"
           /\ op' = [op EXCEPT ![c].pc = "write",
                               ![c].again = op[c].outcome = "retry" /\ TriesLeft(j),
                               ![c].tries = jobs[j].attempts, ![c].at = now]
    /\ UNCHANGED <<now, jobs, faults>>

\* backoff_base doubled once per attempt after the first, held to the cap.
\* The code stops doubling at the cap, which keeps the value inside s64.
Capped(attempts) ==
    LET doubled == BackoffBase * 2 ^ (attempts - 1)
    IN  IF doubled < BackoffCap THEN doubled ELSE BackoffCap

\* _nya_jobs_backoff_ns: the delays jitter can leave of it.
Delays(attempts) ==
    {d \in 0 .. BackoffCap :
        \/ d = Capped(attempts)
        \/ /\ d < Capped(attempts)
           /\ (Capped(attempts) - d) * 100 < Capped(attempts) * JitterPercent}

\* UPDATE ... WHERE id = ?, whatever the state by now; the unique index refuses
\* a row that would become active beside a rival.
FailWrite(c) ==
    /\ op[c].pc = "write" /\ op[c].outcome # "complete"
    /\ LET j == op[c].job
       IN  \/ /\ op[c].again /\ Rivals(jobs[j].key, j) = {}
              /\ \E d \in Delays(op[c].tries) :
                    jobs' = [jobs EXCEPT ![j].state = "pending", ![j].worker = NoClient,
                                         ![j].lease = 0, ![j].runAt = op[c].at + d]
              /\ Return(c, "ok")
           \/ /\ op[c].again /\ Rivals(jobs[j].key, j) # {}
              /\ Return(c, "error")
              /\ UNCHANGED jobs
           \/ /\ ~op[c].again
              /\ jobs' = [jobs EXCEPT ![j].state = "dead", ![j].worker = NoClient,
                                      ![j].lease = 0]
              /\ Return(c, "ok")
    /\ UNCHANGED <<now, faults>>

(***************************************************************************)
(* Faults                                                                  *)
(***************************************************************************)

\* A process dies between two statements, with all its connections C: the
\* table keeps their claims.
Crash(C) ==
    /\ faults < MaxFaults
    /\ \E c \in C : op[c].pc # "idle"
    /\ op' = [c \in Clients |-> IF c \in C THEN IdleOp ELSE op[c]]
    /\ faults' = faults + 1
    /\ UNCHANGED <<now, jobs>>

\* A statement waits out busy_timeout_ms on the write lock.  A complete or a
\* fail is called again from its SELECT; a claim or an enqueue, and a complete
\* or a fail after its last retry, is given up (the row is left to its lease).
TimeoutRetry(c) ==
    /\ faults < MaxFaults
    /\ op[c].pc \in {"resolve", "write"}
    /\ op' = [op EXCEPT ![c].pc = "resolve", ![c].at = now]
    /\ faults' = faults + 1
    /\ UNCHANGED <<now, jobs>>

TimeoutGiveUp(c) ==
    /\ faults < MaxFaults
    /\ op[c].pc \in {"claim", "lookup", "resolve", "write"}
    /\ Return(c, "error")
    /\ faults' = faults + 1
    /\ UNCHANGED <<now, jobs>>

Timeout(c) == TimeoutRetry(c) \/ TimeoutGiveUp(c)

(***************************************************************************)
(* The queue                                                               *)
(***************************************************************************)
Produce(c) == \/ \E o \in Options : EnqueueNew(c, o) \/ EnqueueConflict(c, o)
              \/ Lookup(c) \/ EnqueueReturn(c)

Claim(c) == ClaimReap(c) \/ ClaimTake(c) \/ ClaimNothing(c)

Resolve(c) == \/ NotInFlight(c)
              \/ CompleteRead(c) \/ CompleteUnschedulable(c) \/ CompleteWrite(c)
              \/ FailRead(c) \/ FailWrite(c)

Work(c) == \/ Claim(c) \/ Resolve(c)
           \/ \E outcome \in Outcomes : HandlerReturns(c, outcome)

Next == \/ Tick
        \/ \E c \in Producers : Produce(c)
        \/ \E c \in Workers : Work(c)
        \/ \E c \in Clients : ReapExpired(c) \/ Timeout(c)
        \/ \E C \in SUBSET Clients : Crash(C)

Spec == Init /\ [][Next]_vars

(***************************************************************************)
(* Fairness: the wall clock advances, and a worker's loop keeps running    *)
(* its next statement (thread scheduling); crashes, timeouts, enqueues and *)
(* explicit sweeps are never owed.                                         *)
(***************************************************************************)
Fairness == /\ WF_vars(Tick)
            /\ \A c \in Workers : WF_vars(Work(c))

FairSpec == Spec /\ Fairness

-----------------------------------------------------------------------------

\* Every column and every saved value has its type.
TypeOK ==
    /\ now \in Nat
    /\ jobs \in [Ids -> Row]
    /\ op \in [Clients -> Op]
    /\ \A c \in Clients : Holds(c) => op[c].job \in Ids
    /\ faults \in 0 .. MaxFaults

\* "Two workers must never run the same job" (db_jobs.h): no job is held by
\* two live clients, from the claim to the end of the call that resolves it.
\* Needs the honest lease; crashes, lock timeouts, deadlines and recurrence
\* do not break it.
OneRunner ==
    \A c, d \in Clients : Holds(c) /\ Holds(d) /\ op[c].job = op[d].job => c = d

\* A live holder's claim is never taken from under it: its row is leased to it
\* and unexpired, or the expiry sweep abandoned it.
HolderKeepsClaim ==
    \A c \in Clients : Holds(c) =>
        \/ /\ jobs[op[c].job].state = "claimed"
           /\ jobs[op[c].job].worker = c
           /\ now < jobs[op[c].job].lease
        \/ jobs[op[c].job].state = "expired"

\* "At most one job per key is active (pending or claimed) at a time": also
\* when a late nya_job_fail makes a settled row pending again.
UniqueActive ==
    \A i, j \in Ids :
        /\ jobs[i].key = jobs[j].key /\ jobs[i].key # NoKey
        /\ jobs[i].state \in Active /\ jobs[j].state \in Active
        => i = j

\* A done or dead row is a tombstone: under the honest lease no late call of
\* another client brings it back.
SettledStays ==
    [][\A j \in Ids : jobs[j].state \in Settled => jobs'[j] = jobs[j]]_vars

\* A schedule is never silently finished: a completion that read the row as a
\* one-shot never lands on a row that recurs by the time it writes.  And it "fires
\* once on the next tick rather than a burst" (db_jobs.h): when a firing completes,
\* however late and after however many retries, the next one is due strictly after
\* the instant this one was claimed, on the schedule's grid.
SchedulesGoOn ==
    [][\A j \in Ids :
          LET completed == /\ Recurs(j) /\ jobs[j].state = "claimed"
                           /\ jobs'[j].state = "pending" /\ jobs'[j].attempts = 0
          IN /\ jobs'[j].state = "done" => jobs'[j].recur = 0 /\ jobs'[j].cron = 0
             /\ completed => jobs'[j].runAt > jobs[j].lease - Lease
             /\ completed /\ jobs[j].cron = 0
                => (jobs'[j].runAt - jobs[j].runAt) % jobs[j].recur = 0]_vars

\* A queue never wedges on a dead worker: a claim whose lease ends within the
\* modelled time is resolved, swept, or taken over under a fresh lease.
NeverWedged ==
    \A j \in Ids :
        (jobs[j].state = "claimed" /\ jobs[j].lease <= MaxTime)
            ~> (jobs[j].state # "claimed" \/ jobs[j].lease > MaxTime)

\* "The dead-letter state: kept for inspection, never run" (db_jobs.h): a dead
\* row is never made runnable again, whoever calls.
DeadNeverRuns ==
    [][\A j \in Ids : jobs[j].state = "dead" => jobs'[j].state \notin Active]_vars

=============================================================================
