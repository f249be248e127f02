-------------------------- MODULE DbJobWorkerProofs --------------------------
(***************************************************************************)
(* What holds of the job queue for every number of workers, producers,     *)
(* rows, keys and options, and every lease and backoff; and of the worker  *)
(* pool for every number of workers, rows, retries and restarts: its steps *)
(* on the table are steps of the queue, so what is proved of the queue     *)
(* holds under the pool, and when nya_jobworker_stop returns nothing of    *)
(* the pool is left half done.                                             *)
(***************************************************************************)
EXTENDS DbJobWorker, FiniteSetTheorems, TLAPS


-----------------------------------------------------------------------------
(* Operators *)

\* nya_cron_next never yields a negative instant.
LEMMA CronNextType ==
    ASSUME NEW p \in Nat \ {0}, NEW t \in Nat
    PROVE  CronNext(p, t) \in Nat
<1>1. t \div p \in Nat
  OBVIOUS
<1>2. ((t \div p) + 1) \in Nat
  BY <1>1
<1> QED
  BY <1>2 DEF CronNext

\* _nya_jobs_next_occurrence never yields a negative instant.
LEMMA NextOccurrenceType ==
    ASSUME NEW r \in Nat, NEW i \in Nat \ {0}, NEW t \in Nat
    PROVE  NextOccurrence(r, i, t) \in Nat
<1>1. CASE r + i > t
  BY <1>1 DEF NextOccurrence
<1>2. CASE ~(r + i > t)
  <2>1. t - r \in Nat
    BY <1>2
  <2>2. (t - r) \div i \in Nat
    BY <2>1
  <2> DEFINE q == ((t - r) \div i) + 1
  <2>3. q \in Nat
    BY <2>2
  <2> HIDE DEF q
  <2>4. q * i \in Nat
    BY <2>3
  <2>5. NextOccurrence(r, i, t) = r + q * i
    BY <1>2 DEF NextOccurrence, q
  <2> QED
    BY <2>4, <2>5
<1> QED
  BY <1>1, <1>2

\* The row an enqueue writes is well formed.
LEMMA NewRowType ==
    ASSUME TypeOK, NEW o \in Options, Accepted(o)
    PROVE  NewRow(o) \in Row
<1>1. o \in Option
  BY DbJobsAssumption
<1>2. FirstRun(o) \in Nat
  <2>1. CASE o.delay # 0
    BY <1>1, <2>1 DEF FirstRun, Option, TypeOK
  <2>2. CASE o.delay = 0 /\ o.cron > 0
    <3>1. o.cron \in Nat \ {0}
      BY <1>1, <2>2 DEF Option, Unsatisfiable
    <3> QED
      BY <3>1, <2>2, CronNextType DEF FirstRun, TypeOK
  <2>3. CASE o.delay = 0 /\ ~(o.cron > 0)
    BY <2>3 DEF FirstRun, TypeOK
  <2> QED
    BY <2>1, <2>2, <2>3
<1>3. MaxAttempts(o) \in Nat /\ Deadline(o) \in Nat
  BY <1>1, DbJobsAssumption DEF MaxAttempts, Deadline, Option, TypeOK
<1> QED
  BY <1>1, <1>2, <1>3 DEF NewRow, Row, Option, Active

-----------------------------------------------------------------------------
(* Type correctness *)

\* An empty table and idle clients.
LEMMA TypeInit == Init => TypeOK
  BY DbJobsAssumption
  DEF Init, TypeOK, AbsentRow, IdleOp, Row, Op, Outcomes, Holds

\* The sweep leaves rows.
LEMMA ReapedType ==
    ASSUME TypeOK, NEW t \in Nat
    PROVE  Reaped(t) \in [Ids -> Row]
<1> DEFINE Swept(j) == [jobs[j] EXCEPT !.state = "expired", !.worker = NoClient, !.lease = 0]
<1>1. \A j \in Ids : jobs[j] \in Row
  BY DEF TypeOK
<1>2. \A j \in Ids : Swept(j) \in Row
  BY <1>1 DEF Row
<1> HIDE DEF Swept
<1>3. Reaped(t) = [j \in Ids |->
          IF /\ jobs[j].deadline # 0 /\ jobs[j].deadline <= t
             /\ jobs[j].state \in Active
          THEN Swept(j) ELSE jobs[j]]
  BY DEF Reaped, Swept
<1> QED
  BY <1>1, <1>2, <1>3

\* A step that gives one client a well-formed call and keeps the rest typed.
LEMMA TypeOfCall ==
    ASSUME TypeOK, NEW c \in Clients, NEW x \in Op,
           x.pc \in {"run", "resolve", "write"} => x.job \in Ids,
           op' = [op EXCEPT ![c] = x],
           jobs' \in [Ids -> Row], now' \in Nat, faults' \in 0 .. MaxFaults
    PROVE  TypeOK'
  BY DEF TypeOK, Holds

\* A client's call ends: it is idle, with or without a result.
LEMMA TypeOfIdle ==
    /\ IdleOp \in Op
    /\ \A r \in {"none", "ok", "not_found", "error"} : [IdleOp EXCEPT !.res = r] \in Op
  BY DEF IdleOp, Op, Outcomes

\* A call that returns leaves the types as they are.
LEMMA TypeOfReturn ==
    ASSUME TypeOK, NEW c \in Clients, NEW r \in {"ok", "not_found", "error"},
           Return(c, r), jobs' \in [Ids -> Row], now' = now, faults' \in 0 .. MaxFaults
    PROVE  TypeOK'
<1> DEFINE x == [IdleOp EXCEPT !.res = r]
<1>1. x \in Op /\ x.pc = "idle"
  BY TypeOfIdle DEF IdleOp
<1>2. op' = [op EXCEPT ![c] = x]
  BY DEF Return
<1>3. now' \in Nat
  BY DEF TypeOK
<1> HIDE DEF x
<1> QED
  BY <1>1, <1>2, <1>3, TypeOfCall

\* Every step keeps the type invariant.
LEMMA TypeStep == TypeOK /\ [Next]_vars => TypeOK'
<1> SUFFICES ASSUME TypeOK, [Next]_vars PROVE TypeOK'
  OBVIOUS
<1> USE DbJobsAssumption
<1>1. CASE Tick
  BY <1>1 DEF Tick, TypeOK, Holds
<1>2. ASSUME NEW c \in Producers, NEW o \in Options, EnqueueNew(c, o) \/ EnqueueConflict(c, o)
      PROVE  TypeOK'
  <2>0. c \in Clients
    BY DEF Clients
  <2>1. NewRow(o) \in Row
    BY <1>2, NewRowType DEF EnqueueNew, EnqueueConflict
  <2>2. jobs' \in [Ids -> Row]
    BY <1>2, <2>1 DEF EnqueueNew, EnqueueConflict, Rivals, TypeOK
  <2> DEFINE x == IF o.key = NoKey THEN IdleOp
                  ELSE [IdleOp EXCEPT !.pc = "lookup", !.key = o.key]
  <2>3. op' = [op EXCEPT ![c] = x]
    BY <1>2 DEF EnqueueNew, EnqueueConflict, AfterInsert
  <2>4. o.key \in Keys \cup {NoKey}
    BY DEF Option
  <2>5. x \in Op /\ x.pc \in {"idle", "lookup"}
    BY <2>4 DEF IdleOp, Op, Outcomes
  <2>6. now' \in Nat /\ faults' \in 0 .. MaxFaults
    BY <1>2 DEF EnqueueNew, EnqueueConflict, TypeOK
  <2> HIDE DEF x
  <2> QED
    BY <2>0, <2>2, <2>3, <2>5, <2>6, TypeOfCall
<1>3. ASSUME NEW c \in Producers, Lookup(c) PROVE TypeOK'
  <2>0. c \in Clients
    BY DEF Clients
  <2>1. PICK j \in Ids \cup {0} : op' = [op EXCEPT ![c].pc = "enqueued", ![c].job = j]
    BY <1>3 DEF Lookup, Rivals
  <2> DEFINE x == [op[c] EXCEPT !.pc = "enqueued", !.job = j]
  <2>2. op' = [op EXCEPT ![c] = x]
    BY <2>0, <2>1 DEF TypeOK, Op
  <2>3. op[c] \in Op
    BY <2>0 DEF TypeOK
  <2>4. x \in Op /\ x.pc = "enqueued"
    BY <2>3 DEF Op
  <2>5. jobs' \in [Ids -> Row] /\ now' \in Nat /\ faults' \in 0 .. MaxFaults
    BY <1>3 DEF Lookup, TypeOK
  <2> HIDE DEF x
  <2> QED
    BY <2>0, <2>2, <2>4, <2>5, TypeOfCall
<1>4. ASSUME NEW c \in Clients, EnqueueReturn(c) \/ ClaimNothing(c)
      PROVE  TypeOK'
  <2>1. op' = [op EXCEPT ![c] = IdleOp]
    BY <1>4 DEF EnqueueReturn, ClaimNothing
  <2>2. jobs' \in [Ids -> Row] /\ now' \in Nat /\ faults' \in 0 .. MaxFaults
    BY <1>4 DEF EnqueueReturn, ClaimNothing, TypeOK
  <2>3. IdleOp.pc = "idle"
    BY DEF IdleOp
  <2> QED
    BY <2>1, <2>2, <2>3, TypeOfIdle, TypeOfCall
<1>5. ASSUME NEW c \in Clients, ReapExpired(c) PROVE TypeOK'
  BY <1>5, ReapedType DEF ReapExpired, TypeOK, Holds
<1>6. ASSUME NEW c \in Workers, ClaimReap(c) PROVE TypeOK'
  <2>0. c \in Clients
    BY DEF Clients
  <2> DEFINE x == [IdleOp EXCEPT !.pc = "claim", !.at = now]
  <2>1. op' = [op EXCEPT ![c] = x]
    BY <1>6 DEF ClaimReap
  <2>2. x \in Op /\ x.pc = "claim"
    BY DEF IdleOp, Op, Outcomes, TypeOK
  <2>3. jobs' \in [Ids -> Row] /\ now' \in Nat /\ faults' \in 0 .. MaxFaults
    BY <1>6, ReapedType DEF ClaimReap, TypeOK
  <2> HIDE DEF x
  <2> QED
    BY <2>0, <2>1, <2>2, <2>3, TypeOfCall
<1>7. ASSUME NEW c \in Workers, ClaimTake(c) PROVE TypeOK'
  <2>0. c \in Clients
    BY DEF Clients
  <2>1. PICK j \in Ids : /\ jobs' = [jobs EXCEPT ![j] = Leased(j, c, op[c].at)]
                         /\ op' = [op EXCEPT ![c] = [IdleOp EXCEPT !.pc = "run", !.job = j]]
    BY <1>7 DEF ClaimTake
  <2>2. op[c].at \in Nat /\ jobs[j] \in Row
    BY <2>0 DEF TypeOK, Op
  <2>3. Leased(j, c, op[c].at) \in Row
    <3>1. op[c].at + Lease \in Nat /\ jobs[j].attempts + 1 \in Nat
      BY <2>2 DEF Row
    <3> HIDE DbJobsAssumption
    <3> QED
      BY <2>0, <2>2, <3>1 DEF Leased, Row, Active
  <2>4. jobs' \in [Ids -> Row] /\ now' \in Nat /\ faults' \in 0 .. MaxFaults
    BY <1>7, <2>1, <2>3 DEF ClaimTake, TypeOK
  <2> DEFINE x == [IdleOp EXCEPT !.pc = "run", !.job = j]
  <2>5. x \in Op /\ x.job = j
    BY DEF IdleOp, Op, Outcomes
  <2> HIDE DEF x
  <2>6. op' = [op EXCEPT ![c] = x]
    BY <2>1 DEF x
  <2> QED
    BY <2>0, <2>4, <2>5, <2>6, TypeOfCall
<1>8. ASSUME NEW c \in Workers, NotInFlight(c) \/ CompleteUnschedulable(c) PROVE TypeOK'
  <2>0. c \in Clients
    BY DEF Clients
  <2>1. jobs' \in [Ids -> Row] /\ now' = now /\ faults' \in 0 .. MaxFaults
    BY <1>8 DEF NotInFlight, CompleteUnschedulable, TypeOK
  <2>2. Return(c, "not_found") \/ Return(c, "error")
    BY <1>8 DEF NotInFlight, CompleteUnschedulable
  <2> QED
    BY <2>0, <2>1, <2>2, TypeOfReturn
<1>9. ASSUME NEW c \in Workers, CompleteRead(c) PROVE TypeOK'
  <2> DEFINE j == op[c].job
             n == IF Recurs(j) THEN NextFire(j, op[c].at) ELSE 0
             x == [op[c] EXCEPT !.pc = "write", !.again = Recurs(j), !.next = n]
  <2>0. c \in Clients /\ op[c] \in Op
    BY DEF Clients, TypeOK
  <2>1. j \in Ids /\ op[c].at \in Nat
    BY <1>9, <2>0 DEF CompleteRead, TypeOK, Holds, Op
  <2>2. /\ jobs[j].recur \in Nat /\ jobs[j].runAt \in Nat
        /\ jobs[j].cron \in Nat \cup {Unsatisfiable} /\ jobs[j].cron # Unsatisfiable
    BY <1>9, <2>1 DEF CompleteRead, TypeOK, Row
  <2>3. n \in Nat
    <3>1. CASE jobs[j].cron > 0
      BY <2>1, <2>2, <3>1, CronNextType DEF NextFire
    <3>2. CASE ~(jobs[j].cron > 0)
      <4>1. Recurs(j) => jobs[j].recur \in Nat \ {0}
        BY <2>2, <3>2 DEF Recurs
      <4> QED
        BY <2>1, <2>2, <3>2, <4>1, NextOccurrenceType DEF NextFire
    <3> QED
      BY <3>1, <3>2
  <2>4. Recurs(j) \in BOOLEAN
    BY DEF Recurs
  <2>5. op' = [op EXCEPT ![c] = x]
    BY <1>9, <2>0 DEF CompleteRead, TypeOK, Op
  <2>6. x.job = j
    BY <2>0 DEF Op
  <2>7. jobs' \in [Ids -> Row] /\ now' \in Nat /\ faults' \in 0 .. MaxFaults
    BY <1>9 DEF CompleteRead, TypeOK
  <2> HIDE DEF n
  <2>8. x \in Op
    BY <2>0, <2>3, <2>4 DEF Op
  <2> HIDE DEF x, j
  <2> QED
    BY <2>0, <2>1, <2>5, <2>6, <2>7, <2>8, TypeOfCall
<1>10. ASSUME NEW c \in Workers, CompleteWrite(c) PROVE TypeOK'
  <2>0. c \in Clients /\ op[c] \in Op
    BY DEF Clients, TypeOK
  <2>1. op[c].job \in Ids /\ op[c].next \in Nat
    BY <1>10, <2>0 DEF CompleteWrite, TypeOK, Holds, Op
  <2>2. jobs[op[c].job] \in Row
    BY <2>1 DEF TypeOK
  <2>3. jobs' \in [Ids -> Row] /\ now' = now /\ faults' \in 0 .. MaxFaults
    BY <1>10, <2>1, <2>2, ZenonT(60) DEF CompleteWrite, TypeOK, Row, Active, Settled
  <2>4. Return(c, "ok") \/ Return(c, "not_found")
    BY <1>10 DEF CompleteWrite
  <2> QED
    BY <2>0, <2>3, <2>4, TypeOfReturn
<1>11. ASSUME NEW c \in Workers, FailRead(c) PROVE TypeOK'
  <2> DEFINE j == op[c].job
             a == op[c].outcome = "retry" /\ TriesLeft(j)
             x == [op[c] EXCEPT !.pc = "write", !.again = a, !.tries = jobs[j].attempts,
                                !.at = now]
  <2>0. c \in Clients /\ op[c] \in Op
    BY DEF Clients, TypeOK
  <2>1. j \in Ids /\ jobs[j].attempts \in Nat /\ now \in Nat
    BY <1>11, <2>0 DEF FailRead, TypeOK, Holds, Row
  <2>2. a \in BOOLEAN
    OBVIOUS
  <2>3. op' = [op EXCEPT ![c] = x]
    BY <1>11, <2>0 DEF FailRead, TypeOK, Op
  <2>4. x.job = j
    BY <2>0 DEF Op
  <2>5. jobs' \in [Ids -> Row] /\ now' \in Nat /\ faults' \in 0 .. MaxFaults
    BY <1>11 DEF FailRead, TypeOK
  <2> HIDE DEF a
  <2>6. x \in Op
    BY <2>0, <2>1, <2>2 DEF Op
  <2> HIDE DEF x, j
  <2> QED
    BY <2>0, <2>1, <2>3, <2>4, <2>5, <2>6, TypeOfCall
<1>12. ASSUME NEW c \in Workers, FailWrite(c) PROVE TypeOK'
  <2>0. c \in Clients /\ op[c] \in Op
    BY DEF Clients, TypeOK
  <2>1. op[c].job \in Ids /\ op[c].at \in Nat
    BY <1>12, <2>0 DEF FailWrite, TypeOK, Holds, Op
  <2>2. jobs[op[c].job] \in Row
    BY <2>1 DEF TypeOK
  <2>3. \A d \in Delays(op[c].tries) : d \in Nat
    BY DEF Delays
  <2> DEFINE j == op[c].job
             Retried(n) == [jobs[j] EXCEPT !.state = "pending", !.worker = NoClient,
                                           !.lease = 0, !.runAt = n]
             Buried == [jobs[j] EXCEPT !.state = "dead", !.worker = NoClient, !.lease = 0]
  <2>4. jobs' \in [Ids -> Row] /\ now' = now /\ faults' \in 0 .. MaxFaults
    <3>1. \A n \in Nat : Retried(n) \in Row
      BY <2>2 DEF Row, Active
    <3>2. Buried \in Row
      BY <2>2 DEF Row, Settled
    <3>3. \/ \E d \in Nat : jobs' = [jobs EXCEPT ![j] = Retried(op[c].at + d)]
          \/ jobs' = jobs
          \/ jobs' = [jobs EXCEPT ![j] = Buried]
      <4>1. jobs \in [Ids -> Row]
        BY DEF TypeOK
      <4>2. ASSUME NEW n,
                   jobs' = [jobs EXCEPT ![j].state = "pending", ![j].worker = NoClient,
                                        ![j].lease = 0, ![j].runAt = n]
            PROVE  jobs' = [jobs EXCEPT ![j] = Retried(n)]
        BY <2>1, <4>1, <4>2 DEF Row
      <4>3. ASSUME jobs' = [jobs EXCEPT ![j].state = "dead", ![j].worker = NoClient,
                                        ![j].lease = 0]
            PROVE  jobs' = [jobs EXCEPT ![j] = Buried]
        BY <2>1, <4>1, <4>3 DEF Row
      <4>4. \/ \E d \in Delays(op[c].tries) :
                  jobs' = [jobs EXCEPT ![j].state = "pending", ![j].worker = NoClient,
                                       ![j].lease = 0, ![j].runAt = op[c].at + d]
            \/ jobs' = jobs
            \/ jobs' = [jobs EXCEPT ![j].state = "dead", ![j].worker = NoClient,
                                    ![j].lease = 0]
        BY <1>12, Zenon DEF FailWrite
      <4> HIDE DEF Retried, Buried
      <4> QED
        BY <2>3, <4>2, <4>3, <4>4, Zenon
    <3> HIDE DEF Retried, Buried, j
    <3>4. \A d \in Nat : op[c].at + d \in Nat
      BY <2>1
    <3>5. jobs' \in [Ids -> Row]
      BY <3>1, <3>2, <3>3, <3>4 DEF TypeOK
    <3> QED
      BY <1>12, <3>5 DEF FailWrite, TypeOK
  <2>5. Return(c, "ok") \/ Return(c, "error")
    BY <1>12 DEF FailWrite
  <2> QED
    BY <2>0, <2>4, <2>5, TypeOfReturn
<1>13. ASSUME NEW c \in Workers, NEW outcome \in Outcomes, HandlerReturns(c, outcome)
       PROVE  TypeOK'
  <2> DEFINE x == [op[c] EXCEPT !.pc = "resolve", !.outcome = outcome, !.at = now]
  <2>0. c \in Clients /\ op[c] \in Op /\ now \in Nat
    BY DEF TypeOK, Clients
  <2>1. op' = [op EXCEPT ![c] = x]
    BY <1>13, <2>0 DEF HandlerReturns, TypeOK, Op
  <2>2. op[c].job \in Ids /\ x.job = op[c].job
    BY <1>13, <2>0 DEF HandlerReturns, TypeOK, Holds, Op
  <2>3. jobs' \in [Ids -> Row] /\ now' \in Nat /\ faults' \in 0 .. MaxFaults
    BY <1>13 DEF HandlerReturns, TypeOK
  <2>4. x \in Op
    BY <2>0 DEF Op
  <2> HIDE DEF x
  <2> QED
    BY <2>0, <2>1, <2>2, <2>3, <2>4, TypeOfCall
<1>15. ASSUME NEW c \in Clients, TimeoutRetry(c) PROVE TypeOK'
  <2> DEFINE x == [op[c] EXCEPT !.pc = "resolve", !.at = now]
  <2>0. op[c] \in Op /\ now \in Nat
    BY DEF TypeOK
  <2>1. op' = [op EXCEPT ![c] = x]
    BY <1>15, <2>0 DEF TimeoutRetry, TypeOK, Op
  <2>2. op[c].job \in Ids /\ x.job = op[c].job
    BY <1>15, <2>0 DEF TimeoutRetry, TypeOK, Holds, Op
  <2>3. jobs' \in [Ids -> Row] /\ now' \in Nat /\ faults' \in 0 .. MaxFaults
    BY <1>15 DEF TimeoutRetry, TypeOK
  <2>4. x \in Op
    BY <2>0 DEF Op
  <2> HIDE DEF x
  <2> QED
    BY <2>1, <2>2, <2>3, <2>4, TypeOfCall
<1>17. ASSUME NEW c \in Clients, TimeoutGiveUp(c) PROVE TypeOK'
  <2>1. jobs' \in [Ids -> Row] /\ now' = now /\ faults' \in 0 .. MaxFaults
    BY <1>17 DEF TimeoutGiveUp, TypeOK
  <2> QED
    BY <1>17, <2>1, TypeOfReturn DEF TimeoutGiveUp
<1>18. ASSUME NEW C \in SUBSET Clients, Crash(C) PROVE TypeOK'
  <2>1. op' \in [Clients -> Op]
    BY <1>18, TypeOfIdle DEF Crash, TypeOK
  <2>2. \A c \in Clients : op'[c] = op[c] \/ op'[c].pc = "idle"
    BY <1>18 DEF Crash, IdleOp
  <2> QED
    BY <1>18, <2>1, <2>2 DEF Crash, TypeOK, Holds
<1>14. CASE UNCHANGED vars
  BY <1>14 DEF vars, TypeOK, Holds
<1>16. Producers \subseteq Clients /\ Workers \subseteq Clients
  BY DEF Clients
<1> QED
  BY <1>1, <1>2, <1>3, <1>4, <1>5, <1>6, <1>7, <1>8, <1>9, <1>10, <1>11, <1>12, <1>13,
     <1>14, <1>15, <1>16, <1>17, <1>18
  DEF Next, Work, Produce, Claim, Resolve, Timeout

\* Every column of the table, and everything a call keeps between two
\* statements, always has its type.
THEOREM TypeCorrect == Spec => []TypeOK
<1>1. Init => TypeOK
  BY TypeInit
<1> QED
  BY <1>1, TypeStep, PTL DEF Spec

-----------------------------------------------------------------------------
(* One runner per job, while the lease outlasts every live holder *)

\* The inductive invariant.  OneRunner alone is not inductive: that a claim
\* takes no held row follows from every holder's row being leased to it and
\* unexpired (HolderKeepsClaim) and from the claim's clock reading being no
\* later than now; that a resolving write disturbs no other holder follows
\* from OneRunner itself.  ClaimFresh makes the lease a claim writes unexpired.
ClaimFresh ==
    \A c \in Clients : op[c].pc = "claim" => op[c].at <= now /\ now < op[c].at + Lease

Exclusive == HolderKeepsClaim /\ OneRunner /\ ClaimFresh

\* Nothing is claimed at first.
LEMMA ExclusiveInit == Init => Exclusive
  BY DEF Init, Exclusive, HolderKeepsClaim, OneRunner, ClaimFresh, Holds, IdleOp

\* A step after which the acting client holds nothing and is not claiming, and
\* that leaves every other holder's row alone or expires it.
LEMMA ExclusiveReleased ==
    ASSUME TypeOK, Exclusive, NEW c \in Clients, NEW x, op' = [op EXCEPT ![c] = x],
           x.pc \notin {"claim", "run", "resolve", "write"}, now' = now,
           \A d \in Clients \ {c} : Holds(d) =>
               \/ jobs'[op[d].job] = jobs[op[d].job]
               \/ jobs'[op[d].job].state = "expired"
    PROVE  Exclusive'
<1>1. \A d \in Clients : d # c => op'[d] = op[d]
  BY DEF TypeOK
<1>2. op'[c] = x
  BY DEF TypeOK
<1> QED
  BY <1>1, <1>2 DEF Exclusive, HolderKeepsClaim, OneRunner, ClaimFresh, Holds

\* A step of a holder that keeps its job and touches no row.
LEMMA ExclusiveKept ==
    ASSUME TypeOK, Exclusive, NEW c \in Clients, Holds(c),
           NEW x, op' = [op EXCEPT ![c] = x],
           x.pc \in {"run", "resolve", "write"}, x.job = op[c].job,
           now' = now, jobs' = jobs
    PROVE  Exclusive'
<1>1. \A d \in Clients : d # c => op'[d] = op[d]
  BY DEF TypeOK
<1>2. op'[c] = x
  BY DEF TypeOK
<1> QED
  BY <1>1, <1>2 DEF Exclusive, HolderKeepsClaim, OneRunner, ClaimFresh, Holds

\* The sweep leaves a held row alone or expires it.
LEMMA ReapedRow ==
    ASSUME NEW j \in Ids, NEW t
    PROVE  Reaped(t)[j] = jobs[j] \/ Reaped(t)[j].state = "expired"
<1>1. Reaped(t)[j] = IF /\ jobs[j].deadline # 0 /\ jobs[j].deadline <= t
                        /\ jobs[j].state \in Active
                     THEN [jobs[j] EXCEPT !.state = "expired", !.worker = NoClient, !.lease = 0]
                     ELSE jobs[j]
  BY DEF Reaped
<1> QED
  BY <1>1

\* Under the honest lease every step keeps the invariant.
LEMMA ExclusiveStep ==
    ASSUME HonestLease, TypeOK, Exclusive, [Next]_vars
    PROVE  Exclusive'
<1> USE DbJobsAssumption
<1>1. CASE Tick
  BY <1>1 DEF Tick, LeasesOutlast, Exclusive, HolderKeepsClaim, OneRunner, ClaimFresh,
              Holds, TypeOK, Op
<1>2. ASSUME NEW c \in Clients, NEW o \in Options, EnqueueNew(c, o) \/ EnqueueConflict(c, o)
      PROVE  Exclusive'
  <2> DEFINE x == IF o.key = NoKey THEN IdleOp
                  ELSE [IdleOp EXCEPT !.pc = "lookup", !.key = o.key]
  <2>1. op' = [op EXCEPT ![c] = x] /\ now' = now
    BY <1>2 DEF EnqueueNew, EnqueueConflict, AfterInsert
  <2>2. x.pc \in {"idle", "lookup"}
    BY DEF IdleOp
  <2>3. \A j \in Ids : jobs[j].state \in {"claimed", "expired"} => jobs'[j] = jobs[j]
    BY <1>2 DEF EnqueueNew, EnqueueConflict, IsNextId, TypeOK
  <2>4. \A d \in Clients : Holds(d) => jobs'[op[d].job] = jobs[op[d].job]
    BY <2>3 DEF Exclusive, HolderKeepsClaim, TypeOK
  <2> HIDE DEF x
  <2> QED
    BY <2>1, <2>2, <2>4, ExclusiveReleased
<1>3. ASSUME NEW c \in Clients, EnqueueReturn(c) \/ ClaimNothing(c) PROVE Exclusive'
  <2>1. op' = [op EXCEPT ![c] = IdleOp] /\ now' = now /\ jobs' = jobs
    BY <1>3 DEF EnqueueReturn, ClaimNothing
  <2>2. IdleOp.pc = "idle"
    BY DEF IdleOp
  <2> QED
    BY <2>1, <2>2, ExclusiveReleased
<1>4. ASSUME NEW c \in Clients, Lookup(c) PROVE Exclusive'
  <2>1. PICK j : op' = [op EXCEPT ![c].pc = "enqueued", ![c].job = j]
    BY <1>4 DEF Lookup
  <2> DEFINE x == [op[c] EXCEPT !.pc = "enqueued", !.job = j]
  <2>2. op' = [op EXCEPT ![c] = x] /\ x.pc = "enqueued"
    BY <2>1 DEF TypeOK, Op
  <2>3. now' = now /\ jobs' = jobs
    BY <1>4 DEF Lookup
  <2> HIDE DEF x
  <2> QED
    BY <2>2, <2>3, ExclusiveReleased
<1>5. ASSUME NEW c \in Clients, NEW r, Return(c, r), now' = now,
             \A d \in Clients \ {c} : Holds(d) =>
                 \/ jobs'[op[d].job] = jobs[op[d].job]
                 \/ jobs'[op[d].job].state = "expired"
      PROVE  Exclusive'
  <2> DEFINE x == [IdleOp EXCEPT !.res = r]
  <2>1. op' = [op EXCEPT ![c] = x] /\ x.pc = "idle"
    BY <1>5 DEF Return, IdleOp
  <2> HIDE DEF x
  <2> QED
    BY <1>5, <2>1, ExclusiveReleased
<1>6. ASSUME NEW c \in Clients,
             NotInFlight(c) \/ CompleteUnschedulable(c) \/ TimeoutGiveUp(c)
      PROVE  Exclusive'
  <2>1. now' = now /\ jobs' = jobs /\ \E r : Return(c, r)
    BY <1>6 DEF NotInFlight, CompleteUnschedulable, TimeoutGiveUp
  <2> QED
    BY <2>1, <1>5
<1>7. ASSUME NEW c \in Clients, CompleteWrite(c) \/ FailWrite(c) PROVE Exclusive'
  <2>1. Holds(c)
    BY <1>7 DEF CompleteWrite, FailWrite, Holds
  <2>2. \A j \in Ids : j # op[c].job => jobs'[j] = jobs[j]
    BY <1>7 DEF CompleteWrite, FailWrite, TypeOK
  <2>3. \A d \in Clients \ {c} : Holds(d) => jobs'[op[d].job] = jobs[op[d].job]
    BY <2>1, <2>2 DEF Exclusive, OneRunner, TypeOK
  <2>4. now' = now /\ \E r : Return(c, r)
    BY <1>7 DEF CompleteWrite, FailWrite
  <2> QED
    BY <2>3, <2>4, <1>5
<1>8. ASSUME NEW c \in Clients,
             \/ CompleteRead(c) \/ FailRead(c) \/ TimeoutRetry(c)
             \/ \E outcome \in Outcomes : HandlerReturns(c, outcome)
      PROVE  Exclusive'
  <2>1. Holds(c) /\ now' = now /\ jobs' = jobs
    BY <1>8 DEF CompleteRead, FailRead, TimeoutRetry, HandlerReturns, Holds
  <2>2. op[c] \in Op
    BY DEF TypeOK
  <2>3. /\ op' = [op EXCEPT ![c] = op'[c]] /\ op'[c].job = op[c].job
        /\ op'[c].pc \in {"resolve", "write"}
    <3>1. CASE CompleteRead(c)
      BY <3>1, <2>2 DEF CompleteRead, TypeOK, Op
    <3>2. CASE FailRead(c)
      BY <3>2, <2>2 DEF FailRead, TypeOK, Op
    <3>3. CASE TimeoutRetry(c)
      BY <3>3, <2>2 DEF TimeoutRetry, TypeOK, Op
    <3>4. ASSUME NEW outcome \in Outcomes, HandlerReturns(c, outcome)
          PROVE  /\ op' = [op EXCEPT ![c] = op'[c]] /\ op'[c].job = op[c].job
                 /\ op'[c].pc \in {"resolve", "write"}
      BY <3>4, <2>2 DEF HandlerReturns, TypeOK, Op
    <3> QED
      BY <1>8, <3>1, <3>2, <3>3, <3>4
  <2> QED
    BY <2>1, <2>3, ExclusiveKept
<1>9. ASSUME NEW c \in Clients, ReapExpired(c) PROVE Exclusive'
  <2>1. \A d \in Clients : Holds(d) => \/ jobs'[op[d].job] = jobs[op[d].job]
                                       \/ jobs'[op[d].job].state = "expired"
    BY <1>9, ReapedRow DEF ReapExpired, TypeOK
  <2> QED
    BY <1>9, <2>1 DEF ReapExpired, Exclusive, HolderKeepsClaim, OneRunner, ClaimFresh, Holds
<1>10. ASSUME NEW c \in Clients, ClaimReap(c) PROVE Exclusive'
  <2>1. \A d \in Clients : Holds(d) => \/ jobs'[op[d].job] = jobs[op[d].job]
                                       \/ jobs'[op[d].job].state = "expired"
    BY <1>10, ReapedRow DEF ClaimReap, TypeOK
  <2>2. \A d \in Clients : d # c => op'[d] = op[d]
    BY <1>10 DEF ClaimReap, TypeOK
  <2>3. op'[c].pc = "claim" /\ op'[c].at = now /\ now' = now
    BY <1>10 DEF ClaimReap, TypeOK, IdleOp
  <2>4. now \in Nat
    BY DEF TypeOK
  <2> QED
    BY <2>1, <2>2, <2>3, <2>4 DEF Exclusive, HolderKeepsClaim, OneRunner, ClaimFresh, Holds
<1>11. ASSUME NEW c \in Clients, ClaimTake(c) PROVE Exclusive'
  <2>1. PICK j \in Ids : /\ Due(j, op[c].at)
                         /\ jobs' = [jobs EXCEPT ![j] = Leased(j, c, op[c].at)]
                         /\ op' = [op EXCEPT ![c] = [IdleOp EXCEPT !.pc = "run", !.job = j]]
    BY <1>11 DEF ClaimTake
  <2>2. /\ op[c].pc = "claim" /\ op[c].at <= now /\ now < op[c].at + Lease
        /\ now' = now /\ now \in Nat /\ op[c].at \in Nat
    BY <1>11 DEF ClaimTake, Exclusive, ClaimFresh, TypeOK, Op
  <2>3. ASSUME NEW d \in Clients, Holds(d) PROVE op[d].job # j
    <3>1. op[d].job = j => \/ jobs[j].state = "claimed" /\ now < jobs[j].lease
                           \/ jobs[j].state = "expired"
      BY <2>3 DEF Exclusive, HolderKeepsClaim
    <3>2. jobs[j].lease \in Nat
      BY DEF TypeOK, Row
    <3>3. \/ jobs[j].state = "pending"
          \/ jobs[j].state = "claimed" /\ jobs[j].lease <= op[c].at
      <4>1. jobs[j].state \in Active /\ (jobs[j].state = "claimed" => jobs[j].lease <= op[c].at)
        BY <2>1, Zenon DEF Due
      <4> QED
        BY <4>1 DEF Active
    <3> QED
      BY <2>2, <3>1, <3>2, <3>3
  <2>4. \A d \in Clients : d # c => op'[d] = op[d]
    BY <2>1 DEF TypeOK
  <2>5. op'[c].pc = "run" /\ op'[c].job = j
    BY <2>1 DEF TypeOK, IdleOp
  <2>6. \A i \in Ids : i # j => jobs'[i] = jobs[i]
    BY <2>1 DEF TypeOK
  <2>7. jobs'[j].state = "claimed" /\ jobs'[j].worker = c /\ now' < jobs'[j].lease
    <3>1. jobs'[j] = Leased(j, c, op[c].at) /\ jobs[j] \in Row
      BY <2>1 DEF TypeOK
    <3> QED
      BY <2>2, <3>1 DEF Leased, Row
  <2>8. HolderKeepsClaim'
    <3> SUFFICES ASSUME NEW d \in Clients, Holds(d)'
                 PROVE  \/ /\ jobs'[op'[d].job].state = "claimed"
                           /\ jobs'[op'[d].job].worker = d
                           /\ now' < jobs'[op'[d].job].lease
                        \/ jobs'[op'[d].job].state = "expired"
      BY DEF HolderKeepsClaim
    <3>1. CASE d = c
      BY <2>5, <2>7, <3>1
    <3>2. CASE d # c
      <4>1. Holds(d) /\ op'[d].job = op[d].job /\ op[d].job \in Ids
        BY <2>4, <3>2 DEF Holds, TypeOK
      <4> QED
        BY <2>2, <2>3, <2>6, <4>1 DEF Exclusive, HolderKeepsClaim
    <3> QED
      BY <3>1, <3>2
  <2>9. OneRunner'
    BY <2>3, <2>4, <2>5 DEF Exclusive, OneRunner, Holds
  <2>10. ClaimFresh'
    BY <2>2, <2>4, <2>5 DEF Exclusive, ClaimFresh
  <2> QED
    BY <2>8, <2>9, <2>10 DEF Exclusive
<1>12. CASE UNCHANGED vars
  BY <1>12 DEF vars, Exclusive, HolderKeepsClaim, OneRunner, ClaimFresh, Holds
<1>13. Producers \subseteq Clients /\ Workers \subseteq Clients
  BY DEF Clients
<1>14. ASSUME NEW C \in SUBSET Clients, Crash(C) PROVE Exclusive'
  <2>1. \A c \in Clients : op'[c] = op[c] \/ op'[c].pc = "idle"
    BY <1>14 DEF Crash, IdleOp
  <2> QED
    BY <1>14, <2>1 DEF Crash, Exclusive, HolderKeepsClaim, OneRunner, ClaimFresh, Holds
<1> QED
  BY <1>1, <1>2, <1>3, <1>4, <1>6, <1>7, <1>8, <1>9, <1>10, <1>11, <1>12, <1>13, <1>14
  DEF Next, Work, Produce, Claim, Resolve, Timeout

\* Under the honest lease the types and the exclusive claim hold throughout.
LEMMA ExclusiveAlways == ASSUME HonestLease PROVE Spec => [](TypeOK /\ Exclusive)
<1>1. Init => TypeOK /\ Exclusive
  BY TypeInit, ExclusiveInit
<1>2. TypeOK /\ Exclusive /\ [Next]_vars => (TypeOK /\ Exclusive)'
  BY TypeStep, ExclusiveStep
<1> QED
  BY <1>1, <1>2, PTL DEF Spec

\* "Two workers must never run the same job": when the lease outlasts every
\* live holder, no job is ever held by two clients, whatever crashes, lock
\* timeouts, deadlines, replacements and recurrences do.
THEOREM OneRunnerAlways == ASSUME HonestLease PROVE Spec => []OneRunner
  BY ExclusiveAlways, PTL DEF Exclusive

\* A live holder's claim is never taken from under it: its row stays leased to
\* it until it resolves it, or the deadline sweep abandoned the row.
THEOREM HolderKeepsClaimAlways == ASSUME HonestLease PROVE Spec => []HolderKeepsClaim
  BY ExclusiveAlways, PTL DEF Exclusive

-----------------------------------------------------------------------------
(* Tombstones *)

\* No step changes a settled row.
LEMMA SettledStep ==
    ASSUME TypeOK, Exclusive, [Next]_vars, NEW j \in Ids, jobs[j].state \in Settled
    PROVE  jobs'[j] = jobs[j]
<1>1. jobs[j].state \notin Active /\ jobs[j].state \notin {"absent", "claimed", "expired"}
  BY DEF Active, Settled
<1>2. ASSUME NEW c \in Producers, NEW o \in Options, EnqueueNew(c, o) \/ EnqueueConflict(c, o)
      PROVE  jobs'[j] = jobs[j]
  BY <1>1, <1>2 DEF EnqueueNew, EnqueueConflict, IsNextId, Rivals, TypeOK
<1>3. ASSUME NEW t PROVE Reaped(t)[j] = jobs[j]
  BY <1>1 DEF Reaped
<1>4. ASSUME NEW c \in Workers, ClaimTake(c) PROVE jobs'[j] = jobs[j]
  BY <1>1, <1>4 DEF ClaimTake, Due, TypeOK
<1>5. ASSUME NEW c \in Workers, CompleteWrite(c) PROVE jobs'[j] = jobs[j]
  BY <1>1, <1>5 DEF CompleteWrite, TypeOK
<1>6. ASSUME NEW c \in Workers, FailWrite(c) PROVE jobs'[j] = jobs[j]
  <2>1. c \in Clients /\ Holds(c)
    BY <1>6 DEF FailWrite, Holds, Clients
  <2>2. op[c].job # j
    BY <1>1, <2>1 DEF Exclusive, HolderKeepsClaim
  <2> QED
    BY <1>6, <2>2 DEF FailWrite, TypeOK
<1>7. ASSUME NEW c \in Clients,
             \/ Lookup(c) \/ EnqueueReturn(c) \/ ClaimNothing(c) \/ Timeout(c)
             \/ NotInFlight(c) \/ CompleteRead(c) \/ CompleteUnschedulable(c) \/ FailRead(c)
             \/ \E outcome \in Outcomes : HandlerReturns(c, outcome)
      PROVE  jobs'[j] = jobs[j]
  BY <1>7 DEF Lookup, EnqueueReturn, ClaimNothing, Timeout, TimeoutRetry, TimeoutGiveUp,
              NotInFlight, CompleteRead,
              CompleteUnschedulable, FailRead, HandlerReturns
<1>8. CASE Tick \/ UNCHANGED vars \/ \E C \in SUBSET Clients : Crash(C)
  BY <1>8 DEF Tick, vars, Crash
<1>9. Producers \subseteq Clients /\ Workers \subseteq Clients
  BY DEF Clients
<1>10. ASSUME NEW c \in Clients, ReapExpired(c) \/ ClaimReap(c) PROVE jobs'[j] = jobs[j]
  BY <1>3, <1>10 DEF ReapExpired, ClaimReap
<1> QED
  BY <1>2, <1>4, <1>5, <1>6, <1>7, <1>8, <1>9, <1>10
  DEF Next, Work, Produce, Claim, Resolve

\* A done or dead row is a tombstone while the lease outlasts every live
\* holder: no late nya_job_fail, whose UPDATE does not test the state, and no
\* sweep or claim changes it again.
THEOREM SettledStaysAlways == ASSUME HonestLease PROVE Spec => SettledStays
<1>1. TypeOK /\ Exclusive /\ [Next]_vars
        => [\A j \in Ids : jobs[j].state \in Settled => jobs'[j] = jobs[j]]_vars
  BY SettledStep
<1> QED
  BY <1>1, ExclusiveAlways, PTL DEF Spec, SettledStays

-----------------------------------------------------------------------------
(* At most one active job per key, whatever the lease *)

\* Every step keeps at most one active row per key.
LEMMA UniqueStep ==
    ASSUME TypeOK, UniqueActive, [Next]_vars
    PROVE  UniqueActive'
<1> DEFINE Same(i) == \/ jobs'[i].state \notin Active
                      \/ jobs'[i].key = jobs[i].key /\ jobs[i].state \in Active
\* It is enough that each row stays active under its key, stops being active, or
\* becomes active without a rival.
<1>1. ASSUME NEW j \in Ids, \A i \in Ids \ {j} : jobs'[i] = jobs[i],
             jobs'[j].state \in Active => Rivals(jobs'[j].key, j) = {}
      PROVE  UniqueActive'
  <2> SUFFICES ASSUME NEW a \in Ids, NEW b \in Ids, a # b,
                      jobs'[a].key = jobs'[b].key, jobs'[a].key # NoKey,
                      jobs'[a].state \in Active, jobs'[b].state \in Active
               PROVE  FALSE
    BY DEF UniqueActive
  <2>1. CASE a = j
    BY <1>1, <2>1 DEF Rivals
  <2>2. CASE b = j
    BY <1>1, <2>2 DEF Rivals
  <2>3. CASE a # j /\ b # j
    BY <1>1, <2>3 DEF UniqueActive
  <2> QED
    BY <2>1, <2>2, <2>3
<1>2. ASSUME \A i \in Ids : Same(i) PROVE UniqueActive'
  BY <1>2 DEF UniqueActive
<1>3. jobs \in [Ids -> Row]
  BY DEF TypeOK
<1>4. ASSUME NEW c \in Producers, NEW o \in Options, EnqueueNew(c, o) PROVE UniqueActive'
  <2>1. PICK j \in Ids : Rivals(o.key, j) = {} /\ jobs' = [jobs EXCEPT ![j] = NewRow(o)]
    BY <1>4 DEF EnqueueNew
  <2>2. jobs'[j].key = o.key /\ \A i \in Ids \ {j} : jobs'[i] = jobs[i]
    BY <1>3, <2>1 DEF NewRow
  <2> QED
    BY <1>1, <2>1, <2>2
<1>5. ASSUME NEW c \in Producers, NEW o \in Options, EnqueueConflict(c, o) PROVE UniqueActive'
  <2>1. PICK j \in Rivals(o.key, 0) : jobs' = jobs \/ jobs' = [jobs EXCEPT ![j] = NewRow(o)]
    BY <1>5 DEF EnqueueConflict
  <2>2. j \in Ids /\ jobs[j].key = o.key /\ jobs[j].state \in Active
    BY <2>1 DEF Rivals
  <2>3. NewRow(o).key = o.key
    BY DEF NewRow
  <2>4. \A i \in Ids : Same(i)
    BY <1>3, <2>1, <2>2, <2>3
  <2> QED
    BY <1>2, <2>4
<1>6. ASSUME NEW c \in Clients, ReapExpired(c) \/ ClaimReap(c) PROVE UniqueActive'
  <2>1. jobs' = Reaped(now)
    BY <1>6 DEF ReapExpired, ClaimReap
  <2>2. \A i \in Ids : Same(i)
    BY <2>1, ReapedRow DEF Active
  <2> QED
    BY <1>2, <2>2
<1>7. ASSUME NEW c \in Workers, ClaimTake(c) PROVE UniqueActive'
  <2>1. PICK j \in Ids : Due(j, op[c].at) /\ jobs' = [jobs EXCEPT ![j] = Leased(j, c, op[c].at)]
    BY <1>7 DEF ClaimTake
  <2>2. jobs[j].state \in Active
    BY <2>1, Zenon DEF Due
  <2>3. Leased(j, c, op[c].at).key = jobs[j].key
    BY <1>3 DEF Leased, Row
  <2>4. \A i \in Ids : Same(i)
    BY <1>3, <2>1, <2>2, <2>3
  <2> QED
    BY <1>2, <2>4
<1>8. ASSUME NEW c \in Workers, CompleteWrite(c) PROVE UniqueActive'
  <2> DEFINE j == op[c].job
  <2>1. j \in Ids /\ jobs[j] \in Row
    BY <1>3, <1>8 DEF CompleteWrite, TypeOK, Holds, Clients
  <2>2. \A i \in Ids \ {j} : jobs'[i] = jobs[i]
    BY <1>3, <1>8 DEF CompleteWrite
  <2>3. CASE jobs[j].state # "claimed"
    BY <1>2, <1>8, <2>3 DEF CompleteWrite
  <2>4. CASE jobs[j].state = "claimed" /\ op[c].again
    <3>1. jobs'[j].key = jobs[j].key /\ jobs[j].state \in Active
      BY <1>3, <1>8, <2>1, <2>4 DEF CompleteWrite, Row, Active
    <3> HIDE DEF j
    <3> QED
      BY <1>2, <2>2, <3>1
  <2>5. CASE jobs[j].state = "claimed" /\ ~op[c].again
    <3>1. jobs'[j].state = "done"
      BY <1>3, <1>8, <2>1, <2>5 DEF CompleteWrite, Row
    <3> HIDE DEF j
    <3> QED
      BY <1>2, <2>2, <3>1 DEF Active
  <2> QED
    BY <2>3, <2>4, <2>5
<1>9. ASSUME NEW c \in Workers, FailWrite(c) PROVE UniqueActive'
  <2> DEFINE j == op[c].job
  <2>1. c \in Clients /\ j \in Ids
    BY <1>9 DEF FailWrite, TypeOK, Holds, Clients
  <2>2. \A i \in Ids \ {j} : jobs'[i] = jobs[i]
    BY <1>3, <1>9 DEF FailWrite
  <2>3. \/ jobs' = jobs
        \/ jobs'[j].state \notin Active
        \/ jobs'[j].key = jobs[j].key /\ Rivals(jobs[j].key, j) = {}
    <3>1. CASE ~op[c].again
      <4>1. jobs' = [jobs EXCEPT ![j].state = "dead", ![j].worker = NoClient, ![j].lease = 0]
        BY <1>9, <3>1, Zenon DEF FailWrite
      <4>2. jobs'[j].state = "dead"
        BY <1>3, <2>1, <4>1 DEF Row
      <4> QED
        BY <4>2 DEF Active
    <3>2. CASE op[c].again /\ Rivals(jobs[j].key, j) = {}
      <4>1. PICK n : jobs' = [jobs EXCEPT ![j].state = "pending", ![j].worker = NoClient,
                                          ![j].lease = 0, ![j].runAt = n]
        BY <1>9, <3>2, Zenon DEF FailWrite
      <4>2. jobs'[j].key = jobs[j].key
        BY <1>3, <2>1, <4>1 DEF Row
      <4> QED
        BY <3>2, <4>2
    <3>3. CASE op[c].again /\ Rivals(jobs[j].key, j) # {}
      BY <1>9, <3>3, Zenon DEF FailWrite
    <3> QED
      BY <3>1, <3>2, <3>3, Zenon
  <2> HIDE DEF j
  <2> QED
    BY <1>1, <2>1, <2>2, <2>3 DEF UniqueActive
<1>10. ASSUME NEW c \in Clients,
             \/ Lookup(c) \/ EnqueueReturn(c) \/ ClaimNothing(c) \/ Timeout(c)
             \/ NotInFlight(c) \/ CompleteRead(c) \/ CompleteUnschedulable(c) \/ FailRead(c)
             \/ \E outcome \in Outcomes : HandlerReturns(c, outcome)
      PROVE  UniqueActive'
  <2>1. jobs' = jobs
    BY <1>10 DEF Lookup, EnqueueReturn, ClaimNothing, Timeout, TimeoutRetry, TimeoutGiveUp,
                 NotInFlight, CompleteRead,
                 CompleteUnschedulable, FailRead, HandlerReturns
  <2> QED
    BY <2>1 DEF UniqueActive
<1>11. CASE Tick \/ UNCHANGED vars \/ \E C \in SUBSET Clients : Crash(C)
  BY <1>11 DEF Tick, vars, Crash, UniqueActive
<1>12. Producers \subseteq Clients /\ Workers \subseteq Clients
  BY DEF Clients
<1> QED
  BY <1>4, <1>5, <1>6, <1>7, <1>8, <1>9, <1>10, <1>11, <1>12
  DEF Next, Work, Produce, Claim, Resolve

\* "At most one job per key is active at a time", with no assumption on leases:
\* also when a nya_job_fail that lost its lease revives a settled row.
THEOREM UniqueActiveAlways == Spec => []UniqueActive
<1>1. Init => UniqueActive
  BY DEF Init, UniqueActive, AbsentRow, Active
<1> QED
  BY <1>1, TypeInit, TypeStep, UniqueStep, PTL DEF Spec

-----------------------------------------------------------------------------
(* Schedules *)

\* The next firing lies after the instant it is computed for.
LEMMA CronNextLater ==
    ASSUME NEW p \in Nat \ {0}, NEW t \in Nat
    PROVE  CronNext(p, t) > t
<1>1. t \div p \in Nat
  OBVIOUS
<1>2. t = p * (t \div p) + (t % p) /\ t % p \in 0 .. (p - 1)
  BY SMTT(30)
<1>3. ((t \div p) + 1) * p > t
  BY SMTT(30)
<1> QED
  BY <1>3 DEF CronNext

\* The next occurrence lies after the instant it is computed for, on the grid of
\* the interval.
LEMMA NextOccurrenceOnGrid ==
    ASSUME NEW r \in Nat, NEW i \in Nat \ {0}, NEW t \in Nat
    PROVE  /\ NextOccurrence(r, i, t) > t
           /\ (NextOccurrence(r, i, t) - r) % i = 0
<1>1. CASE r + i > t
  <2>1. (r + i) - r = i /\ i % i = 0
    BY SMTT(30)
  <2> QED
    BY <1>1, <2>1 DEF NextOccurrence
<1>2. CASE ~(r + i > t)
  <2> DEFINE s == t - r
  <2>1. s \in Nat
    BY <1>2
  <2>2. NextOccurrence(r, i, t) = r + CronNext(i, s)
    BY <1>2 DEF NextOccurrence, CronNext
  <2>3. CronNext(i, s) > s /\ CronNext(i, s) \in Nat
    <3> HIDE DEF s
    <3> QED
      BY <2>1, CronNextLater, CronNextType
  <2>4. CronNext(i, s) % i = 0
    <3>1. s \div i \in Nat
      BY <2>1
    <3> DEFINE n == (s \div i) + 1
    <3>2. n \in Nat
      BY <3>1
    <3> HIDE DEF n, s
    <3>3. (n * i) % i = 0
      BY <3>2, SMTT(30)
    <3> QED
      BY <3>3 DEF n, CronNext
  <2>5. (r + CronNext(i, s)) - r = CronNext(i, s)
    BY <2>3
  <2>6. r + CronNext(i, s) > t
    <3>1. s + r = t
      OBVIOUS
    <3> HIDE DEF s
    <3> QED
      BY <2>1, <2>3, <3>1
  <2> QED
    BY <2>2, <2>4, <2>5, <2>6
<1> QED
  BY <1>1, <1>2

\* The inductive invariant of SchedulesGoOn, beside Exclusive.  A row's lease
\* tells when it was claimed; a settled row has no schedule left; and what a
\* completion read of its row is still what the row says when it writes: the
\* firing it chose lies after the claim and on the grid the row still has.
ClaimedBefore ==
    \A j \in Ids : jobs[j].state = "claimed" =>
        jobs[j].lease - Lease <= now /\ jobs[j].attempts >= 1

DoneForGood ==
    \A j \in Ids : jobs[j].state = "done" => jobs[j].recur = 0 /\ jobs[j].cron = 0

\* What client c knows of row r, which it holds, when its call stands at o.
ReadAfterClaim(o, r) ==
    o.pc \in {"resolve", "write"} => r.lease - Lease <= o.at

Chosen(o, r) ==
    o.pc = "write" /\ o.outcome = "complete" =>
        /\ ~o.again => r.recur = 0 /\ r.cron = 0
        /\ o.again => /\ o.next > r.lease - Lease
                      /\ r.cron = 0 => (o.next - r.runAt) % r.recur = 0

WellRead ==
    \A c \in Clients :
        LET r == jobs[op[c].job]
        IN  Holds(c) /\ r.state = "claimed" => ReadAfterClaim(op[c], r) /\ Chosen(op[c], r)

Scheduled == ClaimedBefore /\ DoneForGood /\ WellRead

\* What a completing or failing UPDATE of client c leaves of its row.
Completed(c, j) ==
    /\ op[c].pc = "write" /\ op[c].outcome = "complete" /\ op[c].job = j
    /\ jobs[j].state = "claimed"
    /\ jobs'[j].recur = jobs[j].recur /\ jobs'[j].cron = jobs[j].cron
    /\ op[c].again => jobs'[j].state = "pending" /\ jobs'[j].runAt = op[c].next
    /\ ~op[c].again => jobs'[j].state = "done"

Failed(j) ==
    jobs'[j].state \in {"pending", "dead"} /\ jobs'[j].attempts = jobs[j].attempts

Entered(j) ==
    jobs[j].state \in {"absent", "pending"} /\ jobs'[j].state = "pending"

Taken(c, j) ==
    /\ op[c].pc = "claim" /\ jobs'[j].state = "claimed"
    /\ jobs'[j].lease = op[c].at + Lease /\ jobs'[j].attempts = jobs[j].attempts + 1

\* What the write of a completion does to any row.
LEMMA CompleteShape ==
    ASSUME TypeOK, NEW c \in Clients, CompleteWrite(c), NEW j \in Ids
    PROVE  jobs'[j] = jobs[j] \/ Completed(c, j)
<1> DEFINE i == op[c].job
<1>1. jobs \in [Ids -> Row] /\ i \in Ids /\ jobs[i] \in Row
  BY DEF TypeOK, CompleteWrite, Holds
<1>2. CASE jobs[i].state # "claimed"
  BY <1>2 DEF CompleteWrite
<1>3. CASE jobs[i].state = "claimed" /\ op[c].again
  <2> DEFINE x == [jobs[i] EXCEPT !.state = "pending", !.worker = NoClient, !.lease = 0,
                                  !.attempts = 0, !.runAt = op[c].next]
  <2>1. jobs' = [jobs EXCEPT ![i].state = "pending", ![i].worker = NoClient,
                             ![i].lease = 0, ![i].attempts = 0, ![i].runAt = op[c].next]
    BY <1>3 DEF CompleteWrite
  <2>2. jobs' = [jobs EXCEPT ![i] = x]
    BY <1>1, <2>1 DEF Row
  <2>3. /\ x.state = "pending" /\ x.runAt = op[c].next
        /\ x.recur = jobs[i].recur /\ x.cron = jobs[i].cron
    BY <1>1 DEF Row
  <2> HIDE DEF x
  <2>4. j # i => jobs'[j] = jobs[j]
    BY <1>1, <2>2
  <2>5. jobs'[i] = x
    BY <1>1, <2>2
  <2>6. op[c].pc = "write" /\ op[c].outcome = "complete"
    BY DEF CompleteWrite
  <2> QED
    BY <1>3, <2>3, <2>4, <2>5, <2>6 DEF Completed
<1>4. CASE jobs[i].state = "claimed" /\ ~op[c].again
  <2> DEFINE x == [jobs[i] EXCEPT !.state = "done", !.worker = NoClient, !.lease = 0]
  <2>1. jobs' = [jobs EXCEPT ![i].state = "done", ![i].worker = NoClient, ![i].lease = 0]
    BY <1>4 DEF CompleteWrite
  <2>2. jobs' = [jobs EXCEPT ![i] = x]
    BY <1>1, <2>1 DEF Row
  <2>3. x.state = "done" /\ x.recur = jobs[i].recur /\ x.cron = jobs[i].cron
    BY <1>1 DEF Row
  <2> HIDE DEF x
  <2>4. j # i => jobs'[j] = jobs[j]
    BY <1>1, <2>2
  <2>5. jobs'[i] = x
    BY <1>1, <2>2
  <2>6. op[c].pc = "write" /\ op[c].outcome = "complete"
    BY DEF CompleteWrite
  <2> QED
    BY <1>4, <2>3, <2>4, <2>5, <2>6 DEF Completed
<1> QED
  BY <1>2, <1>3, <1>4

\* What the write of a failure does to any row.
LEMMA FailShape ==
    ASSUME TypeOK, NEW c \in Clients, FailWrite(c), NEW j \in Ids
    PROVE  jobs'[j] = jobs[j] \/ Failed(j)
<1> DEFINE i == op[c].job
           Retried(n) == [jobs[i] EXCEPT !.state = "pending", !.worker = NoClient,
                                         !.lease = 0, !.runAt = n]
           Buried == [jobs[i] EXCEPT !.state = "dead", !.worker = NoClient, !.lease = 0]
<1>1. jobs \in [Ids -> Row] /\ i \in Ids /\ jobs[i] \in Row
  BY DEF TypeOK, FailWrite, Holds
<1>2. \/ \E d \in Delays(op[c].tries) :
             jobs' = [jobs EXCEPT ![i].state = "pending", ![i].worker = NoClient,
                                  ![i].lease = 0, ![i].runAt = op[c].at + d]
      \/ jobs' = jobs
      \/ jobs' = [jobs EXCEPT ![i].state = "dead", ![i].worker = NoClient, ![i].lease = 0]
  BY Zenon DEF FailWrite
<1>3. ASSUME NEW n, jobs' = [jobs EXCEPT ![i].state = "pending", ![i].worker = NoClient,
                                         ![i].lease = 0, ![i].runAt = n]
      PROVE  jobs' = [jobs EXCEPT ![i] = Retried(n)]
  BY <1>1, <1>3 DEF Row
<1>4. ASSUME jobs' = [jobs EXCEPT ![i].state = "dead", ![i].worker = NoClient, ![i].lease = 0]
      PROVE  jobs' = [jobs EXCEPT ![i] = Buried]
  BY <1>1, <1>4 DEF Row
<1>5. /\ \A n : Retried(n).state = "pending" /\ Retried(n).attempts = jobs[i].attempts
      /\ Buried.state = "dead" /\ Buried.attempts = jobs[i].attempts
  BY <1>1 DEF Row
<1> HIDE DEF Retried, Buried, i
<1>6. \/ \E n : jobs' = [jobs EXCEPT ![i] = Retried(n)]
      \/ jobs' = jobs
      \/ jobs' = [jobs EXCEPT ![i] = Buried]
  BY <1>2, <1>3, <1>4, Zenon
<1>7. ASSUME NEW x, jobs' = [jobs EXCEPT ![i] = x], x.state \in {"pending", "dead"},
             x.attempts = jobs[i].attempts
      PROVE  jobs'[j] = jobs[j] \/ Failed(j)
  BY <1>1, <1>7 DEF Failed
<1> QED
  BY <1>5, <1>6, <1>7

\* Everything a step can do to one row.
LEMMA RowSteps ==
    ASSUME TypeOK, [Next]_vars, NEW j \in Ids
    PROVE  \/ jobs'[j] = jobs[j]
           \/ jobs'[j].state = "expired"
           \/ Entered(j)
           \/ Failed(j)
           \/ \E c \in Workers : Taken(c, j) /\ op'[c].pc = "run" /\ op'[c].job = j
           \/ \E c \in Workers : Completed(c, j)
<1>0. jobs \in [Ids -> Row] /\ op \in [Clients -> Op] /\ Workers \subseteq Clients
  BY DEF TypeOK, Clients
<1>1. ASSUME NEW c \in Producers, NEW o \in Options, EnqueueNew(c, o) \/ EnqueueConflict(c, o)
      PROVE  jobs'[j] = jobs[j] \/ Entered(j)
  BY <1>0, <1>1 DEF EnqueueNew, EnqueueConflict, NewRow, Rivals, IsNextId, Entered
<1>2. ASSUME NEW t, jobs' = Reaped(t)
      PROVE  jobs'[j] = jobs[j] \/ jobs'[j].state = "expired"
  BY <1>2, ReapedRow
<1>3. ASSUME NEW w \in Workers, ClaimTake(w)
      PROVE  \/ jobs'[j] = jobs[j]
             \/ Taken(w, j) /\ op'[w].pc = "run" /\ op'[w].job = j
  <2>1. PICK i \in Ids : /\ jobs' = [jobs EXCEPT ![i] = Leased(i, w, op[w].at)]
                         /\ op' = [op EXCEPT ![w] = [IdleOp EXCEPT !.pc = "run", !.job = i]]
    BY <1>3 DEF ClaimTake
  <2>2. op'[w].job = i /\ op'[w].pc = "run"
    BY <1>0, <2>1 DEF IdleOp
  <2>3. /\ jobs'[i].state = "claimed" /\ jobs'[i].lease = op[w].at + Lease
        /\ jobs'[i].attempts = jobs[i].attempts + 1
    <3>1. jobs[i] \in Row
      BY <1>0
    <3>2. jobs'[i] = Leased(i, w, op[w].at)
      BY <1>0, <2>1
    <3> QED
      BY <3>1, <3>2 DEF Leased, Row
  <2>4. op[w].pc = "claim"
    BY <1>3 DEF ClaimTake
  <2> QED
    BY <1>0, <2>1, <2>2, <2>3, <2>4 DEF Taken
<1>4. ASSUME NEW w \in Workers, CompleteWrite(w) PROVE jobs'[j] = jobs[j] \/ Completed(w, j)
  BY <1>0, <1>4, CompleteShape
<1>5. ASSUME NEW w \in Workers, FailWrite(w) PROVE jobs'[j] = jobs[j] \/ Failed(j)
  BY <1>0, <1>5, FailShape
<1>6. CASE UNCHANGED jobs
  BY <1>6
<1> QED
  BY <1>1, <1>2, <1>3, <1>4, <1>5, <1>6
  DEF Next, vars, Tick, Produce, Lookup, EnqueueReturn, Work, Claim, ClaimReap, ClaimNothing,
      Resolve, NotInFlight, CompleteRead, CompleteUnschedulable, FailRead, HandlerReturns,
      ReapExpired, Timeout, TimeoutRetry, TimeoutGiveUp, Crash

\* Everything a step can do to one client's call: it stays, it is over or only
\* starting, the handler returns or the call is made again (the clock is read), or
\* it reads its row.
Judged(c) ==
    /\ Holds(c) /\ op'[c].job = op[c].job /\ op'[c].at = now
    /\ op'[c].pc = "resolve" \/ (op'[c].pc = "write" /\ op'[c].outcome # "complete")

ReadToComplete(c) ==
    LET j == op[c].job
    IN  /\ jobs' = jobs /\ op[c].pc = "resolve" /\ jobs[j].cron # Unsatisfiable
        /\ op'[c].job = j /\ op'[c].at = op[c].at
        /\ op'[c].again = Recurs(j)
        /\ Recurs(j) => op'[c].next = NextFire(j, op[c].at)

\* What a step does to a client that is about to read or write.
LEMMA ClientSteps ==
    ASSUME TypeOK, [Next]_vars, NEW c \in Clients
    PROVE  \/ op'[c] = op[c]
           \/ op'[c].pc \notin {"resolve", "write"}
           \/ Judged(c)
           \/ ReadToComplete(c)
<1> DEFINE Goal == \/ op'[c] = op[c]
                   \/ op'[c].pc \notin {"resolve", "write"}
                   \/ Judged(c)
                   \/ ReadToComplete(c)
<1>0. op \in [Clients -> Op] /\ Workers \subseteq Clients /\ Producers \subseteq Clients
  BY DEF TypeOK, Clients
<1>1. IdleOp.pc = "idle" /\ \A r : [IdleOp EXCEPT !.res = r].pc = "idle"
  BY DEF IdleOp
<1>2. ASSUME NEW d \in Clients, NEW x, op' = [op EXCEPT ![d] = x],
             x.pc \notin {"resolve", "write"}
      PROVE  Goal
  BY <1>0, <1>2
<1>3. ASSUME NEW d \in Clients, NEW o \in Options, EnqueueNew(d, o) \/ EnqueueConflict(d, o)
      PROVE  Goal
  <2> DEFINE x == IF o.key = NoKey THEN IdleOp
                  ELSE [IdleOp EXCEPT !.pc = "lookup", !.key = o.key]
  <2>1. op' = [op EXCEPT ![d] = x]
    BY <1>3 DEF EnqueueNew, EnqueueConflict, AfterInsert
  <2>2. x.pc \in {"idle", "lookup"}
    BY DEF IdleOp
  <2> HIDE DEF x, Goal
  <2> QED
    BY <1>2, <2>1, <2>2
<1>4. ASSUME NEW d \in Clients, Lookup(d) PROVE Goal
  <2>1. PICK j : op' = [op EXCEPT ![d].pc = "enqueued", ![d].job = j]
    BY <1>4 DEF Lookup
  <2> DEFINE x == [op[d] EXCEPT !.pc = "enqueued", !.job = j]
  <2>2. op' = [op EXCEPT ![d] = x] /\ x.pc = "enqueued"
    BY <1>0, <2>1 DEF Op
  <2> HIDE DEF x, Goal
  <2> QED
    BY <1>2, <2>2
<1>5. ASSUME NEW d \in Clients,
             \/ EnqueueReturn(d) \/ ClaimNothing(d) \/ ClaimReap(d) \/ ClaimTake(d)
             \/ \E r : Return(d, r)
      PROVE  Goal
  <2> DEFINE Claiming == [IdleOp EXCEPT !.pc = "claim", !.at = now]
             Running(j) == [IdleOp EXCEPT !.pc = "run", !.job = j]
             Over(r) == [IdleOp EXCEPT !.res = r]
  <2>1. /\ Claiming.pc = "claim" /\ \A j : Running(j).pc = "run"
        /\ \A r : Over(r).pc = "idle"
    BY DEF IdleOp
  <2>2. \/ op' = [op EXCEPT ![d] = IdleOp]
        \/ op' = [op EXCEPT ![d] = Claiming]
        \/ \E j : op' = [op EXCEPT ![d] = Running(j)]
        \/ \E r : op' = [op EXCEPT ![d] = Over(r)]
    BY <1>5, Zenon DEF EnqueueReturn, ClaimNothing, ClaimReap, ClaimTake, Return
  <2> HIDE DEF Goal, Claiming, Running, Over
  <2> QED
    BY <1>1, <1>2, <2>1, <2>2
<1>6. ASSUME NEW d \in Clients,
             \/ FailRead(d) \/ TimeoutRetry(d)
             \/ \E outcome \in Outcomes : HandlerReturns(d, outcome)
      PROVE  Goal
  <2>1. op[d] \in Op
    BY <1>0
  <2>2. CASE c # d
    BY <1>0, <1>6, <2>2 DEF FailRead, TimeoutRetry, HandlerReturns
  <2>3. CASE c = d
    <3>1. Holds(c)
      BY <1>6, <2>3 DEF FailRead, TimeoutRetry, HandlerReturns, Holds
    <3>2. CASE FailRead(c)
      <4>1. /\ op'[c].job = op[c].job /\ op'[c].at = now
            /\ op'[c].pc = "write" /\ op'[c].outcome = op[c].outcome
        BY <1>0, <3>2 DEF FailRead, Op
      <4>2. op[c].outcome # "complete"
        BY <3>2 DEF FailRead
      <4> QED
        BY <3>1, <4>1, <4>2 DEF Judged
    <3>3. CASE TimeoutRetry(c)
      <4>1. op'[c].job = op[c].job /\ op'[c].at = now /\ op'[c].pc = "resolve"
        BY <1>0, <3>3 DEF TimeoutRetry, Op
      <4> QED
        BY <3>1, <4>1 DEF Judged
    <3>4. ASSUME NEW outcome \in Outcomes, HandlerReturns(c, outcome) PROVE Goal
      <4>1. op'[c].job = op[c].job /\ op'[c].at = now /\ op'[c].pc = "resolve"
        BY <1>0, <3>4 DEF HandlerReturns, Op
      <4> QED
        BY <3>1, <4>1 DEF Judged
    <3> QED
      BY <1>6, <2>3, <3>2, <3>3, <3>4
  <2> QED
    BY <2>2, <2>3
<1>7. ASSUME NEW d \in Clients, CompleteRead(d) PROVE Goal
  <2>1. op[d] \in Op
    BY <1>0
  <2>2. CASE c # d
    BY <1>0, <1>7, <2>2 DEF CompleteRead
  <2>3. CASE c = d
    <3>1. /\ jobs' = jobs /\ op[c].pc = "resolve" /\ jobs[op[c].job].cron # Unsatisfiable
          /\ op'[c].job = op[c].job /\ op'[c].at = op[c].at
          /\ op'[c].again = Recurs(op[c].job)
          /\ Recurs(op[c].job) => op'[c].next = NextFire(op[c].job, op[c].at)
      BY <1>0, <1>7, <2>3 DEF CompleteRead, Op
    <3> QED
      BY <3>1 DEF ReadToComplete
  <2> QED
    BY <2>2, <2>3
<1>8. ASSUME NEW C \in SUBSET Clients, Crash(C) PROVE Goal
  BY <1>1, <1>8 DEF Crash
<1>9. ASSUME UNCHANGED op PROVE Goal
  BY <1>9
<1> HIDE DEF Goal
<1>10. ASSUME NEW d \in Clients,
              \/ NotInFlight(d) \/ CompleteUnschedulable(d) \/ CompleteWrite(d)
              \/ FailWrite(d) \/ TimeoutGiveUp(d)
       PROVE  Goal
  <2>1. \E r : Return(d, r)
    BY <1>10 DEF NotInFlight, CompleteUnschedulable, CompleteWrite, FailWrite, TimeoutGiveUp
  <2> QED
    BY <1>5, <2>1
<1>11. ASSUME NEW d \in Clients, ReapExpired(d) PROVE Goal
  <2>1. UNCHANGED op
    BY <1>11 DEF ReapExpired
  <2> QED
    BY <1>9, <2>1
<1>12. ASSUME Tick \/ UNCHANGED vars PROVE Goal
  BY <1>9, <1>12 DEF Tick, vars
<1>13. ASSUME NEW d \in Producers, Produce(d) PROVE Goal
  BY <1>0, <1>3, <1>4, <1>5, <1>13 DEF Produce
<1>14. ASSUME NEW d \in Workers, Work(d) PROVE Goal
  BY <1>0, <1>5, <1>6, <1>7, <1>10, <1>14 DEF Work, Claim, Resolve
<1>15. ASSUME Next PROVE Goal
  BY <1>6, <1>8, <1>10, <1>11, <1>12, <1>13, <1>14, <1>15 DEF Next, Timeout
<1> QED
  BY <1>12, <1>15 DEF Goal

\* Time never goes back.
LEMMA TimeAdvances ==
    ASSUME TypeOK, [Next]_vars
    PROVE  now \in Nat /\ now' \in Nat /\ now <= now'
<1>1. now \in Nat /\ (now' = now \/ now' = now + 1)
  BY ZenonT(60)
     DEF TypeOK, Next, vars, Tick, Produce, EnqueueNew, EnqueueConflict, Lookup, EnqueueReturn,
         Work, Claim, ClaimReap, ClaimTake, ClaimNothing, Resolve, NotInFlight, CompleteRead,
         CompleteUnschedulable, CompleteWrite, FailRead, FailWrite, HandlerReturns,
         ReapExpired, Timeout, TimeoutRetry, TimeoutGiveUp, Crash
<1> QED
  BY <1>1

\* The row of a call that is resolving it stays as it is while it stays claimed: a
\* claim would make a second runner of it.
LEMMA HeldRowStays ==
    ASSUME TypeOK, Exclusive', [Next]_vars, NEW c \in Clients,
           op'[c].pc \in {"resolve", "write"}, op'[c].job \in Ids,
           jobs'[op'[c].job].state = "claimed"
    PROVE  jobs'[op'[c].job] = jobs[op'[c].job]
<1> DEFINE j == op'[c].job
<1>1. ASSUME NEW d \in Workers, op'[d].pc = "run", op'[d].job = j PROVE FALSE
  <2>1. d \in Clients
    BY DEF Clients
  <2>2. d = c
    BY <1>1, <2>1 DEF Exclusive, OneRunner, Holds
  <2> QED
    BY <1>1, <2>2
<1>2. j \in Ids /\ jobs'[j].state = "claimed"
  OBVIOUS
<1> HIDE DEF j
<1>3. jobs'[j] = jobs[j]
  BY <1>1, <1>2, RowSteps DEF Failed, Entered, Completed
<1> QED
  BY <1>3 DEF j

\* What a completion chooses when it reads its row.
LEMMA ReadChooses ==
    ASSUME TypeOK, NEW j \in Ids, NEW t \in Nat, jobs[j].cron # Unsatisfiable
    PROVE  /\ ~Recurs(j) => jobs[j].recur = 0 /\ jobs[j].cron = 0
           /\ Recurs(j) => /\ NextFire(j, t) > t
                           /\ NextFire(j, t) \in Nat
                           /\ jobs[j].cron = 0
                              => (NextFire(j, t) - jobs[j].runAt) % jobs[j].recur = 0
<1>1. jobs[j].cron \in Nat /\ jobs[j].recur \in Nat /\ jobs[j].runAt \in Nat
  BY DEF TypeOK, Row
<1>2. ~Recurs(j) => jobs[j].recur = 0 /\ jobs[j].cron = 0
  BY <1>1 DEF Recurs
<1>3. ASSUME jobs[j].cron > 0
      PROVE  NextFire(j, t) > t /\ NextFire(j, t) \in Nat /\ jobs[j].cron # 0
  <2>1. jobs[j].cron \in Nat \ {0} /\ NextFire(j, t) = CronNext(jobs[j].cron, t)
    BY <1>1, <1>3 DEF NextFire
  <2>2. CronNext(jobs[j].cron, t) > t /\ CronNext(jobs[j].cron, t) \in Nat
    BY <2>1, CronNextLater, CronNextType
  <2> QED
    BY <2>1, <2>2
<1>4. ASSUME jobs[j].cron = 0, jobs[j].recur > 0
      PROVE  /\ NextFire(j, t) > t /\ NextFire(j, t) \in Nat
             /\ (NextFire(j, t) - jobs[j].runAt) % jobs[j].recur = 0
  <2> DEFINE r == jobs[j].runAt
             i == jobs[j].recur
  <2>1. i \in Nat \ {0} /\ r \in Nat /\ NextFire(j, t) = NextOccurrence(r, i, t)
    BY <1>1, <1>4 DEF NextFire
  <2> HIDE DEF r, i
  <2>2. /\ NextOccurrence(r, i, t) > t /\ NextOccurrence(r, i, t) \in Nat
        /\ (NextOccurrence(r, i, t) - r) % i = 0
    BY <2>1, NextOccurrenceOnGrid, NextOccurrenceType
  <2> QED
    BY <2>1, <2>2 DEF r, i
<1> QED
  BY <1>1, <1>2, <1>3, <1>4 DEF Recurs

\* Under the honest lease every step keeps the invariant.
LEMMA ScheduledStep ==
    ASSUME TypeOK, TypeOK', Exclusive, Exclusive', Scheduled, [Next]_vars
    PROVE  Scheduled'
<1>0. /\ Workers \subseteq Clients /\ op \in [Clients -> Op] /\ Lease \in Nat
      /\ \A j \in Ids : jobs[j] \in Row /\ jobs'[j] \in Row
  BY DbJobsAssumption DEF Clients, TypeOK
<1>1. ClaimedBefore'
  <2> SUFFICES ASSUME NEW j \in Ids, jobs'[j].state = "claimed"
               PROVE  jobs'[j].lease - Lease <= now' /\ jobs'[j].attempts >= 1
    BY DEF ClaimedBefore
  <2>1. CASE jobs'[j] = jobs[j]
    <3>1. jobs[j].lease - Lease <= now /\ jobs[j].attempts >= 1 /\ jobs[j].lease \in Nat
      BY <1>0, <2>1 DEF Scheduled, ClaimedBefore, Row
    <3> QED
      BY <1>0, <2>1, <3>1, TimeAdvances
  <2>2. ASSUME NEW d \in Workers, Taken(d, j)
        PROVE  jobs'[j].lease - Lease <= now' /\ jobs'[j].attempts >= 1
    <3>1. op[d].at <= now /\ op[d].at \in Nat /\ jobs[j].attempts \in Nat
      BY <1>0, <2>2 DEF Taken, Exclusive, ClaimFresh, Op, Row
    <3>2. jobs'[j].lease = op[d].at + Lease /\ jobs'[j].attempts = jobs[j].attempts + 1
      BY <2>2 DEF Taken
    <3> QED
      BY <1>0, <3>1, <3>2, TimeAdvances
  <2> QED
    BY <2>1, <2>2, RowSteps DEF Failed, Entered, Completed
<1>2. DoneForGood'
  <2> SUFFICES ASSUME NEW j \in Ids, jobs'[j].state = "done"
               PROVE  jobs'[j].recur = 0 /\ jobs'[j].cron = 0
    BY DEF DoneForGood
  <2>1. CASE jobs'[j] = jobs[j]
    BY <2>1 DEF Scheduled, DoneForGood
  <2>2. ASSUME NEW d \in Workers, Completed(d, j)
        PROVE  jobs'[j].recur = 0 /\ jobs'[j].cron = 0
    <3>1. d \in Clients /\ Holds(d) /\ op[d].job = j /\ jobs[j].state = "claimed"
      BY <1>0, <2>2 DEF Completed, Holds
    <3>2. Chosen(op[d], jobs[j])
      BY <3>1 DEF Scheduled, WellRead
    <3> QED
      BY <2>2, <3>2 DEF Completed, Chosen
  <2> QED
    BY <2>1, <2>2, RowSteps DEF Failed, Entered, Taken
<1>3. WellRead'
  <2> SUFFICES ASSUME NEW c \in Clients, Holds(c)', jobs'[op'[c].job].state = "claimed",
                      op'[c].pc \in {"resolve", "write"}
               PROVE  /\ ReadAfterClaim(op'[c], jobs'[op'[c].job])
                      /\ Chosen(op'[c], jobs'[op'[c].job])
    BY DEF WellRead, ReadAfterClaim, Chosen
  <2> DEFINE j == op'[c].job
             r == jobs[j]
  <2>1. j \in Ids /\ jobs'[j] = r /\ r.state = "claimed"
    BY HeldRowStays DEF TypeOK
  <2>2. r.lease \in Nat /\ r.lease - Lease <= now /\ now \in Nat
    BY <1>0, <2>1, TimeAdvances DEF Scheduled, ClaimedBefore, Row
  <2>3. CASE op'[c] = op[c]
    <3>1. Holds(c) /\ op[c].job = j
      BY <2>3 DEF Holds
    <3>2. ReadAfterClaim(op[c], jobs[op[c].job]) /\ Chosen(op[c], jobs[op[c].job])
      BY <2>1, <3>1 DEF Scheduled, WellRead
    <3> QED
      BY <2>1, <2>3, <3>1, <3>2
  <2>4. CASE Judged(c)
    <3>1. op'[c].at = now /\ ~(op'[c].pc = "write" /\ op'[c].outcome = "complete")
      BY <2>4 DEF Judged
    <3> QED
      BY <2>1, <2>2, <3>1 DEF ReadAfterClaim, Chosen
  <2>5. CASE ReadToComplete(c)
    <3>1. /\ op[c].job = j /\ op[c].pc = "resolve" /\ Holds(c)
          /\ op'[c].at = op[c].at /\ r.cron # Unsatisfiable
          /\ op'[c].again = Recurs(j)
          /\ Recurs(j) => op'[c].next = NextFire(j, op[c].at)
      BY <2>5 DEF ReadToComplete, Holds
    <3>2. op[c].at \in Nat
      BY <1>0 DEF Op
    <3>3. r.lease - Lease <= op[c].at
      BY <2>1, <3>1 DEF Scheduled, WellRead, ReadAfterClaim
    <3> HIDE DEF j
    <3>4. /\ ~Recurs(j) => r.recur = 0 /\ r.cron = 0
          /\ Recurs(j) => /\ NextFire(j, op[c].at) > op[c].at
                          /\ NextFire(j, op[c].at) \in Nat
                          /\ r.cron = 0
                             => (NextFire(j, op[c].at) - r.runAt) % r.recur = 0
      BY <2>1, <3>1, <3>2, ReadChooses
    <3>5. ReadAfterClaim(op'[c], r)
      BY <3>1, <3>3 DEF ReadAfterClaim
    <3>6. Recurs(j) => NextFire(j, op[c].at) > r.lease - Lease
      BY <1>0, <2>2, <3>2, <3>3, <3>4
    <3>7. Chosen(op'[c], r)
      BY <3>1, <3>4, <3>6 DEF Chosen
    <3> QED
      BY <2>1, <3>5, <3>7 DEF j
  <2> QED
    BY <2>3, <2>4, <2>5, ClientSteps
<1> QED
  BY <1>1, <1>2, <1>3 DEF Scheduled

\* What the property says of one step.
LEMMA SchedulesStep ==
    ASSUME TypeOK, Scheduled, Scheduled', [Next]_vars, NEW j \in Ids
    PROVE  LET completed == /\ Recurs(j) /\ jobs[j].state = "claimed"
                            /\ jobs'[j].state = "pending" /\ jobs'[j].attempts = 0
           IN /\ jobs'[j].state = "done" => jobs'[j].recur = 0 /\ jobs'[j].cron = 0
              /\ completed => jobs'[j].runAt > jobs[j].lease - Lease
              /\ completed /\ jobs[j].cron = 0
                 => (jobs'[j].runAt - jobs[j].runAt) % jobs[j].recur = 0
<1>1. jobs'[j].state = "done" => jobs'[j].recur = 0 /\ jobs'[j].cron = 0
  BY DEF Scheduled, DoneForGood
<1>2. ASSUME Recurs(j), jobs[j].state = "claimed",
             jobs'[j].state = "pending", jobs'[j].attempts = 0
      PROVE  /\ jobs'[j].runAt > jobs[j].lease - Lease
             /\ jobs[j].cron = 0 => (jobs'[j].runAt - jobs[j].runAt) % jobs[j].recur = 0
  <2>1. jobs[j].attempts >= 1 /\ jobs[j].attempts \in Nat
    BY <1>2 DEF Scheduled, ClaimedBefore, TypeOK, Row
  <2>2. PICK d \in Workers : Completed(d, j)
    BY <1>2, <2>1, RowSteps DEF Failed, Entered, Taken
  <2>3. d \in Clients /\ Holds(d) /\ op[d].job = j
    BY <2>2 DEF Completed, Holds, Clients
  <2>4. Chosen(op[d], jobs[j])
    BY <1>2, <2>3 DEF Scheduled, WellRead
  <2>5. op[d].again /\ jobs'[j].runAt = op[d].next
    BY <1>2, <2>2 DEF Completed
  <2> QED
    BY <2>2, <2>4, <2>5 DEF Chosen, Completed
<1> QED
  BY <1>1, <1>2

\* A schedule is never silently finished, and its next firing is due after the
\* instant the completed one was claimed, on the grid it had, for any number of
\* workers, rows and options, while the lease outlasts every live holder.
THEOREM SchedulesGoOnAlways == ASSUME HonestLease PROVE Spec => SchedulesGoOn
<1> DEFINE SInv == TypeOK /\ Exclusive /\ Scheduled
           Kept == \A j \in Ids :
                     LET completed == /\ Recurs(j) /\ jobs[j].state = "claimed"
                                      /\ jobs'[j].state = "pending" /\ jobs'[j].attempts = 0
                     IN /\ jobs'[j].state = "done" => jobs'[j].recur = 0 /\ jobs'[j].cron = 0
                        /\ completed => jobs'[j].runAt > jobs[j].lease - Lease
                        /\ completed /\ jobs[j].cron = 0
                           => (jobs'[j].runAt - jobs[j].runAt) % jobs[j].recur = 0
<1>1. Init => SInv
  <2>1. Init => Scheduled
    BY DEF Init, Scheduled, ClaimedBefore, DoneForGood, WellRead, Holds, AbsentRow, IdleOp
  <2> QED
    BY <2>1, TypeInit, ExclusiveInit
<1>2. SInv /\ [Next]_vars => SInv'
  BY TypeStep, ExclusiveStep, ScheduledStep
<1>3. SInv /\ SInv' /\ [Next]_vars => Kept
  BY SchedulesStep
<1> HIDE DEF SInv, Kept
<1>4. Spec => [][Kept]_vars
  BY <1>1, <1>2, <1>3, PTL DEF Spec
<1> QED
  BY <1>4 DEF SchedulesGoOn, Kept


-----------------------------------------------------------------------------
(* The pool implements the queue *)

\* Every step of the pool is a step of the queue, or leaves the table alone.
LEMMA PoolStepIsQueueStep == [PoolNext]_allVars => [Next]_vars
<1> SUFFICES ASSUME [PoolNext]_allVars PROVE [Next]_vars
  OBVIOUS
<1>0. Workers \subseteq Clients
  BY DEF Clients
<1>1. ASSUME NEW w \in Workers, Loop(w) \/ Spawn(w) \/ PollElapsed(w) PROVE [Next]_vars
  <2>1. CASE LoopClaim(w)
    BY <1>0, <2>1 DEF LoopClaim, Next
  <2>2. CASE ClaimStep(w)
    BY <1>0, <2>2 DEF ClaimStep, Next, Work, Claim, Timeout
  <2>3. ASSUME NEW outcome \in Outcomes, Handle(w, outcome) PROVE [Next]_vars
    BY <2>3 DEF Handle, Next, Work
  <2>4. CASE ReadToResolve(w) \/ Resolved(w)
    BY <2>4 DEF ReadToResolve, Resolved, Next, Work, Resolve
  <2>5. CASE LoopExit(w) \/ Woken(w) \/ Spawn(w) \/ PollElapsed(w)
    BY <2>5 DEF LoopExit, Woken, Spawn, PollElapsed
  <2> QED
    BY <1>1, <2>1, <2>2, <2>3, <2>4, <2>5 DEF Loop
<1>2. ASSUME NEW w \in Workers, ResolveAgain(w) \/ ResolveGivesUp(w) PROVE [Next]_vars
  BY <1>0, <1>2 DEF ResolveAgain, ResolveGivesUp, Next, Timeout
<1>3. CASE ProcessDies
  BY <1>0, <1>3 DEF ProcessDies, Next
<1>4. CASE Start \/ StartFails \/ Stop \/ Teardown
  BY <1>4 DEF Start, StartFails, Stop, Teardown, StopPost, StopJoined
<1>5. CASE (Tick /\ UNCHANGED poolVars)
           \/ ((\E c \in Producers : Produce(c)) /\ UNCHANGED poolVars)
  BY <1>5 DEF Next
<1>6. CASE UNCHANGED allVars
  BY <1>6 DEF allVars
<1> QED
  BY <1>1, <1>2, <1>3, <1>4, <1>5, <1>6 DEF PoolNext

\* Hiding the pool's own fields, a behaviour of the pool is one of the queue: no
\* loop, retry, stop or crash does to the table what the queue does not allow.
THEOREM PoolImplementsQueue == PoolSpec => ImplementsQueue
<1>1. PoolInit => Init
  BY DEF PoolInit
<1> QED
  BY <1>1, PoolStepIsQueueStep, PTL DEF PoolSpec, Spec, ImplementsQueue

\* So what the queue promises, it promises under the pool: one active row per key,
\* and, with the honest lease, one runner of a row and settled rows that stay.
THEOREM PoolKeepsUniqueActive == PoolSpec => []UniqueActive
  BY PoolImplementsQueue, UniqueActiveAlways, PTL DEF ImplementsQueue

\* While the lease outlasts every live holder, no two workers run one job under the pool
\* either, and settled rows stay.
THEOREM PoolKeepsOneRunner == ASSUME HonestLease PROVE PoolSpec => []OneRunner /\ SettledStays
  BY PoolImplementsQueue, OneRunnerAlways, SettledStaysAlways, PTL DEF ImplementsQueue

-----------------------------------------------------------------------------
(***************************************************************************)
(* The inductive invariant of StopIsClean.  Where a thread stands says     *)
(* what its connection is in the middle of, so the joined threads of a     *)
(* freed pool are in no call.  That the rows of one that never crashed     *)
(* are all resolved needs more: while it lives, a row claimed by one of    *)
(* its workers is the one that worker runs, or was given up.               *)
(***************************************************************************)
Placed ==
    \A w \in Workers :
        /\ thread[w] \in {"unspawned", "loop", "wait", "exited"} => op[w].pc = "idle"
        /\ thread[w] = "claim" => op[w].pc \in {"idle", "claim"}
        /\ thread[w] = "run" => Holds(w)

\* No thread runs before a start or after a stop, and nothing was done before the
\* first start.
NoneOutside ==
    /\ phase = "none" => \A w \in Workers : thread[w] = "unspawned"
    /\ phase = "freed" => \A w \in Workers : thread[w] \in {"unspawned", "exited"}
    /\ starts = 0 => phase = "none" /\ gaveUp = {}

\* No start yet, or the first one and no crash.
FirstLife == starts = 0 \/ (starts = 1 /\ phase # "none")

ClaimsHeld ==
    FirstLife =>
        \A j \in Ids \ gaveUp, w \in Workers :
            jobs[j].state = "claimed" /\ jobs[j].worker = w => Holds(w) /\ op[w].job = j

PoolInv == PoolTypeOK /\ Placed /\ NoneOutside /\ ClaimsHeld

-----------------------------------------------------------------------------
(* What a step does to the calls *)

Others(c) == \A d \in Clients \ {c} : op'[d] = op[d]

\* A call's statement is its client's alone.
LEMMA CallSteps ==
    ASSUME TypeOK, NEW c \in Clients
    PROVE  /\ ClaimReap(c) => Others(c) /\ op'[c].pc = "claim"
           /\ ClaimTake(c) => /\ Others(c) /\ op'[c].pc = "run"
                              /\ jobs[op'[c].job].state \in Active
                              /\ \A j \in Ids \ {op'[c].job} : jobs'[j] = jobs[j]
           /\ ClaimNothing(c) \/ TimeoutGiveUp(c) => Others(c) /\ op'[c].pc = "idle"
           /\ \A outcome \in Outcomes : HandlerReturns(c, outcome) =>
                 Others(c) /\ op'[c].pc = "resolve" /\ op'[c].job = op[c].job
           /\ CompleteRead(c) \/ FailRead(c) =>
                 Others(c) /\ op'[c].pc = "write" /\ op'[c].job = op[c].job
           /\ NotInFlight(c) \/ CompleteWrite(c) \/ FailWrite(c) \/ CompleteUnschedulable(c) =>
                 Others(c) /\ op'[c].pc = "idle"
           /\ TimeoutRetry(c) => Others(c) /\ op'[c].pc = "resolve" /\ op'[c].job = op[c].job
<1>0. op \in [Clients -> Op] /\ op[c] \in Op /\ jobs \in [Ids -> Row]
  BY DEF TypeOK
<1>1. IdleOp.pc = "idle" /\ \A r : [IdleOp EXCEPT !.res = r].pc = "idle"
  BY DEF IdleOp
<1>2. ClaimReap(c) => Others(c) /\ op'[c].pc = "claim"
  BY <1>0 DEF ClaimReap, Others, IdleOp
<1>3. ClaimTake(c) => /\ Others(c) /\ op'[c].pc = "run"
                      /\ jobs[op'[c].job].state \in Active
                      /\ \A j \in Ids \ {op'[c].job} : jobs'[j] = jobs[j]
  BY <1>0 DEF ClaimTake, Others, IdleOp, Due
<1>4. ASSUME \E r : Return(c, r) PROVE Others(c) /\ op'[c].pc = "idle"
  BY <1>0, <1>1, <1>4 DEF Return, Others
<1>5. ClaimNothing(c) \/ TimeoutGiveUp(c) => Others(c) /\ op'[c].pc = "idle"
  BY <1>0, <1>1, <1>4 DEF ClaimNothing, TimeoutGiveUp, Others
<1>6. \A outcome \in Outcomes : HandlerReturns(c, outcome) =>
         Others(c) /\ op'[c].pc = "resolve" /\ op'[c].job = op[c].job
  BY <1>0 DEF HandlerReturns, Others, Op
<1>7. CompleteRead(c) \/ FailRead(c) =>
         Others(c) /\ op'[c].pc = "write" /\ op'[c].job = op[c].job
  BY <1>0 DEF CompleteRead, FailRead, Others, Op
<1>8. NotInFlight(c) \/ CompleteWrite(c) \/ FailWrite(c) \/ CompleteUnschedulable(c) =>
         Others(c) /\ op'[c].pc = "idle"
  BY <1>4 DEF NotInFlight, CompleteWrite, FailWrite, CompleteUnschedulable
<1>9. TimeoutRetry(c) => Others(c) /\ op'[c].pc = "resolve" /\ op'[c].job = op[c].job
  BY <1>0 DEF TimeoutRetry, Others, Op
<1> QED
  BY <1>2, <1>3, <1>5, <1>6, <1>7, <1>8, <1>9

\* A producer's step leaves the calls of the workers alone.
LEMMA ProducersApart ==
    ASSUME TypeOK, NEW c \in Producers, Produce(c), NEW w \in Workers
    PROVE  op'[w] = op[w]
<1>1. w # c /\ w \in Clients /\ op \in [Clients -> Op]
  BY DbJobWorkerAssumption DEF Clients, TypeOK
<1> QED
  BY <1>1 DEF Produce, EnqueueNew, EnqueueConflict, AfterInsert, Lookup, EnqueueReturn

\* The UPDATE that resolves a row leaves it in flight only when the unique index
\* refuses it beside a rival; it never touches another row.
LEMMA WritesResolve ==
    ASSUME TypeOK, NEW c \in Clients, CompleteWrite(c) \/ FailWrite(c)
    PROVE  /\ \A i \in Ids \ {op[c].job} : jobs'[i] = jobs[i]
           /\ \/ jobs'[op[c].job].state # "claimed"
              \/ jobs' = jobs /\ Rivals(jobs[op[c].job].key, op[c].job) # {}
<1> DEFINE j == op[c].job
           Rescheduled(n) == [jobs[j] EXCEPT !.state = "pending", !.worker = NoClient,
                                             !.lease = 0, !.attempts = 0, !.runAt = n]
           Retried(n) == [jobs[j] EXCEPT !.state = "pending", !.worker = NoClient,
                                         !.lease = 0, !.runAt = n]
           Over(s) == [jobs[j] EXCEPT !.state = s, !.worker = NoClient, !.lease = 0]
<1>1. jobs \in [Ids -> Row] /\ j \in Ids /\ jobs[j] \in Row
  BY DEF TypeOK, CompleteWrite, FailWrite, Holds
<1>2. ASSUME NEW x, jobs' = [jobs EXCEPT ![j] = x], x.state # "claimed"
      PROVE  /\ \A i \in Ids \ {j} : jobs'[i] = jobs[i]
             /\ jobs'[j].state # "claimed"
  BY <1>1, <1>2
<1>3. \A n : Rescheduled(n).state = "pending" /\ Retried(n).state = "pending"
  BY <1>1 DEF Row
<1>4. \A s \in {"done", "dead"} : Over(s).state = s
  BY <1>1 DEF Row
<1>5. CASE CompleteWrite(c)
  <2>1. \/ jobs[j].state # "claimed" /\ jobs' = jobs
        \/ jobs' = [jobs EXCEPT ![j].state = "pending", ![j].worker = NoClient,
                                ![j].lease = 0, ![j].attempts = 0, ![j].runAt = op[c].next]
        \/ jobs' = [jobs EXCEPT ![j].state = "done", ![j].worker = NoClient, ![j].lease = 0]
    BY <1>5 DEF CompleteWrite
  <2>2. \/ jobs[j].state # "claimed" /\ jobs' = jobs
        \/ jobs' = [jobs EXCEPT ![j] = Rescheduled(op[c].next)]
        \/ jobs' = [jobs EXCEPT ![j] = Over("done")]
    BY <1>1, <2>1 DEF Row
  <2> HIDE DEF Rescheduled, Retried, Over, j
  <2>3. CASE jobs[j].state # "claimed" /\ jobs' = jobs
    BY <2>3 DEF j
  <2>4. CASE jobs' = [jobs EXCEPT ![j] = Rescheduled(op[c].next)]
    BY <1>2, <1>3, <2>4 DEF j
  <2>5. CASE jobs' = [jobs EXCEPT ![j] = Over("done")]
    BY <1>2, <1>4, <2>5 DEF j
  <2> QED
    BY <2>2, <2>3, <2>4, <2>5
<1>6. CASE FailWrite(c)
  <2>1. \/ \E d \in Delays(op[c].tries) :
              jobs' = [jobs EXCEPT ![j].state = "pending", ![j].worker = NoClient,
                                   ![j].lease = 0, ![j].runAt = op[c].at + d]
        \/ jobs' = jobs /\ Rivals(jobs[j].key, j) # {}
        \/ jobs' = [jobs EXCEPT ![j].state = "dead", ![j].worker = NoClient, ![j].lease = 0]
    BY <1>6 DEF FailWrite
  <2>2. \/ \E n : jobs' = [jobs EXCEPT ![j] = Retried(n)]
        \/ jobs' = jobs /\ Rivals(jobs[j].key, j) # {}
        \/ jobs' = [jobs EXCEPT ![j] = Over("dead")]
    <3>1. ASSUME NEW n, jobs' = [jobs EXCEPT ![j].state = "pending", ![j].worker = NoClient,
                                             ![j].lease = 0, ![j].runAt = n]
          PROVE  jobs' = [jobs EXCEPT ![j] = Retried(n)]
      BY <1>1, <3>1 DEF Row
    <3>2. ASSUME jobs' = [jobs EXCEPT ![j].state = "dead", ![j].worker = NoClient,
                                      ![j].lease = 0]
          PROVE  jobs' = [jobs EXCEPT ![j] = Over("dead")]
      BY <1>1, <3>2 DEF Row
    <3> HIDE DEF Retried, Over, j
    <3> QED
      BY <2>1, <3>1, <3>2
  <2> HIDE DEF Rescheduled, Retried, Over, j
  <2>3. CASE \E n : jobs' = [jobs EXCEPT ![j] = Retried(n)]
    BY <1>2, <1>3, <2>3 DEF j
  <2>4. CASE jobs' = jobs /\ Rivals(jobs[j].key, j) # {}
    BY <2>4 DEF j
  <2>5. CASE jobs' = [jobs EXCEPT ![j] = Over("dead")]
    BY <1>2, <1>4, <2>5 DEF j
  <2> QED
    BY <2>2, <2>3, <2>4, <2>5
<1> QED
  BY <1>5, <1>6

\* A row becomes claimed only as a worker takes it, and names that worker.
LEMMA ClaimsAreTaken ==
    ASSUME TypeOK, [Next]_vars, NEW j \in Ids, jobs'[j].state = "claimed"
    PROVE  \/ jobs'[j] = jobs[j]
           \/ \E w \in Workers : ClaimTake(w) /\ op'[w].job = j /\ jobs'[j].worker = w
<1>0. jobs \in [Ids -> Row] /\ op \in [Clients -> Op] /\ Workers \subseteq Clients
  BY DEF TypeOK, Clients
<1>1. ASSUME NEW c \in Producers, NEW o \in Options, EnqueueNew(c, o) \/ EnqueueConflict(c, o)
      PROVE  jobs'[j] = jobs[j]
  BY <1>0, <1>1 DEF EnqueueNew, EnqueueConflict, NewRow, Rivals
<1>2. ASSUME NEW t, jobs' = Reaped(t) PROVE jobs'[j] = jobs[j]
  BY <1>0, <1>2 DEF Reaped, Row
<1>3. ASSUME NEW w \in Workers, ClaimTake(w)
      PROVE  jobs'[j] = jobs[j] \/ (op'[w].job = j /\ jobs'[j].worker = w)
  <2>1. PICK i \in Ids : /\ jobs' = [jobs EXCEPT ![i] = Leased(i, w, op[w].at)]
                         /\ op' = [op EXCEPT ![w] = [IdleOp EXCEPT !.pc = "run", !.job = i]]
    BY <1>3 DEF ClaimTake
  <2>2. op'[w].job = i
    BY <1>0, <2>1 DEF IdleOp
  <2>3. jobs'[i].worker = w
    <3>1. jobs[i] \in Row
      BY <1>0
    <3>2. jobs'[i] = Leased(i, w, op[w].at)
      BY <1>0, <2>1
    <3> QED
      BY <3>1, <3>2 DEF Leased, Row
  <2> QED
    BY <1>0, <2>1, <2>2, <2>3
<1>4. ASSUME NEW w \in Workers, CompleteWrite(w) \/ FailWrite(w) PROVE jobs'[j] = jobs[j]
  <2>1. w \in Clients
    BY DEF Clients
  <2> QED
    BY <1>4, <2>1, WritesResolve
<1>5. CASE UNCHANGED jobs
  BY <1>5
<1> QED
  BY <1>1, <1>2, <1>3, <1>4, <1>5
  DEF Next, vars, Tick, Produce, Lookup, EnqueueReturn, Work, Claim, ClaimReap, ClaimNothing,
      Resolve, NotInFlight, CompleteRead, CompleteUnschedulable, FailRead, HandlerReturns,
      ReapExpired, Timeout, TimeoutRetry, TimeoutGiveUp, Crash
-----------------------------------------------------------------------------
(* The types, and where the threads stand *)

\* Every step keeps the types of the pool.
LEMMA PoolTypeStep ==
    ASSUME PoolTypeOK, Placed, [PoolNext]_allVars
    PROVE  PoolTypeOK'
<1> USE DbJobWorkerAssumption
<1>1. TypeOK /\ TypeOK'
  BY PoolStepIsQueueStep, TypeStep DEF PoolTypeOK
<1>2. /\ phase \in Phases /\ wake \in Nat /\ thread \in [Workers -> Places]
      /\ retries \in [Workers -> 0 .. ResolveRetries]
      /\ starts \in 0 .. MaxStarts /\ gaveUp \subseteq Ids
  BY DEF PoolTypeOK
<1>3. \A w \in Workers : Holds(w) => op[w].job \in Ids
  BY <1>1 DEF TypeOK, Clients
<1>4. Cardinality(Workers) \in Nat
  BY FS_CardinalityType
<1>5. phase' \in Phases
  BY <1>2 DEF PoolNext, allVars, poolVars, Start, StartFails, Stop, Teardown, StopPost,
      StopJoined, Spawn, Loop, LoopExit, LoopClaim, ClaimStep, Woken, Handle, ReadToResolve,
      Resolved, PollElapsed, ResolveAgain, ResolveGivesUp, ProcessDies, PoolUnchanged, Phases
<1>6. wake' \in Nat
  BY <1>2, <1>4 DEF PoolNext, allVars, poolVars, Start, StartFails, Stop, Teardown, StopPost,
      StopJoined, Spawn, Loop, LoopExit, LoopClaim, ClaimStep, Woken, Handle, ReadToResolve,
      Resolved, PollElapsed, ResolveAgain, ResolveGivesUp, ProcessDies, PoolUnchanged
<1>7. thread' \in [Workers -> Places]
  BY <1>2 DEF PoolNext, allVars, poolVars, Start, StartFails, Stop, Teardown, StopPost,
      StopJoined, Spawn, Loop, LoopExit, LoopClaim, ClaimStep, Woken, Handle, ReadToResolve,
      Resolved, PollElapsed, ResolveAgain, ResolveGivesUp, ProcessDies, Places, Goto
<1>8. retries' \in [Workers -> 0 .. ResolveRetries]
  BY <1>2 DEF PoolNext, allVars, poolVars, Start, StartFails, Stop, Teardown, StopPost,
      StopJoined, Spawn, Loop, LoopExit, LoopClaim, ClaimStep, Woken, Handle, ReadToResolve,
      Resolved, PollElapsed, ResolveAgain, ResolveGivesUp, ProcessDies
<1>9. starts' \in 0 .. MaxStarts
  BY <1>2 DEF PoolNext, allVars, poolVars, Start, StartFails, Stop, Teardown, StopPost,
      StopJoined, Spawn, Loop, LoopExit, LoopClaim, ClaimStep, Woken, Handle, ReadToResolve,
      Resolved, PollElapsed, ResolveAgain, ResolveGivesUp, ProcessDies, PoolUnchanged
<1>10. gaveUp' \subseteq Ids
  <2>1. ASSUME NEW w \in Workers, ResolveGivesUp(w) \/ Resolved(w) PROVE gaveUp' \subseteq Ids
    <3>1. Holds(w)
      BY <2>1 DEF Placed, ResolveGivesUp, Resolved
    <3> QED
      BY <1>2, <1>3, <2>1, <3>1 DEF ResolveGivesUp, Resolved
  <2> QED
    BY <1>2, <2>1 DEF PoolNext, allVars, poolVars, Start, StartFails, Stop, Teardown, StopPost,
      StopJoined, Spawn, Loop, LoopExit, LoopClaim, ClaimStep, Woken, Handle, ReadToResolve,
      PollElapsed, ResolveAgain, ProcessDies
<1> QED
  BY <1>1, <1>5, <1>6, <1>7, <1>8, <1>9, <1>10 DEF PoolTypeOK

\* A thread stands where its own call left it.
LEMMA PlacedStep ==
    ASSUME PoolTypeOK, Placed, NoneOutside, [PoolNext]_allVars
    PROVE  Placed'
<1>0. TypeOK /\ thread \in [Workers -> Places] /\ Workers \subseteq Clients /\ IdleOp.pc = "idle"
  BY DEF PoolTypeOK, Clients, IdleOp
<1> DEFINE PlacedAt(w) ==
             /\ thread[w] \in {"unspawned", "loop", "wait", "exited"} => op[w].pc = "idle"
             /\ thread[w] = "claim" => op[w].pc \in {"idle", "claim"}
             /\ thread[w] = "run" => Holds(w)
<1>1. ASSUME \A v \in Workers : op'[v] = op[v], thread' = thread PROVE Placed'
  BY <1>1 DEF Placed, Holds
<1>2. ASSUME NEW w \in Workers, \A v \in Workers \ {w} : op'[v] = op[v] /\ thread'[v] = thread[v],
             PlacedAt(w)'
      PROVE  Placed'
  BY <1>2 DEF Placed, Holds
<1>3. ASSUME NEW w \in Workers, NEW place, Goto(w, place)
      PROVE  thread'[w] = place /\ \A v \in Workers \ {w} : thread'[v] = thread[v]
  BY <1>0, <1>3 DEF Goto
<1>4. ASSUME NEW w \in Workers, Others(w)
      PROVE  \A v \in Workers \ {w} : op'[v] = op[v]
  BY <1>0, <1>4 DEF Others
<1>5. ASSUME op' = op \/ op' = [c \in Clients |-> IF c \in Workers THEN IdleOp ELSE op[c]],
             thread' = [w \in Workers |-> "unspawned"],
             \A w \in Workers : op'[w].pc = "idle"
      PROVE  Placed'
  BY <1>5 DEF Placed
<1>6. CASE Start
  <2>1. \A w \in Workers : op[w].pc = "idle"
    BY <1>6 DEF Start, NoneOutside, Placed
  <2> QED
    BY <1>5, <1>6, <2>1 DEF Start, vars
<1>7. CASE ProcessDies
  <2>1. op' = [c \in Clients |-> IF c \in Workers THEN IdleOp ELSE op[c]]
    BY <1>7 DEF ProcessDies, Crash
  <2> QED
    BY <1>0, <1>5, <1>7, <2>1 DEF ProcessDies
<1>8. ASSUME NEW w \in Workers, LoopExit(w) \/ LoopClaim(w) \/ Spawn(w) \/ Woken(w) \/ PollElapsed(w)
      PROVE  Placed'
  <2>1. op' = op
    BY <1>8 DEF LoopExit, LoopClaim, Spawn, Woken, PollElapsed, vars, ReapExpired
  <2>2. op[w].pc = "idle"
    BY <1>8 DEF LoopExit, LoopClaim, Spawn, Woken, PollElapsed, Placed
  <2>3. \E place \in {"loop", "claim", "exited"} : Goto(w, place)
    BY <1>8 DEF LoopExit, LoopClaim, Spawn, Woken, PollElapsed, Goto
  <2> QED
    BY <1>2, <1>3, <2>1, <2>2, <2>3 DEF Holds
<1>9. ASSUME NEW w \in Workers, ClaimStep(w) PROVE Placed'
  <2>1. CASE ClaimReap(w) /\ Goto(w, "claim")
    BY <1>0, <1>2, <1>3, <1>4, <2>1, CallSteps
  <2>2. CASE ClaimTake(w) /\ Goto(w, "run")
    <3>1. Others(w) /\ op'[w].pc = "run"
      BY <1>0, <2>2, CallSteps
    <3> QED
      BY <1>2, <1>3, <1>4, <2>2, <3>1 DEF Holds
  <2>3. CASE (ClaimNothing(w) \/ TimeoutGiveUp(w)) /\ Goto(w, "wait")
    <3>1. Others(w) /\ op'[w].pc = "idle"
      BY <1>0, <2>3, CallSteps
    <3> QED
      BY <1>2, <1>3, <1>4, <2>3, <3>1
  <2> QED
    BY <1>9, <2>1, <2>2, <2>3 DEF ClaimStep
<1>10. ASSUME NEW w \in Workers, NEW outcome \in Outcomes,
              Handle(w, outcome) \/ ReadToResolve(w) \/ ResolveAgain(w)
       PROVE  Placed'
  <2>1. thread[w] = "run" /\ thread' = thread
    BY <1>10 DEF Handle, ReadToResolve, ResolveAgain
  <2>2. Others(w) /\ op'[w].pc \in {"resolve", "write"}
    BY <1>0, <1>10, CallSteps DEF Handle, ReadToResolve, ResolveAgain
  <2> QED
    BY <1>2, <1>4, <2>1, <2>2 DEF Holds
<1>11. ASSUME NEW w \in Workers, Resolved(w) \/ ResolveGivesUp(w) PROVE Placed'
  <2>1. Goto(w, "loop")
    BY <1>11 DEF Resolved, ResolveGivesUp
  <2>2. Others(w) /\ op'[w].pc = "idle"
    BY <1>0, <1>11, CallSteps DEF Resolved, ResolveGivesUp
  <2> QED
    BY <1>2, <1>3, <1>4, <2>1, <2>2
<1>12. CASE \/ Tick /\ UNCHANGED poolVars
            \/ StartFails \/ Stop \/ StopPost \/ StopJoined
            \/ UNCHANGED allVars
  BY <1>1, <1>12 DEF Tick, StartFails, Stop, StopPost, StopJoined, allVars, vars, poolVars
<1>13. ASSUME NEW c \in Producers, Produce(c), UNCHANGED poolVars PROVE Placed'
  BY <1>0, <1>1, <1>13, ProducersApart DEF poolVars
<1> QED
  BY <1>6, <1>7, <1>8, <1>9, <1>10, <1>11, <1>12, <1>13 DEF PoolNext, Loop, Teardown, Outcomes

\* The threads run between a start and the end of its stop.
LEMMA NoneOutsideStep ==
    ASSUME PoolTypeOK, Placed, NoneOutside, [PoolNext]_allVars
    PROVE  NoneOutside'
<1>0. thread \in [Workers -> Places] /\ starts \in Nat
  BY DEF PoolTypeOK
<1>1. CASE Start \/ ProcessDies
  BY <1>0, <1>1 DEF Start, ProcessDies, NoneOutside, Stopping
<1>2. CASE StartFails \/ Stop \/ StopPost \/ StopJoined
  BY <1>0, <1>2 DEF StartFails, Stop, StopPost, StopJoined, NoneOutside
<1>3. ASSUME NEW w \in Workers, \/ LoopExit(w) \/ LoopClaim(w) \/ ClaimStep(w) \/ Woken(w)
                                \/ (\E outcome \in Outcomes : Handle(w, outcome))
                                \/ ReadToResolve(w) \/ Resolved(w) \/ PollElapsed(w)
                                \/ ResolveAgain(w) \/ ResolveGivesUp(w)
      PROVE  NoneOutside'
  <2>1. thread[w] \notin {"unspawned", "exited"}
    BY <1>3 DEF LoopExit, LoopClaim, ClaimStep, Woken, Handle, ReadToResolve, Resolved,
        PollElapsed, ResolveAgain, ResolveGivesUp
  <2>2. phase' = phase /\ starts' = starts
    BY <1>3 DEF LoopExit, LoopClaim, ClaimStep, Woken, Handle, ReadToResolve, Resolved,
        PollElapsed, ResolveAgain, ResolveGivesUp, PoolUnchanged
  <2>3. phase \notin {"none", "freed"}
    BY <2>1 DEF NoneOutside
  <2> QED
    BY <2>2, <2>3 DEF NoneOutside
<1>4. ASSUME NEW w \in Workers, Spawn(w) PROVE NoneOutside'
  BY <1>4 DEF Spawn, NoneOutside
<1>5. CASE UNCHANGED poolVars
  BY <1>5 DEF poolVars, NoneOutside
<1> QED
  BY <1>1, <1>2, <1>3, <1>4, <1>5 DEF PoolNext, Loop, Teardown, allVars

-----------------------------------------------------------------------------
(* The rows the workers hold *)

\* While the process lives a worker leaves the row it runs only as it gives it up
\* or as the row leaves the claimed state.
LEMMA WorkerKeeps ==
    ASSUME PoolTypeOK, Placed, NoneOutside, UniqueActive, [PoolNext]_allVars,
           NEW w \in Workers, Holds(w), ~ProcessDies
    PROVE  \/ Holds(w)' /\ op'[w].job = op[w].job
           \/ jobs'[op[w].job].state # "claimed"
           \/ op[w].job \in gaveUp'
<1>0. TypeOK /\ w \in Clients /\ op[w].job \in Ids
  BY DEF PoolTypeOK, TypeOK, Clients
<1>1. thread[w] = "run"
  BY DEF Placed, PoolTypeOK, Holds, Places
<1>2. ASSUME op'[w] = op[w] PROVE Holds(w)' /\ op'[w].job = op[w].job
  BY <1>2 DEF Holds
<1>3. ASSUME NEW v \in Workers \ {w}, Others(v) PROVE op'[w] = op[w]
  BY <1>0, <1>3 DEF Others
<1>4. ASSUME NEW v \in Workers,
             LoopExit(v) \/ LoopClaim(v) \/ Spawn(v) \/ Woken(v) \/ PollElapsed(v)
      PROVE  op'[w] = op[w]
  BY <1>4 DEF LoopExit, LoopClaim, Spawn, Woken, PollElapsed, vars, ReapExpired
<1>5. ASSUME NEW v \in Workers, ClaimStep(v) PROVE op'[w] = op[w]
  <2>1. v # w
    BY <1>1, <1>5 DEF ClaimStep
  <2>2. v \in Clients /\ Others(v)
    BY <1>0, <1>5, CallSteps DEF ClaimStep, Clients
  <2> QED
    BY <1>3, <2>1, <2>2
<1>6. ASSUME NEW v \in Workers, NEW outcome \in Outcomes,
             Handle(v, outcome) \/ ReadToResolve(v) \/ ResolveAgain(v)
      PROVE  Holds(w)' /\ op'[w].job = op[w].job
  <2>1. v \in Clients
    BY DEF Clients
  <2>2. Others(v) /\ op'[v].pc \in {"resolve", "write"} /\ op'[v].job = op[v].job
    BY <1>0, <1>6, <2>1, CallSteps DEF Handle, ReadToResolve, ResolveAgain
  <2> QED
    BY <1>2, <1>3, <2>2 DEF Holds
<1>7. ASSUME NEW v \in Workers \ {w}, Resolved(v) \/ ResolveGivesUp(v) PROVE op'[w] = op[w]
  <2>1. v \in Clients /\ Others(v)
    BY <1>0, <1>7, CallSteps DEF Resolved, ResolveGivesUp, Clients
  <2> QED
    BY <1>3, <2>1
<1>8. CASE ResolveGivesUp(w) \/ (Resolved(w) /\ CompleteUnschedulable(w))
  <2>1. CASE ResolveGivesUp(w)
    BY <2>1 DEF ResolveGivesUp
  <2>2. CASE Resolved(w) /\ gaveUp' # gaveUp
    BY <2>2 DEF Resolved
  <2>3. CASE Resolved(w) /\ CompleteUnschedulable(w) /\ gaveUp' = gaveUp
    <3>1. op[w].pc = "resolve" /\ op[w].outcome = "complete"
      BY <2>3 DEF CompleteUnschedulable
    <3> QED
      BY <2>3, <3>1 DEF Resolved, NotInFlight, CompleteWrite, FailWrite, CompleteUnschedulable
  <2> QED
    BY <1>8, <2>1, <2>2, <2>3
<1>9. CASE NotInFlight(w)
  BY <1>9 DEF NotInFlight
<1>10. CASE CompleteWrite(w) \/ FailWrite(w)
  <2>1. \/ jobs'[op[w].job].state # "claimed"
        \/ jobs' = jobs /\ Rivals(jobs[op[w].job].key, op[w].job) # {}
    BY <1>0, <1>10, WritesResolve
  <2>2. ASSUME Rivals(jobs[op[w].job].key, op[w].job) # {}
        PROVE  jobs[op[w].job].state # "claimed"
    BY <1>0, <2>2 DEF Rivals, UniqueActive, Active
  <2> QED
    BY <2>1, <2>2
<1>11. CASE \/ Tick /\ UNCHANGED poolVars
            \/ Start \/ StartFails \/ Stop \/ StopPost \/ StopJoined
            \/ UNCHANGED allVars
  BY <1>2, <1>11 DEF Tick, Start, StartFails, Stop, StopPost, StopJoined, allVars, vars
<1>12. ASSUME NEW c \in Producers, Produce(c) PROVE op'[w] = op[w]
  BY <1>0, <1>12, ProducersApart
<1>13. CASE Resolved(w)
  BY <1>8, <1>9, <1>10, <1>13 DEF Resolved
<1> QED
  BY <1>2, <1>4, <1>5, <1>6, <1>7, <1>8, <1>11, <1>12, <1>13
  DEF PoolNext, Loop, Teardown, Outcomes

\* Given up rows stay so while the pool lives.
LEMMA GaveUpGrows ==
    ASSUME PoolTypeOK, Placed, NoneOutside, [PoolNext]_allVars, FirstLife'
    PROVE  FirstLife /\ (gaveUp \subseteq gaveUp') /\ ~ProcessDies
<1>0. starts \in Nat
  BY DEF PoolTypeOK
<1>1. starts = 0 => phase = "none" /\ gaveUp = {}
  BY DEF NoneOutside
<1>2. CASE Start
  BY <1>0, <1>1, <1>2 DEF Start, FirstLife, ProcessDies
<1>3. ~ProcessDies
  BY <1>0, <1>1 DEF ProcessDies, FirstLife
<1>4. ASSUME NEW w \in Workers, \/ Spawn(w) \/ Loop(w) \/ PollElapsed(w)
                                \/ ResolveAgain(w) \/ ResolveGivesUp(w)
      PROVE  starts' = starts /\ gaveUp \subseteq gaveUp' /\ (phase' # phase => phase # "none")
  BY <1>4 DEF Spawn, Loop, LoopExit, LoopClaim, ClaimStep, Woken, Handle, ReadToResolve,
      Resolved, PollElapsed, ResolveAgain, ResolveGivesUp, PoolUnchanged
<1>5. CASE UNCHANGED poolVars \/ StartFails \/ Stop \/ StopPost \/ StopJoined
  BY <1>3, <1>5 DEF poolVars, StartFails, Stop, StopPost, StopJoined, FirstLife
<1> QED
  BY <1>2, <1>3, <1>4, <1>5 DEF PoolNext, Teardown, allVars, FirstLife

\* Every step keeps a claimed row with the worker that holds it.
LEMMA ClaimsHeldStep ==
    ASSUME PoolInv, UniqueActive, [PoolNext]_allVars
    PROVE  ClaimsHeld'
<1> SUFFICES ASSUME FirstLife', NEW j \in Ids, j \notin gaveUp', NEW w \in Workers,
                    jobs'[j].state = "claimed", jobs'[j].worker = w
             PROVE  Holds(w)' /\ op'[w].job = j
  BY DEF ClaimsHeld
<1>0. TypeOK /\ PoolTypeOK /\ Placed /\ NoneOutside /\ ClaimsHeld /\ [Next]_vars
  BY PoolStepIsQueueStep DEF PoolInv, PoolTypeOK
<1>1. FirstLife /\ gaveUp \subseteq gaveUp' /\ ~ProcessDies
  BY <1>0, GaveUpGrows
<1>2. CASE jobs'[j] = jobs[j]
  <2>1. Holds(w) /\ op[w].job = j
    BY <1>0, <1>1, <1>2 DEF ClaimsHeld
  <2> QED
    BY <1>0, <1>1, <2>1, WorkerKeeps
<1>3. CASE \E v \in Workers : ClaimTake(v) /\ op'[v].job = j /\ jobs'[j].worker = v
  <2>1. ClaimTake(w) /\ op'[w].job = j
    BY <1>3
  <2>2. op'[w].pc = "run"
    BY <1>0, <2>1, CallSteps DEF Clients
  <2> QED
    BY <2>1, <2>2 DEF Holds
<1> QED
  BY <1>0, <1>2, <1>3, ClaimsAreTaken

-----------------------------------------------------------------------------
(* Stopping *)

\* A pool that was not started.
LEMMA PoolInvInit == PoolInit => PoolInv
<1> SUFFICES ASSUME PoolInit PROVE PoolInv
  OBVIOUS
<1>1. TypeOK
  BY TypeInit DEF PoolInit
<1>2. \A w \in Workers : op[w].pc = "idle"
  BY DEF PoolInit, Init, IdleOp, Clients
<1>3. \A j \in Ids : jobs[j].state = "absent"
  BY DEF PoolInit, Init, AbsentRow
<1>4. PoolTypeOK
  BY <1>1, DbJobWorkerAssumption DEF PoolInit, PoolTypeOK, Phases, Places
<1>5. Placed /\ NoneOutside
  BY <1>2 DEF PoolInit, Placed, NoneOutside
<1>6. ClaimsHeld
  BY <1>3 DEF ClaimsHeld
<1> QED
  BY <1>4, <1>5, <1>6 DEF PoolInv

\* Every step keeps the invariant of the pool.
LEMMA PoolInvStep == PoolInv /\ UniqueActive /\ [PoolNext]_allVars => PoolInv'
<1> SUFFICES ASSUME PoolInv, UniqueActive, [PoolNext]_allVars PROVE PoolInv'
  OBVIOUS
<1>1. PoolTypeOK /\ Placed /\ NoneOutside
  BY DEF PoolInv
<1> QED
  BY <1>1, PoolTypeStep, PlacedStep, NoneOutsideStep, ClaimsHeldStep DEF PoolInv

\* The joined threads of a freed pool are between calls, so none holds a row.
LEMMA PoolInvSuffices == PoolInv => StopIsClean
<1> SUFFICES ASSUME PoolInv, phase = "freed" PROVE StopIsClean
  BY DEF StopIsClean, FreedIsQuiet, DrainsClaims
<1>1. \A w \in Workers : thread[w] \in {"unspawned", "exited"} /\ op[w].pc = "idle"
  BY DEF PoolInv, NoneOutside, Placed
<1>2. \A w \in Workers : ~Holds(w)
  BY <1>1 DEF Holds
<1>3. ASSUME starts = 1, NEW j \in Ids \ gaveUp, jobs[j].state = "claimed"
      PROVE  jobs[j].worker \notin Workers
  BY <1>2, <1>3 DEF PoolInv, ClaimsHeld, FirstLife
<1> QED
  BY <1>1, <1>3 DEF StopIsClean, FreedIsQuiet, DrainsClaims

\* Every field of the pool keeps its type, and the table its own, whatever fails.
THEOREM PoolTypeCorrect == PoolSpec => []PoolTypeOK
<1>1. PoolInv => PoolTypeOK
  BY DEF PoolInv
<1> QED
  BY <1>1, PoolInvInit, PoolInvStep, PoolKeepsUniqueActive, PTL DEF PoolSpec

\* nya_jobworker_stop leaves nothing half done: when it returns no thread is in a
\* call, and no row of a pool that never crashed is claimed by one of its workers,
\* except those it gave up.
THEOREM StopIsCleanAlways == PoolSpec => []StopIsClean
  BY PoolInvInit, PoolInvStep, PoolInvSuffices, PoolKeepsUniqueActive, PTL DEF PoolSpec

=============================================================================
