--------------------------- MODULE MCDbJobWorker ---------------------------
(***************************************************************************)
(* The queue under workers that never stop, and under a pool that is       *)
(* stopped, crashes and is started again: an initial state picks which.    *)
(***************************************************************************)
EXTENDS DbJobWorker

CONSTANTS w1, w2, p1, k1

VARIABLE machine

mcVars == <<machine, allVars>>

OneShot == [delay |-> 0, life |-> 0, max |-> 2, key |-> NoKey,
            replace |-> FALSE, recur |-> 0, cron |-> 0]

\* A one-shot, one with a key and a deadline, and a cron spec with no firing whose
\* first run the caller pinned.
MCOptions == {OneShot, [OneShot EXCEPT !.life = 1, !.key = k1],
              [OneShot EXCEPT !.cron = Unsatisfiable, !.delay = 1]}

MCInit == machine \in {"queue", "pool"} /\ PoolInit

\* Bound: one fault, plain jobs, and what is enqueued is enqueued before the first claim.
QueueMoves(step) == /\ machine = "queue" /\ step
                    /\ faults' <= 1 /\ \A j \in Ids : jobs'[j].key = NoKey /\ jobs'[j].cron = 0
                    /\ \/ \A j \in Ids : jobs[j].attempts = 0
                       \/ \A c \in Producers : op'[c] = op[c]
                    /\ UNCHANGED <<machine, poolVars>>

\* Bound: one row, not of the plain kind, for as long as a lease.
Modest ==
    /\ now <= Lease /\ \A j \in Ids \ {1} : jobs[j].state = "absent"
    /\ jobs[1].state # "absent" => jobs[1].key # NoKey \/ jobs[1].cron # 0
PoolMoves(step) == machine = "pool" /\ step /\ Modest' /\ UNCHANGED machine

MCNext == QueueMoves(Next) \/ PoolMoves(PoolNext)

\* Fairness of DbJobs and of DbJobWorker, each where it moves.
MCFair ==
    /\ WF_mcVars(QueueMoves(Tick)) /\ WF_mcVars(PoolMoves(Teardown))
    /\ \A w \in Workers : WF_mcVars(QueueMoves(Work(w))) /\ WF_mcVars(PoolMoves(Loop(w)))

MCSpec == MCInit /\ [][MCNext]_mcVars /\ MCFair

\* A queue whose workers go on never wedges on one that died (db_jobs.h): NeverWedged
\* where no pool can be stopped, for a stopped one owes a lease nothing.
QueueNeverWedged == machine = "queue" => NeverWedged

=============================================================================
