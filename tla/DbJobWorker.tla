---------------------------- MODULE DbJobWorker ----------------------------
(***************************************************************************)
(* The worker pool of nyangine-core/db/db_jobworker.c, over the queue of   *)
(* DbJobs: every worker thread loops claim / dispatch / resolve on its own *)
(* connection, and nya_jobworker_stop drains, joins and frees.  Each pool  *)
(* step that touches the table is a step of DbJobs.                        *)
(***************************************************************************)
EXTENDS DbJobs

CONSTANTS
    ResolveRetries,   \* _NYA_JOBWORKER_RESOLVE_RETRIES
    MaxStarts         \* bound: pools started, one after another

\* Each worker has a connection of its own, none of a producer's.
ASSUME DbJobWorkerAssumption ==
    /\ ResolveRetries \in Nat /\ MaxStarts \in Nat
    /\ IsFiniteSet(Workers) /\ Workers \cap Producers = {}

VARIABLES
    phase,     \* the pool: see Phases
    wake,      \* the count of the wake semaphore
    thread,    \* where each worker's loop is
    retries,   \* `attempt` of _nya_jobworker_resolve, per worker
    starts,    \* nya_jobworker_start calls so far
    gaveUp     \* rows a resolve of this pool left claimed

poolVars == <<phase, wake, thread, retries, starts, gaveUp>>
allVars == <<vars, poolVars>>

(***************************************************************************)
(* none      no pool                                                       *)
(* starting  nya_jobworker_start is spawning threads                       *)
(* up        started, the handle returned                                  *)
(* flagged   a stop raised `stopping`                                      *)
(* joining   it posted the semaphore and joins the threads                 *)
(* freed     it closed the connections and destroyed the pool's arena      *)
(***************************************************************************)
Phases == {"none", "starting", "up", "flagged", "joining", "freed"}
Stopping == phase \in {"flagged", "joining", "freed"}

\* unspawned; loop: about to read `stopping`; claim: in nya_job_claim;
\* run: in _nya_jobworker_dispatch; wait: on the semaphore; exited.
Places == {"unspawned", "loop", "claim", "run", "wait", "exited"}

PoolInit ==
    /\ Init
    /\ phase = "none" /\ wake = 0
    /\ thread = [w \in Workers |-> "unspawned"]
    /\ retries = [w \in Workers |-> 0]
    /\ starts = 0 /\ gaveUp = {}

(***************************************************************************)
(* nya_jobworker_start                                                     *)
(***************************************************************************)
Start ==
    /\ phase \in {"none", "freed"} /\ starts < MaxStarts
    /\ phase' = "starting" /\ starts' = starts + 1
    /\ wake' = 0 /\ gaveUp' = {}
    /\ thread' = [w \in Workers |-> "unspawned"]
    /\ UNCHANGED <<vars, retries>>

\* Threads start claiming at once, before the last one is spawned.
Spawn(w) ==
    /\ phase = "starting" /\ thread[w] = "unspawned"
    /\ thread' = [thread EXCEPT ![w] = "loop"]
    /\ phase' = IF \A v \in Workers \ {w} : thread[v] # "unspawned" THEN "up" ELSE phase
    /\ UNCHANGED <<vars, wake, retries, starts, gaveUp>>

\* A semaphore, a connection or a thread cannot be had: start calls stop itself.
StartFails ==
    /\ phase = "starting"
    /\ phase' = "flagged"
    /\ UNCHANGED <<vars, wake, thread, retries, starts, gaveUp>>

(***************************************************************************)
(* nya_jobworker_stop                                                      *)
(***************************************************************************)

\* `stopped` and `stopping` go up.  One call per handle: the call frees the
\* pool, so another on the same handle reads freed memory.
Stop ==
    /\ phase = "up"
    /\ phase' = "flagged"
    /\ UNCHANGED <<vars, wake, thread, retries, starts, gaveUp>>

\* MUTANT of StopPost: one post wakes one idle worker.
StopPostOne ==
    /\ phase = "flagged"
    /\ phase' = "joining" /\ wake' = wake + 1
    /\ UNCHANGED <<vars, thread, retries, starts, gaveUp>>

\* One post per worker, so that every idle one ends its wait.
StopPost ==
    /\ phase = "flagged"
    /\ phase' = "joining" /\ wake' = wake + Cardinality(Workers)
    /\ UNCHANGED <<vars, thread, retries, starts, gaveUp>>

\* Every spawned thread has left its loop; connections, semaphore, arena go.
StopJoined ==
    /\ phase = "joining"
    /\ \A w \in Workers : thread[w] \in {"unspawned", "exited"}
    /\ phase' = "freed"
    /\ UNCHANGED <<vars, wake, thread, retries, starts, gaveUp>>

(***************************************************************************)
(* _nya_jobworker_run                                                      *)
(***************************************************************************)
Goto(w, place) == thread' = [thread EXCEPT ![w] = place]

PoolUnchanged == UNCHANGED <<phase, wake, starts>>

LoopExit(w) ==
    /\ thread[w] = "loop" /\ Stopping
    /\ Goto(w, "exited")
    /\ UNCHANGED <<vars, retries, gaveUp>> /\ PoolUnchanged

\* With or without the periodic sweep before the claim.
LoopClaim(w) ==
    /\ thread[w] = "loop" /\ ~Stopping
    /\ Goto(w, "claim")
    /\ ReapExpired(w) \/ UNCHANGED vars
    /\ UNCHANGED <<retries, gaveUp>> /\ PoolUnchanged

\* MUTANT of ClaimStep: the flag is read again after the claim.
ClaimStepThenFlag(w) ==
    /\ thread[w] = "claim"
    /\ \/ ClaimReap(w) /\ Goto(w, "claim")
       \/ ClaimTake(w) /\ Goto(w, IF Stopping THEN "exited" ELSE "run")
       \/ (ClaimNothing(w) \/ TimeoutGiveUp(w)) /\ Goto(w, "wait")
    /\ UNCHANGED <<retries, gaveUp>> /\ PoolUnchanged

\* Nothing due, or an error: the worker waits either way.
ClaimStep(w) ==
    /\ thread[w] = "claim"
    /\ \/ ClaimReap(w) /\ Goto(w, "claim")
       \/ ClaimTake(w) /\ Goto(w, "run")
       \/ (ClaimNothing(w) \/ TimeoutGiveUp(w)) /\ Goto(w, "wait")
    /\ UNCHANGED <<retries, gaveUp>> /\ PoolUnchanged

Woken(w) ==
    /\ thread[w] = "wait" /\ wake > 0
    /\ wake' = wake - 1 /\ Goto(w, "loop")
    /\ UNCHANGED <<vars, phase, retries, starts, gaveUp>>

PollElapsed(w) ==
    /\ thread[w] = "wait"
    /\ Goto(w, "loop")
    /\ UNCHANGED <<vars, retries, gaveUp>> /\ PoolUnchanged

(***************************************************************************)
(* _nya_jobworker_dispatch and _nya_jobworker_resolve                      *)
(***************************************************************************)

\* A kind without a handler is failed unrecoverably, as a handler may fail it.
Handle(w, outcome) ==
    /\ thread[w] = "run"
    /\ HandlerReturns(w, outcome)
    /\ retries' = [retries EXCEPT ![w] = 0]
    /\ UNCHANGED <<thread, gaveUp>> /\ PoolUnchanged

ReadToResolve(w) ==
    /\ thread[w] = "run"
    /\ CompleteRead(w) \/ FailRead(w)
    /\ UNCHANGED <<thread, retries, gaveUp>> /\ PoolUnchanged

\* Any result but a timeout ends the dispatch; the worker logs it and loops.
Resolved(w) ==
    /\ thread[w] = "run"
    /\ \/ /\ NotInFlight(w) \/ CompleteWrite(w) \/ FailWrite(w)
          /\ UNCHANGED gaveUp
       \/ /\ CompleteUnschedulable(w)
          /\ gaveUp' = gaveUp \cup {op[w].job}
    /\ Goto(w, "loop")
    /\ UNCHANGED retries /\ PoolUnchanged

\* MUTANT of ResolveAgain: only the write is tried again, on what was read.
ResolveAgainUnread(w) ==
    /\ thread[w] = "run" /\ retries[w] < ResolveRetries
    /\ op[w].pc = "write" /\ faults < MaxFaults /\ faults' = faults + 1
    /\ retries' = [retries EXCEPT ![w] = retries[w] + 1]
    /\ UNCHANGED <<now, jobs, op, thread, gaveUp>> /\ PoolUnchanged

\* Only a lock timeout is tried again, the whole call from its SELECT on.
ResolveAgain(w) ==
    /\ thread[w] = "run" /\ retries[w] < ResolveRetries
    /\ TimeoutRetry(w)
    /\ retries' = [retries EXCEPT ![w] = retries[w] + 1]
    /\ UNCHANGED <<thread, gaveUp>> /\ PoolUnchanged

\* "Past the cap we give up and let the lease reclaim the job."
ResolveGivesUp(w) ==
    /\ thread[w] = "run" /\ retries[w] >= ResolveRetries
    /\ TimeoutGiveUp(w)
    /\ Goto(w, "loop")
    /\ gaveUp' = gaveUp \cup {op[w].job}
    /\ UNCHANGED retries /\ PoolUnchanged

(***************************************************************************)
(* The process that runs the pool dies; another may start on the same file *)
(***************************************************************************)
ProcessDies ==
    /\ phase \in {"starting", "up", "flagged", "joining"}
    /\ Crash(Workers)
    /\ phase' = "none" /\ wake' = 0 /\ gaveUp' = {}
    /\ thread' = [w \in Workers |-> "unspawned"]
    /\ retries' = [w \in Workers |-> 0]
    /\ UNCHANGED starts

(***************************************************************************)
(* The pool                                                                *)
(***************************************************************************)
Loop(w) ==
    \/ LoopExit(w) \/ LoopClaim(w) \/ ClaimStep(w) \/ Woken(w)
    \/ \E outcome \in Outcomes : Handle(w, outcome)
    \/ ReadToResolve(w) \/ Resolved(w)

Teardown == StopPost \/ StopJoined

PoolNext ==
    \/ Tick /\ UNCHANGED poolVars
    \/ (\E c \in Producers : Produce(c)) /\ UNCHANGED poolVars
    \/ Start \/ StartFails \/ Stop \/ Teardown
    \/ \E w \in Workers : \/ Spawn(w) \/ Loop(w) \/ PollElapsed(w)
                          \/ ResolveAgain(w) \/ ResolveGivesUp(w)
    \/ ProcessDies

PoolSpec == PoolInit /\ [][PoolNext]_allVars

(***************************************************************************)
(* Fairness: threads are scheduled and handlers return.  Nothing is owed   *)
(* by the poll timer: waking idle workers is the semaphore's work.         *)
(***************************************************************************)
FairPool ==
    /\ PoolSpec
    /\ WF_allVars(Teardown)
    /\ \A w \in Workers : WF_allVars(Loop(w))

-----------------------------------------------------------------------------

\* Every pool field has its type, the queue's state its own.
PoolTypeOK ==
    /\ TypeOK
    /\ phase \in Phases /\ wake \in Nat
    /\ thread \in [Workers -> Places]
    /\ retries \in [Workers -> 0 .. ResolveRetries]
    /\ starts \in 0 .. MaxStarts /\ gaveUp \subseteq Ids

\* "Tearing their connections and arenas down races with nothing": once the
\* pool is freed no worker is between two statements of a call.
FreedIsQuiet ==
    phase = "freed" =>
        \A w \in Workers : thread[w] \in {"unspawned", "exited"} /\ op[w].pc = "idle"

\* "That is the whole drain": when the stop of a pool that never crashed
\* returns, no row is claimed by one of its workers, except rows whose resolve
\* failed (lock timeouts past the retries, a cron spec with no next firing).
DrainsClaims ==
    phase = "freed" /\ starts = 1 =>
        \A j \in Ids \ gaveUp : jobs[j].state = "claimed" => jobs[j].worker \notin Workers

\* What nya_jobworker_stop promises by the time it returns: nothing of the pool
\* runs on, and nothing it started is left half done.
StopIsClean == FreedIsQuiet /\ DrainsClaims

\* Whatever the pool does to the table, the queue's specification allows: the
\* pool implements DbJobs, with the pool's own fields hidden.
ImplementsQueue == Spec

\* nya_jobworker_stop returns: every worker sees the flag, also one that sits
\* idle on the semaphore.
StopReturns == phase = "flagged" ~> phase \in {"freed", "none"}

=============================================================================
