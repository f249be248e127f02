------------------------------ MODULE JobSystem ------------------------------
(***************************************************************************)
(* The engine's in-process job pool (nyangine-core/core/core_job.c): a     *)
(* heap of queued jobs, a fixed pool of slots whose records never move,    *)
(* one scheduler thread that reaps returned jobs, starts queued ones and   *)
(* announces both, and one thread per running job.                         *)
(*                                                                         *)
(* The scheduler takes job_active_mutex and job_queue_mutex for a whole    *)
(* pass; nya_job_submit takes the second and nya_job_is_done both.  A pass *)
(* is therefore several steps during which sched.locked keeps every other  *)
(* caller out, while job threads go on running and returning.              *)
(***************************************************************************)
EXTENDS Naturals, FiniteSets

CONSTANTS
    MaxActive,      \* _NYA_JOB_MAX_ACTIVE, the records in the pool
    MaxConcurrent,  \* options.max_concurrent_jobs
    Priorities,     \* the NYA_JobPriority values that occur, LOW = 0 first
    MaxHandle       \* bound: jobs submitted in a behaviour

ASSUME JobAssumption ==
    /\ MaxActive \in Nat \ {0} /\ MaxConcurrent \in Nat \ {0}
    /\ MaxHandle \in Nat /\ Priorities \subseteq Nat /\ Priorities # {}

Slots == 1..MaxActive
Handles == 1..MaxHandle
NoJob == 0          \* in a slot or a list: nothing
Job == [handle : Handles, priority : Priorities]

Limit == IF MaxConcurrent < MaxActive THEN MaxConcurrent ELSE MaxActive

VARIABLES
    phase,       \* off, up, exiting (the flag is raised), draining, down
    queue,       \* job_queue: the queued jobs
    slots,       \* job_slots[s].job_handle where job_slot_used[s], else NoJob
    thread,      \* the thread of each slot: none, running, returned
    active,      \* job_active_count
    nextHandle,  \* next_job_handle
    sched,       \* the scheduler: pc, whether it holds both locks, what this
                 \* pass reaped and started, by slot
    returned,    \* history: the jobs whose function has returned
    said         \* history: the jobs announced started and completed

jobVars == <<phase, queue, slots, thread, active, nextHandle, sched, returned, said>>

Used == {s \in Slots : slots[s] # NoJob}
IsLowest(s, S) == s \in S /\ \A t \in S : s <= t
NoSlots == [s \in Slots |-> NoJob]
Idle == [pc |-> "check", locked |-> FALSE, finished |-> NoSlots, started |-> NoSlots]

JobInit ==
    /\ phase = "off" /\ queue = {} /\ slots = NoSlots
    /\ thread = [s \in Slots |-> "none"]
    /\ active = 0 /\ nextHandle = 0
    /\ sched = [Idle EXCEPT !.pc = "exited"]
    /\ returned = {} /\ said = [started |-> {}, completed |-> {}]

\* nya_system_job_init: the locks, the heap, and the scheduler last.  A lock or
\* a thread the host refuses leaves the system off.
SystemInit ==
    /\ phase = "off"
    /\ phase' = "up" /\ sched' = Idle
    /\ UNCHANGED <<queue, slots, thread, active, nextHandle, returned, said>>

(***************************************************************************)
(* The callers                                                             *)
(***************************************************************************)
Serving == phase \in {"up", "exiting", "draining"}
Unlocked == ~ sched.locked

\* nya_job_submit, by any thread: the handle and the push under one lock.
Submit(p) ==
    /\ Serving /\ Unlocked
    /\ nextHandle < MaxHandle
    /\ nextHandle' = nextHandle + 1
    /\ queue' = queue \union {[handle |-> nextHandle + 1, priority |-> p]}
    /\ UNCHANGED <<phase, slots, thread, active, sched, returned, said>>

\* nya_job_is_done: a handle in no slot and not queued, under both locks.
IsDone(h) == /\ \A s \in Slots : slots[s] # h
             /\ \A j \in queue : j.handle # h

(***************************************************************************)
(* The scheduler                                                           *)
(***************************************************************************)

\* MUTANT of ReadFlag: the loop never looks at the flag.
ReadNoFlag ==
    /\ sched.pc = "check"
    /\ sched' = [sched EXCEPT !.pc = "pass"]
    /\ UNCHANGED <<phase, queue, slots, thread, active, nextHandle, returned, said>>

\* The loop's condition: the flag is read with no lock held.
ReadFlag ==
    /\ sched.pc = "check" /\ phase = "up"
    /\ sched' = [sched EXCEPT !.pc = "pass"]
    /\ UNCHANGED <<phase, queue, slots, thread, active, nextHandle, returned, said>>

\* MUTANT of Returned: a slot is freed while its thread runs.
ReturnedOrNot == Used

\* MUTANT of Returned: the reap stops at the first slot.
ReturnedFirstSlot == {s \in Used : s = 1 /\ thread[s] = "returned"}

Returned == {s \in Used : thread[s] = "returned"}

\* A pass begins: both locks are taken, and every slot whose thread has
\* returned is joined and freed.
Reap ==
    /\ sched.pc = "pass" /\ Unlocked
    /\ slots' = [s \in Slots |-> IF s \in Returned THEN NoJob ELSE slots[s]]
    /\ thread' = [s \in Slots |-> IF s \in Returned THEN "none" ELSE thread[s]]
    /\ active' = active - Cardinality(Returned)
    /\ sched' = [pc |-> "fill", locked |-> TRUE,
                 finished |-> [s \in Slots |-> IF s \in Returned THEN slots[s] ELSE NoJob],
                 started |-> NoSlots]
    /\ UNCHANGED <<phase, queue, nextHandle, returned, said>>

\* nya_heap_pop with _nya_job_compare: one of the least; which of several
\* equals is the heap's business.
Least(j) == j \in queue /\ \A k \in queue : j.priority <= k.priority

Room == queue # {} /\ active < Limit

\* MUTANT of StartInto: the slot is not looked for.
FirstSlotInto(j) ==
    /\ slots' = [slots EXCEPT ![1] = j.handle]
    /\ thread' = [thread EXCEPT ![1] = "running"]
    /\ sched' = [sched EXCEPT !.started[1] = j.handle]

\* The lowest free slot takes the record and its thread starts on the address
\* of that slot.
StartInto(j) ==
    \E s \in Slots :
    /\ IsLowest(s, Slots \ Used)
    /\ slots' = [slots EXCEPT ![s] = j.handle]
    /\ thread' = [thread EXCEPT ![s] = "running"]
    /\ sched' = [sched EXCEPT !.started[s] = j.handle]

\* One round of the inner loop: the heap's head is started.
StartJob ==
    /\ sched.pc = "fill" /\ Room
    /\ \E j \in queue :
        /\ Least(j)
        /\ queue' = queue \ {j}
        /\ StartInto(j)
    /\ active' = active + 1
    /\ UNCHANGED <<phase, nextHandle, returned, said>>

Release ==
    /\ sched.pc = "fill" /\ ~ Room
    /\ sched' = [sched EXCEPT !.pc = "announce", !.locked = FALSE]
    /\ UNCHANGED <<phase, queue, slots, thread, active, nextHandle, returned, said>>

\* nya_event_dispatch for each job of the pass, in slot order, the reaped ones
\* first.  Its listeners run on this thread and may themselves submit: a step
\* needs the locks free.
Listed(list) == {s \in Slots : list[s] # NoJob}

AnnounceCompleted ==
    /\ sched.pc = "announce" /\ Unlocked
    /\ \E s \in Slots :
        /\ IsLowest(s, Listed(sched.finished))
        /\ said' = [said EXCEPT !.completed = @ \union {sched.finished[s]}]
        /\ sched' = [sched EXCEPT !.finished[s] = NoJob]
    /\ UNCHANGED <<phase, queue, slots, thread, active, nextHandle, returned>>

AnnounceStarted ==
    /\ sched.pc = "announce" /\ Listed(sched.finished) = {} /\ Unlocked
    /\ \E s \in Slots :
        /\ IsLowest(s, Listed(sched.started))
        /\ said' = [said EXCEPT !.started = @ \union {sched.started[s]}]
        /\ sched' = [sched EXCEPT !.started[s] = NoJob]
    /\ UNCHANGED <<phase, queue, slots, thread, active, nextHandle, returned>>

\* SDL_Delay, and back to the loop's condition.
Sleep ==
    /\ sched.pc = "announce"
    /\ Listed(sched.finished) = {} /\ Listed(sched.started) = {}
    /\ sched' = [sched EXCEPT !.pc = "check"]
    /\ UNCHANGED <<phase, queue, slots, thread, active, nextHandle, returned, said>>

SchedulerExits ==
    /\ sched.pc = "check" /\ phase = "exiting"
    /\ sched' = [sched EXCEPT !.pc = "exited"]
    /\ UNCHANGED <<phase, queue, slots, thread, active, nextHandle, returned, said>>

Scheduler == \/ ReadFlag \/ Reap \/ StartJob \/ Release
             \/ AnnounceCompleted \/ AnnounceStarted \/ Sleep \/ SchedulerExits

(***************************************************************************)
(* The job threads                                                         *)
(***************************************************************************)

\* _nya_job_run returns and _nya_thread_entry raises the thread's flag.
JobReturns(s) ==
    /\ thread[s] = "running"
    /\ thread' = [thread EXCEPT ![s] = "returned"]
    /\ returned' = returned \union {slots[s]}
    /\ UNCHANGED <<phase, queue, slots, active, nextHandle, sched, said>>

(***************************************************************************)
(* nya_system_job_deinit                                                   *)
(***************************************************************************)
RaiseExit ==
    /\ phase = "up" /\ phase' = "exiting"
    /\ UNCHANGED <<queue, slots, thread, active, nextHandle, sched, returned, said>>

JoinScheduler ==
    /\ phase = "exiting" /\ sched.pc = "exited" /\ phase' = "draining"
    /\ UNCHANGED <<queue, slots, thread, active, nextHandle, sched, returned, said>>

\* The slots in order; the join waits for the thread.
DrainSlot ==
    /\ phase = "draining"
    /\ \E s \in Slots :
        /\ IsLowest(s, Used)
        /\ thread[s] = "returned"
        /\ slots' = [slots EXCEPT ![s] = NoJob]
        /\ thread' = [thread EXCEPT ![s] = "none"]
    /\ active' = active - 1
    /\ UNCHANGED <<phase, queue, nextHandle, sched, returned, said>>

\* The locks, the heap and the arena go, with whatever was still queued.
TearDown ==
    /\ phase = "draining" /\ Used = {} /\ phase' = "down"
    /\ queue' = {}
    /\ UNCHANGED <<slots, thread, active, nextHandle, sched, returned, said>>

Deinit == JoinScheduler \/ DrainSlot \/ TearDown

\* Down, nobody may call in any more.
Terminated ==
    /\ phase = "down"
    /\ UNCHANGED jobVars

JobNext == \/ SystemInit
           \/ \E p \in Priorities : Submit(p)
           \/ Scheduler
           \/ \E s \in Slots : JobReturns(s)
           \/ RaiseExit \/ Deinit \/ Terminated

JobSpec == JobInit /\ [][JobNext]_jobVars

(***************************************************************************)
(* Fairness: the scheduler's loop never blocks for good (its locks are     *)
(* held for bounded work), every job's function returns, and deinit's      *)
(* joins return once the thread has.                                       *)
(***************************************************************************)
JobFairness == /\ WF_jobVars(SystemInit) /\ WF_jobVars(Scheduler) /\ WF_jobVars(Deinit)
               /\ \A s \in Slots : WF_jobVars(JobReturns(s))

JobFairSpec == JobSpec /\ JobFairness

(***************************************************************************)
(* Properties                                                              *)
(***************************************************************************)

\* Every variable has its type, and the lists of a pass name jobs.
JobTypeOK ==
    /\ phase \in {"off", "up", "exiting", "draining", "down"}
    /\ queue \subseteq Job
    /\ slots \in [Slots -> Handles \union {NoJob}]
    /\ thread \in [Slots -> {"none", "running", "returned"}]
    /\ active \in Nat /\ nextHandle \in 0..MaxHandle
    /\ sched \in [pc : {"check", "pass", "fill", "announce", "exited"}, locked : BOOLEAN,
                  finished : [Slots -> Handles \union {NoJob}],
                  started : [Slots -> Handles \union {NoJob}]]
    /\ returned \subseteq Handles
    /\ said \in [started : SUBSET Handles, completed : SUBSET Handles]

\* The counter the limit is compared with is the number of used slots, so the
\* scan of _nya_job_scheduler always finds the free slot it asserts ("the
\* active count says there is room but every slot is taken"), and no more than
\* the limit's worth of job threads exist.
CountMatchesSlots ==
    /\ active = Cardinality(Used)
    /\ Cardinality({s \in Slots : thread[s] # "none"}) <= Limit
    /\ (sched.pc = "fill" /\ Room) => Slots \ Used # {}

\* nya_job_is_done answers yes about a submitted job only once its function has
\* returned: the handle is never between the heap and a slot, nor in neither
\* while its thread runs.  nya_job_wait returning is therefore a join.
DoneMeansReturned ==
    phase \in {"up", "exiting", "draining"} =>
        \A h \in 1..nextHandle : IsDone(h) => h \in returned

\* No step of the scheduler, of a submit or of a drain moves or overwrites the
\* record a running job's thread was handed the address of.
SlotPinned ==
    [][\A s \in Slots : thread[s] = "running" => slots'[s] = slots[s]]_jobVars

\* A listener of JOB_COMPLETED hears of a job that has returned, that
\* nya_job_is_done agrees is done, and whose JOB_STARTED it has heard before.
CompletedAfterStarted ==
    \A h \in said.completed :
        h \in said.started /\ h \in returned /\ (phase # "down" => IsDone(h))

\* Once nya_system_job_deinit has freed the arena no job thread runs on it and
\* the scheduler is gone.
DownIsQuiet ==
    phase = "down" => /\ sched.pc = "exited"
                      /\ \A s \in Slots : thread[s] = "none"

\* Every submitted job is announced completed, unless the system is shut down
\* first; and nya_system_job_deinit returns, whatever is queued or running when it
\* is called (jobs that wait on other jobs are TaskGroup's matter).
JobsEnd ==
    /\ \A h \in Handles : (h <= nextHandle) ~> (h \in said.completed \/ phase # "up")
    /\ (phase = "exiting") ~> (phase = "down")

=============================================================================
