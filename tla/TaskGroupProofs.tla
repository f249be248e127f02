--------------------------- MODULE TaskGroupProofs ---------------------------
(***************************************************************************)
(* What holds of the job pool for every number of records, every limit on  *)
(* concurrent jobs, every set of priorities and any number of submissions; *)
(* and of task groups for every pool, every number of groups, every        *)
(* capacity and every nesting of groups in tasks.                          *)
(***************************************************************************)
EXTENDS TaskGroup, FiniteSetTheorems, TLAPS

-----------------------------------------------------------------------------
(***************************************************************************)
(* The inductive invariant.  None of the checked invariants is inductive   *)
(* by itself: that a reaped job is done needs that its handle is nowhere   *)
(* else, that the count matches needs that a slot is used exactly while it *)
(* has a thread, and that completions follow starts needs to know which    *)
(* announcements the current pass still owes.                              *)
(***************************************************************************)

\* A record is used exactly while it has a thread to join.
ThreadPerSlot == \A s \in Slots : thread[s] = "none" <=> slots[s] = NoJob

Counted == active = Cardinality(Used) /\ active <= Limit

\* The scheduler lives between init and its join, holds the locks only to fill
\* the slots, and owes no announcement outside a pass.
Lifecycle ==
    /\ phase = "off" => nextHandle = 0
    /\ phase \notin {"up", "exiting"} => sched.pc = "exited"
    /\ phase = "down" => Used = {}
    /\ sched.locked <=> sched.pc = "fill"
    /\ sched.pc \in {"check", "pass", "exited"}
         => sched.finished = NoSlots /\ sched.started = NoSlots

\* Handles are given out once: none beyond next_job_handle is in use, and no
\* job is in two places.
Unique ==
    /\ \A j \in queue : j.handle <= nextHandle
    /\ \A s \in Slots : slots[s] <= nextHandle /\ sched.finished[s] <= nextHandle
    /\ \A h \in said.completed : h <= nextHandle
    /\ \A s, t \in Slots : slots[s] # NoJob /\ slots[s] = slots[t] => s = t
    /\ \A j \in queue, s \in Slots : slots[s] # j.handle
    /\ \A j, k \in queue : j.handle = k.handle => j = k

\* A job given out is queued, in a slot, or has returned.
Accounted ==
    /\ phase # "down" => \A h \in 1..nextHandle : IsDone(h) => h \in returned
    /\ \A s \in Slots : thread[s] = "returned" => slots[s] \in returned

\* A running job's start is announced or owed by this pass; a completion that
\* is announced or owed is that of a job which returned and was announced.
Over(h) == h \in said.started /\ h \in returned /\ IsDone(h)

Announced ==
    /\ \A s \in Slots : slots[s] # NoJob =>
          slots[s] \in said.started \/ sched.started[s] = slots[s]
    /\ \A s \in Slots : sched.finished[s] # NoJob => Over(sched.finished[s])
    /\ \A h \in said.completed : Over(h)

PoolInv == /\ JobTypeOK /\ ThreadPerSlot /\ Counted /\ Lifecycle
           /\ Unique /\ Accounted /\ Announced

-----------------------------------------------------------------------------
(* Facts about the pool *)

\* The limit never exceeds the records of the pool.
LEMMA LimitBound == Limit \in Nat \ {0} /\ Limit <= MaxActive
  BY JobAssumption DEF Limit

\* Used slots are finitely many, at most all of them.
LEMMA UsedFinite ==
    /\ IsFiniteSet(Slots) /\ Cardinality(Slots) = MaxActive
    /\ IsFiniteSet(Used) /\ Cardinality(Used) \in Nat
<1>1. IsFiniteSet(Slots) /\ Cardinality(Slots) = MaxActive
  BY FS_Interval, JobAssumption DEF Slots
<1>2. Used \in SUBSET Slots
  BY DEF Used
<1>3. IsFiniteSet(Used)
  BY <1>1, <1>2, FS_Subset
<1> QED
  BY <1>1, <1>3, FS_CardinalityType

\* While the count is below the limit there is a free record.
LEMMA FreeSlot ==
    ASSUME Counted, active < Limit
    PROVE  Slots \ Used # {}
<1>1. Cardinality(Used) # Cardinality(Slots)
  BY LimitBound, UsedFinite, JobAssumption DEF Counted
<1> QED
  BY <1>1 DEF Used

-----------------------------------------------------------------------------
(* The steps, by the part of the invariant they could disturb *)

\* The slots and their threads.  Only Reap, StartJob, JobReturns and DrainSlot
\* touch them; a returned thread is never joined twice.
LEMMA CountStep ==
    ASSUME PoolInv, [JobNext]_jobVars
    PROVE  ThreadPerSlot' /\ Counted' /\ active' \in Nat
<1> USE DEF PoolInv
<1>0. /\ slots \in [Slots -> Handles \union {NoJob}]
      /\ thread \in [Slots -> {"none", "running", "returned"}]
      /\ active \in Nat /\ active = Cardinality(Used) /\ active <= Limit
      /\ \A h \in Handles : h # NoJob
      /\ Limit \in Nat
  BY LimitBound DEF JobTypeOK, Counted, Handles, NoJob
<1>1. CASE Reap
  <2>1. Returned \in SUBSET Used
    BY DEF Returned
  <2>2. IsFiniteSet(Returned) /\ Cardinality(Returned) \in Nat
    BY <2>1, UsedFinite, FS_Subset, FS_CardinalityType
  <2>3. Used' = Used \ Returned
    BY <1>0, <1>1 DEF Reap, Used, Returned
  <2>4. Used \cap Returned = Returned
    BY <2>1
  <2>5. Cardinality(Used') = Cardinality(Used) - Cardinality(Returned)
    <3>1. Cardinality(Used \ Returned) = Cardinality(Used) - Cardinality(Used \cap Returned)
      BY UsedFinite, FS_Difference
    <3> QED
      BY <2>3, <2>4, <3>1, Zenon
  <2>6. active' = active - Cardinality(Returned) /\ Cardinality(Used') \in Nat
    BY <1>1, <2>2, <2>3, UsedFinite, FS_Difference, FS_CardinalityType DEF Reap
  <2>7. ThreadPerSlot'
    BY <1>0, <1>1 DEF Reap, ThreadPerSlot, Returned, Used, NoJob
  <2>8. Limit' = Limit
    BY DEF Limit
  <2> QED
    BY <1>0, <2>2, <2>5, <2>6, <2>7, <2>8 DEF Counted
<1>2. CASE StartJob
  <2>1. PICK j \in queue, s \in Slots :
            /\ s \notin Used
            /\ slots' = [slots EXCEPT ![s] = j.handle]
            /\ thread' = [thread EXCEPT ![s] = "running"]
    BY <1>2 DEF StartJob, StartInto, IsLowest
  <2>2. j.handle \in Handles
    BY DEF JobTypeOK, Job
  <2>3. Used' = Used \cup {s}
    BY <1>0, <2>1, <2>2 DEF Used
  <2>4. Cardinality(Used') = Cardinality(Used) + 1
    BY <2>1, <2>3, UsedFinite, FS_AddElement
  <2>5. active < Limit /\ active' = active + 1 /\ Limit' = Limit
    BY <1>2 DEF StartJob, Room, Limit
  <2>6. ThreadPerSlot'
    BY <1>0, <2>1, <2>2 DEF ThreadPerSlot
  <2> QED
    BY <1>0, <2>4, <2>5, <2>6 DEF Counted
<1>3. CASE \E s \in Slots : JobReturns(s)
  <2>1. PICK s \in Slots : JobReturns(s)
    BY <1>3
  <2>2. Used' = Used /\ active' = active /\ Limit' = Limit
    BY <2>1 DEF JobReturns, Used, Limit
  <2>3. ThreadPerSlot'
    BY <1>0, <2>1 DEF JobReturns, ThreadPerSlot
  <2> QED
    BY <1>0, <2>2, <2>3 DEF Counted
<1>4. CASE DrainSlot
  <2>1. PICK s \in Slots :
            /\ s \in Used
            /\ slots' = [slots EXCEPT ![s] = NoJob]
            /\ thread' = [thread EXCEPT ![s] = "none"]
    BY <1>4 DEF DrainSlot, IsLowest
  <2>2. Used' = Used \ {s}
    BY <1>0, <2>1 DEF Used
  <2>3. Cardinality(Used') = Cardinality(Used) - 1 /\ Cardinality(Used') \in Nat
    BY <2>1, <2>2, UsedFinite, FS_RemoveElement, FS_CardinalityType
  <2>4. active' = active - 1 /\ Limit' = Limit
    BY <1>4 DEF DrainSlot, Limit
  <2>5. ThreadPerSlot'
    BY <1>0, <2>1 DEF ThreadPerSlot
  <2> QED
    BY <1>0, <2>3, <2>4, <2>5 DEF Counted
<1>5. CASE UNCHANGED <<slots, thread, active>>
  BY <1>0, <1>5 DEF ThreadPerSlot, Counted, Used, Limit
<1> QED
  BY <1>1, <1>2, <1>3, <1>4, <1>5
  DEF JobNext, jobVars, SystemInit, Submit, Scheduler, ReadFlag, Release, AnnounceCompleted,
      AnnounceStarted, Sleep, SchedulerExits, RaiseExit, Deinit, JoinScheduler, TearDown,
      Terminated

\* The remaining types; active is in Nat because it counts the used slots.
LEMMA JobTypeStep ==
    ASSUME PoolInv, [JobNext]_jobVars
    PROVE  JobTypeOK'
<1>0. active' \in Nat
  BY CountStep
<1> USE DEF PoolInv
<1>1. CASE SystemInit
  BY <1>0, <1>1 DEF SystemInit, JobTypeOK, Idle, NoSlots
<1>2. ASSUME NEW p \in Priorities, Submit(p) PROVE JobTypeOK'
  <2>1. nextHandle + 1 \in Handles /\ nextHandle' \in 0..MaxHandle
    BY <1>2, JobAssumption DEF Submit, JobTypeOK, Handles
  <2>2. [handle |-> nextHandle + 1, priority |-> p] \in Job
    BY <2>1 DEF Job
  <2> QED
    BY <1>0, <1>2, <2>1, <2>2 DEF Submit, JobTypeOK
<1>3. CASE Reap
  BY <1>0, <1>3 DEF Reap, JobTypeOK, NoSlots
<1>4. CASE StartJob
  <2>1. PICK j \in queue, s \in Slots :
            /\ queue' = queue \ {j}
            /\ slots' = [slots EXCEPT ![s] = j.handle]
            /\ thread' = [thread EXCEPT ![s] = "running"]
            /\ sched' = [sched EXCEPT !.started[s] = j.handle]
    BY <1>4 DEF StartJob, StartInto
  <2>2. j.handle \in Handles
    BY DEF JobTypeOK, Job
  <2> QED
    BY <1>0, <1>4, <2>1, <2>2 DEF StartJob, JobTypeOK
<1>5. CASE AnnounceCompleted
  <2>1. PICK s \in Slots :
            /\ sched.finished[s] # NoJob
            /\ said' = [said EXCEPT !.completed = @ \union {sched.finished[s]}]
            /\ sched' = [sched EXCEPT !.finished[s] = NoJob]
    BY <1>5 DEF AnnounceCompleted, IsLowest, Listed
  <2> QED
    BY <1>0, <1>5, <2>1 DEF AnnounceCompleted, JobTypeOK
<1>6. CASE AnnounceStarted
  <2>1. PICK s \in Slots :
            /\ sched.started[s] # NoJob
            /\ said' = [said EXCEPT !.started = @ \union {sched.started[s]}]
            /\ sched' = [sched EXCEPT !.started[s] = NoJob]
    BY <1>6 DEF AnnounceStarted, IsLowest, Listed
  <2> QED
    BY <1>0, <1>6, <2>1 DEF AnnounceStarted, JobTypeOK
<1>7. CASE ReadFlag \/ Release \/ Sleep \/ SchedulerExits
  BY <1>0, <1>7 DEF ReadFlag, Release, Sleep, SchedulerExits, JobTypeOK
<1>8. ASSUME NEW s \in Slots, JobReturns(s) PROVE JobTypeOK'
  <2>1. slots[s] \in Handles
    BY <1>8 DEF JobReturns, ThreadPerSlot, JobTypeOK
  <2> QED
    BY <1>0, <1>8, <2>1 DEF JobReturns, JobTypeOK
<1>9. CASE DrainSlot
  BY <1>0, <1>9 DEF DrainSlot, JobTypeOK
<1>10. CASE RaiseExit \/ JoinScheduler \/ TearDown \/ UNCHANGED jobVars
  BY <1>0, <1>10 DEF RaiseExit, JoinScheduler, TearDown, jobVars, JobTypeOK
<1> QED
  BY <1>1, <1>2, <1>3, <1>4, <1>5, <1>6, <1>7, <1>8, <1>9, <1>10
  DEF JobNext, Scheduler, Deinit, Terminated

\* The phases of the pool and of the scheduler's pass.
LEMMA LifecycleStep ==
    ASSUME PoolInv, [JobNext]_jobVars
    PROVE  Lifecycle'
<1> USE DEF PoolInv
<1>1. CASE SystemInit
  BY <1>1 DEF SystemInit, Lifecycle, Idle
<1>2. ASSUME NEW p \in Priorities, Submit(p) PROVE Lifecycle'
  BY <1>2 DEF Submit, Serving, Lifecycle, Used
<1>3. CASE Reap
  BY <1>3 DEF Reap, Lifecycle, Used
<1>4. CASE StartJob
  <2>1. PICK j \in queue, s \in Slots : sched' = [sched EXCEPT !.started[s] = j.handle]
    BY <1>4 DEF StartJob, StartInto
  <2>2. sched'.pc = "fill" /\ sched'.locked
    BY <1>4, <2>1 DEF StartJob, Lifecycle, JobTypeOK
  <2> QED
    BY <1>4, <2>2 DEF StartJob, Lifecycle
<1>5. CASE AnnounceCompleted \/ AnnounceStarted
  <2>1. sched'.pc = "announce" /\ ~ sched'.locked /\ sched.pc = "announce"
    BY <1>5 DEF AnnounceCompleted, AnnounceStarted, Unlocked, JobTypeOK
  <2> QED
    BY <1>5, <2>1 DEF AnnounceCompleted, AnnounceStarted, Lifecycle, Used
<1>6. CASE ReadFlag \/ Release \/ SchedulerExits
  <2>1. UNCHANGED <<phase, nextHandle, slots>> /\ Used' = Used
    BY <1>6 DEF ReadFlag, Release, SchedulerExits, Used
  <2>2. CASE ReadFlag \/ SchedulerExits
    <3>1. /\ sched.pc = "check" /\ sched'.pc \in {"pass", "exited"}
          /\ UNCHANGED <<sched.locked, sched.finished, sched.started>>
          /\ phase \in {"up", "exiting"}
      BY <2>2 DEF ReadFlag, SchedulerExits, JobTypeOK
    <3> QED
      BY <2>1, <3>1 DEF Lifecycle, NoSlots
  <2>3. CASE Release
    <3>1. sched.pc = "fill" /\ sched'.pc = "announce" /\ sched'.locked = FALSE
      BY <2>3 DEF Release, JobTypeOK
    <3> QED
      BY <2>1, <3>1 DEF Lifecycle
  <2> QED
    BY <1>6, <2>2, <2>3
<1>7. CASE Sleep
  <2>1. sched.finished = NoSlots /\ sched.started = NoSlots
    BY <1>7 DEF Sleep, Listed, NoSlots, JobTypeOK
  <2> QED
    BY <1>7, <2>1 DEF Sleep, Lifecycle, Used, JobTypeOK
<1>8. ASSUME NEW s \in Slots, JobReturns(s) PROVE Lifecycle'
  BY <1>8 DEF JobReturns, Lifecycle, Used
<1>9. CASE DrainSlot
  BY <1>9 DEF DrainSlot, Lifecycle
<1>10. CASE RaiseExit \/ JoinScheduler \/ TearDown \/ UNCHANGED jobVars
  BY <1>10 DEF RaiseExit, JoinScheduler, TearDown, jobVars, Lifecycle, Used
<1> QED
  BY <1>1, <1>2, <1>3, <1>4, <1>5, <1>6, <1>7, <1>8, <1>9, <1>10
  DEF JobNext, Scheduler, Deinit, Terminated

\* The parts of a step of StartJob: one queued job takes a free slot.
LEMMA StartJobParts ==
    ASSUME PoolInv, StartJob
    PROVE  \E j \in queue, s \in Slots :
              /\ slots[s] = NoJob
              /\ j.handle \in Handles
              /\ queue' = queue \ {j}
              /\ slots' = [slots EXCEPT ![s] = j.handle]
              /\ thread' = [thread EXCEPT ![s] = "running"]
              /\ sched' = [sched EXCEPT !.started[s] = j.handle]
<1>1. \A j \in queue : j.handle \in Handles
  BY DEF PoolInv, JobTypeOK, Job
<1> QED
  BY <1>1 DEF StartJob, StartInto, IsLowest, Used

\* No handle is in two places.
LEMMA UniqueStep ==
    ASSUME PoolInv, [JobNext]_jobVars
    PROVE  Unique'
<1> USE DEF PoolInv
<1>0. /\ nextHandle \in Nat /\ \A h \in Handles : h \in Nat /\ h # NoJob
      /\ \A j \in queue : j.handle \in Handles
      /\ slots \in [Slots -> Handles \union {NoJob}]
      /\ \A s \in Slots : sched.finished[s] \in Handles \union {NoJob}
      /\ NoJob = 0
  BY JobAssumption DEF JobTypeOK, Job, Handles, NoJob
<1>1. CASE SystemInit
  <2>1. \A s \in Slots : sched'.finished[s] = 0
    BY <1>1 DEF SystemInit, Idle, NoSlots, NoJob
  <2> QED
    BY <1>0, <1>1, <2>1 DEF SystemInit, Unique
<1>2. ASSUME NEW p \in Priorities, Submit(p) PROVE Unique'
  <2>1. /\ nextHandle' = nextHandle + 1
        /\ UNCHANGED <<slots, sched, said>>
        /\ queue' = queue \union {[handle |-> nextHandle + 1, priority |-> p]}
    BY <1>2 DEF Submit
  <2>2. \A j \in queue' : j \in queue \/ j = [handle |-> nextHandle + 1, priority |-> p]
    BY <2>1
  <2>3. said'.completed = said.completed /\ \A h \in said.completed : h \in Nat
    BY <1>0, <2>1 DEF JobTypeOK
  <2>4. \A j \in queue : j.handle <= nextHandle /\ j.handle \in Nat
    BY <1>0 DEF Unique
  <2>5. \A s \in Slots : slots[s] <= nextHandle /\ slots[s] \in Nat /\ sched.finished[s] \in Nat
    BY <1>0 DEF Unique
  <2>6. \A j \in queue' : j.handle <= nextHandle'
    BY <1>0, <2>1, <2>2, <2>4
  <2>7. \A s \in Slots : slots'[s] <= nextHandle' /\ sched'.finished[s] <= nextHandle'
    BY <1>0, <2>1, <2>5 DEF Unique
  <2>8. \A j \in queue', s \in Slots : slots'[s] # j.handle
    BY <1>0, <2>1, <2>2, <2>5 DEF Unique
  <2>9. \A j, k \in queue' : j.handle = k.handle => j = k
    BY <1>0, <2>2, <2>4 DEF Unique
  <2>10. \A h \in said'.completed : h <= nextHandle'
    BY <1>0, <2>1, <2>3 DEF Unique
  <2> QED
    BY <2>1, <2>6, <2>7, <2>8, <2>9, <2>10 DEF Unique
<1>3. CASE Reap
  BY <1>0, <1>3 DEF Reap, Unique
<1>4. CASE StartJob
  <2>1. PICK j \in queue, s \in Slots :
              /\ slots[s] = NoJob
              /\ j.handle \in Handles
              /\ queue' = queue \ {j}
              /\ slots' = [slots EXCEPT ![s] = j.handle]
              /\ sched' = [sched EXCEPT !.started[s] = j.handle]
    BY <1>4, StartJobParts
  <2>2. sched'.finished = sched.finished
    BY <2>1 DEF JobTypeOK
  <2> QED
    BY <1>0, <1>4, <2>1, <2>2 DEF StartJob, Unique
<1>5. CASE AnnounceCompleted
  <2>1. PICK s \in Slots :
            /\ sched.finished[s] # NoJob
            /\ said' = [said EXCEPT !.completed = @ \union {sched.finished[s]}]
            /\ sched' = [sched EXCEPT !.finished[s] = NoJob]
    BY <1>5 DEF AnnounceCompleted, IsLowest, Listed
  <2>2. /\ said'.completed = said.completed \union {sched.finished[s]}
        /\ \A t \in Slots : sched'.finished[t] \in {sched.finished[t], NoJob}
    BY <2>1 DEF JobTypeOK
  <2> QED
    BY <1>0, <1>5, <2>1, <2>2 DEF AnnounceCompleted, Unique
<1>6. CASE AnnounceStarted \/ ReadFlag \/ Release \/ Sleep \/ SchedulerExits
  <2>1. /\ UNCHANGED <<queue, slots, nextHandle>>
        /\ sched'.finished = sched.finished /\ said'.completed = said.completed
    BY <1>6 DEF AnnounceStarted, ReadFlag, Release, Sleep, SchedulerExits, JobTypeOK
  <2> QED
    BY <2>1 DEF Unique
<1>7. ASSUME NEW s \in Slots, JobReturns(s) PROVE Unique'
  BY <1>7 DEF JobReturns, Unique
<1>8. CASE DrainSlot
  <2>1. PICK s \in Slots : slots' = [slots EXCEPT ![s] = NoJob]
    BY <1>8 DEF DrainSlot
  <2> QED
    BY <1>0, <1>8, <2>1 DEF DrainSlot, Unique
<1>9. CASE RaiseExit \/ JoinScheduler \/ TearDown \/ UNCHANGED jobVars
  BY <1>9 DEF RaiseExit, JoinScheduler, TearDown, jobVars, Unique
<1> QED
  BY <1>1, <1>2, <1>3, <1>4, <1>5, <1>6, <1>7, <1>8, <1>9
  DEF JobNext, Scheduler, Deinit, Terminated

\* A handle leaves the heap only for a slot and a slot only once its thread has
\* returned.
LEMMA AccountedStep ==
    ASSUME PoolInv, [JobNext]_jobVars
    PROVE  Accounted'
<1> USE DEF PoolInv
<1>0. /\ nextHandle \in Nat /\ NoJob = 0
      /\ slots \in [Slots -> Handles \union {NoJob}]
      /\ thread \in [Slots -> {"none", "running", "returned"}]
  BY JobAssumption DEF JobTypeOK, NoJob
<1>1. CASE SystemInit
  BY <1>0, <1>1 DEF SystemInit, Accounted, IsDone
<1>2. ASSUME NEW p \in Priorities, Submit(p) PROVE Accounted'
  <2>1. /\ nextHandle' = nextHandle + 1 /\ phase # "down"
        /\ UNCHANGED <<slots, thread, returned>>
        /\ queue' = queue \union {[handle |-> nextHandle + 1, priority |-> p]}
    BY <1>2 DEF Submit, Serving
  <2>2. \A h : IsDone(h)' => IsDone(h) /\ h # nextHandle + 1
    <3> DEFINE new == [handle |-> nextHandle + 1, priority |-> p]
    <3>1. new \in queue' /\ new.handle = nextHandle + 1
      BY <2>1
    <3>2. queue \subseteq queue'
      BY <2>1
    <3> QED
      BY <2>1, <3>1, <3>2 DEF IsDone
  <2>3. \A h \in 1..nextHandle' : h # nextHandle + 1 => h \in 1..nextHandle
    BY <1>0, <2>1
  <2> QED
    BY <2>1, <2>2, <2>3 DEF Accounted
<1>3. CASE Reap
  <2>1. \A s \in Slots : slots'[s] = slots[s] \/ slots[s] \in returned
    BY <1>0, <1>3 DEF Reap, Returned, Accounted
  <2>2. UNCHANGED <<phase, queue, nextHandle, returned>>
    BY <1>3 DEF Reap
  <2>3. \A h : IsDone(h)' => IsDone(h) \/ h \in returned
    BY <2>1, <2>2 DEF IsDone
  <2>4. \A s \in Slots : thread'[s] = "returned" => slots'[s] \in returned
    BY <1>0, <1>3 DEF Reap, Returned, Accounted
  <2> QED
    BY <2>2, <2>3, <2>4 DEF Accounted
<1>4. CASE StartJob
  <2>1. PICK j \in queue, s \in Slots :
              /\ slots[s] = NoJob
              /\ j.handle \in Handles
              /\ queue' = queue \ {j}
              /\ slots' = [slots EXCEPT ![s] = j.handle]
              /\ thread' = [thread EXCEPT ![s] = "running"]
    BY <1>4, StartJobParts
  <2>2. UNCHANGED <<phase, nextHandle, returned>>
    BY <1>4 DEF StartJob
  <2>3. \A h \in 1..nextHandle : IsDone(h)' => IsDone(h)
    BY <1>0, <2>1 DEF IsDone
  <2>4. \A t \in Slots : thread'[t] = "returned" => thread[t] = "returned" /\ slots'[t] = slots[t]
    BY <1>0, <2>1
  <2> QED
    BY <2>2, <2>3, <2>4 DEF Accounted
<1>5. ASSUME NEW s \in Slots, JobReturns(s) PROVE Accounted'
  BY <1>0, <1>5 DEF JobReturns, Accounted, IsDone
<1>6. CASE DrainSlot
  <2>1. PICK s \in Slots :
              /\ slots[s] \in returned
              /\ slots' = [slots EXCEPT ![s] = NoJob]
              /\ thread' = [thread EXCEPT ![s] = "none"]
    BY <1>6 DEF DrainSlot, Accounted
  <2>2. UNCHANGED <<phase, queue, nextHandle, returned>>
    BY <1>6 DEF DrainSlot
  <2>3. \A h : IsDone(h)' => IsDone(h) \/ h \in returned
    BY <1>0, <2>1, <2>2 DEF IsDone
  <2>4. \A t \in Slots : thread'[t] = "returned" => thread[t] = "returned" /\ slots'[t] = slots[t]
    BY <1>0, <2>1
  <2> QED
    BY <2>2, <2>3, <2>4 DEF Accounted
<1>7. CASE UNCHANGED <<queue, slots, thread, nextHandle, returned>> /\ phase # "down"
  BY <1>7 DEF Accounted, IsDone
<1>8. CASE TearDown
  BY <1>8 DEF TearDown, Accounted
<1>9. CASE UNCHANGED jobVars
  BY <1>9 DEF jobVars, Accounted, IsDone
<1>10. Scheduler => phase # "down"
  BY DEF Lifecycle, Scheduler, ReadFlag, Reap, StartJob, Release, AnnounceCompleted,
         AnnounceStarted, Sleep, SchedulerExits
<1>11. Scheduler \/ RaiseExit \/ JoinScheduler => Accounted'
  BY <1>3, <1>4, <1>7, <1>10
  DEF Scheduler, ReadFlag, Release, AnnounceCompleted, AnnounceStarted, Sleep, SchedulerExits,
      RaiseExit, JoinScheduler
<1> QED
  BY <1>1, <1>2, <1>5, <1>6, <1>8, <1>9, <1>11 DEF JobNext, Deinit, Terminated

\* What the announcements of a pass may still owe.
LEMMA AnnouncedStep ==
    ASSUME PoolInv, [JobNext]_jobVars
    PROVE  Announced'
<1> USE DEF PoolInv
<1>0. /\ nextHandle \in Nat /\ NoJob = 0
      /\ slots \in [Slots -> Handles \union {NoJob}]
      /\ sched.started \in [Slots -> Handles \union {NoJob}]
      /\ sched.finished \in [Slots -> Handles \union {NoJob}]
      /\ \A h \in Handles : h \in Nat /\ h # NoJob
      /\ \A j \in queue : j.handle \in Handles
      /\ said.completed \subseteq Handles
  BY JobAssumption DEF JobTypeOK, Job, Handles, NoJob
<1>1. CASE SystemInit
  <2>1. sched.started = NoSlots /\ sched'.started = NoSlots /\ sched'.finished = NoSlots
    BY <1>1 DEF SystemInit, Lifecycle, Idle
  <2>2. UNCHANGED <<queue, slots, said, returned>>
    BY <1>1 DEF SystemInit
  <2> QED
    BY <2>1, <2>2 DEF Announced, Over, IsDone, NoSlots
<1>2. ASSUME NEW p \in Priorities, Submit(p) PROVE Announced'
  <2>1. /\ UNCHANGED <<slots, sched, said, returned>>
        /\ queue' = queue \union {[handle |-> nextHandle + 1, priority |-> p]}
    BY <1>2 DEF Submit
  <2>2. \A h \in Nat : Over(h) /\ h <= nextHandle => Over(h)'
    BY <1>0, <2>1 DEF Over, IsDone
  <2>3. \A h \in said.completed : Over(h)'
    BY <1>0, <2>2 DEF Announced, Unique
  <2>4. \A s \in Slots : sched.finished[s] # NoJob => Over(sched.finished[s])'
    BY <1>0, <2>2, <2>1 DEF Announced, Unique
  <2> QED
    BY <2>1, <2>3, <2>4 DEF Announced
<1>3. CASE Reap
  <2>1. /\ UNCHANGED <<queue, said, returned>>
        /\ slots' = [s \in Slots |-> IF s \in Returned THEN NoJob ELSE slots[s]]
        /\ sched'.finished = [s \in Slots |-> IF s \in Returned THEN slots[s] ELSE NoJob]
        /\ sched.started = NoSlots
    BY <1>3 DEF Reap, Lifecycle
  <2>2. \A s \in Slots : slots[s] # NoJob => slots[s] \in said.started
    BY <2>1 DEF Announced, NoSlots
  <2>3. \A s \in Returned : s \in Slots /\ slots[s] # NoJob /\ slots[s] \in returned
    BY DEF Returned, Used, Accounted
  <2>4. \A h \in Handles, s \in Returned : h = slots[s] => IsDone(h)'
    BY <1>0, <2>1, <2>3 DEF IsDone, Unique
  <2>5. \A h \in Handles : Over(h) => Over(h)'
    BY <1>0, <2>1 DEF Over, IsDone
  <2>6. \A h \in Handles, s \in Returned : h = slots[s] => Over(h)'
    BY <2>1, <2>2, <2>3, <2>4 DEF Over
  <2>7. \A s \in Slots : (sched.finished[s] # NoJob => Over(sched.finished[s]))'
    BY <1>0, <2>1, <2>3, <2>6
  <2>8. \A h \in said'.completed : Over(h)'
    BY <1>0, <2>1, <2>5 DEF Announced
  <2> QED
    BY <2>1, <2>2, <2>7, <2>8 DEF Announced
<1>4. CASE StartJob
  <2>1. PICK j \in queue, s \in Slots :
              /\ slots[s] = NoJob
              /\ j.handle \in Handles
              /\ queue' = queue \ {j}
              /\ slots' = [slots EXCEPT ![s] = j.handle]
              /\ sched' = [sched EXCEPT !.started[s] = j.handle]
    BY <1>4, StartJobParts
  <2>2. UNCHANGED <<said, returned>>
    BY <1>4 DEF StartJob
  <2>3. /\ sched'.finished = sched.finished
        /\ sched'.started = [sched.started EXCEPT ![s] = j.handle]
    BY <2>1 DEF JobTypeOK
  <2>4. \A h : Over(h) => Over(h)'
    BY <1>0, <2>1, <2>2 DEF Over, IsDone
  <2>5. \A t \in Slots : slots'[t] # NoJob =>
              slots'[t] \in said.started \/ sched'.started[t] = slots'[t]
    BY <1>0, <2>1, <2>3 DEF Announced
  <2> QED
    BY <2>2, <2>3, <2>4, <2>5 DEF Announced
<1>5. CASE AnnounceCompleted
  <2>1. PICK s \in Slots :
            /\ sched.finished[s] # NoJob
            /\ said' = [said EXCEPT !.completed = @ \union {sched.finished[s]}]
            /\ sched' = [sched EXCEPT !.finished[s] = NoJob]
    BY <1>5 DEF AnnounceCompleted, IsLowest, Listed
  <2>2. /\ said'.completed = said.completed \union {sched.finished[s]}
        /\ said'.started = said.started
        /\ sched'.started = sched.started
        /\ sched'.finished = [sched.finished EXCEPT ![s] = NoJob]
    BY <2>1 DEF JobTypeOK
  <2>3. UNCHANGED <<slots, queue, returned>>
    BY <1>5 DEF AnnounceCompleted
  <2>4. \A h : Over(h) => Over(h)'
    BY <2>2, <2>3 DEF Over, IsDone
  <2> QED
    BY <1>0, <2>1, <2>2, <2>3, <2>4 DEF Announced
<1>6. CASE AnnounceStarted
  <2>1. PICK s \in Slots :
            /\ said' = [said EXCEPT !.started = @ \union {sched.started[s]}]
            /\ sched' = [sched EXCEPT !.started[s] = NoJob]
    BY <1>6 DEF AnnounceStarted
  <2>2. /\ said'.completed = said.completed
        /\ said'.started = said.started \union {sched.started[s]}
        /\ sched'.started = [sched.started EXCEPT ![s] = NoJob]
        /\ sched'.finished = sched.finished
    BY <2>1 DEF JobTypeOK
  <2>3. UNCHANGED <<slots, queue, returned>>
    BY <1>6 DEF AnnounceStarted
  <2>4. \A h : Over(h) => Over(h)'
    BY <2>2, <2>3 DEF Over, IsDone
  <2> QED
    BY <1>0, <2>1, <2>2, <2>3, <2>4 DEF Announced
<1>7. CASE ReadFlag \/ Release \/ Sleep \/ SchedulerExits
  <2>1. /\ UNCHANGED <<queue, slots, said, returned>>
        /\ sched'.finished = sched.finished /\ sched'.started = sched.started
    BY <1>7 DEF ReadFlag, Release, Sleep, SchedulerExits, JobTypeOK
  <2> QED
    BY <2>1 DEF Announced, Over, IsDone
<1>8. ASSUME NEW s \in Slots, JobReturns(s) PROVE Announced'
  BY <1>8 DEF JobReturns, Announced, Over, IsDone
<1>9. CASE DrainSlot
  <2>1. PICK s \in Slots : slots' = [slots EXCEPT ![s] = NoJob]
    BY <1>9 DEF DrainSlot
  <2>2. UNCHANGED <<queue, sched, said, returned>>
    BY <1>9 DEF DrainSlot
  <2>3. \A h \in Handles : Over(h) => Over(h)'
    BY <1>0, <2>1, <2>2 DEF Over, IsDone
  <2> QED
    BY <1>0, <2>1, <2>2, <2>3 DEF Announced
<1>10. CASE RaiseExit \/ JoinScheduler \/ TearDown \/ UNCHANGED jobVars
  <2>1. UNCHANGED <<slots, sched, said, returned>> /\ queue' \subseteq queue
    BY <1>10 DEF RaiseExit, JoinScheduler, TearDown, jobVars
  <2> QED
    BY <2>1 DEF Announced, Over, IsDone
<1> QED
  BY <1>1, <1>2, <1>3, <1>4, <1>5, <1>6, <1>7, <1>8, <1>9, <1>10
  DEF JobNext, Scheduler, Deinit, Terminated

-----------------------------------------------------------------------------
(* The invariant, and what it gives *)

\* A pool that was not started.
LEMMA PoolInvInit == JobInit => PoolInv
<1> SUFFICES ASSUME JobInit PROVE PoolInv
  OBVIOUS
<1> USE JobAssumption DEF JobInit
<1>1. Used = {} /\ Cardinality(Used) = 0
  BY FS_EmptySet DEF Used, NoSlots
<1>2. NoSlots \in [Slots -> Handles \union {NoJob}]
  BY DEF NoSlots
<1>3. sched = [pc |-> "exited", locked |-> FALSE, finished |-> NoSlots, started |-> NoSlots]
  BY DEF Idle
<1>4. JobTypeOK
  <2>1. sched \in [pc : {"check", "pass", "fill", "announce", "exited"}, locked : BOOLEAN,
                   finished : [Slots -> Handles \union {NoJob}],
                   started : [Slots -> Handles \union {NoJob}]]
    <3> HIDE DEF JobInit
    <3>1. [pc |-> "exited", locked |-> FALSE, finished |-> NoSlots, started |-> NoSlots]
            \in [pc : {"check", "pass", "fill", "announce", "exited"}, locked : BOOLEAN,
                 finished : [Slots -> Handles \union {NoJob}],
                 started : [Slots -> Handles \union {NoJob}]]
      BY <1>2
    <3> QED
      BY <1>3, <3>1
  <2>2. said \in [started : SUBSET Handles, completed : SUBSET Handles]
    OBVIOUS
  <2>3. active \in Nat /\ nextHandle \in 0..MaxHandle
    OBVIOUS
  <2>4. thread \in [Slots -> {"none", "running", "returned"}]
    OBVIOUS
  <2> QED
    BY <1>2, <2>1, <2>2, <2>3, <2>4 DEF JobTypeOK
<1>5. ThreadPerSlot
  BY DEF ThreadPerSlot, NoSlots
<1>6. Lifecycle
  BY <1>1, <1>3 DEF Lifecycle
<1>7. Counted
  BY <1>1, LimitBound DEF Counted
<1>8. Unique /\ Accounted /\ Announced
  BY <1>3 DEF Unique, Accounted, Announced, NoSlots, NoJob
<1> QED
  BY <1>4, <1>5, <1>6, <1>7, <1>8 DEF PoolInv

\* Every step keeps the invariant of the pool.
LEMMA PoolInvStep == PoolInv /\ [JobNext]_jobVars => PoolInv'
  BY CountStep, JobTypeStep, LifecycleStep, UniqueStep, AccountedStep, AnnouncedStep DEF PoolInv

\* It holds throughout.
LEMMA PoolInvAlways == JobSpec => []PoolInv
  BY PoolInvInit, PoolInvStep, PTL DEF JobSpec

\* Every field of the pool has its type, the count included.
THEOREM JobTypeCorrect == JobSpec => []JobTypeOK
<1>1. PoolInv => JobTypeOK
  BY DEF PoolInv
<1> QED
  BY <1>1, PoolInvAlways, PTL

\* The scheduler's count is the number of used slots and never passes the limit,
\* so the slot it asserts is always there.
THEOREM CountMatchesSlotsAlways == JobSpec => []CountMatchesSlots
<1>1. PoolInv => CountMatchesSlots
  <2> SUFFICES ASSUME PoolInv PROVE CountMatchesSlots
    OBVIOUS
  <2>1. {s \in Slots : thread[s] # "none"} = Used
    BY DEF PoolInv, ThreadPerSlot, Used
  <2>2. Room => Slots \ Used # {}
    BY FreeSlot DEF PoolInv, Room
  <2> QED
    BY <2>1, <2>2 DEF CountMatchesSlots, PoolInv, Counted
<1> QED
  BY <1>1, PoolInvAlways, PTL

\* nya_job_is_done never says yes of a job that is queued or running, so
\* nya_job_wait is a join.
THEOREM DoneMeansReturnedAlways == JobSpec => []DoneMeansReturned
<1>1. PoolInv => DoneMeansReturned
  BY DEF PoolInv, Accounted, DoneMeansReturned
<1> QED
  BY <1>1, PoolInvAlways, PTL

\* A completion is announced after the start, of a job that has returned and
\* that is done.
THEOREM CompletedAfterStartedAlways == JobSpec => []CompletedAfterStarted
<1>1. PoolInv => CompletedAfterStarted
  BY DEF PoolInv, Announced, Over, CompletedAfterStarted
<1> QED
  BY <1>1, PoolInvAlways, PTL

\* A pool that has been shut down has no thread left.
THEOREM DownIsQuietAlways == JobSpec => []DownIsQuiet
<1>1. PoolInv => DownIsQuiet
  BY DEF PoolInv, Lifecycle, ThreadPerSlot, Used, DownIsQuiet
<1> QED
  BY <1>1, PoolInvAlways, PTL

\* A running job's slot holds the same job in the next state.
LEMMA PinnedStep ==
    ASSUME PoolInv, [JobNext]_jobVars
    PROVE  \A s \in Slots : thread[s] = "running" => slots'[s] = slots[s]
<1>1. /\ slots \in [Slots -> Handles \union {NoJob}]
      /\ thread \in [Slots -> {"none", "running", "returned"}]
  BY DEF PoolInv, JobTypeOK
<1>2. CASE Reap
  BY <1>1, <1>2 DEF Reap, Returned
<1>3. CASE StartJob
  <2>1. PICK j \in queue, s \in Slots : slots[s] = NoJob /\ slots' = [slots EXCEPT ![s] = j.handle]
    BY <1>3, StartJobParts
  <2> QED
    BY <1>1, <2>1 DEF PoolInv, ThreadPerSlot
<1>4. CASE DrainSlot
  BY <1>1, <1>4 DEF DrainSlot
<1>5. CASE UNCHANGED slots
  BY <1>5
<1> QED
  BY <1>2, <1>3, <1>4, <1>5
  DEF JobNext, jobVars, SystemInit, Submit, Scheduler, ReadFlag, Release, AnnounceCompleted,
      AnnounceStarted, Sleep, SchedulerExits, JobReturns, RaiseExit, Deinit, JoinScheduler,
      TearDown, Terminated


\* No step moves the record of a running job: its thread was handed the address.
THEOREM SlotPinnedAlways == JobSpec => SlotPinned
<1>1. PoolInv /\ [JobNext]_jobVars
        => [\A s \in Slots : thread[s] = "running" => slots'[s] = slots[s]]_jobVars
  BY PinnedStep
<1> QED
  BY <1>1, PoolInvAlways, PTL DEF JobSpec, SlotPinned

-----------------------------------------------------------------------------
(* The pool, under the groups' steps *)

\* A job that has returned is neither queued nor running again.
RanOnce ==
    \A h \in returned : /\ h <= nextHandle
                        /\ \A j \in queue : j.handle # h
                        /\ \A s \in Slots : thread[s] = "running" => slots[s] # h

\* What the groups need of a step of the pool.
LEMMA RanOnceStep ==
    ASSUME PoolInv, RanOnce, [JobNext]_jobVars
    PROVE  RanOnce'
<1> USE DEF PoolInv
<1>0. /\ nextHandle \in Nat /\ NoJob = 0 /\ returned \subseteq Handles
      /\ slots \in [Slots -> Handles \union {NoJob}]
      /\ thread \in [Slots -> {"none", "running", "returned"}]
      /\ \A h \in Handles : h \in Nat
  BY JobAssumption DEF JobTypeOK, NoJob, Handles
<1>1. ASSUME NEW p \in Priorities, Submit(p) PROVE RanOnce'
  <2>1. /\ nextHandle' = nextHandle + 1 /\ UNCHANGED <<slots, thread, returned>>
        /\ queue' = queue \union {[handle |-> nextHandle + 1, priority |-> p]}
    BY <1>1 DEF Submit
  <2>2. \A j \in queue' : j \in queue \/ j.handle = nextHandle + 1
    BY <2>1
  <2>3. \A h \in returned : h # nextHandle + 1 /\ h <= nextHandle'
    BY <1>0, <2>1 DEF RanOnce
  <2> QED
    BY <1>0, <2>1, <2>2, <2>3 DEF RanOnce
<1>2. CASE Reap
  BY <1>0, <1>2 DEF Reap, RanOnce
<1>3. CASE StartJob
  <2>1. PICK j \in queue, s \in Slots :
              /\ queue' = queue \ {j}
              /\ slots' = [slots EXCEPT ![s] = j.handle]
              /\ thread' = [thread EXCEPT ![s] = "running"]
    BY <1>3, StartJobParts
  <2>2. UNCHANGED <<nextHandle, returned>>
    BY <1>3 DEF StartJob
  <2> QED
    BY <1>0, <2>1, <2>2 DEF RanOnce
<1>4. ASSUME NEW s \in Slots, JobReturns(s) PROVE RanOnce'
  <2>1. /\ thread[s] = "running" /\ thread' = [thread EXCEPT ![s] = "returned"]
        /\ returned' = returned \union {slots[s]}
        /\ UNCHANGED <<queue, slots, nextHandle>>
    BY <1>4 DEF JobReturns
  <2>2. slots[s] # NoJob
    BY <2>1 DEF ThreadPerSlot
  <2>3. slots[s] <= nextHandle /\ \A j \in queue : j.handle # slots[s]
    BY <2>2 DEF Unique
  <2>4. \A t \in Slots : thread'[t] = "running" => slots[t] # slots[s]
    BY <1>0, <2>1, <2>2 DEF Unique
  <2>5. \A t \in Slots : thread'[t] = "running" => thread[t] = "running"
    BY <1>0, <2>1
  <2> QED
    BY <2>1, <2>3, <2>4, <2>5 DEF RanOnce
<1>5. CASE DrainSlot
  BY <1>0, <1>5 DEF DrainSlot, RanOnce
<1>6. CASE TearDown
  BY <1>6 DEF TearDown, RanOnce
<1>7. CASE UNCHANGED <<queue, slots, thread, nextHandle, returned>>
  BY <1>7 DEF RanOnce
<1> QED
  BY <1>1, <1>2, <1>3, <1>4, <1>5, <1>6, <1>7
  DEF JobNext, jobVars, SystemInit, Scheduler, ReadFlag, Release, AnnounceCompleted,
      AnnounceStarted, Sleep, SchedulerExits, RaiseExit, Deinit, JoinScheduler, Terminated

\* A running job goes on running or returns; a handle stays given out.
LEMMA RunningStep ==
    ASSUME PoolInv, [JobNext]_jobVars
    PROVE  /\ returned \subseteq returned' /\ nextHandle <= nextHandle'
           /\ \A h \in Running : h \in Running' \/ h \in returned'
<1>0. /\ nextHandle \in Nat /\ returned \subseteq Handles
      /\ slots \in [Slots -> Handles \union {NoJob}]
      /\ thread \in [Slots -> {"none", "running", "returned"}]
  BY JobAssumption DEF PoolInv, JobTypeOK
<1>1. \A s \in Slots : thread[s] = "running" => slots'[s] = slots[s]
  BY PinnedStep
<1>2. \A s \in Slots : thread[s] = "running" => thread'[s] = "running" \/ slots[s] \in returned'
  <2>1. CASE Reap
    BY <1>0, <2>1 DEF Reap, Returned
  <2>2. CASE StartJob
    <3>1. PICK j \in queue, s \in Slots : thread' = [thread EXCEPT ![s] = "running"]
      BY <2>2, StartJobParts
    <3> QED
      BY <1>0, <3>1
  <2>3. ASSUME NEW s \in Slots, JobReturns(s)
        PROVE  \A t \in Slots : thread[t] = "running" => thread'[t] = "running" \/ slots[t] \in returned'
    BY <1>0, <2>3 DEF JobReturns
  <2>4. CASE DrainSlot
    BY <1>0, <2>4 DEF DrainSlot
  <2>5. CASE UNCHANGED thread
    BY <2>5
  <2> QED
    BY <2>1, <2>2, <2>3, <2>4, <2>5
    DEF JobNext, jobVars, SystemInit, Submit, Scheduler, ReadFlag, Release, AnnounceCompleted,
        AnnounceStarted, Sleep, SchedulerExits, RaiseExit, Deinit, JoinScheduler, TearDown,
        Terminated
<1>3. returned \subseteq returned' /\ nextHandle <= nextHandle'
  BY <1>0
  DEF JobNext, jobVars, SystemInit, Submit, Scheduler, ReadFlag, Reap, StartJob, Release,
      AnnounceCompleted, AnnounceStarted, Sleep, SchedulerExits, JobReturns, RaiseExit, Deinit,
      JoinScheduler, DrainSlot, TearDown, Terminated
<1> QED
  BY <1>1, <1>2, <1>3 DEF Running

-----------------------------------------------------------------------------
(***************************************************************************)
(* The inductive invariant.  That nothing outlives nya_taskgroup_end needs *)
(* that every task of the group has a job whose handle the join can ask    *)
(* for, that the pool is up while it asks, because the owner still runs,   *)
(* and that a failed task claimed and flagged before it returned.          *)
(***************************************************************************)

\* The tasks of a group are numbered from 1 to its count, one job to a number.
TasksNamed ==
    /\ \A h \in Handles : h > nextHandle => task[h] = NoTask
    /\ \A h \in Handles : task[h].group # NoGroup =>
          1 <= task[h].index /\ task[h].index <= group[task[h].group].count
    /\ \A h, k \in Handles : task[h].group # NoGroup /\ task[h].group = task[k].group
                               /\ task[h].index = task[k].index => h = k
    /\ \A g \in Groups : \A i \in 1..group[g].count :
          \E h \in Handles : task[h].group = g /\ task[h].index = i

\* A group's counters, in order; before nya_taskgroup_begin they are zero.
Ordered ==
    \A g \in Groups :
        /\ group[g].state = "unopened" => group[g] = Unopened
        /\ group[g].joined <= group[g].count /\ group[g].count <= group[g].capacity
        /\ group[g].count <= nextHandle
        /\ group[g].state = "ended" =>
              group[g].joined = group[g].count /\ group[g].outError = group[g].firstFailed

\* What has been joined has returned.
JoinedReturned ==
    \A h \in Handles : task[h].group # NoGroup =>
        (task[h].index <= group[task[h].group].joined => h \in returned)

\* The thread that owns an unfinished group is still in the scope that opened it.
OwnersRun ==
    \A g \in Groups : Unfinished(g) =>
        IF group[g].owner = Main THEN phase = "up"
        ELSE /\ group[g].owner \in Running /\ group[g].owner \notin returned
             /\ task[group[g].owner].pc = "body"

\* A task that failed claims first_failed_slot and raises the flag before it
\* returns, and only such a task is ever recorded there.
FailuresClaimed ==
    /\ \A h \in Handles :
          /\ task[h].failed <=> task[h].pc # "body"
          /\ task[h].pc # "body" => task[h].group # NoGroup
          /\ task[h].pc = "claim" => h \notin returned
          /\ task[h].pc = "flag" =>
                /\ group[task[h].group].firstFailed # NoFailure
                /\ h \in returned => group[task[h].group].cancelled
    /\ \A g \in Groups : group[g].firstFailed # NoFailure =>
          \E h \in Handles : /\ task[h].group = g /\ task[h].pc = "flag"
                              /\ task[h].index = group[g].firstFailed

GroupInv == /\ PoolInv /\ GroupTypeOK /\ RanOnce /\ TasksNamed /\ Ordered
            /\ JoinedReturned /\ OwnersRun /\ FailuresClaimed

-----------------------------------------------------------------------------
(* The shape of the steps: which field of which group and task they write *)

GroupRecord == [state : {"unopened", "open", "ending", "ended"},
                owner : {Main} \union Handles, capacity : {0} \union Capacities,
                count : 0..MaxHandle, cancelled : BOOLEAN,
                firstFailed : 0..MaxHandle, joined : 0..MaxHandle,
                outError : 0..MaxHandle]
TaskRecord == [group : Groups \union {NoGroup}, index : 0..MaxHandle,
               pc : {"body", "claim", "flag"}, failed : BOOLEAN]

\* What the type invariant says of the groups' own variables.
LEMMA GroupTyped ==
    GroupTypeOK <=> /\ JobTypeOK /\ group \in [Groups -> GroupRecord]
                    /\ task \in [Handles -> TaskRecord]
                    /\ \A g \in Groups : /\ group[g].joined <= group[g].count
                                        /\ group[g].count <= group[g].capacity
  BY DEF GroupTypeOK, GroupRecord, TaskRecord

\* A record of a group, one field changed: the type of the result, and that the
\* other fields stay.  The sets of the fields play no part.
LEMMA FieldChange ==
    ASSUME NEW S, NEW O, NEW C, NEW N, NEW B,
           NEW e \in [state : S, owner : O, capacity : C, count : N, cancelled : B,
                      firstFailed : N, joined : N, outError : N],
           NEW x, NEW y
    PROVE  LET R == [state : S, owner : O, capacity : C, count : N, cancelled : B,
                     firstFailed : N, joined : N, outError : N]
           IN /\ x \in S => [e EXCEPT !.state = x] \in R
              /\ x \in N => [e EXCEPT !.count = x] \in R
              /\ x \in N => [e EXCEPT !.joined = x] \in R
              /\ x \in N => [e EXCEPT !.firstFailed = x] \in R
              /\ x \in B => [e EXCEPT !.cancelled = x] \in R
              /\ x \in S /\ y \in N => [e EXCEPT !.state = x, !.outError = y] \in R
  OBVIOUS

\* Every group but g keeps its record, and g keeps its owner and its capacity.
Only(g) == /\ DOMAIN group' = Groups
           /\ \A k \in Groups : k # g => group'[k] = group[k]
           /\ group'[g].owner = group[g].owner /\ group'[g].capacity = group[g].capacity

SameLife(g) == group'[g].state = group[g].state /\ group'[g].outError = group[g].outError
SameCount(g) == group'[g].count = group[g].count /\ group'[g].joined = group[g].joined
SameFailure(g) == /\ group'[g].firstFailed = group[g].firstFailed
                  /\ group'[g].cancelled = group[g].cancelled

\* End and EndReturns write a group's life, nothing else.
LEMMA EndShape ==
    ASSUME GroupTypeOK, NEW g \in Groups, End(g)
    PROVE  /\ group' \in [Groups -> GroupRecord] /\ Only(g) /\ SameCount(g) /\ SameFailure(g)
           /\ group'[g].state = "ending" /\ group'[g].outError = group[g].outError
<1> DEFINE r == [group[g] EXCEPT !.state = "ending"]
<1>1. group \in [Groups -> GroupRecord] /\ group[g] \in GroupRecord
  BY GroupTyped
<1>2. group' = [group EXCEPT ![g] = r]
  BY <1>1 DEF End
<1>3. r \in GroupRecord
  BY <1>1, FieldChange DEF GroupRecord
<1>4. /\ r.owner = group[g].owner /\ r.capacity = group[g].capacity
      /\ r.count = group[g].count /\ r.joined = group[g].joined
      /\ r.firstFailed = group[g].firstFailed /\ r.cancelled = group[g].cancelled
      /\ r.state = "ending" /\ r.outError = group[g].outError
  BY <1>1 DEF GroupRecord
<1> HIDE DEF r
<1> QED
  BY <1>1, <1>2, <1>3, <1>4 DEF Only, SameCount, SameFailure

\* nya_taskgroup_end hands out what first_failed_slot holds.
LEMMA EndReturnsShape ==
    ASSUME GroupTypeOK, NEW g \in Groups, EndReturns(g)
    PROVE  /\ group' \in [Groups -> GroupRecord] /\ Only(g)
           /\ SameCount(g) /\ SameFailure(g)
           /\ group'[g].state = "ended" /\ group'[g].outError = group[g].firstFailed
<1> DEFINE r == [group[g] EXCEPT !.state = "ended", !.outError = group[g].firstFailed]
<1>1. group \in [Groups -> GroupRecord] /\ group[g] \in GroupRecord
  BY GroupTyped
<1>2. group' = [group EXCEPT ![g] = r]
  BY <1>1 DEF EndReturns
<1>3. group[g].firstFailed \in 0..MaxHandle
  BY <1>1 DEF GroupRecord
<1>4. r \in GroupRecord
  BY <1>1, <1>3, FieldChange DEF GroupRecord
<1>5. /\ r.owner = group[g].owner /\ r.capacity = group[g].capacity
      /\ r.count = group[g].count /\ r.joined = group[g].joined
      /\ r.firstFailed = group[g].firstFailed /\ r.cancelled = group[g].cancelled
      /\ r.state = "ended" /\ r.outError = group[g].firstFailed
  BY <1>1 DEF GroupRecord
<1> HIDE DEF r
<1> QED
  BY <1>1, <1>2, <1>4, <1>5 DEF Only, SameCount, SameFailure

\* One more task is joined.
LEMMA JoinShape ==
    ASSUME GroupTypeOK, NEW g \in Groups, Join(g)
    PROVE  /\ group' \in [Groups -> GroupRecord] /\ Only(g)
           /\ SameLife(g) /\ SameFailure(g) /\ group'[g].count = group[g].count
           /\ group'[g].joined = group[g].joined + 1
<1> DEFINE r == [group[g] EXCEPT !.joined = group[g].joined + 1]
<1>1. group \in [Groups -> GroupRecord] /\ group[g] \in GroupRecord
  BY GroupTyped
<1>2. group' = [group EXCEPT ![g] = r]
  BY <1>1 DEF Join
<1>3. group[g].joined + 1 \in 0..MaxHandle
  BY <1>1, JobAssumption DEF GroupRecord, Join
<1>4. r \in GroupRecord
  BY <1>1, <1>3, FieldChange DEF GroupRecord
<1>5. /\ r.owner = group[g].owner /\ r.capacity = group[g].capacity
      /\ r.count = group[g].count /\ r.joined = group[g].joined + 1
      /\ r.firstFailed = group[g].firstFailed /\ r.cancelled = group[g].cancelled
      /\ r.state = group[g].state /\ r.outError = group[g].outError
  BY <1>1 DEF GroupRecord
<1> HIDE DEF r
<1> QED
  BY <1>1, <1>2, <1>4, <1>5 DEF Only, SameLife, SameFailure

\* The flag is raised by somebody outside.
LEMMA CancelShape ==
    ASSUME GroupTypeOK, NEW g \in Groups, Cancel(g)
    PROVE  /\ group' \in [Groups -> GroupRecord] /\ Only(g)
           /\ SameLife(g) /\ SameCount(g) /\ group'[g].firstFailed = group[g].firstFailed
           /\ group'[g].cancelled = TRUE
<1> DEFINE r == [group[g] EXCEPT !.cancelled = TRUE]
<1>1. group \in [Groups -> GroupRecord] /\ group[g] \in GroupRecord
  BY GroupTyped
<1>2. group' = [group EXCEPT ![g] = r]
  BY <1>1 DEF Cancel
<1>3. TRUE \in BOOLEAN
  OBVIOUS
<1>4. r \in GroupRecord
  BY <1>1, <1>3, FieldChange DEF GroupRecord
<1>5. /\ r.owner = group[g].owner /\ r.capacity = group[g].capacity
      /\ r.count = group[g].count /\ r.joined = group[g].joined
      /\ r.firstFailed = group[g].firstFailed /\ r.cancelled = TRUE
      /\ r.state = group[g].state /\ r.outError = group[g].outError
  BY <1>1 DEF GroupRecord
<1> HIDE DEF r
<1> QED
  BY <1>1, <1>2, <1>4, <1>5 DEF Only, SameLife, SameCount

\* A group that spawns counts one more task.
LEMMA SpawnShape ==
    ASSUME GroupTypeOK, Ordered, NEW g \in Groups, Spawn(g)
    PROVE  /\ group' \in [Groups -> GroupRecord] /\ Only(g)
           /\ SameLife(g) /\ SameFailure(g) /\ group'[g].joined = group[g].joined
           /\ group'[g].count = group[g].count + 1
<1> DEFINE r == [group[g] EXCEPT !.count = group[g].count + 1]
<1>1. group \in [Groups -> GroupRecord] /\ group[g] \in GroupRecord
  BY GroupTyped
<1>2. group' = [group EXCEPT ![g] = r]
  BY <1>1 DEF Spawn
<1>3. group[g].count + 1 \in 0..MaxHandle
  BY <1>1, JobAssumption, GroupTyped DEF GroupRecord, Spawn, Submit, Ordered, JobTypeOK
<1>4. r \in GroupRecord
  BY <1>1, <1>3, FieldChange DEF GroupRecord
<1>5. /\ r.owner = group[g].owner /\ r.capacity = group[g].capacity
      /\ r.count = group[g].count + 1 /\ r.joined = group[g].joined
      /\ r.firstFailed = group[g].firstFailed /\ r.cancelled = group[g].cancelled
      /\ r.state = group[g].state /\ r.outError = group[g].outError
  BY <1>1 DEF GroupRecord
<1> HIDE DEF r
<1> QED
  BY <1>1, <1>2, <1>4, <1>5 DEF Only, SameLife, SameFailure

\* nya_taskgroup_begin writes every field.
LEMMA BeginShape ==
    ASSUME GroupTypeOK, RanOnce, NEW g \in Groups, NEW t \in {Main} \union Running,
           NEW n \in Capacities, Begin(g, t, n)
    PROVE  /\ group' \in [Groups -> GroupRecord]
           /\ \A k \in Groups : k # g => group'[k] = group[k]
           /\ group'[g].state = "open" /\ group'[g].owner = t /\ group'[g].capacity = n
           /\ group'[g].count = 0 /\ group'[g].joined = 0
           /\ group'[g].firstFailed = NoFailure /\ group'[g].cancelled = FALSE
<1> DEFINE a == [Unopened EXCEPT !.state = "open"]
           b == [a EXCEPT !.owner = t]
           r == [b EXCEPT !.capacity = n]
<1>1. group \in [Groups -> GroupRecord]
  BY GroupTyped
<1>2. [Unopened EXCEPT !.state = "open", !.owner = t, !.capacity = n] = r
  OBVIOUS
<1>3. group' = [group EXCEPT ![g] = r]
  BY <1>2, Zenon DEF Begin
<1>4. t \in {Main} \union Handles
  <2>1. t # Main => Free(t) /\ t \in Running
    BY DEF Begin
  <2>2. \A s \in Slots : slots[s] \in Handles \union {NoJob}
    BY GroupTyped DEF JobTypeOK
  <2> QED
    BY <2>1, <2>2 DEF Running, NoJob, Main
<1>5. /\ r \in GroupRecord
      /\ r.state = "open" /\ r.owner = t /\ r.capacity = n /\ r.count = 0
      /\ r.joined = 0 /\ r.firstFailed = NoFailure /\ r.cancelled = FALSE
  <2> DEFINE S == {"unopened", "open", "ending", "ended"}
             O == {Main} \union Handles
             C == {0} \union Capacities
             N == 0..MaxHandle
             R == [state : S, owner : O, capacity : C, count : N, cancelled : BOOLEAN,
                   firstFailed : N, joined : N, outError : N]
  <2>1. Unopened \in R /\ "open" \in S /\ t \in O /\ n \in C
    BY <1>4, JobAssumption DEF Unopened, NoFailure
  <2>2. /\ Unopened.count = 0 /\ Unopened.joined = 0 /\ Unopened.firstFailed = NoFailure
        /\ Unopened.cancelled = FALSE
    BY DEF Unopened
  <2> HIDE DEF S, O, C, N
  <2>3. /\ a \in R /\ a.state = "open" /\ a.count = 0 /\ a.joined = 0
        /\ a.firstFailed = NoFailure /\ a.cancelled = FALSE
    BY <2>1, <2>2
  <2> HIDE DEF a
  <2>4. /\ b \in R /\ b.state = "open" /\ b.owner = t /\ b.count = 0 /\ b.joined = 0
        /\ b.firstFailed = NoFailure /\ b.cancelled = FALSE
    BY <2>1, <2>3
  <2> HIDE DEF b
  <2>5. /\ r \in R /\ r.state = "open" /\ r.owner = t /\ r.capacity = n /\ r.count = 0
        /\ r.joined = 0 /\ r.firstFailed = NoFailure /\ r.cancelled = FALSE
    BY <2>1, <2>4
  <2> HIDE DEF r
  <2> QED
    BY <2>5 DEF GroupRecord, S, O, C, N
<1> HIDE DEF r
<1> QED
  BY <1>1, <1>3, <1>5

\* The claim writes first_failed_slot when nobody has, and the task's own pc.
LEMMA ClaimShape ==
    ASSUME GroupTypeOK, FailuresClaimed, NEW s \in Slots, slots[s] \in Handles, ClaimFailure(s)
    PROVE  LET h == slots[s]
               g == task[h].group
           IN /\ g \in Groups /\ group' \in [Groups -> GroupRecord]
              /\ Only(g) /\ SameLife(g) /\ SameCount(g) /\ group'[g].cancelled = group[g].cancelled
              /\ group'[g].firstFailed = IF group[g].firstFailed = NoFailure THEN task[h].index
                                         ELSE group[g].firstFailed
<1> DEFINE h == slots[s]
           g == task[h].group
           x == IF group[g].firstFailed = NoFailure THEN task[h].index ELSE group[g].firstFailed
           r == [group[g] EXCEPT !.firstFailed = x]
<1>1. /\ group \in [Groups -> GroupRecord] /\ task \in [Handles -> TaskRecord]
  BY GroupTyped
<1>2. g \in Groups
  BY <1>1 DEF ClaimFailure, FailuresClaimed, TaskRecord
<1>3. group' = [group EXCEPT ![g] = r]
  BY <1>1, <1>2 DEF ClaimFailure
<1>4. group[g] \in GroupRecord
  BY <1>1, <1>2
<1>5. task[h] \in TaskRecord
  BY <1>1
<1>6. task[h].index \in 0..MaxHandle /\ group[g].firstFailed \in 0..MaxHandle
  <2> HIDE DEF g, h
  <2> QED
    BY <1>4, <1>5 DEF GroupRecord, TaskRecord
<1>7. x \in 0..MaxHandle
  BY <1>6
<1> HIDE DEF x, g
<1>8. r \in GroupRecord
  BY <1>4, <1>7, FieldChange DEF GroupRecord
<1>9. /\ r.owner = group[g].owner /\ r.capacity = group[g].capacity
      /\ r.count = group[g].count /\ r.joined = group[g].joined
      /\ r.firstFailed = x /\ r.cancelled = group[g].cancelled
      /\ r.state = group[g].state /\ r.outError = group[g].outError
  BY <1>4 DEF GroupRecord
<1> HIDE DEF r
<1>10. /\ group' \in [Groups -> GroupRecord] /\ Only(g) /\ SameLife(g) /\ SameCount(g)
       /\ group'[g].cancelled = group[g].cancelled /\ group'[g].firstFailed = x
  BY <1>1, <1>2, <1>3, <1>8, <1>9 DEF Only, SameLife, SameCount
<1> QED
  BY <1>2, <1>10 DEF g, x

\* The flag is raised by a task that failed.
LEMMA RaiseShape ==
    ASSUME GroupTypeOK, FailuresClaimed, NEW s \in Slots, slots[s] \in Handles, RaiseCancelled(s)
    PROVE  LET g == task[slots[s]].group
           IN /\ g \in Groups /\ group' \in [Groups -> GroupRecord]
              /\ Only(g) /\ SameLife(g) /\ SameCount(g)
              /\ group'[g].firstFailed = group[g].firstFailed /\ group'[g].cancelled = TRUE
<1> DEFINE g == task[slots[s]].group
           r == [group[g] EXCEPT !.cancelled = TRUE]
<1>1. group \in [Groups -> GroupRecord] /\ task \in [Handles -> TaskRecord]
  BY GroupTyped
<1>2. g \in Groups
  BY <1>1 DEF RaiseCancelled, FailuresClaimed, TaskRecord
<1>3. group' = [group EXCEPT ![g] = r]
  BY <1>1, <1>2 DEF RaiseCancelled
<1> HIDE DEF g
<1>4. group[g] \in GroupRecord
  BY <1>1, <1>2
<1>5. r \in GroupRecord
  BY <1>4, FieldChange DEF GroupRecord
<1>6. /\ r.owner = group[g].owner /\ r.capacity = group[g].capacity
      /\ r.count = group[g].count /\ r.joined = group[g].joined
      /\ r.firstFailed = group[g].firstFailed /\ r.cancelled = TRUE
      /\ r.state = group[g].state /\ r.outError = group[g].outError
  BY <1>4 DEF GroupRecord
<1> HIDE DEF r
<1>7. /\ group' \in [Groups -> GroupRecord] /\ Only(g) /\ SameLife(g) /\ SameCount(g)
      /\ group'[g].firstFailed = group[g].firstFailed /\ group'[g].cancelled = TRUE
  BY <1>1, <1>2, <1>3, <1>5, <1>6 DEF Only, SameLife, SameCount
<1> QED
  BY <1>2, <1>7 DEF g

\* A task's record, changed where its own steps change it.
LEMMA TaskShape ==
    ASSUME GroupTypeOK, NEW s \in Slots, slots[s] \in Handles, TaskFails(s) \/ ClaimFailure(s)
    PROVE  /\ task' \in [Handles -> TaskRecord]
           /\ \A h \in Handles : h # slots[s] => task'[h] = task[h]
           /\ task'[slots[s]].group = task[slots[s]].group
           /\ task'[slots[s]].index = task[slots[s]].index
           /\ TaskFails(s) => task'[slots[s]].pc = "claim" /\ task'[slots[s]].failed
           /\ ClaimFailure(s) => /\ task'[slots[s]].pc = "flag"
                                 /\ task'[slots[s]].failed = task[slots[s]].failed
<1> DEFINE h == slots[s]
           f == [task[h] EXCEPT !.failed = TRUE, !.pc = "claim"]
           c == [task[h] EXCEPT !.pc = "flag"]
<1>1. task \in [Handles -> TaskRecord] /\ task[h] \in TaskRecord
  BY GroupTyped
<1>2. TaskFails(s) => task' = [task EXCEPT ![h] = f]
  BY <1>1 DEF TaskFails
<1>3. ClaimFailure(s) => task' = [task EXCEPT ![h] = c]
  BY <1>1 DEF ClaimFailure
<1>4. f \in TaskRecord /\ c \in TaskRecord
  BY <1>1 DEF TaskRecord
<1>5. /\ f.group = task[h].group /\ f.index = task[h].index /\ f.pc = "claim" /\ f.failed
      /\ c.group = task[h].group /\ c.index = task[h].index /\ c.pc = "flag"
      /\ c.failed = task[h].failed
  BY <1>1 DEF TaskRecord
<1> HIDE DEF f, c
<1>7. ASSUME TaskFails(s), ClaimFailure(s) PROVE FALSE
  <2>1. Free(h) /\ task[h].pc = "claim"
    BY <1>7 DEF TaskFails, ClaimFailure
  <2> QED
    BY <2>1 DEF Free, Main, Handles
<1> QED
  BY <1>1, <1>2, <1>3, <1>4, <1>5, <1>7

\* A spawned task has the record of a fresh handle.
LEMMA SpawnTask ==
    ASSUME GroupTypeOK, Ordered, NEW g \in Groups, Spawn(g)
    PROVE  /\ nextHandle' = nextHandle + 1 /\ nextHandle + 1 \in Handles
           /\ task' \in [Handles -> TaskRecord]
           /\ \A h \in Handles : h # nextHandle + 1 => task'[h] = task[h]
           /\ task'[nextHandle + 1].group = g
           /\ task'[nextHandle + 1].index = group[g].count + 1
           /\ task'[nextHandle + 1].pc = "body" /\ ~ task'[nextHandle + 1].failed
<1> DEFINE n == [NoTask EXCEPT !.group = g, !.index = group[g].count + 1]
<1>1. task \in [Handles -> TaskRecord] /\ group[g] \in GroupRecord
  BY GroupTyped
<1>2. nextHandle' = nextHandle + 1 /\ nextHandle + 1 \in Handles
  BY JobAssumption, GroupTyped DEF Spawn, Submit, Handles, JobTypeOK
<1>3. task' = [task EXCEPT ![nextHandle + 1] = n]
  BY <1>2 DEF Spawn
<1>4. group[g].count + 1 \in 0..MaxHandle
  BY <1>1, <1>2, JobAssumption, GroupTyped DEF GroupRecord, Ordered, Handles, JobTypeOK
<1>5. /\ n.group = g /\ n.index = group[g].count + 1 /\ n.pc = "body" /\ n.failed = FALSE
  BY DEF NoTask
<1>6. n \in TaskRecord
  <2> DEFINE I == 0..MaxHandle
             P == {"body", "claim", "flag"}
             G == Groups \union {NoGroup}
  <2>1. NoTask \in [group : G, index : I, pc : P, failed : BOOLEAN]
    BY JobAssumption DEF NoTask
  <2>2. group[g].count + 1 \in I /\ g \in G
    BY <1>4
  <2> HIDE DEF I, P, G
  <2>3. n \in [group : G, index : I, pc : P, failed : BOOLEAN]
    BY <2>1, <2>2
  <2> QED
    BY <2>3 DEF TaskRecord, I, P, G
<1> HIDE DEF n
<1> QED
  BY <1>1, <1>2, <1>3, <1>5, <1>6

-----------------------------------------------------------------------------
(* The steps keep the invariant *)

\* Every step of the groups is one of the pool or leaves it alone.
LEMMA GroupsUsePool == [Next]_vars => [JobNext]_jobVars
<1>1. Normal \in Priorities
  BY JobAssumption DEF Normal
<1> QED
  BY <1>1
  DEF Next, vars, jobVars, JobNext, Pool, SubmitLoose, Owner, Begin, Spawn, End, Join,
      EndReturns, Cancel, Run, TaskOk, TaskFails, ClaimFailure, RaiseCancelled

\* What every step keeps of the pool.
LEMMA PoolKept ==
    ASSUME GroupInv, [JobNext]_jobVars
    PROVE  /\ PoolInv' /\ RanOnce' /\ JobTypeOK'
           /\ nextHandle \in Nat /\ nextHandle' \in Nat /\ nextHandle <= nextHandle'
           /\ returned \subseteq returned'
           /\ \A h \in Running : h \in Running' \/ h \in returned' \ returned
           /\ \A h \in Running : h \in Handles /\ h # Main /\ h <= nextHandle /\ h \notin returned
           /\ \A s \in Slots : thread[s] = "running" => slots[s] \in Running
<1>1. PoolInv' /\ RanOnce'
  BY PoolInvStep, RanOnceStep DEF GroupInv
<1>2. JobTypeOK /\ JobTypeOK'
  BY <1>1 DEF GroupInv, PoolInv
<1>3. nextHandle \in Nat /\ nextHandle' \in Nat
  BY <1>2, JobAssumption DEF JobTypeOK
<1>4. /\ returned \subseteq returned' /\ nextHandle <= nextHandle'
      /\ \A h \in Running : h \in Running' \/ h \in returned'
  BY RunningStep DEF GroupInv
<1>5. \A h \in Running : h \in Handles /\ h # Main /\ h <= nextHandle /\ h \notin returned
  <2> SUFFICES ASSUME NEW s \in Slots, thread[s] = "running"
               PROVE  /\ slots[s] \in Handles /\ slots[s] # Main
                      /\ slots[s] <= nextHandle /\ slots[s] \notin returned
    BY DEF Running
  <2>1. slots[s] \in Handles
    BY <1>2 DEF GroupInv, PoolInv, ThreadPerSlot, JobTypeOK
  <2> QED
    BY <2>1 DEF GroupInv, PoolInv, Unique, RanOnce, Handles, Main
<1> QED
  BY <1>1, <1>2, <1>3, <1>4, <1>5 DEF Running

\* A step that leaves the groups and tasks alone keeps the invariant, if no
\* thread that owns an unfinished group goes, and no task that failed returns
\* before it has claimed and raised.
LEMMA PoolStepGroups ==
    ASSUME GroupInv, [JobNext]_jobVars, UNCHANGED <<group, task>>,
           phase = "up" /\ phase' # "up" => OwnedBy(Main) = {},
           \A h \in returned' \ returned : OwnedBy(h) = {} /\ task[h].pc = "body"
    PROVE  GroupInv'
<1>1. /\ PoolInv' /\ RanOnce' /\ JobTypeOK'
      /\ nextHandle \in Nat /\ nextHandle' \in Nat /\ nextHandle <= nextHandle'
      /\ returned \subseteq returned'
      /\ \A h \in Running : h \in Running' \/ h \in returned' \ returned
      /\ \A h \in Running : h \notin returned
  BY PoolKept
<1>2. GroupTypeOK'
  BY <1>1 DEF GroupInv, GroupTypeOK
<1>3. TasksNamed'
  <2>1. \A h \in Handles : h > nextHandle' => h > nextHandle
    BY <1>1 DEF Handles
  <2> QED
    BY <2>1 DEF GroupInv, TasksNamed
<1>4. Ordered'
  <2>1. \A g \in Groups : group[g].count \in Nat
    BY GroupTyped, JobAssumption DEF GroupInv, GroupRecord
  <2> QED
    BY <1>1, <2>1 DEF GroupInv, Ordered
<1>5. JoinedReturned'
  BY <1>1 DEF GroupInv, JoinedReturned
<1>6. OwnersRun'
  <2> SUFFICES ASSUME NEW g \in Groups, Unfinished(g)
               PROVE  IF group[g].owner = Main THEN phase' = "up"
                      ELSE /\ group[g].owner \in Running' /\ group[g].owner \notin returned'
                           /\ task[group[g].owner].pc = "body"
    BY DEF OwnersRun, Unfinished
  <2>1. CASE group[g].owner = Main
    BY <2>1 DEF GroupInv, OwnersRun, OwnedBy
  <2>2. CASE group[g].owner # Main
    <3>1. /\ group[g].owner \in Running /\ group[g].owner \notin returned
          /\ task[group[g].owner].pc = "body"
      BY <2>2 DEF GroupInv, OwnersRun
    <3>2. group[g].owner \notin returned'
      BY <3>1 DEF OwnedBy
    <3> QED
      BY <1>1, <2>2, <3>1, <3>2
  <2> QED
    BY <2>1, <2>2
<1>7. FailuresClaimed'
  BY <1>1 DEF GroupInv, FailuresClaimed
<1> QED
  BY <1>1, <1>2, <1>3, <1>4, <1>5, <1>6, <1>7 DEF GroupInv

\* A step that leaves the pool and the tasks alone changes neither the jobs that
\* run nor the ones that have returned.
LEMMA PoolStill ==
    ASSUME GroupInv, UNCHANGED jobVars
    PROVE  PoolInv' /\ RanOnce' /\ JobTypeOK' /\ Running' = Running
<1>1. PoolInv' /\ RanOnce' /\ JobTypeOK'
  BY PoolKept DEF jobVars
<1> QED
  BY <1>1 DEF jobVars, Running

\* A task that is in a group is in one of the groups.
LEMMA InGroups ==
    ASSUME GroupTypeOK
    PROVE  \A h \in Handles : task[h].group # NoGroup => task[h].group \in Groups
  BY GroupTyped DEF TaskRecord

\* nya_taskgroup_begin's caller begins to join.
LEMMA EndStep == ASSUME GroupInv, NEW g \in Groups, End(g) PROVE GroupInv'
<1>1. /\ group' \in [Groups -> GroupRecord] /\ Only(g) /\ SameCount(g) /\ SameFailure(g)
      /\ group'[g].state = "ending" /\ group[g].state = "open"
      /\ UNCHANGED jobVars /\ UNCHANGED task
  BY EndShape DEF GroupInv, End
<1>2. PoolInv' /\ RanOnce' /\ JobTypeOK' /\ Running' = Running
  BY <1>1, PoolStill
<1> USE DEF GroupInv, Only, SameCount, SameFailure, jobVars
<1>9. \A k \in Groups : /\ group'[k].count = group[k].count
                          /\ group'[k].joined = group[k].joined
                          /\ group'[k].firstFailed = group[k].firstFailed
                          /\ group'[k].cancelled = group[k].cancelled
  BY <1>1
<1>10. \A h \in Handles : task[h].group # NoGroup => task[h].group \in Groups
  BY InGroups
<1>3. GroupTypeOK'
  BY <1>1, <1>2 DEF GroupTypeOK, GroupRecord
<1>4. TasksNamed'
  BY <1>1, <1>9, <1>10 DEF TasksNamed
<1>5. Ordered'
  BY <1>1 DEF Ordered
<1>6. JoinedReturned'
  BY <1>1, <1>9, <1>10 DEF JoinedReturned
<1>7. OwnersRun'
  BY <1>1, <1>2 DEF OwnersRun, Unfinished
<1>8. FailuresClaimed'
  BY <1>1, <1>9, <1>10 DEF FailuresClaimed
<1> QED
  BY <1>2, <1>3, <1>4, <1>5, <1>6, <1>7, <1>8

\* nya_taskgroup_end returns once every task is joined.
LEMMA EndReturnsStep == ASSUME GroupInv, NEW g \in Groups, EndReturns(g) PROVE GroupInv'
<1>1. /\ group' \in [Groups -> GroupRecord] /\ Only(g) /\ SameCount(g) /\ SameFailure(g)
      /\ group'[g].state = "ended" /\ group'[g].outError = group[g].firstFailed
      /\ group[g].state = "ending" /\ group[g].joined = group[g].count
      /\ UNCHANGED jobVars /\ UNCHANGED task
  BY EndReturnsShape DEF GroupInv, EndReturns
<1>2. PoolInv' /\ RanOnce' /\ JobTypeOK' /\ Running' = Running
  BY <1>1, PoolStill
<1> USE DEF GroupInv, Only, SameCount, SameFailure, jobVars
<1>9. \A k \in Groups : /\ group'[k].count = group[k].count
                          /\ group'[k].joined = group[k].joined
                          /\ group'[k].firstFailed = group[k].firstFailed
                          /\ group'[k].cancelled = group[k].cancelled
  BY <1>1
<1>10. \A h \in Handles : task[h].group # NoGroup => task[h].group \in Groups
  BY InGroups
<1>3. GroupTypeOK'
  BY <1>1, <1>2 DEF GroupTypeOK, GroupRecord
<1>4. TasksNamed'
  BY <1>1, <1>9, <1>10 DEF TasksNamed
<1>5. Ordered'
  BY <1>1 DEF Ordered
<1>6. JoinedReturned'
  BY <1>1, <1>9, <1>10 DEF JoinedReturned
<1>7. OwnersRun'
  BY <1>1, <1>2 DEF OwnersRun, Unfinished
<1>8. FailuresClaimed'
  BY <1>1, <1>9, <1>10 DEF FailuresClaimed
<1> QED
  BY <1>2, <1>3, <1>4, <1>5, <1>6, <1>7, <1>8

\* A group is cancelled from outside.
LEMMA CancelStep == ASSUME GroupInv, NEW g \in Groups, Cancel(g) PROVE GroupInv'
<1>1. /\ group' \in [Groups -> GroupRecord] /\ Only(g) /\ SameCount(g) /\ SameLife(g)
      /\ group'[g].cancelled = TRUE /\ group'[g].firstFailed = group[g].firstFailed
      /\ Unfinished(g) /\ UNCHANGED jobVars /\ UNCHANGED task
  BY CancelShape DEF GroupInv, Cancel
<1>2. PoolInv' /\ RanOnce' /\ JobTypeOK' /\ Running' = Running
  BY <1>1, PoolStill
<1> USE DEF GroupInv, Only, SameCount, SameLife, jobVars
<1>9. \A k \in Groups : /\ group'[k].count = group[k].count
                          /\ group'[k].joined = group[k].joined
                          /\ group'[k].firstFailed = group[k].firstFailed
                          /\ group[k].cancelled => group'[k].cancelled
  BY <1>1
<1>10. \A h \in Handles : task[h].group # NoGroup => task[h].group \in Groups
  BY InGroups
<1>3. GroupTypeOK'
  BY <1>1, <1>2 DEF GroupTypeOK, GroupRecord
<1>4. TasksNamed'
  BY <1>1, <1>9, <1>10 DEF TasksNamed
<1>5. Ordered'
  BY <1>1 DEF Ordered, Unfinished
<1>6. JoinedReturned'
  BY <1>1, <1>9, <1>10 DEF JoinedReturned
<1>7. OwnersRun'
  BY <1>1, <1>2 DEF OwnersRun, Unfinished
<1>8. FailuresClaimed'
  BY <1>1, <1>9, <1>10 DEF FailuresClaimed
<1> QED
  BY <1>2, <1>3, <1>4, <1>5, <1>6, <1>7, <1>8

\* What a join finds done has returned: the pool is up, because the owner runs,
\* and the handle it asks for is that of the next task.
LEMMA JoinedTask ==
    ASSUME GroupInv, NEW g \in Groups, Join(g), NEW h \in Handles,
           task[h].group = g, task[h].index = group[g].joined + 1
    PROVE  h \in returned
<1>1. /\ group[g].state = "ending" /\ group[g].joined < group[g].count
      /\ IsDone(HandleOf(g, group[g].joined + 1))
  BY DEF Join
<1>2. g # NoGroup
  BY GroupAssumption
<1>3. HandleOf(g, group[g].joined + 1) = h
  BY <1>2 DEF HandleOf, GroupInv, TasksNamed
<1>4. h <= nextHandle
  BY <1>2, GroupAssumption DEF GroupInv, TasksNamed, NoTask, PoolInv, JobTypeOK, Handles
<1>5. phase # "down"
  <2>1. Unfinished(g)
    BY <1>1 DEF Unfinished
  <2>2. CASE group[g].owner = Main
    BY <2>1, <2>2 DEF GroupInv, OwnersRun
  <2>3. CASE group[g].owner # Main
    <3>1. PICK s \in Slots : thread[s] = "running"
      BY <2>1, <2>3 DEF GroupInv, OwnersRun, Running
    <3>2. s \in Used
      BY <3>1 DEF GroupInv, PoolInv, ThreadPerSlot, Used
    <3> QED
      BY <3>2 DEF GroupInv, PoolInv, Lifecycle
  <2> QED
    BY <2>2, <2>3
<1>6. h \in 1..nextHandle
  BY <1>4 DEF Handles, GroupInv, PoolInv, JobTypeOK
<1> QED
  BY <1>1, <1>3, <1>5, <1>6 DEF GroupInv, PoolInv, Accounted

\* An owner joins one more of its tasks: the invariant is kept.
LEMMA JoinStep == ASSUME GroupInv, NEW g \in Groups, Join(g) PROVE GroupInv'
<1>1. /\ group' \in [Groups -> GroupRecord] /\ Only(g) /\ SameLife(g) /\ SameFailure(g)
      /\ group'[g].count = group[g].count /\ group'[g].joined = group[g].joined + 1
      /\ group[g].state = "ending" /\ group[g].joined < group[g].count
      /\ UNCHANGED jobVars /\ UNCHANGED task
  BY JoinShape DEF GroupInv, Join
<1>2. PoolInv' /\ RanOnce' /\ JobTypeOK' /\ Running' = Running
  BY <1>1, PoolStill
<1>0. /\ group[g].joined \in Nat /\ group[g].count \in Nat
      /\ \A h \in Handles : task[h].index \in Nat
  <2>1. group[g] \in GroupRecord /\ \A h \in Handles : task[h] \in TaskRecord
    BY GroupTyped DEF GroupInv
  <2> QED
    BY <2>1, JobAssumption DEF GroupRecord, TaskRecord
<1>a. \A h \in Handles : task[h].group = g /\ task[h].index = group[g].joined + 1 => h \in returned
  BY JoinedTask
<1> USE DEF GroupInv, Only, SameLife, SameFailure, jobVars
<1>9. \A k \in Groups : /\ group'[k].count = group[k].count
                          /\ group'[k].firstFailed = group[k].firstFailed
                          /\ group'[k].cancelled = group[k].cancelled
  BY <1>1
<1>10. \A h \in Handles : task[h].group # NoGroup => task[h].group \in Groups
  BY InGroups
<1>3. GroupTypeOK'
  BY <1>0, <1>1, <1>2 DEF GroupTypeOK, GroupRecord
<1>4. TasksNamed'
  BY <1>1, <1>9, <1>10 DEF TasksNamed
<1>5. Ordered'
  BY <1>0, <1>1 DEF Ordered
<1>6. JoinedReturned'
  <2> SUFFICES ASSUME NEW h \in Handles, task[h].group # NoGroup,
                      task[h].index <= group'[task[h].group].joined
               PROVE  h \in returned
    BY <1>1, <1>9, <1>10 DEF JoinedReturned
  <2>1. CASE task[h].group = g /\ task[h].index = group[g].joined + 1
    BY <1>a, <2>1
  <2>2. CASE task[h].group = g /\ task[h].index # group[g].joined + 1
    <3>1. task[h].index <= group[g].joined
      BY <1>0, <1>1, <2>2
    <3> QED
      BY <2>2, <3>1 DEF JoinedReturned
  <2>3. CASE task[h].group # g
    <3>1. task[h].group \in Groups
      BY GroupTyped DEF TaskRecord
    <3> QED
      BY <1>1, <2>3, <3>1 DEF JoinedReturned
  <2> QED
    BY <2>1, <2>2, <2>3
<1>7. OwnersRun'
  BY <1>1, <1>2 DEF OwnersRun, Unfinished
<1>8. FailuresClaimed'
  BY <1>1, <1>9, <1>10 DEF FailuresClaimed
<1> QED
  BY <1>2, <1>3, <1>4, <1>5, <1>6, <1>7, <1>8

\* A thread opens a group: it runs, in its own function, and the group had no task.
LEMMA BeginStep ==
    ASSUME GroupInv, NEW g \in Groups, NEW t \in {Main} \union Running, NEW n \in Capacities,
           Begin(g, t, n)
    PROVE  GroupInv'
<1>1. /\ group' \in [Groups -> GroupRecord]
      /\ \A k \in Groups : k # g => group'[k] = group[k]
      /\ group'[g].state = "open" /\ group'[g].owner = t /\ group'[g].capacity = n
      /\ group'[g].count = 0 /\ group'[g].joined = 0
      /\ group'[g].firstFailed = NoFailure /\ group'[g].cancelled = FALSE
      /\ group[g] = Unopened /\ UNCHANGED jobVars /\ UNCHANGED task
  BY BeginShape, ZenonT(60) DEF GroupInv, Begin, Ordered
<1>2. PoolInv' /\ RanOnce' /\ JobTypeOK' /\ Running' = Running
  BY <1>1, PoolStill
<1>3. /\ n \in Nat /\ nextHandle \in Nat
      /\ \A h \in Running : h # Main /\ h \notin returned
  <2>1. [JobNext]_jobVars
    BY <1>1
  <2> QED
    BY <2>1, PoolKept, GroupAssumption
<1>4. \A h \in Handles : task[h].group # NoGroup => task[h].group \in Groups
  BY InGroups DEF GroupInv
<1>5. group[g].count = 0 /\ group[g].joined = 0 /\ group[g].firstFailed = NoFailure
  BY <1>1 DEF Unopened
<1>6. \A h \in Handles : task[h].index \in Nat
  BY GroupTyped, JobAssumption DEF GroupInv, TaskRecord
<1> USE DEF GroupInv, jobVars
<1>7. \A h \in Handles : task[h].group # NoGroup => task[h].group # g
  BY <1>5, <1>6 DEF TasksNamed
<1>8. \A k \in Groups : /\ group'[k].count = group[k].count /\ group'[k].joined = group[k].joined
                        /\ group'[k].firstFailed = group[k].firstFailed
  BY <1>1, <1>5
<1>9. GroupTypeOK'
  BY <1>1, <1>2, <1>3 DEF GroupTypeOK, GroupRecord
<1>10. TasksNamed'
  BY <1>1, <1>8, <1>4 DEF TasksNamed
<1>11. Ordered'
  BY <1>1, <1>3 DEF Ordered
<1>12. JoinedReturned'
  BY <1>1, <1>4, <1>8 DEF JoinedReturned
<1>13. OwnersRun'
  <2>1. IF t = Main THEN phase = "up"
        ELSE t \in Running /\ t \notin returned /\ task[t].pc = "body"
    BY <1>3 DEF Begin, Free
  <2> QED
    BY <1>1, <1>2, <2>1 DEF OwnersRun, Unfinished
<1>14. FailuresClaimed'
  BY <1>1, <1>4, <1>7, <1>8 DEF FailuresClaimed
<1> QED
  BY <1>2, <1>9, <1>10, <1>11, <1>12, <1>13, <1>14

\* A group takes one more task, under a handle nobody has had.
LEMMA SpawnStep == ASSUME GroupInv, NEW g \in Groups, Spawn(g) PROVE GroupInv'
<1> DEFINE new == nextHandle + 1
<1>1. /\ group' \in [Groups -> GroupRecord] /\ Only(g) /\ SameLife(g) /\ SameFailure(g)
      /\ group'[g].joined = group[g].joined /\ group'[g].count = group[g].count + 1
      /\ group[g].state = "open" /\ group[g].count < group[g].capacity
  BY SpawnShape DEF GroupInv, Spawn
<1>2. /\ nextHandle' = new /\ new \in Handles
      /\ task' \in [Handles -> TaskRecord]
      /\ \A h \in Handles : h # new => task'[h] = task[h]
      /\ task'[new].group = g /\ task'[new].index = group[g].count + 1
      /\ task'[new].pc = "body" /\ ~ task'[new].failed
  BY SpawnTask DEF GroupInv
<1>3. UNCHANGED <<phase, slots, thread, returned>> /\ Running' = Running
  BY DEF Spawn, Submit, Running
<1>4. [JobNext]_jobVars
  BY GroupsUsePool DEF Next, Owner
<1>5. /\ PoolInv' /\ RanOnce' /\ JobTypeOK' /\ nextHandle \in Nat
      /\ \A h \in Running : h <= nextHandle /\ h \in Handles
  BY <1>4, PoolKept
<1>6. /\ new \notin returned /\ task[new] = NoTask /\ g # NoGroup
      /\ \A h \in Handles : h \in Nat
  BY <1>2, <1>5, GroupAssumption DEF GroupInv, RanOnce, TasksNamed, Handles
<1>7. /\ \A k \in Groups : group[k].count \in Nat /\ group[k].joined \in Nat
      /\ \A h \in Handles : task[h].index \in Nat
  <2>1. /\ \A k \in Groups : group[k] \in GroupRecord
        /\ \A h \in Handles : task[h] \in TaskRecord
    BY GroupTyped DEF GroupInv
  <2> QED
    BY <2>1, JobAssumption DEF GroupRecord, TaskRecord
<1>8. \A h \in Handles : task[h].group # NoGroup => task[h].group \in Groups /\ h # new
  BY <1>6, InGroups DEF GroupInv, NoTask
<1>9. \A k \in Groups : /\ group'[k].joined = group[k].joined
                        /\ group'[k].firstFailed = group[k].firstFailed
                        /\ group'[k].cancelled = group[k].cancelled
                        /\ group'[k].state = group[k].state /\ group'[k].owner = group[k].owner
                        /\ group'[k].outError = group[k].outError
                        /\ group'[k].capacity = group[k].capacity
                        /\ k # g => group'[k].count = group[k].count
  BY <1>1 DEF Only, SameLife, SameFailure
<1> HIDE DEF new
<1> USE DEF GroupInv
<1>10. GroupTypeOK'
  <2>1. group[g].count \in Nat /\ group[g].joined <= group[g].count
    BY <1>7 DEF GroupTypeOK
  <2>2. group[g].capacity \in Nat
    <3>1. group[g] \in GroupRecord
      BY GroupTyped
    <3>2. group[g].capacity \in {0} \union Capacities
      BY <3>1 DEF GroupRecord
    <3>3. Capacities \subseteq Nat
      BY GroupAssumption
    <3>4. \A c \in {0} \union Capacities : c \in Nat
      BY <3>3
    <3> QED
      BY <3>2, <3>4, Zenon
  <2>3. \A k \in Groups : group'[k].joined <= group'[k].count /\ group'[k].count <= group'[k].capacity
    BY <1>1, <1>7, <1>9, <2>1, <2>2 DEF GroupTypeOK
  <2> QED
    BY <1>1, <1>2, <1>5, <2>3 DEF GroupTypeOK, GroupRecord, TaskRecord
<1>11. TasksNamed'
  <2>1. \A h \in Handles : h > nextHandle' => task'[h] = NoTask
    BY <1>2, <1>5, <1>6 DEF TasksNamed, new
  <2>2. \A h \in Handles : task'[h].group # NoGroup =>
            1 <= task'[h].index /\ task'[h].index <= group'[task'[h].group].count
    BY <1>1, <1>2, <1>7, <1>8, <1>9 DEF TasksNamed
  <2>3. \A h \in Handles : h # new /\ task[h].group = g => task'[h].index # task'[new].index
    <3>1. \A h \in Handles : task[h].group = g => task[h].index <= group[g].count
      BY <1>6 DEF TasksNamed
    <3> QED
      BY <1>2, <1>7, <3>1
  <2>4. \A h, k \in Handles : task'[h].group # NoGroup /\ task'[h].group = task'[k].group
                              /\ task'[h].index = task'[k].index => h = k
    BY <1>2, <2>3 DEF TasksNamed
  <2>5. \A k \in Groups : \A i \in 1..group'[k].count :
            \E h \in Handles : task'[h].group = k /\ task'[h].index = i
    <3> SUFFICES ASSUME NEW k \in Groups, NEW i \in 1..group'[k].count
                 PROVE  \E h \in Handles : task'[h].group = k /\ task'[h].index = i
      OBVIOUS
    <3>1. CASE i \in 1..group[k].count
      <4>1. PICK h \in Handles : task[h].group = k /\ task[h].index = i
        BY <3>1 DEF TasksNamed
      <4>2. h # new
        BY <4>1, <1>6, GroupAssumption DEF NoTask
      <4> QED
        BY <1>2, <4>1, <4>2
    <3>2. CASE i \notin 1..group[k].count
      <4>1. k = g /\ i = group[g].count + 1
        BY <1>1, <1>7, <1>9, <3>2
      <4> QED
        BY <1>2, <4>1
    <3> QED
      BY <3>1, <3>2
  <2> QED
    BY <2>1, <2>2, <2>4, <2>5 DEF TasksNamed
<1>12. Ordered'
  <2> SUFFICES ASSUME NEW k \in Groups
               PROVE  /\ group'[k].state = "unopened" => group'[k] = Unopened
                      /\ group'[k].joined <= group'[k].count
                      /\ group'[k].count <= group'[k].capacity
                      /\ group'[k].count <= nextHandle'
                      /\ group'[k].state = "ended" =>
                            /\ group'[k].joined = group'[k].count
                            /\ group'[k].outError = group'[k].firstFailed
    BY DEF Ordered
  <2>1. group'[k].joined <= group'[k].count /\ group'[k].count <= group'[k].capacity
    BY <1>10 DEF GroupTypeOK
  <2>2. group'[k].count <= nextHandle'
    BY <1>1, <1>2, <1>5, <1>7, <1>9 DEF Ordered, new
  <2>3. group'[k].state = "unopened" => group'[k] = Unopened
    BY <1>1, <1>9 DEF Ordered, Only
  <2>4. group'[k].state = "ended" => k # g
    BY <1>1, <1>9
  <2> QED
    BY <1>9, <2>1, <2>2, <2>3, <2>4 DEF Ordered
<1>13. JoinedReturned'
  <2>1. task'[new].index > group'[g].joined
    BY <1>1, <1>2, <1>7 DEF Ordered
  <2> SUFFICES ASSUME NEW h \in Handles, task'[h].group # NoGroup,
                      task'[h].index <= group'[task'[h].group].joined
               PROVE  h \in returned
    BY <1>3 DEF JoinedReturned
  <2>2. h # new
    BY <1>2, <1>1, <1>7, <2>1
  <2> QED
    BY <1>2, <1>8, <1>9, <2>2 DEF JoinedReturned
<1>14. OwnersRun'
  <2>1. \A h \in Running : task'[h].pc = task[h].pc
    BY <1>2, <1>5 DEF new
  <2> QED
    BY <1>3, <1>9, <2>1 DEF OwnersRun, Unfinished
<1>15. FailuresClaimed'
  <2>1. \A h \in Handles :
          /\ task'[h].failed <=> task'[h].pc # "body"
          /\ task'[h].pc # "body" => task'[h].group # NoGroup
          /\ task'[h].pc = "claim" => h \notin returned'
          /\ task'[h].pc = "flag" =>
                /\ group'[task'[h].group].firstFailed # NoFailure
                /\ h \in returned' => group'[task'[h].group].cancelled
    BY <1>2, <1>3, <1>8, <1>9 DEF FailuresClaimed
  <2>2. \A k \in Groups : group'[k].firstFailed # NoFailure =>
            \E h \in Handles : /\ task'[h].group = k /\ task'[h].pc = "flag"
                               /\ task'[h].index = group'[k].firstFailed
    <3> SUFFICES ASSUME NEW k \in Groups, group'[k].firstFailed # NoFailure
                 PROVE  \E h \in Handles : /\ task'[h].group = k /\ task'[h].pc = "flag"
                                           /\ task'[h].index = group'[k].firstFailed
      OBVIOUS
    <3>1. PICK h \in Handles : /\ task[h].group = k /\ task[h].pc = "flag"
                               /\ task[h].index = group[k].firstFailed
      BY <1>9 DEF FailuresClaimed
    <3>2. h # new
      BY <3>1, <1>6 DEF NoTask
    <3> QED
      BY <1>2, <1>9, <3>1, <3>2
  <2> QED
    BY <2>1, <2>2 DEF FailuresClaimed
<1> QED
  BY <1>5, <1>10, <1>11, <1>12, <1>13, <1>14, <1>15

\* The jobs of the pool's records that run: they have handles and are not over.
LEMMA RunningSlot ==
    ASSUME GroupInv, NEW s \in Slots, thread[s] = "running"
    PROVE  slots[s] \in Handles /\ slots[s] \in Running /\ slots[s] \notin returned
<1>2. slots[s] \in Handles
  BY DEF GroupInv, PoolInv, JobTypeOK, ThreadPerSlot
<1> QED
  BY <1>2 DEF GroupInv, RanOnce, Running

\* A task's function fails: the failure goes into its own record, the group hears
\* of it in the two steps that follow.
LEMMA TaskFailsStep == ASSUME GroupInv, NEW s \in Slots, TaskFails(s) PROVE GroupInv'
<1> DEFINE h == slots[s]
<1>1. /\ thread[s] = "running" /\ task[h].group # NoGroup /\ OwnedBy(h) = {}
      /\ UNCHANGED jobVars /\ group' = group
  BY DEF TaskFails
<1>2. h \in Handles /\ h \notin returned /\ h # Main
  BY <1>1, RunningSlot DEF Handles, Main
<1>3. /\ task' \in [Handles -> TaskRecord]
      /\ \A k \in Handles : k # h => task'[k] = task[k]
      /\ task'[h].group = task[h].group /\ task'[h].index = task[h].index
      /\ task'[h].pc = "claim" /\ task'[h].failed
  BY <1>2, TaskShape DEF GroupInv
<1>4. task[h].pc = "body"
  BY <1>2 DEF TaskFails, Free
<1>5. PoolInv' /\ RanOnce' /\ JobTypeOK' /\ Running' = Running
  BY <1>1, PoolStill
<1>6. \A k \in Handles : /\ task'[k].group = task[k].group /\ task'[k].index = task[k].index
                         /\ k # h => task'[k].pc = task[k].pc /\ task'[k].failed = task[k].failed
  BY <1>3
<1>7. h <= nextHandle /\ nextHandle \in Nat
  BY <1>1, <1>2 DEF GroupInv, PoolInv, JobTypeOK, Unique
<1> HIDE DEF h
<1> USE DEF GroupInv, jobVars
<1>8. GroupTypeOK'
  BY <1>1, <1>3, <1>5 DEF GroupTypeOK, TaskRecord
<1>9. TasksNamed'
  <2>1. \A k \in Handles : k > nextHandle => k # h
    BY <1>2, <1>7 DEF Handles
  <2> QED
    BY <1>1, <1>3, <1>6, <2>1 DEF TasksNamed
<1>10. Ordered' /\ JoinedReturned'
  BY <1>1, <1>6 DEF Ordered, JoinedReturned
<1>11. OwnersRun'
  <2>1. \A g \in Groups : Unfinished(g) => group[g].owner # h
    BY <1>1 DEF OwnedBy
  <2>2. \A k \in Running : k \in Handles
    BY RunningSlot DEF Running
  <2> QED
    BY <1>1, <1>5, <1>6, <2>1, <2>2 DEF OwnersRun, Unfinished
<1>12. FailuresClaimed'
  <2>1. \A k \in Handles :
          /\ task'[k].failed <=> task'[k].pc # "body"
          /\ task'[k].pc # "body" => task'[k].group # NoGroup
          /\ task'[k].pc = "claim" => k \notin returned'
          /\ task'[k].pc = "flag" =>
                /\ group'[task'[k].group].firstFailed # NoFailure
                /\ k \in returned' => group'[task'[k].group].cancelled
    BY <1>1, <1>2, <1>3, <1>6 DEF FailuresClaimed
  <2>2. \A g \in Groups : group'[g].firstFailed # NoFailure =>
            \E k \in Handles : /\ task'[k].group = g /\ task'[k].pc = "flag"
                               /\ task'[k].index = group'[g].firstFailed
    BY <1>1, <1>4, <1>6 DEF FailuresClaimed
  <2> QED
    BY <2>1, <2>2 DEF FailuresClaimed
<1> QED
  BY <1>5, <1>8, <1>9, <1>10, <1>11, <1>12

\* The claim: the group's first failure is recorded, or was already.  The group
\* has not ended, since the task that claims has not returned.
LEMMA ClaimStep == ASSUME GroupInv, NEW s \in Slots, ClaimFailure(s) PROVE GroupInv'
<1> DEFINE h == slots[s]
           g == task[h].group
<1>1. thread[s] = "running" /\ task[h].pc = "claim" /\ UNCHANGED jobVars
  BY DEF ClaimFailure
<1>2. h \in Handles /\ h \notin returned
  BY <1>1, RunningSlot
<1>3. /\ task' \in [Handles -> TaskRecord]
      /\ \A k \in Handles : k # h => task'[k] = task[k]
      /\ task'[h].group = g /\ task'[h].index = task[h].index
      /\ task'[h].pc = "flag" /\ task'[h].failed = task[h].failed
  BY <1>2, TaskShape DEF GroupInv
<1>4. /\ g \in Groups /\ group' \in [Groups -> GroupRecord]
      /\ Only(g) /\ SameLife(g) /\ SameCount(g) /\ group'[g].cancelled = group[g].cancelled
      /\ group'[g].firstFailed = IF group[g].firstFailed = NoFailure THEN task[h].index
                                 ELSE group[g].firstFailed
  BY <1>2, ClaimShape DEF GroupInv
<1>5. PoolInv' /\ RanOnce' /\ JobTypeOK' /\ Running' = Running
  BY <1>1, PoolStill
<1>6. \A k \in Handles : /\ task'[k].group = task[k].group /\ task'[k].index = task[k].index
                         /\ task'[k].failed = task[k].failed
                         /\ k # h => task'[k].pc = task[k].pc
  BY <1>3
<1>7. /\ h <= nextHandle /\ nextHandle \in Nat /\ g # NoGroup
      /\ task[h].index \in Nat /\ group[g].count \in Nat
  <2>1. h <= nextHandle /\ nextHandle \in Nat
    BY <1>1, <1>2 DEF GroupInv, PoolInv, JobTypeOK, Unique
  <2>2. task[h] \in TaskRecord /\ group[g] \in GroupRecord
    BY <1>2, <1>4, GroupTyped DEF GroupInv
  <2>3. task[h].index \in Nat
    BY <2>2, JobAssumption DEF TaskRecord
  <2>4. group[g].count \in Nat
    BY <2>2, JobAssumption DEF GroupRecord
  <2> QED
    BY <1>4, <2>1, <2>3, <2>4, GroupAssumption
<1>8. /\ \A k \in Groups : /\ group'[k].state = group[k].state
                           /\ group'[k].owner = group[k].owner
                           /\ group'[k].capacity = group[k].capacity
                           /\ group'[k].count = group[k].count
                           /\ group'[k].joined = group[k].joined
                           /\ group'[k].outError = group[k].outError
                           /\ group'[k].cancelled = group[k].cancelled
                           /\ group[k].firstFailed # NoFailure =>
                                 group'[k].firstFailed = group[k].firstFailed
      /\ \A k \in Groups : k # g => group'[k] = group[k]
  BY <1>4 DEF Only, SameLife, SameCount
<1>9. \A k \in Handles : task[k].group # NoGroup => task[k].group \in Groups
  BY InGroups DEF GroupInv
<1> HIDE DEF g, h
<1> USE DEF GroupInv, jobVars
<1>10. task[h].index # NoFailure /\ task[h].index <= group[g].count
  BY <1>2, <1>7 DEF TasksNamed, NoFailure, g
<1>11. group[g].state \notin {"unopened", "ended"}
  <2>1. group[g].state # "unopened"
    BY <1>4, <1>7, <1>10 DEF Ordered, Unopened, NoFailure
  <2>2. group[g].state # "ended"
    BY <1>2, <1>4, <1>7, <1>10 DEF Ordered, JoinedReturned, g
  <2> QED
    BY <2>1, <2>2
<1>12. GroupTypeOK'
  BY <1>3, <1>4, <1>5, <1>8 DEF GroupTypeOK, GroupRecord, TaskRecord
<1>13. TasksNamed'
  <2>1. \A k \in Handles : k > nextHandle => k # h
    BY <1>2, <1>7 DEF Handles
  <2> QED
    BY <1>1, <1>3, <1>6, <1>8, <1>9, <2>1 DEF TasksNamed
<1>14. Ordered'
  BY <1>1, <1>4, <1>8, <1>11 DEF Ordered
<1>15. JoinedReturned'
  BY <1>1, <1>6, <1>8, <1>9 DEF JoinedReturned
<1>16. OwnersRun'
  <2>1. \A k \in Groups : Unfinished(k) => group[k].owner # h \/ group[k].owner = Main
    BY <1>1, <1>2 DEF OwnersRun, h
  <2>2. \A k \in Running : k \in Handles
    BY RunningSlot DEF Running
  <2> QED
    BY <1>1, <1>5, <1>6, <1>8, <2>1, <2>2 DEF OwnersRun, Unfinished
<1>17. FailuresClaimed'
  <2>0. group'[g].firstFailed # NoFailure
    BY <1>4, <1>10
  <2>1. \A k \in Handles :
          /\ task'[k].failed <=> task'[k].pc # "body"
          /\ task'[k].pc # "body" => task'[k].group # NoGroup
          /\ task'[k].pc = "claim" => k \notin returned'
    BY <1>1, <1>2, <1>3, <1>6, <1>7 DEF FailuresClaimed, h
  <2>2. \A k \in Handles :
          task'[k].pc = "flag" =>
                /\ group'[task'[k].group].firstFailed # NoFailure
                /\ k \in returned' => group'[task'[k].group].cancelled
    <3> SUFFICES ASSUME NEW k \in Handles, task'[k].pc = "flag"
                 PROVE  /\ group'[task'[k].group].firstFailed # NoFailure
                        /\ k \in returned' => group'[task'[k].group].cancelled
      OBVIOUS
    <3>1. CASE k = h
      BY <1>1, <1>2, <1>3, <2>0, <3>1
    <3>2. CASE k # h
      BY <1>1, <1>6, <1>8, <1>9, <3>2 DEF FailuresClaimed
    <3> QED
      BY <3>1, <3>2
  <2>3. \A j \in Groups : group'[j].firstFailed # NoFailure =>
            \E k \in Handles : /\ task'[k].group = j /\ task'[k].pc = "flag"
                               /\ task'[k].index = group'[j].firstFailed
    <3> SUFFICES ASSUME NEW j \in Groups, group'[j].firstFailed # NoFailure
                 PROVE  \E k \in Handles : /\ task'[k].group = j /\ task'[k].pc = "flag"
                                           /\ task'[k].index = group'[j].firstFailed
      OBVIOUS
    <3>1. CASE group[j].firstFailed # NoFailure
      <4>1. PICK k \in Handles : /\ task[k].group = j /\ task[k].pc = "flag"
                                 /\ task[k].index = group[j].firstFailed
        BY <3>1 DEF FailuresClaimed
      <4> QED
        BY <1>3, <1>6, <1>8, <3>1, <4>1
    <3>2. CASE group[j].firstFailed = NoFailure
      <4>1. j = g
        BY <1>8, <3>2
      <4> QED
        BY <1>2, <1>3, <1>4, <3>2, <4>1
    <3> QED
      BY <3>1, <3>2
  <2> QED
    BY <2>1, <2>2, <2>3 DEF FailuresClaimed
<1> QED
  BY <1>5, <1>12, <1>13, <1>14, <1>15, <1>16, <1>17

\* The task raises the flag of its group and returns.
LEMMA RaiseStep == ASSUME GroupInv, NEW s \in Slots, RaiseCancelled(s) PROVE GroupInv'
<1> DEFINE h == slots[s]
           g == task[h].group
<1>1. /\ thread[s] = "running" /\ task[h].pc = "flag" /\ task' = task
      /\ returned' = returned \union {h} /\ UNCHANGED <<phase, nextHandle>>
  BY DEF RaiseCancelled, JobReturns
<1>2. h \in Handles /\ h \notin returned
  BY <1>1, RunningSlot
<1>3. /\ g \in Groups /\ group' \in [Groups -> GroupRecord]
      /\ Only(g) /\ SameLife(g) /\ SameCount(g)
      /\ group'[g].firstFailed = group[g].firstFailed /\ group'[g].cancelled = TRUE
  BY <1>2, RaiseShape DEF GroupInv
<1>4. [JobNext]_jobVars
  BY GroupsUsePool DEF Next, Run
<1>5. /\ PoolInv' /\ RanOnce' /\ JobTypeOK'
      /\ \A k \in Running : k \in Running' \/ k \in returned' \ returned
      /\ \A k \in Running : k \notin returned
  BY <1>4, PoolKept
<1>6. /\ \A k \in Groups : /\ group'[k].state = group[k].state
                           /\ group'[k].owner = group[k].owner
                           /\ group'[k].capacity = group[k].capacity
                           /\ group'[k].count = group[k].count
                           /\ group'[k].joined = group[k].joined
                           /\ group'[k].outError = group[k].outError
                           /\ group[k].cancelled => group'[k].cancelled
                           /\ group'[k].firstFailed = group[k].firstFailed
      /\ \A k \in Groups : k # g => group'[k] = group[k]
  BY <1>3 DEF Only, SameLife, SameCount
<1>7. \A k \in Handles : task[k].group # NoGroup => task[k].group \in Groups
  BY InGroups DEF GroupInv
<1>8. group[g].state # "unopened"
  <2>1. g # NoGroup
    BY <1>3, GroupAssumption
  <2>2. task[h].index \in Nat
    <3>1. task[h] \in TaskRecord
      BY <1>2, GroupTyped DEF GroupInv
    <3> QED
      BY <3>1, JobAssumption DEF TaskRecord
  <2> QED
    BY <1>2, <1>3, <2>1, <2>2 DEF GroupInv, TasksNamed, Ordered, Unopened
<1> HIDE DEF g, h
<1> USE DEF GroupInv
<1>9. GroupTypeOK'
  BY <1>1, <1>3, <1>5, <1>6 DEF GroupTypeOK, GroupRecord
<1>10. TasksNamed'
  BY <1>1, <1>6, <1>7 DEF TasksNamed
<1>11. Ordered'
  BY <1>1, <1>6, <1>8 DEF Ordered
<1>12. JoinedReturned'
  BY <1>1, <1>6, <1>7 DEF JoinedReturned
<1>13. OwnersRun'
  <2> SUFFICES ASSUME NEW k \in Groups, Unfinished(k)
               PROVE  IF group[k].owner = Main THEN phase' = "up"
                      ELSE /\ group[k].owner \in Running' /\ group[k].owner \notin returned'
                           /\ task[group[k].owner].pc = "body"
    BY <1>1, <1>6 DEF OwnersRun, Unfinished
  <2>1. CASE group[k].owner = Main
    BY <1>1, <2>1 DEF OwnersRun
  <2>2. CASE group[k].owner # Main
    <3>1. /\ group[k].owner \in Running /\ group[k].owner \notin returned
          /\ task[group[k].owner].pc = "body"
      BY <2>2 DEF OwnersRun
    <3>2. group[k].owner # h
      BY <1>1, <3>1 DEF h
    <3> QED
      BY <1>1, <1>5, <2>2, <3>1, <3>2
  <2> QED
    BY <2>1, <2>2
<1>14. FailuresClaimed'
  <2>1. \A k \in Handles :
          /\ task'[k].failed <=> task'[k].pc # "body"
          /\ task'[k].pc # "body" => task'[k].group # NoGroup
          /\ task'[k].pc = "claim" => k \notin returned'
    BY <1>1 DEF FailuresClaimed, h
  <2>2. \A k \in Handles :
          task'[k].pc = "flag" =>
                /\ group'[task'[k].group].firstFailed # NoFailure
                /\ k \in returned' => group'[task'[k].group].cancelled
    BY <1>1, <1>3, <1>6, <1>7 DEF FailuresClaimed, g
  <2>3. \A j \in Groups : group'[j].firstFailed # NoFailure =>
            \E k \in Handles : /\ task'[k].group = j /\ task'[k].pc = "flag"
                               /\ task'[k].index = group'[j].firstFailed
    BY <1>1, <1>6 DEF FailuresClaimed
  <2> QED
    BY <2>1, <2>2, <2>3 DEF FailuresClaimed
<1> QED
  BY <1>5, <1>9, <1>10, <1>11, <1>12, <1>13, <1>14

-----------------------------------------------------------------------------
(* Every behaviour *)

\* Before nya_system_job_init there is no job, no group and no task.
LEMMA GroupInvInit == GroupInit => GroupInv
<1> SUFFICES ASSUME GroupInit PROVE GroupInv
  OBVIOUS
<1>1. PoolInv /\ JobTypeOK
  BY PoolInvInit DEF GroupInit, PoolInv
<1>2. RanOnce
  BY DEF GroupInit, JobInit, RanOnce
<1>3. Unopened \in GroupRecord /\ NoTask \in TaskRecord
  BY JobAssumption DEF Unopened, NoTask, GroupRecord, TaskRecord, NoFailure
<1>4. /\ group = [g \in Groups |-> Unopened] /\ task = [h \in Handles |-> NoTask]
      /\ nextHandle = 0
  BY DEF GroupInit, JobInit
<1>5. /\ Unopened.joined = 0 /\ Unopened.count = 0 /\ Unopened.capacity = 0
      /\ Unopened.state = "unopened" /\ Unopened.firstFailed = NoFailure
      /\ NoTask.group = NoGroup /\ NoTask.pc = "body" /\ NoTask.failed = FALSE
  BY DEF Unopened, NoTask
<1>6. GroupTypeOK
  BY <1>1, <1>3, <1>4, <1>5, GroupTyped
<1>7. TasksNamed /\ JoinedReturned
  BY <1>4, <1>5 DEF TasksNamed, JoinedReturned
<1>8. Ordered /\ OwnersRun
  BY <1>4, <1>5 DEF Ordered, OwnersRun, Unfinished
<1>9. FailuresClaimed
  BY <1>4, <1>5 DEF FailuresClaimed
<1> QED
  BY <1>1, <1>2, <1>6, <1>7, <1>8, <1>9 DEF GroupInv

\* Every step keeps the invariant of the groups.
LEMMA GroupInvStep == GroupInv /\ [Next]_vars => GroupInv'
<1> SUFFICES ASSUME GroupInv, [Next]_vars PROVE GroupInv'
  OBVIOUS
<1>1. [JobNext]_jobVars
  BY GroupsUsePool
<1>2. CASE Pool
  <2>1. UNCHANGED <<group, task>> /\ returned' = returned
    BY <1>2
    DEF Pool, SystemInit, Scheduler, ReadFlag, Reap, StartJob, Release, AnnounceCompleted,
        AnnounceStarted, Sleep, SchedulerExits, Deinit, JoinScheduler, DrainSlot, TearDown,
        Terminated, RaiseExit, jobVars
  <2>2. phase = "up" /\ phase' # "up" => OwnedBy(Main) = {}
    BY <1>2
    DEF Pool, SystemInit, Scheduler, ReadFlag, Reap, StartJob, Release, AnnounceCompleted,
        AnnounceStarted, Sleep, SchedulerExits, Deinit, JoinScheduler, DrainSlot, TearDown,
        Terminated, RaiseExit, jobVars
  <2> QED
    BY <1>1, <2>1, <2>2, PoolStepGroups
<1>3. CASE SubmitLoose
  <2>1. UNCHANGED <<group, task, returned, phase>>
    BY <1>3 DEF SubmitLoose, Submit
  <2> QED
    BY <1>1, <2>1, PoolStepGroups
<1>4. ASSUME NEW s \in Slots, TaskOk(s) PROVE GroupInv'
  <2>1. /\ UNCHANGED <<group, task, phase>> /\ thread[s] = "running"
        /\ returned' = returned \union {slots[s]} /\ OwnedBy(slots[s]) = {}
        /\ Free(slots[s])
    BY <1>4 DEF TaskOk, JobReturns
  <2>2. task[slots[s]].pc = "body"
    BY <2>1, RunningSlot DEF Free, Handles, Main
  <2>3. \A h \in returned' \ returned : OwnedBy(h) = {} /\ task[h].pc = "body"
    BY <2>1, <2>2
  <2> QED
    BY <1>1, <2>1, <2>3, PoolStepGroups
<1>5. ASSUME NEW g \in Groups, Owner(g) PROVE GroupInv'
  BY <1>5, BeginStep, SpawnStep, EndStep, JoinStep, EndReturnsStep, CancelStep DEF Owner
<1>6. ASSUME NEW s \in Slots, Run(s) PROVE GroupInv'
  BY <1>4, <1>6, TaskFailsStep, ClaimStep, RaiseStep DEF Run
<1>7. CASE UNCHANGED vars
  <2>1. UNCHANGED <<group, task, returned, phase>>
    BY <1>7 DEF vars
  <2> QED
    BY <1>1, <2>1, PoolStepGroups
<1> QED
  BY <1>2, <1>3, <1>5, <1>6, <1>7 DEF Next

\* It holds throughout.
LEMMA GroupInvAlways == Spec => []GroupInv
  BY GroupInvInit, GroupInvStep, PTL DEF Spec

\* The variables of the groups and their tasks have their types.
THEOREM GroupTypeCorrect == Spec => []GroupTypeOK
<1>1. GroupInv => GroupTypeOK
  BY DEF GroupInv
<1> QED
  BY <1>1, GroupInvAlways, PTL

\* nya_taskgroup_end returns only when every task of the group has returned, an
\* owner outlives its group, and the error it hands out is that of a task that
\* failed, exactly when one did, its siblings having been told.
THEOREM EndIsHonestAlways == Spec => []EndIsHonest
<1>1. ASSUME GroupInv PROVE NothingOutlives
  <2>1. \A g \in Groups : g # NoGroup
    BY GroupAssumption
  <2>2. \A g \in Groups : group[g].state = "ended" => TasksOf(g) \subseteq returned
    BY <1>1, <2>1 DEF GroupInv, Ordered, TasksNamed, JoinedReturned, TasksOf
  <2>3. \A g \in Groups : Unfinished(g) => group[g].owner \notin returned
    <3>1. Main \notin returned
      BY <1>1 DEF GroupInv, PoolInv, JobTypeOK, Handles, Main
    <3> QED
      BY <1>1, <3>1 DEF GroupInv, OwnersRun
  <2> QED
    BY <2>2, <2>3 DEF NothingOutlives
<1>2. ASSUME GroupInv PROVE FailureReported
  <2> SUFFICES ASSUME NEW g \in Groups, group[g].state = "ended"
               PROVE  LET failed == {task[h].index : h \in {k \in TasksOf(g) : task[k].failed}}
                      IN /\ group[g].outError = NoFailure <=> failed = {}
                         /\ failed # {} => group[g].outError \in failed /\ group[g].cancelled
    BY DEF FailureReported
  <2> DEFINE failed == {task[h].index : h \in {k \in TasksOf(g) : task[k].failed}}
  <2>1. group[g].outError = group[g].firstFailed /\ TasksOf(g) \subseteq returned
    BY <1>1, <1>2 DEF GroupInv, Ordered, NothingOutlives
  <2>2. failed # {} => group[g].firstFailed # NoFailure /\ group[g].cancelled
    <3> SUFFICES ASSUME NEW h \in TasksOf(g), task[h].failed
                 PROVE  group[g].firstFailed # NoFailure /\ group[g].cancelled
      OBVIOUS
    <3>1. h \in Handles /\ task[h].group = g /\ h \in returned
      BY <2>1 DEF TasksOf
    <3>2. task[h] \in TaskRecord
      BY <1>2, <3>1, GroupTyped DEF GroupInv
    <3>3. task[h].pc = "flag"
      BY <1>2, <3>1, <3>2 DEF GroupInv, FailuresClaimed, TaskRecord
    <3> QED
      BY <1>2, <3>1, <3>3 DEF GroupInv, FailuresClaimed
  <2>3. group[g].firstFailed # NoFailure => group[g].firstFailed \in failed
    <3> SUFFICES ASSUME group[g].firstFailed # NoFailure
                 PROVE  group[g].firstFailed \in failed
      OBVIOUS
    <3>1. PICK h \in Handles : /\ task[h].group = g /\ task[h].pc = "flag"
                               /\ task[h].index = group[g].firstFailed
      BY <1>2 DEF GroupInv, FailuresClaimed
    <3>2. task[h].failed
      BY <1>2, <3>1 DEF GroupInv, FailuresClaimed
    <3> QED
      BY <3>1, <3>2 DEF TasksOf
  <2> QED
    BY <2>1, <2>2, <2>3
<1>3. GroupInv => EndIsHonest
  BY <1>1, <1>2 DEF EndIsHonest
<1> QED
  BY <1>3, GroupInvAlways, PTL

\* The exchange on first_failed_slot is won once: whoever fails later leaves it.
THEOREM FirstFailureStaysAlways == Spec => FirstFailureStays
<1>1. GroupInv /\ [Next]_vars =>
        [\A g \in Groups : group[g].firstFailed # NoFailure =>
            group'[g].firstFailed = group[g].firstFailed]_vars
  <2> SUFFICES ASSUME GroupInv, Next
               PROVE  \A g \in Groups : group[g].firstFailed # NoFailure =>
                          group'[g].firstFailed = group[g].firstFailed
    OBVIOUS
  <2>0. GroupTypeOK /\ RanOnce /\ Ordered /\ FailuresClaimed
    BY DEF GroupInv
  <2>1. ASSUME NEW k \in Groups, Owner(k)
        PROVE  \A g \in Groups : group[g].firstFailed # NoFailure =>
                   group'[g].firstFailed = group[g].firstFailed
    <3>1. ASSUME NEW t \in {Main} \union Running, NEW n \in Capacities, Begin(k, t, n)
          PROVE  /\ \A g \in Groups : g # k => group'[g] = group[g]
                 /\ group[k].firstFailed = NoFailure
      BY <2>0, <3>1, BeginShape DEF Begin, Ordered, Unopened
    <3>2. CASE Spawn(k)
      BY <2>0, <3>2, SpawnShape DEF Only, SameFailure
    <3>3. CASE End(k)
      BY <2>0, <3>3, EndShape DEF Only, SameFailure
    <3>4. CASE Join(k)
      BY <2>0, <3>4, JoinShape DEF Only, SameFailure
    <3>5. CASE EndReturns(k)
      BY <2>0, <3>5, EndReturnsShape DEF Only, SameFailure
    <3>6. CASE Cancel(k)
      BY <2>0, <3>6, CancelShape DEF Only
    <3> QED
      BY <2>1, <3>1, <3>2, <3>3, <3>4, <3>5, <3>6 DEF Owner
  <2>2. ASSUME NEW s \in Slots, Run(s)
        PROVE  \A g \in Groups : group[g].firstFailed # NoFailure =>
                   group'[g].firstFailed = group[g].firstFailed
    <3>1. thread[s] = "running"
      BY <2>2 DEF Run, TaskOk, TaskFails, ClaimFailure, RaiseCancelled
    <3>2. slots[s] \in Handles
      BY <3>1, RunningSlot
    <3>3. CASE TaskOk(s) \/ TaskFails(s)
      BY <3>3 DEF TaskOk, TaskFails
    <3>4. CASE ClaimFailure(s)
      BY <2>0, <3>2, <3>4, ClaimShape DEF Only
    <3>5. CASE RaiseCancelled(s)
      BY <2>0, <3>2, <3>5, RaiseShape DEF Only
    <3> QED
      BY <2>2, <3>3, <3>4, <3>5 DEF Run
  <2>3. CASE Pool \/ SubmitLoose
    BY <2>3 DEF Pool, SubmitLoose
  <2> QED
    BY <2>1, <2>2, <2>3 DEF Next
<1> QED
  BY <1>1, GroupInvAlways, PTL DEF Spec, FirstFailureStays

\* Under the groups the pool is still the pool: every behaviour of owners and
\* tasks is one of the pool's specification, so what is proved of the pool holds
\* here too, that a job which is done has returned above all.
THEOREM GroupsKeepThePool == Spec => JobSpec /\ []DoneMeansReturned /\ SlotPinned
<1>1. GroupInit => JobInit
  BY DEF GroupInit
<1>2. Spec => JobSpec
  BY <1>1, GroupsUsePool, PTL DEF Spec, JobSpec
<1> QED
  BY <1>2, DoneMeansReturnedAlways, SlotPinnedAlways

=============================================================================
