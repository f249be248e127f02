------------------------------ MODULE TaskGroup ------------------------------
(***************************************************************************)
(* Scoped task groups on the job pool (nyangine-core/core/                 *)
(* core_taskgroup.c), composed with JobSystem.  A group is owned by one    *)
(* thread, the main one or that of a running job, which opens it, spawns   *)
(* into it and joins it in the same scope; its tasks are jobs of the pool. *)
(***************************************************************************)
EXTENDS JobSystem

CONSTANTS
    Groups,     \* bound: the groups opened in a behaviour
    Capacities, \* the max_tasks that groups are opened with
    MaxLoose,   \* bound: jobs of no group the main thread submits
    NestLimit,  \* how many jobs may own an unfinished group at once
    Cancels,    \* the groups somebody may call nya_taskgroup_cancel on
    Shutdown    \* whether the main thread shuts the pool down

Main == 0                 \* the main thread; a job's thread is its handle
NoGroup == "none"         \* no NYA_TaskGroup pointer: it names no group
NoFailure == 0            \* _NYA_TASKGROUP_NO_FAILURE; task indices start at 1
Normal == CHOOSE p \in Priorities : TRUE    \* NYA_JOB_PRIORITY_NORMAL

ASSUME GroupAssumption ==
    /\ Capacities \subseteq Nat /\ MaxLoose \in Nat /\ NestLimit \in Nat
    /\ Cancels \subseteq Groups /\ Shutdown \in BOOLEAN /\ NoGroup \notin Groups

VARIABLES
    group,  \* NYA_TaskGroup: its life, owner, and fields
    task    \* the _NYA_Task a job's in_data points at, by job handle

vars == <<phase, queue, slots, thread, active, nextHandle, sched, returned, said,
          group, task>>

Unopened == [state |-> "unopened", owner |-> Main, capacity |-> 0, count |-> 0,
             cancelled |-> FALSE, firstFailed |-> NoFailure, joined |-> 0,
             outError |-> NoFailure]
NoTask == [group |-> NoGroup, index |-> 0, pc |-> "body", failed |-> FALSE]

GroupInit == /\ JobInit
             /\ group = [g \in Groups |-> Unopened]
             /\ task = [h \in Handles |-> NoTask]

Unfinished(g) == group[g].state \in {"open", "ending"}
OwnedBy(t) == {g \in Groups : Unfinished(g) /\ group[g].owner = t}
Running == {slots[s] : s \in {r \in Slots : thread[r] = "running"}}
Nested == {g \in Groups : Unfinished(g) /\ group[g].owner # Main}

\* A thread that may take its next step: not inside a join, and a task still in
\* its own function.
Free(t) == /\ t = Main \/ (t \in Running /\ task[t].pc = "body")
           /\ \A g \in OwnedBy(t) : group[g].state = "open"

HandleOf(g, i) == CHOOSE h \in Handles : task[h].group = g /\ task[h].index = i
TasksOf(g) == {h \in Handles : task[h].group = g}

(***************************************************************************)
(* The owner                                                               *)
(***************************************************************************)

\* nya_taskgroup_begin; zero tasks are refused.
Begin(g, t, capacity) ==
    /\ Serving /\ Free(t) /\ group[g].state = "unopened"
    /\ t = Main => phase = "up"
    /\ t # Main => Cardinality(Nested) < NestLimit
    /\ capacity > 0
    /\ group' = [group EXCEPT ![g] = [Unopened EXCEPT !.state = "open", !.owner = t,
                                                      !.capacity = capacity]]
    /\ UNCHANGED <<jobVars, task>>

\* nya_taskgroup_spawn: a full group refuses; otherwise the record is written,
\* its job submitted and the count raised.
Spawn(g) ==
    /\ group[g].state = "open" /\ Free(group[g].owner)
    /\ group[g].count < group[g].capacity
    /\ Submit(Normal)
    /\ task' = [task EXCEPT ![nextHandle'] =
                    [NoTask EXCEPT !.group = g, !.index = group[g].count + 1]]
    /\ group' = [group EXCEPT ![g].count = @ + 1]

\* nya_taskgroup_end: one nya_job_wait per task in order, then the result.
End(g) ==
    /\ group[g].state = "open" /\ Free(group[g].owner)
    /\ group' = [group EXCEPT ![g].state = "ending"]
    /\ UNCHANGED <<jobVars, task>>

\* MUTANT of Join: only the last task is waited for.
JoinLastOnly(g) ==
    /\ group[g].state = "ending" /\ group[g].joined < group[g].count
    /\ Unlocked /\ IsDone(HandleOf(g, group[g].count))
    /\ group' = [group EXCEPT ![g].joined = group[g].count]
    /\ UNCHANGED <<jobVars, task>>

Join(g) ==
    /\ group[g].state = "ending" /\ group[g].joined < group[g].count
    /\ Unlocked /\ IsDone(HandleOf(g, group[g].joined + 1))
    /\ group' = [group EXCEPT ![g].joined = @ + 1]
    /\ UNCHANGED <<jobVars, task>>

EndReturns(g) ==
    /\ group[g].state = "ending" /\ group[g].joined = group[g].count
    /\ group' = [group EXCEPT ![g].state = "ended", ![g].outError = group[g].firstFailed]
    /\ UNCHANGED <<jobVars, task>>

\* nya_taskgroup_cancel, from anywhere.
Cancel(g) ==
    /\ g \in Cancels /\ Unfinished(g) /\ ~ group[g].cancelled
    /\ group' = [group EXCEPT ![g].cancelled = TRUE]
    /\ UNCHANGED <<jobVars, task>>

(***************************************************************************)
(* The tasks: _nya_taskgroup_run on a job's thread                         *)
(***************************************************************************)

\* The function returns NYA_OK, whether or not it saw the cancellation flag;
\* a job of no group returns the same way.
TaskOk(s) ==
    /\ thread[s] = "running"
    /\ Free(slots[s]) /\ OwnedBy(slots[s]) = {}
    /\ JobReturns(s)
    /\ UNCHANGED <<group, task>>

\* It returns a failure, which is written to the task's own record.
TaskFails(s) ==
    /\ thread[s] = "running"
    /\ Free(slots[s]) /\ OwnedBy(slots[s]) = {}
    /\ task[slots[s]].group # NoGroup
    /\ task' = [task EXCEPT ![slots[s]].failed = TRUE, ![slots[s]].pc = "claim"]
    /\ UNCHANGED <<jobVars, group>>

\* MUTANT of ClaimFailure: a store in place of the exchange.
ClaimFailureByStore(s) ==
    LET h == slots[s] IN
    /\ thread[s] = "running" /\ task[h].pc = "claim"
    /\ group' = [group EXCEPT ![task[h].group].firstFailed = task[h].index]
    /\ task' = [task EXCEPT ![h].pc = "flag"]
    /\ UNCHANGED jobVars

\* The compare and exchange on first_failed_slot.
ClaimFailure(s) ==
    LET h == slots[s] IN
    /\ thread[s] = "running" /\ task[h].pc = "claim"
    /\ group' = [group EXCEPT ![task[h].group].firstFailed =
                    IF @ = NoFailure THEN task[h].index ELSE @]
    /\ task' = [task EXCEPT ![h].pc = "flag"]
    /\ UNCHANGED jobVars

\* MUTANT of RaiseCancelled: the siblings are not told.
RaiseNothing(s) ==
    /\ thread[s] = "running" /\ task[slots[s]].pc = "flag"
    /\ JobReturns(s)
    /\ UNCHANGED <<group, task>>

\* It raises the flag for its siblings and returns.
RaiseCancelled(s) ==
    LET h == slots[s] IN
    /\ thread[s] = "running" /\ task[h].pc = "flag"
    /\ group' = [group EXCEPT ![task[h].group].cancelled = TRUE]
    /\ JobReturns(s)
    /\ UNCHANGED task

Run(s) == TaskOk(s) \/ TaskFails(s) \/ ClaimFailure(s) \/ RaiseCancelled(s)

(***************************************************************************)
(* The whole                                                               *)
(***************************************************************************)

\* The main thread submits a job of no group, and waits for it or not.
SubmitLoose ==
    /\ phase = "up" /\ Free(Main)
    /\ Cardinality({h \in 1..nextHandle : task[h].group = NoGroup}) < MaxLoose
    /\ Submit(Normal)
    /\ UNCHANGED <<group, task>>

\* The pool's own steps; the main thread shuts down once its groups are joined.
Pool == /\ \/ SystemInit \/ Scheduler \/ Deinit \/ Terminated
           \/ Shutdown /\ OwnedBy(Main) = {} /\ RaiseExit
        /\ UNCHANGED <<group, task>>

Owner(g) == \/ \E t \in {Main} \union Running, n \in Capacities : Begin(g, t, n)
            \/ Spawn(g) \/ End(g) \/ Join(g) \/ EndReturns(g) \/ Cancel(g)

Next == \/ Pool \/ SubmitLoose
        \/ \E g \in Groups : Owner(g)
        \/ \E s \in Slots : Run(s)

Spec == GroupInit /\ [][Next]_vars

(***************************************************************************)
(* Fairness: the pool's threads run; an owner that opened a group goes on  *)
(* to end it, which the group's scope guarantees; a poll of                *)
(* nya_job_is_done gets the locks sooner or later, the scheduler sleeping  *)
(* without them in every pass (hence SF); a task's function returns once   *)
(* its own joins have.                                                     *)
(***************************************************************************)
Fairness == /\ WF_vars(Pool)
            /\ \A g \in Groups : WF_vars(End(g)) /\ SF_vars(Join(g)) /\ WF_vars(EndReturns(g))
            /\ \A s \in Slots : WF_vars(Run(s))

FairSpec == Spec /\ Fairness

(***************************************************************************)
(* Properties                                                              *)
(***************************************************************************)

\* Every variable of a group and of a task has its type.
GroupTypeOK ==
    /\ JobTypeOK
    /\ group \in [Groups -> [state : {"unopened", "open", "ending", "ended"},
                             owner : {Main} \union Handles, capacity : {0} \union Capacities,
                             count : 0..MaxHandle, cancelled : BOOLEAN,
                             firstFailed : 0..MaxHandle, joined : 0..MaxHandle,
                             outError : 0..MaxHandle]]
    /\ \A g \in Groups : group[g].joined <= group[g].count /\ group[g].count <= group[g].capacity
    /\ task \in [Handles -> [group : Groups \union {NoGroup}, index : 0..MaxHandle,
                             pc : {"body", "claim", "flag"}, failed : BOOLEAN]]

\* Nothing outlives the wait: when nya_taskgroup_end returns, every task spawned
\* into the group has returned, and a job that has returned left no group of
\* its own unfinished, so both arenas may be reclaimed.
NothingOutlives ==
    \A g \in Groups :
        /\ group[g].state = "ended" => TasksOf(g) \subseteq returned
        /\ Unfinished(g) => group[g].owner \notin returned

\* nya_taskgroup_end reports a failure exactly when a task failed, it is the one
\* of a task that did, and the siblings were asked to stop.
FailureReported ==
    \A g \in Groups : group[g].state = "ended" =>
        LET failed == {task[h].index : h \in {k \in TasksOf(g) : task[k].failed}} IN
        /\ group[g].outError = NoFailure <=> failed = {}
        /\ failed # {} => group[g].outError \in failed /\ group[g].cancelled

\* What the caller of nya_taskgroup_end may rely on.
EndIsHonest == NothingOutlives /\ FailureReported

\* The first failure recorded is the one reported: no later task takes
\* first_failed_slot from it.
FirstFailureStays ==
    [][\A g \in Groups :
        group[g].firstFailed # NoFailure =>
            group'[g].firstFailed = group[g].firstFailed]_vars

\* nya_taskgroup_end returns, also for groups nested in tasks, while fewer jobs than
\* run at once own a group, unless the pool is shut down under them.
GroupsEnd == \A g \in Groups : Unfinished(g) ~> (group[g].state = "ended" \/ phase # "up")
=============================================================================
