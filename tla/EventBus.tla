------------------------------ MODULE EventBus ------------------------------
(***************************************************************************)
(* The event bus (nyangine-core/core/core_event.c): one queue that any     *)
(* thread fills and the frame loop drains, and hooks that run as an event  *)
(* is dispatched (immediate) or polled (deferred).  A handler may itself   *)
(* register, unregister or dispatch, so walks over the hooks nest and the  *)
(* list being walked changes under them.                                   *)
(*                                                                         *)
(* The queue has a lock, the hooks have none: only the main thread's walks *)
(* are followed, and the types other threads dispatch have no immediate    *)
(* ones.                                                                   *)
(***************************************************************************)
EXTENDS Naturals, Sequences, FiniteSets, SequencesExt

CONSTANTS
    Types,       \* event types, each dispatched by the main thread ...
    Elsewhere,   \* ... but these by other threads
    Plain,       \* handlers registered for good
    Once,        \* handlers registered with nya_event_hook_register_once
    MaxEvents,   \* bound: events dispatched
    MaxChanges,  \* bound: hooks registered or unregistered
    MaxDepth     \* bound: handlers inside handlers

ASSUME EventAssumption == MaxEvents \in Nat /\ MaxChanges \in Nat /\ MaxDepth \in Nat \ {0}

Hooks == Plain \cup Once
Kinds == {"immediate", "deferred"}
Lists == [kind : Kinds, type : Types]

VARIABLES
    hooks,       \* immediate_event_hooks and deferred_event_hooks
    queue,       \* event_queue
    readIndex,   \* event_queue_read_index
    walks,       \* the main thread's calls of _nya_event_notify_listeners, innermost last
    history      \* what the properties are about

eventVars == <<hooks, queue, readIndex, walks, history>>

\* nya_system_events_init.
EventInit ==
    /\ hooks = [l \in Lists |-> <<>>]
    /\ queue = <<>> /\ readIndex = 0 /\ walks = <<>>
    /\ history = [dispatched |-> <<>>, polled |-> <<>>, changes |-> 0,
                  due |-> [l \in Lists |-> [h \in Hooks |-> 0]], doubled |-> {}]

Innermost == walks[Len(walks)]
\* Where code of the application runs: between two walks, or in a handler.
Application == walks # <<>> => Innermost.at = "handler"
Nth == Len(history.dispatched) + 1

\* A walk begins: the number of hooks is read once.
WalkOver(l) == [list |-> l, at |-> "walk", i |-> 1, count |-> Len(hooks[l]), spent |-> <<>>,
                owed |-> ToSet(hooks[l]), moved |-> FALSE]

Enqueues(type) ==
    /\ Nth <= MaxEvents
    /\ queue' = Append(queue, [id |-> Nth, type |-> type])
    /\ history' = [history EXCEPT !.dispatched = Append(@, Nth)]
    /\ UNCHANGED <<hooks, readIndex>>

\* nya_event_dispatch on the main thread: the queue, then the immediate hooks.
Dispatch(type) ==
    /\ Application /\ type \notin Elsewhere /\ Len(walks) < MaxDepth
    /\ Enqueues(type)
    /\ walks' = Append(walks, WalkOver([kind |-> "immediate", type |-> type]))

\* ... and on another one, at any time.
DispatchElsewhere(type) == type \in Elsewhere /\ Enqueues(type) /\ UNCHANGED walks

\* MUTANT of Poll: an empty queue is cleared, the index is not.
PollKeepsIndex ==
    /\ walks = <<>>
    /\ IF readIndex >= Len(queue)
       THEN queue' = <<>> /\ UNCHANGED <<readIndex, walks, history>>
       ELSE /\ readIndex' = readIndex + 1
            /\ history' = [history EXCEPT !.polled = Append(@, queue[readIndex + 1].id)]
            /\ walks' = <<WalkOver([kind |-> "deferred", type |-> queue[readIndex + 1].type])>>
            /\ UNCHANGED queue
    /\ UNCHANGED hooks

\* nya_system_event_poll: the queue is emptied when all of it was read.
Poll ==
    /\ walks = <<>>
    /\ IF readIndex >= Len(queue)
       THEN queue' = <<>> /\ readIndex' = 0 /\ UNCHANGED <<walks, history>>
       ELSE /\ readIndex' = readIndex + 1
            /\ history' = [history EXCEPT !.polled = Append(@, queue[readIndex + 1].id)]
            /\ walks' = <<WalkOver([kind |-> "deferred", type |-> queue[readIndex + 1].type])>>
            /\ UNCHANGED queue
    /\ UNCHANGED hooks

\* nya_array_remove_item: the first that is equal, if any.
ItemRemoved(list, h) == IF Contains(list, h) THEN RemoveFirst(list, h) ELSE list

\* A one-shot that one of the n outermost walks will take out as it ends.
Spent(l, h, n) == \E k \in 1..n : walks[k].list = l /\ Contains(walks[k].spent, h)

\* Taking h out of list l moves what walk w stands at.
Moves(w, l, h) == Contains(SubSeq(hooks[l], 1, w.i), h)

Changing(l) ==
    /\ Application /\ history.changes < MaxChanges
    /\ l.kind = "immediate" => l.type \notin Elsewhere

\* nya_event_hook_register and _once; a caller keeps one registration at a time.
Register(l, h) ==
    /\ Changing(l)
    /\ history.due[l][h] = 0
    /\ hooks' = [hooks EXCEPT ![l] = Append(@, h)]
    /\ history' = [history EXCEPT !.changes = @ + 1, !.due[l][h] = 1]
    /\ UNCHANGED <<queue, readIndex, walks>>

\* nya_event_hook_unregister, in a handler's walk or between walks.
Unregister(l, h) ==
    /\ Changing(l)
    /\ Contains(hooks[l], h)
    /\ hooks' = [hooks EXCEPT ![l] = ItemRemoved(@, h)]
    /\ history' = [history EXCEPT !.changes = @ + 1, !.due[l][h] = 0,
                                  !.doubled = IF Spent(l, h, Len(walks)) THEN @ \cup {h} ELSE @]
    /\ walks' = [k \in DOMAIN walks |->
                    IF walks[k].list = l
                    THEN [walks[k] EXCEPT !.owed = @ \ {h},
                                          !.moved = @ \/ Moves(walks[k], l, h)]
                    ELSE walks[k]]
    /\ UNCHANGED <<queue, readIndex>>

(***************************************************************************)
(* _nya_event_notify_listeners                                             *)
(***************************************************************************)

\* The hook the walk is at, unless the list shrank past it.
AtHook == Innermost.i <= Innermost.count /\ Innermost.i <= Len(hooks[Innermost.list])
Current == hooks[Innermost.list][Innermost.i]

\* Its condition says no, or it has no function.
Declines ==
    /\ walks # <<>> /\ Innermost.at = "walk" /\ AtHook
    /\ walks' = [walks EXCEPT ![Len(walks)].i = @ + 1, ![Len(walks)].owed = @ \ {Current}]
    /\ UNCHANGED <<hooks, queue, readIndex, history>>

\* It is spent before its handler runs.
Enters ==
    LET l == Innermost.list
        h == Current
    IN
    /\ walks # <<>> /\ Innermost.at = "walk" /\ AtHook
    /\ walks' = [walks EXCEPT ![Len(walks)].at = "handler",
                              ![Len(walks)].owed = @ \ {h},
                              ![Len(walks)].spent = IF h \in Once THEN Append(@, h) ELSE @]
    /\ history' = [history EXCEPT !.due[l][h] = IF h \in Once THEN 0 ELSE @,
                                  !.doubled = IF Spent(l, h, Len(walks) - 1) THEN @ \cup {h} ELSE @]
    /\ UNCHANGED <<hooks, queue, readIndex>>

\* The list without the one-shots that were spent.
Cleaned(w) ==
    LET left[n \in 0..Len(w.spent)] ==
            IF n = 0 THEN hooks[w.list] ELSE ItemRemoved(left[n - 1], w.spent[n])
    IN  left[Len(w.spent)]

\* MUTANT of WalkEnds: the one-shots stay when a handler took the event.
WalkEndsEarly(w) ==
    /\ hooks' = IF w.at = "handler" THEN hooks ELSE [hooks EXCEPT ![w.list] = Cleaned(w)]
    /\ walks' = Front(walks)

\* The walk is over: the spent one-shots go, under the walks this one is inside of.
WalkEnds(w) ==
    /\ hooks' = [hooks EXCEPT ![w.list] = Cleaned(w)]
    /\ walks' = [k \in 1..(Len(walks) - 1) |->
                    IF walks[k].list = w.list
                    THEN [walks[k] EXCEPT !.owed = @ \ ToSet(w.spent),
                             !.moved = @ \/ \E h \in ToSet(w.spent) : Moves(walks[k], w.list, h)]
                    ELSE walks[k]]

Exhausted ==
    /\ walks # <<>> /\ Innermost.at = "walk" /\ ~ AtHook
    /\ WalkEnds(Innermost)
    /\ UNCHANGED <<queue, readIndex, history>>

\* MUTANT of HandlerReturns: a one-shot is taken out as it returns.
HandlerReturnsRemoving ==
    LET w == Innermost IN
    /\ walks # <<>> /\ w.at = "handler"
    /\ hooks' = [hooks EXCEPT ![w.list] = Cleaned(w)]
    /\ walks' = [walks EXCEPT ![Len(walks)].at = "walk", ![Len(walks)].i = @ + 1,
                              ![Len(walks)].spent = <<>>]
    /\ UNCHANGED <<queue, readIndex, history>>

HandlerReturns ==
    /\ walks # <<>> /\ Innermost.at = "handler"
    /\ walks' = [walks EXCEPT ![Len(walks)].at = "walk", ![Len(walks)].i = @ + 1]
    /\ UNCHANGED <<hooks, queue, readIndex, history>>

\* A handler that marks the event handled ends the walk.
Handles ==
    /\ walks # <<>> /\ Innermost.at = "handler"
    /\ WalkEnds(Innermost)
    /\ UNCHANGED <<queue, readIndex, history>>

EventNext ==
    \/ \E type \in Types : Dispatch(type) \/ DispatchElsewhere(type)
    \/ Poll
    \/ \E l \in Lists, h \in Hooks : Register(l, h) \/ Unregister(l, h)
    \/ Declines \/ Enters \/ Exhausted \/ HandlerReturns \/ Handles

EventSpec == EventInit /\ [][EventNext]_eventVars

(***************************************************************************)
(* Properties                                                              *)
(***************************************************************************)

EventTypeOK ==
    /\ \A l \in Lists : ToSet(hooks[l]) \subseteq Hooks
    /\ readIndex \in 0..Len(queue) /\ Len(walks) <= MaxDepth
    /\ \A k \in DOMAIN walks : walks[k].list \in Lists /\ walks[k].at \in {"walk", "handler"}

\* Whatever thread dispatched it and whatever was dispatched from a handler while
\* the queue was drained, an event is polled once and in its turn, and none is lost
\* when the queue is emptied.
PolledOnce ==
    history.polled \o [k \in 1..(Len(queue) - readIndex) |-> queue[readIndex + k].id]
        = history.dispatched

\* Between dispatches the lists hold what was registered and neither unregistered
\* nor spent, however the walks nested: a one-shot is gone once it ran, even when it
\* took the event, and is there again if its handler asked for it.  A one-shot that
\* is taken out while it runs, by its handler or a walk inside, is the exception: its
\* own walk then takes out the one registered since.
HooksKept ==
    walks = <<>> =>
        \A l \in Lists, h \in Hooks \ history.doubled :
            Cardinality({k \in DOMAIN hooks[l] : hooks[l][k] = h}) = history.due[l][h]

BusHonest == PolledOnce /\ HooksKept

\* "Every hook that was registered before the dispatch has to have run" (a test of
\* the walk, test_bug_event_hook_realloc.c) or declined: a walk that no handler ended
\* passed none over, whatever was registered or unregistered meanwhile.  A hook removed
\* from where the walk stands, or from before, is the exception: what follows moves up,
\* and the one after the walk's place is missed.
HooksHeard ==
    [][Exhausted => Innermost.moved \/ Innermost.owed = {}]_eventVars

=============================================================================
