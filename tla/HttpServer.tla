----------------------------- MODULE HttpServer -----------------------------
(***************************************************************************)
(* The HTTP server's threads and the hand-over of exchanges between them   *)
(* (nyangine-core/http/http_server.c): the listener's pass over the        *)
(* connection table, the workers, the tick of the main thread, WebSocket   *)
(* upgrades, the graceful drain and deinit.  With no workers the tick runs *)
(* the pass itself.                                                        *)
(*                                                                         *)
(* A request is the pieces a peer sends it in, all but the last a Part;    *)
(* it is known by the position of its last piece in the peer's script, and *)
(* so is its answer.  An answer is one piece of the stream back.           *)
(***************************************************************************)
EXTENDS Integers, Sequences, FiniteSets

CONSTANTS
    Peers,           \* bound: the connections made, each by a peer of its own
    Scripts,         \* what a peer may send: sequences of pieces
    MaxConnections,  \* NYA_HTTP_MAX_CONNECTIONS
    Pools,           \* the sets of workers a server may be started with
    RequestBudget,   \* NYA_HTTP_MAX_REQUESTS_PER_TICK
    ReceiveCap,      \* NYA_HTTP_MAX_REQUEST_BYTES, in pieces
    SendCap,         \* NYA_HTTP_MAX_PENDING_WRITE_BYTES, in answers
    Window           \* the answers a host's socket buffer takes

Nobody == "nobody"
Part == [to |-> "more", keep |-> TRUE]    \* a piece that ends no request
Pieces == {Part} \cup [to : {"worker", "main", "upgrade", "nowhere"}, keep : BOOLEAN]

ASSUME ServerAssumption ==
    /\ MaxConnections \in Nat \ {0} /\ RequestBudget \in Nat \ {0}
    /\ ReceiveCap \in Nat \ {0} /\ SendCap \in Nat \ {0} /\ Window \in Nat \ {0}
    /\ Nobody \notin Peers
    /\ \A script \in Scripts : script \in Seq(Pieces)
    /\ \A workers \in Pools : IsFiniteSet(workers)

VARIABLES
    server,     \* _NYA_HttpState: the flags of the shutdown, and its memory
    pool,       \* its workers, fixed at init
    conn,       \* connections
    exchange,   \* slots
    queues,     \* worker_queue, main_queue and the semaphore `work`
    pass,       \* where the pass stands, and what it read at its start
    worker,     \* where each worker thread stands
    main,       \* where the thread that ticks stands
    peer        \* the other ends of the sockets

serverVars == <<server, pool, conn, exchange, queues, pass, worker, main, peer>>

Workers == UNION Pools
Places == 1..MaxConnections
Threaded == pool # {}

Refusal == 0               \* a status and a close, in answer to no request

NoConnection == [who |-> Nobody, read |-> 0, used |-> 0, owed |-> <<>>, closing |-> FALSE,
                 peerClosed |-> FALSE, upgraded |-> FALSE, aged |-> FALSE]
IdleSlot == [state |-> "idle", who |-> Nobody, request |-> 0, keep |-> TRUE, to |-> "worker",
             trailing |-> 0, answer |-> "write", closeAfter |-> FALSE, response |-> Refusal]

\* nya_system_http_init; a peer's script is what it may come to send.
ServerInit ==
    /\ server = [signalled |-> FALSE, draining |-> FALSE, stopping |-> FALSE, memory |-> "held"]
    /\ pool \in Pools
    /\ conn = [i \in Places |-> NoConnection]
    /\ exchange = [i \in Places |-> IdleSlot]
    /\ queues = [worker |-> <<>>, main |-> <<>>, work |-> 0]
    /\ pass = [at |-> "rest", place |-> 0, left |-> 0, draining |-> FALSE]
    /\ worker = [w \in Workers |-> [at |-> IF w \in pool THEN "wait" ELSE "gone", place |-> 0]]
    /\ main = [at |-> "idle", place |-> 0, left |-> 0, late |-> FALSE]
    /\ peer \in [Peers -> [script : Scripts, state : {"away"}, sent : {0}, shut : {FALSE},
                           unread : {0}, got : {<<>>}]]

Free(i) == conn[i].who = Nobody
Open == {i \in Places : ~ Free(i)}       \* connection_count of them
Buffered(c) == c.read - c.used
LastPieces(p) == {k \in DOMAIN peer[p].script : peer[p].script[k] # Part}

(***************************************************************************)
(* One connection's turn in a pass.  Its steps are functions of a turn:    *)
(* the connection, its slot, the other end, the budget left, whether the   *)
(* connection lives and whether its buffer is to be looked at again.       *)
(***************************************************************************)

\* MUTANT of Flushed: what the host took stays queued.
FlushedAgain(t) ==
    LET takes == IF Len(t.c.owed) < Window - t.p.unread THEN Len(t.c.owed) ELSE Window - t.p.unread
    IN  IF t.c.owed = <<>> THEN t
        ELSE IF t.p.state = "reset" THEN [t EXCEPT !.lives = FALSE]
        ELSE [t EXCEPT !.p.got = @ \o SubSeq(t.c.owed, 1, takes), !.p.unread = @ + takes]

\* _nya_http_flush: what the host takes.  Only a drained queue restarts the clock.
Flushed(t) ==
    LET takes == IF Len(t.c.owed) < Window - t.p.unread THEN Len(t.c.owed) ELSE Window - t.p.unread
    IN  IF t.c.owed = <<>> THEN t
        ELSE IF t.p.state = "reset" THEN [t EXCEPT !.lives = FALSE]
        ELSE [t EXCEPT !.p.got = @ \o SubSeq(t.c.owed, 1, takes),
                       !.p.unread = @ + takes,
                       !.c.owed = SubSeq(@, takes + 1, Len(@)),
                       !.c.aged = @ /\ takes < Len(t.c.owed)]

\* _nya_http_push: behind what is owed already, up to the cap.
Pushed(t, answer) ==
    LET u == Flushed(t) IN
    IF ~ u.lives \/ Len(u.c.owed) = SendCap THEN [u EXCEPT !.lives = FALSE]
    ELSE Flushed([u EXCEPT !.c.owed = Append(@, answer)])

\* _nya_http_refuse; the caller closes.
Refused(t) == [Pushed(t, Refusal) EXCEPT !.lives = FALSE]

\* _nya_http_complete: the answer is queued, unless it was a 101, and the slot
\* handed back.
Completed(t) ==
    LET was101 == t.s.answer = "upgraded"
        u == IF was101 THEN t ELSE Pushed(t, t.s.response)
    IN  [u EXCEPT !.c.aged = FALSE,
                  !.c.closing = @ \/ (~ was101 /\ ~ t.s.keep),
                  !.s = IdleSlot,
                  !.lives = @ /\ (was101 \/ ~ t.s.closeAfter)]

\* _nya_http_receive: the end of the stream is no failure, a full buffer is.
Received(t) ==
    LET room == ReceiveCap - Buffered(t.c)
        waiting == t.p.sent - t.c.read
        n == IF room < waiting THEN room ELSE waiting
    IN  IF t.c.peerClosed THEN t
        ELSE IF room = 0 THEN Refused(t)
        ELSE IF t.p.state = "reset" THEN [t EXCEPT !.lives = FALSE]
        ELSE IF waiting = 0 THEN [t EXCEPT !.c.peerClosed = t.p.shut]
        ELSE [t EXCEPT !.c.read = @ + n, !.c.aged = @ /\ Buffered(t.c) > 0]

\* _nya_http_dispatch: the layers, the router and the handler.
Dispatched(s) == [s EXCEPT !.answer = "write", !.response = s.request]

\* _nya_http_upgrade on slot s of a peer p: the 101 goes straight to the socket,
\* and only into one that takes all of it, with nothing read past the handshake.
Accepts101(s, p) == s.trailing = 0 /\ p.unread < Window /\ p.state = "open"
Refused101(s) == [s EXCEPT !.response = s.request, !.keep = FALSE, !.closeAfter = TRUE]
Sent101(s, p) == [p EXCEPT !.got = Append(@, s.request), !.unread = @ + 1]

\* Without workers the exchange is answered on the spot.
AnsweredHere(t) ==
    IF t.s.to # "upgrade" THEN Completed([t EXCEPT !.s = Dispatched(@)])
    ELSE IF Accepts101(t.s, t.p)
         THEN [t EXCEPT !.s = IdleSlot, !.c.upgraded = TRUE, !.p = Sent101(t.s, @), !.more = FALSE]
         ELSE Completed([t EXCEPT !.s = Refused101(@)])

\* What the parser makes of the buffer: the requests that are whole in it.
Whole(c) == {k \in LastPieces(c.who) : c.used < k /\ k <= c.read}
First(S) == CHOOSE k \in S : \A l \in S : k <= l

\* One round of _nya_http_handle's loop.
HandledOnce(t) ==
    LET script == t.p.script
        k == First(Whole(t.c))
    IN  IF ~ (t.lives /\ t.more /\ t.left > 0 /\ Buffered(t.c) > 0 /\ ~ t.c.closing) THEN t
        ELSE IF server.draining THEN Refused(t)
        ELSE IF Whole(t.c) = {} THEN [t EXCEPT !.more = FALSE]
        ELSE IF script[k].to = "nowhere" THEN Refused(t)
        ELSE LET u == [t EXCEPT !.c.used = k, !.left = @ - 1,
                                !.s = [IdleSlot EXCEPT !.who = t.c.who, !.request = k,
                                                       !.keep = script[k].keep, !.to = script[k].to,
                                                       !.trailing = t.c.read - k]]
             IN  IF Threaded THEN [u EXCEPT !.s.state = "queued", !.more = FALSE]
                 ELSE AnsweredHere(u)

Handled(t) ==
    LET rounds[n \in 0..RequestBudget] == IF n = 0 THEN t ELSE HandledOnce(rounds[n - 1])
    IN  rounds[RequestBudget]

\* MUTANT of Finished: a drain closes nothing.
FinishedClosing(c) == c.owed = <<>> /\ c.closing

\* What it was owed is out, and it is closing or has nothing left to do in a drain.
Finished(c) ==
    /\ c.owed = <<>>
    /\ c.closing \/ (pass.draining /\ ~ c.upgraded /\ Buffered(c) = 0)

\* The end of a turn: the peer's end of the stream, the timeout, the flush, the close.
Ended(t) ==
    LET u == [t EXCEPT !.c.closing = @ \/ (t.c.peerClosed /\ t.left > 0)]
        v == Flushed(u)
    IN  IF ~ t.lives \/ u.s.state # "idle" THEN u
        ELSE IF u.c.aged THEN [u EXCEPT !.lives = FALSE]
        ELSE [v EXCEPT !.lives = @ /\ ~ Finished(v.c)]

Turn(i) ==
    LET t == [c |-> conn[i], s |-> exchange[i], p |-> peer[conn[i].who], left |-> pass.left,
              lives |-> TRUE, more |-> TRUE]
        u == IF t.s.state = "done" THEN Completed(t) ELSE t
        v == IF u.lives THEN Received(u) ELSE u
    IN  Ended(Handled(v))

(***************************************************************************)
(* The pass: _nya_http_pass on the listener's thread, or on the tick's     *)
(* when there are no workers, under table_mutex from accept to rest        *)
(***************************************************************************)

Locked == pass.at \in {"accept", "turns", "push"}

\* What the other end sees of a socket that is closed.
Closed(p) == [p EXCEPT !.state = "ended"]

\* Without workers the tick that ran the pass returns with it.
PassGoes(at, place) ==
    /\ pass' = [pass EXCEPT !.at = at, !.place = place]
    /\ main' = IF Threaded \/ at # "rest" THEN main ELSE [main EXCEPT !.at = "idle"]

NextTurn == IF pass.place < MaxConnections THEN PassGoes("turns", pass.place + 1)
            ELSE PassGoes("rest", 0)

\* _nya_http_shutdown_observe: a signal that was caught begins the drain.
Observes == server' = [server EXCEPT !.draining = @ \/ server.signalled]

\* The drain stops the accepting.
Begins == pass' = [at |-> IF server'.draining THEN "turns" ELSE "accept", place |-> 1,
                   left |-> RequestBudget, draining |-> server'.draining]

\* The listener's loop reads the flag, and ends the thread or goes into a pass.
ListenerLoops ==
    /\ Threaded /\ pass.at = "rest"
    /\ IF server.stopping THEN pass' = [pass EXCEPT !.at = "finished"] /\ UNCHANGED server
       ELSE Observes /\ Begins
    /\ UNCHANGED <<pool, conn, exchange, queues, worker, main, peer>>

\* _nya_http_accept: the first free place, or a close.
Accepts(p) ==
    /\ pass.at = "accept" /\ peer[p].state = "waiting"
    /\ IF Open = Places
       THEN peer' = [peer EXCEPT ![p] = Closed(@)] /\ UNCHANGED conn
       ELSE /\ conn' = [conn EXCEPT ![First(Places \ Open)] = [NoConnection EXCEPT !.who = p]]
            /\ peer' = [peer EXCEPT ![p].state = "open"]
    /\ UNCHANGED <<server, pool, exchange, queues, pass, worker, main>>

\* Nobody waits, the budget of accepts is spent, or an accept failed.
AcceptsNoMore ==
    /\ pass.at = "accept" /\ PassGoes("turns", 1)
    /\ UNCHANGED <<server, pool, conn, exchange, queues, worker, peer>>

\* MUTANT of Ours: the pass serves a connection whose exchange is in other hands.
OursAlways(i) == ~ Free(i) /\ ~ conn[i].upgraded

\* A connection that is open, no WebSocket, and in no other thread's exchange.
Ours(i) == ~ Free(i) /\ ~ conn[i].upgraded /\ exchange[i].state \in {"idle", "done"}

\* Without workers the WebSockets are drained here as well.
PassesOver ==
    /\ pass.at = "turns" /\ ~ Ours(pass.place)
    /\ Threaded \/ Free(pass.place)
    /\ NextTurn
    /\ UNCHANGED <<server, pool, conn, exchange, queues, worker, peer>>

\* A connection's turn; an exchange it filled is published here and queued next.
TakesTurn ==
    LET i == pass.place
        t == Turn(i)
    IN
    /\ pass.at = "turns" /\ Ours(i)
    /\ conn' = [conn EXCEPT ![i] = IF t.lives THEN t.c ELSE NoConnection]
    /\ exchange' = [exchange EXCEPT ![i] = t.s]
    /\ peer' = [peer EXCEPT ![conn[i].who] = IF t.lives THEN t.p ELSE Closed(t.p)]
    /\ IF t.s.state = "queued"
       THEN pass' = [pass EXCEPT !.at = "push", !.left = t.left] /\ UNCHANGED main
       ELSE \/ /\ pass.place < MaxConnections
               /\ pass' = [pass EXCEPT !.place = @ + 1, !.left = t.left] /\ UNCHANGED main
            \/ /\ pass.place = MaxConnections /\ PassGoes("rest", 0)
    /\ UNCHANGED <<server, pool, queues, worker>>

\* Without workers the pass drains the WebSockets: one lives on or ends.
TicksSocket(lives) ==
    LET i == pass.place IN
    /\ pass.at = "turns" /\ ~ Threaded /\ conn[i].upgraded
    /\ conn' = IF lives THEN conn ELSE [conn EXCEPT ![i] = NoConnection]
    /\ peer' = IF lives THEN peer ELSE [peer EXCEPT ![conn[i].who] = Closed(@)]
    /\ NextTurn
    /\ UNCHANGED <<server, pool, exchange, queues, worker>>

\* MUTANT of Pushes: a worker is only woken for the first of a queue.
PushesFirst ==
    LET i == pass.place
        onMain == exchange[i].to \in {"main", "upgrade"}
    IN
    /\ pass.at = "push"
    /\ queues' = IF onMain THEN [queues EXCEPT !.main = Append(@, i)]
                 ELSE [queues EXCEPT !.worker = Append(@, i),
                                     !.work = IF queues.worker = <<>> THEN @ + 1 ELSE @]
    /\ NextTurn
    /\ UNCHANGED <<server, pool, conn, exchange, worker, peer>>

\* _nya_http_queue: to the tick or to a worker, which the semaphore wakes.
Pushes ==
    LET i == pass.place
        onMain == exchange[i].to \in {"main", "upgrade"}
    IN
    /\ pass.at = "push"
    /\ queues' = IF onMain THEN [queues EXCEPT !.main = Append(@, i)]
                 ELSE [queues EXCEPT !.worker = Append(@, i), !.work = @ + 1]
    /\ NextTurn
    /\ UNCHANGED <<server, pool, conn, exchange, worker, peer>>

PassStep ==
    \/ ListenerLoops \/ AcceptsNoMore \/ PassesOver \/ TakesTurn \/ Pushes
    \/ \E p \in Peers : Accepts(p)
    \/ \E lives \in BOOLEAN : TicksSocket(lives)

(***************************************************************************)
(* A worker: _nya_http_worker_thread                                       *)
(***************************************************************************)

\* Before each wait on the semaphore, and after one that timed out, the flag.
Loops == IF server.stopping THEN "gone" ELSE "wait"

\* A post lets one worker through, to an exchange if one is left.
WorkerTakes(w) ==
    /\ worker[w].at = "wait" /\ queues.work > 0
    /\ IF queues.worker = <<>>
       THEN /\ queues' = [queues EXCEPT !.work = @ - 1]
            /\ worker' = [worker EXCEPT ![w].at = Loops]
            /\ UNCHANGED exchange
       ELSE /\ queues' = [queues EXCEPT !.work = @ - 1, !.worker = Tail(@)]
            /\ worker' = [worker EXCEPT ![w] = [at |-> "inside", place |-> Head(queues.worker)]]
            /\ exchange' = [exchange EXCEPT ![Head(queues.worker)].state = "running"]
    /\ UNCHANGED <<server, pool, conn, pass, main, peer>>

WorkerTimesOut(w) ==
    /\ worker[w].at = "wait" /\ queues.work = 0 /\ server.stopping
    /\ worker' = [worker EXCEPT ![w].at = Loops]
    /\ UNCHANGED <<server, pool, conn, exchange, queues, pass, main, peer>>

HandlerReturns(w) ==
    LET i == worker[w].place IN
    /\ worker[w].at = "inside"
    /\ exchange' = [exchange EXCEPT ![i] = [Dispatched(@) EXCEPT !.state = "done"]]
    /\ worker' = [worker EXCEPT ![w] = [at |-> Loops, place |-> 0]]
    /\ UNCHANGED <<server, pool, conn, queues, pass, main, peer>>

\* A handler that never returns.
Hangs(w) ==
    /\ worker[w].at = "inside"
    /\ worker' = [worker EXCEPT ![w].at = "stuck"]
    /\ UNCHANGED <<server, pool, conn, exchange, queues, pass, main, peer>>

WorkerStep(w) == WorkerTakes(w) \/ WorkerTimesOut(w) \/ HandlerReturns(w)

(***************************************************************************)
(* The thread that ticks: nya_system_http_tick, shutdown and deinit        *)
(***************************************************************************)

Upgraded == {i \in Places : conn[i].upgraded}

\* The signal is observed first; then the tick's share, if it has any, or the pass.
Tick ==
    /\ main.at = "idle"
    /\ Observes
    /\ IF Threaded
       THEN /\ server' # server \/ queues.main # <<>> \/ Upgraded # {}
            /\ main' = [main EXCEPT !.at = "drain", !.left = RequestBudget] /\ UNCHANGED pass
       ELSE Begins /\ main' = [main EXCEPT !.at = "pass"]
    /\ UNCHANGED <<pool, conn, exchange, queues, worker, peer>>

\* _nya_http_main_drain: the exchanges of the main thread, up to the budget.
TakesMain ==
    /\ main.at = "drain"
    /\ IF queues.main = <<>> \/ main.left = 0
       THEN main' = [main EXCEPT !.at = "sockets"] /\ UNCHANGED <<exchange, queues>>
       ELSE /\ main' = [main EXCEPT !.at = "serve", !.place = Head(queues.main), !.left = @ - 1]
            /\ queues' = [queues EXCEPT !.main = Tail(@)]
            /\ exchange' = [exchange EXCEPT ![Head(queues.main)].state = "running"]
    /\ UNCHANGED <<server, pool, conn, pass, worker, peer>>

MainHandlerReturns ==
    LET i == main.place IN
    /\ main.at = "serve" /\ exchange[i].to = "main"
    /\ exchange' = [exchange EXCEPT ![i] = [Dispatched(@) EXCEPT !.state = "done"]]
    /\ main' = [main EXCEPT !.at = "drain"]
    /\ UNCHANGED <<server, pool, conn, queues, pass, worker, peer>>

\* _nya_http_upgrade: the 101 goes out, or a refusal is left to the listener.
Upgrades ==
    LET i == main.place
        p == conn[i].who
    IN
    /\ main.at = "serve" /\ exchange[i].to = "upgrade"
    /\ IF Accepts101(exchange[i], peer[p])
       THEN /\ peer' = [peer EXCEPT ![p] = Sent101(exchange[i], @)]
            /\ main' = [main EXCEPT !.at = "flag"]
            /\ UNCHANGED exchange
       ELSE /\ exchange' = [exchange EXCEPT ![i] = [Refused101(@) EXCEPT !.state = "done"]]
            /\ main' = [main EXCEPT !.at = "drain"]
            /\ UNCHANGED peer
    /\ UNCHANGED <<server, pool, conn, queues, pass, worker>>

\* ... and the connection is flagged under the lock before the slot goes back.
FlagsUpgrade ==
    LET i == main.place IN
    /\ main.at = "flag" /\ ~ Locked
    /\ conn' = [conn EXCEPT ![i].upgraded = TRUE]
    /\ exchange' = [exchange EXCEPT ![i].answer = "upgraded", ![i].state = "done"]
    /\ main' = [main EXCEPT !.at = "drain"]
    /\ UNCHANGED <<server, pool, queues, pass, worker, peer>>

\* _nya_http_websockets_drain, under the lock: some of them have ended.
DrainsSockets(ended) ==
    /\ main.at = "sockets" /\ ~ Locked
    /\ conn' = [i \in Places |-> IF i \in ended THEN NoConnection ELSE conn[i]]
    /\ peer' = [p \in Peers |-> IF \E i \in ended : conn[i].who = p THEN Closed(peer[p])
                                ELSE peer[p]]
    /\ main' = [main EXCEPT !.at = "idle"]
    /\ UNCHANGED <<server, pool, exchange, queues, pass, worker>>

\* nya_http_server_shutdown.
Shutdown ==
    /\ main.at = "idle" /\ ~ server.draining
    /\ server' = [server EXCEPT !.draining = TRUE]
    /\ UNCHANGED <<pool, conn, exchange, queues, pass, worker, main, peer>>

\* nya_system_http_deinit, drained or not.
Stops ==
    /\ main.at = "idle"
    /\ server' = [server EXCEPT !.stopping = TRUE]
    /\ main' = [main EXCEPT !.at = "listener"]
    /\ UNCHANGED <<pool, conn, exchange, queues, pass, worker, peer>>

\* The listener joined, every worker is woken.
JoinsListener ==
    /\ main.at = "listener" /\ (Threaded => pass.at = "finished")
    /\ queues' = [queues EXCEPT !.work = @ + Cardinality(pool)]
    /\ main' = [main EXCEPT !.at = "workers"]
    /\ UNCHANGED <<server, pool, conn, exchange, pass, worker, peer>>

\* Joined, or abandoned once the grace is over: then the memory is left to it.
Stuck == {w \in pool : worker[w].at # "gone"}

\* NYA_HTTP_SHUTDOWN_GRACE_MS pass.
GraceEnds ==
    /\ main.at = "workers" /\ Stuck # {} /\ ~ main.late
    /\ main' = [main EXCEPT !.late = TRUE]
    /\ UNCHANGED <<server, pool, conn, exchange, queues, pass, worker, peer>>

\* _nya_http_workers_join returned: every socket is closed, the memory freed.
CloseAll ==
    /\ main.at = "workers" /\ (Stuck # {} => main.late)
    /\ conn' = [i \in Places |-> NoConnection]
    /\ peer' = [p \in Peers |-> IF peer[p].state \in {"waiting", "open", "reset"}
                                THEN Closed(peer[p]) ELSE peer[p]]
    /\ server' = [server EXCEPT !.memory = IF Stuck = {} THEN "freed" ELSE "leaked"]
    /\ main' = [main EXCEPT !.at = "down"]
    /\ UNCHANGED <<pool, exchange, queues, pass, worker>>

Down == main.at = "down" /\ UNCHANGED serverVars

DeinitStep == JoinsListener \/ GraceEnds \/ CloseAll
NeedsLock == FlagsUpgrade \/ \E ended \in SUBSET Upgraded : DrainsSockets(ended)
MainStep == Tick \/ TakesMain \/ MainHandlerReturns \/ Upgrades

(***************************************************************************)
(* The peers, the clock and the signal                                     *)
(***************************************************************************)

Connects(p) ==
    /\ peer[p].state = "away" /\ server.memory = "held"
    /\ peer' = [peer EXCEPT ![p].state = "waiting"]

Sends(p) ==
    /\ peer[p].state = "open" /\ peer[p].sent < Len(peer[p].script)
    /\ peer' = [peer EXCEPT ![p].sent = @ + 1]

Shuts(p) ==
    /\ peer[p].state = "open" /\ ~ peer[p].shut /\ peer[p].sent = Len(peer[p].script)
    /\ peer' = [peer EXCEPT ![p].shut = TRUE]

Breaks(p) ==
    /\ peer[p].state = "open"
    /\ peer' = [peer EXCEPT ![p].state = "reset"]

Reads(p) ==
    /\ peer[p].unread > 0
    /\ peer' = [peer EXCEPT ![p].unread = 0]

PeerStep(p) == /\ Connects(p) \/ Sends(p) \/ Shuts(p) \/ Breaks(p) \/ Reads(p)
               /\ UNCHANGED <<server, pool, conn, exchange, queues, pass, worker, main>>

\* NYA_HTTP_IDLE_TIMEOUT_MS since a connection's clock was last restarted.
Ages(i) ==
    /\ ~ Free(i) /\ ~ conn[i].aged /\ ~ conn[i].upgraded
    /\ conn' = [conn EXCEPT ![i].aged = TRUE]
    /\ UNCHANGED <<server, pool, exchange, queues, pass, worker, main, peer>>

\* _nya_http_on_shutdown_signal.
Signal ==
    /\ ~ server.signalled /\ server.memory = "held"
    /\ server' = [server EXCEPT !.signalled = TRUE]
    /\ UNCHANGED <<pool, conn, exchange, queues, pass, worker, main, peer>>

ServerNext ==
    \/ PassStep \/ MainStep \/ NeedsLock \/ Shutdown \/ Stops \/ DeinitStep \/ Down
    \/ \E w \in Workers : WorkerStep(w) \/ Hangs(w)
    \/ \E p \in Peers : PeerStep(p)
    \/ Signal
    \/ \E i \in Places : Ages(i)

ServerSpec == ServerInit /\ [][ServerNext]_serverVars

(***************************************************************************)
(* Fairness: the threads run, table_mutex comes to whoever asks again and  *)
(* again (the listener sleeps without it), handlers return unless they     *)
(* hang, the tick goes on being called, and the peers read.  A pass that   *)
(* may go on does: weak fairness of PassStep, its enabling condition       *)
(* written out, for it moves `pass` and nothing else does meanwhile.       *)
(***************************************************************************)
MayPass == IF Threaded THEN pass.at # "finished" ELSE main.at = "pass"

ServerFair ==
    /\ []<>(~ MayPass) \/ []<><<TRUE>>_pass
    /\ WF_serverVars(MainStep) /\ WF_serverVars(DeinitStep) /\ SF_serverVars(NeedsLock)
    /\ \A w \in Workers : WF_serverVars(WorkerStep(w))
    /\ \A p \in Peers : WF_peer(Reads(p))

ServerFairSpec == ServerSpec /\ ServerFair

(***************************************************************************)
(* Properties                                                              *)
(***************************************************************************)

\* The values the variables take: queues within their caps, a place for whoever has one.
ServerTypeOK ==
    /\ server \in [signalled : BOOLEAN, draining : BOOLEAN, stopping : BOOLEAN,
                   memory : {"held", "freed", "leaked"}]
    /\ pool \in Pools
    /\ \A i \in Places :
           /\ conn[i].who \in Peers \cup {Nobody}
           /\ Buffered(conn[i]) \in 0..ReceiveCap /\ Len(conn[i].owed) <= SendCap
           /\ exchange[i].state \in {"idle", "queued", "running", "done"}
    /\ queues.worker \in Seq(Places) /\ queues.main \in Seq(Places) /\ queues.work \in Nat
    /\ pass \in [at : {"rest", "accept", "turns", "push", "finished"}, place : Places \cup {0},
                 left : 0..RequestBudget, draining : BOOLEAN]
    /\ worker \in [Workers -> [at : {"wait", "inside", "stuck", "gone"}, place : Places \cup {0}]]
    /\ main \in [at : {"idle", "pass", "drain", "serve", "flag", "sockets", "listener", "workers",
                       "down"}, place : Places \cup {0}, left : 0..RequestBudget, late : BOOLEAN]
    /\ \A p \in Peers :
           /\ peer[p].state \in {"away", "waiting", "open", "reset", "ended"}
           /\ peer[p].sent \in 0..Len(peer[p].script) /\ peer[p].unread \in 0..Window

IsHandshake(p, k) == k # Refusal /\ peer[p].script[k].to = "upgrade"

\* What p heard before its j-th answer, and whether that was all it had to hear first.
Earlier(p, j) == {peer[p].got[i] : i \in 1..j - 1}
InTurn(p, j) == \A l \in LastPieces(p) : l < peer[p].got[j] => l \in Earlier(p, j)

\* Every peer hears answers to its own requests only, none twice and each after those
\* to all its requests before that one, and nothing after a refusal: whoever ran the
\* exchange, and whatever the slot and the connection were used for before.  Only a
\* 101 may come too early (HandshakeInOrder), and where there are workers it is
\* then the last thing heard.
AnswersInOrder ==
    \A p \in Peers : \A j \in DOMAIN peer[p].got :
        LET k == peer[p].got[j] IN
        IF k = Refusal THEN j = Len(peer[p].got)
        ELSE /\ k \in LastPieces(p) \ Earlier(p, j)
             /\ IF IsHandshake(p, k) THEN Threaded => j = Len(peer[p].got) ELSE InTurn(p, j)

\* "A connection has at most one exchange in flight and its next request is not
\* parsed until the last one is written" (http.md), so the 101, which goes straight
\* to the socket, comes after the answers to every request before the handshake.
HandshakeInOrder ==
    \A p \in Peers : \A j \in DOMAIN peer[p].got : IsHandshake(p, peer[p].got[j]) => InTurn(p, j)

Queued(i) == {j \in DOMAIN queues.worker : queues.worker[j] = i}
Waiting(i) == {j \in DOMAIN queues.main : queues.main[j] = i}
Inside(i) == {w \in Workers : worker[w].at \in {"inside", "stuck"} /\ worker[w].place = i}
OnMain(i) == main.at \in {"serve", "flag"} /\ main.place = i
Hands(i) == Cardinality(Queued(i)) + Cardinality(Waiting(i)) + Cardinality(Inside(i))
            + (IF OnMain(i) THEN 1 ELSE 0)

\* An exchange that left the listener is in one pair of hands, in one queue or
\* inside one handler, the connection it came from waits for it, and the memory
\* of both is given back only when no thread of the server's runs.
ExchangeOwned ==
    /\ \A i \in Places :
           LET moving == pass.at = "push" /\ pass.place = i IN
           /\ exchange[i].state = "queued" <=> (moving \/ Queued(i) \cup Waiting(i) # {})
           /\ exchange[i].state = "running" <=> (Inside(i) # {} \/ OnMain(i))
           /\ Hands(i) <= 1
           /\ exchange[i].state \in {"queued", "running"} /\ main.at # "down"
                => conn[i].who = exchange[i].who
    /\ server.memory = "freed" =>
           (\A w \in pool : worker[w].at = "gone") /\ (Threaded => pass.at = "finished")

\* "Every whole request the peer sent before its end was answered above, so what is
\* left can never complete" (http_server.c): a connection is not given up while a
\* request is whole in its buffer.
PipelineServed ==
    \A i \in Places :
        ~ Free(i) /\ conn[i].peerClosed /\ conn[i].closing => Whole(conn[i]) = {}

\* In a handler that never returns, or left where every worker is.
Hung(i) ==
    \/ \E w \in Workers : worker[w].at = "stuck" /\ worker[w].place = i
    \/ Threaded /\ \A w \in pool : worker[w].at = "stuck"

\* No request is forgotten: a peer whose requests have all been sent has the answer
\* to every one in the end, unless its connection is closed or became a WebSocket.
RequestsAnswered ==
    \A p \in Peers :
        (peer[p].state = "open" /\ peer[p].sent = Len(peer[p].script)) ~>
            \/ peer[p].state # "open"
            \/ \A k \in LastPieces(p) : \E j \in DOMAIN peer[p].got : peer[p].got[j] = k
            \/ \E i \in Places : conn[i].who = p /\ (conn[i].upgraded \/ Hung(i))

\* A shutdown ends.  A drain, before its deadline and with no timeout: every
\* connection that is no WebSocket and in no hung handler is finished and closed.
\* nya_system_http_deinit, whatever its workers are doing.
ShutdownEnds ==
    /\ server.draining ~> \A i \in Places : Free(i) \/ conn[i].upgraded \/ Hung(i)
    /\ server.stopping ~> server.memory # "held"

=============================================================================
