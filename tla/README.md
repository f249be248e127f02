# nyangine: a verification project

TLA+ models of the parts of the nyangine engine (C, `src/src/`) whose correctness rests on interleavings,
crashes, timeouts and retries, with TLC runs on small instances and TLAPS proofs for all instances.
Paths below are relative to `src/src/`. `PROJECT.json` maps every definition to the lines it models.

Each model keeps the control of the code (every guard, early return, error path and their order) and
abstracts its data: a payload is a model value, a row a record, a time a small number.

## 1. Inventory

nyangine is a game engine and application framework in three layers (`docs/architecture.md`):
`nyangine-std` (base library, operating system, platform), `nyangine-core` (the engine's systems, database,
network, HTTP server, accounts) and `nyangine-ui`, plus plugins, a build tool, an editor and a game.
Systems are initialised and torn down in order by one main thread; concurrency comes from four places: the
job pool's threads, the durable queue's worker threads and processes, the HTTP server's threads, and the
network.

| component | state it keeps | operations | interacts with | what is hard | what makes it correct |
|---|---|---|---|---|---|
| durable queue `db/db_jobs.c` | one SQL table of jobs | enqueue, claim, complete, fail, sweep | worker pool; other processes on the file | calls of several statements interleave; leases run out; crashes | one runner per job, tombstones stay, one active job per key, schedules never end or burst |
| cron `db/db_jobs.c` (`nya_cron_*`) | none (masks) | parse, next | durable queue | boundaries of minutes, days, both day fields | the answer is the earliest firing |
| worker pool `db/db_jobworker.c` | threads, stop flag, wake semaphore | start, run, dispatch, resolve, stop | durable queue | stop against a claim in progress, partial start, lock timeouts | nothing freed in use, the drain is complete, stop returns |
| job pool `core/core_job.c` | heap, slots, count, scheduler thread | submit, is_done, wait, init, deinit | task groups, event bus | two locks, jobs between heap and slot, announcements outside the locks | done means returned, slots pinned, every job completes, deinit returns |
| task groups `core/core_taskgroup.c` | tasks, first failure, cancel flag | begin, spawn, end, cancel | job pool | nested joins, tasks failing at once | nothing outlives the join, the first failure is reported, joins end |
| HTTP idempotency `http/http_idempotency.c` | table of keys, SQL rows, chain lock | lookup, reserve, settle, durable chain | HTTP server threads, database | duplicates in flight, eviction, restart, refused commit | one execution per key and TTL, the right answer replayed, answers are true |
| reliable UDP `net/net_udp.c` | peers, windows, reliable queues | connect, send, receive, update | replication | loss, duplication, reordering, wrap-around | once and in order, no delivery after disconnect |
| replication `replicate/*` | two rings of snapshots, the replica map; two rings of commands, the server's queue and allowance | capture, encode, acknowledge, decode, apply, sweep; sample, predict, send, check, apply, reconcile | transport, entities | datagrams lost, repeated, late; rings that go round; slots of entities used again; clocks that drift | every delta is readable and means what the server meant; one replica per entity; the player is where the server's word and the commands since put him; a command counts once and an honest player is never kicked |
| circuit breaker `base_circuit.c` | an entry per dependency: state, counters, probes, cooldown | allow, record, state, destroy | callers whose calls overlap | answers in another state than the question, eviction from a full table | a tripped key is left alone, probes are bounded and never leaked, a recovered key heals |
| rate limiter `base_rate.c` | a token bucket per key and the server's wait | take, told, observed, destroy | callers, servers' replies | replies out of order, eviction | never over budget, nothing goes in a server's wait |
| outbound requests `curl/request.c` | attempt, sleep, last answer | perform | limiter, breaker, a server | lost answers, retries, waits past one's patience | acts at most once, every attempt is gated and reported, every call ends |
| supervisor, reconnect `base/*` | counters and clocks | restart, wait | callers | budgets across restarts | bounded restarts |
| HTTP server `http/http_server.c` | connections, a slot for each, two queues, the shutdown's flags | pass (accept, receive, answer, flush, close), worker, tick, upgrade, shutdown, deinit | layers and handlers, WebSockets, the main loop | exchanges handed between threads on one atomic, pipelining, half-closed and slow peers, a drain or a deinit with handlers running | answers in order, an exchange in one pair of hands, no request forgotten, shutdowns end, nothing freed in use |
| WebSocket `http/http_websocket*.c` | sockets, frames | upgrade, tick, close | HTTP server | closing handshake, fragments | no message lost or mixed |
| accounts `accounts/*` | users, sessions, codes, throttle | issue, validate, rotate, revoke, sweep; consume | database, HTTP | calls of several statements that stop half-way, dates written late | what ended stays ended, what is used lives, the number is bounded, housekeeping spares the living; single use |
| event bus `core/core_event.c` | a queue, lists of hooks per type | dispatch, poll, register, unregister | every system; the job pool's thread | lists that change while they are walked, walks inside walks, the queue filled while it is drained | an event is polled once and in turn, every hook hears it, a one-shot once |
| systems, entities `core/*` | passes, handles | create, destroy | everything | mutation during iteration, stale handles | no stale handle resolves |
| files and saves `base_file.c`, `core_save.c` | files, temporaries, the name counter | atomic write, read | settings | a crash or a power cut between steps, two writers, leftovers | old or new, never torn; what was reported stays; no litter |
| caches, scopes, undo, assets, plugins | tables | see sources | main thread | staleness, order of cleanup | see plan |
| renderer, ui, audio, physics, nn, math, crypto, serde, platform, plugins, build, editor, game | frame, device or text data | — | — | numeric or foreign | not modelled (reasons in `PROJECT.json`) |

The hazards, each at its line and with the properties that cover it, are in `PROJECT.json`.

## 2. Plan

Order of work, most important behaviour first. Marked: done.

1. **done** `DbJobs` (queue); `Cron` against the header's reading of a spec, its theorem in `PartsProofs`.
2. **done** `DbJobWorker`: composes the pool with `DbJobs` and is proved to implement it; the theorems of both in `DbJobWorkerProofs`.
3. **done** `JobSystem`; `TaskGroup` composes groups with the pool; the theorems of both in `TaskGroupProofs`.
4. **done** `HttpIdempotency`, `HttpIdempotencyProofs`.
5. **done** `NetReliable`: an established connection of `net_udp.c` over a network that loses, duplicates and
   reorders, with identifiers scaled down (`% 2^w`); it implements an abstract ordered exactly-once channel,
   `NetChannel`, which `NetReliableProofs` proves. The handshake and the generations of peers are left.
6. **done** `Circuit`, `Rate`, and `Outbound`, which composes them; `OutboundProofs`.
7. **done** `AtomicFile` (crashes between steps) and `Sessions`; their theorems in `PartsProofs`.
8. **done** `Snapshots` (deltas against acknowledged baselines, replicas), and `Prediction` (a player's
   commands); the theorems of both in `ReplicationProofs`.
9. **done** `HttpServer` (hand-over between threads, shutdown), `HttpServerProofs`.
10. **done** `EventBus` (lists that change while they are walked); its theorems in `PartsProofs`.
11. `Supervisor`, `Reconnect`, `Undo` (the ring), single-use codes, `Entities` (generational handles), WebSocket
   frames.

Abstract specifications: the queue for the worker pool (`ImplementsQueue`); an exactly-once FIFO for the UDP
channel (`InOrderOnce`).

The portfolio is kept to about a dozen runs, each asking one question of one component; a new component
replaces or joins a run rather than adding variants.

## 3. The modules and the code

| module | models | extends |
|---|---|---|
| `DbJobs` | `db/db_jobs.c` | — |
| `Cron` | `nya_cron_parse`, `nya_cron_next` | — |
| `DbJobWorker` | `db/db_jobworker.c` | `DbJobs` |
| `JobSystem` | `core/core_job.c` | — |
| `TaskGroup` | `core/core_taskgroup.c` | `JobSystem` |
| `HttpIdempotency` | `http/http_idempotency.c` | — |
| `HttpServer` | `http/http_server.c` | — |
| `NetChannel` | what `net_types.h` promises of a reliable channel | — |
| `NetReliable` | an established connection of `net/net_udp.c` | `NetChannel` by INSTANCE |
| `Circuit` | `base_circuit.c` | — |
| `Rate` | `base_rate.c` | — |
| `Outbound` | `nya_request_perform` of `nyangine-plugins/curl/request.c` | `Circuit`, `Rate` |
| `AtomicFile` | `nya_file_write_atomic`, `nya_filesystem_replace` | — |
| `Sessions` | `accounts/accounts_session.c` and its two callers in `accounts_user.c` | — |
| `Snapshots` | `replicate_snapshot.c`, and what `replicate_server.c` and `replicate_client.c` do with snapshots | — |
| `Prediction` | what the same two do with commands | — |
| `EventBus` | `core/core_event.c` without the conversion of input | — |
| `HttpIdempotencyProofs`, `HttpServerProofs`, `NetReliableProofs` | theorems | the module of that name |
| `DbJobWorkerProofs` | theorems about `DbJobs` and `DbJobWorker` | `DbJobWorker` |
| `TaskGroupProofs` | theorems about `JobSystem` and `TaskGroup` | `TaskGroup` |
| `OutboundProofs` | theorems about `Rate`, `Circuit` and `Outbound` | `Outbound` |
| `PartsProofs` | theorems about `AtomicFile`, `Sessions`, `EventBus` and `Cron` | these four |
| `ReplicationProofs` | theorems about `Snapshots` and `Prediction` | both |
| `MCThreads` | one run over `HttpServer` and `JobSystem` | both |
| `MCOutbound` | one run over `Circuit`, `Rate`, `Outbound` | `Outbound` |
| `MCParts` | one run over `Cron`, `AtomicFile`, `Sessions`, `Snapshots`, `Prediction`, `EventBus` | these six |
| other `MC*` | instances for TLC: option sets, plans, symmetry | the module of that name |

Definitions called `... MUTANT of X` are plausible mistakes in `X`; replacing `X` by one makes the property
it is listed for fail, which shows that the property depends on that code.

**`DbJobs`.** `jobs` is the table; one SQL statement is one atomic step. A call that issues several
statements keeps what it read in `op[c]` (its program counter, job, saved schedule and outcome), so calls of
several connections interleave statement by statement. `now` is the one wall clock. Actions: `EnqueueNew`,
`EnqueueConflict`, `Lookup`, `EnqueueReturn`; `ClaimReap`, `ClaimTake`, `ClaimNothing`; `HandlerReturns`;
`CompleteRead/Write/Unschedulable`, `FailRead/Write`, `NotInFlight`; `ReapExpired`; `TimeoutRetry`,
`TimeoutGiveUp` (SQLite's busy timeout); `Crash` of any set of clients, which loses `op` and keeps the table.
`HonestLease` is the header's contract ("a lease longer than the slowest honest job", `db_jobs.h:55`): the clock does not pass the
lease of a live holder. A cron spec is abstracted to the distance between firings, or `Unsatisfiable`.

**`Cron`.** Fields are lists of terms (star, value, range, step), masks are sets; the search walks days as
the loop does, over a calendar of 4- and 3-day months, 3-day weeks, 3 hours of 4 minutes of 2 ticks. `Fires`
reads a spec minute by minute, independently of the parser and of the search.

**`DbJobWorker`.** `phase` and `thread[w]` are where the pool's owner and each thread are; `wake` is the
semaphore. Claims and resolves are the queue's own actions, guarded by the loop. `StartFails` covers every
error path of the start after some threads already run. A second process is another start after
`ProcessDies`.

**`JobSystem`.** `queue` is the heap, `slots` the records threads hold addresses of, `thread[s]` the host
thread, `sched` the scheduler's place in its pass with the lists it announces after unlocking, `said` what
listeners have heard. The scheduler's pass is one action per step between which another thread can see a
difference: `ReadFlag`, `Reap`, `StartJob`, `Release`, `AnnounceCompleted`, `AnnounceStarted`, `Sleep`. Submit
and is_done wait for the locks (`Unlocked`). A thread the host refuses to start is left out: the code asserts.

**`TaskGroup`.** `Begin`, `Spawn`, `End`, `Join` (one poll per task in order), `EndReturns`, `Cancel`, and a
task's body in four steps, the compare-and-exchange on `first_failed_slot` its own. Owners are the main thread
or a running job, so groups nest.

**`HttpIdempotency`.** `table` and `count` are the fixed array, `rows` the SQL table, `txn` the writes inside
the open savepoint, `chainLock` the lock held across a durable chain. A request is one exchange, stamped when
it is dispatched; every age is judged by that stamp, as the code judges it. What one mutex section does is one
action: `FindsEntry`, `ReserveFree`, `ReserveEvicting`, `PassThrough`, `Settle`. The durable path is
`TakeChainLock`, `StoreFails`/`FindsRow`/`OpenSavepoint`, `HandleDurable`, `Commit`/`Unwind`. `Crash` clears
the memory and keeps the rows, which is also what `nya_http_idempotency_reset` does. A handler's effect is one
write. `applied` and `forgotten` are history.

**`HttpServer`.** `conn` and `exchange` are the tables of connections and slots, `queues` the two queues with the semaphore,
`pass` where the listener (or, without workers, the tick) stands in its pass, `worker` and `main` where the other threads
do, `peer` the other ends of the sockets: what they sent, whether they shut their half, what they heard (`got`) and how
much of it they have yet to read (`unread`, at most a `Window`). A request is a piece, or two when it arrives in parts; an
answer is known by the request it answers. One connection's turn under `table_mutex` is one action, `TakesTurn`, which
composes what the code calls on it in order: `Completed`, `Received`, `Handled` (its loop is a fold over the budget),
`Ended`. What other threads can see in between is a step of its own: the slot is published (`TakesTurn`) before its index
is queued (`Pushes`), a 101 is sent (`Upgrades`) before the connection is flagged under the lock (`FlagsUpgrade`).
`Ages` is the idle timeout coming due since a connection's clock was last restarted. The main thread, once it is in
`nya_system_http_deinit`, joins the listener, waits for the workers until the grace is over, and closes.

**`EventBus`.** `hooks` are the two maps of lists, `queue` and `readIndex` the queue. `walks` are the calls of
`_nya_event_notify_listeners` the main thread is in, innermost last: a handler is where the application registers,
unregisters or dispatches, and a dispatch is a walk inside. A hook's turn is `Declines` or `Enters`, then `HandlerReturns`
or `Handles`. `DispatchElsewhere` is another thread's push. `history` keeps what was dispatched and polled, which
registrations are due, and which one-shots were taken out twice; `owed` and `moved` of a walk, which hooks it has
yet to reach and whether the list moved under its place.

**`NetReliable`.** `conn[e]` is what end `e` keeps of its peer: the windows of packets and of reliable ids, the
packets not acknowledged, the reassembly slots with their account, the delivery point. `conn[e].wire` holds every packet end `e` sent: receiving one leaves it
there, so that loss (never received), duplication and any order need no actions of their own. `Send`, `Flush`,
`Receive`, `Update` (resend, keep-alive), `TimeOut`, `Disconnect` are the calls of `net_transport.h`; `HandlePacket` is the whole
of `_nya_net_udp_handle_packet`, message after message. `Starts` gives the state of an established connection
after some number of exchanges, so that the wrap of ids and packet numbers is near.

**`Circuit`, `Rate`, `Outbound`.** `entries` and `buckets` are the tables, functions on the keys they hold; a
table is looked up in `Tables(k)` and `Lookup(k)`, which add or evict. A cooldown is an age that stops at its
length, a wait a number that runs down, a bucket a number of ticks of refill. `flight` counts the calls a
breaker let go and that will report, by what they were when they left (`plain`, `probe`) or what they became
(`late`, when their half-open period ended). In `Outbound` the calls are one thread's, with the place in the
loop of `nya_request_perform` in `pc` and the rest of a sleep in `nap`; a server acts on an exchange or does not, independently of
whether its answer arrives.

**`AtomicFile`.** A file stands for its bytes by the serial of the replacement that wrote it, and is whole or
not, synced or not. `bound` is the sequence of files the target was bound to since its directory last reached
the disk: readers see the last, a power cut keeps any one of them. `Killed` loses the threads and the counter,
`PowerLoss` also whatever was not synced. Every step may fail instead (`Fails`), which leads to the clean-up.

**`Sessions`.** The rows of one user; `work` is the call that still has statements to run and for which rows,
so a call may stop after any of them (`Abandons`). A token is a row's id and a turn: the current turn is
accepted, the one before it is the retired one. The order in which a call writes its rows is left open.

**`Snapshots`.** `world` is the server's entity table: a slot's generation, a value for every replicated field, and
whether it lives. `told` and `decoded` are the rings of the server and of the client, addressed by tick;
`acknowledged` and `shown` the newest tick either end knows of the other. `wire` and `acks` hold what was sent and
would not be ignored: leaving it there is delay and repetition, never taking it loss, and what is older than
what the receiver has is dropped, since the code ignores it. `SendSnapshot` is capture, relevance (any choice that
keeps the player's own entity), encoding and the ring; `SkipSnapshot` is a spent bandwidth budget. `TakeSnapshot` is
decoding, `Applied` and the client's ring; `ApplyOne` is one round of the loop of `nya_net_snapshot_apply`, entry by
entry (`Spawned` and `GivenUp` are its two ways to write the map), `Visited` the loop, and `SweepMap` what follows it. `meant` is history: what the snapshots still on their way described.

**`Prediction`.** A position is a number and a command the step it takes. `client` holds the ring of commands and
of predicted positions, `server` the peer's queue, allowance (`tokens`), newest command and violations. A packet is named by its
tick and carries the commands of `Redundancy` ticks; it can arrive again and again for `Delay` ticks, or never. Neither clock
leads by more than `Drift`. `TakePacket` is the whole of the COMMAND handler, whose loop over the packet's commands is `AfterPacket`; `ServerTicks` the rest of the server's tick
(commands, then the snapshot), `ClientTicks` a client's tick, `TakeReply` the part of a snapshot that is about the
player. `basis` is history: the answer last reconciled with, and whether the replay reached it.

Every module states a type invariant. Those of the modules with theorems are proved; the others are there for the
proofs to come and are in no run.

## 4. Runs

Times are with two workers. All passing runs together fire every action.

| run | question | instance | result |
|---|---|---|---|
| `DbJobs_honest` | Is a job ever run twice at once, resurrected; does a schedule end or burst? | 2 workers, 1 producer, 2 rows of 4 kinds of job, 5 instants, 1 fault, jitter 100 % | passes, 2.0 M states, ~80 s |
| `DbJobWorker_pool` | Does a claim ever wedge, when leases may run out under live workers? Does a stop or failed start free what is in use, lose claims or hang; does the pool keep to the queue's specification? | 2 workers; the queue with 2 plain jobs, 3 instants, 1 fault; the pool over 1 job of 2 kinds, 2 instants, 2 starts, 2 faults, 1 retry | passes, 0.7 M states, ~170 s |
| `Threads_handover` | HTTP server: are answers in order, is an exchange in one pair of hands, is a request ever forgotten, does every shutdown end? Job pool: does done mean returned, do records stay where threads look, does everything complete? | 12 scenes of up to 3 peers, 2 places, 0 to 2 workers, pipelines of up to 3 requests, each with its own faults; 4 jobs, 3 slots, limit 2, 2 priorities, shutdown at any point | passes, 0.18 M states, ~120 s |
| `TaskGroup_join` | Does anything outlive its join; is the first failure reported; do joins return while fewer jobs hold nested groups than the limit? | 2 groups of 2 tasks, nested or not, or of 1 beside a loose job; 1 nested owner, limit 2, cancel, shutdown | passes, 0.4 M states, ~100 s |
| `HttpIdempotency_once` | One execution per key and TTL, right replays, true answers? | 3 requests, 2 keys, 2 payloads, 1 entry, TTL 2, 1 restart | passes, 3.5 M states, ~110 s |
| `NetReliable_order` | Is the channel ordered and exactly once; is anything forgotten, refused for ever, acted on twice, mixed or miscounted? | 20 ids, 10 packet numbers, 2 in flight, windows of 2, bundles and messages of up to 2 fragments, 6 packets, a fresh connection and one before the wrap | passes, 0.6 M states, ~90 s |
| `Outbound_calls` | Is a tripped dependency left alone, a recovered one healed, a server's wait kept, an unsafe request acted on once? | 2 keys for 1 place in either table, 3 calls in flight, 2 retries, waits longer than the patience | passes, 0.26 M states, ~75 s |
| `Parts_alone` | Cron: is the answer exactly the earliest firing? Files: old or new, and what was reported stays? Sessions: capped, ended for good, never lost in use? Snapshots: is every delta readable, every entity shown once? Prediction: is a command counted once, and an honest player never flagged? Events: is each polled once and in turn, does every hook hear it, a one-shot once? | all combinations of 4×3×3×2×3 fields, 9 instants; 2 threads, 3 names, 2 crashes; 2 sessions, 1 rotation, 6 instants, a crash anywhere; 2 slots of 2 generations, rings of 2, 4 ticks, 2 connections; 5 commands, a ring of 3, a queue of 4; 3 events of 2 types, 3 hooks, 4 changes, walks 2 deep | passes, 2.6 M states, ~110 s |
| `HttpServer_pipeline` | "every whole request the peer sent before its end was answered above" | the scenes of `Threads_handover` | violated |
| `HttpServer_handshake` | "its next request is not parsed until the last one is written" | the same scenes | violated |
| `DbJobs_dead` | "kept for inspection, never run" | 1 row, a slow worker | violated |
| `Replicas_full` | "a session that spawns and despawns steadily does not walk the map off its end" | a map of 3 entries, of which 2 were given back | violated |

**Bounds.** Two workers are enough for a race over a row, since every statement touches one row chosen by one
caller; two rows for keys to collide and for a settled row beside an active one; the instants reach a lease
that runs out, a retry and a second firing. One entry in the idempotency table makes eviction and the
pass-through happen with three requests; a third request is what sees the state two others left. Three slots
with a limit of two let a slot be freed and refilled beside a running one. Twenty ids with two in flight keep the
code's proportions (65536 and 256): the in-flight limit, times the packet window and three, is at most half the
space (`Roomy` of section 6); ids and packet numbers wrap in the second start. Two keys for one place make every lookup of the other key an eviction; three calls in flight are a probe, a late one and a new one. The scenes of the HTTP server split what may happen, for
the product of all of it is millions of states: two requests on one connection and two connections make the slots, the
queues and the budget (2) contended; a third peer finds the table full or takes a place that was used before; a window and an
outgoing buffer of one answer fill with the second; a request in two pieces is found incomplete. `Modest` keeps groups
of two tasks apart from loose jobs and early cancels; in `DbJobWorker_pool` it keeps the pool to one row, and the queue
beside it takes plain jobs and enqueues them before its first claim (a stopped pool owes a lease nothing, so `QueueNeverWedged` is asked of that queue only). The waits of
a server (3) pass the patience (2), so `nya_rate_wait` gives up. Three temporary names let two writers meet the leftovers of two crashes. Two sessions
under a cap of one make every issue trim; the idle time is three and the absolute end four instants, so
sliding matters and is cut short. Rings of two snapshots go round twice in four ticks, so a baseline is lost at the server, at the client
and at both; a slot's second entity and the second connection use the names of the first. The client's map has room for
every entity of both and one to spare (6), which is what its 2048 entries are for; `Replicas_full` takes that away. The queue (4) and the slack (2) are
the least that a delay of two ticks and a drift of one need: with one less, honest players are flagged. Five commands take the ring of three round, and two copies of each
leave room for two losses in a row to hurt.

`DbJobWorker_pool`, `Threads_handover`, `Outbound_calls` and `Parts_alone` run machines that share nothing side by side: the initial state picks the one
that moves, so the state space is their sum and each is checked as it would be alone. In the queue runs a TLC deadlock is
an error (an empty queue polls); it is not checked where all requests, groups or starts may be used up.

**Symmetry** is used in safety runs only, over workers, requests, keys and payloads, none of which the
models order.

**Fairness.** Threads are scheduled and handlers return: weak fairness on a worker's next statement, the
scheduler's pass, a job's return, a pool's teardown; the wall clock advances. Strong fairness only for
`Join`, a poll under two locks the scheduler releases in every pass while it sleeps. Nothing is owed by
producers, clients, crashes, lock timeouts or explicit sweeps, nor by the worker's poll timer: `StopReturns`
holds through the semaphore posts alone. `TaskGroup_join` assumes that fewer jobs hold a group of their own
than the pool runs at once; without it joins hang (section 5). In the HTTP
server the pass and the workers run, handlers return unless the scene lets them hang, the tick goes on being called, peers read in the end, and
`table_mutex` comes to the tick (strong fairness: the listener sleeps without it after every pass). The pass's fairness
is written with its enabling condition spelt out (`MayPass`). No timeout is owed: `RequestsAnswered` and the drain of
`ShutdownEnds` hold without one. `BreakerHeals` assumes what `base_circuit.h` asks of callers, that every
call let through is reported, that callers go on calling, and that from some moment no call fails. `CallEnds`
assumes that the thread runs, time passes and an exchange ends, with an answer or without: libcurl's timeout.
Nothing is owed by the server, and nothing is assumed fair about searches, files, sessions and replication.

## 5. What the code does against its documentation

Shown by a run:

- `DbJobs_dead` (`db_jobs.c:403`): the UPDATE of `nya_job_fail` does not test the state it read, so a worker
  that lost its lease revives a dead-lettered row. Header, line 213.
- `Replicas_full` (`replicate_snapshot.c:454`): the count of the replica map is compared with its size before a vacated
  entry is looked for, and never falls. Once 2048 entities stood side by side, or as a spawn and the sweep of what it
  replaces overlap, nothing that appears later is shown, and what follows it in the snapshot is swept. Comment, line 476.
- `HttpServer_pipeline` (`http_server.c:804`): with workers a pass hands one request over and goes on, so the end of the
  peer's half may be read while whole requests are still buffered; the connection is then closed after the answer in
  flight and they are dropped. Comment, line 803.
- `HttpServer_handshake` (`http_websocket_server.c:516`): the 101 goes straight to the socket, also when
  `connection->sending` still holds an earlier answer: the next request is parsed when the last answer is queued, not
  when it is written (`docs/http.md:455`; the comment at `http_websocket_server.c:515` has "a just-accepted socket that
  has written nothing"). A handshake pipelined behind a slow reader's requests is answered before them, and with
  workers the answers it passed are never sent (without, the end of the same turn may flush them behind the 101).
  `AnswersInOrder` excepts a 101 from the order, and says that with workers it is the last thing heard.

Met while modelling, without a run of their own:

- `http_idempotency.c:369`: a request that outlasted the TTL looks its key up again with its old clock, settles the
  reservation its retry made and dates it back, so the next retry runs beside the one in flight (`:98`: "A reservation
  that expired while the chain ran is left alone"). With `Prompt = FALSE` TLC finds `OneInFlight` violated; the run
  assumes requests that settle within the TTL, five minutes unless configured.
- `http_server.c:1495`, `:1498`: `draining` is set before the deadline is stored, so `nya_http_server_shutdown_is_complete`
  on another thread may read a deadline of zero and call the drain complete at once (`http_server.h:382`: "every connection drained, or the deadline reached").
- `http_server.c:939`: without workers, a buffer full of whole pipelined requests that another connection's spent
  budget left there is refused as too large (`http_types.h:108`: a buffer that fills "without a complete request" is refused).
- `http_server.c:972`: a refusal, and so the 503 of a drain, closes without flushing an earlier answer the peer has not
  taken yet, and a connection in the middle of a request gets it although line 826 says it is left to finish.
- `core_event.c:557`: a handler that unregisters its own hook, or one before it, moves the list, and the hook after the walk's place
  does not hear the event (`tests/nyangine/core/test_bug_event_hook_realloc.c:69`: "Every hook that was registered before
  the dispatch has to have run"); the control surface unregisters so (`core_control.c:1025`). `HooksHeard` excepts it and, without that, is violated.
- `core_event.c:580`: a one-shot is taken out by value when its walk ends, so one whose handler dispatches the same type
  runs again inside (`core_event.h:570`: "fires on the next matching event and then unregisters itself"), and if it is registered
  anew meanwhile that registration is lost. `HooksKept` excepts it (`doubled`).
- `core_event.c:541`, `core_job.c:273`: the lists of hooks have no lock, though the job pool's scheduler walks them and
  its listeners may register (line 551). The model gives the types other threads dispatch no immediate hooks.
- `replicate_server.c:1247`, `:1303`: a snapshot filtered by a radius or a callback loses `position_bits`, so the
  configured precision is ignored for every peer with a filter. The model's values have one precision.
- `replicate_snapshot.c:424`: the player's own replica is left alone before its entity is looked up, so one the client's
  game despawned is never spawned again; `ApplyOne` models it and `WorldAgreed`, a part of `ReplicaHonest`, excepts it.
- `replicate_client.c:757`: the replay starts one command later than the ring allows; with an answer exactly a ring old one command is
  lost from sight until the next correction. `basis.exact` excepts it.
- `replicate_client.c:729`: a command sent before the player was spawned has no prediction, and what is compared is a
  left-over; if it happens to agree nothing is replayed. `basis.exact` excepts it.
- `replicate_server.c:27`: HELLO anchors the numbering when it arrives; one that was later than the slack (64 ticks) makes
  every honest command one from the future, and the player is kicked. `Delay` bounds it.
- `replicate_server.c:24`: a burst longer than the allowance is never caught up: afterwards one command comes and one goes
  each tick, so the player stays that much behind.
- `db_jobs.c:285`: a claim does not look at `max_attempts`, and only `nya_job_fail` does, so a job that kills
  its worker is handed out for ever (`db_jobs.h:74` says it stops retrying); `Leased` models it.
- `core_taskgroup.c:117`: a join inside a task keeps the task's slot; with as many such joins as the limit (4
  by default) the inner tasks never start and no join returns. `NestLimit` keeps `TaskGroup_join` below it.
- `net_udp.c:1537`: slots of finished messages keep their buffers on the peer's reassembly budget
  (`net_udp.c:88`: "the most one peer may tie up in partial ones"), so with no partial message at all a large
  message within the limit can be refused, as often as it is resent; `Fits` models it.
- `base_circuit.c:202`: a success of a call from before the trip counts as a probe's and gives back a slot, so
  more than `half_open_max` probes can be out; `BoundedQuestions` states what still holds.
- `base_rate.c:151`: what a server said about a key the full table has no bucket for is lost; `told` does not
  count it.
- `request.c:513`: `nya_rate_wait` gives up after its cap and the result is not looked at, so an attempt can go before
  the server's wait is over; `AttemptsAreGated` excepts it.
- `base_file.c:308`: when only the directory sync fails the call returns an error though the target was
  replaced; `Fails` after `Rename` models it.
- `accounts_user.c:289`, `:429`: the user's row is written before the sessions are revoked, row by row; a crash in between
  leaves old sessions open under a new password, or lets a disabled user's come back when enabled. `ended`
  counts only calls that succeeded.
- `accounts_session.c:125`: a validate or rotate writes its whole row back, so a second process's revoke between its SELECT
  and its UPDATE would be undone (`accounts_session.h:34`: "it holds across a restart and across a second
  process"). The model has the one thread `accounts.h:65` gives the tables.

- `db_jobs.c:359`: a completion whose row was swept between its SELECT and its UPDATE reports success
  (`db_jobs.h:426` says otherwise); `CompleteWrite` models it.
- `db_jobs.c:254`: a keyed enqueue whose rival settled between the INSERT and the SELECT returns id 0
  (`db_jobs.h:385`); `Lookup` models it.
- `db_jobworker.c:143`: after the last retry of a resolve the job stays claimed until its lease ends, unlike
  `db_jobworker.h:47`; `DrainsClaims` excepts it.
- `db_jobworker.c:314`, `:339`: a second stop reads the handle in the arena the first one destroyed
  (`db_jobworker.h:49` allows it); the model has one stop per handle.
- `core_job.c:183`: the heap pops its least element, so low priority runs first; `Least` models it.
- `core_job.c:92`–`:105`: deinit joins the scheduler before the running jobs; a running job that joins a group
  whose tasks are still queued never returns, and queued jobs are dropped.
- `http_idempotency.c:201`: with every slot in flight a keyed request skips the durable path and writes on a
  connection whose savepoint is another request's. 128 entries against at most nine threads keep this out of
  reach in the server as it is.

## 6. Proofs

`tlapm` checks them for every value of the constants that satisfies the module's named assumption. None of the
invariants below is inductive alone; each paragraph says what had to be added and why.

**`DbJobWorkerProofs`**, of the queue (from `DbJobsAssumption`): `TypeCorrect`, `UniqueActiveAlways`, and under `HonestLease`
`OneRunnerAlways`, `HolderKeepsClaimAlways`, `SettledStaysAlways`, `SchedulesGoOnAlways`. `Exclusive` says that a
holder's row is claimed by it and unexpired, or expired by the sweep; that gives one runner at once, since a row
has one worker, and is preserved because a claim takes only pending rows and rows whose lease has run out, which
under the honest lease no live client holds. A settled row then has no holder, so no late write can touch it.
`Scheduled` adds what a completion read: the firing it chose lies after the claim and on the grid of a row that is
still as it was read, because a second runner would contradict `Exclusive`. The arithmetic of the grid
(`CronNextLater`, `NextOccurrenceOnGrid`) is two lemmas about every interval and instant.

Of the pool (adds that the workers are finitely many and no producers), `PoolImplementsQueue` shows,
action by action, that a step of the pool is a step of the queue or leaves it alone, so the theorems of
the queue hold under the pool (`PoolKeepsUniqueActive`, `PoolKeepsOneRunner`). `StopIsCleanAlways` needs where
each thread stands to say what its connection is in the middle of (`Placed`, `NoneOutside`), and that in the
first life of a pool a row claimed by a worker is the one it runs or was given up (`ClaimsHeld`). A write that the
unique index refuses would break that; `UniqueActive`, carried over by the refinement, rules it out.

**`TaskGroupProofs`**: of the pool (from `JobAssumption`), `JobTypeCorrect`, `CountMatchesSlotsAlways`,
`DoneMeansReturnedAlways`, `CompletedAfterStartedAlways`, `DownIsQuietAlways`, `SlotPinnedAlways`. The
inductive invariant `PoolInv` adds that a slot is used exactly while it has a thread, that every handle
given out is in exactly one of heap, slots and the returned jobs, that the scheduler owes announcements only
inside a pass, and which ones. Cardinalities come from `FiniteSetTheorems`.
Of the groups (from `GroupAssumption`), `GroupTypeCorrect`, `EndIsHonestAlways`, `FirstFailureStaysAlways`,
and `GroupsKeepThePool`: groups implement the pool's specification. The join waits for one task at a time, so
that it waited for all needs the tasks numbered without gaps and each by one job (`TasksNamed`), the joined ones
returned (`JoinedReturned`), the pool up while the owner asks (`OwnersRun`), and a failed task to have claimed and
flagged before it returned (`FailuresClaimed`).

**`HttpIdempotencyProofs`** (from the module's assumptions on its sets): `IdempotencyTypeCorrect` and
`NothingLeaksAlways` with no assumption on time; `OneOrderAlways` and `AnswersAreTrueAlways` under `Prompt`, which
is what the layer itself needs: a request settles within the TTL of its stamp. `LeakInv` adds in which stages a
request may be tracked. `OrderInv` adds that a running handler's reservation is still the one entry of its key
(`Reserved`), that whatever is kept, in memory or in a row, answers the question it is kept for (`Kept`), what the
open savepoint holds (`InSavepoint`), and that an order of the last TTL is remembered somewhere or its failure is
about to be (`Remembered`, `Cleared`, `OncePerTTL`).

**`HttpServerProofs`** (from `ServerAssumption`): `ServerTypes` (no buffer, queue or budget passes its cap),
`ExchangeIsOwned` and `AnswersAreInOrder`, for any pool, table, bounds and scripts. `ServerInv` has five parts.
`Control` says where each thread can stand together with the others, and what a server without workers never does;
`Owned` that an exchange is at one place of one queue, moving to one, or inside one handler, as its state says;
`Tables` that a connection that is open has a peer of its own that is there, that its slot holds the request it parsed
last (`SlotFits`), and that what its peer heard, followed by what it is owed, answers every request below the `Edge` in
order (`Told`, `Heard`): the edge is the request in the slot until its answer is queued, and the first unread one
afterwards. That stream is what flushing keeps, so `Heard` of what the peer heard, its prefix, follows and outlives the
connection (`PeersFit`). An upgrade in progress and a WebSocket are owed no order, since nothing will be
flushed to them. A turn is proved step by step on the record it works on: `Flushed`, `Pushed`, `Completed`, `Received` and
the round `HandledOnce` keep `TurnInv`; the loop is a recursive function whose every round keeps it, shown by the least
round that would not (`HandledKeeps`). The shared tables change at one place at a time, so the frame lemmas (`OnePlace`, `OnePeer`,
`Rearranged`) leave each action only what it touches.

**`OutboundProofs`** (from `RateAssumption`, `CircuitAssumption` and those of `Outbound`): `NeverTooSoonAlways`, from
`TableHonest`: a bucket is at least as strict as the key's history demands, and a key without a bucket is owed
nothing, which is what makes an eviction safe. `BoundedQuestionsAlways`, `QuietAfterFailureAlways` and
`CircuitTypeCorrect`, from `EntriesFit`: the probes an entry counts are no more than those in flight, what was asked
no more than what was answered or is out, its age no more than the time since the last failure, and a key without
an entry was not tripped. `ActedOnceAlways` and `AttemptsAreGatedAlways`, from
`AttemptInv`. `RequestsKeepRate` and `RequestsKeepCircuit` prove that a request's behaviour is one of the limiter
and of the breaker it shares.

**`PartsProofs`**: of `AtomicFile`, `FileTypeCorrect` and `ReplacedCleanlyAlways`. That the target is never a mix
needs what a temporary holds at each step of the call that owns it (`Written`), that no two calls share one, which
needs the counter past every name in use (`Named`, `Numbered`), and that a reported write stays needs the newest
binding to be at least that of every call about to report. Of `Sessions`, `SessionsTypeCorrect`,
`LivesAsPromisedAlways` and `HousekeepingSparesLiveAlways`: `Promised` bounds how far a row's dates lag behind its
last use, `Capped` the live rows while an issue still has rows to end, `Sparing` that what a sweep or a prune
chose cannot become live again. The limit needs a pigeonhole argument (`TrimmedLeavesRoom`): ending all but the
newest n leaves n. Of `EventBus`, `BusIsHonest` and `EveryHookIsHeard`, from `BusInv`: every walk but the innermost
waits in a handler (`WalksNest`); what a walk still owes the event to stands ahead of its place, unless the list
moved under it (`Ahead`); and a list holds of every hook what is due plus what the one walk that spent it will take
out, that walk having passed at least as many of it as it spent (`Counted`), which is why the first that is equal,
the one `nya_array_remove_item` takes, never is one that was registered meanwhile. The end of a walk takes its
one-shots out in a loop, `Cleaned`, a recursive function over the list of the spent: what it computes
(`CleanedList`) is an induction up to the length of that list, made with the well-foundedness of the naturals over
the set of the numbers a claim holds of (`UpTo`). Of `Cron`, `AnswerIsRightAlways`, for every calendar,
schedule, instant and horizon: what the search answers is the least minute after its argument that the five fields name by the
header's reading, and it gives up only when the horizon has none. It takes the parser first: the mask a field leaves is
what its terms name, with the step counted from the range's first value and Sunday folded (`Parse` against `Fires`); then the
arithmetic of days, hours and minutes (`ClockIs`: quotient and remainder are the only ones); and of the search, `SearchInv`, that no
day it passed has a firing. The least hour and minute of a day exist because the naturals are well-founded.

**`ReplicationProofs`**: of `Snapshots`, `EveryDeltaIsReadable`, from `DeltaInv`: a snapshot on its way that names a
baseline was made against what that tick described, the server's ring holds under an acknowledged tick what was sent
then, the client's ring under a decoded one what it read, and of two snapshots that share a slot only the newer is
looked up, whatever was lost or came twice. `ReplicaHonestAlways` adds `MapInv`: what is shown is the newest
snapshot read, the table from server slots to entries points at the entry that holds the slot's entity, and no two
entries hold one entity. One application of a snapshot is a loop, so it has an invariant of its own
(`LoopInv`: the entities visited are shown, the others are as they were, no more entries are taken than both
account for), shown to hold after every slot with `UpTo`. Its hypothesis is that the slots of replicated entities
fill less than half of the map, `2 * Cardinality(Indices) + 1 < MaxReplicated`: one entry for the entity a slot had, one for
its successor. With the code's 2048 entries that is 1023 slots, and the server may have more (`NYA_ENTITY_MAX` is
8192); beyond it the statement is not claimed, and `Replicas_full` shows what then happens.
Of `Prediction`, `PredictionHoldsAlways`, with no hypothesis on delay, drift or the sizes of rings, from `PredictionInv`: the client
sampled one command every tick it plays (`Sampling`) and its ring has each that is young enough and nothing else (`SentInputs`); snapshots that
answer later commands are later ones, and two that answer the same say the same (`Answering`), which is what makes an agreement
with a guess worth something; and what was guessed for a command counts what was sampled up to it (`Guessing`). Loops (the commands
of a packet, those of a tick, the replay) are functions of how far they went, with an invariant each, shown by `UpTo`; the sums of
steps have lemmas of their own (`Total`). `CommandsFairAlways` is stated under `Lenient`, what an honest
player's network has to be: delay and drift together at most one more than the slack, and with the redundancy at most one more than the
queue. With the code's numbers (slack 64, queue 32, redundancy 4) that is 29 ticks of delay and drift, about half a second at 60 ticks; `CommandsInv`
says how old the n-th waiting command can be (`Waiting`), which is why the queue never fills and nothing runs ahead of the slack.

**`NetReliableProofs`** (from `WindowAssumption`). `PacketsOpenOnce` is three of the four parts of `WireHonest`, with no hypothesis: from
`EndInv`, which says that every packet number ever opened stays a replay (the newest, one within the window whose
bit is set, or one beyond it) and what the slots' account is. The others are about a number that wraps, and
need that it cannot lap what is still out there: `Roomy`, `(AckWindow + 3) * InFlight <= Half`, which the code keeps with
35 * 256 = 8960 of 32768. Ids are read as `Nth(k, n)`, the n-th message's after k, and the two ends share one line of
messages. The hard part is the network: a packet may be as old as the sender. So the proof keeps for every packet number
s what its sender had sent and had been delivered by then (`g`, a `Past`), each at most `InFlight` more than the one before;
the replay window admits a packet at most `AckWindow` behind the newest one, so what arrives, late as it may be, is within
`Lag` of what was delivered, and there the wrapping comparisons are the plain ones (`NewerIs`, `Within`). `LineInv` says that some
such start and pasts exist: what was delivered is the first messages in order, what is held or in the slots is of the line and
was seen, and the seen window is right for every id close enough to matter (`Lined`, `SeenRight`, `SlotsRight`); what is
outstanding is just what may not have been delivered (`Spoken`). Each
call of an end has lemmas that say what it can change (`Stays`, `Passes`, `Taken`, `Says`), and its loops are shown to keep
a set of states (`DrainIn`, `TakenUpTo`). `HonestIsServedAlways` follows from the state, and `DeliversInOrderOnce` is the
refinement of `NetChannel`: a step moves the channel by one message sent, by those it hands over, or not at all (`ChannelStep`).
`WireHonestAlways` adds the fourth part of `WireHonest`, that a message is put together of its own fragments (`SlotsUnmixed`).
On the reliable channel it follows from the line. The unreliable one has no limit on what is in flight, so an id may come round
while an old fragment with it is still in a slot, and then two messages are mixed (with 4 ids it takes 5 messages). In
the code that takes 65536 messages within the five seconds a partial message is kept, or the ten a silent peer is. The
model has no clock, so the theorem is about behaviours in which it does not happen (`Prompt`), and `PartsInv` says that what an
end sends has the id its number asks for (`Tells`) and what a slot holds was told (`Holds`).

**Only model-checked.** Liveness (`QueueNeverWedged`, `StopReturns`, `JobsEnd`,
`GroupsEnd`, `RequestsAnswered`, `ShutdownEnds`, `BreakerHeals`, `CallEnds`), which the prover does not do
under fairness. `PipelineServed` and `HandshakeInOrder` do not hold (section 5). `HolderKeepsClaim`, `CountMatchesSlots`,
`CompletedAfterStarted` and `DownIsQuiet` are proved and in no run.

## 7. Not modelled

Memory layout, logging, messages, statistics and read-only queries of the modelled components; the handler
table of the worker pool; the characters of a cron spec; clocks that go backwards; the idempotency layer's
re-initialisation; of the HTTP server mounting routers while it runs, the listener's choice of sleep, what a handler or a
WebSocket does, and an exchange refused for memory; the immediate hooks other threads run; the handshake, peer table and event queue of the UDP transport; one HTTP exchange inside
libcurl, and asynchronous requests; of replication the interpolation of what is drawn, the lag history, the speed limit, events,
chat, content manifests and rosters; a second process on the accounts tables. Of the rest of the engine, the parts in section 2 that are not marked done, and the parts
whose state is numeric, textual, foreign or owned by one thread. `PROJECT.json` gives the reason for each.
