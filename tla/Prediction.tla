----------------------------- MODULE Prediction -----------------------------
(***************************************************************************)
(* A player's commands and the prediction of what they do:                 *)
(* nyangine-core/replicate/replicate_client.c and replicate_server.c.      *)
(*                                                                         *)
(* The client applies a command the tick it samples it, and sends it with  *)
(* the few before it, since a datagram may be lost.  The server queues     *)
(* what is new, applies about one a tick, and says in every snapshot how   *)
(* far it got and where that left the player; the client compares that     *)
(* with where it had the player after the same command.                    *)
(*                                                                         *)
(* The player's position is a number, a command the step it takes.  The    *)
(* packet of a tick holds the commands of that tick and the ones before,   *)
(* so a packet is named by its tick.  Both ends tick at one rate: neither  *)
(* clock is more than `Drift' ahead, and a packet arrives within `Delay'   *)
(* ticks or not at all.                                                    *)
(***************************************************************************)
EXTENDS Integers, FiniteSets, Sequences

CONSTANTS
    Steps,             \* steps a command may take
    Redundancy,        \* commands in a packet
    CommandHistory,    \* commands the client remembers
    CommandQueue,      \* commands the server lets wait
    CommandBurst,      \* commands it applies in one tick at most
    CommandSlack,      \* how far a command may run ahead of time
    ViolationLimit,    \* broken rules before a kick
    Drift, Delay,      \* what clocks and network do at worst
    MaxClientTick      \* ticks of the client: a bound

ASSUME PredictionAssumption ==
    /\ Steps \subseteq Int /\ Steps # {}
    /\ {Redundancy, CommandHistory, CommandQueue, CommandBurst} \subseteq Nat \ {0}
    /\ Redundancy <= CommandHistory
    /\ {CommandSlack, ViolationLimit, Drift, Delay, MaxClientTick} \subseteq Nat

VARIABLES
    client,       \* _NYA_NetClientState
    server,       \* _NYA_NetServerPeerState of the player
    replies,      \* snapshots sent that the client would not ignore
    sampled,      \* history: the step of every command sent
    executed,     \* history: ticks of the commands the server applied
    basis         \* history: the snapshot the client last reconciled with

predictionVars == <<client, server, replies, sampled, executed, basis>>

NoCommand == [tick |-> 0, step |-> 0]
HistorySlot(t) == t % CommandHistory
SlotsOf(value) == [s \in 0 .. CommandHistory - 1 |-> value]

Larger(a, b) == IF a > b THEN a ELSE b
Smaller(a, b) == IF a < b THEN a ELSE b

\* The sum of some steps up to a tick, and of some commands.
Total(steps, ticks, n) ==
    LET total[t \in 0 .. n] ==
            IF t = 0 THEN 0 ELSE total[t - 1] + (IF t \in ticks THEN steps[t] ELSE 0)
    IN total[n]
Walk(ticks) == Total(sampled, ticks, client.tick)

------------------------------------------------------------------------------
(* The server *)

\* One broken rule more; past the limit the player is kicked.
Violation(s) ==
    [s EXCEPT !.violations = @ + 1, !.accepted = s.violations < ViolationLimit]

\* The oldest waiting command makes room for the newest.
Queued(s, c) ==
    IF Len(s.queue) = CommandQueue
    THEN [Violation(s) EXCEPT !.queue = Append(Tail(@), c)]
    ELSE [s EXCEPT !.queue = Append(@, c)]

\* Each command rides in several packets.
\* MUTANT of Copy: the newest one is not known as one.
CopyOfOlder(s, c) == c.tick < s.lastTick
Copy(s, c) == c.tick <= s.lastTick

\* One command of a packet: seen before, claiming more time than passed, or new.
TakeCommand(s, c, now) ==
    LET elapsed == Larger(now - s.lastServerTick, 0)
    IN CASE ~s.accepted \/ Copy(s, c) -> s
         [] s.accepted /\ ~Copy(s, c) /\ c.tick - s.lastTick > elapsed + CommandSlack ->
                Violation(s)
         [] s.accepted /\ ~Copy(s, c) /\ c.tick - s.lastTick <= elapsed + CommandSlack ->
                [Queued(s, c) EXCEPT !.lastTick = c.tick, !.lastServerTick = now]

\* The packet of a tick, the commands that ride in it oldest first.
AfterPacket(t) ==
    LET now == server.tick + 1
        Rides(u) == u \in DOMAIN sampled /\ u > t - Redundancy
        taken[u \in 0 .. t] ==
            IF u = 0 THEN server
            ELSE IF Rides(u) THEN TakeCommand(taken[u - 1], [tick |-> u, step |-> sampled[u]], now)
            ELSE taken[u - 1]
    IN taken[t]

TakePacket(t) ==
    /\ server.accepted /\ t \in DOMAIN sampled /\ server.tick + 1 <= t + Delay
    /\ server' = AfterPacket(t)
    /\ UNCHANGED <<client, replies, sampled, executed, basis>>

\* HELLO arrives: the numbering of commands is anchored at the tick it was sent.
TakeHello ==
    /\ server.lastServerTick = 0 /\ ~server.accepted
    /\ server.tick + 1 <= Delay
    /\ server' = [server EXCEPT !.accepted = TRUE, !.lastTick = 0,
                                !.lastServerTick = server.tick + 1]
    /\ UNCHANGED <<client, replies, sampled, executed, basis>>

\* The commands this tick's allowance permits, and what they leave.
ApplyCommands(s) ==
    LET tokens == Smaller(s.tokens + 1, CommandBurst)
        n == Smaller(Len(s.queue), tokens)
        moved[k \in 0 .. n] == IF k = 0 THEN s.position ELSE moved[k - 1] + s.queue[k].step
    IN [s EXCEPT !.tokens = tokens - n,
                 !.queue = SubSeq(@, n + 1, Len(@)),
                 !.applied = IF n = 0 THEN @ ELSE s.queue[n].tick,
                 !.position = moved[n]]

\* A tick of the server, after its packets: commands, then the snapshot.
ServerTicks ==
    /\ server.tick < client.tick + Drift
    /\ server.tick < MaxClientTick + Delay
    /\ LET s == IF server.accepted THEN ApplyCommands(server) ELSE server
       IN /\ server' = [s EXCEPT !.tick = @ + 1]
          /\ executed' = executed \cup {server.queue[n].tick : n \in 1 .. Len(server.queue) - Len(s.queue)}
          /\ replies' = IF ~server.accepted THEN replies
                        ELSE replies \cup {[tick |-> server'.tick, command |-> s.applied,
                                            position |-> s.position]}
    /\ UNCHANGED <<client, sampled, basis>>

------------------------------------------------------------------------------
(* The client *)

\* WELCOME arrives: from its next tick on the client sends commands.
TakeWelcome ==
    /\ server.accepted /\ ~client.playing
    /\ client' = [client EXCEPT !.playing = TRUE]
    /\ UNCHANGED <<server, replies, sampled, executed, basis>>

\* _nya_net_client_send_command: predicted first, once the player is there.
SendCommand(step) ==
    LET t == client.tick + 1
        position == IF client.spawned THEN client.position + step ELSE client.position
    IN /\ client' = [client EXCEPT
                        !.tick = t,
                        !.history[HistorySlot(t)] = [tick |-> t, step |-> step],
                        !.position = position,
                        !.predicted[HistorySlot(t)] = IF client.spawned THEN position ELSE @,
                        !.guessed[HistorySlot(t)] = IF client.spawned THEN t ELSE @]
       /\ sampled' = [u \in DOMAIN sampled \cup {t} |-> IF u = t THEN step ELSE sampled[u]]

ClientTicks ==
    /\ client.tick < MaxClientTick
    /\ client.tick < server.tick + Drift
    /\ \/ /\ client.playing
          /\ \E step \in Steps : SendCommand(step)
       \/ /\ ~client.playing
          /\ client' = [client EXCEPT !.tick = @ + 1]
          /\ UNCHANGED sampled
    /\ UNCHANGED <<server, replies, executed, basis>>

\* A command the ring still has is run again.
Again(c, u) ==
    LET p == c.position + c.history[HistorySlot(u)].step
    IN [c EXCEPT !.position = p, !.predicted[HistorySlot(u)] = p, !.guessed[HistorySlot(u)] = u]

\* Every command since, once more, from where the server left the player.
Replayed(c, position, from) ==
    LET replayed[u \in 0 .. c.tick] ==
            IF u < from THEN [c EXCEPT !.position = position]
            ELSE IF c.history[HistorySlot(u)].tick = u THEN Again(replayed[u - 1], u)
            ELSE replayed[u - 1]
    IN replayed[c.tick]

\* The client remembers the command a snapshot answers, and where that had left it.
Knows(c, m) == m.command # 0 /\ c.history[HistorySlot(m.command)].tick = m.command
Agrees(c, m) == Knows(c, m) /\ c.predicted[HistorySlot(m.command)] = m.position

\* The tick being drained is one past the last command sent; slots older than the
\* ring are out of reach.
\* MUTANT of ReplayFrom: the confirmed command again, too.
ReplayFromConfirmed(c, m) == Larger(Larger(m.command, 1), c.tick + 2 - CommandHistory)
ReplayFrom(c, m) ==
    LET local == c.tick + 1
    IN IF local >= CommandHistory THEN Larger(m.command + 1, local - CommandHistory + 1)
       ELSE m.command + 1

\* _nya_net_client_reconcile.
Reconciled(c, m) ==
    IF Agrees(c, m) THEN c ELSE Replayed(c, m.position, ReplayFrom(c, m))

\* A snapshot that is news; the first spawns the player where it says.
TakeReply(m) ==
    /\ m \in replies /\ client.playing
    /\ LET c == [client EXCEPT !.shown = m.tick, !.spawned = TRUE,
                               !.position = IF client.spawned THEN @ ELSE m.position]
       IN /\ client' = Reconciled(c, m)
          /\ basis' = [position |-> m.position, command |-> m.command,
                       exact |-> IF Agrees(c, m)
                                 THEN basis.exact /\ c.guessed[HistorySlot(m.command)] = m.command
                                 ELSE c.tick - m.command < CommandHistory]
    /\ replies' = {x \in replies : x.tick > m.tick}
    /\ UNCHANGED <<server, sampled, executed>>

------------------------------------------------------------------------------

PredictionInit ==
    /\ client = [tick |-> 0, playing |-> FALSE, spawned |-> FALSE, position |-> 0, shown |-> 0,
                 history |-> SlotsOf(NoCommand), predicted |-> SlotsOf(0), guessed |-> SlotsOf(0)]
    /\ server = [tick |-> 0, accepted |-> FALSE, lastTick |-> 0, lastServerTick |-> 0,
                 queue |-> <<>>, tokens |-> 0, applied |-> 0, position |-> 0, violations |-> 0]
    /\ replies = {} /\ sampled = <<>> /\ executed = {}
    /\ basis = [position |-> 0, command |-> 0, exact |-> TRUE]

PredictionNext ==
    \/ TakeHello \/ TakeWelcome
    \/ ClientTicks \/ ServerTicks
    \/ \E t \in DOMAIN sampled : TakePacket(t)
    \/ \E m \in replies : TakeReply(m)

PredictionSpec == PredictionInit /\ [][PredictionNext]_predictionVars

------------------------------------------------------------------------------
(* Properties *)

\* What the player sees is the server's last word plus every command since, each
\* once: nothing the server counted is predicted again, nothing still on its way is
\* lost from sight.  Not after a replay the ring was too short for, nor where the word
\* agrees with a left-over: it is about a command sent before there was a player to
\* predict.
PredictionHolds ==
    client.spawned /\ basis.exact =>
        client.position = basis.position + Walk({t \in DOMAIN sampled : t > basis.command})

\* The server took every command it applied from the client, once, in order, and no
\* more of them than it had ticks: a copy or a late packet moves nobody.
CommandsOnce ==
    /\ server.position = Walk(executed)
    /\ \A t \in executed : t <= server.applied
    /\ \A n \in 1 .. Len(server.queue) :
          /\ server.queue[n].tick > server.applied /\ server.queue[n].tick <= server.lastTick
          /\ \A k \in 1 .. n - 1 : server.queue[k].tick < server.queue[n].tick
    /\ Cardinality(executed) + server.tokens <= server.tick

\* A client that keeps the rules is never counted as breaking one, while what clocks
\* and network do stays within the slack and the queue.
NeverFlagged == server.violations = 0

\* An honest player is moved by the commands given, and is never taken for a cheat.
CommandsFair == CommandsOnce /\ NeverFlagged

PredictionTypeOK ==
    /\ server.tokens \in 0 .. CommandBurst /\ Len(server.queue) <= CommandQueue
    /\ server.applied <= server.lastTick /\ server.lastTick <= client.tick
    /\ client.shown <= server.tick

=============================================================================
