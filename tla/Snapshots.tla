------------------------------ MODULE Snapshots ------------------------------
(***************************************************************************)
(* The replicated world of one remote player: nyangine-core/replicate/     *)
(* replicate_server.c, replicate_snapshot.c and replicate_client.c.        *)
(*                                                                         *)
(* Every tick the server describes what the player may see against the     *)
(* newest snapshot the player acknowledged, if its ring still holds it,    *)
(* and whole otherwise.  The datagrams may be lost, duplicated and         *)
(* reordered.  The client keeps a ring of what it decoded, and a map from  *)
(* the server's handles to entities of its own.                            *)
(*                                                                         *)
(* A snapshot's entities are a function on the indices they occupy.  An    *)
(* entity is its generation and a number, `value', that stands for every   *)
(* replicated field; a delta carries the difference of two values.         *)
(***************************************************************************)
EXTENDS Integers, FiniteSets, Sequences

CONSTANTS
    Indices,          \* slots of the server's entity table
    Own,              \* the slot of the player's own entity
    Busy,             \* slots whose entities move and are replaced
    Values,           \* values of an entity
    MaxGeneration,    \* generations of a slot: a bound
    SnapshotHistory,  \* snapshots either ring holds
    MaxReplicated,    \* entries of the client's map
    MaxTick,          \* ticks of the server: a bound
    MaxKills,         \* replicas the client's own game despawns: a bound
    MaxConnections    \* connections one after another: a bound

ASSUME SnapshotAssumption ==
    /\ Indices \subseteq Nat \ {0} /\ IsFiniteSet(Indices) /\ Own \in Indices
    /\ Busy \subseteq Indices
    /\ Values \subseteq Int /\ Values # {}
    /\ {MaxGeneration, SnapshotHistory, MaxReplicated} \subseteq Nat \ {0}
    /\ {MaxTick, MaxKills, MaxConnections} \subseteq Nat

VARIABLES
    world,          \* the server's entity table
    tick,           \* the server's tick
    acknowledged,   \* acknowledged_tick of the peer, 0 before any
    told,           \* the server's ring of what it sent the peer
    own,            \* handle of the peer's entity, as WELCOME named it
    wire,           \* snapshots sent that the client would not ignore
    acks,           \* acknowledgements sent that the server would not ignore
    shown,          \* server_tick: the newest snapshot the client applied
    decoded,        \* the client's ring of what it decoded
    map,            \* NYA_NetReplicaMap: entries, and the entry of every index
    locals,         \* the client's entities that stand for the server's
    kills,          \* replicas the client's game despawned so far
    connections,    \* connections so far
    meant           \* history: what the snapshots on the wire and applied described

serverVars == <<world, tick, acknowledged, told, own>>
clientVars == <<shown, decoded, map, locals, kills>>
snapshotVars == <<serverVars, wire, acks, clientVars, connections, meant>>

------------------------------------------------------------------------------
(* Data *)

Nothing == <<>>                            \* a snapshot of no entity
Slot(t) == t % SnapshotHistory
Empty == [s \in 0 .. SnapshotHistory - 1 |-> [tick |-> 0, entities |-> Nothing]]
\* MUTANT of Held: whatever the slot holds.
HeldBySlot(ring, t) == ring[Slot(t)].tick # 0 /\ t # 0
Held(ring, t) == ring[Slot(t)].tick = t /\ t # 0

NoHandle == <<0, 0>>
Handle(entities, i) == <<i, entities[i].generation>>
NoReplica == [remote |-> NoHandle, local |-> 0]
NoMap == [entries |-> <<>>, at |-> [i \in Indices |-> 0]]

\* Entries of the map that stand for an entity of the server.
Taken(entries) == {e \in DOMAIN entries : entries[e].remote # NoHandle}

Without(f, keys) == [k \in DOMAIN f \ keys |-> f[k]]

------------------------------------------------------------------------------
(* The encoding *)

\* nya_net_snapshot_encode: what left, what is new, and how far the rest moved.
Encode(t, entities, base, baseTick) ==
    LET Same(i) == i \in DOMAIN base /\ base[i].generation = entities[i].generation
        Stays(i) == Same(i) /\ base[i].value = entities[i].value
    IN [tick |-> t, base |-> baseTick,
        removed |-> DOMAIN base \ DOMAIN entities,
        changed |-> [i \in {i \in DOMAIN entities : ~Stays(i)} |->
                        IF Same(i) THEN [new |-> FALSE, generation |-> 0,
                                         value |-> entities[i].value - base[i].value]
                        ELSE [new |-> TRUE, generation |-> entities[i].generation,
                              value |-> entities[i].value]]]

\* The merge of nya_net_snapshot_decode succeeds.
Readable(m, base) ==
    /\ Cardinality(m.removed) <= Cardinality(DOMAIN base)
    /\ m.removed \cap DOMAIN m.changed \cap DOMAIN base = {}
    /\ \A i \in DOMAIN m.changed : m.changed[i].new \/ i \in DOMAIN base

Decode(m, base) ==
    [i \in (DOMAIN base \ m.removed) \cup DOMAIN m.changed |->
        IF i \notin DOMAIN m.changed THEN base[i]
        ELSE LET c == m.changed[i]
             IN IF c.new THEN [generation |-> c.generation, value |-> c.value]
                ELSE [base[i] EXCEPT !.value = @ + c.value]]

------------------------------------------------------------------------------
(* The server *)

Living == {i \in Indices : world[i].lives}
Captured(w) == [i \in {i \in Indices : w[i].lives} |->
                   [generation |-> w[i].generation, value |-> w[i].value]]

\* The game between two ticks: one slot's entity moves, goes, or is another one.
Evolves(w) ==
    {w} \cup
    {[w EXCEPT ![i].value = v] : i \in {i \in Busy : w[i].lives}, v \in Values} \cup
    {[w EXCEPT ![i].lives = FALSE] : i \in Indices} \cup
    {[w EXCEPT ![i] = [generation |-> @.generation + 1, value |-> v, lives |-> TRUE]] :
        i \in {i \in Busy : w[i].generation < MaxGeneration}, v \in Values}

\* What the relevance rule may keep: anything, and always the player's own entity.
Relevant(entities) ==
    {[i \in kept |-> entities[i]] : kept \in
        {kept \in SUBSET DOMAIN entities :
            \A i \in DOMAIN entities : Handle(entities, i) = own => i \in kept}}

Baseline == IF Held(told, acknowledged) THEN told[Slot(acknowledged)].entities ELSE Nothing
BaselineTick == IF Held(told, acknowledged) THEN acknowledged ELSE 0

\* What a snapshot on the wire or in the client's ring described.
Remembered(m, snapshots, ring) ==
    LET ticks == {x.tick : x \in snapshots} \cup {ring[s].tick : s \in DOMAIN ring}
    IN [t \in DOMAIN m \cap ticks |-> m[t]]

\* _nya_net_server_send_snapshots for the peer: sent and kept as a later baseline,
\* or neither, when the peer's bandwidth is spent.
SendSnapshot(entities) ==
    /\ wire' = wire \cup {Encode(tick', entities, Baseline, BaselineTick)}
    /\ told' = [told EXCEPT ![Slot(tick')] = [tick |-> tick', entities |-> entities]]
    /\ meant' = [t \in DOMAIN meant \cup {tick'} |->
                    IF t = tick' THEN entities ELSE meant[t]]

SkipSnapshot == UNCHANGED <<wire, told, meant>>

ServerTick ==
    /\ tick < MaxTick
    /\ tick' = tick + 1
    /\ world' \in Evolves(world)
    /\ \/ \E entities \in Relevant(Captured(world')) : SendSnapshot(entities)
       \/ SkipSnapshot
    /\ UNCHANGED <<acknowledged, own, acks, clientVars, connections>>

\* The acknowledgement in a COMMAND: an older one than the newest is ignored, and one
\* from the future, which would drop the peer, is never sent.
TakeAcknowledgement(a) ==
    /\ a \in acks /\ a <= tick
    /\ acknowledged' = a
    /\ acks' = {x \in acks : x > a}
    /\ UNCHANGED <<world, tick, told, own, wire, clientVars, connections, meant>>

------------------------------------------------------------------------------
(* The client's replicas *)

\* The index leads to an entry, and that entry is for this entity of the slot's many.
\* MUTANT of Known: one index, one entity.
KnownByIndex(a, i, handle) == a.at[i] # 0
Known(a, i, handle) == a.at[i] # 0 /\ a.entries[a.at[i]].remote = handle

With(f, k, v) == [x \in DOMAIN f \cup {k} |-> IF x = k THEN v ELSE f[x]]

\* The replica's local entity is gone: its entry is given up.
GivenUp(a, i) == [a EXCEPT !.entries[a.at[i]].remote = NoHandle, !.at[i] = 0]

\* The first entry that stands for nothing, or else a new one.
FreeEntry(entries) ==
    LET free == DOMAIN entries \ Taken(entries)
    IN IF free = {} THEN Len(entries) + 1 ELSE CHOOSE s \in free : \A o \in free : s <= o

\* The local entity of a replica that was never seen.
Fresh(replicas) ==
    CHOOSE id \in 1 .. MaxReplicated + 1 :
        id \notin DOMAIN replicas /\ \A o \in 1 .. id - 1 : o \in DOMAIN replicas

Spawned(a, i, handle, value) ==
    LET slot == FreeEntry(a.entries)
        id == Fresh(a.locals)
    IN [entries |-> With(a.entries, slot, [remote |-> handle, local |-> id]),
        at |-> [a.at EXCEPT ![i] = slot],
        locals |-> With(a.locals, id, value),
        present |-> a.present \cup {slot}, full |-> FALSE]

\* One entity of a snapshot: moved where it is known, spawned where it is not.
\* `full' is the loop left for want of an entry.
ApplyOne(a, i, entity) ==
    LET handle == <<i, entity.generation>>
        known == Known(a, i, handle)
        e == a.at[i]
        b == IF known THEN GivenUp(a, i) ELSE a
    IN IF a.full THEN a
       ELSE IF known /\ handle = own THEN [a EXCEPT !.present = @ \cup {e}]
       ELSE IF known /\ a.entries[e].local # 0
       THEN [a EXCEPT !.present = @ \cup {e}, !.locals[a.entries[e].local] = entity.value]
       ELSE IF Len(b.entries) >= MaxReplicated THEN [b EXCEPT !.full = TRUE]
       ELSE Spawned(b, i, handle, entity.value)

\* Whatever the snapshot did not mention is gone, except what the player predicts.
Swept(a) ==
    {e \in Taken(a.entries) \ a.present : a.entries[e].remote # own \/ a.entries[e].local = 0}

SweepMap(a) ==
    [entries |-> [e \in DOMAIN a.entries |-> IF e \in Swept(a) THEN NoReplica ELSE a.entries[e]],
     at |-> [i \in Indices |-> IF a.at[i] \in Swept(a) THEN 0 ELSE a.at[i]],
     locals |-> Without(a.locals, {a.entries[e].local : e \in Swept(a)})]

\* The loop of nya_net_snapshot_apply, in the snapshot's order of indices: the map and
\* the replicas after each index, and the entries mentioned so far.
LastIndex == CHOOSE i \in Indices : \A j \in Indices : j <= i

Visited(entities) ==
    LET visited[i \in 0 .. LastIndex] ==
            IF i = 0 THEN [entries |-> map.entries, at |-> map.at, locals |-> locals,
                           present |-> {}, full |-> FALSE]
            ELSE IF i \in DOMAIN entities THEN ApplyOne(visited[i - 1], i, entities[i])
            ELSE visited[i - 1]
    IN visited

\* nya_net_snapshot_apply.
Applied(entities) == SweepMap(Visited(entities)[LastIndex])

------------------------------------------------------------------------------
(* The client *)

CanRead(m) == m.base = 0 \/ Held(decoded, m.base)
ReadBase(m) == IF m.base = 0 THEN Nothing ELSE decoded[Slot(m.base)].entities

\* _nya_net_client_handle_snapshot: an old or a repeated one is ignored, and so is
\* one whose baseline is gone.
TakeSnapshot(m) ==
    /\ m \in wire
    /\ m.tick > shown /\ CanRead(m) /\ Readable(m, ReadBase(m))
    /\ LET entities == Decode(m, ReadBase(m))
           a == Applied(entities)
       IN /\ map' = [entries |-> a.entries, at |-> a.at]
          /\ locals' = a.locals
          /\ decoded' = [decoded EXCEPT ![Slot(m.tick)] = [tick |-> m.tick, entities |-> entities]]
    /\ shown' = m.tick
    /\ wire' = {x \in wire : x.tick > m.tick}
    /\ meant' = Remembered(meant, wire', decoded')
    /\ UNCHANGED <<serverVars, acks, kills, connections>>

\* The acknowledgement every COMMAND carries.
Acknowledge ==
    /\ shown > acknowledged
    /\ acks' = acks \cup {shown}
    /\ UNCHANGED <<serverVars, wire, clientVars, connections, meant>>

\* The client's own game despawns a replica: its entry's handle no longer resolves.
KillReplica(e) ==
    /\ kills < MaxKills
    /\ e \in Taken(map.entries) /\ map.entries[e].local # 0
    /\ locals' = Without(locals, {map.entries[e].local})
    /\ map' = [map EXCEPT !.entries[e].local = 0]
    /\ kills' = kills + 1
    /\ UNCHANGED <<serverVars, wire, acks, shown, decoded, connections, meant>>

\* The connection ends and another begins: both ends forget the old one, the old
\* player's entity is despawned and another one spawned.
Reconnect ==
    /\ connections < MaxConnections
    /\ world[own[1]].generation < MaxGeneration
    /\ connections' = connections + 1
    /\ world' = [world EXCEPT ![own[1]].generation = @ + 1, ![own[1]].lives = TRUE]
    /\ own' = <<own[1], world[own[1]].generation + 1>>
    /\ acknowledged' = 0 /\ told' = Empty
    /\ wire' = {} /\ acks' = {}
    /\ shown' = 0 /\ decoded' = Empty /\ map' = NoMap /\ locals' = <<>>
    /\ meant' = Nothing
    /\ UNCHANGED <<tick, kills>>

------------------------------------------------------------------------------

SnapshotsInit ==
    /\ world \in {[i \in Indices |-> [generation |-> 1, value |-> v, lives |-> TRUE]] :
                    v \in Values}
    /\ tick = 0 /\ acknowledged = 0 /\ told = Empty /\ own = <<Own, 1>>
    /\ wire = {} /\ acks = {}
    /\ shown = 0 /\ decoded = Empty /\ map = NoMap /\ locals = <<>>
    /\ kills = 0 /\ connections = 1 /\ meant = Nothing

SnapshotsNext ==
    \/ ServerTick
    \/ \E a \in acks : TakeAcknowledgement(a)
    \/ \E m \in wire : TakeSnapshot(m)
    \/ Acknowledge
    \/ \E e \in Taken(map.entries) : KillReplica(e)
    \/ Reconnect

SnapshotsSpec == SnapshotsInit /\ [][SnapshotsNext]_snapshotVars

------------------------------------------------------------------------------
(* Properties *)

\* Every snapshot that is new to the client can be read: the baseline it was made
\* against is one the client has, and has as the server meant it, whatever was lost,
\* repeated or late and however often the rings went round.
DeltasReadable ==
    /\ \A m \in wire : m.tick > shown => CanRead(m) /\ Readable(m, ReadBase(m))
                                         /\ Decode(m, ReadBase(m)) = meant[m.tick]
    /\ \A s \in DOMAIN decoded :
          decoded[s].tick # 0 => decoded[s].entities = meant[decoded[s].tick]

\* The player sees the world of the newest snapshot, no more and no less: one local
\* entity for every entity it described, at its value, and none for an entity that
\* left, or for an earlier occupant of its slot.  The player's own is predicted and
\* stays; one the client's own game despawned is missing until the next snapshot.
WorldAgreed ==
    LET taken == Taken(map.entries)
        described == IF shown = 0 THEN Nothing ELSE meant[shown]
    IN /\ \A i \in DOMAIN described :
            \E e \in taken :
               /\ map.entries[e].remote = Handle(described, i) /\ map.at[i] = e
               /\ map.entries[e].local = 0 \/ map.entries[e].remote = own
                  \/ locals[map.entries[e].local] = described[i].value
       /\ \A e \in taken :
            \/ map.entries[e].remote = own
            \/ \E i \in DOMAIN described : map.entries[e].remote = Handle(described, i)
       /\ \A e, f \in taken :
            e # f => /\ map.entries[e].remote # map.entries[f].remote
                     /\ map.entries[e].local = 0
                        \/ map.entries[e].local # map.entries[f].local
       /\ DOMAIN locals = {map.entries[e].local : e \in taken} \ {0}

\* What a client decodes and shows is what the server meant.
ReplicaHonest == DeltasReadable /\ WorldAgreed

\* "Into a slot the sweep above vacated where there is one, so a session that spawns
\* and despawns steadily does not walk the map off its end" (replicate_snapshot.c): an
\* entity of a snapshot goes without a replica only where there are too many of them,
\* with those the map still stands for.
SlotsReused ==
    [][LET described == IF shown' = 0 THEN {} ELSE {Handle(meant'[shown'], i) : i \in DOMAIN meant'[shown']}
           Standing(entries) == {entries[e].remote : e \in Taken(entries)}
       IN shown' # shown /\ Cardinality(described \cup Standing(map.entries)) <= MaxReplicated
          => described \subseteq Standing(map'.entries)]_snapshotVars

SnapshotsTypeOK ==
    /\ tick \in 0 .. MaxTick /\ acknowledged \in 0 .. MaxTick /\ shown \in 0 .. MaxTick
    /\ acks \subseteq 0 .. MaxTick
    /\ \A ring \in {told, decoded} :
          \A s \in 0 .. SnapshotHistory - 1 : ring[s].tick # 0 => Slot(ring[s].tick) = s
    /\ Len(map.entries) <= MaxReplicated

=============================================================================
