---------------------------- MODULE NetReliable ----------------------------
(***************************************************************************)
(* An established connection of the UDP transport                          *)
(* (nyangine-core/net/net_udp.c): packet numbers and the replay window,    *)
(* message ids that wrap, the seen window, retransmission with cumulative  *)
(* acknowledgements, bundles, fragments and their reassembly, over a       *)
(* network that loses, duplicates and reorders datagrams.  Each end runs   *)
(* on one thread, so an action is one call of the transport.               *)
(*                                                                         *)
(* Time is left out: any message already sent may be due again, any        *)
(* partial one may have expired, a peer may have timed out, a keepalive    *)
(* may be due.  The round trip and loss estimates only feed those timers.  *)
(* A message is its number on its channel and its number of fragments.     *)
(***************************************************************************)
EXTENDS Integers, Sequences, FiniteSets, SequencesExt

CONSTANTS
    IdSpace,        \* 65536: the u16 message ids
    SeqSpace,       \* 65536: the wire's low bits of the packet counter
    InFlight,       \* NYA_NET_MAX_RELIABLE_IN_FLIGHT, _NYA_NET_UDP_MAX_REORDER
    SeenWindow,     \* _NYA_NET_UDP_SEEN_WINDOW
    AckWindow,      \* _NYA_NET_UDP_ACK_WINDOW
    BodyMax,        \* _NYA_NET_UDP_BODY_MAX, in fragments
    MaxReassembly,  \* _NYA_NET_UDP_MAX_REASSEMBLY
    MaxMessage,     \* _NYA_NET_UDP_MAX_MESSAGE, in fragments
    MaxBytes,       \* _NYA_NET_UDP_MAX_REASSEMBLY_BYTES, in fragments
    Ends,           \* the two endpoints
    Starts,         \* how a behaviour starts: the messages and packets carried each
                    \* way before, and, a bound, the plan of what is sent: for each
                    \* end and channel its messages, each its number of fragments
    MaxPackets,     \* bound: packets an end sends, by end
    Drops           \* the ends that may drop the other

Channels == {"unreliable", "reliable"}
Half == IdSpace \div 2
HalfSeq == SeqSpace \div 2

ASSUME WindowAssumption ==
    /\ IdSpace \in Nat /\ SeqSpace \in Nat /\ IdSpace % 2 = 0 /\ SeqSpace % 2 = 0
    /\ InFlight \in 1..(Half - 1) /\ SeenWindow \in InFlight..Half
    /\ AckWindow \in 1..(HalfSeq - 1) /\ BodyMax \in Nat \ {0}
    /\ MaxReassembly \in Nat \ {0} /\ MaxMessage \in Nat \ {0} /\ MaxBytes \in Nat
    /\ \E a \in Ends, b \in Ends : a # b /\ Ends = {a, b}
    /\ MaxPackets \in [Ends -> Nat] /\ Drops \subseteq Ends /\ IsFiniteSet(Starts)
    /\ Starts \subseteq [carried : Nat, plan : [Ends -> [Channels -> Seq(1..MaxMessage)]]]
    /\ \A start \in Starts : start.carried = 0 \/ start.carried >= SeenWindow

VARIABLE
    conn    \* _NYA_NetUdpPeer of each end, with what the layer above still has
            \* to send (todo) and has sent (sent), and what that end put on the
            \* wire (wire), opened (opened) and delivered (delivered)

Larger(a, b) == IF a > b THEN a ELSE b
Other(e) == CHOOSE o \in Ends : o # e
Slots == 1..MaxReassembly
FreeSlot == [active |-> FALSE, channel |-> "unreliable", id |-> 0, total |-> 0,
             received |-> {}, started |-> 0, capacity |-> 0]

\* A connection after k delivered and acknowledged messages, one to a packet,
\* with the messages todo to send.
Established(k, todo) ==
    [occupied |-> TRUE, reason |-> "none",
     local_sequence |-> k + 1,
     remote_sequence |-> k,
     ack_bits |-> {b \in 1..AckWindow : b < k},
     next_message_id |-> [c \in Channels |-> IF c = "reliable" THEN k % IdSpace ELSE 0],
     next_delivery_id |-> k % IdSpace,
     seen |-> [c \in Channels |-> IF c = "reliable" /\ k > 0 THEN 0..(SeenWindow - 1) ELSE {}],
     seen_newest |-> [c \in Channels |-> IF c = "reliable" /\ k > 0 THEN (k - 1) % IdSpace ELSE 0],
     seen_any |-> [c \in Channels |-> c = "reliable" /\ k > 0],
     outgoing_reliable |-> <<>>,
     incoming_reliable |-> <<>>,
     reassembly |-> [s \in Slots |-> FreeSlot],
     reassembly_bytes |-> 0,
     outgoing |-> <<>>,
     packets_received |-> 0,
     todo |-> todo, wire |-> {}, opened |-> {},
     sent |-> [c \in Channels |-> 0],
     delivered |-> [c \in Channels |-> <<>>]]

NetInit == \E start \in Starts :
               conn = [e \in Ends |-> Established(start.carried, start.plan[e])]

(***************************************************************************)
(* Arithmetic on wrapping numbers                                          *)
(***************************************************************************)

\* MUTANT of Newer: a plain comparison, blind to the wrap.
NewerUnwrapped(a, b) == a > b

\* _nya_net_udp_sequence_newer.
Newer(a, b) == \/ a > b /\ a - b <= Half
               \/ b > a /\ b - a > Half

Minus(a, b) == ((a + IdSpace) - b) % IdSpace      \* (u16)(a - b)

\* _nya_net_udp_sequence_expand: the wire's bits widened to the nearest counter.
Expand(newest, wire) ==
    LET candidate == (newest \div SeqSpace) * SeqSpace + wire IN
    IF candidate + HalfSeq <= newest THEN candidate + SeqSpace
    ELSE IF candidate > newest + HalfSeq /\ candidate >= SeqSpace THEN candidate - SeqSpace
    ELSE candidate

(***************************************************************************)
(* The replay window                                                       *)
(***************************************************************************)

\* MUTANT of IsReplay: the packet at the far edge of the window is forgotten.
IsReplayShort(p, seq) ==
    \/ seq = 0
    \/ /\ seq <= p.remote_sequence
       /\ LET back == p.remote_sequence - seq IN back = 0 \/ back \in p.ack_bits

\* _nya_net_udp_is_replay.
IsReplay(p, seq) ==
    \/ seq = 0
    \/ /\ seq <= p.remote_sequence
       /\ LET back == p.remote_sequence - seq IN
          back = 0 \/ back > AckWindow \/ back \in p.ack_bits

\* _nya_net_udp_record_ack: bit b is the packet b before the newest.
RecordAck(p, seq) ==
    IF seq > p.remote_sequence
    THEN LET shift == seq - p.remote_sequence
             moved == {b + shift : b \in p.ack_bits} \union {shift} IN
         [p EXCEPT !.remote_sequence = seq,
                   !.ack_bits = IF p.remote_sequence = 0 THEN {}
                                ELSE moved \intersect 1..AckWindow]
    ELSE [p EXCEPT !.ack_bits = @ \union ({p.remote_sequence - seq} \intersect 1..AckWindow)]

(***************************************************************************)
(* Message ids                                                             *)
(***************************************************************************)

\* _nya_net_udp_is_seen: mark k is the id k before the newest.
IsSeen(p, c, id) ==
    /\ p.seen_any[c]
    /\ id = p.seen_newest[c] \/ ~Newer(id, p.seen_newest[c])
    /\ LET offset == Minus(p.seen_newest[c], id) IN
       offset >= SeenWindow \/ offset \in p.seen[c]

\* _nya_net_udp_mark_seen: a newer id slides every mark into the past.
MarkSeen(p, c, id) ==
    LET newer == ~p.seen_any[c] \/ Newer(id, p.seen_newest[c])
        shift == IF p.seen_any[c] THEN Minus(id, p.seen_newest[c]) ELSE SeenWindow
        newest == IF newer THEN id ELSE p.seen_newest[c]
        slid == IF newer THEN {k + shift : k \in p.seen[c]} ELSE p.seen[c] IN
    [p EXCEPT !.seen_any[c] = TRUE,
              !.seen_newest[c] = newest,
              !.seen[c] = (slid \union {Minus(newest, id)}) \intersect 0..(SeenWindow - 1)]

\* _nya_net_udp_reliable_acceptable: not behind the delivery point, nor beyond
\* what the sender may have in flight.
Acceptable(p, id) ==
    /\ id = p.next_delivery_id \/ Newer(id, p.next_delivery_id)
    /\ Minus(id, p.next_delivery_id) < InFlight

\* The guard of retire: an acknowledgement ahead of all that is outstanding.
Implausible(p, ack) ==
    p.outgoing_reliable # <<>>
        /\ Newer(ack, (p.outgoing_reliable[1].id + InFlight) % IdSpace)

\* _nya_net_udp_retire_reliable: the receiver has everything below ack.
RetireReliable(p, ack) ==
    LET pending == p.outgoing_reliable
        kept[i \in 0..Len(pending)] ==
            IF i = 0 THEN <<>>
            ELSE IF Newer(ack, pending[i].id) THEN kept[i - 1]
            ELSE Append(kept[i - 1], pending[i])
    IN IF Implausible(p, ack) THEN p
       ELSE [p EXCEPT !.outgoing_reliable = kept[Len(pending)]]

(***************************************************************************)
(* Sending                                                                 *)
(***************************************************************************)

\* _nya_net_udp_remove_peer: the slot is wiped; the wire keeps what is on it.
Removed(p, reason) ==
    [Established(0, p.todo)
        EXCEPT !.occupied = FALSE, !.reason = reason, !.wire = p.wire,
               !.opened = p.opened, !.sent = p.sent, !.delivered = p.delivered]

\* _nya_net_udp_send_packet: numbered, with the cumulative acknowledgement; on
\* the wire from here on, to arrive late, twice or never.
SendPacket(p, kind, fragments) ==
    [p EXCEPT !.local_sequence = @ + 1,
              !.wire = @ \union {[seq |-> p.local_sequence, reliable_ack |-> p.next_delivery_id,
                                  kind |-> kind, fragments |-> fragments]}]

\* _nya_net_udp_flush_peer.
FlushPeer(p) == IF p.outgoing = <<>> THEN p
                ELSE [SendPacket(p, "data", p.outgoing) EXCEPT !.outgoing = <<>>]

\* _nya_net_udp_append: a bundle without room is sealed first.
AppendFragment(p, fragment) ==
    LET room == IF Len(p.outgoing) + 1 > BodyMax THEN FlushPeer(p) ELSE p IN
    [room EXCEPT !.outgoing = Append(@, fragment)]

\* The fragments of a message, in order (the loops of send and resend).
AppendMessage(p, c, id, n, total) ==
    LET appended[i \in 0..total] ==
            IF i = 0 THEN p
            ELSE AppendFragment(appended[i - 1], [channel |-> c, id |-> id, n |-> n,
                                                  index |-> i, total |-> total])
    IN appended[total]

\* _nya_net_udp_resend: each pending message never sent, or due again.
SendAgain(q, i, m) ==
    [AppendMessage(q, "reliable", m.id, m.n, m.total)
        EXCEPT !.outgoing_reliable = [@ EXCEPT ![i].sends = TRUE]]
Resend(p, due) ==
    LET pending == p.outgoing_reliable
        resent[i \in 0..Len(pending)] ==
            IF i = 0 THEN p
            ELSE IF pending[i].sends /\ pending[i].n \notin due THEN resent[i - 1]
            ELSE SendAgain(resent[i - 1], i, pending[i])
    IN resent[Len(pending)]

Sent(p) == {m.n : m \in {k \in Range(p.outgoing_reliable) : k.sends}}

\* _nya_net_udp_send.  With InFlight messages unacknowledged the peer is dropped.
Sending(p, c, due) ==
    LET id == p.next_message_id[c]
        total == Head(p.todo[c])
        n == p.sent[c] + 1
        q == [p EXCEPT !.next_message_id[c] = (@ + 1) % IdSpace, !.todo[c] = Tail(@)] IN
    IF c = "unreliable" THEN [AppendMessage(q, c, id, n, total) EXCEPT !.sent[c] = n]
    ELSE IF Len(p.outgoing_reliable) >= InFlight THEN Removed(q, "timeout")
    ELSE Resend([q EXCEPT !.sent[c] = n,
                          !.outgoing_reliable =
                              Append(@, [id |-> id, n |-> n, total |-> total, sends |-> FALSE])],
                due)

(***************************************************************************)
(* Receiving                                                               *)
(***************************************************************************)

Deliver(p, c, n) == [p EXCEPT !.delivered[c] = Append(@, n)]

\* MUTANT of DrainOrdered: whatever is held is handed over.
DrainAll(p) ==
    FoldLeft(LAMBDA q, m : [Deliver(q, "reliable", m.n)
                                EXCEPT !.next_delivery_id = (m.id + 1) % IdSpace,
                                       !.incoming_reliable = <<>>],
             p, p.incoming_reliable)

\* _nya_net_udp_drain_ordered: the run of held messages from next_delivery_id.
NextHeld(p) == {i \in 1..Len(p.incoming_reliable) : p.incoming_reliable[i].id = p.next_delivery_id}
DrainOne(p) ==
    LET i == CHOOSE i \in NextHeld(p) : \A j \in NextHeld(p) : i <= j
    IN IF NextHeld(p) = {} THEN p
       ELSE [Deliver(p, "reliable", p.incoming_reliable[i].n)
                EXCEPT !.next_delivery_id = (@ + 1) % IdSpace,
                       !.incoming_reliable = RemoveAt(@, i)]
DrainOrdered(p) ==
    LET drained[i \in 0..Len(p.incoming_reliable)] ==
            IF i = 0 THEN p ELSE DrainOne(drained[i - 1])
    IN drained[Len(p.incoming_reliable)]

\* A whole message arrived, in one fragment or reassembled.
TakeMessage(p, c, id, n) ==
    IF IsSeen(p, c, id) THEN p
    ELSE LET q == MarkSeen(p, c, id) IN
         IF c = "unreliable" THEN Deliver(q, c, n)
         ELSE IF Len(q.incoming_reliable) >= InFlight THEN Removed(q, "protocol")
         ELSE DrainOrdered([q EXCEPT !.incoming_reliable = Append(@, [id |-> id, n |-> n])])

\* A slot that was let go keeps its buffer; the fields nothing reads again are
\* reset.
ActiveSlots(p) == {s \in Slots : p.reassembly[s].active}
Idle(slot) == [slot EXCEPT !.active = FALSE, !.received = {}, !.channel = "unreliable",
                           !.id = 0, !.total = 0, !.started = 0]

\* The slot a new message would take: the first free one, else the oldest.
Victim(p) ==
    LET free == Slots \ ActiveSlots(p)
        oldest == Min({p.reassembly[s].started : s \in Slots}) IN
    IF free # {} THEN Min(free) ELSE Min({s \in Slots : p.reassembly[s].started = oldest})

\* Whether slot s may hold a message of that many fragments: its buffer is large
\* enough, or a larger one keeps the peer's slots within their budget.
Fits(p, s, total) ==
    \/ total <= p.reassembly[s].capacity
    \/ p.reassembly_bytes - p.reassembly[s].capacity + total <= MaxBytes

\* MUTANT of Claim: the buffer given up stays on the account.
ClaimAgain(p, s, f) ==
    LET capacity == Larger(p.reassembly[s].capacity, f.total) IN
    [p EXCEPT !.reassembly_bytes = @ + capacity,
              !.reassembly[s] = [active |-> TRUE, channel |-> f.channel, id |-> f.id,
                                 total |-> f.total, received |-> {},
                                 started |-> p.packets_received, capacity |-> capacity]]

\* A slot starts on a fragment's message.  Packets stand for the clock: one
\* received later starts later.
Claim(p, s, f) ==
    LET capacity == Larger(p.reassembly[s].capacity, f.total) IN
    [p EXCEPT !.reassembly_bytes = @ - p.reassembly[s].capacity + capacity,
              !.reassembly[s] = [active |-> TRUE, channel |-> f.channel, id |-> f.id,
                                 total |-> f.total, received |-> {},
                                 started |-> p.packets_received, capacity |-> capacity]]

\* The number of the message whose fragments a slot holds; 0 is a mixture.
Whole(slot) == LET from == {<<f.channel, f.n>> : f \in slot.received} IN
               IF Cardinality(from) = 1 THEN (CHOOSE m \in from : TRUE)[2] ELSE 0

\* The fragment is filed; the last one makes the message and frees the slot,
\* whose buffer is kept.
FileFragment(p, s, f) ==
    LET q == [p EXCEPT !.reassembly[s].received = @ \union {f}]
        slot == q.reassembly[s]
        r == TakeMessage(q, f.channel, f.id, Whole(slot)) IN
    IF \/ slot.total # f.total
       \/ \E m \in p.reassembly[s].received : m.index = f.index
    THEN p
    ELSE IF Cardinality(slot.received) < slot.total THEN q
    ELSE IF ~r.occupied THEN r
    ELSE [r EXCEPT !.reassembly[s] = Idle(@)]

\* MUTANT of Matching: ids are compared across channels.
MatchingId(p, f) == {s \in ActiveSlots(p) : p.reassembly[s].id = f.id}

\* The slot, if any, that holds part of the fragment's message.
Matching(p, f) == {s \in ActiveSlots(p) : /\ p.reassembly[s].id = f.id
                                          /\ p.reassembly[s].channel = f.channel}

\* _nya_net_udp_reassemble.
Reassemble(p, f) ==
    LET match == Matching(p, f) IN
    IF match # {} THEN FileFragment(p, CHOOSE s \in match : TRUE, f)
    ELSE IF \/ IsSeen(p, f.channel, f.id)
            \/ f.channel = "reliable" /\ ~Acceptable(p, f.id)
            \/ ~Fits(p, Victim(p), f.total)
    THEN p
    ELSE FileFragment(Claim(p, Victim(p), f), Victim(p), f)

\* The loop of _nya_net_udp_handle_packet over a bundle; a fragment that got the
\* peer dropped ends it.
TakeFragment(p, f) ==
    IF ~p.occupied THEN p
    ELSE IF f.total > 1 THEN Reassemble(p, f)
    ELSE IF f.channel = "reliable" /\ ~Acceptable(p, f.id) THEN p
    ELSE TakeMessage(p, f.channel, f.id, f.n)

\* _nya_net_udp_handle_packet.  A packet is opened with the counter its wire
\* bits widen to, and only the one it was sealed with opens it.
HandlePacket(p, packet) ==
    LET seq == Expand(p.remote_sequence, packet.seq % SeqSpace)
        q == [RecordAck(p, seq) EXCEPT !.packets_received = @ + 1,
                                       !.opened = @ \union {packet.seq}]
        r == RetireReliable(q, packet.reliable_ack)
        taken[i \in 0..Len(packet.fragments)] ==
            IF i = 0 THEN r ELSE TakeFragment(taken[i - 1], packet.fragments[i]) IN
    IF IsReplay(p, seq) \/ seq # packet.seq THEN p
    ELSE IF packet.kind = "disconnect" THEN Removed(r, "requested")
    ELSE taken[Len(packet.fragments)]

(***************************************************************************)
(* The calls of an end                                                     *)
(***************************************************************************)

Becomes(e, p) == /\ Cardinality(p.wire) <= MaxPackets[e]
                 /\ conn' = [conn EXCEPT ![e] = p]

Send(e, c) ==
    /\ conn[e].occupied /\ conn[e].todo[c] # <<>>
    /\ \E due \in SUBSET Sent(conn[e]) : Becomes(e, Sending(conn[e], c, due))

\* _nya_net_udp_flush.
Flush(e) == /\ conn[e].occupied /\ conn[e].outgoing # <<>>
            /\ Becomes(e, FlushPeer(conn[e]))

\* One datagram of _nya_net_udp_receive: any the other end ever sent.
Receive(e) == /\ conn[e].occupied
              /\ \E packet \in conn[Other(e)].wire :
                     Becomes(e, HandlePacket(conn[e], packet))

\* _nya_net_udp_update: partial messages that waited too long are let go, what
\* is due is sent again, the bundle leaves, and when nothing left a packet with
\* the acknowledgements alone may be due.
Update(e) ==
    /\ conn[e].occupied
    /\ \E expired \in SUBSET ActiveSlots(conn[e]), due \in SUBSET Sent(conn[e]), alone \in BOOLEAN :
           LET p == [conn[e] EXCEPT !.reassembly =
                        [s \in Slots |-> IF s \in expired THEN Idle(@[s]) ELSE @[s]]]
               q == FlushPeer(Resend(p, due)) IN
           /\ alone => q.wire = p.wire
           /\ Becomes(e, IF alone THEN SendPacket(q, "data", <<>>) ELSE q)

\* _nya_net_udp_update, with nothing heard for _NYA_NET_UDP_TIMEOUT_MS.
TimeOut(e) == /\ e \in Drops /\ conn[e].occupied
              /\ Becomes(e, Removed(conn[e], "timeout"))

\* _nya_net_udp_disconnect: what was queued goes first.
Disconnect(e) ==
    /\ e \in Drops /\ conn[e].occupied
    /\ Becomes(e, Removed(SendPacket(FlushPeer(conn[e]), "disconnect", <<>>), "caller"))

NetNext == \E e \in Ends :
              \/ \E c \in Channels : Send(e, c)
              \/ Flush(e) \/ Receive(e) \/ Update(e) \/ TimeOut(e) \/ Disconnect(e)

NetSpec == NetInit /\ [][NetNext]_conn

(***************************************************************************)
(* Properties                                                              *)
(***************************************************************************)

\* Every field of a connection has its type and every window its width.
NetTypeOK ==
    \A e \in Ends :
        LET p == conn[e] IN
        /\ p.occupied \in BOOLEAN
        /\ p.reason \in {"none", "timeout", "protocol", "requested", "caller"}
        /\ p.local_sequence \in Nat \ {0} /\ p.remote_sequence \in Nat
        /\ p.ack_bits \subseteq 1..AckWindow
        /\ p.next_message_id \in [Channels -> 0..(IdSpace - 1)]
        /\ p.next_delivery_id \in 0..(IdSpace - 1)
        /\ \A c \in Channels : p.seen[c] \subseteq 0..(SeenWindow - 1)
        /\ \A c \in Channels : p.seen_any[c] => 0 \in p.seen[c]
        /\ Len(p.outgoing_reliable) <= InFlight
        /\ Len(p.outgoing) <= BodyMax
        /\ \A s \in Slots : LET slot == p.reassembly[s] IN
               Cardinality(slot.received) < IF slot.active THEN slot.total ELSE 1

\* Seen from above: the messages sent toward an end and not handed to it yet.
Ordinals(from, to) == [i \in 1..(IF to < from THEN 0 ELSE to - from + 1) |-> from + i - 1]
Numbers == 1..Max({Len(s.plan[e]["reliable"]) : s \in Starts, e \in Ends})
Promise ==
    INSTANCE NetChannel
        WITH End <- Ends,
             Message <- Numbers,
             open <- [e \in Ends |-> conn[Other(e)].occupied],
             pending <- [e \in Ends |-> Ordinals(Len(conn[e].delivered["reliable"]) + 1,
                                                 conn[Other(e)].sent["reliable"])],
             log <- [e \in Ends |-> conn[e].delivered["reliable"]]

\* The reliable channel delivers in order and exactly once in both directions,
\* whatever the network does and however the ids wrap: NetReliable implements
\* NetChannel (the promise of net_types.h).
InOrderOnce == Promise!ChannelSpec

\* No message is forgotten: while both ends are up, one that was not delivered
\* is still outstanding, and sent again it is taken: it is held already, or the
\* receiver neither refuses its id nor believes to have seen it.  One that was
\* delivered is retired by the next acknowledgement.
ResendIsTaken ==
    \A e \in Ends : conn[e].occupied /\ conn[Other(e)].occupied =>
        LET p == conn[e]
            q == conn[Other(e)]
            done == Len(q.delivered["reliable"])
            outstanding == Range(p.outgoing_reliable) IN
        /\ (done + 1)..p.sent["reliable"] \subseteq {m.n : m \in outstanding}
        /\ \A m \in outstanding :
               IF m.n <= done
               THEN ~Implausible(p, q.next_delivery_id) /\ Newer(q.next_delivery_id, m.id)
               ELSE \/ \E h \in Range(q.incoming_reliable) : h.n = m.n
                    \/ Acceptable(q, m.id) /\ ~IsSeen(q, "reliable", m.id)

\* A packet is acted on at most once, however often and late it arrives.
ReplayFree == \A e \in Ends :
    conn[e].occupied => conn[e].packets_received = Cardinality(conn[e].opened)

\* A packet whose number is within half the wire's space of the newest heard is
\* opened with its own counter, also across the wrap and after a gap.
NearestOpens == \A e \in Ends : \A packet \in conn[Other(e)].wire :
    LET newest == conn[e].remote_sequence IN
    conn[e].occupied /\ packet.seq < newest + HalfSeq /\ newest < packet.seq + HalfSeq =>
        Expand(newest, packet.seq % SeqSpace) = packet.seq

\* Neither end is dropped for messages stuck out of order: an honest sender's
\* always fit the reorder buffer.
NeverBlamed == \A e \in Ends : conn[e].reason # "protocol"

\* An honest end is served: what it sends again is taken, not forgotten, refused
\* or held against it.
HonestIsServed == ResendIsTaken /\ NeverBlamed

\* A message is reassembled of its own fragments only, though the two channels
\* number theirs alike and share the slots.
SlotsUnmixed == \A e \in Ends :
    /\ \A s \in ActiveSlots(conn[e]) : Whole(conn[e].reassembly[s]) # 0
    /\ \A m \in Range(conn[e].incoming_reliable) : m.n # 0
    /\ \A c \in Channels : 0 \notin Range(conn[e].delivered[c])

\* reassembly_bytes is what the slots hold, and within its budget.
Held(slots) ==
    LET sum[s \in 0..MaxReassembly] == IF s = 0 THEN 0 ELSE sum[s - 1] + slots[s].capacity
    IN sum[MaxReassembly]
BytesHonest == \A e \in Ends :
    /\ conn[e].reassembly_bytes = Held(conn[e].reassembly)
    /\ conn[e].reassembly_bytes <= MaxBytes

\* The wire is read as it was written: every packet is acted on once, under the counter
\* it was sealed with, and messages in fragments come out whole, the memory they take
\* accounted for.
WireHonest == ReplayFree /\ NearestOpens /\ SlotsUnmixed /\ BytesHonest

=============================================================================
