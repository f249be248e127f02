----------------------------- MODULE NetChannel -----------------------------
(***************************************************************************)
(* What NYA_NET_CHANNEL_RELIABLE promises of a connection                  *)
(* (nyangine-core/net/net_types.h): "Delivered, in order, exactly once, or *)
(* the peer is dropped trying."  Each end is handed one sequence.          *)
(***************************************************************************)
EXTENDS Naturals, Sequences

CONSTANTS End, Message

VARIABLES
    open,       \* whether the sender toward an end still has it as a peer
    pending,    \* sent toward an end and not delivered yet, oldest first
    log         \* what an end was handed

ChannelInit == /\ open = [e \in End |-> TRUE]
               /\ pending = [e \in End |-> <<>>]
               /\ log = [e \in End |-> <<>>]

\* nya_net_transport_send accepts a message.
Put(e) == /\ open[e]
          /\ \E m \in Message : pending' = [pending EXCEPT ![e] = Append(@, m)]
          /\ UNCHANGED <<open, log>>

\* A run of the oldest messages is handed over: a gap that fills releases all
\* that waited behind it.
Take(e) == /\ \E k \in 1..Len(pending[e]) :
                 /\ log' = [log EXCEPT ![e] = @ \o SubSeq(pending[e], 1, k)]
                 /\ pending' = [pending EXCEPT ![e] = SubSeq(@, k + 1, Len(@))]
           /\ UNCHANGED open

\* The sender drops the peer; what is on the wire may still arrive.
Drop(e) == /\ open[e] /\ open' = [open EXCEPT ![e] = FALSE]
           /\ UNCHANGED <<pending, log>>

ChannelSpec == /\ ChannelInit
               /\ [][\E e \in End : Put(e) \/ Take(e) \/ Drop(e)]_<<open, pending, log>>
=============================================================================
