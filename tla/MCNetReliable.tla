---------------------------- MODULE MCNetReliable ----------------------------
(* Instances of NetReliable for TLC: the client talks, the server answers.   *)
EXTENDS NetReliable

CONSTANTS ClientPackets, ServerPackets

MCEnds == {"client", "server"}
MCPackets == [client |-> ClientPackets, server |-> ServerPackets]
Talk(carried, reliable, unreliable) ==
    [carried |-> carried,
     plan |-> [client |-> [reliable |-> reliable, unreliable |-> unreliable],
               server |-> [reliable |-> <<>>, unreliable |-> <<>>]]]

\* Short messages around one in two fragments, across the wrap of ids and packet
\* numbers; or a fresh connection and two messages in fragments, one unreliable,
\* that have the same id and want the same slot.
OrderStarts == {Talk(19, <<1, 2, 1>>, <<>>), Talk(0, <<2, 1>>, <<2>>)}
=============================================================================
