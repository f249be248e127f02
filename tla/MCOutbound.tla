----------------------------- MODULE MCOutbound -----------------------------
(***************************************************************************)
(* The breaker and the limiter under callers of their own, several keys    *)
(* each, and under nya_request_perform with one host: an initial state     *)
(* picks which of the three moves.                                         *)
(***************************************************************************)
EXTENDS Outbound

VARIABLE machine

mcVars == <<machine, outboundVars>>

\* A safe one behind both; unsafe ones behind each alone.
MCRequests == {[safe |-> TRUE, limited |-> TRUE, guarded |-> TRUE],
               [safe |-> FALSE, limited |-> TRUE, guarded |-> FALSE],
               [safe |-> FALSE, limited |-> FALSE, guarded |-> TRUE]}

MCInit ==
    /\ machine \in {"circuit", "rate", "outbound"}
    /\ CircuitInit /\ RateInit /\ CallInit
    /\ request = [safe |-> FALSE, limited |-> TRUE, guarded |-> FALSE]

CircuitMoves(step) == machine = "circuit" /\ step /\ UNCHANGED <<machine, rateVars, callVars>>
RateMoves(step) == machine = "rate" /\ step /\ UNCHANGED <<machine, circuitVars, callVars>>
OutboundMoves(step) == machine = "outbound" /\ step /\ UNCHANGED machine

MCNext ==
    \/ CircuitMoves(CircuitNext) \/ RateMoves(RateNext) \/ OutboundMoves(CallNext)

\* CircuitFair and CallFair, each where it moves.
MCFair ==
    /\ WF_mcVars(CircuitMoves(CircuitTick))
    /\ \A k \in Deps :
        /\ WF_mcVars(CircuitMoves(\E go \in BOOLEAN : Allow(k, go)))
        /\ WF_mcVars(CircuitMoves(\E kind \in Kinds, ok \in BOOLEAN : Report(k, kind, ok)))
    /\ WF_mcVars(OutboundMoves(CallSteps))
    /\ WF_mcVars(OutboundMoves(CallTick))

MCSpec == MCInit /\ [][MCNext]_mcVars /\ MCFair

=============================================================================
