------------------------------ MODULE Outbound ------------------------------
(***************************************************************************)
(* nya_request_perform of nyangine-plugins/curl/request.c: one thread that *)
(* makes requests to one host, one after the other, behind the rate        *)
(* limiter (Rate) and the circuit breaker (Circuit) it shares between      *)
(* them, and that retries what is worth retrying.                          *)
(***************************************************************************)
EXTENDS Circuit, Rate

CONSTANTS
    Host,          \* the rate key, a key of the breaker and of the limiter
    Requests,      \* [safe, limited, guarded]: see Request
    MaxRetries,    \* retries
    MaxWait,       \* NYA_RATE_MAX_WAIT_MS
    Guess,         \* the wait of a 429 that names none
    MaxBackoff     \* bound: the longest backoff

\* safe: an idempotent method, or retry_unsafe_methods.
Request == [safe : BOOLEAN, limited : BOOLEAN, guarded : BOOLEAN]

ASSUME OutboundAssumption ==
    /\ Host \in Deps \cap Routes /\ Requests \subseteq Request
    /\ MaxRetries \in Nat /\ MaxWait \in Nat \ {0} /\ Guess \in 1 .. MaxHold
    /\ MaxBackoff \in Nat

\* What comes back: 2xx, 429, 408 or 425, 5xx, status zero, or any other status.
\* A 429 was not acted on; of the others only "ok" says.
Statuses == {"ok", "busy", "early", "error", "lost", "final"}
Reply == [status : Statuses, wait : 0 .. MaxHold]

VARIABLES
    pc,        \* "idle", "budget", "gate", "send", "learn"
    request,   \* the argument
    attempt,
    waited,    \* waited_ms of this attempt's nya_rate_wait
    nap,       \* what is left of the sleep the thread is in
    reply,     \* out_response
    acted,     \* history: how often the server acted on this request
    asks       \* history: what is left of the wait the server asked limited requests for

callVars == <<pc, request, attempt, waited, nap, reply, acted, asks>>
outboundVars == <<circuitVars, rateVars, callVars>>

NoReply == [status |-> "lost", wait |-> 0]

CallInit ==
    /\ pc = "idle" /\ request \in Requests
    /\ attempt = 0 /\ waited = 0 /\ nap = 0 /\ reply = NoReply /\ acted = 0
    /\ asks = 0

\* The program calls again.
Call(r) ==
    /\ pc = "idle"
    /\ pc' = "budget" /\ request' = r
    /\ attempt' = 0 /\ waited' = 0 /\ acted' = 0 /\ reply' = NoReply
    /\ UNCHANGED <<nap, asks, circuitVars, rateVars>>

Awake(step) == pc = step /\ nap = 0

NoBudget ==
    /\ Awake("budget") /\ ~request.limited
    /\ pc' = "gate"
    /\ UNCHANGED <<request, attempt, waited, nap, reply, acted, asks, circuitVars, rateVars>>

\* nya_rate_wait, one take: it goes, sleeps and asks again, or sleeps what is
\* left of the longest wait and goes.  nya_request_perform does not look at
\* which it was.
Budget(wait) ==
    /\ Awake("budget") /\ request.limited
    /\ Take(Host, wait)
    /\ LET left == MaxWait - waited
           over == wait > left
       IN  /\ nap' = IF over THEN left ELSE wait
           /\ waited' = IF over THEN MaxWait ELSE waited + wait
           /\ pc' = IF wait = 0 \/ over THEN "gate" ELSE "budget"
    /\ UNCHANGED <<request, attempt, reply, acted, asks, circuitVars>>

Guarded == Awake("gate") /\ request.guarded

GateOpen ==
    /\ Guarded /\ Allow(Host, TRUE)
    /\ pc' = "send"
    /\ UNCHANGED <<request, attempt, waited, nap, reply, acted, asks, rateVars>>

\* Fails fast: no socket, and the call is over.
GateShut ==
    /\ Guarded /\ Allow(Host, FALSE)
    /\ pc' = "idle" /\ reply' = NoReply
    /\ UNCHANGED <<request, attempt, waited, nap, acted, asks, rateVars>>

NoGate ==
    /\ Awake("gate") /\ ~request.guarded
    /\ pc' = "send"
    /\ UNCHANGED <<request, attempt, waited, nap, reply, acted, asks, circuitVars, rateVars>>

\* _nya_request_perform_once: the server acts or does not, the answer arrives
\* or does not.
Exchange(r, acts) ==
    /\ pc = "send"
    /\ r.status = "ok" => acts
    /\ r.status = "busy" => ~acts
    /\ pc' = "learn" /\ reply' = r
    /\ acted' = acted + IF acts THEN 1 ELSE 0
    /\ asks' = IF r.status = "busy" /\ request.limited THEN Greater(asks, r.wait) ELSE asks
    /\ UNCHANGED <<request, attempt, waited, nap, circuitVars, rateVars>>

\* An answer that was not a 429 may carry what remains and when that resets.
Counts == reply.status # "lost" /\ \E n \in 0 .. Burst : Observed(Host, n, reply.wait)

\* MUTANT of Learn: a 429 is read like any other answer.
LearnCountsOnly == IF request.limited THEN UNCHANGED rateVars \/ Counts ELSE UNCHANGED rateVars

\* What a 429 asks for; a zero it named, or it named nothing.
Waits == IF reply.wait > 0 THEN {reply.wait} ELSE {0, Guess}

\* _nya_request_rate_learn: a 429 holds the bucket, for a guess when it names no wait.
Learn ==
    CASE ~request.limited -> UNCHANGED rateVars
      [] request.limited /\ reply.status = "busy" ->
            \E wait \in Waits : Told(Host, wait)
      [] OTHER -> UNCHANGED rateVars \/ Counts

\* Any answer below 500.
HostIsUp == reply.status \notin {"error", "lost"}

Train ==
    IF request.guarded
    THEN \E kind \in Kinds : Report(Host, kind, HostIsUp)
    ELSE UNCHANGED circuitVars

\* MUTANT of Resends: an error answer is taken for a refusal to act.
ResendsErrors ==
    /\ attempt < MaxRetries
    /\ \/ reply.status \in {"busy", "error"}
       \/ reply.status \in {"early", "lost"} /\ request.safe

\* nya_retry_is_worthwhile, and whether sending twice may act twice.
Resends ==
    /\ attempt < MaxRetries
    /\ \/ reply.status = "busy"
       \/ reply.status \in {"early", "error", "lost"} /\ request.safe

Settles ==
    /\ pc = "learn" /\ Learn /\ Train
    /\ ~Resends
    /\ pc' = "idle"
    /\ UNCHANGED <<request, attempt, waited, nap, reply, acted, asks>>

\* MUTANT of Again: a 429 is not counted as an attempt.
AgainFree(sleep) ==
    /\ pc = "learn" /\ Learn /\ Train
    /\ Resends
    /\ pc' = "budget" /\ waited' = 0 /\ nap' = sleep
    /\ attempt' = IF reply.status = "busy" THEN attempt ELSE attempt + 1
    /\ UNCHANGED <<request, reply, acted, asks>>

\* The next attempt, after a sleep.
Again(sleep) ==
    /\ pc = "learn" /\ Learn /\ Train
    /\ Resends
    /\ pc' = "budget" /\ waited' = 0 /\ nap' = sleep
    /\ attempt' = attempt + 1
    /\ UNCHANGED <<request, reply, acted, asks>>

\* A limiter holds what a 429 said; without one the thread sleeps it here.
Retries ==
    \/ /\ reply.status = "busy" /\ request.limited
       /\ Again(0)
    \/ /\ reply.status = "busy" /\ ~request.limited
       /\ \E wait \in Waits : Again(Lesser(MaxWait, wait))
    \/ /\ reply.status # "busy"
       /\ \E sleep \in 0 .. MaxBackoff : Again(sleep)

CallTick ==
    /\ CircuitTick /\ RateTick
    /\ nap' = Down(nap) /\ asks' = Down(asks)
    /\ UNCHANGED <<pc, request, attempt, waited, reply, acted>>

CallSteps ==
    \/ NoBudget \/ \E wait \in 0 .. Greater(MaxHold, Period) : Budget(wait)
    \/ GateOpen \/ GateShut \/ NoGate
    \/ \E r \in Reply, acts \in BOOLEAN : Exchange(r, acts)
    \/ Settles \/ Retries

CallNext == \/ \E r \in Requests : Call(r)
            \/ CallSteps \/ CallTick

\* An exchange ends, with an answer or without; the thread runs; time passes.
CallFair == WF_outboundVars(CallSteps) /\ WF_outboundVars(CallTick)

CallSpec ==
    CircuitInit /\ RateInit /\ CallInit /\ [][CallNext]_outboundVars /\ CallFair

-----------------------------------------------------------------------------

CallTypeOK ==
    /\ pc \in {"idle", "budget", "gate", "send", "learn"} /\ request \in Request
    /\ attempt \in 0 .. MaxRetries /\ waited \in 0 .. MaxWait
    /\ nap \in Nat /\ reply \in Reply /\ acted \in Nat /\ asks \in 0 .. MaxHold

\* A request that may not be sent twice is acted on once at most, however its
\* answers are lost and however often it is sent.
ActedOnce == ~request.safe => acted <= 1

\* No attempt, a retry included, reaches a host within a cooldown of the last
\* failure that tripped its breaker or came after; nor while the server's wait
\* runs, except after a whole MaxWait of waiting for it, when nya_rate_wait
\* gives up and its answer is not looked at.
AttemptsAreGated ==
    [][pc = "send" /\ pc' = "learn" =>
        /\ request.guarded => quiet[Host] = OpenFor
        /\ request.limited => asks = 0 \/ waited = MaxWait]_outboundVars

\* Every call ends, whatever the server answers and for however long.
CallEnds == pc # "idle" ~> pc = "idle"

=============================================================================
