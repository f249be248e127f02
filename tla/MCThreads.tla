------------------------------ MODULE MCThreads ------------------------------
(***************************************************************************)
(* The parts that run threads of their own, side by side: the HTTP server  *)
(* and the job pool.  An initial state picks the one that moves and, of    *)
(* the server, a scene: who connects with what, the workers there are, and *)
(* what besides may happen.                                                *)
(***************************************************************************)
EXTENDS HttpServer, JobSystem, TLC

CONSTANTS w1, w2, p1, p2, p3

VARIABLES machine, happens

mcVars == <<machine, happens, serverVars, jobVars>>

MCPriorities == {0, 2}      \* NYA_JOB_PRIORITY_LOW and NYA_JOB_PRIORITY_HIGH
MCPools == {{}, {w1}, {w1, w2}}

Get == [to |-> "worker", keep |-> TRUE]
Last == [to |-> "worker", keep |-> FALSE]
Frame == [to |-> "main", keep |-> TRUE]
Handshake == [to |-> "upgrade", keep |-> TRUE]
Nonsense == [to |-> "nowhere", keep |-> TRUE]
Stays == <<>>               \* a peer that never connects

Scene(workers, first, second, third, events) ==
    [pool |-> workers, scripts |-> (p1 :> first @@ p2 :> second @@ p3 :> third),
     events |-> events]

Scenes == {
    Scene({w1, w2}, <<Get, Frame>>, <<Handshake>>, Stays, {}),
    Scene({w1, w2}, <<Get>>, <<Handshake>>, Stays, {"drain"}),
    Scene({w1}, <<Get, Frame>>, Stays, Stays, {"drain", "shut"}),
    Scene({w1, w2}, <<Get>>, <<Frame>>, Stays, {"stop", "hang"}),
    Scene({w1}, <<Get>>, <<Part, Last>>, Stays, {"age", "break"}),
    Scene({w1}, <<Frame>>, <<Handshake>>, Stays, {"age", "break"}),
    Scene({w1}, <<Get, Get>>, <<Get, Nonsense>>, Stays, {"shut"}),
    Scene({w1}, <<Last>>, <<Get>>, <<Get>>, {}),
    Scene({w1}, <<Get, Get, Get>>, Stays, Stays, {"shut"}),
    Scene({w1}, <<Get, Get, Handshake>>, Stays, Stays, {"shut"}),
    Scene({}, <<Get, Frame>>, <<Handshake>>, Stays, {"drain", "age"}),
    Scene({}, <<Get, Get>>, <<Part, Last>>, Stays, {"shut", "break"})}

MCScripts == UNION {{s.scripts[p] : p \in Peers} : s \in Scenes}

MCInit ==
    /\ machine \in {"server", "jobs"}
    /\ ServerInit /\ JobInit
    /\ \E s \in Scenes :
          pool = s.pool /\ happens = s.events /\ \A p \in Peers : peer[p].script = s.scripts[p]
    /\ machine = "jobs" => happens = {"drain", "shut"}

\* Only what the scene allows.
InScene ==
    /\ \A p \in Peers : peer[p].script = Stays => peer'[p].state = "away"
    /\ "age" \in happens \/ \A i \in Places : conn'[i].aged => conn[i].aged
    /\ "break" \in happens \/ \A p \in Peers : peer'[p].state # "reset"
    /\ "shut" \in happens \/ \A p \in Peers : ~ peer'[p].shut
    /\ "drain" \in happens \/ ~ (server'.draining \/ server'.signalled)
    /\ "stop" \in happens \/ ~ server'.stopping
    /\ "hang" \in happens \/ \A w \in Workers : worker'[w].at # "stuck"

ServerMoves(step) ==
    machine = "server" /\ step /\ InScene /\ UNCHANGED <<machine, happens, jobVars>>
JobsMove(step) == machine = "jobs" /\ step /\ UNCHANGED <<machine, happens, serverVars>>

MCNext == ServerMoves(ServerNext) \/ JobsMove(JobNext)

\* ServerFair and JobFairness, each where it moves.
MCFair ==
    /\ []<>~(machine = "server" /\ MayPass) \/ []<><<TRUE>>_pass
    /\ WF_mcVars(ServerMoves(MainStep)) /\ WF_mcVars(ServerMoves(DeinitStep))
    /\ SF_mcVars(ServerMoves(NeedsLock))
    /\ \A w \in Workers : WF_mcVars(ServerMoves(WorkerStep(w)))
    /\ \A p \in Peers : WF_peer(machine = "server" /\ Reads(p))
    /\ WF_mcVars(JobsMove(SystemInit)) /\ WF_mcVars(JobsMove(Scheduler))
    /\ WF_mcVars(JobsMove(Deinit))
    /\ \A s \in Slots : WF_mcVars(JobsMove(JobReturns(s)))

MCSpec == MCInit /\ [][MCNext]_mcVars /\ MCFair

=============================================================================
