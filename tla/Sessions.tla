------------------------------ MODULE Sessions ------------------------------
(***************************************************************************)
(* The sessions of one user (nyangine-core/accounts/accounts_session.c).   *)
(* One thread owns the tables, so a call is not disturbed by another; a    *)
(* call that writes several rows writes them in statements of their own,   *)
(* and may end between two of them, by an error or with the process.       *)
(***************************************************************************)
EXTENDS Integers, FiniteSets

CONSTANTS
    IdleFor, Absolute,   \* NYA_ACCOUNTS_SESSION_IDLE_S, _ABSOLUTE_S
    Slack,               \* 60 s: a use is written at most this often
    MaxSessions,         \* NYA_ACCOUNTS_MAX_SESSIONS_PER_USER
    KeepRevoked,         \* NYA_ACCOUNTS_SESSION_KEEP_REVOKED
    MaxIds, MaxTurns,    \* bounds: sessions issued, rotations of one
    MaxNow               \* bound on the clock

ASSUME SessionsAssumption ==
    /\ IdleFor \in Nat /\ Absolute \in Nat /\ Slack \in Nat /\ Slack < IdleFor
    /\ MaxSessions \in Nat \ {0} /\ KeepRevoked \in Nat
    /\ MaxIds \in Nat /\ MaxTurns \in Nat /\ MaxNow \in Nat

VARIABLES
    now,        \* nya_clock_get_timestamp_s
    sessions,   \* the table, by id; a token is the row's id and a turn
    disabled,   \* the user's row
    work,       \* the call that has statements left, and the rows they are for
    lastId,
    lastUse,    \* history: when a validate or a rotate last accepted a token
    ended       \* history: sessions that a call that succeeded has ended

sessionVars == <<now, sessions, disabled, work, lastId, lastUse, ended>>

Ids == 1 .. MaxIds
Session == [turn : 0 .. MaxTurns, created : Nat, used : Nat, expires : Nat, revoked : BOOLEAN]
NoWork == [call |-> "none", left |-> {}]
Free == work.call = "none"

Sooner(a, b) == IF a < b THEN a ELSE b

SessionsInit ==
    /\ now = IdleFor /\ sessions = [i \in {} |-> NoWork] /\ disabled = FALSE
    /\ work = NoWork /\ lastId = 0
    /\ lastUse = [i \in Ids |-> 0] /\ ended = {}

\* _nya_account_session_is_live
Live(s) == ~s.revoked /\ now < s.expires /\ now < s.created + Absolute

LiveIds == {i \in DOMAIN sessions : Live(sessions[i])}
Older(i, j) == \/ sessions[i].used < sessions[j].used
               \/ sessions[i].used = sessions[j].used /\ i < j

\* MUTANT of Trimmed: room is left for the sessions there are, not for the new one.
TrimmedLate == {i \in LiveIds : Cardinality({j \in LiveIds : Older(i, j)}) >= MaxSessions}

\* The oldest live sessions, until there is room for one more.
Trimmed == {i \in LiveIds : Cardinality({j \in LiveIds : Older(i, j)}) >= MaxSessions - 1}

Starts(call, left) == work' = [call |-> call, left |-> left]

Issue ==
    /\ Free /\ ~disabled /\ lastId < MaxIds
    /\ Starts("issue", Trimmed)
    /\ UNCHANGED <<now, sessions, disabled, lastId, lastUse, ended>>

Inserts ==
    /\ work.call = "issue" /\ work.left = {}
    /\ lastId' = lastId + 1
    /\ sessions' = [i \in DOMAIN sessions \cup {lastId + 1} |->
                       IF i \in DOMAIN sessions THEN sessions[i]
                       ELSE [turn |-> 0, created |-> now, used |-> now,
                             expires |-> now + IdleFor, revoked |-> FALSE]]
    /\ lastUse' = [lastUse EXCEPT ![lastId + 1] = now]
    /\ work' = NoWork
    /\ UNCHANGED <<now, disabled, ended>>

\* MUTANT of Pushed: the date of the last use moves, the expiry does not.
PushedHalf(s) == [s EXCEPT !.used = now]

\* The idle expiry slides, bounded by the absolute one.
Pushed(s) == [s EXCEPT !.used = now, !.expires = Sooner(now + IdleFor, s.created + Absolute)]

Accepts(i, turn) ==
    /\ i \in DOMAIN sessions /\ sessions[i].turn = turn
    /\ Live(sessions[i]) /\ ~disabled

\* A token that is not accepted changes nothing.
Validate(i, turn) ==
    /\ Free /\ Accepts(i, turn)
    /\ sessions' = IF now > sessions[i].used + Slack
                   THEN [sessions EXCEPT ![i] = Pushed(@)] ELSE sessions
    /\ lastUse' = [lastUse EXCEPT ![i] = now]
    /\ UNCHANGED <<now, disabled, work, lastId, ended>>

\* The token the session was last rotated away from.
Retired(i, turn) == i \in DOMAIN sessions /\ ~sessions[i].revoked /\ sessions[i].turn = turn + 1

\* It is in two hands: the session ends, expired or not.
Replay(i, turn) ==
    /\ Free /\ Retired(i, turn)
    /\ sessions' = [sessions EXCEPT ![i].revoked = TRUE]
    /\ ended' = ended \cup {i}
    /\ UNCHANGED <<now, disabled, work, lastId, lastUse>>

Rotate(i, turn) ==
    /\ Free /\ Accepts(i, turn) /\ turn < MaxTurns
    /\ sessions' = [sessions EXCEPT ![i] = [Pushed(@) EXCEPT !.turn = turn + 1]]
    /\ lastUse' = [lastUse EXCEPT ![i] = now]
    /\ UNCHANGED <<now, disabled, work, lastId, ended>>

Revoke(i) ==
    /\ Free /\ i \in DOMAIN sessions
    /\ sessions' = [sessions EXCEPT ![i].revoked = TRUE]
    /\ ended' = ended \cup {i}
    /\ UNCHANGED <<now, disabled, work, lastId, lastUse>>

Unrevoked == {i \in DOMAIN sessions : ~sessions[i].revoked}

\* nya_account_session_revoke_all, by itself or after the user's row was
\* written: a changed password, or the user disabled.
RevokeAll(disables) ==
    /\ Free
    /\ disabled' = (disabled \/ disables)
    /\ Starts("revoke_all", Unrevoked)
    /\ UNCHANGED <<now, sessions, lastId, lastUse, ended>>

RevokedAll ==
    /\ work.call = "revoke_all" /\ work.left = {}
    /\ work' = NoWork
    /\ ended' = ended \cup DOMAIN sessions
    /\ UNCHANGED <<now, sessions, disabled, lastId, lastUse>>

Enable ==
    /\ Free /\ disabled
    /\ disabled' = FALSE
    /\ UNCHANGED <<now, sessions, work, lastId, lastUse, ended>>

\* MUTANT of Abandoned: the date of the start is compared.
AbandonedOld == {i \in Unrevoked : sessions[i].created <= now - IdleFor}

Abandoned == {i \in Unrevoked : sessions[i].used <= now - IdleFor}

Sweep ==
    /\ Free
    /\ Starts("sweep", Abandoned)
    /\ UNCHANGED <<now, sessions, disabled, lastId, lastUse, ended>>

\* The sweep goes on to forget revoked rows past the newest few.
Forgets ==
    /\ work.call = "sweep" /\ work.left = {}
    /\ LET dead == DOMAIN sessions \ Unrevoked
       IN  Starts("delete", {i \in dead : Cardinality({j \in dead : Older(i, j)}) >= KeepRevoked})
    /\ UNCHANGED <<now, sessions, disabled, lastId, lastUse, ended>>

\* nya_account_session_prune
Prune(keepFor) ==
    /\ Free
    /\ LET cutoff == IF now > keepFor THEN now - keepFor ELSE 0
       IN  Starts("delete", {i \in DOMAIN sessions :
                                 \/ sessions[i].expires <= cutoff
                                 \/ sessions[i].revoked /\ sessions[i].used <= cutoff})
    /\ UNCHANGED <<now, sessions, disabled, lastId, lastUse, ended>>

\* nya_account_session_purge
Purge ==
    /\ Free
    /\ Starts("purge", DOMAIN sessions)
    /\ UNCHANGED <<now, sessions, disabled, lastId, lastUse, ended>>

\* One statement of a call that ends sessions, or of one that deletes rows.
EndsOne(i) ==
    /\ work.call \in {"issue", "revoke_all", "sweep"} /\ i \in work.left
    /\ sessions' = [sessions EXCEPT ![i].revoked = TRUE]
    /\ work' = [work EXCEPT !.left = @ \ {i}]
    /\ UNCHANGED <<now, disabled, lastId, lastUse, ended>>

DeletesOne(i) ==
    /\ work.call \in {"delete", "purge"} /\ i \in work.left
    /\ sessions' = [j \in DOMAIN sessions \ {i} |-> sessions[j]]
    /\ work' = [work EXCEPT !.left = @ \ {i}]
    /\ UNCHANGED <<now, disabled, lastId, lastUse, ended>>

Deleted ==
    /\ work.call \in {"delete", "purge"} /\ work.left = {}
    /\ work' = NoWork
    /\ UNCHANGED <<now, sessions, disabled, lastId, lastUse, ended>>

\* A statement fails and the call returns its error, or the process dies: what
\* was written stays.
Abandons ==
    /\ ~Free /\ work' = NoWork
    /\ UNCHANGED <<now, sessions, disabled, lastId, lastUse, ended>>

SessionsTick ==
    /\ now < MaxNow /\ now' = now + 1
    /\ UNCHANGED <<sessions, disabled, work, lastId, lastUse, ended>>

SessionsNext ==
    \/ Issue \/ Inserts
    \/ \E i \in Ids, turn \in 0 .. MaxTurns :
           Validate(i, turn) \/ Replay(i, turn) \/ Rotate(i, turn)
    \/ \E i \in Ids : Revoke(i) \/ EndsOne(i) \/ DeletesOne(i)
    \/ \E disables \in BOOLEAN : RevokeAll(disables)
    \/ RevokedAll \/ Enable \/ Sweep \/ Forgets
    \/ \E keepFor \in 0 .. IdleFor : Prune(keepFor)
    \/ Purge \/ Deleted \/ Abandons \/ SessionsTick

SessionsSpec == SessionsInit /\ [][SessionsNext]_sessionVars

-----------------------------------------------------------------------------

SessionsTypeOK ==
    /\ DOMAIN sessions \subseteq 1 .. lastId
    /\ \A i \in DOMAIN sessions : sessions[i] \in Session
    /\ work.left \subseteq DOMAIN sessions /\ ended \subseteq Ids

\* A user never has more live sessions than the limit, whichever of them
\* expired, were extended or ended meanwhile, and wherever an issue stopped.
SessionCap == Cardinality(LiveIds) <= MaxSessions

\* A session in use does not run out: though a use is written only now and
\* then, one that was accepted within the idle time (less the slack) is accepted
\* again, until its absolute end or until somebody ends it.
UsedStays ==
    \A i \in Unrevoked :
        /\ now < lastUse[i] + IdleFor - Slack
        /\ now < sessions[i].created + Absolute
        => Live(sessions[i])

\* What a revoke, a password change, a disabling or a replayed token ended stays
\* ended, through rotations, an enabled user and every crash.
EndedForGood == \A i \in ended \cap DOMAIN sessions : sessions[i].revoked

\* A session lives for as long as it was promised and no longer, beside no more of
\* them than the limit.
LivesAsPromised == SessionCap /\ UsedStays /\ EndedForGood

\* The housekeeping neither revokes nor deletes a session a token would still open.
HousekeepingSparesLive ==
    [][\A i \in DOMAIN sessions :
           /\ work.call \in {"sweep", "delete"}
           /\ i \notin DOMAIN sessions' \/ (sessions'[i].revoked /\ ~sessions[i].revoked)
           => ~Live(sessions[i])]_sessionVars

=============================================================================
