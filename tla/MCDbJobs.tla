------------------------------ MODULE MCDbJobs ------------------------------
(***************************************************************************)
(* Small instances of DbJobs for TLC: the options producers enqueue with.  *)
(***************************************************************************)
EXTENDS DbJobs, TLC

CONSTANTS w1, w2, p1, k1

OneShot == [delay |-> 0, life |-> 0, max |-> 2, key |-> NoKey,
            replace |-> FALSE, recur |-> 0, cron |-> 0]

\* A keyed one-shot with a deadline; a replacing recurring job under the same
\* key, its first run delayed, with the default ceiling; a cron job with a
\* deadline, whose interval is ignored; and a cron spec with no firing whose
\* first run the caller pinned.
MCMixed ==
    {[OneShot EXCEPT !.key = k1, !.life = 2],
     [OneShot EXCEPT !.key = k1, !.replace = TRUE, !.max = 0, !.delay = 1, !.recur = 2],
     [OneShot EXCEPT !.cron = 2, !.recur = 1, !.life = 3],
     [OneShot EXCEPT !.cron = Unsatisfiable, !.delay = 1]}

MCPlain == {OneShot}

Symmetry == Permutations(Workers)

=============================================================================
