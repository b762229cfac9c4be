------------------------------ MODULE MCQueues ------------------------------
(***************************************************************************)
(* Small instances of the two job queues: the in-process one and the one   *)
(* in Redis and the database.  They share no state, so a behaviour         *)
(* exercises one of them and leaves the other where it starts.             *)
(***************************************************************************)
EXTENDS JobQueueProofs, RedisProofs, TLC

VARIABLE service       \* the one this behaviour exercises

redisVars == <<submission, row, queue, processing, held, task, canceller, faults, stops,
               executed>>
allVars == <<service, vars, redisVars>>

Unlimited == [concurrency |-> 1, max_starts |-> None, per_secs |-> 0]

OnePerTwo == [concurrency |-> 2, max_starts |-> 1, per_secs |-> 2]

MCConfigs == {Unlimited, OnePerTwo}

MCDelay == <<1, 1>>

MCInit == service \in {"in_process", "redis"} /\ Init /\ Redis!Init

MCNext ==
    \/ service = "in_process" /\ Next /\ UNCHANGED <<service, redisVars>>
    \/ service = "redis" /\ Redis!Next /\ UNCHANGED <<service, vars>>

MCSpec == MCInit /\ [][MCNext]_allVars

\* Workers, the same of both queues, jobs and permits are interchangeable.
Symmetry == Permutations(Workers) \union Permutations(JobIds) \union Permutations(Tasks)

-----------------------------------------------------------------------------

\* A failed job with retries left is queued again.
FailedIsRetried == Redis!FailedIsRetried
=============================================================================
