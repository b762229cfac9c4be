----------------------------- MODULE MCProgress -----------------------------
(***************************************************************************)
(* Small instances for what must happen in the end, under the fairness     *)
(* each service justifies.  The services share no state, so a behaviour    *)
(* exercises one of them and leaves the others where they start.           *)
(***************************************************************************)
EXTENDS Idempotency, Sequences

VARIABLES
    service,                            \* the one this behaviour exercises
    now, txs, lock, events, relay, log, parked, crashes, requeues,      \* outbox
    jobs, configs, starts, next_run, last_fire, worker, clock, ran, failed_at, retries,
    panics,                             \* in-process queue
    submission, row, queue, processing, held, task, canceller, faults, stops,
    executed,                           \* queue in Redis
    endpoints, deliveries, passes, replays, failed                      \* webhooks

outboxVars == <<now, txs, lock, events, relay, log, parked, crashes, requeues>>
queueVars == <<jobs, configs, starts, next_run, last_fire, worker, clock, ran, failed_at, retries,
               panics>>
redisVars == <<submission, row, queue, processing, held, task, canceller, faults, stops,
               executed>>
hookVars == <<endpoints, deliveries, passes, replays, failed>>
allVars == <<service, outboxVars, vars, queueVars, redisVars, hookVars>>

Relays == {"r"}
Txs == {"s", "t"}
Workers == {"v", "w"}
Tasks == {"p"}

Relaying ==
    INSTANCE Outbox WITH Aggregates <- {1, 2}, Keys <- {"k", "l"}, max_attempts <- 2,
        batch_size <- 1, MaxClock <- 0, MaxAppends <- 1, MaxCrashes <- 1, MaxRequeues <- 1,
        clock <- now

InProcess ==
    INSTANCE JobQueue WITH Queues <- {"q"}, Priorities <- {1, 2}, Configs <- {},
        DefaultConfig <- [concurrency |-> 1, max_starts |-> None, per_secs |-> 0],
        MaxAttempts <- 2, Delay <- <<0>>, CronTimes <- {1}, CronQueue <- "q",
        CronPriority <- 2, Modes <- {"direct"},
        MaxJobs <- 2, MaxTime <- 1, MaxRetries <- 0, MaxPanics <- 0

Redis ==
    INSTANCE Jobs WITH Ids <- {"i", "j"}, Workers <- {"w"}, MaxFaults <- 0, MaxStops <- 0,
        ran <- executed

Passes == {"p", "q"}

Hooks ==
    INSTANCE Webhooks WITH Endpoints <- {"e"}, Events <- {"x"}, Retries <- 1, MaxReplays <- 1

MCInit ==
    /\ service \in {"outbox", "keys", "in_process", "redis", "webhooks"}
    /\ Init /\ Relaying!Init /\ InProcess!Init /\ Redis!Init /\ Hooks!Init
    /\ service = "keys" \/ \A r \in Requests : request[r].fingerprint = CHOOSE f \in Fingerprints : TRUE

MCNext ==
    \/ service = "outbox" /\ Relaying!Next
         /\ UNCHANGED <<service, vars, queueVars, redisVars, hookVars>>
    \/ service = "keys" /\ Next
         /\ UNCHANGED <<service, outboxVars, queueVars, redisVars, hookVars>>
    \/ service = "in_process" /\ InProcess!Next
         /\ UNCHANGED <<service, outboxVars, vars, redisVars, hookVars>>
    \/ service = "redis" /\ Redis!Next
         /\ UNCHANGED <<service, outboxVars, vars, queueVars, hookVars>>
    \/ service = "webhooks" /\ Hooks!Next
         /\ UNCHANGED <<service, outboxVars, vars, queueVars, redisVars>>

\* The fairness of each service, asked of the one that is exercised.
OutboxFairness ==
    /\ \A t \in Txs : WF_outboxVars(service = "outbox" /\ Relaying!CommitStep(t))
    /\ \A r \in Relays : /\ WF_outboxVars(service = "outbox" /\ Relaying!PollStart(r))
                         /\ WF_outboxVars(service = "outbox" /\ Relaying!PassStep(r))

KeyFairness ==
    /\ WF_vars(service = "keys" /\ Tick)
    /\ \A r \in Requests : /\ WF_vars(service = "keys" /\ BeginStep(r))
                           /\ WF_vars(service = "keys" /\ HandlerStep(r))

QueueFairness ==
    /\ WF_queueVars(service = "in_process" /\ InProcess!Advance)
    /\ \A w \in Workers : WF_queueVars(service = "in_process" /\ InProcess!WorkerStep(w))

RedisFairness ==
    /\ WF_redisVars(service = "redis" /\ Redis!WorkerStep("w"))
    /\ \A t \in Tasks : WF_redisVars(service = "redis" /\ Redis!TaskStep(t))

\* Passes go on being taken and a pass gets to record now and then, even if some panic.
HookFairness ==
    /\ \A p \in Passes : /\ WF_hookVars(service = "webhooks" /\ Hooks!RunDue(p))
                         /\ SF_hookVars(service = "webhooks" /\ Hooks!Attempt(p))
    /\ WF_hookVars(service = "webhooks" /\ deliveries # <<>> /\ Hooks!Elapse(1))

MCSpec ==
    /\ MCInit /\ [][MCNext]_allVars
    /\ OutboxFairness /\ KeyFairness /\ QueueFairness /\ RedisFairness
    /\ HookFairness

-----------------------------------------------------------------------------

\* Every job of either queue comes to an end: of the in-process queue it is
\* completed or dead, of the queue in Redis it reaches a terminal status.
EveryJobEnds == InProcess!EventuallyFinished /\ Redis!EventuallyTerminal

\* Every committed event is published or quarantined in the end, and every
\* webhook delivery to an endpoint that stays enabled is delivered or
\* dead-lettered.
EveryDeliverySettles == Relaying!EventuallySettled /\ Hooks!EveryDeliverySettles
=============================================================================
