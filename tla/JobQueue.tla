------------------------------ MODULE JobQueue ------------------------------
(***************************************************************************)
(* JobQueue of core/src/job_queue.rs: jobs with priorities, delays, retries *)
(* and a dead-letter list, behind one mutex, so that every call is a step.  *)
(* Callers supply the time.  A worker reads the clock before it gets the    *)
(* mutex, and work_once goes on using that reading after the handler has    *)
(* run; a worker whose handler panics never reports.                        *)
(***************************************************************************)
EXTENDS Integers, Sequences, FiniteSets

CONSTANTS
    Queues, Workers,
    Priorities,     \* numbers, High lowest
    Configs,        \* what configure may install
    DefaultConfig,
    MaxAttempts,    \* spec.max_attempts
    Delay,          \* spec.backoff: seconds before retry number n, a sequence
    CronTimes,      \* the times the one cron entry's expression matches
    CronQueue, CronPriority,    \* its template
    Modes,          \* "direct" (claim, complete, fail) or "work_once"
    MaxJobs, MaxTime, MaxRetries, MaxPanics,    \* bounds
    None

ASSUME JobQueueAssumption ==
    /\ MaxAttempts \in Nat \ {0} /\ MaxTime \in Nat /\ CronTimes \subseteq Nat
    /\ Len(Delay) >= MaxAttempts - 1

VARIABLES
    jobs,           \* by id; a job is never removed
    configs,
    starts,         \* recent start times per queue
    next_run,       \* of the cron entry
    last_fire,      \* history: when it was last registered or fired
    worker,         \* what each worker is doing
    clock,
    ran,            \* history: start times of each job
    failed_at,      \* history: when each job last failed
    retries, panics \* manual retries and panics so far

vars == <<jobs, configs, starts, next_run, last_fire, worker, clock, ran, failed_at, retries, panics>>

Never == MaxTime + 1        \* u64::MAX

JobState == {"Waiting", "Delayed", "Active", "Completed", "Dead"}

Job ==
    [queue : Queues, priority : Priorities, state : JobState, attempts : 0..MaxAttempts,
     available_at : Nat, retried : 0..MaxRetries]

Worker ==
    [pc : {"idle", "claiming", "working"}, now : 0..MaxTime, job : 0..MaxJobs, mode : Modes]

\* Cron::next_after, None read as u64::MAX.
NextAfter(t) ==
    IF \E m \in CronTimes : m > t
    THEN CHOOSE m \in CronTimes : m > t /\ \A n \in CronTimes : n > t => m <= n
    ELSE Never

Init ==
    /\ jobs = <<>>
    /\ configs = [q \in Queues |-> DefaultConfig]
    /\ starts = [q \in Queues |-> <<>>]
    /\ next_run = NextAfter(0)
    /\ last_fire = 0
    /\ worker \in [Workers -> [pc : {"idle"}, now : {0}, job : {0}, mode : Modes]]
    /\ clock = 0
    /\ ran = <<>>
    /\ failed_at = <<>>
    /\ retries = 0 /\ panics = 0

Ids == DOMAIN jobs

-----------------------------------------------------------------------------
(* Producers and operators *)

\* insert, with run_at or the current time.
Insert(q, p, at) ==
    /\ Len(jobs) < MaxJobs
    /\ jobs' = Append(jobs, [queue |-> q, priority |-> p, attempts |-> 0, available_at |-> at,
                             state |-> IF at > clock THEN "Delayed" ELSE "Waiting", retried |-> 0])
    /\ ran' = Append(ran, <<>>)
    /\ failed_at' = Append(failed_at, None)

Enqueue(q, p, at) ==
    /\ Insert(q, p, at)
    /\ UNCHANGED <<configs, starts, next_run, last_fire, worker, clock, retries, panics>>

Configure(q, config) ==
    /\ configs[q] # config
    /\ configs' = [configs EXCEPT ![q] = config]
    /\ UNCHANGED <<jobs, starts, next_run, last_fire, worker, clock, ran, failed_at, retries, panics>>

\* tick with the entry due: firings missed so far collapse into one.
CronTick ==
    /\ next_run <= clock
    /\ Insert(CronQueue, CronPriority, clock)
    /\ next_run' = NextAfter(clock)
    /\ last_fire' = clock
    /\ UNCHANGED <<configs, starts, worker, clock, retries, panics>>

RetryDead(j) ==
    /\ jobs[j].state = "Dead"
    /\ retries < MaxRetries /\ retries' = retries + 1
    /\ jobs' = [jobs EXCEPT ![j].state = "Waiting", ![j].attempts = 0, ![j].available_at = clock,
                            ![j].retried = @ + 1]
    /\ UNCHANGED <<configs, starts, next_run, last_fire, worker, clock, ran, failed_at, panics>>

-----------------------------------------------------------------------------
(* claim *)

ReadClock(w) ==
    /\ worker[w].pc = "idle"
    /\ worker' = [worker EXCEPT ![w].pc = "claiming", ![w].now = clock]
    /\ UNCHANGED <<jobs, configs, starts, next_run, last_fire, clock, ran, failed_at, retries, panics>>

IsDue(job, now) == job.state = "Delayed" /\ job.available_at <= now

\* Delayed jobs of the queue that are due wait from now on.
Promoted(q, now) ==
    [j \in Ids |-> IF jobs[j].queue = q /\ IsDue(jobs[j], now)
                   THEN [jobs[j] EXCEPT !.state = "Waiting"] ELSE jobs[j]]

Active(q) == {j \in Ids : jobs[j].queue = q /\ jobs[j].state = "Active"}

Busy(q) == Cardinality(Active(q)) >= configs[q].concurrency

SaturatingSub(a, b) == IF a < b THEN 0 ELSE a - b

\* while front is per_secs old { pop_front() }
DropExpired(times, now, per_secs) ==
    LET kept  == {i \in DOMAIN times : SaturatingSub(now, times[i]) < per_secs}
        front == CHOOSE i \in kept : \A k \in kept : i <= k
    IN  IF kept = {} THEN <<>> ELSE SubSeq(times, front, Len(times))

\* Slip: a start is forgotten when the window is one second short of its end.
PrunedEarly(q, now) ==
    IF configs[q].max_starts = None THEN starts[q]
    ELSE DropExpired(starts[q], now, configs[q].per_secs - 1)

\* The starts of the queue that count against its rate limit, if it has one.
Pruned(q, now) ==
    IF configs[q].max_starts = None THEN starts[q]
    ELSE DropExpired(starts[q], now, configs[q].per_secs)

Limited(q, now) ==
    configs[q].max_starts # None /\ Len(Pruned(q, now)) >= configs[q].max_starts

\* j is served before k.
Ahead(j, k) ==
    \/ jobs[j].priority < jobs[k].priority
    \/ jobs[j].priority = jobs[k].priority /\ jobs[j].available_at < jobs[k].available_at
    \/ jobs[j].priority = jobs[k].priority /\ jobs[j].available_at = jobs[k].available_at /\ j < k

\* Slip: any job that is not finished may be chosen.
WaitingActive(q, now) ==
    {j \in Ids : jobs[j].queue = q /\ Promoted(q, now)[j].state \in {"Waiting", "Active"}}

\* The jobs claim chooses from.
Waiting(q, now) == {j \in Ids : jobs[j].queue = q /\ Promoted(q, now)[j].state = "Waiting"}

\* claim answers None: the concurrency or the rate limit, or nothing to do.
ClaimNone(w, q) ==
    LET now == worker[w].now IN
    /\ worker[w].pc = "claiming"
    /\ Busy(q) \/ Limited(q, now) \/ Waiting(q, now) = {}
    /\ jobs' = Promoted(q, now)
    /\ starts' = IF Busy(q) THEN starts ELSE [starts EXCEPT ![q] = Pruned(q, now)]
    /\ worker' = [worker EXCEPT ![w].pc = "idle", ![w].now = 0]
    /\ UNCHANGED <<configs, next_run, last_fire, clock, ran, failed_at, retries, panics>>

ClaimJob(w, q, j) ==
    LET now == worker[w].now IN
    /\ worker[w].pc = "claiming"
    /\ ~Busy(q) /\ ~Limited(q, now)
    /\ j \in Waiting(q, now) /\ \A k \in Waiting(q, now) : k = j \/ Ahead(j, k)
    /\ starts' = [starts EXCEPT ![q] = Append(Pruned(q, now), now)]
    /\ jobs' = [Promoted(q, now) EXCEPT ![j].state = "Active", ![j].attempts = @ + 1]
    /\ worker' = [worker EXCEPT ![w].pc = "working", ![w].job = j]
    /\ ran' = [ran EXCEPT ![j] = Append(@, now)]
    /\ UNCHANGED <<configs, next_run, last_fire, clock, failed_at, retries, panics>>

-----------------------------------------------------------------------------
(* complete and fail *)

\* The time a worker reports: its first reading under work_once.
ReportTime(w) == IF worker[w].mode = "work_once" THEN worker[w].now ELSE clock

Rest(w) == worker' = [worker EXCEPT ![w].pc = "idle", ![w].now = 0, ![w].job = 0]

Complete(w) ==
    /\ worker[w].pc = "working"
    /\ jobs[worker[w].job].state = "Active"
    /\ jobs' = [jobs EXCEPT ![worker[w].job].state = "Completed"]
    /\ Rest(w)
    /\ UNCHANGED <<configs, starts, next_run, last_fire, clock, ran, failed_at, retries, panics>>

Exhausted(job) == job.attempts >= MaxAttempts

FailedState(job) == IF Exhausted(job) THEN "Dead" ELSE "Delayed"

Fail(w) ==
    LET j == worker[w].job IN
    /\ worker[w].pc = "working"
    /\ jobs[j].state = "Active"
    /\ jobs' = [jobs EXCEPT ![j].state = FailedState(jobs[j]),
                            ![j].available_at = IF Exhausted(jobs[j]) THEN @
                                                ELSE ReportTime(w) + Delay[jobs[j].attempts]]
    /\ failed_at' = [failed_at EXCEPT ![j] = clock]
    /\ Rest(w)
    /\ UNCHANGED <<configs, starts, next_run, last_fire, clock, ran, retries, panics>>

\* The handler panics: the job stays Active and nobody reports it.
Panic(w) ==
    /\ worker[w].pc = "working"
    /\ panics < MaxPanics /\ panics' = panics + 1
    /\ Rest(w)
    /\ UNCHANGED <<jobs, configs, starts, next_run, last_fire, clock, ran, failed_at, retries>>

Advance ==
    /\ clock < MaxTime
    /\ clock' = clock + 1
    /\ UNCHANGED <<jobs, configs, starts, next_run, last_fire, worker, ran, failed_at, retries, panics>>

-----------------------------------------------------------------------------

WorkerStep(w) ==
    \/ ReadClock(w) \/ Complete(w) \/ Fail(w)
    \/ \E q \in Queues : ClaimNone(w, q) \/ \E j \in Ids : ClaimJob(w, q, j)

Next ==
    \/ \E q \in Queues, p \in Priorities, at \in {clock, clock + 1} \ {Never} : Enqueue(q, p, at)
    \/ \E q \in Queues, config \in Configs : Configure(q, config)
    \/ CronTick
    \/ \E j \in Ids : RetryDead(j)
    \/ \E w \in Workers : WorkerStep(w) \/ Panic(w)
    \/ Advance

Spec == Init /\ [][Next]_vars

\* Workers of every queue keep running, their handlers return, and time passes.
FairSpec == Spec /\ WF_vars(Advance) /\ \A w \in Workers : WF_vars(WorkerStep(w))

-----------------------------------------------------------------------------
(* Properties *)

Started(j) == j \in Ids /\ Len(ran'[j]) > Len(ran[j])

\* At most one worker has a job at a time, and it is Active: a report always
\* meets the attempt it is about.
OneWorkerPerJob ==
    \A w \in Workers : worker[w].pc = "working" =>
        /\ jobs[worker[w].job].state = "Active"
        /\ \A v \in Workers \ {w} : worker[v].pc = "working" => worker[v].job # worker[w].job

\* A job runs at most max_attempts times for its enqueue and for each manual
\* retry, and it is dead-lettered only after all of them.
AttemptsUsedUp ==
    \A j \in Ids :
        /\ Len(ran[j]) <= MaxAttempts * (1 + jobs[j].retried)
        /\ jobs[j].state = "Dead" => Len(ran[j]) = MaxAttempts * (1 + jobs[j].retried)

\* The starts of queue q in the window that ends at `now`.
InWindow(q, now) ==
    {s \in Ids \X (1..(MaxAttempts * (1 + MaxRetries))) :
        /\ jobs[s[1]].queue = q /\ s[2] <= Len(ran[s[1]])
        /\ ran[s[1]][s[2]] > now - configs[q].per_secs}

\* A claim starts a job only if fewer than max_starts of the queue have started
\* in the per_secs before the claim, whatever time its caller had read.
RateRespected ==
    [][\A j \in Ids : Started(j) /\ configs[jobs[j].queue].max_starts # None =>
          Cardinality(InWindow(jobs[j].queue, clock)) < configs[jobs[j].queue].max_starts]_vars

\* A worker never starts a job while another one of the queue that is due, promoted
\* or not, has a higher priority or the same one and an earlier time.
ServedInOrder ==
    [][\A j \in Ids : Started(j) =>
          \A k \in Ids :
              /\ jobs[k].queue = jobs[j].queue
              /\ jobs[k].state \in {"Waiting", "Delayed"} /\ jobs[k].available_at <= ran'[j][Len(ran'[j])]
              => k = j \/ Ahead(j, k)]_vars

\* "retry after the backoff": the delay is counted from the failure.
BackoffRespected ==
    [][\A j \in Ids : Started(j) /\ jobs[j].attempts > 0 =>
          clock >= failed_at[j] + Delay[jobs[j].attempts]]_vars

\* The cron entry is due exactly when a time of its schedule has come since it
\* last fired: missed firings collapse into one, and none is lost.
CronCollapses == next_run <= clock <=> \E m \in CronTimes : last_fire < m /\ m <= clock

\* Every job is completed or dead in the end.
EventuallyFinished ==
    \A j \in 1..MaxJobs :
        (j \in Ids) ~> (j \in Ids /\ jobs[j].state \in {"Completed", "Dead"})
=============================================================================
