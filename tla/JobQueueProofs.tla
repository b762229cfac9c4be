--------------------------- MODULE JobQueueProofs ---------------------------
(***************************************************************************)
(* Proofs about the job queue in the process, for any queues, workers,     *)
(* priorities, schedule and limits: first what is known of one job, then   *)
(* the invariant of the queue and a lemma per operation, then what a claim *)
(* starts, and last the rate limit, which is about counting.               *)
(***************************************************************************)
EXTENDS JobQueue, TLAPS

\* Backoffs are numbers of seconds.
QueueConstants ==
    /\ MaxRetries \in Nat /\ Delay \in Seq(Nat) /\ CronQueue \in Queues /\ CronPriority \in Priorities

QueueState == JobState

Count == Nat

Time == Nat

QueuedJob ==
    [queue : Queues, priority : Priorities, state : QueueState, attempts : Count,
     available_at : Time, retried : Count]

\* The states, counts and times the steps write are ones a job may have.
LEMMA QueueValues ==
    /\ \A s \in {"Waiting", "Delayed", "Active", "Completed", "Dead"} : s \in QueueState
    /\ \A n \in Nat : n \in Count /\ n \in Time
    /\ \A n \in Count : n \in Nat
    /\ \A n \in Time : n \in Nat
  BY DEF QueueState, JobState, Count, Time

\* What is known of job r, of its starts a and of its last failure f at time t:
\* it was started as often as its attempts and its manual retries say; a job
\* that waits has attempts left and, if it failed, is available when its backoff
\* is over; it is given up with no attempt left.
JobOk(r, a, f, t) ==
    /\ r \in QueuedJob /\ a \in Seq(Nat)
    /\ Len(a) = MaxAttempts * r.retried + r.attempts
    /\ r.attempts <= MaxAttempts
    /\ r.state \in {"Waiting", "Delayed"} => r.attempts < MaxAttempts
    /\ r.state \in {"Waiting", "Delayed"} /\ r.attempts > 0 /\ Modes = {"direct"} =>
          f \in Nat /\ r.available_at = f + Delay[r.attempts]
    /\ r.state = "Waiting" => r.available_at <= t
    /\ r.state = "Active" => r.attempts > 0
    /\ r.state = "Dead" => r.attempts = MaxAttempts

\* What the module assumes of its constants, for the provers.
LEMMA MaxAttemptsNat == MaxAttempts \in Nat \ {0} /\ MaxTime \in Nat /\ CronTimes \subseteq Nat
  BY JobQueueAssumption

\* The fields of a job, one by one.
LEMMA JobValues ==
    ASSUME NEW r \in QueuedJob
    PROVE  /\ r.queue \in Queues /\ r.priority \in Priorities /\ r.state \in QueueState
           /\ r.attempts \in Nat /\ r.available_at \in Nat /\ r.retried \in Nat
  BY DEF QueuedJob, Count, Time

\* A new job.
LEMMA NewJobOk ==
    ASSUME NEW q \in Queues, NEW p \in Priorities, NEW at \in Nat, NEW t \in Nat, NEW r,
           r = [queue |-> q, priority |-> p, attempts |-> 0, available_at |-> at,
                state |-> IF at > t THEN "Delayed" ELSE "Waiting", retried |-> 0]
    PROVE  JobOk(r, << >>, None, t)
<1>1. PICK s \in {"Delayed", "Waiting"} : s = IF at > t THEN "Delayed" ELSE "Waiting"
  OBVIOUS
<1>2. r = [queue |-> q, priority |-> p, attempts |-> 0, available_at |-> at, state |-> s, retried |-> 0]
  BY <1>1
<1>3. s \in QueueState /\ 0 \in Count /\ at \in Time
  BY QueueValues
<1>4. r \in QueuedJob
  BY <1>2, <1>3 DEF QueuedJob
<1>5. r.attempts = 0 /\ r.retried = 0 /\ r.state = s /\ r.available_at = at
  BY <1>2
<1>6. MaxAttempts \in Nat \ {0}
  BY MaxAttemptsNat
<1>7. MaxAttempts * 0 = 0
  BY <1>6
<1> QED  BY <1>1, <1>4, <1>5, <1>6, <1>7 DEF JobOk

\* A job that is due is made to wait.
LEMMA PromotedOk ==
    ASSUME NEW r, NEW a, NEW f, NEW t \in Nat, JobOk(r, a, f, t), NEW now \in Nat, now <= t, IsDue(r, now)
    PROVE  JobOk([r EXCEPT !.state = "Waiting"], a, f, t)
<1> DEFINE s == [r EXCEPT !.state = "Waiting"]
<1>1. r \in QueuedJob /\ r.state = "Delayed" /\ r.available_at <= now
  BY DEF JobOk, IsDue
<1>2. s \in QueuedJob
  BY <1>1, QueueValues DEF QueuedJob
<1>3. /\ s.attempts = r.attempts /\ s.retried = r.retried /\ s.state = "Waiting"
      /\ s.available_at = r.available_at /\ r.available_at \in Nat
  BY <1>1, JobValues DEF QueuedJob
<1> HIDE DEF s
<1>4. JobOk(s, a, f, t)
  BY <1>1, <1>2, <1>3 DEF JobOk
<1> QED  BY <1>4 DEF s

\* A waiting job is started.
LEMMA StartedOk ==
    ASSUME NEW r, NEW a, NEW f, NEW t \in Nat, JobOk(r, a, f, t), NEW now \in Nat, r.state = "Waiting"
    PROVE  JobOk([r EXCEPT !.state = "Active", !.attempts = @ + 1], Append(a, now), f, t)
<1> DEFINE s == [r EXCEPT !.state = "Active", !.attempts = @ + 1]
<1>1. r \in QueuedJob /\ r.attempts \in Nat /\ r.retried \in Nat /\ a \in Seq(Nat)
  BY JobValues DEF JobOk
<1>2. r.attempts + 1 \in Count /\ "Active" \in QueueState
  BY <1>1, QueueValues
<1>3. s \in QueuedJob
  BY <1>1, <1>2 DEF QueuedJob
<1>4. /\ s.attempts = r.attempts + 1 /\ s.retried = r.retried /\ s.state = "Active"
  BY <1>1 DEF QueuedJob
<1>5. Append(a, now) \in Seq(Nat) /\ Len(Append(a, now)) = Len(a) + 1
  BY <1>1
<1>6. MaxAttempts \in Nat
  BY MaxAttemptsNat
<1>7. PICK c : c = MaxAttempts * r.retried
  OBVIOUS
<1>8. c \in Int
  BY <1>1, <1>6, <1>7
<1> HIDE DEF s
<1>9. Len(Append(a, now)) = MaxAttempts * s.retried + s.attempts
  BY <1>1, <1>4, <1>5, <1>7, <1>8 DEF JobOk
<1>10. JobOk(s, Append(a, now), f, t)
  BY <1>1, <1>3, <1>4, <1>5, <1>6, <1>9 DEF JobOk
<1> QED  BY <1>10 DEF s

\* A running job is completed, or fails.
LEMMA CompletedOk ==
    ASSUME NEW r, NEW a, NEW f, NEW t \in Nat, JobOk(r, a, f, t)
    PROVE  JobOk([r EXCEPT !.state = "Completed"], a, f, t)
<1> DEFINE s == [r EXCEPT !.state = "Completed"]
<1>1. r \in QueuedJob
  BY DEF JobOk
<1>2. s \in QueuedJob
  BY <1>1, QueueValues DEF QueuedJob
<1>3. s.attempts = r.attempts /\ s.retried = r.retried /\ s.state = "Completed"
  BY <1>1 DEF QueuedJob
<1> HIDE DEF s
<1>4. JobOk(s, a, f, t)
  BY <1>2, <1>3 DEF JobOk
<1> QED  BY <1>4 DEF s

\* fail: the job is given up when its attempts are used up, else it waits for its
\* backoff, counted from the reported time.
LEMMA FailedOk ==
    ASSUME NEW r, NEW a, NEW f, NEW t \in Nat, JobOk(r, a, f, t), QueueConstants, r.state = "Active",
           NEW at \in Nat, Modes = {"direct"} => at = t, NEW s,
           s = [r EXCEPT !.state = FailedState(r),
                         !.available_at = IF Exhausted(r) THEN @ ELSE at + Delay[r.attempts]]
    PROVE  JobOk(s, a, t, t)
<1>1. r \in QueuedJob /\ r.attempts \in Nat /\ r.retried \in Nat /\ r.available_at \in Nat
  BY JobValues DEF JobOk
<1>2. MaxAttempts \in Nat \ {0} /\ r.attempts > 0
  BY MaxAttemptsNat DEF JobOk
<1>3. CASE Exhausted(r)
  <2>1. s = [r EXCEPT !.state = "Dead", !.available_at = r.available_at]
    BY <1>3 DEF FailedState
  <2>2. "Dead" \in QueueState /\ r.available_at \in Time
    BY <1>1, QueueValues
  <2>3. s \in QueuedJob
    BY <1>1, <2>1, <2>2 DEF QueuedJob
  <2>4. s.attempts = r.attempts /\ s.retried = r.retried /\ s.state = "Dead"
    BY <1>1, <2>1 DEF QueuedJob
  <2>5. r.attempts = MaxAttempts
    BY <1>1, <1>2, <1>3 DEF Exhausted, JobOk
  <2> QED  BY <2>3, <2>4, <2>5 DEF JobOk
<1>4. CASE ~ Exhausted(r)
  <2>1. r.attempts < MaxAttempts /\ r.attempts \in 1..Len(Delay)
    BY <1>1, <1>2, <1>4, JobQueueAssumption DEF Exhausted, QueueConstants
  <2>2. PICK d \in Nat : d = Delay[r.attempts]
    BY <2>1 DEF QueueConstants
  <2>3. s = [r EXCEPT !.state = "Delayed", !.available_at = at + d]
    BY <1>4, <2>2 DEF FailedState
  <2>4. "Delayed" \in QueueState /\ at + d \in Time
    BY QueueValues
  <2>5. s \in QueuedJob
    BY <1>1, <2>3, <2>4 DEF QueuedJob
  <2>6. s.attempts = r.attempts /\ s.retried = r.retried /\ s.state = "Delayed" /\ s.available_at = at + d
    BY <1>1, <2>3 DEF QueuedJob
  <2> QED  BY <2>1, <2>2, <2>5, <2>6 DEF JobOk
<1> QED  BY <1>3, <1>4

\* A dead job is retried by hand.
LEMMA RetriedOk ==
    ASSUME NEW r, NEW a, NEW f, NEW t \in Nat, JobOk(r, a, f, t), r.state = "Dead", NEW s,
           s = [r EXCEPT !.state = "Waiting", !.attempts = 0, !.available_at = t, !.retried = @ + 1]
    PROVE  JobOk(s, a, f, t)
<1>1. r \in QueuedJob /\ r.attempts \in Nat /\ r.retried \in Nat
  BY JobValues DEF JobOk
<1>2. MaxAttempts \in Nat \ {0}
  BY MaxAttemptsNat
<1>3. "Waiting" \in QueueState /\ 0 \in Count /\ t \in Time /\ r.retried + 1 \in Count
  BY <1>1, QueueValues
<1>4. s \in QueuedJob
  BY <1>1, <1>3 DEF QueuedJob
<1>5. s.attempts = 0 /\ s.retried = r.retried + 1 /\ s.state = "Waiting" /\ s.available_at = t
  BY <1>1 DEF QueuedJob
<1>6. MaxAttempts * (r.retried + 1) = MaxAttempts * r.retried + MaxAttempts
  BY <1>1, <1>2
<1>7. Len(a) = MaxAttempts * s.retried + s.attempts
  BY <1>1, <1>2, <1>5, <1>6 DEF JobOk
<1> QED  BY <1>2, <1>4, <1>5, <1>7 DEF JobOk

\* Time passes.
LEMMA LaterOk ==
    ASSUME NEW r, NEW a, NEW f, NEW t \in Nat, NEW u \in Nat, t <= u, JobOk(r, a, f, t)
    PROVE  JobOk(r, a, f, u)
<1>1. r.available_at \in Nat
  BY JobValues DEF JobOk
<1> QED  BY <1>1 DEF JobOk

-----------------------------------------------------------------------------
(* The invariant *)

Stamp == Nat \union {None}

\* The jobs J, their starts R and failures F at time t.
Table(J, R, F, t) ==
    \E n \in Nat :
        /\ J \in [1..n -> QueuedJob] /\ R \in [1..n -> Seq(Nat)] /\ F \in [1..n -> Stamp]
        /\ \A j \in 1..n : JobOk(J[j], R[j], F[j], t)

Hand == [pc : {"idle", "claiming", "working"}, now : Time, job : Count, mode : Modes]

\* A worker's reading of the clock is not in the future.
Hands == worker \in [Workers -> Hand] /\ \A w \in Workers : worker[w].now <= clock

\* A job a worker has is Active, and no other worker has it.
Held ==
    \A w \in Workers : worker[w].pc = "working" =>
        /\ worker[w].job \in Ids /\ jobs[worker[w].job].state = "Active"
        /\ \A v \in Workers \ {w} : worker[v].pc = "working" => worker[v].job # worker[w].job

CronInv == next_run = NextAfter(last_fire) /\ last_fire \in Nat /\ last_fire <= clock

QueueInv ==
    /\ clock \in Nat /\ clock <= MaxTime
    /\ Table(jobs, ran, failed_at, clock)
    /\ Hands /\ Held /\ CronInv

Extended(s, t, x) == t = Append(s, x)

Over(s, n, A) == s \in [1..n -> A]

OneMore(s, t, x, n) == (\A j \in 1..n : t[j] = s[j]) /\ t[n + 1] = x

\* Append, on a function over 1..n.
LEMMA Appended ==
    ASSUME NEW A, NEW n \in Nat, NEW s, Over(s, n, A), NEW x \in A, NEW t, Extended(s, t, x)
    PROVE  Over(t, n + 1, A) /\ OneMore(s, t, x, n)
<1>1. s \in Seq(A) /\ Len(s) = n /\ t = Append(s, x)
  BY DEF Over, Extended
<1>2. t \in Seq(A) /\ Len(t) = n + 1
  BY <1>1
<1>3. DOMAIN t = 1..(n + 1)
  BY <1>2
<1>4. t[n + 1] = x
  BY <1>1
<1>5. \A j \in 1..n : t[j] = s[j]
  BY <1>1
<1>6. \A j \in 1..(n + 1) : t[j] \in A
  BY <1>2
<1>7. t = [j \in 1..(n + 1) |-> t[j]]
  BY <1>2, <1>3
<1>8. t \in [1..(n + 1) -> A]
  BY <1>6, <1>7
<1> QED  BY <1>4, <1>5, <1>8 DEF Over, OneMore

\* One more job is entered.
LEMMA TableGrows ==
    ASSUME NEW J, NEW R, NEW F, NEW t, NEW r, Table(J, R, F, t), JobOk(r, << >>, None, t),
           NEW I, Extended(J, I, r), NEW Q, Extended(R, Q, << >>), NEW G, Extended(F, G, None)
    PROVE  /\ Table(I, Q, G, t)
           /\ DOMAIN J \subseteq DOMAIN I
           /\ \A j \in DOMAIN J : I[j] = J[j]
<1>1. PICK n \in Nat :
        /\ J \in [1..n -> QueuedJob] /\ R \in [1..n -> Seq(Nat)] /\ F \in [1..n -> Stamp]
        /\ \A j \in 1..n : JobOk(J[j], R[j], F[j], t)
  BY DEF Table
<1>4. r \in QueuedJob /\ << >> \in Seq(Nat) /\ None \in Stamp
  BY DEF JobOk, Stamp
<1>2. Over(J, n, QueuedJob) /\ Over(R, n, Seq(Nat)) /\ Over(F, n, Stamp)
  BY <1>1 DEF Over
<1>5. Over(I, n + 1, QueuedJob) /\ OneMore(J, I, r, n)
  BY <1>2, <1>4, Appended
<1>6. Over(Q, n + 1, Seq(Nat)) /\ OneMore(R, Q, << >>, n)
  BY <1>2, <1>4, Appended
<1>7. Over(G, n + 1, Stamp) /\ OneMore(F, G, None, n)
  BY <1>2, <1>4, Appended
<1>8. \A j \in 1..(n + 1) : j \in 1..n \/ j = n + 1
  OBVIOUS
<1>9. \A j \in 1..(n + 1) : JobOk(I[j], Q[j], G[j], t)
  BY <1>1, <1>5, <1>6, <1>7, <1>8 DEF OneMore
<1>10. DOMAIN J = 1..n /\ DOMAIN I = 1..(n + 1) /\ n + 1 \in Nat /\ 1..n \subseteq 1..(n + 1)
  BY <1>1, <1>5 DEF Over
<1>11. Table(I, Q, G, t)
  BY <1>5, <1>6, <1>7, <1>9, <1>10 DEF Table, Over
<1> QED  BY <1>5, <1>10, <1>11 DEF OneMore

\* J, R and F are over the same ids.
LEMMA TableDomains ==
    ASSUME NEW J, NEW R, NEW F, NEW t, Table(J, R, F, t)
    PROVE  /\ DOMAIN R = DOMAIN J /\ DOMAIN F = DOMAIN J
           /\ \A j \in DOMAIN J : JobOk(J[j], R[j], F[j], t)
           /\ J = [j \in DOMAIN J |-> J[j]] /\ R = [j \in DOMAIN J |-> R[j]]
           /\ F = [j \in DOMAIN J |-> F[j]]
           /\ F \in [DOMAIN J -> Stamp] /\ DOMAIN J \subseteq Count
  BY DEF Table, Count

\* I, Q and G are a table over the ids D.
TableOn(D, I, Q, G, u) ==
    /\ I = [j \in D |-> I[j]] /\ Q = [j \in D |-> Q[j]] /\ G \in [D -> Stamp]
    /\ \A j \in D : JobOk(I[j], Q[j], G[j], u)

\* Entries of the table change.
LEMMA TableChanges ==
    ASSUME NEW J, NEW R, NEW F, NEW t, Table(J, R, F, t), NEW I, NEW Q, NEW G, NEW u,
           TableOn(DOMAIN J, I, Q, G, u)
    PROVE  Table(I, Q, G, u)
<1>1. PICK n \in Nat : DOMAIN J = 1..n
  BY DEF Table
<1>2. \A j \in 1..n : I[j] \in QueuedJob /\ Q[j] \in Seq(Nat)
  BY <1>1 DEF JobOk, TableOn
<1>3. I \in [1..n -> QueuedJob] /\ Q \in [1..n -> Seq(Nat)] /\ G \in [1..n -> Stamp]
  BY <1>1, <1>2 DEF TableOn
<1> QED  BY <1>1, <1>3 DEF Table, TableOn

-----------------------------------------------------------------------------
(* The steps *)

\* insert adds a job that was never started, and no worker has it.
LEMMA InsertKeeps ==
    ASSUME QueueInv, NEW q \in Queues, NEW p \in Priorities, NEW at \in Nat, Insert(q, p, at),
           UNCHANGED <<worker, clock>>
    PROVE  /\ Table(jobs', ran', failed_at', clock') /\ Hands' /\ Held'
           /\ clock' \in Nat /\ clock' <= MaxTime
<1>1. PICK r : r = [queue |-> q, priority |-> p, attempts |-> 0, available_at |-> at,
                    state |-> IF at > clock THEN "Delayed" ELSE "Waiting", retried |-> 0]
  OBVIOUS
<1>2. clock \in Nat /\ Table(jobs, ran, failed_at, clock)
  BY DEF QueueInv
<1>3. JobOk(r, << >>, None, clock)
  BY <1>1, <1>2, NewJobOk
<1>4. /\ Extended(jobs, jobs', r) /\ Extended(ran, ran', << >>) /\ Extended(failed_at, failed_at', None)
  BY <1>1 DEF Insert, Extended
<1>5. /\ Table(jobs', ran', failed_at', clock)
      /\ DOMAIN jobs \subseteq DOMAIN jobs'
      /\ \A j \in DOMAIN jobs : jobs'[j] = jobs[j]
  BY <1>2, <1>3, <1>4, TableGrows
<1>6. Held'
  BY <1>5 DEF QueueInv, Held, Ids
<1> QED  BY <1>2, <1>5, <1>6 DEF QueueInv, Hands

\* enqueue and enqueue_at.
LEMMA EnqueueKeeps ==
    ASSUME QueueInv, NEW q \in Queues, NEW p \in Priorities, NEW at \in {clock, clock + 1},
           Enqueue(q, p, at)
    PROVE  QueueInv'
<1>1. at \in Nat
  BY DEF QueueInv
<1>2. /\ Table(jobs', ran', failed_at', clock') /\ Hands' /\ Held'
      /\ clock' \in Nat /\ clock' <= MaxTime
  BY <1>1, InsertKeeps DEF Enqueue
<1>3. CronInv'
  BY DEF Enqueue, QueueInv, CronInv, NextAfter, Never
<1> QED  BY <1>2, <1>3 DEF QueueInv

\* tick inserts the job of the entry and moves next_run past the present.
LEMMA CronTickKeeps ==
    ASSUME QueueInv, QueueConstants, CronTick
    PROVE  QueueInv'
<1>1. clock \in Nat
  BY DEF QueueInv
<1>2. /\ Table(jobs', ran', failed_at', clock') /\ Hands' /\ Held'
      /\ clock' \in Nat /\ clock' <= MaxTime
  BY <1>1, InsertKeeps DEF CronTick, QueueConstants
<1>3. CronInv'
  BY <1>1 DEF CronTick, CronInv, NextAfter, Never
<1> QED  BY <1>2, <1>3 DEF QueueInv

\* The job j alone is changed, to r, a and f, and no worker takes a job.
LEMMA OneChanges ==
    ASSUME QueueInv, NEW j \in Ids, NEW r, NEW a, NEW f \in Stamp, JobOk(r, a, f, clock),
           jobs' = [jobs EXCEPT ![j] = r], ran' = [ran EXCEPT ![j] = a],
           failed_at' = [failed_at EXCEPT ![j] = f], clock' = clock
    PROVE  Table(jobs', ran', failed_at', clock') /\ clock' \in Nat /\ clock' <= MaxTime
<1>1. Table(jobs, ran, failed_at, clock)
  BY DEF QueueInv
<1>2. /\ DOMAIN ran = DOMAIN jobs /\ DOMAIN failed_at = DOMAIN jobs
      /\ \A k \in DOMAIN jobs : JobOk(jobs[k], ran[k], failed_at[k], clock)
      /\ failed_at \in [DOMAIN jobs -> Stamp]
  BY <1>1, TableDomains
<1>3. /\ jobs' = [k \in DOMAIN jobs |-> jobs'[k]] /\ ran' = [k \in DOMAIN jobs |-> ran'[k]]
      /\ failed_at' \in [DOMAIN jobs -> Stamp]
  BY <1>2
<1>4. \A k \in DOMAIN jobs : JobOk(jobs'[k], ran'[k], failed_at'[k], clock)
  BY <1>2 DEF Ids
<1>5. TableOn(DOMAIN jobs, jobs', ran', failed_at', clock)
  BY <1>3, <1>4 DEF TableOn
<1>6. Table(jobs', ran', failed_at', clock)
  BY <1>1, <1>5, TableChanges
<1> QED  BY <1>6 DEF QueueInv

\* retry_dead gives a job all its attempts again; nobody was running it.
LEMMA RetryDeadKeeps ==
    ASSUME QueueInv, NEW j \in Ids, RetryDead(j)
    PROVE  QueueInv'
<1>1. /\ clock \in Nat /\ JobOk(jobs[j], ran[j], failed_at[j], clock)
      /\ DOMAIN ran = DOMAIN jobs /\ DOMAIN failed_at = DOMAIN jobs /\ failed_at[j] \in Stamp
      /\ ran = [k \in DOMAIN jobs |-> ran[k]] /\ failed_at = [k \in DOMAIN jobs |-> failed_at[k]]
  BY TableDomains DEF QueueInv, Ids
<1>2. PICK r : r = [jobs[j] EXCEPT !.state = "Waiting", !.attempts = 0, !.available_at = clock,
                                   !.retried = @ + 1]
  OBVIOUS
<1>3. JobOk(r, ran[j], failed_at[j], clock)
  BY <1>1, <1>2, RetriedOk DEF RetryDead
<1>4. jobs[j] \in QueuedJob
  BY <1>1 DEF JobOk
<1>5. jobs' = [jobs EXCEPT ![j] = r]
  BY <1>2, <1>4 DEF RetryDead, QueuedJob, Ids
<1>6. /\ ran' = [ran EXCEPT ![j] = ran[j]] /\ failed_at' = [failed_at EXCEPT ![j] = failed_at[j]]
      /\ clock' = clock
  BY <1>1 DEF RetryDead
<1>7. Table(jobs', ran', failed_at', clock') /\ clock' \in Nat /\ clock' <= MaxTime
  BY <1>1, <1>3, <1>5, <1>6, OneChanges
<1>8. Held'
  BY <1>5 DEF RetryDead, QueueInv, Held, Ids
<1>9. Hands' /\ CronInv'
  BY DEF RetryDead, QueueInv, Hands, CronInv, NextAfter, Never
<1> QED  BY <1>7, <1>8, <1>9 DEF QueueInv

\* A worker that lets go of its job leaves the others theirs.
LEMMA RestKeeps ==
    ASSUME QueueInv, NEW w \in Workers, Rest(w), clock' = clock
    PROVE  /\ Hands'
           /\ worker'[w].pc = "idle" /\ \A v \in Workers \ {w} : worker'[v] = worker[v]
<1>1. worker \in [Workers -> Hand] /\ worker[w] \in Hand
  BY DEF QueueInv, Hands
<1>2. PICK h : h = [worker[w] EXCEPT !.pc = "idle", !.now = 0, !.job = 0]
  OBVIOUS
<1>3. h \in Hand /\ h.pc = "idle" /\ h.now = 0
  BY <1>1, <1>2, QueueValues DEF Hand
<1>4. worker' = [worker EXCEPT ![w] = h]
  BY <1>1, <1>2 DEF Rest, Hand
<1>5. worker' \in [Workers -> Hand] /\ worker'[w] = h /\ \A v \in Workers \ {w} : worker'[v] = worker[v]
  BY <1>1, <1>3, <1>4
<1>6. 0 <= clock
  BY DEF QueueInv
<1> QED  BY <1>3, <1>5, <1>6 DEF QueueInv, Hands

\* A job's worker reports it: the job is Active no longer, the worker is free.
LEMMA ReportKeeps ==
    ASSUME QueueInv, NEW w \in Workers, worker[w].pc = "working", NEW r, Rest(w), clock' = clock,
           jobs' = [jobs EXCEPT ![worker[w].job] = r]
    PROVE  Held'
<1>1. \A v \in Workers \ {w} : worker'[v] = worker[v]
  BY RestKeeps
<1>2. worker'[w].pc = "idle"
  BY RestKeeps
<1>3. ASSUME NEW v \in Workers, worker'[v].pc = "working"
      PROVE  /\ worker'[v].job \in Ids' /\ jobs'[worker'[v].job].state = "Active"
             /\ \A u \in Workers \ {v} : worker'[u].pc = "working" => worker'[u].job # worker'[v].job
  <2>1. v # w /\ worker'[v] = worker[v]
    BY <1>1, <1>2, <1>3
  <2>2. worker[v].job \in Ids /\ worker[v].job # worker[w].job /\ jobs[worker[v].job].state = "Active"
    BY <1>3, <2>1 DEF QueueInv, Held
  <2>3. Ids' = Ids /\ jobs'[worker[v].job] = jobs[worker[v].job]
    BY <2>2 DEF Ids
  <2>4. \A u \in Workers \ {v} : worker'[u].pc = "working" => worker'[u].job # worker'[v].job
    BY <1>1, <1>2, <1>3, <2>1 DEF QueueInv, Held
  <2> QED  BY <2>1, <2>2, <2>3, <2>4
<1> QED  BY <1>3 DEF Held

\* complete.
LEMMA CompleteKeeps ==
    ASSUME QueueInv, NEW w \in Workers, Complete(w)
    PROVE  QueueInv'
<1>1. PICK j \in Ids : j = worker[w].job
  BY DEF Complete, QueueInv, Held
<1>2. /\ clock \in Nat /\ JobOk(jobs[j], ran[j], failed_at[j], clock)
      /\ DOMAIN ran = DOMAIN jobs /\ DOMAIN failed_at = DOMAIN jobs /\ failed_at[j] \in Stamp
      /\ ran = [k \in DOMAIN jobs |-> ran[k]] /\ failed_at = [k \in DOMAIN jobs |-> failed_at[k]]
  BY TableDomains DEF QueueInv, Ids
<1>3. PICK r : r = [jobs[j] EXCEPT !.state = "Completed"]
  OBVIOUS
<1>4. JobOk(r, ran[j], failed_at[j], clock)
  BY <1>2, <1>3, CompletedOk
<1>5. jobs' = [jobs EXCEPT ![j] = r]
  BY <1>1, <1>3 DEF Complete
<1>6. /\ ran' = [ran EXCEPT ![j] = ran[j]] /\ failed_at' = [failed_at EXCEPT ![j] = failed_at[j]]
      /\ clock' = clock
  BY <1>2 DEF Complete
<1>7. Table(jobs', ran', failed_at', clock') /\ clock' \in Nat /\ clock' <= MaxTime
  BY <1>2, <1>4, <1>5, <1>6, OneChanges
<1>8. Rest(w) /\ worker[w].pc = "working"
  BY DEF Complete
<1>9. Hands' /\ Held'
  BY <1>1, <1>5, <1>6, <1>8, RestKeeps, ReportKeeps
<1>10. CronInv'
  BY DEF Complete, QueueInv, CronInv, NextAfter, Never
<1> QED  BY <1>7, <1>9, <1>10 DEF QueueInv

\* fail.
LEMMA FailKeeps ==
    ASSUME QueueInv, QueueConstants, NEW w \in Workers, Fail(w)
    PROVE  QueueInv'
<1>1. PICK j \in Ids : j = worker[w].job
  BY DEF Fail, QueueInv, Held
<1>2. /\ clock \in Nat /\ JobOk(jobs[j], ran[j], failed_at[j], clock)
      /\ DOMAIN ran = DOMAIN jobs /\ DOMAIN failed_at = DOMAIN jobs
      /\ ran = [k \in DOMAIN jobs |-> ran[k]]
  BY TableDomains DEF QueueInv, Ids
<1>3. PICK at \in Nat : at = ReportTime(w) /\ (Modes = {"direct"} => at = clock)
  <2>1. worker[w] \in Hand
    BY DEF QueueInv, Hands
  <2>2. worker[w].now \in Nat /\ worker[w].mode \in Modes
    BY <2>1, QueueValues DEF Hand
  <2>3. ReportTime(w) \in Nat /\ (Modes = {"direct"} => ReportTime(w) = clock)
    BY <1>2, <2>2 DEF ReportTime
  <2> QED  BY <2>3
<1>4. PICK r : r = [jobs[j] EXCEPT !.state = FailedState(jobs[j]),
                                   !.available_at = IF Exhausted(jobs[j]) THEN @
                                                    ELSE at + Delay[jobs[j].attempts]]
  OBVIOUS
<1>5. JobOk(r, ran[j], clock, clock)
  BY <1>1, <1>2, <1>3, <1>4, FailedOk DEF Fail
<1>6. jobs[j] \in QueuedJob
  BY <1>2 DEF JobOk
<1>7. jobs' = [jobs EXCEPT ![j] = r]
  BY <1>1, <1>3, <1>4, <1>6 DEF Fail, QueuedJob, Ids
<1>8. /\ ran' = [ran EXCEPT ![j] = ran[j]] /\ failed_at' = [failed_at EXCEPT ![j] = clock]
      /\ clock' = clock /\ clock \in Stamp
  BY <1>1, <1>2 DEF Fail, Stamp
<1>9. Table(jobs', ran', failed_at', clock') /\ clock' \in Nat /\ clock' <= MaxTime
  BY <1>5, <1>7, <1>8, OneChanges
<1>10. Rest(w) /\ worker[w].pc = "working"
  BY DEF Fail
<1>11. Hands' /\ Held'
  BY <1>1, <1>7, <1>8, <1>10, RestKeeps, ReportKeeps
<1>12. CronInv'
  BY DEF Fail, QueueInv, CronInv, NextAfter, Never
<1> QED  BY <1>9, <1>11, <1>12 DEF QueueInv

\* A handler that panics leaves its job Active, and no worker has it any more.
LEMMA PanicKeeps ==
    ASSUME QueueInv, NEW w \in Workers, Panic(w)
    PROVE  QueueInv'
<1>1. Rest(w) /\ clock' = clock /\ jobs' = jobs
  BY DEF Panic
<1>2. Hands' /\ worker'[w].pc = "idle" /\ \A v \in Workers \ {w} : worker'[v] = worker[v]
  BY <1>1, RestKeeps
<1>3. Held'
  BY <1>1, <1>2 DEF QueueInv, Held, Ids
<1>4. CronInv'
  BY DEF Panic, QueueInv, CronInv, NextAfter, Never
<1> QED  BY <1>2, <1>3, <1>4 DEF QueueInv, Panic

\* A worker reads the clock before it waits for the mutex.
LEMMA ReadClockKeeps ==
    ASSUME QueueInv, NEW w \in Workers, ReadClock(w)
    PROVE  QueueInv'
<1>1. worker \in [Workers -> Hand] /\ worker[w] \in Hand /\ clock \in Nat
  BY DEF QueueInv, Hands
<1>2. PICK h : h = [worker[w] EXCEPT !.pc = "claiming", !.now = clock]
  OBVIOUS
<1>3. clock \in Time
  BY <1>1, QueueValues
<1>4. h \in Hand /\ h.pc = "claiming" /\ h.now = clock
  BY <1>1, <1>2, <1>3 DEF Hand
<1>5. worker' = [worker EXCEPT ![w] = h]
  BY <1>1, <1>2 DEF ReadClock, Hand
<1>6. worker' \in [Workers -> Hand] /\ worker'[w] = h /\ \A v \in Workers \ {w} : worker'[v] = worker[v]
  BY <1>1, <1>4, <1>5
<1>7. Hands'
  BY <1>1, <1>4, <1>6 DEF QueueInv, Hands, ReadClock
<1>8. Held'
  BY <1>4, <1>6 DEF QueueInv, Held, Ids, ReadClock
<1>9. CronInv'
  BY DEF ReadClock, QueueInv, CronInv, NextAfter, Never
<1> QED  BY <1>7, <1>8, <1>9 DEF QueueInv, ReadClock

\* Time passes: what waits still waits, and readings grow old.
LEMMA AdvanceKeeps ==
    ASSUME QueueInv, Advance
    PROVE  QueueInv'
<1>1. clock \in Nat /\ clock' = clock + 1 /\ clock < MaxTime /\ MaxTime \in Nat
  BY MaxAttemptsNat DEF QueueInv, Advance
<1>2. clock' \in Nat /\ clock <= clock' /\ clock' <= MaxTime
  BY <1>1
<1>3. PICK t \in Nat : t = clock'
  BY <1>2
<1>4. Table(jobs, ran, failed_at, clock)
  BY DEF QueueInv
<1>5. /\ jobs = [k \in DOMAIN jobs |-> jobs[k]] /\ ran = [k \in DOMAIN jobs |-> ran[k]]
      /\ failed_at \in [DOMAIN jobs -> Stamp]
      /\ \A k \in DOMAIN jobs : JobOk(jobs[k], ran[k], failed_at[k], clock)
  BY <1>4, TableDomains
<1>6. \A k \in DOMAIN jobs : JobOk(jobs[k], ran[k], failed_at[k], t)
  BY <1>1, <1>2, <1>3, <1>5, LaterOk
<1>7. TableOn(DOMAIN jobs, jobs, ran, failed_at, t)
  BY <1>5, <1>6 DEF TableOn
<1>8. Table(jobs, ran, failed_at, t)
  BY <1>4, <1>7, TableChanges
<1>9. Hands'
  <2>1. \A w \in Workers : worker[w].now \in Nat
    BY QueueValues DEF QueueInv, Hands, Hand
  <2> QED  BY <1>1, <2>1 DEF QueueInv, Hands, Advance
<1>10. Held'
  BY DEF QueueInv, Held, Ids, Advance
<1>11. CronInv'
  BY <1>1 DEF Advance, QueueInv, CronInv, NextAfter, Never
<1> QED  BY <1>2, <1>3, <1>8, <1>9, <1>10, <1>11 DEF QueueInv, Advance

\* In P every job is as it is, or is due for worker w and waits.
PromotedFor(w, P) ==
    /\ P = [k \in Ids |-> P[k]]
    /\ \A k \in Ids :
          /\ JobOk(P[k], ran[k], failed_at[k], clock)
          /\ P[k] = jobs[k] \/ (IsDue(jobs[k], worker[w].now) /\ P[k].state = "Waiting")
          /\ P[k].queue = jobs[k].queue /\ P[k].attempts = jobs[k].attempts

\* What promote_due leaves: every job is as before, or was due and waits now.
LEMMA PromotedJobs ==
    ASSUME QueueInv, NEW w \in Workers, NEW q, NEW P, P = Promoted(q, worker[w].now)
    PROVE  PromotedFor(w, P)
<1>1. clock \in Nat /\ worker[w] \in Hand /\ worker[w].now <= clock
  BY DEF QueueInv, Hands
<1>2. PICK now \in Nat : now = worker[w].now
  BY <1>1, QueueValues DEF Hand
<1>3. \A k \in Ids : JobOk(jobs[k], ran[k], failed_at[k], clock)
  BY TableDomains DEF QueueInv, Ids
<1>4. P = [k \in Ids |-> IF jobs[k].queue = q /\ IsDue(jobs[k], now)
                         THEN [jobs[k] EXCEPT !.state = "Waiting"] ELSE jobs[k]]
  BY <1>2 DEF Promoted
<1>5. ASSUME NEW k \in Ids
      PROVE  /\ JobOk(P[k], ran[k], failed_at[k], clock)
             /\ P[k] = jobs[k] \/ (IsDue(jobs[k], now) /\ P[k].state = "Waiting")
             /\ P[k].queue = jobs[k].queue /\ P[k].attempts = jobs[k].attempts
  <2>1. PICK r : r = jobs[k]
    OBVIOUS
  <2>2. JobOk(r, ran[k], failed_at[k], clock) /\ r \in QueuedJob
    BY <1>3, <2>1 DEF JobOk
  <2>3. CASE r.queue = q /\ IsDue(r, now)
    <3>1. P[k] = [r EXCEPT !.state = "Waiting"]
      BY <1>4, <2>1, <2>3
    <3>2. JobOk([r EXCEPT !.state = "Waiting"], ran[k], failed_at[k], clock)
      BY <1>1, <1>2, <2>2, <2>3, PromotedOk
    <3>3. /\ [r EXCEPT !.state = "Waiting"].state = "Waiting" /\ [r EXCEPT !.state = "Waiting"].queue = r.queue
          /\ [r EXCEPT !.state = "Waiting"].attempts = r.attempts
      BY <2>2 DEF QueuedJob
    <3> QED  BY <2>1, <2>3, <3>1, <3>2, <3>3
  <2>4. CASE ~ (r.queue = q /\ IsDue(r, now))
    <3>1. P[k] = r
      BY <1>4, <2>1, <2>4
    <3> QED  BY <2>1, <2>2, <3>1
  <2> QED  BY <2>3, <2>4
<1>6. P = [k \in Ids |-> P[k]]
  BY <1>4
<1> QED  BY <1>2, <1>5, <1>6 DEF PromotedFor

\* A claim that answers None has still promoted what was due.
LEMMA ClaimNoneKeeps ==
    ASSUME QueueInv, NEW w \in Workers, NEW q, ClaimNone(w, q)
    PROVE  QueueInv'
<1>1. jobs' = Promoted(q, worker[w].now) /\ UNCHANGED <<ran, failed_at, clock>>
  BY DEF ClaimNone
<1>0. PromotedFor(w, jobs')
  BY <1>1, PromotedJobs
<1>2. /\ jobs' = [k \in Ids |-> jobs'[k]]
      /\ \A k \in Ids : JobOk(jobs'[k], ran[k], failed_at[k], clock)
  BY <1>0 DEF PromotedFor
<1>3. \A k \in Ids : jobs'[k] = jobs[k] \/ IsDue(jobs[k], worker[w].now)
  BY <1>0 DEF PromotedFor
<1>4. ran = [k \in Ids |-> ran[k]] /\ failed_at \in [Ids -> Stamp] /\ Table(jobs, ran, failed_at, clock)
  BY TableDomains DEF QueueInv, Ids
<1>5. TableOn(Ids, jobs', ran, failed_at, clock)
  BY <1>2, <1>4 DEF TableOn
<1>6. Table(jobs', ran, failed_at, clock)
  BY <1>4, <1>5, TableChanges DEF Ids
<1>7. worker \in [Workers -> Hand] /\ worker[w] \in Hand /\ clock \in Nat
  BY DEF QueueInv, Hands
<1>8. PICK h : h = [worker[w] EXCEPT !.pc = "idle", !.now = 0]
  OBVIOUS
<1>9. h \in Hand /\ h.pc = "idle" /\ h.now = 0
  BY <1>7, <1>8, QueueValues DEF Hand
<1>10. worker' = [worker EXCEPT ![w] = h]
  BY <1>7, <1>8 DEF ClaimNone, Hand
<1>11. worker' \in [Workers -> Hand] /\ worker'[w] = h /\ \A v \in Workers \ {w} : worker'[v] = worker[v]
  BY <1>7, <1>9, <1>10
<1>12. Hands'
  BY <1>1, <1>7, <1>9, <1>11 DEF QueueInv, Hands
<1>13. Held'
  <2>1. Ids' = Ids
    BY <1>2 DEF Ids
  <2>2. \A k \in Ids : jobs[k].state = "Active" => jobs'[k].state = "Active"
    BY <1>3 DEF IsDue
  <2> QED  BY <1>9, <1>11, <2>1, <2>2 DEF QueueInv, Held
<1>14. CronInv'
  BY DEF ClaimNone, QueueInv, CronInv, NextAfter, Never
<1> QED  BY <1>1, <1>6, <1>12, <1>13, <1>14 DEF QueueInv

\* What claim does to the jobs when it answers j.
LEMMA ClaimedJobs ==
    ASSUME QueueInv, NEW w \in Workers, NEW q, NEW j \in Ids, ClaimJob(w, q, j)
    PROVE  /\ worker[w].now \in Nat /\ Ids' = Ids
           /\ TableOn(Ids, jobs', ran', failed_at, clock)
           /\ jobs[j].state # "Active" /\ jobs'[j].state = "Active"
           /\ \A k \in Ids \ {j} : jobs'[k] = jobs[k] \/ IsDue(jobs[k], worker[w].now)
           /\ \A k \in Ids : jobs'[k].queue = jobs[k].queue
           /\ jobs[j].queue = q
<1>1. PICK P : P = Promoted(q, worker[w].now)
  OBVIOUS
<1>0. PromotedFor(w, P)
  BY <1>1, PromotedJobs
<1>2. /\ P = [k \in Ids |-> P[k]]
      /\ \A k \in Ids :
            /\ JobOk(P[k], ran[k], failed_at[k], clock)
            /\ P[k] = jobs[k] \/ (IsDue(jobs[k], worker[w].now) /\ P[k].state = "Waiting")
            /\ P[k].queue = jobs[k].queue
  BY <1>0 DEF PromotedFor
<1>3. P[j].state = "Waiting" /\ jobs[j].queue = q
  BY <1>1 DEF ClaimJob, Waiting
<1>4. ran = [k \in Ids |-> ran[k]] /\ failed_at \in [Ids -> Stamp] /\ clock \in Nat /\ worker[w] \in Hand
  BY TableDomains DEF QueueInv, Ids, Hands
<1>5. PICK now \in Nat : now = worker[w].now
  BY <1>4, QueueValues DEF Hand
<1>6. PICK r : r = [P[j] EXCEPT !.state = "Active", !.attempts = @ + 1]
  OBVIOUS
<1>7. JobOk(r, Append(ran[j], now), failed_at[j], clock)
  BY <1>2, <1>3, <1>4, <1>5, <1>6, StartedOk
<1>8. P[j] \in QueuedJob
  BY <1>2 DEF JobOk
<1>9. r.state = "Active" /\ r.queue = q
  BY <1>2, <1>3, <1>6, <1>8 DEF QueuedJob
<1>10. jobs' = [P EXCEPT ![j] = r]
  BY <1>1, <1>2, <1>6, <1>8 DEF ClaimJob, QueuedJob
<1>11. ran' = [ran EXCEPT ![j] = Append(ran[j], now)]
  BY <1>5 DEF ClaimJob
<1>12. /\ jobs' = [k \in Ids |-> jobs'[k]] /\ jobs'[j] = r /\ \A k \in Ids \ {j} : jobs'[k] = P[k]
  BY <1>2, <1>10
<1>13. /\ ran' = [k \in Ids |-> ran'[k]] /\ ran'[j] = Append(ran[j], now)
       /\ \A k \in Ids \ {j} : ran'[k] = ran[k]
  BY <1>4, <1>11
<1>14. \A k \in Ids : JobOk(jobs'[k], ran'[k], failed_at[k], clock)
  BY <1>2, <1>7, <1>12, <1>13
<1>15. TableOn(Ids, jobs', ran', failed_at, clock)
  BY <1>4, <1>12, <1>13, <1>14 DEF TableOn
<1>16. Ids' = Ids
  BY <1>12 DEF Ids
<1>17. jobs[j].state # "Active"
  BY <1>2, <1>3 DEF IsDue
<1> QED  BY <1>2, <1>3, <1>5, <1>9, <1>12, <1>15, <1>16, <1>17

\* A claim that answers a job hands it to this worker alone.
LEMMA ClaimJobKeeps ==
    ASSUME QueueInv, NEW w \in Workers, NEW q, NEW j \in Ids, ClaimJob(w, q, j)
    PROVE  QueueInv'
<1>1. UNCHANGED <<failed_at, clock>>
  BY DEF ClaimJob
<1>2. /\ Ids' = Ids /\ TableOn(Ids, jobs', ran', failed_at, clock)
      /\ jobs[j].state # "Active" /\ jobs'[j].state = "Active"
      /\ \A k \in Ids \ {j} : jobs'[k] = jobs[k] \/ IsDue(jobs[k], worker[w].now)
  BY ClaimedJobs
<1>3. Table(jobs, ran, failed_at, clock) /\ j \in Count
  BY TableDomains DEF QueueInv, Ids
<1>4. Table(jobs', ran', failed_at, clock)
  BY <1>2, <1>3, TableChanges DEF Ids
<1>5. worker \in [Workers -> Hand] /\ worker[w] \in Hand /\ clock \in Nat
  BY DEF QueueInv, Hands
<1>6. PICK h : h = [worker[w] EXCEPT !.pc = "working", !.job = j]
  OBVIOUS
<1>7. h \in Hand /\ h.pc = "working" /\ h.job = j /\ h.now = worker[w].now
  BY <1>3, <1>5, <1>6 DEF Hand
<1>8. worker' = [worker EXCEPT ![w] = h]
  BY <1>5, <1>6 DEF ClaimJob, Hand
<1>9. worker' \in [Workers -> Hand] /\ worker'[w] = h /\ \A v \in Workers \ {w} : worker'[v] = worker[v]
  BY <1>5, <1>7, <1>8
<1>10. Hands'
  BY <1>1, <1>5, <1>7, <1>9 DEF QueueInv, Hands
<1>11. Held'
  <2>1. \A k \in Ids : jobs[k].state = "Active" => jobs'[k].state = "Active"
    BY <1>2 DEF IsDue
  <2>2. \A v \in Workers : worker[v].pc = "working" => worker[v].job # j
    BY <1>2 DEF QueueInv, Held
  <2> QED  BY <1>2, <1>7, <1>9, <2>1, <2>2 DEF QueueInv, Held
<1>12. CronInv'
  BY DEF ClaimJob, QueueInv, CronInv, NextAfter, Never
<1> QED  BY <1>1, <1>4, <1>10, <1>11, <1>12 DEF QueueInv

\* Every operation keeps the invariant.
LEMMA QueueStep ==
    ASSUME QueueInv, QueueConstants, [Next]_vars
    PROVE  QueueInv'
<1>1. CASE \E q \in Queues, p \in Priorities, at \in {clock, clock + 1} \ {Never} : Enqueue(q, p, at)
  BY <1>1, EnqueueKeeps
<1>2. CASE \E q \in Queues, config \in Configs : Configure(q, config)
  BY <1>2 DEF Configure, QueueInv, Hands, Held, Ids, CronInv, NextAfter, Never
<1>3. CASE CronTick
  BY <1>3, CronTickKeeps
<1>4. CASE \E j \in Ids : RetryDead(j)
  BY <1>4, RetryDeadKeeps
<1>5. ASSUME NEW w \in Workers, WorkerStep(w)
      PROVE  QueueInv'
  BY <1>5, ReadClockKeeps, CompleteKeeps, FailKeeps, ClaimNoneKeeps, ClaimJobKeeps DEF WorkerStep
<1>6. CASE \E w \in Workers : Panic(w)
  BY <1>6, PanicKeeps
<1>7. CASE Advance
  BY <1>7, AdvanceKeeps
<1>8. CASE UNCHANGED vars
  BY <1>8 DEF vars, QueueInv, Hands, Held, Ids, CronInv, NextAfter, Never
<1> QED  BY <1>1, <1>2, <1>3, <1>4, <1>5, <1>6, <1>7, <1>8 DEF Next

\* The queue starts empty, with every worker idle.
LEMMA QueueStart == Init => QueueInv
<1> SUFFICES ASSUME Init PROVE QueueInv
  OBVIOUS
<1>1. Table(jobs, ran, failed_at, clock)
  <2>1. /\ << >> \in [1..0 -> QueuedJob] /\ << >> \in [1..0 -> Seq(Nat)] /\ << >> \in [1..0 -> Stamp]
    OBVIOUS
  <2> QED  BY <2>1 DEF Init, Table
<1>2. Hands /\ Held
  BY QueueValues DEF Init, Hands, Held, Hand
<1>3. CronInv
  BY DEF Init, CronInv
<1> QED  BY <1>1, <1>2, <1>3, MaxAttemptsNat DEF QueueInv, Init

-----------------------------------------------------------------------------
(* What starts a job *)

\* A job that is entered changes no list of starts.
LEMMA InsertStartsNone ==
    ASSUME QueueInv, NEW q, NEW p, NEW at, Insert(q, p, at), NEW j \in Ids
    PROVE  ran'[j] = ran[j]
<1>1. PICK n \in Nat : ran \in [1..n -> Seq(Nat)] /\ Ids = 1..n
  BY DEF QueueInv, Table, Ids
<1>2. Over(ran, n, Seq(Nat)) /\ Extended(ran, ran', << >>) /\ << >> \in Seq(Nat)
  BY <1>1 DEF Over, Extended, Insert
<1>3. OneMore(ran, ran', << >>, n)
  BY <1>2, Appended
<1> QED  BY <1>1, <1>3 DEF OneMore

\* Only claim starts a job: the one it answers, at the time its caller read.
LEMMA ClaimStarts ==
    ASSUME QueueInv, [Next]_vars, NEW j \in Ids, Started(j)
    PROVE  \E w \in Workers, q \in Queues :
              /\ ClaimJob(w, q, j) /\ worker[w].now \in Nat
              /\ ran[j] \in Seq(Nat) /\ ran'[j] = Append(ran[j], worker[w].now)
<1>1. ran[j] \in Seq(Nat) /\ DOMAIN ran = Ids
  BY TableDomains DEF QueueInv, Ids, JobOk
<1>2. ran'[j] # ran[j]
  BY <1>1 DEF Started
<1>3. PICK w \in Workers, q \in Queues, k \in Ids : ClaimJob(w, q, k)
  <2>1. ~ \E q, p, at : Insert(q, p, at)
    BY <1>2, InsertStartsNone
  <2>2. ~ \E q, p, at : Enqueue(q, p, at)
    BY <2>1 DEF Enqueue
  <2>3. ~ CronTick
    BY <2>1 DEF CronTick
  <2>4. ran' # ran
    BY <1>2
  <2> QED  BY <2>2, <2>3, <2>4 DEF Next, vars, Configure, RetryDead, WorkerStep, ReadClock, Complete,
             Fail, ClaimNone, Panic, Advance
<1>4. worker[w].now \in Nat
  BY QueueValues DEF QueueInv, Hands, Hand
<1>5. ran' = [ran EXCEPT ![k] = Append(@, worker[w].now)]
  BY <1>3 DEF ClaimJob
<1>6. k = j
  BY <1>1, <1>2, <1>5
<1>7. ran'[j] = Append(ran[j], worker[w].now)
  BY <1>1, <1>5, <1>6
<1> QED  BY <1>1, <1>3, <1>4, <1>6, <1>7

\* A job that is started was available at the time its caller read.
LEMMA StartedWasDue ==
    ASSUME QueueInv, NEW w \in Workers, NEW q, NEW j \in Ids, ClaimJob(w, q, j)
    PROVE  jobs[j].state \in {"Waiting", "Delayed"} /\ jobs[j].available_at <= clock
<1>1. PICK P : P = Promoted(q, worker[w].now)
  OBVIOUS
<1>2. PromotedFor(w, P)
  BY <1>1, PromotedJobs
<1>3. P[j].state = "Waiting"
  BY <1>1 DEF ClaimJob, Waiting
<1>4. clock \in Nat /\ worker[w].now \in Nat /\ worker[w].now <= clock
  BY QueueValues DEF QueueInv, Hands, Hand
<1>5. JobOk(jobs[j], ran[j], failed_at[j], clock)
  BY TableDomains DEF QueueInv, Ids
<1>6. jobs[j].available_at \in Nat
  BY <1>5, JobValues DEF JobOk
<1>7. CASE P[j] = jobs[j]
  BY <1>3, <1>5, <1>7 DEF JobOk
<1>8. CASE IsDue(jobs[j], worker[w].now)
  BY <1>4, <1>6, <1>8 DEF IsDue
<1> QED  BY <1>2, <1>7, <1>8 DEF PromotedFor

\* A claim starts no job before its backoff is over, when callers report the time
\* at which they report.
LEMMA BackoffStep ==
    ASSUME QueueInv, Modes = {"direct"}, [Next]_vars, NEW j \in Ids, Started(j), jobs[j].attempts > 0
    PROVE  clock >= failed_at[j] + Delay[jobs[j].attempts]
<1>1. PICK w \in Workers, q \in Queues : ClaimJob(w, q, j)
  BY ClaimStarts
<1>2. jobs[j].state \in {"Waiting", "Delayed"} /\ jobs[j].available_at <= clock
  BY <1>1, StartedWasDue
<1>3. JobOk(jobs[j], ran[j], failed_at[j], clock)
  BY TableDomains DEF QueueInv, Ids
<1>4. jobs[j].available_at = failed_at[j] + Delay[jobs[j].attempts]
  BY <1>2, <1>3 DEF JobOk
<1>5. jobs[j].available_at \in Nat /\ clock \in Nat
  BY <1>3, JobValues DEF JobOk, QueueInv
<1> QED  BY <1>2, <1>4, <1>5

\* A claim starts the first of the jobs that are due.
LEMMA OrderStep ==
    ASSUME QueueInv, [Next]_vars, NEW j \in Ids, Started(j), NEW k \in Ids,
           jobs[k].queue = jobs[j].queue, jobs[k].state \in {"Waiting", "Delayed"},
           jobs[k].available_at <= ran'[j][Len(ran'[j])]
    PROVE  k = j \/ Ahead(j, k)
<1>1. PICK w \in Workers, q \in Queues :
            /\ ClaimJob(w, q, j) /\ worker[w].now \in Nat
            /\ ran[j] \in Seq(Nat) /\ ran'[j] = Append(ran[j], worker[w].now)
  BY ClaimStarts
<1>2. ran'[j][Len(ran'[j])] = worker[w].now
  BY <1>1
<1>3. jobs[j].queue = q
  BY <1>1 DEF ClaimJob, Waiting
<1>4. PICK P : P = Promoted(q, worker[w].now)
  OBVIOUS
<1>5. jobs[k] \in QueuedJob
  BY TableDomains DEF QueueInv, Ids, JobOk
<1>6. P[k].state = "Waiting"
  <2>1. CASE jobs[k].state = "Delayed"
    <3>1. P[k] = [jobs[k] EXCEPT !.state = "Waiting"]
      BY <1>2, <1>3, <1>4, <2>1 DEF Promoted, IsDue
    <3> QED  BY <1>5, <3>1 DEF QueuedJob
  <2>2. CASE jobs[k].state = "Waiting"
    <3>1. P[k] = jobs[k]
      BY <1>4, <2>2 DEF Promoted, IsDue
    <3> QED  BY <2>2, <3>1
  <2> QED  BY <2>1, <2>2
<1>7. k \in Waiting(q, worker[w].now)
  BY <1>3, <1>4, <1>6 DEF Waiting
<1> QED  BY <1>1, <1>7 DEF ClaimJob

-----------------------------------------------------------------------------
(* What the invariant says *)

\* What the invariant says of workers and attempts.
LEMMA QueueAttempts ==
    ASSUME QueueInv
    PROVE  OneWorkerPerJob /\ AttemptsUsedUp
<1>1. OneWorkerPerJob
  BY DEF QueueInv, Held, OneWorkerPerJob
<1>2. ASSUME NEW j \in Ids
      PROVE  /\ Len(ran[j]) <= MaxAttempts * (1 + jobs[j].retried)
             /\ jobs[j].state = "Dead" => Len(ran[j]) = MaxAttempts * (1 + jobs[j].retried)
  <2>1. JobOk(jobs[j], ran[j], failed_at[j], clock)
    BY TableDomains DEF QueueInv, Ids
  <2>2. PICK r : r = jobs[j].retried
    OBVIOUS
  <2>3. r \in Nat /\ jobs[j].attempts \in Nat /\ MaxAttempts \in Nat
    BY <2>1, <2>2, JobValues, MaxAttemptsNat DEF JobOk
  <2>4. MaxAttempts * (1 + r) = MaxAttempts * r + MaxAttempts /\ MaxAttempts * r \in Int
    BY <2>3
  <2>5. Len(ran[j]) = MaxAttempts * r + jobs[j].attempts /\ jobs[j].attempts <= MaxAttempts
    BY <2>1, <2>2 DEF JobOk
  <2>6. Len(ran[j]) <= MaxAttempts * (1 + r)
    BY <2>3, <2>4, <2>5
  <2>7. jobs[j].state = "Dead" => Len(ran[j]) = MaxAttempts * (1 + r)
    BY <2>1, <2>3, <2>4, <2>5 DEF JobOk
  <2> QED  BY <2>2, <2>6, <2>7
<1> QED  BY <1>1, <1>2 DEF AttemptsUsedUp

\* A non-empty set of numbers has a least one.
LeastNumbers == \A S : S \subseteq Nat /\ S # {} => \E m \in S : \A n \in S : m <= n

\* Cron::next_after answers the first time of the schedule after t.
LEMMA NextIsFirst ==
    ASSUME LeastNumbers, NEW t \in Nat, NEW u \in Nat, u <= MaxTime
    PROVE  NextAfter(t) <= u <=> \E m \in CronTimes : t < m /\ m <= u
<1> DEFINE S == {m \in CronTimes : m > t}
<1>1. MaxTime \in Nat /\ CronTimes \subseteq Nat
  BY MaxAttemptsNat
<1>2. CASE S = {}
  <2>1. NextAfter(t) = MaxTime + 1
    BY <1>2 DEF NextAfter, Never
  <2> QED  BY <1>1, <1>2, <2>1
<1>3. CASE S # {}
  <2>1. S \subseteq Nat
    BY <1>1
  <2>2. PICK m \in S : \A n \in S : m <= n
    <3> HIDE DEF S
    <3> QED  BY <1>3, <2>1 DEF LeastNumbers
  <2>3. \E x \in CronTimes : x > t /\ \A n \in CronTimes : n > t => x <= n
    BY <2>2
  <2>4. PICK x \in CronTimes : x = NextAfter(t) /\ x > t /\ \A n \in CronTimes : n > t => x <= n
    BY <1>3, <2>3 DEF NextAfter
  <2> QED  BY <1>1, <2>4
<1> QED  BY <1>2, <1>3

\* What the invariant says of the cron entry.
LEMMA QueueCron == ASSUME LeastNumbers, QueueInv PROVE CronCollapses
<1>1. clock \in Nat /\ clock <= MaxTime /\ last_fire \in Nat /\ next_run = NextAfter(last_fire)
  BY DEF QueueInv, CronInv
<1> QED  BY <1>1, NextIsFirst DEF CronCollapses

-----------------------------------------------------------------------------
(* The rate limit *)

\* Every limit there is counts the starts of the same number of seconds.
OneWindow(per) ==
    /\ per \in Int
    /\ \A c \in Configs \union {DefaultConfig} :
          c.max_starts # None => c.max_starts \in Int /\ c.per_secs = per

\* The starts of queue q in the window, each a job and which start of it.
Recent(q, per) ==
    {s \in Ids \X Nat :
        jobs[s[1]].queue = q /\ s[2] \in 1..Len(ran[s[1]]) /\ ran[s[1]][s[2]] > clock - per}

Places(T) == DOMAIN T

\* Each of the starts S, at the times the table R has, is a place of its own in T.
Remembers(S, R, T) ==
    \E f : /\ \A s \in S : f[s] \in Places(T) /\ T[f[s]] = R[s[1]][s[2]]
           /\ \A s, u \in S : f[s] = f[u] => s = u

\* T is a list of times up to t.
TimesUpTo(T, t) == T \in Seq(Nat) /\ \A i \in DOMAIN T : T[i] <= t

RateInv(per) ==
    /\ configs \in [Queues -> Configs \union {DefaultConfig}]
    /\ DOMAIN starts = Queues
    /\ \A q \in Queues : TimesUpTo(starts[q], clock) /\ Remembers(Recent(q, per), ran, starts[q])

\* Fewer starts, at the same times, in the same list.
LEMMA RemembersFewer ==
    ASSUME NEW S, NEW R, NEW T, Remembers(S, R, T), NEW V, V \subseteq S, NEW Q,
           \A s \in V : Q[s[1]][s[2]] = R[s[1]][s[2]]
    PROVE  Remembers(V, Q, T)
<1>1. PICK f : /\ \A s \in S : f[s] \in Places(T) /\ T[f[s]] = R[s[1]][s[2]]
               /\ \A s, u \in S : f[s] = f[u] => s = u
  BY DEF Remembers
<1>2. /\ \A s \in V : f[s] \in Places(T) /\ T[f[s]] = Q[s[1]][s[2]]
      /\ \A s, u \in V : f[s] = f[u] => s = u
  BY <1>1
<1> QED  BY <1>2 DEF Remembers

\* All starts of S are in the window of per seconds before t, as R has them.
Within(S, R, t, per) == \A s \in S : R[s[1]][s[2]] > t - per

\* The list without its expired front still has every start of the window.
LEMMA RemembersPruned ==
    ASSUME LeastNumbers, NEW S, NEW R, NEW T, NEW t \in Nat, NEW now \in Nat, now <= t, NEW per \in Int,
           Remembers(S, R, T), TimesUpTo(T, t), Within(S, R, t, per),
           NEW U, U = DropExpired(T, now, per)
    PROVE  Remembers(S, R, U) /\ TimesUpTo(U, t)
<1> DEFINE kept == {i \in DOMAIN T : SaturatingSub(now, T[i]) < per}
           front == CHOOSE i \in kept : \A k \in kept : i <= k
<1>1. T \in Seq(Nat) /\ \A i \in DOMAIN T : T[i] <= t
  BY DEF TimesUpTo
<1>2. PICK n \in Nat : n = Len(T) /\ DOMAIN T = 1..n
  BY <1>1
<1>3. \A i \in 1..n : T[i] \in Nat /\ T[i] <= t
  BY <1>1, <1>2
<1>4. PICK f : /\ \A s \in S : f[s] \in Places(T) /\ T[f[s]] = R[s[1]][s[2]]
               /\ \A s, u \in S : f[s] = f[u] => s = u
  BY DEF Remembers
<1>5. ASSUME NEW s \in S PROVE f[s] \in kept
  <2>1. PICK i \in 1..n : i = f[s] /\ T[i] > t - per
    BY <1>2, <1>4 DEF Within, Places
  <2>2. SaturatingSub(now, T[i]) < per
    BY <1>3, <2>1 DEF SaturatingSub
  <2> QED  BY <1>2, <2>1, <2>2
<1>6. CASE kept = {}
  <2>1. S = {}
    BY <1>5, <1>6
  <2>2. U = << >>
    BY <1>6 DEF DropExpired
  <2>3. TimesUpTo(U, t)
    BY <2>2 DEF TimesUpTo
  <2> QED  BY <2>1, <2>3 DEF Remembers
<1>7. CASE kept # {}
  <2>1. kept \subseteq Nat
    BY <1>2
  <2>2. U = SubSeq(T, front, n)
    BY <1>2, <1>7 DEF DropExpired
  <2> HIDE DEF kept
  <2>3. \E i \in kept : \A k \in kept : i <= k
    BY <1>7, <2>1 DEF LeastNumbers
  <2>4. PICK m \in kept : m = front /\ \A k \in kept : m <= k
    BY <2>3
  <2> HIDE DEF front
  <2>5. m \in 1..n
    BY <1>2 DEF kept
  <2>6. U = SubSeq(T, m, n)
    BY <2>2, <2>4
  <2>7. U \in Seq(Nat) /\ Len(U) = n - m + 1
    BY <1>1, <1>2, <2>5, <2>6
  <2>8. \A i \in 1..(n - m + 1) : U[i] = T[m + i - 1]
    BY <1>1, <1>2, <2>5, <2>6
  <2>9. DOMAIN U = 1..(n - m + 1)
    BY <2>7
  <2>10. \A i \in 1..(n - m + 1) : m + i - 1 \in 1..n
    BY <2>5
  <2>11. TimesUpTo(U, t)
    BY <1>3, <2>7, <2>8, <2>9, <2>10 DEF TimesUpTo
  <2> DEFINE g == [s \in S |-> f[s] - m + 1]
  <2>12. ASSUME NEW s \in S PROVE g[s] \in Places(U) /\ U[g[s]] = R[s[1]][s[2]] /\ f[s] = g[s] + m - 1
    <3>1. PICK i \in 1..n : i = f[s] /\ m <= i
      BY <1>2, <1>5, <2>4 DEF kept
    <3>2. g[s] = i - m + 1
      BY <3>1
    <3>3. i - m + 1 \in 1..(n - m + 1) /\ m + (i - m + 1) - 1 = i
      BY <2>5, <3>1
    <3>4. U[i - m + 1] = T[i]
      BY <2>8, <3>3
    <3>5. f[s] = g[s] + m - 1
      BY <2>5, <3>1, <3>2
    <3>6. g[s] \in DOMAIN U
      BY <2>9, <3>2, <3>3
    <3> QED  BY <1>4, <3>1, <3>2, <3>4, <3>5, <3>6 DEF Places
  <2> HIDE DEF g
  <2>13. \A s, u \in S : g[s] = g[u] => s = u
    BY <1>4, <2>12
  <2> QED  BY <2>11, <2>12, <2>13 DEF Remembers
<1> QED  BY <1>6, <1>7

\* The starts V are of S, at the times they had, and one more, x, which is now.
OneStartMore(S, R, V, Q, x, now) ==
    /\ Q[x[1]][x[2]] = now
    /\ V \subseteq S \union {x}
    /\ \A s \in S : Q[s[1]][s[2]] = R[s[1]][s[2]]

\* The list with one more start at its end.
LEMMA RemembersOneMore ==
    ASSUME NEW S, NEW R, NEW T, NEW t \in Nat, NEW now \in Nat, now <= t,
           Remembers(S, R, T), TimesUpTo(T, t), NEW V, NEW Q, NEW x, OneStartMore(S, R, V, Q, x, now),
           NEW U, Extended(T, U, now)
    PROVE  Remembers(V, Q, U) /\ TimesUpTo(U, t)
<1> USE DEF OneStartMore, Extended
<1>1. T \in Seq(Nat) /\ \A i \in DOMAIN T : T[i] <= t
  BY DEF TimesUpTo
<1>2. PICK n \in Nat : n = Len(T) /\ DOMAIN T = 1..n
  BY <1>1
<1>3. U \in Seq(Nat) /\ DOMAIN U = 1..(n + 1) /\ U[n + 1] = now /\ \A i \in 1..n : U[i] = T[i]
  BY <1>1, <1>2
<1>4. \A i \in 1..(n + 1) : i \in 1..n \/ i = n + 1
  OBVIOUS
<1>5. TimesUpTo(U, t)
  BY <1>1, <1>2, <1>3, <1>4 DEF TimesUpTo
<1>6. PICK f : /\ \A s \in S : f[s] \in Places(T) /\ T[f[s]] = R[s[1]][s[2]]
               /\ \A s, u \in S : f[s] = f[u] => s = u
  BY DEF Remembers
<1> DEFINE g == [s \in V |-> IF s \in S THEN f[s] ELSE n + 1]
<1>7. \A s \in S : f[s] \in 1..n
  BY <1>2, <1>6 DEF Places
<1>8. \A i \in 1..n : i \in 1..(n + 1) /\ i # n + 1
  OBVIOUS
<1>9. n + 1 \in 1..(n + 1)
  OBVIOUS
<1>10. ASSUME NEW s \in V PROVE g[s] \in Places(U) /\ U[g[s]] = Q[s[1]][s[2]]
  <2>1. CASE s \in S
    BY <1>3, <1>6, <1>7, <1>8, <2>1 DEF Places
  <2>2. CASE s \notin S
    BY <1>3, <1>9, <2>2 DEF Places
  <2> QED  BY <2>1, <2>2
<1>11. ASSUME NEW s \in V, NEW u \in V, g[s] = g[u] PROVE s = u
  BY <1>6, <1>7, <1>8, <1>11
<1> HIDE DEF g
<1> QED  BY <1>5, <1>10, <1>11 DEF Remembers

\* No job is started by the step, and none changes its queue.
NoneStarts ==
    \A j \in Ids' : \/ j \in Ids /\ ran'[j] = ran[j] /\ jobs'[j].queue = jobs[j].queue
                    \/ ran'[j] = << >>

\* Then no start enters the window.
LEMMA RecentFewer ==
    ASSUME QueueInv, NoneStarts, clock' \in Nat, clock <= clock', NEW per \in Int, NEW q
    PROVE  /\ Recent(q, per)' \subseteq Recent(q, per)
           /\ \A s \in Recent(q, per)' : ran'[s[1]][s[2]] = ran[s[1]][s[2]]
<1>1. ASSUME NEW s \in Recent(q, per)'
      PROVE  s \in Recent(q, per) /\ ran'[s[1]][s[2]] = ran[s[1]][s[2]]
  <2>1. /\ s \in Ids' \X Nat /\ jobs'[s[1]].queue = q /\ s[2] \in 1..Len(ran'[s[1]])
        /\ ran'[s[1]][s[2]] > clock' - per
    BY <1>1 DEF Recent
  <2>2. PICK j \in Ids', n \in Nat : s = <<j, n>>
    BY <2>1
  <2>3. jobs'[j].queue = q /\ n \in 1..Len(ran'[j]) /\ ran'[j][n] > clock' - per
    BY <2>1, <2>2
  <2>4. ran'[j] # << >>
    BY <2>3
  <2>5. j \in Ids /\ ran'[j] = ran[j] /\ jobs'[j].queue = jobs[j].queue
    BY <2>4 DEF NoneStarts
  <2>6. ran[j] \in Seq(Nat) /\ clock \in Nat
    BY <2>5, TableDomains DEF QueueInv, Ids, JobOk
  <2>7. n \in 1..Len(ran[j]) /\ ran[j][n] \in Nat
    BY <2>3, <2>5, <2>6
  <2>8. ran[j][n] > clock - per
    BY <2>3, <2>5, <2>6, <2>7
  <2>9. s \in Ids \X Nat /\ s[1] = j /\ s[2] = n
    BY <2>2, <2>5
  <2> QED  BY <2>3, <2>5, <2>7, <2>8, <2>9 DEF Recent
<1> QED  BY <1>1

\* A step that starts nothing keeps what is remembered enough for the rate limit.
LEMMA RateKept ==
    ASSUME QueueInv, NoneStarts, clock' \in Nat, clock <= clock', NEW per \in Int, RateInv(per),
           starts' = starts, configs' \in [Queues -> Configs \union {DefaultConfig}]
    PROVE  RateInv(per)'
<1>1. ASSUME NEW q \in Queues
      PROVE  TimesUpTo(starts[q], clock') /\ Remembers(Recent(q, per)', ran', starts[q])
  <2>1. TimesUpTo(starts[q], clock) /\ Remembers(Recent(q, per), ran, starts[q])
    BY DEF RateInv
  <2>2. clock \in Nat
    BY DEF QueueInv
  <2>3. TimesUpTo(starts[q], clock')
    BY <2>1, <2>2 DEF TimesUpTo
  <2>4. /\ Recent(q, per)' \subseteq Recent(q, per)
        /\ \A s \in Recent(q, per)' : ran'[s[1]][s[2]] = ran[s[1]][s[2]]
    BY RecentFewer
  <2>5. Remembers(Recent(q, per)', ran', starts[q])
    BY <2>1, <2>4, RemembersFewer
  <2> QED  BY <2>3, <2>5
<1> QED  BY <1>1 DEF RateInv

\* insert starts nothing.
LEMMA InsertNoStart ==
    ASSUME QueueInv, NEW q, NEW p, NEW at, Insert(q, p, at)
    PROVE  NoneStarts
<1>1. PICK n \in Nat : ran \in [1..n -> Seq(Nat)] /\ jobs \in [1..n -> QueuedJob]
  BY DEF QueueInv, Table
<1>2. jobs \in Seq(QueuedJob) /\ Len(jobs) = n
  BY <1>1
<1>3. /\ DOMAIN jobs' = 1..(n + 1) /\ \A j \in 1..n : jobs'[j] = jobs[j]
  BY <1>2 DEF Insert
<1>4. Over(ran, n, Seq(Nat)) /\ Extended(ran, ran', << >>) /\ << >> \in Seq(Nat)
  BY <1>1 DEF Over, Extended, Insert
<1>5. OneMore(ran, ran', << >>, n)
  BY <1>4, Appended
<1>6. \A j \in 1..(n + 1) : j \in 1..n \/ j = n + 1
  OBVIOUS
<1>7. DOMAIN jobs = 1..n
  BY <1>1
<1> QED  BY <1>3, <1>5, <1>6, <1>7 DEF NoneStarts, OneMore, Ids

\* One job changes, not its queue, and no start is recorded.
LEMMA ChangeNoStart ==
    ASSUME NEW j \in Ids, NEW r, jobs' = [jobs EXCEPT ![j] = r], r.queue = jobs[j].queue, ran' = ran
    PROVE  NoneStarts
  BY DEF NoneStarts, Ids

\* retry_dead starts nothing.
LEMMA RetryNoStart ==
    ASSUME QueueInv, NEW j \in Ids, RetryDead(j)
    PROVE  NoneStarts
<1>1. jobs[j] \in QueuedJob
  BY TableDomains DEF QueueInv, Ids, JobOk
<1>2. PICK r : r = [jobs[j] EXCEPT !.state = "Waiting", !.attempts = 0, !.available_at = clock,
                                   !.retried = @ + 1]
  OBVIOUS
<1>3. jobs' = [jobs EXCEPT ![j] = r] /\ r.queue = jobs[j].queue
  BY <1>1, <1>2 DEF RetryDead, QueuedJob, Ids
<1> QED  BY <1>3, ChangeNoStart DEF RetryDead

\* complete and fail start nothing.
LEMMA ReportNoStart ==
    ASSUME QueueInv, NEW w \in Workers, Complete(w) \/ Fail(w)
    PROVE  NoneStarts
<1>1. PICK j \in Ids : j = worker[w].job
  BY DEF Complete, Fail, QueueInv, Held
<1>2. jobs[j] \in QueuedJob
  BY TableDomains DEF QueueInv, Ids, JobOk
<1>3. CASE Complete(w)
  <2>1. PICK r : r = [jobs[j] EXCEPT !.state = "Completed"]
    OBVIOUS
  <2>2. jobs' = [jobs EXCEPT ![j] = r] /\ r.queue = jobs[j].queue
    BY <1>1, <1>2, <1>3, <2>1 DEF Complete, QueuedJob
  <2> QED  BY <1>3, <2>2, ChangeNoStart DEF Complete
<1>4. CASE Fail(w)
  <2>1. PICK a : a = IF Exhausted(jobs[j]) THEN jobs[j].available_at
                     ELSE ReportTime(w) + Delay[jobs[j].attempts]
    OBVIOUS
  <2>2. PICK b : b = FailedState(jobs[j])
    OBVIOUS
  <2>3. PICK r : r = [jobs[j] EXCEPT !.state = b, !.available_at = a]
    OBVIOUS
  <2>4. jobs' = [jobs EXCEPT ![j].state = b, ![j].available_at = a]
    BY <1>1, <1>2, <1>4, <2>1, <2>2 DEF Fail, QueuedJob, Ids
  <2>5. jobs' = [jobs EXCEPT ![j] = r] /\ r.queue = jobs[j].queue
    BY <1>2, <2>3, <2>4 DEF QueuedJob, Ids
  <2> QED  BY <1>4, <2>5, ChangeNoStart DEF Fail
<1> QED  BY <1>3, <1>4

\* Pruning forgets no start of the window, whatever time its caller had read.
LEMMA PrunedRemembers ==
    ASSUME LeastNumbers, QueueInv, NEW per, OneWindow(per), RateInv(per), NEW w \in Workers, NEW q \in Queues,
           NEW U, U = Pruned(q, worker[w].now)
    PROVE  Remembers(Recent(q, per), ran, U) /\ TimesUpTo(U, clock)
<1>1. TimesUpTo(starts[q], clock) /\ Remembers(Recent(q, per), ran, starts[q])
  BY DEF RateInv
<1>2. clock \in Nat /\ worker[w].now \in Nat /\ worker[w].now <= clock
  BY QueueValues DEF QueueInv, Hands, Hand
<1>3. CASE configs[q].max_starts = None
  BY <1>1, <1>3 DEF Pruned
<1>4. CASE configs[q].max_starts # None
  <2>1. configs[q] \in Configs \union {DefaultConfig}
    BY DEF RateInv
  <2>2. configs[q].per_secs = per /\ per \in Int
    BY <1>4, <2>1 DEF OneWindow
  <2>3. U = DropExpired(starts[q], worker[w].now, per)
    BY <1>4, <2>2 DEF Pruned
  <2>4. Within(Recent(q, per), ran, clock, per)
    BY DEF Within, Recent
  <2> QED  BY <1>1, <1>2, <2>2, <2>3, <2>4, RemembersPruned
<1> QED  BY <1>3, <1>4

\* A claim that answers None may forget starts, but only those out of the window.
LEMMA ClaimNoneRate ==
    ASSUME LeastNumbers, QueueInv, NEW per, OneWindow(per), RateInv(per), NEW w \in Workers, NEW q \in Queues,
           ClaimNone(w, q)
    PROVE  RateInv(per)'
<1>1. PICK U : U = Pruned(q, worker[w].now)
  OBVIOUS
<1>2. Remembers(Recent(q, per), ran, U) /\ TimesUpTo(U, clock)
  BY <1>1, PrunedRemembers
<1>3. starts' = starts \/ starts' = [starts EXCEPT ![q] = U]
  BY <1>1 DEF ClaimNone
<1>4. jobs' = Promoted(q, worker[w].now) /\ UNCHANGED <<ran, clock, configs>>
  BY DEF ClaimNone
<1>5. PromotedFor(w, jobs')
  BY <1>4, PromotedJobs
<1>6. NoneStarts
  BY <1>4, <1>5 DEF NoneStarts, PromotedFor, Ids
<1>7. clock \in Nat /\ clock' = clock /\ per \in Int
  BY <1>4 DEF QueueInv, OneWindow
<1>8. ASSUME NEW p \in Queues
      PROVE  TimesUpTo(starts'[p], clock) /\ Remembers(Recent(p, per)', ran', starts'[p])
  <2>1. TimesUpTo(starts'[p], clock) /\ Remembers(Recent(p, per), ran, starts'[p])
    <3>1. TimesUpTo(starts[p], clock) /\ Remembers(Recent(p, per), ran, starts[p]) /\ DOMAIN starts = Queues
      BY DEF RateInv
    <3>2. starts'[p] = starts[p] \/ (p = q /\ starts'[p] = U)
      BY <1>3, <3>1
    <3> QED  BY <1>2, <3>1, <3>2
  <2>2. /\ Recent(p, per)' \subseteq Recent(p, per)
        /\ \A s \in Recent(p, per)' : ran'[s[1]][s[2]] = ran[s[1]][s[2]]
    BY <1>6, <1>7, RecentFewer
  <2> QED  BY <2>1, <2>2, RemembersFewer
<1>9. DOMAIN starts' = Queues
  BY <1>3 DEF RateInv
<1> QED  BY <1>4, <1>7, <1>8, <1>9 DEF RateInv

\* The one start that a claim adds to the window of its queue.
LEMMA ClaimRecent ==
    ASSUME QueueInv, NEW per \in Int, NEW w \in Workers, NEW q \in Queues, NEW j \in Ids,
           ClaimJob(w, q, j), NEW x, x = <<j, Len(ran[j]) + 1>>
    PROVE  /\ OneStartMore(Recent(q, per), ran, Recent(q, per)', ran', x, worker[w].now)
           /\ \A p \in Queues \ {q} :
                 /\ Recent(p, per)' \subseteq Recent(p, per)
                 /\ \A s \in Recent(p, per)' : ran'[s[1]][s[2]] = ran[s[1]][s[2]]
<1>1. /\ worker[w].now \in Nat /\ Ids' = Ids /\ jobs[j].queue = q
      /\ \A k \in Ids : jobs'[k].queue = jobs[k].queue
  BY ClaimedJobs
<1>2. ran = [k \in Ids |-> ran[k]] /\ \A k \in Ids : ran[k] \in Seq(Nat)
  BY TableDomains DEF QueueInv, Ids, JobOk
<1>3. PICK a \in Seq(Nat) : a = ran[j]
  BY <1>2
<1>4. PICK b : b = Append(a, worker[w].now)
  OBVIOUS
<1>5. ran' = [ran EXCEPT ![j] = b]
  BY <1>3, <1>4 DEF ClaimJob
<1>6. ran'[j] = b /\ \A k \in Ids \ {j} : ran'[k] = ran[k]
  BY <1>2, <1>5
<1>7. PICK n \in Nat : n = Len(a)
  OBVIOUS
<1>8. Len(b) = n + 1 /\ b[n + 1] = worker[w].now /\ \A i \in 1..n : b[i] = a[i]
  BY <1>1, <1>3, <1>4, <1>7
<1>9. x = <<j, n + 1>> /\ x[1] = j /\ x[2] = n + 1
  BY <1>3, <1>7
<1>10. ran'[x[1]][x[2]] = worker[w].now
  BY <1>6, <1>8, <1>9
<1>11. clock' = clock
  BY DEF ClaimJob
<1>12. ASSUME NEW p \in Queues, NEW s \in Recent(p, per)'
       PROVE  (p = q /\ s = x) \/ (s \in Recent(p, per) /\ ran'[s[1]][s[2]] = ran[s[1]][s[2]])
  <2>1. /\ s \in Ids \X Nat /\ jobs'[s[1]].queue = p /\ s[2] \in 1..Len(ran'[s[1]])
        /\ ran'[s[1]][s[2]] > clock - per
    BY <1>1, <1>11, <1>12 DEF Recent
  <2>2. PICK k \in Ids, m \in Nat : s = <<k, m>>
    BY <2>1
  <2>3. jobs[k].queue = p /\ m \in 1..Len(ran'[k]) /\ ran'[k][m] > clock - per
    BY <1>1, <2>1, <2>2
  <2>4. CASE k = j /\ m = n + 1
    BY <1>1, <1>9, <2>2, <2>3, <2>4
  <2>5. CASE k = j /\ m # n + 1
    <3>1. m \in 1..n
      BY <1>6, <1>8, <2>3, <2>5
    <3>2. m \in 1..Len(ran[k]) /\ ran'[k][m] = ran[k][m]
      BY <1>3, <1>6, <1>7, <1>8, <2>5, <3>1
    <3>3. s \in Ids \X Nat /\ s[1] = k /\ s[2] = m
      BY <2>2
    <3> QED  BY <2>3, <3>2, <3>3 DEF Recent
  <2>6. CASE k # j
    <3>1. ran'[k] = ran[k]
      BY <1>6, <2>6
    <3>2. s \in Ids \X Nat /\ s[1] = k /\ s[2] = m
      BY <2>2
    <3> QED  BY <2>3, <3>1, <3>2 DEF Recent
  <2> QED  BY <2>4, <2>5, <2>6
<1>13. ASSUME NEW s \in Recent(q, per) PROVE ran'[s[1]][s[2]] = ran[s[1]][s[2]]
  <2>1. s[1] \in Ids /\ s[2] \in 1..Len(ran[s[1]])
    BY <1>13 DEF Recent
  <2>2. CASE s[1] = j
    BY <1>3, <1>6, <1>7, <1>8, <2>1, <2>2
  <2>3. CASE s[1] # j
    BY <1>6, <2>1, <2>3
  <2> QED  BY <2>2, <2>3
<1> QED  BY <1>10, <1>12, <1>13 DEF OneStartMore

\* A claim that answers a job remembers when it started it.
LEMMA ClaimJobRate ==
    ASSUME LeastNumbers, QueueInv, NEW per, OneWindow(per), RateInv(per), NEW w \in Workers, NEW q \in Queues,
           NEW j \in Ids, ClaimJob(w, q, j)
    PROVE  RateInv(per)'
<1>1. PICK T : T = Pruned(q, worker[w].now)
  OBVIOUS
<1>2. Remembers(Recent(q, per), ran, T) /\ TimesUpTo(T, clock)
  BY <1>1, PrunedRemembers
<1>3. PICK x : x = <<j, Len(ran[j]) + 1>>
  OBVIOUS
<1>4. per \in Int /\ clock \in Nat /\ worker[w].now \in Nat /\ worker[w].now <= clock
  BY QueueValues DEF OneWindow, QueueInv, Hands, Hand
<1>5. OneStartMore(Recent(q, per), ran, Recent(q, per)', ran', x, worker[w].now)
  BY <1>3, <1>4, ClaimRecent
<1>6. \A p \in Queues \ {q} :
         /\ Recent(p, per)' \subseteq Recent(p, per)
         /\ \A s \in Recent(p, per)' : ran'[s[1]][s[2]] = ran[s[1]][s[2]]
  BY <1>3, <1>4, ClaimRecent
<1>7. PICK U : U = Append(T, worker[w].now) /\ Extended(T, U, worker[w].now)
  BY DEF Extended
<1>8. Remembers(Recent(q, per)', ran', U) /\ TimesUpTo(U, clock)
  BY <1>2, <1>4, <1>5, <1>7, RemembersOneMore
<1>9. starts' = [starts EXCEPT ![q] = U] /\ UNCHANGED <<configs, clock>>
  BY <1>1, <1>7 DEF ClaimJob
<1>10. DOMAIN starts = Queues
  BY DEF RateInv
<1>11. starts'[q] = U /\ \A p \in Queues \ {q} : starts'[p] = starts[p]
  BY <1>9, <1>10
<1>12. ASSUME NEW p \in Queues \ {q}
       PROVE  TimesUpTo(starts'[p], clock) /\ Remembers(Recent(p, per)', ran', starts'[p])
  <2>1. TimesUpTo(starts[p], clock) /\ Remembers(Recent(p, per), ran, starts[p])
    BY DEF RateInv
  <2>2. Remembers(Recent(p, per)', ran', starts[p])
    BY <1>6, <2>1, RemembersFewer
  <2> QED  BY <1>11, <2>1, <2>2
<1>13. DOMAIN starts' = Queues
  BY <1>9, <1>10
<1> QED  BY <1>8, <1>9, <1>11, <1>12, <1>13 DEF RateInv

\* Every operation keeps what the rate limit needs.
LEMMA RateStep ==
    ASSUME LeastNumbers, QueueInv, NEW per, OneWindow(per), RateInv(per), [Next]_vars
    PROVE  RateInv(per)'
<1> DEFINE Cs == Configs \union {DefaultConfig}
<1>1. per \in Int /\ clock \in Nat
  BY DEF OneWindow, QueueInv
<1>2. configs \in [Queues -> Cs]
  BY DEF RateInv
<1> HIDE DEF Cs
<1>3. ASSUME NoneStarts, clock' = clock \/ clock' = clock + 1, starts' = starts, configs' \in [Queues -> Cs]
      PROVE  RateInv(per)'
  BY <1>1, <1>3, RateKept DEF Cs
<1>4. CASE \E q \in Queues, p \in Priorities, at \in {clock, clock + 1} \ {Never} : Enqueue(q, p, at)
  <2>1. NoneStarts
    BY <1>4, InsertNoStart DEF Enqueue
  <2> QED  BY <1>2, <1>3, <1>4, <2>1 DEF Enqueue
<1>5. CASE \E q \in Queues, config \in Configs : Configure(q, config)
  <2>1. NoneStarts
    BY <1>5 DEF Configure, NoneStarts, Ids
  <2>2. configs' \in [Queues -> Cs]
    BY <1>2, <1>5 DEF Configure, Cs
  <2> QED  BY <1>3, <1>5, <2>1, <2>2 DEF Configure
<1>6. CASE CronTick
  <2>1. NoneStarts
    BY <1>6, InsertNoStart DEF CronTick
  <2> QED  BY <1>2, <1>3, <1>6, <2>1 DEF CronTick
<1>7. CASE \E j \in Ids : RetryDead(j)
  <2>1. NoneStarts
    BY <1>7, RetryNoStart
  <2> QED  BY <1>2, <1>3, <1>7, <2>1 DEF RetryDead
<1>8. ASSUME NEW w \in Workers, Complete(w) \/ Fail(w)
      PROVE  RateInv(per)'
  <2>1. NoneStarts
    BY <1>8, ReportNoStart
  <2> QED  BY <1>2, <1>3, <1>8, <2>1 DEF Complete, Fail
<1>9. CASE \/ \E w \in Workers : ReadClock(w) \/ Panic(w)
           \/ Advance
           \/ UNCHANGED vars
  <2>1. jobs' = jobs /\ ran' = ran /\ starts' = starts /\ configs' = configs
    BY <1>9 DEF ReadClock, Panic, Advance, vars
  <2>2. clock' = clock \/ clock' = clock + 1
    BY <1>9 DEF ReadClock, Panic, Advance, vars
  <2>3. NoneStarts
    BY <2>1 DEF NoneStarts, Ids
  <2> QED  BY <1>2, <1>3, <2>1, <2>2, <2>3
<1>10. ASSUME NEW w \in Workers, NEW q \in Queues, ClaimNone(w, q) \/ \E j \in Ids : ClaimJob(w, q, j)
       PROVE  RateInv(per)'
  BY <1>10, ClaimNoneRate, ClaimJobRate
<1> QED  BY <1>4, <1>5, <1>6, <1>7, <1>8, <1>9, <1>10 DEF Next, WorkerStep

INSTANCE FiniteSetTheorems

\* A non-empty set of numbers has a least one.
LEMMA LeastNumber ==
    ASSUME NEW S, S \subseteq Nat, S # {}
    PROVE  \E m \in S : \A n \in S : m <= n
<1>1. PICK m \in S : \A n \in S : ~ (<<n, m>> \in OpToRel(<, Nat))
  BY WFMin, NatLessThanWellFounded, Zenon
<1>2. \A n \in S : ~ (n < m)
  BY <1>1, Zenon DEF OpToRel
<1>3. \A n \in S : m <= n
  BY <1>2
<1> QED  BY <1>3, SMTT(30)

\* Every set of numbers has a least one.
LEMMA NumbersLeast == LeastNumbers
  BY LeastNumber DEF LeastNumbers

\* As many starts as T has places for, at most.
LEMMA RemembersBound ==
    ASSUME NEW S, NEW R, NEW T, NEW t, Remembers(S, R, T), TimesUpTo(T, t)
    PROVE  Cardinality(S) \in Nat /\ Cardinality(S) <= Len(T)
<1>1. PICK n \in Nat : n = Len(T) /\ DOMAIN T = 1..n
  BY DEF TimesUpTo
<1>2. PICK f : (\A s \in S : f[s] \in 1..n) /\ \A s, u \in S : f[s] = f[u] => s = u
  BY <1>1 DEF Remembers, Places
<1>3. PICK D : D = 1..n
  OBVIOUS
<1>4. IsFiniteSet(D) /\ Cardinality(D) = n
  BY <1>3, FS_Interval, SMTT(30)
<1>5. PICK g : g = [s \in S |-> f[s]]
  OBVIOUS
<1>6. g \in Injection(S, D)
  BY <1>2, <1>3, <1>5, SMTT(30) DEF Injection, IsInjective
<1>7. IsFiniteSet(S) /\ Cardinality(S) <= Cardinality(D)
  BY <1>4, <1>6, FS_Injection, SMTT(30)
<1>8. Cardinality(S) \in Nat
  BY <1>7, FS_CardinalityType, SMTT(30)
<1> QED  BY <1>1, <1>4, <1>7, <1>8

\* A claim starts a job only where the remembered starts, and so the starts in the
\* window, are fewer than the limit.
LEMMA RateCounted ==
    ASSUME QueueConstants, QueueInv, NEW per, OneWindow(per), RateInv(per), [Next]_vars,
           NEW j \in Ids, Started(j), configs[jobs[j].queue].max_starts # None
    PROVE  Cardinality(InWindow(jobs[j].queue, clock)) < configs[jobs[j].queue].max_starts
<1>1. PICK w \in Workers, q \in Queues : ClaimJob(w, q, j)
  BY ClaimStarts
<1>2. jobs[j].queue = q
  BY <1>1 DEF ClaimJob, Waiting
<1>3. PICK T : T = Pruned(q, worker[w].now)
  OBVIOUS
<1>4. Remembers(Recent(q, per), ran, T) /\ TimesUpTo(T, clock)
  BY <1>3, PrunedRemembers, NumbersLeast
<1>5. configs[q] \in Configs \union {DefaultConfig}
  BY DEF RateInv
<1>6. configs[q].max_starts \in Int /\ configs[q].per_secs = per
  BY <1>2, <1>5 DEF OneWindow
<1>7. PICK n \in Nat : n = Len(T)
  BY <1>4 DEF TimesUpTo
<1>8. n < configs[q].max_starts
  BY <1>1, <1>2, <1>3, <1>6, <1>7 DEF ClaimJob, Limited
<1>9. InWindow(q, clock) \subseteq Recent(q, per)
  <2>1. MaxAttempts * (1 + MaxRetries) \in Int
    BY MaxAttemptsNat DEF QueueConstants
  <2>2. ASSUME NEW s \in InWindow(q, clock) PROVE s \in Recent(q, per)
    <3>1. /\ s \in Ids \X (1..(MaxAttempts * (1 + MaxRetries))) /\ jobs[s[1]].queue = q
          /\ s[2] <= Len(ran[s[1]]) /\ ran[s[1]][s[2]] > clock - per
      BY <1>6, <2>2 DEF InWindow
    <3>2. s[1] \in Ids /\ s[2] \in Nat /\ s[2] >= 1 /\ s \in Ids \X Nat
      BY <2>1, <3>1
    <3>3. Len(ran[s[1]]) \in Nat
      BY <3>2, TableDomains DEF QueueInv, Ids, JobOk
    <3>4. s[2] \in 1..Len(ran[s[1]])
      BY <3>1, <3>2, <3>3
    <3> QED  BY <3>1, <3>2, <3>4 DEF Recent
  <2> QED  BY <2>2
<1>10. Remembers(InWindow(q, clock), ran, T)
  BY <1>4, <1>9, RemembersFewer
<1>11. PICK c \in Nat : c = Cardinality(InWindow(q, clock)) /\ c <= n
  BY <1>4, <1>7, <1>10, RemembersBound
<1>12. c < configs[q].max_starts
  BY <1>6, <1>7, <1>8, <1>11
<1> QED  BY <1>2, <1>11, <1>12

-----------------------------------------------------------------------------
(* The theorems *)

\* The queue keeps account of its runs: no two workers have one job, firings that
\* were missed make one job, and a job is given up after all its attempts.
RunsAccounted == OneWorkerPerJob /\ CronCollapses /\ AttemptsUsedUp

\* A job starts when its queue's rate allows it, when its backoff is over,
\* and in the order of priority.
StartsInTurn == RateRespected /\ BackoffRespected /\ ServedInOrder

\* The constants stay what they are.
LEMMA QueueConstantsStay ==
    /\ QueueConstants => QueueConstants'
    /\ Modes = {"direct"} => (Modes = {"direct"})'
  BY DEF QueueConstants

\* For any workers, queues and schedule, however workers interleave and panic: a
\* job is never with two workers, a cron entry whose times were missed makes one
\* job and none is lost, and a job is dead-lettered only after max_attempts starts
\* for its enqueue and for each manual retry, and never started more often.
THEOREM QueueRunsAccounted == QueueConstants /\ Spec => []RunsAccounted
<1>1. QueueConstants /\ QueueInv /\ [Next]_vars => QueueInv'
  BY QueueStep
<1>2. QueueInv => RunsAccounted
  BY QueueAttempts, QueueCron, NumbersLeast DEF RunsAccounted
<1> QED  BY <1>1, <1>2, QueueStart, QueueConstantsStay, PTL DEF Spec

\* The configurations there are limit starts over one window, which the lists
\* of recent starts remember.
TurnInv == \E per : OneWindow(per) /\ RateInv(per)

\* When workers report with the time of the report and all limits count the same
\* window, claim starts a job only within the rate of its queue, after its backoff
\* and before every job that is due and comes after it; whatever time a worker had
\* read before it got the lock, and however configure changes the limits.
THEOREM QueueStartsInTurn ==
    QueueConstants /\ Modes = {"direct"} /\ (\E per : OneWindow(per)) /\ Spec => StartsInTurn
<1>1. QueueConstants /\ QueueInv /\ [Next]_vars => QueueInv'
  BY QueueStep
<1>2. (\E per : OneWindow(per)) /\ Init => TurnInv
  <2> SUFFICES ASSUME NEW per, OneWindow(per), Init PROVE RateInv(per)
    BY DEF TurnInv
  <2>1. \A q \in Queues : Recent(q, per) = {}
    BY DEF Init, Recent, Ids
  <2>2. ASSUME NEW q \in Queues PROVE Remembers(Recent(q, per), ran, starts[q])
    BY <2>1 DEF Remembers
  <2>3. \A q \in Queues : TimesUpTo(starts[q], clock)
    BY DEF Init, TimesUpTo
  <2> QED  BY <2>2, <2>3 DEF Init, RateInv
<1>3. QueueInv /\ TurnInv /\ [Next]_vars => TurnInv'
  <2> SUFFICES ASSUME QueueInv, NEW per, OneWindow(per), RateInv(per), [Next]_vars
               PROVE  TurnInv'
    BY DEF TurnInv
  <2>1. RateInv(per)'
    BY RateStep, NumbersLeast
  <2> QED  BY <2>1 DEF TurnInv, OneWindow
<1>4. QueueConstants /\ QueueInv /\ TurnInv /\ [Next]_vars =>
        [\A j \in Ids : Started(j) /\ configs[jobs[j].queue].max_starts # None =>
            Cardinality(InWindow(jobs[j].queue, clock)) < configs[jobs[j].queue].max_starts]_vars
  BY RateCounted DEF TurnInv
<1>5. Modes = {"direct"} /\ QueueInv /\ [Next]_vars =>
        [\A j \in Ids : Started(j) /\ jobs[j].attempts > 0 =>
            clock >= failed_at[j] + Delay[jobs[j].attempts]]_vars
  BY BackoffStep
<1>6. QueueInv /\ [Next]_vars =>
        [\A j \in Ids : Started(j) =>
            \A k \in Ids :
                /\ jobs[k].queue = jobs[j].queue
                /\ jobs[k].state \in {"Waiting", "Delayed"} /\ jobs[k].available_at <= ran'[j][Len(ran'[j])]
                => k = j \/ Ahead(j, k)]_vars
  BY OrderStep
<1> QED  BY <1>1, <1>2, <1>3, <1>4, <1>5, <1>6, QueueStart, QueueConstantsStay, PTL
         DEF Spec, StartsInTurn, RateRespected, BackoffRespected, ServedInOrder
=============================================================================
