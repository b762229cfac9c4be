----------------------------- MODULE Notifications -----------------------------
(***************************************************************************)
(* The notification service (core/src/notifications.rs): requests are      *)
(* recorded and queued or scheduled, workers run `process', and providers  *)
(* call back with receipts.                                                *)
(*                                                                         *)
(* The records, the schedule and the preferences share one lock; the       *)
(* delivery queue has its own.  `deliver' holds no lock while it talks to  *)
(* the provider, and pushes a message to be retried after it has given the *)
(* lock back, so a worker carries a message through several steps.         *)
(* Channels and categories are one opt-out per user; templates, locales    *)
(* and tokens are left out.                                                *)
(***************************************************************************)
EXTENDS Integers, Sequences, FiniteSets

CONSTANTS User, Worker,
          max_attempts,
          MaxMessages,   \* bound on the requests
          MaxTime        \* bound on the clock

VARIABLES records,      \* delivery id -> DeliveryRecord
          scheduled,    \* pairs <<send_at, id>>
          queue,        \* DeliveryQueue: ids
          muted,        \* users that opted out
          worker,       \* where each worker stands in process
          provider,     \* external: the ids the provider accepted
          now

notifyVars == <<records, scheduled, queue, muted, worker, provider, now>>

Ids  == DOMAIN records
Free == [at |-> "idle", id |-> 0]

Init ==
    /\ records = << >>
    /\ scheduled = {}
    /\ queue = << >>
    /\ muted = {}
    /\ worker = [w \in Worker |-> Free]
    /\ provider = {}
    /\ now = 0

-----------------------------------------------------------------------------
(* Requests and preferences. *)

\* send: the ids are handed out in order; `at' is the time asked for, if any.
send(u, transactional, at) ==
    LET id == Len(records) + 1
        suppressed == ~transactional /\ u \in muted
        status == CASE suppressed -> "Suppressed"
                    [] ~suppressed /\ at > now -> "Scheduled"
                    [] OTHER -> "Queued"
    IN  /\ Len(records) < MaxMessages
        /\ records' = Append(records, [status |-> status, attempts |-> 0])
        /\ scheduled' = IF status = "Scheduled" THEN scheduled \cup {<<at, id>>} ELSE scheduled
        /\ queue' = IF status = "Queued" THEN Append(queue, id) ELSE queue
        /\ UNCHANGED <<muted, worker, provider, now>>

\* unsubscribe, and set_channel_enabled in both directions.
unsubscribe(u) ==
    /\ muted' = muted \cup {u}
    /\ UNCHANGED <<records, scheduled, queue, worker, provider, now>>

enable_channel(u) ==
    /\ muted' = muted \ {u}
    /\ UNCHANGED <<records, scheduled, queue, worker, provider, now>>

-----------------------------------------------------------------------------
(* Workers. *)

\* The ids of a set, oldest first.
Oldest(ids) ==
    {s \in [1..Cardinality(ids) -> ids] :
        /\ \A id \in ids : \E i \in DOMAIN s : s[i] = id
        /\ \A i, j \in DOMAIN s : i < j => s[i] < s[j]}

\* Slip: what is due stays in the schedule.
processKeeps(w) ==
    LET ids == {p[2] : p \in {q \in scheduled : q[1] <= now}}
    IN  /\ worker[w].at = "idle"
        /\ records' = [i \in Ids |-> IF i \in ids THEN [records[i] EXCEPT !.status = "Queued"]
                                     ELSE records[i]]
        /\ \E s \in Oldest(ids) : queue' = queue \o s
        /\ worker' = [worker EXCEPT ![w] = [at |-> "ready", id |-> 0]]
        /\ UNCHANGED <<scheduled, muted, provider, now>>

\* The first half of process: what is due moves to the queue, oldest id first.
process(w) ==
    LET due == {p \in scheduled : p[1] <= now}
        ids == {p[2] : p \in due}
    IN  /\ worker[w].at = "idle"
        /\ scheduled' = scheduled \ due
        /\ records' = [i \in Ids |-> IF i \in ids THEN [records[i] EXCEPT !.status = "Queued"]
                                     ELSE records[i]]
        /\ \E s \in Oldest(ids) : queue' = queue \o s
        /\ worker' = [worker EXCEPT ![w] = [at |-> "ready", id |-> 0]]
        /\ UNCHANGED <<muted, provider, now>>

\* The loop of process takes the next message ...
pop(w) ==
    /\ worker[w].at = "ready"
    /\ queue # << >>
    /\ worker' = [worker EXCEPT ![w] = [at |-> "sending", id |-> Head(queue)]]
    /\ queue' = Tail(queue)
    /\ UNCHANGED <<records, scheduled, muted, provider, now>>

\* ... until the queue is empty or its limit is reached.
return(w) ==
    /\ worker[w].at = "ready"
    /\ worker' = [worker EXCEPT ![w] = Free]
    /\ UNCHANGED <<records, scheduled, queue, muted, provider, now>>

\* External: the provider takes the message, or not, before it answers.
Accepts(w) ==
    /\ worker[w].at = "sending"
    /\ \/ /\ provider' = provider \cup {worker[w].id}
          /\ worker' = [worker EXCEPT ![w].at = "accepted"]
       \/ \E at \in {"refused", "unreachable"} :
             /\ worker' = [worker EXCEPT ![w].at = at]
             /\ UNCHANGED provider
    /\ UNCHANGED <<records, scheduled, queue, muted, now>>

\* deliver's second lock: the outcome is recorded; "unreachable" is retryable.
deliver(w) ==
    LET id    == worker[w].id
        tries == records[id].attempts + 1
        retry == worker[w].at = "unreachable" /\ tries < max_attempts
        status == CASE worker[w].at = "accepted" -> "Sent" [] retry -> "Queued" [] OTHER -> "Failed"
    IN  /\ worker[w].at \in {"accepted", "refused", "unreachable"}
        /\ records' = [records EXCEPT ![id] = [status |-> status, attempts |-> tries]]
        /\ worker' = [worker EXCEPT ![w] = IF retry THEN [at |-> "requeue", id |-> id]
                                           ELSE [at |-> "ready", id |-> 0]]
        /\ UNCHANGED <<scheduled, queue, muted, provider, now>>

\* The push of a message to be retried, after the lock was dropped.
requeue(w) ==
    /\ worker[w].at = "requeue"
    /\ queue' = Append(queue, worker[w].id)
    /\ worker' = [worker EXCEPT ![w] = [at |-> "ready", id |-> 0]]
    /\ UNCHANGED <<records, scheduled, muted, provider, now>>

\* A receipt for an accepted message, at any time after it was accepted.
record_event(id, status) ==
    /\ id \in provider
    /\ records' = [records EXCEPT ![id].status = status]
    /\ UNCHANGED <<scheduled, queue, muted, worker, provider, now>>

Tick ==
    /\ now < MaxTime
    /\ now' = now + 1
    /\ UNCHANGED <<records, scheduled, queue, muted, worker, provider>>

Next ==
    \/ \E u \in User : \/ \E b \in BOOLEAN, at \in 0..MaxTime : send(u, b, at)
                       \/ unsubscribe(u) \/ enable_channel(u)
    \/ \E w \in Worker : \/ process(w) \/ pop(w) \/ return(w)
                         \/ Accepts(w) \/ deliver(w) \/ requeue(w)
    \/ \E id \in Ids, s \in {"Delivered", "Bounced"} : record_event(id, s)
    \/ Tick

Spec == Init /\ [][Next]_notifyVars

-----------------------------------------------------------------------------
Holds(w, id) == worker[w].id = id

Places(id) ==
    Cardinality({p \in scheduled : p[2] = id}) + Cardinality({i \in DOMAIN queue : queue[i] = id})
        + Cardinality({w \in Worker : Holds(w, id)})

(* A message that still has to go out is in exactly one place, so it is     *)
(* neither forgotten nor delivered by two workers: in the schedule, in the  *)
(* queue, or in the hands of the worker that popped it; and it is in none   *)
(* once its last delivery attempt was recorded.                             *)
PendingInOnePlace ==
    \A id \in Ids :
        /\ Places(id) <= 1
        /\ records[id].status \in {"Scheduled", "Queued"} => Places(id) = 1
        /\ records[id].status \in {"Suppressed", "Failed"} => Places(id) = 0
=============================================================================
