------------------------------- MODULE Outbox -------------------------------
(***************************************************************************)
(* The transactional outbox of core/src/outbox.rs: writers append events   *)
(* inside a transaction, relays poll the table, publish to the broker and  *)
(* mark the rows.  The table sits behind one mutex (`lock`); a relay pass  *)
(* takes it once for the snapshot and once per row it marks, so writers,   *)
(* operators and other relays run in between.                              *)
(*                                                                         *)
(* A row's id is its position in `events` (next_id grows by one per push   *)
(* and rows are never removed).  Event type, payload and last_error carry  *)
(* no control and are left out; an aggregate (type, id) is a number whose  *)
(* order stands for the order of the names.                                *)
(***************************************************************************)
EXTENDS Naturals, Sequences, FiniteSets, TLC

CONSTANTS
    Aggregates,     \* (aggregate_type, aggregate_id) pairs, ordered
    Keys,           \* idempotency keys
    Txs,            \* the transactions of a behaviour, each used once
    Relays,         \* relay processes
    None,           \* no holder of the mutex
    max_attempts,   \* Relay::max_attempts
    batch_size,     \* Relay::batch_size
    MaxClock,       \* bound: seconds the clock advances
    MaxAppends,     \* bound: events one transaction buffers
    MaxCrashes,     \* bound: relay crashes
    MaxRequeues     \* bound: manual requeues

ASSUME OutboxAssumption ==
    /\ Aggregates \subseteq Nat
    /\ max_attempts \in Nat \ {0}
    /\ batch_size \in Nat \ {0}
    /\ None \notin Txs
    /\ {MaxClock, MaxAppends, MaxCrashes, MaxRequeues} \subseteq Nat

VARIABLES
    clock,      \* epoch seconds handed to begin
    txs,        \* OutboxTx: stage, begin time and buffered events
    lock,       \* holder of InMemoryOutbox.inner across a commit loop
    events,     \* Inner.events
    relay,      \* a relay's position in poll_once
    log,        \* ids the broker accepted, in order (duplicates included)
    parked,     \* history: ids that were quarantined at some time
    crashes,    \* relay crashes so far
    requeues    \* requeues so far

vars == <<clock, txs, lock, events, relay, log, parked, crashes, requeues>>

EventStatus == {"Pending", "Published", "Quarantined"}

NewEvent == [agg : Aggregates, key : Keys]

OutboxEvent ==
    [agg : Aggregates, key : Keys, sequence : Nat, status : EventStatus,
     attempts : Nat, created_at : Nat]

OutboxTx ==
    [stage : {"unused", "open", "committing", "closed"}, now : Nat,
     pending : Seq(NewEvent)]

\* A row as the relay copied it: only `attempts` can go stale.
Snapshot == [id : Nat, attempts : Nat]

RelayPass ==
    [pc : {"idle", "ready", "sent", "failed"}, batch : SUBSET Snapshot,
     blocked : SUBSET Aggregates]

IdlePass == [pc |-> "idle", batch |-> {}, blocked |-> {}]

Init ==
    /\ clock = 0
    /\ txs = [t \in Txs |-> [stage |-> "unused", now |-> 0, pending |-> <<>>]]
    /\ lock = None
    /\ events = <<>>
    /\ relay = [r \in Relays |-> IdlePass]
    /\ log = <<>>
    /\ parked = {}
    /\ crashes = 0
    /\ requeues = 0

-----------------------------------------------------------------------------
(* Writers *)

Tick ==
    /\ clock < MaxClock
    /\ clock' = clock + 1
    /\ UNCHANGED <<txs, lock, events, relay, log, parked, crashes, requeues>>

\* InMemoryOutbox::begin: the transaction remembers the time it began.
Begin(t) ==
    /\ txs[t].stage = "unused"
    /\ txs' = [txs EXCEPT ![t] =
                  [stage |-> "open", now |-> clock, pending |-> <<>>]]
    /\ UNCHANGED <<clock, lock, events, relay, log, parked, crashes, requeues>>

\* OutboxTx::append
TxAppend(t, e) ==
    /\ txs[t].stage = "open"
    /\ Len(txs[t].pending) < MaxAppends
    /\ txs' = [txs EXCEPT ![t].pending = Append(@, e)]
    /\ UNCHANGED <<clock, lock, events, relay, log, parked, crashes, requeues>>

\* Dropping an uncommitted OutboxTx.
Rollback(t) ==
    /\ txs[t].stage = "open"
    /\ txs' = [txs EXCEPT ![t].stage = "closed", ![t].pending = <<>>]
    /\ UNCHANGED <<clock, lock, events, relay, log, parked, crashes, requeues>>

\* OutboxTx::commit takes the mutex for the whole loop.
CommitStart(t) ==
    /\ txs[t].stage = "open"
    /\ lock = None
    /\ lock' = t
    /\ txs' = [txs EXCEPT ![t].stage = "committing"]
    /\ UNCHANGED <<clock, events, relay, log, parked, crashes, requeues>>

\* Slip: the duplicate check looks at unpublished rows only.
IsDuplicatePendingOnly(e) ==
    \E i \in DOMAIN events : events[i].key = e.key /\ events[i].status = "Pending"

IsDuplicate(e) == \E i \in DOMAIN events : events[i].key = e.key

\* max() of the aggregate's sequences, 0 when it has none
LastSequence(a) ==
    LET taken == {events[i].sequence : i \in {j \in DOMAIN events : events[j].agg = a}}
    IN  IF taken = {} THEN 0 ELSE CHOOSE m \in taken : \A n \in taken : n <= m

\* Slip: the sequence continues from the rows still pending.
NextSequencePendingOnly(a) ==
    1 + Cardinality({i \in DOMAIN events :
                       events[i].agg = a /\ events[i].status = "Pending"})

NextSequence(a) == LastSequence(a) + 1

Row(e, now) ==
    [agg |-> e.agg, key |-> e.key, sequence |-> NextSequence(e.agg),
     status |-> "Pending", attempts |-> 0, created_at |-> now]

\* One iteration of the commit loop.
CommitEvent(t) ==
    /\ lock = t
    /\ txs[t].pending # <<>>
    /\ LET e == Head(txs[t].pending) IN
       events' = IF IsDuplicate(e) THEN events ELSE Append(events, Row(e, txs[t].now))
    /\ txs' = [txs EXCEPT ![t].pending = Tail(@)]
    /\ UNCHANGED <<clock, lock, relay, log, parked, crashes, requeues>>

CommitEnd(t) ==
    /\ lock = t
    /\ txs[t].pending = <<>>
    /\ lock' = None
    /\ txs' = [txs EXCEPT ![t].stage = "closed"]
    /\ UNCHANGED <<clock, events, relay, log, parked, crashes, requeues>>

-----------------------------------------------------------------------------
(* Relay *)

Pending == {i \in DOMAIN events : events[i].status = "Pending"}

\* The sort key of `pending`: (created_at, aggregate, sequence).
Before(i, j) ==
    \/ events[i].created_at < events[j].created_at
    \/ /\ events[i].created_at = events[j].created_at
       /\ \/ events[i].agg < events[j].agg
          \/ /\ events[i].agg = events[j].agg
             /\ events[i].sequence < events[j].sequence

\* The ids that sorting and truncating to batch_size keep.
Oldest ==
    {i \in Pending : Cardinality({j \in Pending : Before(j, i)}) < batch_size}

\* The for loop of poll_once visits the batch in sorted order.
IsNext(r, s) ==
    /\ s \in relay[r].batch
    /\ \A o \in relay[r].batch : o = s \/ Before(s.id, o.id)

\* poll_once takes its snapshot.
PollStart(r) ==
    /\ relay[r].pc = "idle"
    /\ lock = None
    /\ relay' = [relay EXCEPT ![r] =
          [pc |-> "ready", blocked |-> {},
           batch |-> {[id |-> i, attempts |-> events[i].attempts] : i \in Oldest}]]
    /\ UNCHANGED <<clock, txs, lock, events, log, parked, crashes, requeues>>

PollEnd(r) ==
    /\ relay[r].pc = "ready"
    /\ relay[r].batch = {}
    /\ relay' = [relay EXCEPT ![r] = IdlePass]
    /\ UNCHANGED <<clock, txs, lock, events, log, parked, crashes, requeues>>

\* An earlier event of the aggregate failed in this pass: skip.
HoldBack(r, s) ==
    /\ relay[r].pc = "ready"
    /\ IsNext(r, s)
    /\ events[s.id].agg \in relay[r].blocked
    /\ relay' = [relay EXCEPT ![r].batch = @ \ {s}]
    /\ UNCHANGED <<clock, txs, lock, events, log, parked, crashes, requeues>>

CanPublish(r, s) ==
    /\ relay[r].pc = "ready"
    /\ IsNext(r, s)
    /\ events[s.id].agg \notin relay[r].blocked

\* broker.publish returns Ok: the broker has the message.
PublishOk(r, s) ==
    /\ CanPublish(r, s)
    /\ log' = Append(log, s.id)
    /\ relay' = [relay EXCEPT ![r].pc = "sent"]
    /\ UNCHANGED <<clock, txs, lock, events, parked, crashes, requeues>>

\* broker.publish returns Err.  The broker may have taken the message all
\* the same (the acknowledgement was lost).
PublishErr(r, s, taken) ==
    /\ CanPublish(r, s)
    /\ log' = IF taken THEN Append(log, s.id) ELSE log
    /\ relay' = [relay EXCEPT ![r].pc = "failed"]
    /\ UNCHANGED <<clock, txs, lock, events, parked, crashes, requeues>>

\* Slip: the row is marked before the outcome of publish is looked at.
MarkPublishedAlways(r, s) ==
    /\ relay[r].pc \in {"sent", "failed"}
    /\ IsNext(r, s)
    /\ lock = None
    /\ events' = [events EXCEPT ![s.id].status = "Published"]
    /\ relay' = [relay EXCEPT ![r].pc = "ready", ![r].batch = @ \ {s}]
    /\ UNCHANGED <<clock, txs, lock, log, parked, crashes, requeues>>

\* The row is marked published, whatever its status is by now.
MarkPublished(r, s) ==
    /\ relay[r].pc = "sent"
    /\ IsNext(r, s)
    /\ lock = None
    /\ events' = [events EXCEPT ![s.id].status = "Published"]
    /\ relay' = [relay EXCEPT ![r].pc = "ready", ![r].batch = @ \ {s}]
    /\ UNCHANGED <<clock, txs, lock, log, parked, crashes, requeues>>

\* Poison message: parked, and its aggregate is not blocked.
Quarantine(r, s) ==
    /\ relay[r].pc = "failed"
    /\ IsNext(r, s)
    /\ lock = None
    /\ s.attempts + 1 >= max_attempts
    /\ events' = [events EXCEPT ![s.id].attempts = s.attempts + 1,
                                ![s.id].status = "Quarantined"]
    /\ parked' = parked \union {s.id}
    /\ relay' = [relay EXCEPT ![r].pc = "ready", ![r].batch = @ \ {s}]
    /\ UNCHANGED <<clock, txs, lock, log, crashes, requeues>>

\* Slip: the failing aggregate is not blocked.
RecordFailureNoBlock(r, s) ==
    /\ relay[r].pc = "failed"
    /\ IsNext(r, s)
    /\ lock = None
    /\ s.attempts + 1 < max_attempts
    /\ events' = [events EXCEPT ![s.id].attempts = s.attempts + 1]
    /\ relay' = [relay EXCEPT ![r].pc = "ready", ![r].batch = @ \ {s}]
    /\ UNCHANGED <<clock, txs, lock, log, parked, crashes, requeues>>

\* Slip: the event's id is blocked, not its aggregate.
RecordFailureBlockId(r, s) ==
    /\ relay[r].pc = "failed"
    /\ IsNext(r, s)
    /\ lock = None
    /\ s.attempts + 1 < max_attempts
    /\ events' = [events EXCEPT ![s.id].attempts = s.attempts + 1]
    /\ relay' = [relay EXCEPT ![r].pc = "ready", ![r].batch = @ \ {s},
                              ![r].blocked = @ \union {s.id}]
    /\ UNCHANGED <<clock, txs, lock, log, parked, crashes, requeues>>

\* Failure with attempts left: recorded, and the aggregate is blocked for
\* the rest of the pass.
RecordFailure(r, s) ==
    /\ relay[r].pc = "failed"
    /\ IsNext(r, s)
    /\ lock = None
    /\ s.attempts + 1 < max_attempts
    /\ events' = [events EXCEPT ![s.id].attempts = s.attempts + 1]
    /\ relay' = [relay EXCEPT ![r].pc = "ready", ![r].batch = @ \ {s},
                              ![r].blocked = @ \union {events[s.id].agg}]
    /\ UNCHANGED <<clock, txs, lock, log, parked, crashes, requeues>>

\* The relay process dies and starts over; the table survives.
Crash(r) ==
    /\ relay[r].pc # "idle"
    /\ crashes < MaxCrashes
    /\ crashes' = crashes + 1
    /\ relay' = [relay EXCEPT ![r] = IdlePass]
    /\ UNCHANGED <<clock, txs, lock, events, log, parked, requeues>>

\* Slip: anything that is not pending can be requeued.
RequeueSettled(i) ==
    /\ lock = None
    /\ requeues < MaxRequeues
    /\ events[i].status # "Pending"
    /\ events' = [events EXCEPT ![i].status = "Pending", ![i].attempts = 0]
    /\ requeues' = requeues + 1
    /\ UNCHANGED <<clock, txs, lock, relay, log, parked, crashes>>

\* InMemoryOutbox::requeue by an operator.
Requeue(i) ==
    /\ lock = None
    /\ requeues < MaxRequeues
    /\ events[i].status = "Quarantined"
    /\ events' = [events EXCEPT ![i].status = "Pending", ![i].attempts = 0]
    /\ requeues' = requeues + 1
    /\ UNCHANGED <<clock, txs, lock, relay, log, parked, crashes>>

-----------------------------------------------------------------------------

CommitStep(t) == CommitEvent(t) \/ CommitEnd(t)

TxStep(t) ==
    \/ Begin(t)
    \/ \E e \in NewEvent : TxAppend(t, e)
    \/ Rollback(t)
    \/ CommitStart(t)
    \/ CommitStep(t)

EventStep(r, s) ==
    \/ HoldBack(r, s)
    \/ PublishOk(r, s)
    \/ \E taken \in BOOLEAN : PublishErr(r, s, taken)
    \/ MarkPublished(r, s)
    \/ Quarantine(r, s)
    \/ RecordFailure(r, s)

PassStep(r) ==
    \/ PollEnd(r)
    \/ \E s \in relay[r].batch : EventStep(r, s)

Next ==
    \/ Tick
    \/ \E t \in Txs : TxStep(t)
    \/ \E r \in Relays : PollStart(r) \/ PassStep(r) \/ Crash(r)
    \/ \E i \in DOMAIN events : Requeue(i)

Spec == Init /\ [][Next]_vars

\* A transaction that started to commit runs its loop to the end (it holds
\* the mutex), and the relay process polls for ever and finishes its passes.
\* Nothing makes a writer commit, an operator requeue or a relay crash.
Fairness ==
    /\ \A t \in Txs : WF_vars(CommitStep(t))
    /\ \A r \in Relays : WF_vars(PollStart(r)) /\ WF_vars(PassStep(r))

FairSpec == Spec /\ Fairness

-----------------------------------------------------------------------------
(* Properties *)

\* Every variable has its type, and the holder of the mutex is the
\* transaction whose commit loop is running.
TypeOK ==
    /\ clock \in Nat
    /\ txs \in [Txs -> OutboxTx]
    /\ lock \in Txs \union {None}
    /\ events \in Seq(OutboxEvent)
    /\ relay \in [Relays -> RelayPass]
    /\ log \in Seq(Nat)
    /\ parked \in SUBSET Nat
    /\ crashes \in Nat
    /\ requeues \in Nat
    /\ \A t \in Txs : lock = t <=> txs[t].stage = "committing"

SameAggregate(i, j) == events[i].agg = events[j].agg

\* commit numbers an aggregate's events 1, 2, 3... in the order they enter
\* the table, whatever the interleaving of transactions, relays and requeues.
DenseSequences ==
    \A i \in DOMAIN events :
        /\ \A j \in 1..(i - 1) :
               SameAggregate(i, j) => events[j].sequence < events[i].sequence
        /\ \A n \in 1..(events[i].sequence - 1) :
               \E j \in 1..(i - 1) : SameAggregate(i, j) /\ events[j].sequence = n

\* commit skips an event whose idempotency key is in the table already, so no
\* two rows share a key, also when the first one was published long ago.
UniqueKeys ==
    \A i, j \in DOMAIN events : events[i].key = events[j].key => i = j

\* i precedes j in their aggregate and was not begun later than j.
Earlier(i, j) ==
    /\ SameAggregate(i, j)
    /\ events[i].sequence < events[j].sequence
    /\ events[i].created_at <= events[j].created_at

\* The broker has i at some place before place p of its log.
SentBefore(i, p) == \E q \in 1..(p - 1) : log[q] = i

\* poll_once publishes an aggregate's events in sequence order: whenever the
\* broker gets j it has every earlier i already, except one that was parked
\* as poison.  This needs i to have begun no later than j (see InSequence);
\* it survives stale snapshots, several relays, crashes and requeues.
PublishedInSequence ==
    \A p \in DOMAIN log : \A i \in DOMAIN events :
        Earlier(i, log[p]) => i \in parked \/ SentBefore(i, p)

\* A row is marked published only when the broker accepted the event.
PublishedWasSent ==
    \A i \in DOMAIN events :
        events[i].status = "Published" => \E p \in DOMAIN log : log[p] = i

\* The claim of outbox.rs:17-18 without the condition on begin times.
InSequence ==
    \A p \in DOMAIN log : \A i \in DOMAIN events :
        /\ SameAggregate(i, log[p])
        /\ events[i].sequence < events[log[p]].sequence
        => i \in parked \/ SentBefore(i, p)

\* With one relay process a published event is never taken back: no stale
\* failure and no requeue makes it pending or quarantined again.
PublishedIsFinal ==
    [][\A i \in DOMAIN events :
          events[i].status = "Published" => events'[i].status = "Published"]_vars

\* Every committed event is in the end published or parked for review: a
\* failing event cannot be retried for ever, and neither a crash nor the
\* batch limit nor a failing predecessor starves the events behind it.
EventuallySettled ==
    \A i \in 1..(Cardinality(Txs) * MaxAppends) :
        (i \in Pending) ~> (i \in DOMAIN events /\ i \notin Pending)

-----------------------------------------------------------------------------

\* For model checking: keys, transactions and relays are interchangeable names.
Symmetry == Permutations(Keys) \union Permutations(Txs) \union Permutations(Relays)
=============================================================================
