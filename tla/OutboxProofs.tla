---------------------------- MODULE OutboxProofs ----------------------------
(***************************************************************************)
(* Proofs about Outbox, for any sets of aggregates, keys, transactions and *)
(* relays and any limits.                                                  *)
(***************************************************************************)
EXTENDS Outbox, TLAPS, WellFoundedInduction

\* Relays refer to rows of the table, and so does the broker's log.
IdsInTable ==
    /\ \A r \in Relays : \A s \in relay[r].batch : s.id \in DOMAIN events
    /\ \A p \in DOMAIN log : log[p] \in DOMAIN events

TypeInv == TypeOK /\ IdsInTable

\* What a step may do to the table: keep the rows, status and attempts apart...
RowsSame ==
    /\ DOMAIN events' = DOMAIN events
    /\ \A i \in DOMAIN events :
          /\ events'[i].agg = events[i].agg
          /\ events'[i].key = events[i].key
          /\ events'[i].sequence = events[i].sequence
          /\ events'[i].created_at = events[i].created_at

\* ... or add one numbered row at the end.
RowAdded ==
    /\ \E e \in NewEvent, now \in Nat :
          ~IsDuplicate(e) /\ events' = Append(events, Row(e, now))
    /\ UNCHANGED <<relay, log, parked>>

\* The broker has event i.
Sent(i) == \E p \in DOMAIN log : log[p] = i

\* Only fail's quarantine parks, so a quarantined row is in the history.
QuarantinedParked ==
    \A i \in DOMAIN events : events[i].status = "Quarantined" => i \in parked

\* Between publish and mark_published the broker has the event at hand.
SentInLog ==
    \A r \in Relays : \A s \in relay[r].batch :
        relay[r].pc = "sent" /\ IsNext(r, s) => Sent(s.id)

\* What a pass knows of the events that precede one it still holds: each was
\* parked or sent, is in the batch too, or has its aggregate blocked.
BatchOrdered ==
    \A r \in Relays : \A s \in relay[r].batch : \A i \in DOMAIN events :
        Earlier(i, s.id) =>
            \/ i \in parked \/ Sent(i)
            \/ \E o \in relay[r].batch : o.id = i
            \/ events[s.id].agg \in relay[r].blocked

\* The inductive invariant.
IInv ==
    /\ TypeInv /\ DenseSequences /\ UniqueKeys
    /\ PublishedWasSent /\ QuarantinedParked /\ SentInLog /\ BatchOrdered
    /\ PublishedInSequence

\* An update of one row's status and attempts keeps the table's type.
LEMMA UpdateRow ==
    ASSUME NEW T \in Seq(OutboxEvent), NEW i \in DOMAIN T,
           NEW st \in EventStatus, NEW n \in Nat
    PROVE  /\ [T EXCEPT ![i].status = st] \in Seq(OutboxEvent)
           /\ [T EXCEPT ![i].attempts = n] \in Seq(OutboxEvent)
           /\ [T EXCEPT ![i].attempts = n, ![i].status = st] \in Seq(OutboxEvent)
           /\ [T EXCEPT ![i].status = st, ![i].attempts = n] \in Seq(OutboxEvent)
<1>1. T \in [1..Len(T) -> OutboxEvent] /\ DOMAIN T = 1..Len(T) /\ Len(T) \in Nat
  OBVIOUS
<1>2. /\ [T[i] EXCEPT !.status = st] \in OutboxEvent
      /\ [T[i] EXCEPT !.attempts = n] \in OutboxEvent
      /\ [T[i] EXCEPT !.attempts = n, !.status = st] \in OutboxEvent
      /\ [T[i] EXCEPT !.status = st, !.attempts = n] \in OutboxEvent
  BY <1>1, Zenon DEF OutboxEvent
<1>3. \A e \in OutboxEvent : [T EXCEPT ![i] = e] \in Seq(OutboxEvent)
  BY <1>1
<1> QED  BY <1>1, <1>2, <1>3

\* The batch poll_once copies refers to rows of the table.
LEMMA OldestRows == Oldest \subseteq DOMAIN events
  BY DEF Oldest, Pending

\* Appending one element.
LEMMA AppendOne ==
    ASSUME NEW S, NEW q \in Seq(S), NEW x \in S
    PROVE  /\ Append(q, x) \in Seq(S)
           /\ DOMAIN q = 1..Len(q) /\ Len(q) \in Nat
           /\ DOMAIN Append(q, x) = 1..(Len(q) + 1)
           /\ Append(q, x)[Len(q) + 1] = x
           /\ \A p \in 1..Len(q) : Append(q, x)[p] = q[p]
  OBVIOUS

\* A non-empty set of rows has a last one.
LEMMA LastRow ==
    ASSUME NEW n \in Nat, NEW S \in SUBSET (1..n), S # {}
    PROVE  \E m \in S : \A j \in S : j <= m
<1> DEFINE T == {n - j : j \in S}
<1>1. T \subseteq Nat /\ T # {}
  <2>1. \A j \in S : j \in 1..n
    OBVIOUS
  <2>2. \A j \in 1..n : n - j \in Nat
    OBVIOUS
  <2> QED  BY <2>1, <2>2, Zenon
<1>2. PICK x \in T : \A y \in T : ~ (<<y, x>> \in OpToRel(<, Nat))
  <2> HIDE DEF T
  <2> QED  BY <1>1, WFMin, NatLessThanWellFounded, Zenon
<1>3. \A y \in T : ~ (y < x)
  BY <1>1, <1>2, Zenon DEF OpToRel
<1>4. PICK m \in S : x = n - m
  OBVIOUS
<1>5. ASSUME NEW j \in S PROVE j <= m
  <2>1. n - j \in T
    OBVIOUS
  <2>2. ~ (n - j < n - m)
    BY <1>3, <1>4, <2>1, Zenon
  <2>3. j \in Nat /\ m \in Nat
    <3>1. j \in 1..n /\ m \in 1..n
      OBVIOUS
    <3> QED  BY <3>1
  <2> HIDE DEF T
  <2> QED  BY <2>2, <2>3
<1> QED  BY <1>5

\* Dropping the event at hand keeps a relay's type.
LEMMA DropEvent ==
    ASSUME NEW R \in [Relays -> RelayPass], NEW r \in Relays, NEW s, NEW a \in Aggregates
    PROVE  /\ LET Q == [R EXCEPT ![r].pc = "ready", ![r].batch = @ \ {s}]
              IN  Q \in [Relays -> RelayPass] /\ \A q \in Relays : Q[q].batch \subseteq R[q].batch
           /\ LET Q == [R EXCEPT ![r].pc = "ready", ![r].batch = @ \ {s},
                                 ![r].blocked = @ \union {a}]
              IN  Q \in [Relays -> RelayPass] /\ \A q \in Relays : Q[q].batch \subseteq R[q].batch
<1>1. /\ R[r] \in RelayPass
      /\ [R[r] EXCEPT !.pc = "ready", !.batch = @ \ {s}] \in RelayPass
      /\ [R[r] EXCEPT !.pc = "ready", !.batch = @ \ {s}, !.blocked = @ \union {a}] \in RelayPass
  BY Zenon DEF RelayPass
<1>2. /\ [R[r] EXCEPT !.pc = "ready", !.batch = @ \ {s}].batch = R[r].batch \ {s}
      /\ [R[r] EXCEPT !.pc = "ready", !.batch = @ \ {s}, !.blocked = @ \union {a}].batch
            = R[r].batch \ {s}
  BY <1>1 DEF RelayPass
<1>3. \A v \in RelayPass : [R EXCEPT ![r] = v] \in [Relays -> RelayPass]
  OBVIOUS
<1>4. /\ [R EXCEPT ![r].pc = "ready", ![r].batch = @ \ {s}]
            = [R EXCEPT ![r] = [R[r] EXCEPT !.pc = "ready", !.batch = @ \ {s}]]
      /\ [R EXCEPT ![r].pc = "ready", ![r].batch = @ \ {s}, ![r].blocked = @ \union {a}]
            = [R EXCEPT ![r] = [R[r] EXCEPT !.pc = "ready", !.batch = @ \ {s},
                                            !.blocked = @ \union {a}]]
  BY <1>1, Zenon DEF RelayPass
<1> QED  BY <1>1, <1>2, <1>3, <1>4

\* LastSequence is the largest sequence of the aggregate, 0 if it has none.
LEMMA LastSequenceIsMax ==
    ASSUME TypeOK, DenseSequences, NEW a \in Aggregates
    PROVE  /\ LastSequence(a) \in Nat
           /\ \A j \in DOMAIN events : events[j].agg = a => events[j].sequence <= LastSequence(a)
           /\ \/ LastSequence(a) = 0 /\ \A j \in DOMAIN events : events[j].agg # a
              \/ \E j \in DOMAIN events : events[j].agg = a /\ events[j].sequence = LastSequence(a)
<1> DEFINE S == {j \in DOMAIN events : events[j].agg = a}
           taken == {events[i].sequence : i \in S}
<1>1. Len(events) \in Nat /\ DOMAIN events = 1..Len(events) /\ events \in [1..Len(events) -> OutboxEvent]
  BY DEF TypeOK
<1>2. LastSequence(a) = IF taken = {} THEN 0 ELSE CHOOSE m \in taken : \A n \in taken : n <= m
  BY DEF LastSequence
<1>3. CASE S = {}
  <2>1. taken = {}
    BY <1>3
  <2>2. LastSequence(a) = 0
    BY <1>2, <2>1
  <2> QED  BY <1>3, <2>2
<1>4. CASE S # {}
  <2>1. PICK k \in S : \A j \in S : j <= k
    <3> S \in SUBSET (1..Len(events))
      BY <1>1
    <3> HIDE DEF S
    <3> QED  BY <1>1, <1>4, LastRow, Zenon
  <2>2. events[k].sequence \in taken /\ taken \subseteq Nat
    BY <1>1 DEF OutboxEvent
  <2>3. \A j \in S : events[j].sequence <= events[k].sequence
    <3> TAKE j \in S
    <3>1. CASE j = k
      BY <1>1, <3>1 DEF OutboxEvent
    <3>2. CASE j # k
      <4>1. j \in 1..(k - 1) /\ k \in DOMAIN events
        BY <1>1, <2>1, <3>2
      <4>2. events[j].sequence < events[k].sequence
        BY <4>1 DEF DenseSequences, SameAggregate
      <4>3. events[j].sequence \in Nat /\ events[k].sequence \in Nat
        BY <1>1 DEF OutboxEvent
      <4> QED  BY <4>2, <4>3
    <3> QED  BY <3>1, <3>2
  <2>4. \A n \in taken : n <= events[k].sequence
    BY <2>3
  <2>5. /\ LastSequence(a) \in taken
        /\ \A n \in taken : n <= LastSequence(a)
    <3> HIDE DEF taken
    <3> QED  BY <1>2, <2>2, <2>4, Zenon
  <2> QED  BY <2>2, <2>5
<1> QED  BY <1>3, <1>4

\* Every step of Next keeps the types.
LEMMA TypeStep == TypeInv /\ DenseSequences /\ [Next]_vars => TypeInv'
<1> SUFFICES ASSUME TypeInv, DenseSequences, [Next]_vars PROVE TypeInv'
  OBVIOUS
<1> USE OutboxAssumption DEF TypeInv, TypeOK, IdsInTable
<1>len. /\ Len(events) \in Nat /\ DOMAIN events = 1..Len(events)
        /\ events \in [1..Len(events) -> OutboxEvent]
        /\ Len(log) \in Nat /\ DOMAIN log = 1..Len(log)
        /\ log \in [1..Len(log) -> Nat]
  OBVIOUS
<1>1. CASE UNCHANGED vars
  BY <1>1 DEF vars
<1>2. CASE Tick
  BY <1>2 DEF Tick
<1>3. ASSUME NEW t \in Txs, Begin(t) PROVE TypeInv'
  <2>1. [stage |-> "open", now |-> clock, pending |-> <<>>] \in OutboxTx
    BY DEF OutboxTx
  <2> QED  BY <1>3, <2>1 DEF Begin
<1>4. ASSUME NEW t \in Txs, NEW e \in NewEvent, TxAppend(t, e) PROVE TypeInv'
  <2>1. Append(txs[t].pending, e) \in Seq(NewEvent)
    BY DEF OutboxTx
  <2> QED  BY <1>4, <2>1, Zenon DEF TxAppend, OutboxTx
<1>5. ASSUME NEW t \in Txs, Rollback(t) PROVE TypeInv'
  <2>1. <<>> \in Seq(NewEvent)
    OBVIOUS
  <2> QED  BY <1>5, <2>1, ZenonT(60) DEF Rollback, OutboxTx
<1>6. ASSUME NEW t \in Txs, CommitStart(t) PROVE TypeInv'
  BY <1>6, ZenonT(60) DEF CommitStart, OutboxTx
<1>7. ASSUME NEW t \in Txs, CommitEvent(t) PROVE TypeInv'
  <2> DEFINE e == Head(txs[t].pending)
  <2>1. e \in NewEvent /\ Tail(txs[t].pending) \in Seq(NewEvent)
    BY <1>7, SMTT(30) DEF CommitEvent, OutboxTx
  <2>2. txs' \in [Txs -> OutboxTx] /\ \A u \in Txs : txs'[u].stage = txs[u].stage
    BY <1>7, <2>1, Zenon DEF CommitEvent, OutboxTx
  <2>3. CASE IsDuplicate(e)
    BY <1>7, <2>2, <2>3, SMTT(30) DEF CommitEvent
  <2>4. CASE ~IsDuplicate(e)
    <3>1. Row(e, txs[t].now) \in OutboxEvent
      <4>1. LastSequence(e.agg) \in Nat
        BY <2>1, LastSequenceIsMax, SMTT(30) DEF NewEvent
      <4> QED  BY <2>1, <4>1, SMTT(30) DEF Row, NextSequence, OutboxEvent, NewEvent,
                  EventStatus, OutboxTx
    <3>2. events' = Append(events, Row(e, txs[t].now))
      BY <1>7, <2>4 DEF CommitEvent
    <3>3. events' \in Seq(OutboxEvent) /\ DOMAIN events \subseteq DOMAIN events'
      BY <3>1, <3>2, AppendOne
    <3> QED  BY <1>7, <2>2, <3>3, Zenon DEF CommitEvent
  <2> QED  BY <2>3, <2>4
<1>8. ASSUME NEW t \in Txs, CommitEnd(t) PROVE TypeInv'
  BY <1>8, Zenon DEF CommitEnd, OutboxTx
<1>9. ASSUME NEW r \in Relays, PollStart(r) PROVE TypeInv'
  <2> DEFINE b == {[id |-> i, attempts |-> events[i].attempts] : i \in Oldest}
  <2>1. b \in SUBSET Snapshot /\ \A s \in b : s.id \in DOMAIN events
    <3>1. \A i \in Oldest : i \in DOMAIN events /\ i \in Nat /\ events[i].attempts \in Nat
      BY <1>len, OldestRows, SMTT(30) DEF OutboxEvent
    <3> QED  BY <3>1 DEF Snapshot
  <2>2. [pc |-> "ready", blocked |-> {}, batch |-> b] \in RelayPass
    BY <2>1 DEF RelayPass
  <2> QED  BY <1>9, <2>1, <2>2 DEF PollStart
<1>10. ASSUME NEW r \in Relays, PollEnd(r) PROVE TypeInv'
  BY <1>10 DEF PollEnd, IdlePass, RelayPass
<1>11. ASSUME NEW r \in Relays, NEW s \in relay[r].batch, HoldBack(r, s) PROVE TypeInv'
  BY <1>11, ZenonT(60) DEF HoldBack, RelayPass
<1>12. ASSUME NEW r \in Relays, NEW s \in relay[r].batch, PublishOk(r, s) PROVE TypeInv'
  <2>1. s.id \in Nat
    BY DEF RelayPass, Snapshot
  <2>2. log' = Append(log, s.id)
    BY <1>12 DEF PublishOk
  <2>3. /\ log' \in Seq(Nat) /\ DOMAIN log' = 1..(Len(log) + 1)
        /\ \A p \in 1..Len(log) : log'[p] = log[p]
        /\ log'[Len(log) + 1] = s.id
    BY <2>1, <2>2, AppendOne
  <2>4. ASSUME NEW p \in DOMAIN log' PROVE log'[p] \in DOMAIN events
    <3>1. p \in 1..Len(log) \/ p = Len(log) + 1
      BY <1>len, <2>3
    <3> QED  BY <1>len, <2>3, <3>1
  <2>5. relay' \in [Relays -> RelayPass] /\ \A q \in Relays : relay'[q].batch = relay[q].batch
    BY <1>12, ZenonT(60) DEF PublishOk, RelayPass
  <2> QED  BY <1>12, <2>3, <2>4, <2>5, Zenon DEF PublishOk
<1>13. ASSUME NEW r \in Relays, NEW s \in relay[r].batch, NEW taken \in BOOLEAN,
              PublishErr(r, s, taken)
       PROVE TypeInv'
  <2>1. s.id \in Nat
    BY DEF RelayPass, Snapshot
  <2>2. CASE taken
    <3>1. log' = Append(log, s.id)
      BY <1>13, <2>2 DEF PublishErr
    <3>2. /\ log' \in Seq(Nat) /\ DOMAIN log' = 1..(Len(log) + 1)
          /\ \A p \in 1..Len(log) : log'[p] = log[p]
          /\ log'[Len(log) + 1] = s.id
      BY <2>1, <3>1, AppendOne
    <3>3. ASSUME NEW p \in DOMAIN log' PROVE log'[p] \in DOMAIN events
      <4>1. p \in 1..Len(log) \/ p = Len(log) + 1
        BY <1>len, <3>2
      <4> QED  BY <1>len, <3>2, <4>1, SMTT(30)
    <3>4. relay' \in [Relays -> RelayPass] /\ \A q \in Relays : relay'[q].batch = relay[q].batch
      BY <1>13, ZenonT(60) DEF PublishErr, RelayPass
    <3> QED  BY <1>13, <3>2, <3>3, <3>4, SMTT(30) DEF PublishErr
  <2>3. CASE ~taken
    <3>1. relay' \in [Relays -> RelayPass] /\ \A q \in Relays : relay'[q].batch = relay[q].batch
      BY <1>13, ZenonT(60) DEF PublishErr, RelayPass
    <3> QED  BY <1>13, <2>3, <3>1 DEF PublishErr
  <2> QED  BY <2>2, <2>3
<1>agg. \A r \in Relays : \A s \in relay[r].batch : events[s.id].agg \in Aggregates
  BY <1>len DEF OutboxEvent
<1>14. ASSUME NEW r \in Relays, NEW s \in relay[r].batch, MarkPublished(r, s) PROVE TypeInv'
  <2>1. events' \in Seq(OutboxEvent) /\ DOMAIN events' = DOMAIN events
    BY <1>14, UpdateRow, ZenonT(60) DEF MarkPublished, EventStatus
  <2>2. relay' \in [Relays -> RelayPass] /\ \A q \in Relays : relay'[q].batch \subseteq relay[q].batch
    <3>1. events[s.id].agg \in Aggregates
      BY <1>agg
    <3>2. relay' = [relay EXCEPT ![r].pc = "ready", ![r].batch = @ \ {s}]
      BY <1>14 DEF MarkPublished
    <3> QED  BY <3>1, <3>2, DropEvent, ZenonT(60)
  <2> QED  BY <1>14, <2>1, <2>2, SMTT(30) DEF MarkPublished
<1>15. ASSUME NEW r \in Relays, NEW s \in relay[r].batch, Quarantine(r, s) PROVE TypeInv'
  <2>1. s.id \in DOMAIN events /\ s.attempts + 1 \in Nat /\ s.id \in Nat
    BY DEF RelayPass, Snapshot
  <2>2. events' \in Seq(OutboxEvent) /\ DOMAIN events' = DOMAIN events
    BY <1>15, <2>1, UpdateRow, ZenonT(60) DEF Quarantine, EventStatus
  <2>3. relay' \in [Relays -> RelayPass] /\ \A q \in Relays : relay'[q].batch \subseteq relay[q].batch
    <3>1. events[s.id].agg \in Aggregates
      BY <1>agg
    <3>2. relay' = [relay EXCEPT ![r].pc = "ready", ![r].batch = @ \ {s}]
      BY <1>15 DEF Quarantine
    <3> QED  BY <3>1, <3>2, DropEvent, Zenon
  <2> QED  BY <1>15, <2>1, <2>2, <2>3, SMTT(30) DEF Quarantine
<1>16. ASSUME NEW r \in Relays, NEW s \in relay[r].batch, RecordFailure(r, s) PROVE TypeInv'
  <2>1. s.id \in DOMAIN events /\ s.attempts + 1 \in Nat
    BY SMTT(30) DEF RelayPass, Snapshot
  <2>2. events' \in Seq(OutboxEvent) /\ DOMAIN events' = DOMAIN events
    BY <1>16, <2>1, UpdateRow, Zenon DEF RecordFailure, EventStatus
  <2>3. events[s.id].agg \in Aggregates
    BY <1>len, <2>1, SMTT(30) DEF OutboxEvent
  <2>4. relay' \in [Relays -> RelayPass] /\ \A q \in Relays : relay'[q].batch \subseteq relay[q].batch
    BY <1>16, <2>3, DropEvent, ZenonT(60) DEF RecordFailure
  <2> QED  BY <1>16, <2>2, <2>4 DEF RecordFailure
<1>17. ASSUME NEW r \in Relays, Crash(r) PROVE TypeInv'
  BY <1>17 DEF Crash, IdlePass, RelayPass
<1>18. ASSUME NEW i \in DOMAIN events, Requeue(i) PROVE TypeInv'
  <2>1. events' \in Seq(OutboxEvent) /\ DOMAIN events' = DOMAIN events
    BY <1>18, UpdateRow, ZenonT(60) DEF Requeue, EventStatus
  <2> QED  BY <1>18, <2>1, SMTT(30) DEF Requeue
<1> QED
  BY <1>1, <1>2, <1>3, <1>4, <1>5, <1>6, <1>7, <1>8, <1>9, <1>10, <1>11, <1>12,
     <1>13, <1>14, <1>15, <1>16, <1>17, <1>18, ZenonT(60)
  DEF Next, TxStep, CommitStep, PassStep, EventStep

\* The two kinds of step.
LEMMA TableStep ==
    ASSUME TypeInv, [Next]_vars
    PROVE  RowsSame \/ RowAdded
<1> USE DEF TypeInv, TypeOK, IdsInTable
<1>len. /\ Len(events) \in Nat /\ DOMAIN events = 1..Len(events)
        /\ events \in [1..Len(events) -> OutboxEvent]
  OBVIOUS
<1>1. CASE UNCHANGED events
  BY <1>1 DEF RowsSame
<1>2. ASSUME NEW t \in Txs, CommitEvent(t) PROVE RowsSame \/ RowAdded
  <2> DEFINE e == Head(txs[t].pending)
  <2>1. e \in NewEvent /\ txs[t].now \in Nat
    BY <1>2 DEF CommitEvent, OutboxTx
  <2>2. CASE IsDuplicate(e)
    BY <1>2, <1>1, <2>2 DEF CommitEvent
  <2>3. CASE ~IsDuplicate(e)
    BY <1>2, <2>1, <2>3 DEF CommitEvent, RowAdded
  <2> QED  BY <2>2, <2>3
<1>3. ASSUME NEW r \in Relays, NEW s \in relay[r].batch,
             MarkPublished(r, s) \/ Quarantine(r, s) \/ RecordFailure(r, s)
      PROVE  RowsSame
  <2>1. s.id \in DOMAIN events
    OBVIOUS
  <2>2. CASE MarkPublished(r, s)
    BY <1>len, <2>1, <2>2, Zenon DEF MarkPublished, RowsSame, OutboxEvent
  <2>3. CASE Quarantine(r, s)
    BY <1>len, <2>1, <2>3, ZenonT(60) DEF Quarantine, RowsSame, OutboxEvent
  <2>4. CASE RecordFailure(r, s)
    BY <1>len, <2>1, <2>4, Zenon DEF RecordFailure, RowsSame, OutboxEvent
  <2> QED  BY <1>3, <2>2, <2>3, <2>4
<1>4. ASSUME NEW i \in DOMAIN events, Requeue(i) PROVE RowsSame
  BY <1>4, <1>len, Zenon DEF Requeue, RowsSame, OutboxEvent
<1> QED
  BY <1>1, <1>2, <1>3, <1>4, ZenonT(60)
  DEF Next, vars, Tick, TxStep, Begin, TxAppend, Rollback, CommitStart, CommitStep, CommitEnd,
      PollStart, PassStep, PollEnd, EventStep, HoldBack, PublishOk, PublishErr, Crash

\* The row RowAdded appends: it takes the next number of its aggregate.
LEMMA NewRow ==
    ASSUME TypeInv, DenseSequences, RowAdded
    PROVE  LET n == Len(events) + 1 IN
           /\ Len(events) \in Nat /\ DOMAIN events = 1..Len(events)
           /\ DOMAIN events' = 1..n
           /\ \A i \in DOMAIN events : events'[i] = events[i] /\ events[i] \in OutboxEvent
           /\ events'[n].status = "Pending"
           /\ \A i \in DOMAIN events : events[i].key # events'[n].key
           /\ events'[n].sequence \in Nat
           /\ \A i \in DOMAIN events :
                 events[i].agg = events'[n].agg => events[i].sequence < events'[n].sequence
           /\ \A m \in 1..(events'[n].sequence - 1) :
                 \E i \in DOMAIN events : events[i].agg = events'[n].agg /\ events[i].sequence = m
<1> DEFINE n == Len(events) + 1
<1>1. PICK e \in NewEvent, now \in Nat :
         ~IsDuplicate(e) /\ events' = Append(events, Row(e, now))
  BY DEF RowAdded
<1>2. /\ LastSequence(e.agg) \in Nat
      /\ \A j \in DOMAIN events : events[j].agg = e.agg => events[j].sequence <= LastSequence(e.agg)
      /\ \/ LastSequence(e.agg) = 0 /\ \A j \in DOMAIN events : events[j].agg # e.agg
         \/ \E j \in DOMAIN events : events[j].agg = e.agg /\ events[j].sequence = LastSequence(e.agg)
  BY LastSequenceIsMax DEF NewEvent, TypeInv
<1>3. Row(e, now) \in OutboxEvent
  BY <1>2 DEF Row, NextSequence, OutboxEvent, NewEvent, EventStatus
<1>4. /\ events \in Seq(OutboxEvent) /\ Len(events) \in Nat /\ DOMAIN events = 1..Len(events)
      /\ events \in [1..Len(events) -> OutboxEvent]
  BY DEF TypeInv, TypeOK
<1>5. /\ DOMAIN events' = 1..n
      /\ events'[n] = Row(e, now)
      /\ \A i \in DOMAIN events : events'[i] = events[i] /\ events[i] \in OutboxEvent
  BY <1>1, <1>3, <1>4, AppendOne
<1>6. /\ events'[n].status = "Pending" /\ events'[n].agg = e.agg /\ events'[n].key = e.key
      /\ events'[n].sequence = LastSequence(e.agg) + 1
  BY <1>5 DEF Row, NextSequence
<1>7. \A i \in DOMAIN events : events[i].key # events'[n].key
  BY <1>1, <1>6 DEF IsDuplicate
<1>8. \A i \in DOMAIN events :
         events[i].agg = events'[n].agg => events[i].sequence < events'[n].sequence
  BY <1>2, <1>4, <1>6 DEF OutboxEvent
<1>9. ASSUME NEW m \in 1..(events'[n].sequence - 1)
      PROVE  \E i \in DOMAIN events : events[i].agg = events'[n].agg /\ events[i].sequence = m
  <2>1. PICK k \in DOMAIN events : events[k].agg = e.agg /\ events[k].sequence = LastSequence(e.agg)
    BY <1>2, <1>6
  <2>2. CASE m = LastSequence(e.agg)
    BY <1>6, <2>1, <2>2
  <2>3. CASE m # LastSequence(e.agg)
    <3>1. m \in 1..(events[k].sequence - 1)
      BY <1>2, <1>6, <2>1, <2>3
    <3>2. PICK j \in 1..(k - 1) : SameAggregate(k, j) /\ events[j].sequence = m
      BY <3>1 DEF DenseSequences
    <3>3. j \in DOMAIN events
      BY <1>4
    <3> QED  BY <1>6, <2>1, <3>2, <3>3 DEF SameAggregate
  <2> QED  BY <2>2, <2>3
<1> QED  BY <1>2, <1>4, <1>5, <1>6, <1>7, <1>8, <1>9

\* commit keeps the numbering dense.
LEMMA DenseStep ==
    ASSUME TypeInv, DenseSequences, RowsSame \/ RowAdded
    PROVE  DenseSequences'
<1>len. Len(events) \in Nat /\ DOMAIN events = 1..Len(events)
  BY DEF TypeInv, TypeOK
<1>1. CASE RowsSame
  <2>1. \A i \in DOMAIN events : \A j \in 1..(i - 1) : j \in DOMAIN events
    BY <1>len
  <2>2. ASSUME NEW i \in DOMAIN events
        PROVE  /\ \A j \in 1..(i - 1) :
                     SameAggregate(i, j)' => events'[j].sequence < events'[i].sequence
               /\ \A m \in 1..(events'[i].sequence - 1) :
                     \E j \in 1..(i - 1) : SameAggregate(i, j)' /\ events'[j].sequence = m
    BY <1>1, <2>1 DEF DenseSequences, RowsSame, SameAggregate
  <2> QED  BY <1>1, <2>2 DEF DenseSequences, RowsSame
<1>2. CASE RowAdded
  <2> DEFINE n == Len(events) + 1
  <2>1. /\ DOMAIN events' = 1..n
        /\ \A i \in DOMAIN events : events'[i] = events[i]
        /\ \A i \in DOMAIN events :
              events[i].agg = events'[n].agg => events[i].sequence < events'[n].sequence
        /\ \A m \in 1..(events'[n].sequence - 1) :
              \E i \in DOMAIN events : events[i].agg = events'[n].agg /\ events[i].sequence = m
    BY <1>2, NewRow
  <2>2. ASSUME NEW i \in DOMAIN events'
        PROVE  /\ \A j \in 1..(i - 1) :
                     SameAggregate(i, j)' => events'[j].sequence < events'[i].sequence
               /\ \A m \in 1..(events'[i].sequence - 1) :
                     \E j \in 1..(i - 1) : SameAggregate(i, j)' /\ events'[j].sequence = m
    <3>1. CASE i \in DOMAIN events
      <4>1. \A j \in 1..(i - 1) : j \in DOMAIN events
        BY <1>len, <3>1
      <4> QED  BY <2>1, <3>1, <4>1 DEF DenseSequences, SameAggregate
    <3>2. CASE i = n
      <4>1. 1..(i - 1) = DOMAIN events
        BY <1>len, <3>2
      <4> QED  BY <2>1, <3>2, <4>1 DEF SameAggregate
    <3> QED  BY <1>len, <2>1, <3>1, <3>2
  <2> QED  BY <2>2 DEF DenseSequences
<1> QED  BY <1>1, <1>2

\* commit never adds a second row with a key.
LEMMA KeysStep ==
    ASSUME TypeInv, DenseSequences, UniqueKeys, RowsSame \/ RowAdded
    PROVE  UniqueKeys'
<1>1. CASE RowsSame
  BY <1>1 DEF UniqueKeys, RowsSame
<1>2. CASE RowAdded
  <2> DEFINE n == Len(events) + 1
  <2>1. /\ Len(events) \in Nat /\ DOMAIN events = 1..Len(events) /\ DOMAIN events' = 1..n
        /\ \A i \in DOMAIN events : events'[i] = events[i]
        /\ \A i \in DOMAIN events : events[i].key # events'[n].key
    BY <1>2, NewRow
  <2>2. \A i \in DOMAIN events' : i \in DOMAIN events \/ i = n
    BY <2>1
  <2> QED  BY <2>1, <2>2 DEF UniqueKeys
<1> QED  BY <1>1, <1>2

\* The order of rows that are in the table does not change, and a row that
\* enters it is earlier than none of them.
LEMMA OrderKept ==
    ASSUME TypeInv, DenseSequences, RowsSame \/ RowAdded
    PROVE  /\ DOMAIN events \subseteq DOMAIN events'
           /\ \A j \in DOMAIN events : events'[j].agg = events[j].agg
           /\ \A i, j \in DOMAIN events : Before(i, j)' <=> Before(i, j)
           /\ \A i \in DOMAIN events', j \in DOMAIN events :
                 Earlier(i, j)' => i \in DOMAIN events /\ Earlier(i, j)
<1>1. CASE RowsSame
  BY <1>1, SMTT(30) DEF RowsSame, Before, Earlier, SameAggregate
<1>2. CASE RowAdded
  <2> DEFINE n == Len(events) + 1
  <2>1. /\ Len(events) \in Nat /\ DOMAIN events = 1..Len(events) /\ DOMAIN events' = 1..n
        /\ \A i \in DOMAIN events : events'[i] = events[i] /\ events[i] \in OutboxEvent
        /\ events'[n].sequence \in Nat
        /\ \A i \in DOMAIN events :
              events[i].agg = events'[n].agg => events[i].sequence < events'[n].sequence
    BY <1>2, NewRow
  <2>2. \A i \in DOMAIN events' : i \in DOMAIN events \/ i = n
    BY <2>1
  <2>3. ASSUME NEW i, NEW j \in DOMAIN events, i = n, Earlier(i, j)' PROVE FALSE
    <3>1. events[j].sequence \in Nat /\ events'[j] = events[j]
      BY <2>1 DEF OutboxEvent
    <3>2. events'[i].agg = events[j].agg /\ events'[i].sequence < events[j].sequence
      BY <2>3, <3>1 DEF Earlier, SameAggregate
    <3>3. events[j].sequence < events'[i].sequence /\ events'[i].sequence \in Nat
      BY <2>1, <2>3, <3>2
    <3> QED  BY <3>1, <3>2, <3>3
  <2>4. \A i, j \in DOMAIN events : (Before(i, j)' <=> Before(i, j)) /\ (Earlier(i, j)' <=> Earlier(i, j))
    BY <2>1 DEF Before, Earlier, SameAggregate
  <2>5. DOMAIN events \subseteq DOMAIN events' /\ \A j \in DOMAIN events : events'[j].agg = events[j].agg
    BY <2>1
  <2>6. ASSUME NEW i \in DOMAIN events', NEW j \in DOMAIN events, Earlier(i, j)'
        PROVE  i \in DOMAIN events /\ Earlier(i, j)
    BY <2>2, <2>3, <2>4, <2>6
  <2> QED  BY <2>4, <2>5, <2>6
<1> QED  BY <1>1, <1>2

\* Before is a strict order on the table, and contains Earlier.
LEMMA BeforeOrder ==
    ASSUME TypeInv
    PROVE  /\ \A i, j \in DOMAIN events : Before(i, j) => ~Before(j, i)
           /\ \A i, j, k \in DOMAIN events : Before(i, j) /\ Before(j, k) => Before(i, k)
           /\ \A i, j \in DOMAIN events : Earlier(i, j) => Before(i, j) /\ i # j
<1>1. \A i \in DOMAIN events : events[i].agg \in Nat /\ events[i].sequence \in Nat
                                /\ events[i].created_at \in Nat
  <2>1. \A i \in DOMAIN events : events[i] \in OutboxEvent
    BY DEF TypeInv, TypeOK
  <2> QED  BY <2>1, OutboxAssumption, ZenonT(60) DEF OutboxEvent
<1>2. \A i, j \in DOMAIN events : Before(i, j) => ~Before(j, i)
  BY <1>1 DEF Before
<1>3. ASSUME NEW i \in DOMAIN events, NEW j \in DOMAIN events, NEW k \in DOMAIN events,
             Before(i, j), Before(j, k)
      PROVE  Before(i, k)
  BY <1>1, <1>3 DEF Before
<1>4. \A i, j \in DOMAIN events : Earlier(i, j) => Before(i, j) /\ i # j
  BY <1>1 DEF Before, Earlier, SameAggregate
<1> QED  BY <1>2, <1>3, <1>4

\* A relay has one event at hand.
LEMMA OneNext ==
    ASSUME TypeInv, NEW r \in Relays, NEW s \in relay[r].batch, NEW o \in relay[r].batch,
           IsNext(r, s), IsNext(r, o)
    PROVE  s = o
<1>1. s.id \in DOMAIN events /\ o.id \in DOMAIN events
  BY SMTT(30) DEF TypeInv, IdsInTable
<1> QED  BY <1>1, BeforeOrder DEF IsNext

\* The broker's log only grows, by the event a relay has at hand.
LEMMA LogStep ==
    ASSUME TypeInv, [Next]_vars
    PROVE  /\ \/ log' = log
              \/ \E r \in Relays : \E s \in relay[r].batch :
                    CanPublish(r, s) /\ log' = Append(log, s.id) /\ s.id \in DOMAIN events
                    /\ UNCHANGED <<events, parked>>
           /\ Len(log) \in Nat /\ DOMAIN log = 1..Len(log)
           /\ \A p \in DOMAIN log : p \in DOMAIN log' /\ log'[p] = log[p]
           /\ \A i : Sent(i) => Sent(i)'
           /\ parked \subseteq parked'
<1>0. Len(log) \in Nat /\ DOMAIN log = 1..Len(log)
  BY SMTT(30) DEF TypeInv, TypeOK
<1> DEFINE Publishes == \E r \in Relays : \E s \in relay[r].batch :
             CanPublish(r, s) /\ log' = Append(log, s.id) /\ s.id \in DOMAIN events
             /\ UNCHANGED <<events, parked>>
<1>a. ASSUME NEW r \in Relays, NEW s \in relay[r].batch, EventStep(r, s)
      PROVE  (log' = log \/ Publishes) /\ parked \subseteq parked'
  <2>1. s.id \in DOMAIN events
    BY DEF TypeInv, IdsInTable
  <2>2. CASE PublishOk(r, s)
    BY <2>1, <2>2 DEF PublishOk
  <2>3. ASSUME NEW taken \in BOOLEAN, PublishErr(r, s, taken)
        PROVE  (log' = log \/ Publishes) /\ parked \subseteq parked'
    BY <2>1, <2>3, SMTT(30) DEF PublishErr
  <2>4. CASE HoldBack(r, s) \/ MarkPublished(r, s) \/ Quarantine(r, s) \/ RecordFailure(r, s)
    BY <2>4 DEF HoldBack, MarkPublished, Quarantine, RecordFailure
  <2> QED  BY <1>a, <2>2, <2>3, <2>4, SMTT(30) DEF EventStep
<1>b. ASSUME UNCHANGED <<log, parked>>
      PROVE  (log' = log \/ Publishes) /\ parked \subseteq parked'
  BY <1>b, SMTT(30)
<1>1. (log' = log \/ Publishes) /\ parked \subseteq parked'
  BY <1>a, <1>b, ZenonT(60)
  DEF Next, vars, Tick, TxStep, Begin, TxAppend, Rollback, CommitStart, CommitStep, CommitEvent,
      CommitEnd, PollStart, PassStep, PollEnd, Crash, Requeue
<1>2. \A p \in DOMAIN log : p \in DOMAIN log' /\ log'[p] = log[p]
  <2>1. CASE log' = log
    BY <2>1
  <2>2. ASSUME NEW r \in Relays, NEW s \in relay[r].batch, s.id \in DOMAIN events,
               log' = Append(log, s.id)
        PROVE  \A p \in DOMAIN log : p \in DOMAIN log' /\ log'[p] = log[p]
    <3>1. s.id \in Nat
      BY <2>2 DEF TypeInv, TypeOK
    <3> QED  BY <1>0, <2>2, <3>1, AppendOne DEF TypeInv, TypeOK
  <2> QED  BY <1>1, <2>1, <2>2
<1>4. \A i : Sent(i) => Sent(i)'
  BY <1>2, SMTT(30) DEF Sent
<1> QED  BY <1>0, <1>1, <1>2, <1>4

\* What a step does to one relay.
LEMMA RelayStep ==
    ASSUME TypeInv, [Next]_vars, NEW r \in Relays
    PROVE  \/ relay'[r] = relay[r]
           \/ PollStart(r)
           \/ relay'[r] = IdlePass
           \/ \E o \in relay[r].batch : EventStep(r, o)
<1>0. relay \in [Relays -> RelayPass]
  BY DEF TypeInv, TypeOK
<1>1. ASSUME NEW q \in Relays, PollStart(q), q # r PROVE relay'[r] = relay[r]
  BY <1>0, <1>1 DEF PollStart
<1>2. ASSUME NEW q \in Relays, PollEnd(q) \/ Crash(q)
      PROVE  relay'[r] = relay[r] \/ relay'[r] = IdlePass
  BY <1>0, <1>2 DEF PollEnd, Crash
<1>3. ASSUME NEW q \in Relays, q # r, NEW o \in relay[q].batch, EventStep(q, o)
      PROVE  relay'[r] = relay[r]
  BY <1>0, <1>3
  DEF EventStep, HoldBack, PublishOk, PublishErr, MarkPublished, Quarantine, RecordFailure
<1>4. ASSUME UNCHANGED relay PROVE relay'[r] = relay[r]
  BY <1>4, SMTT(30)
<1> QED
  BY <1>1, <1>2, <1>3, <1>4, ZenonT(60)
  DEF Next, vars, Tick, TxStep, Begin, TxAppend, Rollback, CommitStart, CommitStep, CommitEvent,
      CommitEnd, PassStep, Requeue

\* What a relay does with the event at hand: it keeps it, or drops it when it
\* was parked, sent or has its aggregate blocked.
LEMMA HandledEvent ==
    ASSUME IInv, NEW r \in Relays, NEW o \in relay[r].batch, EventStep(r, o)
    PROVE  /\ relay'[r].batch \subseteq relay[r].batch
           /\ relay[r].blocked \subseteq relay'[r].blocked
           /\ \A s \in relay[r].batch :
                 \/ s \in relay'[r].batch
                 \/ s = o /\ (o.id \in parked' \/ Sent(o.id) \/ events[o.id].agg \in relay'[r].blocked)
           /\ relay'[r].pc = "sent" => PublishOk(r, o) /\ relay'[r].batch = relay[r].batch
<1>0. relay \in [Relays -> RelayPass]
  BY DEF IInv, TypeInv, TypeOK
<1>1. CASE HoldBack(r, o)
  BY <1>0, <1>1 DEF HoldBack, RelayPass
<1>2. CASE PublishOk(r, o)
  BY <1>0, <1>2 DEF PublishOk, RelayPass
<1>3. CASE \E taken \in BOOLEAN : PublishErr(r, o, taken)
  BY <1>0, <1>3 DEF PublishErr, RelayPass
<1>4. CASE MarkPublished(r, o)
  <2>1. Sent(o.id)
    BY <1>4 DEF MarkPublished, IInv, SentInLog
  <2> QED  BY <1>0, <1>4, <2>1 DEF MarkPublished, RelayPass
<1>5. CASE Quarantine(r, o)
  BY <1>0, <1>5 DEF Quarantine, RelayPass
<1>6. CASE RecordFailure(r, o)
  BY <1>0, <1>6 DEF RecordFailure, RelayPass
<1> QED  BY <1>1, <1>2, <1>3, <1>4, <1>5, <1>6, ZenonT(60) DEF EventStep

\* mark_published follows an accepted publish; only quarantine parks.
LEMMA StatusStep ==
    ASSUME IInv, [Next]_vars
    PROVE  PublishedWasSent' /\ QuarantinedParked'
<1> DEFINE Good == \A i \in DOMAIN events' :
             /\ events'[i].status = "Published" =>
                   Sent(i) \/ (i \in DOMAIN events /\ events[i].status = "Published")
             /\ events'[i].status = "Quarantined" =>
                   i \in parked' \/ (i \in DOMAIN events /\ events[i].status = "Quarantined")
<1>0. /\ TypeInv /\ DenseSequences
      /\ events \in Seq(OutboxEvent) /\ Len(events) \in Nat /\ DOMAIN events = 1..Len(events)
      /\ events \in [1..Len(events) -> OutboxEvent]
  BY DEF IInv, TypeInv, TypeOK
<1>1. ASSUME RowAdded PROVE Good
  <2> DEFINE n == Len(events) + 1
  <2>1. /\ DOMAIN events' = 1..n
        /\ \A i \in DOMAIN events : events'[i] = events[i]
        /\ events'[n].status = "Pending"
    BY <1>0, <1>1, NewRow
  <2>2. \A i \in DOMAIN events' : i \in DOMAIN events \/ i = n
    BY <1>0, <2>1
  <2> QED  BY <2>1, <2>2
<1>2. ASSUME UNCHANGED events PROVE Good
  BY <1>2
<1>3. ASSUME NEW r \in Relays, NEW s \in relay[r].batch,
             MarkPublished(r, s) \/ Quarantine(r, s) \/ RecordFailure(r, s)
      PROVE  Good
  <2>1. s.id \in DOMAIN events
    BY <1>0 DEF TypeInv, IdsInTable
  <2>2. ASSUME MarkPublished(r, s) PROVE Good
    <3>1. Sent(s.id)
      BY <2>2 DEF MarkPublished, IInv, SentInLog
    <3> QED  BY <1>0, <2>1, <2>2, <3>1, SMTT(30) DEF MarkPublished, OutboxEvent
  <2>3. ASSUME Quarantine(r, s) PROVE Good
    BY <1>0, <2>1, <2>3, SMTT(30) DEF Quarantine, OutboxEvent
  <2>4. ASSUME RecordFailure(r, s) PROVE Good
    BY <1>0, <2>1, <2>4, SMTT(30) DEF RecordFailure, OutboxEvent
  <2> QED  BY <1>3, <2>2, <2>3, <2>4
<1>4. ASSUME NEW i \in DOMAIN events, Requeue(i) PROVE Good
  BY <1>0, <1>4, SMTT(30) DEF Requeue, OutboxEvent
<1>5. ASSUME NEW t \in Txs, CommitEvent(t) PROVE Good
  <2>1. CASE UNCHANGED events
    BY <1>2, <2>1
  <2>2. CASE ~UNCHANGED events
    <3>1. Head(txs[t].pending) \in NewEvent /\ txs[t].now \in Nat
      BY <1>0, <1>5 DEF CommitEvent, OutboxTx, TypeInv, TypeOK
    <3>2. RowAdded
      BY <1>5, <2>2, <3>1, SMTT(30) DEF CommitEvent, RowAdded
    <3> QED  BY <1>1, <3>2
  <2> QED  BY <2>1, <2>2
<1> HIDE DEF Good
<1>6. Good
  BY <1>2, <1>3, <1>4, <1>5, ZenonT(60)
  DEF Next, vars, Tick, TxStep, Begin, TxAppend, Rollback, CommitStart, CommitStep,
      CommitEnd, PollStart, PassStep, PollEnd, EventStep, HoldBack, PublishOk, PublishErr, Crash
<1>7. (\A i : Sent(i) => Sent(i)') /\ parked \subseteq parked'
  BY <1>0, LogStep
<1>8. ASSUME NEW i \in DOMAIN events', events'[i].status = "Published" PROVE Sent(i)'
  BY <1>6, <1>7, <1>8 DEF Good, IInv, PublishedWasSent, Sent
<1>9. ASSUME NEW i \in DOMAIN events', events'[i].status = "Quarantined" PROVE i \in parked'
  BY <1>6, <1>7, <1>9 DEF Good, IInv, QuarantinedParked
<1> QED  BY <1>8, <1>9 DEF PublishedWasSent, QuarantinedParked, Sent

\* The event at hand after a publish is the one that was published.
LEMMA SentInLogStep ==
    ASSUME IInv, [Next]_vars
    PROVE  SentInLog'
<1>0. TypeInv /\ DenseSequences
  BY DEF IInv
<1>1. (\A i : Sent(i) => Sent(i)') /\ (RowsSame \/ RowAdded)
  BY <1>0, LogStep, TableStep
<1>2. SUFFICES ASSUME NEW r \in Relays, NEW s \in relay'[r].batch,
                      relay'[r].pc = "sent", IsNext(r, s)'
               PROVE  Sent(s.id)'
  BY DEF SentInLog
<1>3. ASSUME relay'[r].batch = relay[r].batch PROVE s \in relay[r].batch /\ IsNext(r, s)
  <2>1. \A o \in relay[r].batch : o.id \in DOMAIN events
    BY <1>0 DEF TypeInv, IdsInTable
  <2>2. \A i, j \in DOMAIN events : Before(i, j)' <=> Before(i, j)
    BY <1>0, <1>1, OrderKept
  <2> QED  BY <1>2, <1>3, <2>1, <2>2 DEF IsNext
<1>4. CASE relay'[r] = relay[r]
  BY <1>1, <1>2, <1>3, <1>4 DEF IInv, SentInLog
<1>5. CASE PollStart(r)
  <2>1. relay \in [Relays -> RelayPass]
    BY <1>0 DEF TypeInv, TypeOK
  <2> QED  BY <1>2, <1>5, <2>1 DEF PollStart
<1>6. CASE relay'[r] = IdlePass
  BY <1>2, <1>6 DEF IdlePass
<1>7. ASSUME NEW o \in relay[r].batch, EventStep(r, o) PROVE Sent(s.id)'
  <2>1. PublishOk(r, o) /\ relay'[r].batch = relay[r].batch
    BY <1>2, <1>7, HandledEvent
  <2>2. s = o
    BY <1>0, <1>3, <2>1, OneNext, SMTT(30) DEF PublishOk, CanPublish
  <2>3. o.id \in Nat /\ log \in Seq(Nat)
    BY <1>0 DEF TypeInv, TypeOK, IdsInTable
  <2>4. Len(log) + 1 \in DOMAIN log' /\ log'[Len(log) + 1] = o.id
    BY <2>1, <2>3, AppendOne DEF PublishOk
  <2> QED  BY <2>2, <2>4, SMTT(30) DEF Sent
<1> QED  BY <1>0, <1>4, <1>5, <1>6, <1>7, RelayStep

INSTANCE FiniteSetTheorems

\* A snapshot holds, with a row, every pending row before it: truncating the
\* sorted rows to batch_size cuts off the end.
LEMMA OldestIsPrefix ==
    ASSUME TypeInv, NEW i \in Pending, NEW j \in Oldest, Before(i, j)
    PROVE  i \in Oldest
<1> DEFINE A == {k \in Pending : Before(k, i)}
           B == {k \in Pending : Before(k, j)}
<1>1. Pending \subseteq DOMAIN events /\ j \in Pending
  BY DEF Pending, Oldest
<1>2. A \subseteq B
  BY <1>1, BeforeOrder
<1>3. IsFiniteSet(B)
  <2>1. Len(events) \in Nat /\ DOMAIN events = 1..Len(events)
    BY DEF TypeInv, TypeOK
  <2>2. IsFiniteSet(DOMAIN events) /\ B \subseteq DOMAIN events
    BY <1>1, <2>1, FS_Interval
  <2> HIDE DEF B
  <2> QED  BY <2>2, FS_Subset
<1>4. Cardinality(B) < batch_size
  BY DEF Oldest
<1>5. Cardinality(A) <= Cardinality(B) /\ Cardinality(A) \in Nat /\ Cardinality(B) \in Nat
  <2> HIDE DEF A, B
  <2> QED  BY <1>2, <1>3, FS_Subset, FS_CardinalityType, SMTT(30)
<1>6. Cardinality(A) < batch_size
  <2> HIDE DEF A, B
  <2> QED  BY <1>4, <1>5, OutboxAssumption, SMTT(30)
<1> QED  BY <1>6 DEF Oldest

\* Through the snapshot and every event handled, a pass accounts for the
\* predecessors of what it still holds.
LEMMA BatchOrderedStep ==
    ASSUME IInv, [Next]_vars
    PROVE  BatchOrdered'
<1>0. TypeInv /\ DenseSequences
  BY DEF IInv
<1>1. /\ \A i : Sent(i) => Sent(i)'
      /\ parked \subseteq parked'
      /\ RowsSame \/ RowAdded
  BY <1>0, LogStep, TableStep, SMTT(30)
<1>2. SUFFICES ASSUME NEW r \in Relays, NEW s \in relay'[r].batch, NEW i \in DOMAIN events',
                      Earlier(i, s.id)'
               PROVE  \/ i \in parked' \/ Sent(i)'
                      \/ \E o \in relay'[r].batch : o.id = i
                      \/ events'[s.id].agg \in relay'[r].blocked
  BY DEF BatchOrdered, Sent
<1>3. ASSUME s \in relay[r].batch
      PROVE  /\ i \in DOMAIN events /\ Earlier(i, s.id) /\ events'[s.id].agg = events[s.id].agg
             /\ \/ i \in parked \/ Sent(i)
                \/ \E o \in relay[r].batch : o.id = i
                \/ events[s.id].agg \in relay[r].blocked
  <2>1. s.id \in DOMAIN events
    BY <1>0, <1>3, SMTT(30) DEF TypeInv, IdsInTable
  <2>2. i \in DOMAIN events /\ Earlier(i, s.id) /\ events'[s.id].agg = events[s.id].agg
    BY <1>0, <1>1, <1>2, <2>1, OrderKept, SMTT(30)
  <2> QED  BY <1>3, <2>2, SMTT(30) DEF IInv, BatchOrdered
<1>4. CASE relay'[r] = relay[r]
  BY <1>1, <1>3, <1>4, SMTT(30)
<1>5. CASE PollStart(r)
  <2>1. UNCHANGED <<events, log, parked>>
    BY <1>5, SMTT(30) DEF PollStart
  <2>2. relay'[r].batch = {[id |-> k, attempts |-> events[k].attempts] : k \in Oldest}
    BY <1>0, <1>5 DEF PollStart, TypeInv, TypeOK
  <2>3. s.id \in Oldest
    BY <2>2, SMTT(30)
  <2>4. s.id \in DOMAIN events /\ i \in DOMAIN events /\ Earlier(i, s.id)
    BY <1>2, <2>1, <2>3, SMTT(30) DEF Oldest, Pending, Earlier, SameAggregate
  <2>5. events[i].status \in EventStatus
    <3>1. events[i] \in OutboxEvent
      BY <1>0, <2>4, SMTT(30) DEF TypeInv, TypeOK
    <3> QED  BY <3>1 DEF OutboxEvent
  <2>6. CASE events[i].status = "Pending"
    <3>1. i \in Oldest
      BY <1>0, <2>3, <2>4, <2>6, BeforeOrder, OldestIsPrefix, SMTT(30) DEF Pending
    <3>2. PICK o \in relay'[r].batch : o = [id |-> i, attempts |-> events[i].attempts]
      BY <2>2, <3>1, ZenonT(60)
    <3>3. o.id = i
      BY <3>2
    <3> QED  BY <3>3, SMTT(30)
  <2>7. CASE events[i].status = "Published"
    BY <1>1, <2>4, <2>7, SMTT(30) DEF IInv, PublishedWasSent, Sent
  <2>8. CASE events[i].status = "Quarantined"
    BY <1>1, <2>4, <2>8, SMTT(30) DEF IInv, QuarantinedParked
  <2> QED  BY <2>5, <2>6, <2>7, <2>8, SMTT(30) DEF EventStatus
<1>6. CASE relay'[r] = IdlePass
  BY <1>2, <1>6, SMTT(30) DEF IdlePass
<1>7. ASSUME NEW o \in relay[r].batch, EventStep(r, o)
      PROVE  \/ i \in parked' \/ Sent(i)'
             \/ \E k \in relay'[r].batch : k.id = i
             \/ events'[s.id].agg \in relay'[r].blocked
  <2>1. /\ relay'[r].batch \subseteq relay[r].batch
        /\ relay[r].blocked \subseteq relay'[r].blocked
        /\ \A k \in relay[r].batch :
              \/ k \in relay'[r].batch
              \/ k = o /\ (o.id \in parked' \/ Sent(o.id) \/ events[o.id].agg \in relay'[r].blocked)
    BY <1>7, HandledEvent, SMTT(30)
  <2>2. /\ i \in DOMAIN events /\ Earlier(i, s.id) /\ events'[s.id].agg = events[s.id].agg
        /\ \/ i \in parked \/ Sent(i)
           \/ \E k \in relay[r].batch : k.id = i
           \/ events[s.id].agg \in relay[r].blocked
    BY <1>3, <2>1, SMTT(30)
  <2>3. ASSUME NEW k \in relay[r].batch, k.id = i, k \notin relay'[r].batch
        PROVE  i \in parked' \/ Sent(i)' \/ events'[s.id].agg \in relay'[r].blocked
    <3>1. events[i].agg = events[s.id].agg
      BY <2>2, SMTT(30) DEF Earlier, SameAggregate
    <3> QED  BY <1>1, <2>1, <2>2, <2>3, <3>1, SMTT(30)
  <2> QED  BY <1>1, <2>1, <2>2, <2>3, SMTT(30)
<1> QED  BY <1>0, <1>4, <1>5, <1>6, <1>7, RelayStep, SMTT(30)

\* A publish finds every predecessor parked or sent.
LEMMA InSequenceStep ==
    ASSUME IInv, [Next]_vars
    PROVE  PublishedInSequence'
<1>0. TypeInv /\ DenseSequences /\ PublishedInSequence
  BY DEF IInv
<1>1. RowsSame \/ RowAdded
  BY <1>0, TableStep, SMTT(30)
<1>2. /\ \/ log' = log
         \/ \E r \in Relays : \E s \in relay[r].batch :
               CanPublish(r, s) /\ log' = Append(log, s.id) /\ s.id \in DOMAIN events
               /\ UNCHANGED <<events, parked>>
      /\ Len(log) \in Nat /\ DOMAIN log = 1..Len(log)
      /\ \A p \in DOMAIN log : p \in DOMAIN log' /\ log'[p] = log[p]
      /\ parked \subseteq parked'
  BY <1>0, LogStep, SMTT(30)
<1>3. ASSUME NEW p \in DOMAIN log, NEW i \in DOMAIN events', Earlier(i, log[p])'
      PROVE  i \in parked' \/ SentBefore(i, p)'
  <2>1. log'[p] = log[p] /\ log[p] \in DOMAIN events
    BY <1>0, <1>2 DEF TypeInv, IdsInTable
  <2>2. PICK k \in DOMAIN events : k = log[p]
    BY <2>1
  <2>3. Earlier(i, k)'
    BY <1>3, <2>1, <2>2, SMTT(30) DEF Earlier, SameAggregate
  <2>4. i \in DOMAIN events /\ Earlier(i, k)
    BY <1>0, <1>1, <2>3, OrderKept, SMTT(30)
  <2>5. i \in parked \/ SentBefore(i, p)
    BY <1>0, <2>2, <2>4, SMTT(30) DEF PublishedInSequence
  <2>6. \A q \in 1..(p - 1) : q \in DOMAIN log
    BY <1>2
  <2> QED  BY <1>2, <2>5, <2>6, SMTT(30) DEF SentBefore
<1>4. CASE log' = log
  <2>1. DOMAIN log' = DOMAIN log
    BY <1>4, SMTT(30)
  <2> QED  BY <1>3, <2>1 DEF PublishedInSequence
<1>5. ASSUME NEW r \in Relays, NEW s \in relay[r].batch, CanPublish(r, s),
             log' = Append(log, s.id), s.id \in DOMAIN events, UNCHANGED <<events, parked>>
      PROVE  PublishedInSequence'
  <2> DEFINE n == Len(log) + 1
  <2>1. s.id \in Nat /\ log \in Seq(Nat)
    BY <1>0, <1>5 DEF TypeInv, TypeOK
  <2>2. DOMAIN log' = 1..n /\ log'[n] = s.id
    BY <1>5, <2>1, AppendOne, SMTT(30)
  <2>3. \A p \in DOMAIN log' : p \in DOMAIN log \/ p = n
    BY <1>2, <2>2, SMTT(30)
  <2>4. ASSUME NEW p, p = n, NEW i \in DOMAIN events', Earlier(i, log[p])'
        PROVE  i \in parked' \/ SentBefore(i, p)'
    <3>1. i \in DOMAIN events /\ Earlier(i, s.id)
      BY <1>5, <2>2, <2>4, SMTT(30) DEF Earlier, SameAggregate
    <3>2. Before(i, s.id) /\ i # s.id /\ ~Before(s.id, i)
      BY <1>0, <1>5, <3>1, BeforeOrder, SMTT(30)
    <3>3. ~\E o \in relay[r].batch : o.id = i
      BY <1>5, <3>2, SMTT(30) DEF CanPublish, IsNext
    <3>4. i \in parked \/ Sent(i)
      BY <1>5, <3>1, <3>3, SMTT(30) DEF CanPublish, IInv, BatchOrdered
    <3>5. ASSUME NEW q \in DOMAIN log, log[q] = i PROVE SentBefore(i, p)'
      <4>1. q \in 1..(p - 1) /\ log'[q] = i
        BY <1>2, <2>4, <3>5
      <4> QED  BY <4>1, SMTT(30) DEF SentBefore
    <3> QED  BY <1>5, <3>4, <3>5, SMTT(30) DEF Sent
  <2> QED  BY <1>3, <2>3, <2>4, SMTT(30) DEF PublishedInSequence
<1> QED  BY <1>2, <1>4, <1>5

\* The table is empty, and no transaction or relay pass has begun.
LEMMA InvInit == Init => IInv
<1>1. ASSUME Init PROVE TypeInv
  <2>1. txs \in [Txs -> OutboxTx] /\ relay \in [Relays -> RelayPass]
    BY <1>1 DEF Init, OutboxTx, RelayPass, IdlePass
  <2> QED  BY <1>1, <2>1, OutboxAssumption, SMTT(30) DEF Init, TypeInv, TypeOK, IdsInTable,
              IdlePass
<1>2. ASSUME Init PROVE DOMAIN events = {} /\ DOMAIN log = {} /\ \A r \in Relays : relay[r].batch = {}
  BY <1>2, SMTT(30) DEF Init, IdlePass
<1>3. ASSUME Init
      PROVE  DenseSequences /\ UniqueKeys /\ PublishedWasSent /\ QuarantinedParked /\ SentInLog
             /\ BatchOrdered /\ PublishedInSequence
  BY <1>2, <1>3
  DEF DenseSequences, UniqueKeys, PublishedWasSent, QuarantinedParked, SentInLog, BatchOrdered,
      PublishedInSequence
<1> QED  BY <1>1, <1>3, SMTT(30) DEF IInv

\* Every step of a writer, of a relay and of the clock keeps the invariant.
LEMMA InvStep == IInv /\ [Next]_vars => IInv'
<1> SUFFICES ASSUME IInv, [Next]_vars PROVE IInv'
  OBVIOUS
<1>0. TypeInv /\ DenseSequences /\ UniqueKeys
  BY DEF IInv
<1>1. RowsSame \/ RowAdded
  BY <1>0, TableStep
<1>2. TypeInv' /\ DenseSequences' /\ UniqueKeys'
  BY <1>0, <1>1, TypeStep, DenseStep, KeysStep, SMTT(30)
<1> QED  BY <1>2, StatusStep, SentInLogStep, BatchOrderedStep, InSequenceStep, SMTT(30) DEF IInv

\* The invariant holds in every reachable state, for any number of relays,
\* transactions, aggregates, keys, attempts and any batch size.
THEOREM OutboxInvariant == Spec => []IInv
  BY InvInit, InvStep, PTL DEF Spec

\* Every variable keeps its type, and commit holds the mutex while it runs.
THEOREM OutboxTyped == Spec => []TypeOK
<1>1. IInv => TypeOK
  BY DEF IInv, TypeInv
<1> QED  BY <1>1, OutboxInvariant, PTL

\* OutboxTx::commit numbers each aggregate's events 1, 2, 3...
THEOREM OutboxNumbersDense == Spec => []DenseSequences
<1>1. IInv => DenseSequences
  BY DEF IInv
<1> QED  BY <1>1, OutboxInvariant, PTL

\* OutboxTx::commit never stores an idempotency key twice.
THEOREM OutboxKeysUnique == Spec => []UniqueKeys
<1>1. IInv => UniqueKeys
  BY DEF IInv
<1> QED  BY <1>1, OutboxInvariant, PTL

\* No event is lost: poll_once marks published only what the broker took.
THEOREM OutboxPublishedSent == Spec => []PublishedWasSent
<1>1. IInv => PublishedWasSent
  BY DEF IInv
<1> QED  BY <1>1, OutboxInvariant, PTL

\* poll_once delivers an aggregate in sequence order, whatever the number of
\* relays and whatever crashes, failures and requeues happen.
THEOREM OutboxInOrder == Spec => []PublishedInSequence
<1>1. IInv => PublishedInSequence
  BY DEF IInv
<1> QED  BY <1>1, OutboxInvariant, PTL
-----------------------------------------------------------------------------
(* One relay process.                                                       *)

OneRelay == \A q, r \in Relays : q = r

\* What the one relay still holds is pending: nobody else settles rows, and a
\* row is dropped from the batch in the step that settles it.
HeldPending ==
    \A r \in Relays : \A s \in relay[r].batch : events[s.id].status = "Pending"

\* A published row stays published.
StaysPublished ==
    \A i \in DOMAIN events : events[i].status = "Published" => events'[i].status = "Published"

\* A relay that settles the row at hand drops it, and touches no other row.
LEMMA SettledRow ==
    ASSUME OneRelay, IInv, HeldPending, NEW r \in Relays, NEW s \in relay[r].batch,
           MarkPublished(r, s) \/ Quarantine(r, s) \/ RecordFailure(r, s)
    PROVE  HeldPending' /\ StaysPublished
<1>0. /\ TypeInv /\ relay \in [Relays -> RelayPass] /\ s.id \in DOMAIN events
      /\ \A o \in relay[r].batch : o.id \in DOMAIN events
  BY DEF IInv, TypeInv, TypeOK, IdsInTable
<1>1. \A j \in DOMAIN events : j # s.id => events'[j] = events[j]
  BY <1>0 DEF MarkPublished, Quarantine, RecordFailure
<1>2. relay'[r].batch = relay[r].batch \ {s} /\ IsNext(r, s)
  <2>1. relay[r] \in RelayPass
    BY <1>0
  <2> QED  BY <1>0, <2>1 DEF MarkPublished, Quarantine, RecordFailure, RelayPass
<1>3. \A o \in relay'[r].batch : o \in relay[r].batch /\ o.id # s.id
  BY <1>0, <1>2, BeforeOrder DEF IsNext
<1>4. HeldPending'
  BY <1>0, <1>1, <1>3 DEF OneRelay, HeldPending
<1>5. events[s.id].status = "Pending"
  BY DEF HeldPending
<1> QED  BY <1>1, <1>4, <1>5 DEF StaysPublished

\* No step of the writers, the operator or the one relay takes back a
\* published row.
LEMMA FinalStep ==
    ASSUME OneRelay, IInv, HeldPending, [Next]_vars
    PROVE  HeldPending' /\ StaysPublished
<1> DEFINE Goal == HeldPending' /\ StaysPublished
<1>0. /\ TypeInv /\ DenseSequences /\ relay \in [Relays -> RelayPass]
      /\ \A r \in Relays : \A s \in relay[r].batch : s.id \in DOMAIN events
  BY DEF IInv, TypeInv, TypeOK, IdsInTable
<1>1. ASSUME UNCHANGED events, \A r \in Relays : relay'[r].batch \subseteq relay[r].batch PROVE Goal
  BY <1>1 DEF HeldPending, StaysPublished
<1>2. ASSUME UNCHANGED <<events, relay>> PROVE Goal
  BY <1>1, <1>2
<1>3. ASSUME NEW r \in Relays, PollStart(r) PROVE Goal
  <2>1. relay'[r].batch = {[id |-> i, attempts |-> events[i].attempts] : i \in Oldest}
    BY <1>0, <1>3 DEF PollStart
  <2>2. \A s \in relay'[r].batch : events[s.id].status = "Pending"
    <3>1. \A i \in Oldest : events[i].status = "Pending"
      BY Zenon DEF Oldest, Pending
    <3> QED  BY <2>1, <3>1
  <2>3. UNCHANGED events
    BY <1>3 DEF PollStart
  <2> QED  BY <2>2, <2>3 DEF OneRelay, HeldPending, StaysPublished
<1>4. ASSUME NEW r \in Relays, PollEnd(r) \/ Crash(r) PROVE Goal
  <2>1. relay'[r].batch = {} /\ UNCHANGED events
    BY <1>0, <1>4 DEF PollEnd, Crash, IdlePass
  <2> QED  BY <2>1 DEF OneRelay, HeldPending, StaysPublished
<1>5. ASSUME NEW r \in Relays, NEW s \in relay[r].batch, HoldBack(r, s) PROVE Goal
  <2>1. relay'[r].batch \subseteq relay[r].batch /\ UNCHANGED events
    BY <1>0, <1>5 DEF HoldBack, RelayPass
  <2> QED  BY <1>1, <2>1 DEF OneRelay
<1>6. ASSUME NEW r \in Relays, NEW s \in relay[r].batch,
             PublishOk(r, s) \/ \E taken \in BOOLEAN : PublishErr(r, s, taken)
      PROVE  Goal
  <2>1. relay'[r].batch \subseteq relay[r].batch /\ UNCHANGED events
    BY <1>0, <1>6 DEF PublishOk, PublishErr, RelayPass
  <2> QED  BY <1>1, <2>1 DEF OneRelay
<1>7. ASSUME NEW r \in Relays, NEW s \in relay[r].batch,
             MarkPublished(r, s) \/ Quarantine(r, s) \/ RecordFailure(r, s)
      PROVE  Goal
  BY <1>7, SettledRow
<1>8. ASSUME NEW i \in DOMAIN events, Requeue(i) PROVE Goal
  <2>1. /\ events[i].status = "Quarantined" /\ relay' = relay
        /\ \A j \in DOMAIN events : j # i => events'[j] = events[j]
    BY <1>8 DEF Requeue
  <2>2. /\ events[i] \in OutboxEvent
        /\ events'[i] = [events[i] EXCEPT !.status = "Pending", !.attempts = 0]
    BY <1>0, <1>8 DEF Requeue, TypeInv, TypeOK
  <2>3. events'[i].status = "Pending"
    BY <2>2 DEF OutboxEvent
  <2> QED  BY <1>0, <2>1, <2>3 DEF HeldPending, StaysPublished
<1>9. ASSUME NEW t \in Txs, CommitEvent(t) PROVE Goal
  <2>1. relay' = relay
    BY <1>9 DEF CommitEvent
  <2>2. CASE UNCHANGED events
    BY <1>2, <2>1, <2>2
  <2>3. CASE ~UNCHANGED events
    <3>1. Head(txs[t].pending) \in NewEvent /\ txs[t].now \in Nat
      BY <1>0, <1>9 DEF CommitEvent, OutboxTx, TypeInv, TypeOK
    <3>2. RowAdded
      BY <1>9, <2>3, <3>1, SMTT(30) DEF CommitEvent, RowAdded
    <3>3. \A j \in DOMAIN events : events'[j] = events[j]
      BY <1>0, <3>2, NewRow, Zenon
    <3> QED  BY <1>0, <2>1, <3>3 DEF HeldPending, StaysPublished
  <2> QED  BY <2>2, <2>3
<1> HIDE DEF Goal
<1>10. Goal
  BY <1>2, <1>3, <1>4, <1>5, <1>6, <1>7, <1>8, <1>9, ZenonT(60)
  DEF Next, vars, Tick, TxStep, Begin, TxAppend, Rollback, CommitStart, CommitStep,
      CommitEnd, PassStep, EventStep
<1> QED  BY <1>10 DEF Goal

\* With one relay process, a row that poll_once marked published is never
\* pending or quarantined again, through crashes, stale failures and requeues.
THEOREM OutboxFinal == OneRelay /\ Spec => PublishedIsFinal
<1>1. Init => HeldPending
  BY DEF Init, IdlePass, HeldPending
<1>2. OneRelay /\ IInv /\ HeldPending /\ [Next]_vars => HeldPending' /\ [StaysPublished]_vars
  BY FinalStep
<1>3. OneRelay => OneRelay'
  BY DEF OneRelay
<1> QED  BY <1>1, <1>2, <1>3, OutboxInvariant, PTL DEF Spec, PublishedIsFinal, StaysPublished
=============================================================================
