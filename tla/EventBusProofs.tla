--------------------------- MODULE EventBusProofs ---------------------------
(***************************************************************************)
(* What holds of the event bus for any number of subscribers, publishers   *)
(* and values, and any capacity.                                           *)
(***************************************************************************)
EXTENDS EventBus, TLAPS

\* None stands for nobody, and the publishers are finitely many.
Parties ==
    /\ None \notin Subscribers /\ None \notin Publishers
    /\ IsFiniteSet(Publishers)

\* What the proofs use of that: sets of publishers can be counted.
Counted ==
    /\ None \notin Subscribers /\ None \notin Publishers
    /\ Cardinality({}) = 0
    /\ \A S \in SUBSET Publishers : Cardinality(S) \in Nat
    /\ \A S \in SUBSET Publishers, p \in Publishers :
          p \notin S => Cardinality(S \union {p}) = Cardinality(S) + 1

-----------------------------------------------------------------------------
(* Waking the receiver.                                                     *)

\* A receiver that looked and found nothing, and was not notified since, has
\* nothing to find; one that went to sleep was open, and closing wakes it.
WakeInv ==
    /\ queue = [s \in Subscribers |-> queue[s]]
    /\ rx \in [Subscribers -> {"idle", "armed", "empty", "asleep"}]
    /\ notified \in [Subscribers -> {"no", "one", "all"}]
    /\ \A s \in Subscribers :
          notified[s] = "no" =>
             /\ rx[s] \in {"empty", "asleep"} => queue[s] = <<>>
             /\ rx[s] = "asleep" => s \notin closed

\* A value goes in together with a notify_one.
LEMMA WakeEnqueue ==
    ASSUME WakeInv, NEW s, NEW q, queue' = [queue EXCEPT ![s] = q], notify_one(s),
           UNCHANGED <<rx, closed>>
    PROVE  WakeInv'
<1>1. /\ queue' = [t \in Subscribers |-> queue'[t]]
      /\ \A t \in Subscribers : t # s => queue'[t] = queue[t]
  BY Zenon DEF WakeInv
<1>2. notified' \in [Subscribers -> {"no", "one", "all"}]
  BY Zenon DEF WakeInv, notify_one
<1>3. ASSUME NEW t \in Subscribers, notified'[t] = "no"
      PROVE  notified[t] = "no" /\ (t = s => rx[t] \notin {"empty", "asleep"})
  BY <1>3 DEF WakeInv, notify_one, Listening
<1> QED  BY <1>1, <1>2, <1>3 DEF WakeInv

\* Subscriber::close wakes whoever listens.
LEMMA WakeClose ==
    ASSUME WakeInv, NEW s, CloseSubscriber(s), UNCHANGED <<rx, queue>>
    PROVE  WakeInv'
<1>1. notified' \in [Subscribers -> {"no", "one", "all"}]
  BY Zenon DEF WakeInv, CloseSubscriber, CloseWakes, notify_waiters
<1>2. ASSUME NEW t \in Subscribers, notified'[t] = "no"
      PROVE  notified[t] = "no" /\ (t = s => rx[t] # "asleep")
  BY <1>2 DEF WakeInv, CloseSubscriber, CloseWakes, notify_waiters, Listening
<1>3. closed' = closed \union {s}
  BY DEF CloseSubscriber
<1> QED  BY <1>1, <1>2, <1>3 DEF WakeInv

\* What is taken out of a queue leaves an empty one empty.
LEMMA WakeTake ==
    ASSUME WakeInv, NEW s, NEW q, queue[s] # <<>>, queue' = [queue EXCEPT ![s] = q],
           UNCHANGED <<rx, notified, closed>>
    PROVE  WakeInv'
  BY DEF WakeInv

\* The receiver's own steps back to the start of its loop.
LEMMA WakeIdle ==
    ASSUME WakeInv, NEW s, NEW q, rx' = [rx EXCEPT ![s] = "idle"], notified' = [notified EXCEPT ![s] = "no"],
           queue' = queue \/ queue' = [queue EXCEPT ![s] = q], UNCHANGED closed
    PROVE  WakeInv'
  BY ZenonT(60) DEF WakeInv

\* No step leaves a receiver asleep over a value or a close.
LEMMA WakeStep ==
    ASSUME WakeInv, [Next]_vars
    PROVE  WakeInv'
<1>0. ASSUME UNCHANGED <<rx, notified, queue, closed>>  PROVE WakeInv'
  BY <1>0 DEF WakeInv
<1>1. ASSUME NEW s \in Subscribers, Subscribe(s) \/ Recheck(s)  PROVE WakeInv'
  BY <1>0, <1>1, WakeClose DEF Subscribe, Recheck, channel
<1>2. ASSUME NEW s \in Subscribers, CloseSubscription(s) \/ CloseBusSweep(s)  PROVE WakeInv'
  BY <1>2, WakeClose DEF CloseSubscription, CloseBusSweep, channel
<1>3. ASSUME NEW s \in Subscribers, Insert(s) \/ Remove(s) \/ DropSubscription(s)  PROVE WakeInv'
  BY <1>0, <1>3 DEF Insert, Remove, DropSubscription, channel, receiver
<1>4. ASSUME NEW s \in Subscribers, Arm(s)  PROVE WakeInv'
  BY <1>4 DEF Arm, channel, WakeInv
<1>5. ASSUME NEW s \in Subscribers, Pop(s)  PROVE WakeInv'
  BY <1>5, WakeIdle, Zenon DEF Pop
<1>6. ASSUME NEW s \in Subscribers, FoundEmpty(s)  PROVE WakeInv'
  BY <1>6 DEF FoundEmpty, channel, WakeInv
<1>7. ASSUME NEW s \in Subscribers, ReturnClosed(s) \/ Wake(s) \/ CancelRecv(s)  PROVE WakeInv'
  <2>1. UNCHANGED <<queue, closed>> /\ Disarm(s)
    BY <1>7 DEF ReturnClosed, Wake, CancelRecv, channel
  <2> QED  BY <2>1, WakeIdle, Zenon DEF Disarm
<1>8. ASSUME NEW s \in Subscribers, Sleep(s)  PROVE WakeInv'
  BY <1>8 DEF Sleep, channel, WakeInv
<1>9. CASE CloseBus \/ CloseBusSnapshot \/ CloseBusClear
  BY <1>0, <1>9 DEF CloseBus, CloseBusSnapshot, CloseBusClear, channel, receiver
<1>10. CASE DropBus
  <2>1. /\ closed' = closed \union registered /\ UNCHANGED <<rx, queue>>
        /\ notified' = [s \in Subscribers |->
                          IF s \in registered /\ Listening(s) THEN "all" ELSE notified[s]]
    BY <1>10 DEF DropBus, channel
  <2> QED  BY <2>1 DEF WakeInv, Listening
<1>11. ASSUME NEW p \in Publishers,
              \/ \E policy \in Policies : Publish(p, policy)
              \/ Snapshot(p) \/ GiveUp(p) \/ Abandon(p)
       PROVE  WakeInv'
  BY <1>0, <1>11 DEF Publish, Snapshot, GiveUp, Abandon, channel, receiver
<1>12. ASSUME NEW p \in Publishers, Enqueue(p)  PROVE WakeInv'
  BY <1>0, <1>12, WakeEnqueue, Zenon DEF Enqueue
<1>13. ASSUME NEW p \in Publishers, ReplaceFinish(p)  PROVE WakeInv'
  BY <1>0, <1>13, WakeEnqueue DEF ReplaceFinish
<1>14. ASSUME NEW p \in Publishers, NEW s \in Subscribers, PushClosed(p, s) \/ AcquirePermit(p, s)
       PROVE  WakeInv'
  BY <1>0, <1>14 DEF PushClosed, AcquirePermit, channel, receiver
<1>15. ASSUME NEW p \in Publishers, NEW s \in Subscribers, ReplaceOldest(p, s)  PROVE WakeInv'
  <2>1. UNCHANGED <<rx, notified, closed>>
    BY <1>15 DEF ReplaceOldest, receiver
  <2>2. CASE Len(queue[s]) >= Capacity
    <3>1. queue[s] # <<>>
      BY <2>2, BusAssumption
    <3>2. queue' = [queue EXCEPT ![s] = Tail(queue[s])]
      BY <1>15, <2>2 DEF ReplaceOldest
    <3> QED  BY <2>1, <3>1, <3>2, WakeTake, Zenon
  <2>3. CASE ~(Len(queue[s]) >= Capacity)
    BY <1>0, <2>1, <1>15, <2>3 DEF ReplaceOldest
  <2> QED  BY <2>2, <2>3
<1>16. CASE UNCHANGED vars
  BY <1>0, <1>16 DEF vars
<1> QED  BY <1>1, <1>2, <1>3, <1>4, <1>5, <1>6, <1>7, <1>8, <1>9, <1>10, <1>11, <1>12,
            <1>13, <1>14, <1>15,
            <1>16 DEF Next

\* No value and no close slips past a receiver that goes to sleep.
THEOREM BusNoLostWakeup == Spec => []NoLostWakeup
<1>1. Init => WakeInv
  BY DEF Init, WakeInv
<1>2. WakeInv /\ [Next]_vars => WakeInv'
  BY WakeStep
<1>3. WakeInv => NoLostWakeup
  BY DEF WakeInv, NoLostWakeup
<1> QED  BY <1>1, <1>2, <1>3, PTL DEF Spec

-----------------------------------------------------------------------------
(* Closing the bus.                                                         *)

\* While the bus is open, or closing and not yet swept, an open subscription
\* is registered; during the sweep it is still to be swept.
QuietInv ==
    /\ bus \in {"open", "closing", "sweeping", "closed", "gone"}
    /\ phase \in [Subscribers -> {"none", "insert", "recheck", "live", "remove", "dropped"}]
    /\ \A s \in Subscribers :
          /\ phase[s] = "remove" => s \in closed
          /\ bus \in {"open", "closing"} /\ phase[s] \in {"recheck", "live"} =>
                s \in closed \/ s \in registered
          /\ bus = "sweeping" /\ phase[s] = "live" => s \in closed \/ s \in sweep
          /\ bus = "closed" /\ phase[s] = "live" => s \in closed

\* No step leaves a subscription open on a bus that is closed.
LEMMA QuietStep ==
    ASSUME QuietInv, [Next]_vars
    PROVE  QuietInv'
<1>0. ASSUME UNCHANGED subscription, closed \subseteq closed'  PROVE QuietInv'
  BY <1>0 DEF subscription, QuietInv
<1>1. ASSUME NEW s \in Subscribers, Subscribe(s)  PROVE QuietInv'
  BY <1>1 DEF Subscribe, CloseSubscriber, QuietInv
<1>2. ASSUME NEW s \in Subscribers, Recheck(s)  PROVE QuietInv'
  BY <1>2 DEF Recheck, RecheckCloses, CloseSubscriber, QuietInv
<1>3. ASSUME NEW s \in Subscribers, CloseSubscription(s)  PROVE QuietInv'
  BY <1>3 DEF CloseSubscription, CloseSubscriber, QuietInv
<1>4. ASSUME NEW s \in Subscribers, CloseBusSweep(s)  PROVE QuietInv'
  BY <1>4 DEF CloseBusSweep, CloseSubscriber, QuietInv
<1>5. ASSUME NEW s \in Subscribers, Insert(s)  PROVE QuietInv'
  BY <1>5 DEF Insert, QuietInv
<1>6. ASSUME NEW s \in Subscribers, Remove(s)  PROVE QuietInv'
  BY <1>6 DEF Remove, QuietInv
<1>7. ASSUME NEW s \in Subscribers, DropSubscription(s)  PROVE QuietInv'
  BY <1>7 DEF DropSubscription, QuietInv
<1>8. ASSUME NEW s \in Subscribers,
             Arm(s) \/ Pop(s) \/ FoundEmpty(s) \/ ReturnClosed(s) \/ Sleep(s) \/ Wake(s) \/ CancelRecv(s)
      PROVE  QuietInv'
  BY <1>0, <1>8 DEF Arm, Pop, FoundEmpty, ReturnClosed, Sleep, Wake, CancelRecv
<1>9. CASE CloseBus
  BY <1>9 DEF CloseBus, QuietInv
<1>10. CASE CloseBusSnapshot
  BY <1>10 DEF CloseBusSnapshot, QuietInv
<1>11. CASE CloseBusClear
  BY <1>11 DEF CloseBusClear, QuietInv
<1>12. CASE DropBus
  BY <1>12 DEF DropBus, QuietInv
<1>13. ASSUME NEW p \in Publishers,
              \/ \E policy \in Policies : Publish(p, policy)
              \/ Snapshot(p) \/ GiveUp(p) \/ Abandon(p) \/ Enqueue(p) \/ ReplaceFinish(p)
              \/ \E s \in Subscribers : PushClosed(p, s) \/ AcquirePermit(p, s) \/ ReplaceOldest(p, s)
       PROVE  QuietInv'
  <2>1. UNCHANGED subscription /\ closed' = closed
    BY <1>13, Zenon DEF Publish, Snapshot, GiveUp, Abandon, Enqueue, ReplaceFinish,
       PushClosed, AcquirePermit,
                 ReplaceOldest
  <2> QED  BY <1>0, <2>1
<1>14. CASE UNCHANGED vars
  BY <1>0, <1>14 DEF vars, subscription
<1> QED  BY <1>1, <1>2, <1>3, <1>4, <1>5, <1>6, <1>7, <1>8, <1>9, <1>10, <1>11, <1>12,
            <1>13, <1>14 DEF Next

\* Once close() has returned no subscription is left open.
THEOREM BusClosedIsQuiet == Spec => []ClosedBusIsQuiet
<1>1. Init => QuietInv
  BY DEF Init, QuietInv
<1>2. QuietInv /\ [Next]_vars => QuietInv'
  BY QuietStep
<1>3. QuietInv => ClosedBusIsQuiet
  BY DEF QuietInv, ClosedBusIsQuiet
<1> QED  BY <1>1, <1>2, <1>3, PTL DEF Spec

-----------------------------------------------------------------------------
(* Permits.                                                                 *)

Value == Publishers \X Nat

Call ==
    [pc : {"snapshot", "push", "waiting", "granted", "assigned", "replace"}, policy : Policies,
     at : Subscribers \union {None}, value : Value, todo : SUBSET Subscribers]

\* A publish in progress: between its turns it is at nobody, and who it is at
\* is no longer on its list.
CallOK(r) ==
    /\ r \in Call \union {IdlePub}
    /\ r.pc \in {"waiting", "granted", "assigned", "replace"} => r.at \in Subscribers /\ r.at \notin r.todo
    /\ r.pc \in {"snapshot", "push"} => r.at = None

ChannelTypeOK ==
    /\ registered \subseteq Subscribers
    /\ queue \in [Subscribers -> Seq(Value)]
    /\ received \in [Subscribers -> Seq(Value)]
    /\ permits \in [Subscribers -> Nat]
    /\ waiters \in [Subscribers -> Seq(Publishers)]
    /\ pub \in [Publishers -> Call \union {IdlePub}]
    /\ \A p \in Publishers : CallOK(pub[p])
    /\ count \in Nat

Members(line) == {line[i] : i \in 1..Len(line)}
Distinct(line) == \A i, j \in 1..Len(line) : line[i] = line[j] => i = j

\* Those in line for a permit of s are the publishers that wait at s.
LineOK(calls, lines) ==
    \A s \in Subscribers :
       /\ Distinct(lines[s])
       /\ \A p \in Publishers :
             p \in Members(lines[s]) <=> calls[p].pc = "waiting" /\ calls[p].at = s

BusInv == ChannelTypeOK /\ LineOK(pub, waiters) /\ PermitsAccount

Holds(r, s) == r.at = s /\ r.pc \in {"granted", "assigned"}
Hold(calls, s) == {p \in Publishers : Holds(calls[p], s)}
Share(r, s) == IF Holds(r, s) THEN 1 ELSE 0
Slot(t, s) == IF t = s THEN 1 ELSE 0

\* One publisher more at the end of the line.
LEMMA Joined ==
    ASSUME NEW line \in Seq(Publishers), Distinct(line), NEW p \in Publishers, p \notin Members(line)
    PROVE  /\ Append(line, p) \in Seq(Publishers) /\ Distinct(Append(line, p))
           /\ Members(Append(line, p)) = Members(line) \union {p}
<1> DEFINE n == Len(line)
           long == Append(line, p)
<1>1. /\ long \in Seq(Publishers) /\ n \in Nat /\ Len(long) = n + 1 /\ long[n + 1] = p
      /\ \A i \in 1..n : long[i] = line[i]
  OBVIOUS
<1> HIDE DEF long
<1>2. Distinct(long)
  BY <1>1 DEF Distinct, Members
<1>3. Members(long) = Members(line) \union {p}
  <2>1. \A i \in 1..(n + 1) : i \in 1..n \/ i = n + 1
    BY <1>1
  <2>2. 1..n \subseteq 1..(n + 1) /\ n + 1 \in 1..(n + 1)
    BY <1>1
  <2> QED  BY <1>1, <2>1, <2>2 DEF Members
<1> QED  BY <1>1, <1>2, <1>3 DEF long

\* The line moves up.
LEMMA Advanced ==
    ASSUME NEW line \in Seq(Publishers), Distinct(line), line # <<>>
    PROVE  /\ Tail(line) \in Seq(Publishers) /\ Distinct(Tail(line))
           /\ Head(line) \in Publishers /\ Head(line) \in Members(line)
           /\ Members(Tail(line)) = Members(line) \ {Head(line)}
<1> DEFINE rest == Tail(line)
<1>1. /\ rest \in Seq(Publishers) /\ Head(line) \in Publishers /\ Head(line) = line[1]
      /\ Len(line) \in Nat \ {0} /\ Len(rest) = Len(line) - 1
      /\ \A i \in 1..Len(rest) : rest[i] = line[i + 1]
  OBVIOUS
<1> HIDE DEF rest
<1>2. Distinct(rest)
  <2> SUFFICES ASSUME NEW i \in 1..Len(rest), NEW j \in 1..Len(rest), rest[i] = rest[j]  PROVE i = j
    BY DEF Distinct
  <2>1. i + 1 \in 1..Len(line) /\ j + 1 \in 1..Len(line) /\ line[i + 1] = line[j + 1]
    BY <1>1
  <2>2. i + 1 = j + 1
    BY <2>1 DEF Distinct
  <2> QED  BY <2>2
<1>3. \A i \in 1..Len(line) : i = 1 \/ (i - 1 \in 1..Len(rest) /\ rest[i - 1] = line[i])
  BY <1>1
<1>4. \A i \in 1..Len(rest) : i + 1 \in 1..Len(line) /\ i + 1 # 1
  BY <1>1
<1>5. 1 \in 1..Len(line)
  BY <1>1
<1>6. \A i \in 1..Len(rest) : rest[i] # Head(line)
  BY <1>1, <1>4, <1>5 DEF Distinct
<1>7. Members(rest) = Members(line) \ {Head(line)}
  BY <1>1, <1>3, <1>4, <1>6, SMTT(30) DEF Members
<1> QED  BY <1>1, <1>2, <1>5, <1>7, Zenon DEF rest, Members

\* A publisher steps out of the line.
LEMMA SteppedOut ==
    ASSUME waiters \in [Subscribers -> Seq(Publishers)], NEW s \in Subscribers, Distinct(waiters[s]),
           NEW p \in Members(waiters[s])
    PROVE  /\ WithoutWaiter(p, s) \in Seq(Publishers) /\ Distinct(WithoutWaiter(p, s))
           /\ Members(WithoutWaiter(p, s)) = Members(waiters[s]) \ {p}
<1> DEFINE line == waiters[s]
           n == Len(line)
           place == CHOOSE i \in 1..n : line[i] = p
           rest == [i \in 1..(n - 1) |-> IF i < place THEN line[i] ELSE line[i + 1]]
<1>1. line \in Seq(Publishers) /\ n \in Nat /\ \A i \in 1..n : line[i] \in Publishers
  OBVIOUS
<1>2. \E i \in 1..n : line[i] = p
  BY DEF Members
<1>3. place \in 1..n /\ line[place] = p
  BY <1>2
<1>4. WithoutWaiter(p, s) = rest
  BY DEF WithoutWaiter
<1>5. \A i, j \in 1..n : line[i] = line[j] => i = j
  BY DEF Distinct
<1>6. Members(line) = {line[i] : i \in 1..n}
  BY DEF Members
<1> HIDE DEF line, n, place
<1>7. n - 1 \in Nat /\ \A i \in 1..(n - 1) : i \in 1..n /\ i + 1 \in 1..n /\ i \in Int
  BY <1>1, <1>3
<1>8. rest \in Seq(Publishers) /\ Len(rest) = n - 1
  <2>1. rest \in [1..(n - 1) -> Publishers]
    BY <1>1, <1>7
  <2> HIDE DEF rest
  <2> QED  BY <1>7, <2>1
<1>9. \A i \in 1..(n - 1) : rest[i] = IF i < place THEN line[i] ELSE line[i + 1]
  OBVIOUS
<1> HIDE DEF rest
<1>10. Distinct(rest)
  <2> SUFFICES ASSUME NEW i \in 1..(n - 1), NEW j \in 1..(n - 1), rest[i] = rest[j]  PROVE i = j
    BY <1>8 DEF Distinct
  <2>1. CASE i < place /\ j < place
    BY <2>1, <1>5, <1>7, <1>9
  <2>2. CASE i < place /\ ~(j < place)
    <3>1. i = j + 1
      BY <2>2, <1>5, <1>7, <1>9
    <3> QED  BY <3>1, <2>2, <1>3, <1>7
  <2>3. CASE ~(i < place) /\ j < place
    <3>1. i + 1 = j
      BY <2>3, <1>5, <1>7, <1>9
    <3> QED  BY <3>1, <2>3, <1>3, <1>7
  <2>4. CASE ~(i < place) /\ ~(j < place)
    <3>1. i + 1 = j + 1
      BY <2>4, <1>5, <1>7, <1>9
    <3> QED  BY <3>1, <1>7
  <2> QED  BY <2>1, <2>2, <2>3, <2>4
<1>11. ASSUME NEW i \in 1..(n - 1)  PROVE rest[i] \in Members(line) \ {p}
  <2>1. CASE i < place
    BY <2>1, <1>3, <1>5, <1>6, <1>7, <1>9
  <2>2. CASE ~(i < place)
    <3>1. i + 1 # place
      BY <2>2, <1>3, <1>7
    <3> QED  BY <2>2, <3>1, <1>3, <1>5, <1>6, <1>7, <1>9
  <2> QED  BY <2>1, <2>2
<1>12. ASSUME NEW i \in 1..n, line[i] # p  PROVE \E j \in 1..(n - 1) : rest[j] = line[i]
  <2>1. CASE i < place
    <3>1. i \in 1..(n - 1)
      BY <2>1, <1>1, <1>3
    <3> QED  BY <2>1, <3>1, <1>9
  <2>2. CASE ~(i < place)
    <3>1. i - 1 \in 1..(n - 1) /\ ~(i - 1 < place) /\ i - 1 + 1 = i
      BY <2>2, <1>1, <1>3, <1>12
    <3>2. rest[i - 1] = line[i]
      BY <3>1, <1>9
    <3> QED  BY <3>1, <3>2
  <2> QED  BY <2>1, <2>2
<1>13. Members(rest) = Members(line) \ {p}
  <2>1. Members(rest) = {rest[i] : i \in 1..(n - 1)}
    BY <1>8 DEF Members
  <2> QED  BY <2>1, <1>6, <1>11, <1>12
<1> QED  BY <1>4, <1>8, <1>10, <1>13 DEF line

\* One publisher's step changes the number of permits held at s by its own.
LEMMA HoldCount ==
    ASSUME Counted, NEW calls, NEW p \in Publishers, NEW after,
           \A q \in Publishers : q # p => after[q] = calls[q], NEW s
    PROVE  /\ Cardinality(Hold(calls, s)) \in Nat /\ Cardinality(Hold(after, s)) \in Nat
           /\ Cardinality(Hold(after, s)) + Share(calls[p], s) =
              Cardinality(Hold(calls, s)) + Share(after[p], s)
<1> DEFINE A == Hold(calls, s)
           B == Hold(after, s)
           R == {q \in Publishers \ {p} : Holds(calls[q], s)}
<1>1. R \subseteq Publishers
  OBVIOUS
<1>2. p \notin R
  OBVIOUS
<1>3. A = IF Holds(calls[p], s) THEN R \union {p} ELSE R
  BY DEF Hold
<1>4. B = IF Holds(after[p], s) THEN R \union {p} ELSE R
  BY DEF Hold
<1> HIDE DEF R, A, B
<1>5. Cardinality(R) \in Nat /\ Cardinality(R \union {p}) = Cardinality(R) + 1
  BY <1>1, <1>2 DEF Counted
<1>6. Cardinality(A) = Cardinality(R) + Share(calls[p], s)
  BY <1>3, <1>5 DEF Share, Slot
<1>7. Cardinality(B) = Cardinality(R) + Share(after[p], s)
  BY <1>4, <1>5 DEF Share, Slot
<1>8. Share(calls[p], s) \in Nat /\ Share(after[p], s) \in Nat
  BY DEF Share, Slot
<1>9. /\ Cardinality(A) \in Nat /\ Cardinality(B) \in Nat
      /\ Cardinality(B) + Share(calls[p], s) = Cardinality(A) + Share(after[p], s)
  <2> HIDE DEF Share, Slot
  <2> QED  BY <1>5, <1>6, <1>7, <1>8
<1> QED  BY <1>9 DEF A, B

\* publish's loop goes on or ends.
LEMMA TurnFacts ==
    ASSUME Counted, NEW r \in Call
    PROVE  CallOK(Turn(r)) /\ Turn(r).pc \in {"idle", "push"} /\ (Turn(r).pc = "push" => Turn(r) = [r EXCEPT !.pc = "push", !.at = None])
  BY Zenon DEF Turn, Call, CallOK, IdlePub, Counted

\* publish turns to subscriber s.
LEMMA EnteredFacts ==
    ASSUME Counted, ChannelTypeOK, NEW p \in Publishers, NEW s \in Subscribers, Take(p, s),
           NEW pc \in {"push", "waiting", "granted", "replace"}
    PROVE  /\ pub[p] \in Call /\ Entered(p, s, pc) \in Call
           /\ Entered(p, s, pc).pc = pc /\ Entered(p, s, pc).at = s
           /\ Entered(p, s, pc).todo = pub[p].todo \ {s}
           /\ Entered(p, s, pc).value = pub[p].value
           /\ pc # "push" => CallOK(Entered(p, s, pc))
<1>1. pub[p] \in Call
  BY DEF ChannelTypeOK, Take, IdlePub
<1>2. Entered(p, s, pc) \in Call
  BY <1>1, Zenon DEF Entered, Call
<1> QED  BY <1>1, <1>2 DEF Entered, Call, CallOK

\* A released permit is available again, or held by the first in line.
LEMMA AddPermitFacts ==
    ASSUME Counted, ChannelTypeOK, NEW s \in Subscribers,
           NEW after \in [Publishers -> Call \union {IdlePub}], \A p \in Publishers : CallOK(after[p]),
           LineOK(after, waiters), AddPermit(s, after)
    PROVE  /\ permits' \in [Subscribers -> Nat]
           /\ waiters' \in [Subscribers -> Seq(Publishers)]
           /\ pub' \in [Publishers -> Call \union {IdlePub}]
           /\ \A p \in Publishers : CallOK(pub'[p])
           /\ LineOK(pub', waiters')
           /\ \A t \in Subscribers :
                permits'[t] + Cardinality(Hold(pub', t)) =
                permits[t] + Cardinality(Hold(after, t)) + Slot(t, s)
           /\ \A p \in Publishers :
                \/ pub'[p] = after[p]
                \/ after[p].pc = "waiting" /\ pub'[p] = [after[p] EXCEPT !.pc = "assigned"]
<1> USE DEF ChannelTypeOK
<1>1. CASE waiters[s] = <<>>
  <2>1. permits' = [permits EXCEPT ![s] = permits[s] + 1] /\ waiters' = waiters /\ pub' = after
    BY <1>1 DEF AddPermit
  <2>2. ASSUME NEW t \in Subscribers
        PROVE  permits'[t] + Cardinality(Hold(pub', t)) =
               permits[t] + Cardinality(Hold(after, t)) + Slot(t, s)
    <3>1. Cardinality(Hold(after, t)) \in Nat
      <4>1. PICK c : c = Cardinality(Hold(after, t))
        OBVIOUS
      <4>2. Hold(after, t) \subseteq Publishers
        BY DEF Hold
      <4> QED  BY <4>2 DEF Counted
    <3>2. pub' = after /\ permits'[t] = permits[t] + Slot(t, s) /\ permits[t] \in Nat
      BY <2>1 DEF Share, Slot
    <3>3. Slot(t, s) \in Nat
      BY DEF Share, Slot
    <3> QED  BY <3>1, <3>2, <3>3
  <2> QED  BY <2>1, <2>2
<1>2. CASE waiters[s] # <<>>
  <2> DEFINE h == Head(waiters[s])
             r == [after[h] EXCEPT !.pc = "assigned"]
  <2>1. /\ pub' = [after EXCEPT ![h] = r]
        /\ waiters' = [waiters EXCEPT ![s] = Tail(waiters[s])]
        /\ permits' = permits
    BY <1>2 DEF AddPermit
  <2>2. /\ waiters[s] \in Seq(Publishers) /\ Distinct(waiters[s])
        /\ Tail(waiters[s]) \in Seq(Publishers) /\ Distinct(Tail(waiters[s]))
        /\ h \in Publishers /\ h \in Members(waiters[s])
        /\ Members(Tail(waiters[s])) = Members(waiters[s]) \ {h}
    BY <1>2, Advanced DEF LineOK
  <2> HIDE DEF h
  <2>3. after[h].pc = "waiting" /\ after[h].at = s /\ CallOK(after[h])
    BY <2>2 DEF LineOK
  <2>4. after[h] \in Call
    BY <2>3 DEF CallOK, IdlePub
  <2>5. r \in Call /\ CallOK(r) /\ r.pc = "assigned" /\ r.at = s
    BY <2>3, <2>4, Zenon DEF Call, CallOK
  <2>6. /\ pub' \in [Publishers -> Call \union {IdlePub}]
        /\ pub'[h] = r /\ \A p \in Publishers : p # h => pub'[p] = after[p]
    BY <2>1, <2>2, <2>5
  <2> HIDE DEF r
  <2>7. ASSUME NEW t \in Subscribers
        PROVE  permits'[t] + Cardinality(Hold(pub', t)) =
               permits[t] + Cardinality(Hold(after, t)) + Slot(t, s)
    <3>1. /\ Cardinality(Hold(after, t)) \in Nat /\ Cardinality(Hold(pub', t)) \in Nat
          /\ Cardinality(Hold(pub', t)) + Share(after[h], t) =
             Cardinality(Hold(after, t)) + Share(pub'[h], t)
      <4>1. h \in Publishers /\ \A q \in Publishers : q # h => pub'[q] = after[q]
        BY <2>2, <2>6
      <4> QED  BY ONLY Counted, <4>1, HoldCount
    <3>2. Share(after[h], t) = 0 /\ Share(pub'[h], t) = Slot(t, s)
      BY <2>3, <2>5, <2>6 DEF Share, Slot, Holds
    <3>3. Slot(t, s) \in Nat /\ permits[t] \in Nat /\ permits'[t] = permits[t]
      BY <2>1 DEF Share, Slot
    <3> QED  BY <3>1, <3>2, <3>3
  <2>8. waiters' \in [Subscribers -> Seq(Publishers)]
    BY <2>1, <2>2
  <2>9. LineOK(pub', waiters')
    <3> SUFFICES ASSUME NEW t \in Subscribers
                 PROVE  /\ Distinct(waiters'[t])
                        /\ \A p \in Publishers :
                              p \in Members(waiters'[t]) <=> pub'[p].pc = "waiting" /\ pub'[p].at = t
      BY DEF LineOK
    <3>1. /\ Distinct(waiters[t])
          /\ \A p \in Publishers :
                p \in Members(waiters[t]) <=> after[p].pc = "waiting" /\ after[p].at = t
      BY DEF LineOK
    <3>2. CASE t = s
      <4>1. waiters'[t] = Tail(waiters[s])
        BY <2>1, <3>2
      <4> QED  BY <3>1, <3>2, <4>1, <2>2, <2>5, <2>6, ZenonT(60)
    <3>3. CASE t # s
      <4>1. waiters'[t] = waiters[t]
        BY <2>1, <3>3
      <4> QED  BY <3>1, <3>3, <4>1, <2>3, <2>5, <2>6, ZenonT(60)
    <3> QED  BY <3>2, <3>3
  <2>10. permits' \in [Subscribers -> Nat] /\ \A p \in Publishers : CallOK(pub'[p])
    BY <2>1, <2>5, <2>6
  <2>11. \A p \in Publishers :
           \/ pub'[p] = after[p]
           \/ after[p].pc = "waiting" /\ pub'[p] = [after[p] EXCEPT !.pc = "assigned"]
    BY <2>3, <2>6 DEF r
  <2> QED  BY <2>6, <2>7, <2>8, <2>9, <2>10, <2>11
<1> QED  BY <1>1, <1>2

\* p's call goes on as r, and nobody's place in a line changes.
LEMMA OwnStep ==
    ASSUME ChannelTypeOK, LineOK(pub, waiters), NEW p \in Publishers, NEW r,
           CallOK(r), pub[p].pc # "waiting", r.pc # "waiting"
    PROVE  /\ [pub EXCEPT ![p] = r] \in [Publishers -> Call \union {IdlePub}]
           /\ \A q \in Publishers : CallOK([pub EXCEPT ![p] = r][q])
           /\ LineOK([pub EXCEPT ![p] = r], waiters)
<1>1. r \in Call \union {IdlePub} /\ pub \in [Publishers -> Call \union {IdlePub}]
  BY DEF CallOK, ChannelTypeOK
<1>2. [pub EXCEPT ![p] = r] \in [Publishers -> Call \union {IdlePub}]
  BY <1>1
<1>3. \A q \in Publishers : [pub EXCEPT ![p] = r][q] = IF q = p THEN r ELSE pub[q]
  BY <1>1
<1>4. \A q \in Publishers : CallOK([pub EXCEPT ![p] = r][q])
  BY <1>3 DEF ChannelTypeOK
<1>5. LineOK([pub EXCEPT ![p] = r], waiters)
  BY <1>3 DEF LineOK
<1> QED  BY <1>2, <1>4, <1>5

\* What p's own step must do to the books of every open subscriber.
LEMMA AccountKept ==
    ASSUME Counted, BusInv, NEW p \in Publishers,
           pub' \in [Publishers -> Call \union {IdlePub}],
           \A q \in Publishers : q # p => pub'[q] = pub[q], closed \subseteq closed',
           \A t \in Subscribers \ closed' :
              /\ permits'[t] \in Nat /\ Len(queue'[t]) \in Nat
              /\ permits'[t] + Len(queue'[t]) + Share(pub'[p], t) =
                 permits[t] + Len(queue[t]) + Share(pub[p], t)
    PROVE  PermitsAccount'
<1> SUFFICES ASSUME NEW t \in Subscribers \ closed'
             PROVE  permits'[t] + Len(queue'[t]) + Cardinality(Hold(pub', t)) = Capacity
  BY DEF PermitsAccount, Holders, Hold, Holds
<1>1. permits[t] + Len(queue[t]) + Cardinality(Hold(pub, t)) = Capacity
  BY DEF BusInv, PermitsAccount, Holders, Hold, Holds
<1>2. /\ Cardinality(Hold(pub, t)) \in Nat /\ Cardinality(Hold(pub', t)) \in Nat
      /\ Cardinality(Hold(pub', t)) + Share(pub[p], t) =
         Cardinality(Hold(pub, t)) + Share(pub'[p], t)
  BY HoldCount
<1>3. /\ permits'[t] \in Nat /\ Len(queue'[t]) \in Nat
      /\ permits'[t] + Len(queue'[t]) + Share(pub'[p], t) =
         permits[t] + Len(queue[t]) + Share(pub[p], t)
  OBVIOUS
<1>4. permits[t] \in Nat /\ Len(queue[t]) \in Nat
  BY DEF BusInv, ChannelTypeOK
<1> DEFINE held == Share(pub[p], t)
           holds == Share(pub'[p], t)
           n == Cardinality(Hold(pub, t))
           m == Cardinality(Hold(pub', t))
           free == permits[t]
           full == Len(queue[t])
           nowFree == permits'[t]
           nowFull == Len(queue'[t])
<1>5. /\ held \in Nat /\ holds \in Nat /\ m \in Nat /\ n \in Nat
      /\ free \in Nat /\ full \in Nat /\ nowFree \in Nat /\ nowFull \in Nat
  BY <1>2, <1>3, <1>4 DEF Share, Slot
<1>6. /\ m + held = n + holds /\ nowFree + nowFull + holds = free + full + held
      /\ free + full + n = Capacity
  BY <1>1, <1>2, <1>3
<1> HIDE DEF held, holds, n, m, free, full, nowFree, nowFull
<1>7. nowFree + nowFull + m = Capacity
  BY ONLY <1>5, <1>6
<1> QED  BY <1>7 DEF m, nowFree, nowFull

\* Some subscriber may be registered or closed; the calls and the channels stay.
LEMMA BusFrame ==
    ASSUME BusInv, registered' \subseteq Subscribers, closed \subseteq closed',
           UNCHANGED <<channel, pub, count>>
    PROVE  BusInv'
<1>1. UNCHANGED <<queue, permits, waiters, received, pub, count>>
  BY DEF channel
<1>2. \A t : Holders(t)' = Holders(t)
  BY <1>1 DEF Holders
<1>3. PermitsAccount'
  BY <1>1, <1>2 DEF BusInv, PermitsAccount
<1> QED  BY <1>1, <1>3 DEF BusInv, ChannelTypeOK, LineOK

\* p's call goes on without a permit before or after.
LEMMA PlainCall ==
    ASSUME Counted, BusInv, NEW p \in Publishers, NEW r, CallOK(r),
           pub[p].pc \notin {"waiting", "granted", "assigned"},
           r.pc \notin {"waiting", "granted", "assigned"},
           pub' = [pub EXCEPT ![p] = r], count' \in Nat,
           UNCHANGED <<channel, registered, closed>>
    PROVE  BusInv'
<1>1. /\ pub' \in [Publishers -> Call \union {IdlePub}] /\ \A q \in Publishers : CallOK(pub'[q])
      /\ LineOK(pub', waiters)
  BY OwnStep, ZenonT(60) DEF BusInv
<1>2. UNCHANGED <<queue, permits, waiters, received>>
  BY DEF channel
<1>3. pub'[p] = r /\ \A q \in Publishers : q # p => pub'[q] = pub[q]
  BY DEF BusInv, ChannelTypeOK
<1>4. \A t : Share(pub'[p], t) = 0 /\ Share(pub[p], t) = 0
  BY <1>3 DEF Holds, Share
<1>5. \A t \in Subscribers : permits[t] \in Nat /\ Len(queue[t]) \in Nat
  BY DEF BusInv, ChannelTypeOK
<1>6. PermitsAccount'
  BY <1>1, <1>2, <1>3, <1>4, <1>5, AccountKept
<1>7. ChannelTypeOK'
  BY <1>1, <1>2 DEF BusInv, ChannelTypeOK
<1> QED  BY <1>1, <1>2, <1>6, <1>7 DEF BusInv

\* p gives up its place in a line.
LEMMA LeaveLine ==
    ASSUME Counted, BusInv, NEW p \in Publishers, NEW r, CallOK(r),
           pub[p].pc = "waiting", r.pc \notin {"waiting", "granted", "assigned"},
           pub' = [pub EXCEPT ![p] = r],
           waiters' = [waiters EXCEPT ![pub[p].at] = WithoutWaiter(p, pub[p].at)],
           UNCHANGED <<queue, permits, received, count, registered, closed>>
    PROVE  BusInv'
<1> DEFINE s == pub[p].at
<1>1. s \in Subscribers /\ waiters \in [Subscribers -> Seq(Publishers)]
  BY DEF BusInv, ChannelTypeOK, CallOK
<1>2. Distinct(waiters[s]) /\ p \in Members(waiters[s])
  BY <1>1 DEF BusInv, LineOK
<1>3. /\ WithoutWaiter(p, s) \in Seq(Publishers) /\ Distinct(WithoutWaiter(p, s))
      /\ Members(WithoutWaiter(p, s)) = Members(waiters[s]) \ {p}
  BY <1>1, <1>2, SteppedOut
<1>4. r \in Call \union {IdlePub}
  BY DEF CallOK
<1>5. /\ pub' \in [Publishers -> Call \union {IdlePub}] /\ pub'[p] = r
      /\ \A q \in Publishers : q # p => pub'[q] = pub[q]
  BY <1>4 DEF BusInv, ChannelTypeOK
<1>6. /\ waiters' \in [Subscribers -> Seq(Publishers)]
      /\ waiters'[s] = WithoutWaiter(p, s)
      /\ \A t \in Subscribers : t # s => waiters'[t] = waiters[t]
  BY <1>1, <1>3
<1>7. LineOK(pub', waiters')
  <2> SUFFICES ASSUME NEW t \in Subscribers
               PROVE  /\ Distinct(waiters'[t])
                      /\ \A q \in Publishers :
                            q \in Members(waiters'[t]) <=> pub'[q].pc = "waiting" /\ pub'[q].at = t
    BY DEF LineOK
  <2>1. /\ Distinct(waiters[t])
        /\ \A q \in Publishers :
              q \in Members(waiters[t]) <=> pub[q].pc = "waiting" /\ pub[q].at = t
    BY DEF BusInv, LineOK
  <2>2. CASE t = s
    BY <2>1, <2>2, <1>3, <1>5, <1>6, SMTT(30)
  <2>3. CASE t # s
    BY <2>1, <2>3, <1>5, <1>6
  <2> QED  BY <2>2, <2>3
<1>8. \A t : Share(pub'[p], t) = 0 /\ Share(pub[p], t) = 0
  BY <1>5 DEF Holds, Share
<1>9. \A t \in Subscribers : permits[t] \in Nat /\ Len(queue[t]) \in Nat
  BY DEF BusInv, ChannelTypeOK
<1>10. PermitsAccount'
  BY <1>5, <1>8, <1>9, AccountKept
<1>11. ChannelTypeOK'
  BY <1>5, <1>6 DEF BusInv, ChannelTypeOK
<1> QED  BY <1>7, <1>10, <1>11, SMTT(30) DEF BusInv

\* A slot of s is given up, by a call or by the queue, and its permit released.
LEMMA Released ==
    ASSUME Counted, BusInv, NEW s \in Subscribers,
           NEW after \in [Publishers -> Call \union {IdlePub}], \A p \in Publishers : CallOK(after[p]),
           LineOK(after, waiters), ReleasePermit(s, after),
           queue' \in [Subscribers -> Seq(Value)],
           \A t \in Subscribers \ closed :
              /\ Cardinality(Hold(after, t)) \in Nat
              /\ Len(queue'[t]) + Slot(t, s) + Cardinality(Hold(after, t)) =
                 Len(queue[t]) + Cardinality(Hold(pub, t)),
           received' \in [Subscribers -> Seq(Value)],
           UNCHANGED <<count, registered, closed>>
    PROVE  BusInv'
<1>1. ChannelTypeOK
  BY DEF BusInv
<1>2. /\ permits' \in [Subscribers -> Nat]
      /\ waiters' \in [Subscribers -> Seq(Publishers)]
      /\ pub' \in [Publishers -> Call \union {IdlePub}]
      /\ \A q \in Publishers : CallOK(pub'[q])
      /\ LineOK(pub', waiters')
      /\ \A t \in Subscribers \ closed :
           permits'[t] + Cardinality(Hold(pub', t)) =
           permits[t] + Cardinality(Hold(after, t)) + Slot(t, s)
  <2>1. CASE s \in closed
    <3>1. permits' = permits /\ waiters' = waiters /\ pub' = after
      BY <2>1 DEF ReleasePermit
    <3>2. \A t \in Subscribers \ closed : Slot(t, s) = 0
      BY <2>1 DEF Slot
    <3>3. permits \in [Subscribers -> Nat] /\ waiters \in [Subscribers -> Seq(Publishers)]
      BY <1>1 DEF ChannelTypeOK
    <3> QED  BY <3>1, <3>2, <3>3
  <2>2. CASE s \notin closed
    <3>1. AddPermit(s, after)
      BY <2>2 DEF ReleasePermit
    <3> QED  BY <1>1, <3>1, AddPermitFacts, Zenon
  <2> QED  BY <2>1, <2>2
<1>3. ChannelTypeOK'
  BY <1>1, <1>2 DEF ChannelTypeOK
<1>4. ASSUME NEW t \in Subscribers \ closed
      PROVE  permits'[t] + Len(queue'[t]) + Cardinality(Hold(pub', t)) = Capacity
  <2> DEFINE free == permits[t]
             full == Len(queue[t])
             n == Cardinality(Hold(pub, t))
             nowFree == permits'[t]
             nowFull == Len(queue'[t])
             m == Cardinality(Hold(pub', t))
             k == Cardinality(Hold(after, t))
             slot == Slot(t, s)
  <2>0. k \in Nat
    OBVIOUS
  <2>1. /\ free \in Nat /\ full \in Nat /\ nowFree \in Nat /\ nowFull \in Nat
    BY <1>1, <1>3, SMTT(30) DEF ChannelTypeOK
  <2>2. m \in Nat /\ n \in Nat
    <3>1. Hold(pub', t) \subseteq Publishers /\ Hold(pub, t) \subseteq Publishers
      BY DEF Hold
    <3> QED  BY <3>1 DEF Counted
  <2>3. slot \in Nat
    BY DEF Slot
  <2>4. nowFree + m = free + k + slot
    BY <1>2
  <2>5. nowFull + slot + k = full + n
    BY SMTT(30)
  <2>6. free + full + n = Capacity
    BY DEF BusInv, PermitsAccount, Holders, Hold, Holds
  <2> HIDE DEF free, full, n, nowFree, nowFull, m, k, slot
  <2>7. nowFree + nowFull + m = Capacity
    BY ONLY <2>0, <2>1, <2>2, <2>3, <2>4, <2>5, <2>6, SMTT(30)
  <2> QED  BY <2>7 DEF nowFree, nowFull, m
<1>5. PermitsAccount'
  BY <1>4, Zenon DEF PermitsAccount, Holders, Hold, Holds
<1> QED  BY <1>2, <1>3, <1>5 DEF BusInv

\* p's call, which goes on as r, and the queue give up a slot of s between them.
GivenUp(p, r, s) ==
    \A t \in Subscribers \ closed :
       Len(queue'[t]) + Slot(t, s) + Share(r, t) = Len(queue[t]) + Share(pub[p], t)

\* Publisher p gives up the slot it held or emptied at s, and goes on to r.
LEMMA ReleasedBy ==
    ASSUME Counted, BusInv, NEW p \in Publishers, NEW r, CallOK(r),
           pub[p].pc # "waiting", r.pc # "waiting", NEW s \in Subscribers,
           NEW after, after = [pub EXCEPT ![p] = r], ReleasePermit(s, after),
           queue' \in [Subscribers -> Seq(Value)], GivenUp(p, r, s),
           received' \in [Subscribers -> Seq(Value)],
           UNCHANGED <<count, registered, closed>>
    PROVE  BusInv'
<1>1. /\ after \in [Publishers -> Call \union {IdlePub}] /\ \A q \in Publishers : CallOK(after[q])
      /\ LineOK(after, waiters)
  BY OwnStep, Zenon DEF BusInv
<1>2. ChannelTypeOK
  BY DEF BusInv
<1>3. after[p] = r /\ \A q \in Publishers : q # p => after[q] = pub[q]
  BY <1>2 DEF ChannelTypeOK
<1>4. ASSUME NEW t \in Subscribers \ closed
      PROVE  /\ Cardinality(Hold(after, t)) \in Nat
             /\ Len(queue'[t]) + Slot(t, s) + Cardinality(Hold(after, t)) =
                Len(queue[t]) + Cardinality(Hold(pub, t))
  <2> DEFINE full == Len(queue[t])
             nowFull == Len(queue'[t])
             n == Cardinality(Hold(pub, t))
             k == Cardinality(Hold(after, t))
             held == Share(pub[p], t)
             holds == Share(after[p], t)
             slot == Slot(t, s)
  <2>1. n \in Nat /\ k \in Nat /\ k + held = n + holds
    BY ONLY Counted, <1>2, <1>3, HoldCount
  <2>2. full \in Nat /\ nowFull \in Nat /\ slot \in Nat /\ held \in Nat /\ holds \in Nat
    BY <1>2 DEF ChannelTypeOK, Slot, Share
  <2>3. nowFull + slot + holds = full + held
    BY <1>3 DEF GivenUp
  <2> HIDE DEF full, nowFull, n, k, held, holds, slot
  <2>4. nowFull + slot + k = full + n
    BY ONLY <2>1, <2>2, <2>3
  <2> QED  BY <2>1, <2>4 DEF full, nowFull, n, k, slot
<1> QED  BY <1>1, <1>4, Released, Zenon

\* publish numbers the value and has yet to see who is subscribed.
LEMMA PublishStep ==
    ASSUME Counted, BusInv, NEW p \in Publishers, NEW policy \in Policies, Publish(p, policy)
    PROVE  BusInv'
<1> DEFINE r == [pc |-> "snapshot", policy |-> policy, at |-> None, value |-> <<p, count + 1>>, todo |-> {}]
<1>1. /\ pub[p].pc = "idle" /\ pub' = [pub EXCEPT ![p] = r] /\ count' = count + 1 /\ count \in Nat
      /\ UNCHANGED <<channel, registered, closed>>
  BY DEF Publish, subscription, BusInv, ChannelTypeOK
<1>2. r \in Call
  BY <1>1 DEF Call, Value
<1>3. /\ CallOK(r) /\ r.pc \notin {"waiting", "granted", "assigned"}
      /\ pub[p].pc \notin {"waiting", "granted", "assigned"} /\ count' \in Nat
  BY <1>1, <1>2 DEF CallOK
<1> HIDE DEF r
<1> QED  BY <1>1, <1>3, PlainCall, ZenonT(60)

\* The publisher takes the list of subscribers.
LEMMA SnapshotStep ==
    ASSUME Counted, BusInv, NEW p \in Publishers, Snapshot(p)
    PROVE  BusInv'
<1> DEFINE c == [pub[p] EXCEPT !.todo = registered]
<1>1. /\ pub[p].pc = "snapshot" /\ pub' = [pub EXCEPT ![p] = Turn(c)]
      /\ UNCHANGED <<channel, registered, closed, count>>
  BY DEF Snapshot, subscription
<1>2. pub[p] \in Call /\ registered \subseteq Subscribers /\ count \in Nat
  BY <1>1 DEF BusInv, ChannelTypeOK, IdlePub
<1>3. c \in Call
  BY <1>2 DEF Call
<1> HIDE DEF c
<1>4. CallOK(Turn(c)) /\ Turn(c).pc \in {"idle", "push"}
  BY <1>3, TurnFacts, Zenon
<1> QED  BY <1>1, <1>2, <1>4, PlainCall, Zenon

\* A push to a closed subscriber does nothing and turns to the next.
LEMMA PushClosedStep ==
    ASSUME Counted, BusInv, NEW p \in Publishers, NEW s \in Subscribers, PushClosed(p, s)
    PROVE  BusInv'
<1> DEFINE r == Turn(Entered(p, s, "push"))
<1>1. /\ Take(p, s) /\ pub[p].pc = "push" /\ pub' = [pub EXCEPT ![p] = r]
      /\ UNCHANGED <<channel, registered, closed, count>> /\ count \in Nat
  BY SMTT(30) DEF PushClosed, Take, subscription, BusInv, ChannelTypeOK
<1>2. Entered(p, s, "push") \in Call
  BY <1>1, EnteredFacts, SMTT(30) DEF BusInv
<1>3. CallOK(r) /\ r.pc \in {"idle", "push"}
  BY <1>2, TurnFacts, ZenonT(60)
<1> HIDE DEF r
<1> QED  BY <1>1, <1>3, PlainCall, ZenonT(60)

\* A push takes a permit, joins the line for one, or drops the value, by its
\* policy.
LEMMA AcquireStep ==
    ASSUME Counted, BusInv, NEW p \in Publishers, NEW s \in Subscribers, AcquirePermit(p, s)
    PROVE  BusInv'
<1>1. /\ Take(p, s) /\ pub[p].pc = "push" /\ ChannelTypeOK
      /\ UNCHANGED <<queue, received, registered, closed, count>>
  BY DEF AcquirePermit, Take, subscription, BusInv
<1>2. /\ pub \in [Publishers -> Call \union {IdlePub}] /\ permits \in [Subscribers -> Nat]
      /\ waiters \in [Subscribers -> Seq(Publishers)]
      /\ \A t \in Subscribers : Len(queue[t]) \in Nat /\ count \in Nat
  BY <1>1, SMTT(30) DEF ChannelTypeOK
<1>3. \A t : Share(pub[p], t) = 0
  BY <1>1 DEF Share, Holds
<1>4. CASE /\ permits[s] > 0
           /\ permits' = [permits EXCEPT ![s] = @ - 1]
           /\ pub' = [pub EXCEPT ![p] = Entered(p, s, "granted")]
           /\ waiters' = waiters
  <2> DEFINE r == Entered(p, s, "granted")
  <2>1. CallOK(r) /\ r.pc = "granted" /\ r.at = s
    <3>1. PICK c \in {"push", "waiting", "granted", "replace"} : c = "granted"
      BY SMTT(30)
    <3>2. /\ Entered(p, s, c).pc = c /\ Entered(p, s, c).at = s
          /\ c # "push" => CallOK(Entered(p, s, c))
      BY <1>1, EnteredFacts
    <3> QED  BY <3>1, <3>2
  <2> HIDE DEF r
  <2>2. /\ pub' \in [Publishers -> Call \union {IdlePub}] /\ \A q \in Publishers : CallOK(pub'[q])
        /\ LineOK(pub', waiters)
    BY <1>1, <1>4, <2>1, OwnStep, Zenon DEF BusInv, r
  <2>3. pub'[p] = r /\ \A q \in Publishers : q # p => pub'[q] = pub[q]
    BY <1>2, <1>4 DEF r
  <2>4. \A t : Share(pub'[p], t) = IF t = s THEN 1 ELSE 0
    BY <2>1, <2>3 DEF Share, Holds
  <2>5. permits' \in [Subscribers -> Nat]
        /\ \A t \in Subscribers : permits'[t] = IF t = s THEN permits[t] - 1 ELSE permits[t]
    BY <1>2, <1>4
  <2>6. ASSUME NEW t \in Subscribers
        PROVE  /\ permits'[t] \in Nat /\ Len(queue'[t]) \in Nat
               /\ permits'[t] + Len(queue'[t]) + Share(pub'[p], t) =
                  permits[t] + Len(queue[t]) + Share(pub[p], t)
    <3>1. permits[t] \in Nat /\ permits'[t] \in Nat /\ Len(queue[t]) \in Nat /\ queue'[t] = queue[t]
      BY <1>1, <1>2, <2>5
    <3>2. permits'[t] + Share(pub'[p], t) = permits[t] /\ Share(pub'[p], t) \in Nat
      BY <3>1, <2>4, <2>5, SMTT(30)
    <3> QED  BY <3>1, <3>2, <1>3
  <2>7. PermitsAccount'
    BY <1>1, <2>2, <2>3, <2>6, AccountKept
  <2> QED  BY <1>1, <1>4, <2>2, <2>5, <2>7, SMTT(30) DEF BusInv, ChannelTypeOK
<1>5. CASE /\ permits[s] = 0 /\ pub[p].policy = "Async"
           /\ waiters' = [waiters EXCEPT ![s] = Append(@, p)]
           /\ pub' = [pub EXCEPT ![p] = Entered(p, s, "waiting")]
           /\ permits' = permits
  <2> DEFINE r == Entered(p, s, "waiting")
  <2>1. CallOK(r) /\ r.pc = "waiting" /\ r.at = s
    BY <1>1, EnteredFacts
  <2>2. pub' = [pub EXCEPT ![p] = r]
    BY <1>5
  <2> HIDE DEF r
  <2>3. r \in Call \union {IdlePub}
    BY <2>1 DEF CallOK
  <2>4. /\ pub' \in [Publishers -> Call \union {IdlePub}] /\ pub'[p] = r
        /\ \A q \in Publishers : q # p => pub'[q] = pub[q]
    BY <1>2, <2>2, <2>3
  <2>5. \A t \in Subscribers : Distinct(waiters[t]) /\ p \notin Members(waiters[t])
    BY <1>1 DEF BusInv, LineOK
  <2>6. /\ Append(waiters[s], p) \in Seq(Publishers) /\ Distinct(Append(waiters[s], p))
        /\ Members(Append(waiters[s], p)) = Members(waiters[s]) \union {p}
    BY <1>2, <2>5, Joined
  <2>7. /\ waiters' \in [Subscribers -> Seq(Publishers)] /\ waiters'[s] = Append(waiters[s], p)
        /\ \A t \in Subscribers : t # s => waiters'[t] = waiters[t]
    BY <1>2, <1>5, <2>6
  <2>8. LineOK(pub', waiters')
    <3> SUFFICES ASSUME NEW t \in Subscribers
                 PROVE  /\ Distinct(waiters'[t])
                        /\ \A q \in Publishers :
                              q \in Members(waiters'[t]) <=> pub'[q].pc = "waiting" /\ pub'[q].at = t
      BY DEF LineOK
    <3>1. /\ Distinct(waiters[t])
          /\ \A q \in Publishers :
                q \in Members(waiters[t]) <=> pub[q].pc = "waiting" /\ pub[q].at = t
      BY SMTT(30) DEF BusInv, LineOK
    <3>2. CASE t = s
      BY <3>1, <3>2, <2>1, <2>4, <2>6, <2>7, SMTT(30)
    <3>3. CASE t # s
      BY <3>1, <3>3, <2>1, <2>4, <2>5, <2>7, SMTT(30)
    <3> QED  BY <3>2, <3>3
  <2>9. \A t : Share(pub'[p], t) = 0
    BY <2>1, <2>4 DEF Share, Holds
  <2>10. PermitsAccount'
    BY <1>1, <1>2, <1>3, <1>5, <2>4, <2>9, AccountKept, ZenonT(60)
  <2>11. ChannelTypeOK'
    BY <1>1, <1>5, <2>1, <2>4, <2>7 DEF ChannelTypeOK
  <2> QED  BY <2>8, <2>10, <2>11, SMTT(30) DEF BusInv
<1>6. CASE /\ permits[s] = 0 /\ pub[p].policy # "Async"
           /\ pub' = [pub EXCEPT ![p] = Turn(Entered(p, s, "push"))]
           /\ UNCHANGED <<permits, waiters>>
  <2> DEFINE r == Turn(Entered(p, s, "push"))
  <2>1. Entered(p, s, "push") \in Call
    BY <1>1, EnteredFacts
  <2>2. CallOK(r) /\ r.pc \in {"idle", "push"}
    BY <2>1, TurnFacts, Zenon
  <2>3. pub' = [pub EXCEPT ![p] = r] /\ UNCHANGED channel
    BY <1>1, <1>6, SMTT(30) DEF channel
  <2> HIDE DEF r
  <2> QED  BY <1>1, <1>2, <2>2, <2>3, PlainCall, ZenonT(60)
<1> QED  BY <1>4, <1>5, <1>6 DEF AcquirePermit

\* The end of a wait, by timeout or by a dropped future.
LEMMA EndWaitStep ==
    ASSUME Counted, BusInv, NEW p \in Publishers, GiveUp(p) \/ Abandon(p)
    PROVE  BusInv'
<1>1. UNCHANGED <<queue, received, registered, closed, count>> /\ ChannelTypeOK /\ CallOK(pub[p])
  BY DEF GiveUp, Abandon, subscription, BusInv, ChannelTypeOK
<1>2. CASE GiveUp(p)
  <2>1. /\ pub[p].pc = "waiting" /\ pub' = [pub EXCEPT ![p] = Turn(pub[p])]
        /\ waiters' = [waiters EXCEPT ![pub[p].at] = WithoutWaiter(p, pub[p].at)]
        /\ permits' = permits
    BY <1>2, SMTT(30) DEF GiveUp
  <2>2. pub[p] \in Call
    BY <1>1, <2>1 DEF CallOK, IdlePub
  <2>3. CallOK(Turn(pub[p])) /\ Turn(pub[p]).pc \in {"idle", "push"}
    BY <2>2, TurnFacts, ZenonT(60)
  <2> DEFINE r == Turn(pub[p])
  <2>4. CallOK(r) /\ r.pc \notin {"waiting", "granted", "assigned"} /\ pub' = [pub EXCEPT ![p] = r]
    BY <2>1, <2>3
  <2> HIDE DEF r
  <2> QED  BY <1>1, <2>1, <2>4, LeaveLine, ZenonT(60)
<1>3. CallOK(IdlePub) /\ IdlePub.pc = "idle"
  BY DEF CallOK, IdlePub
<1>4. CASE /\ pub[p].pc = "waiting"
           /\ waiters' = [waiters EXCEPT ![pub[p].at] = WithoutWaiter(p, pub[p].at)]
           /\ pub' = [pub EXCEPT ![p] = IdlePub]
           /\ permits' = permits
  BY <1>1, <1>3, <1>4, LeaveLine, Zenon
<1>5. CASE pub[p].pc = "assigned" /\ ReleasePermit(pub[p].at, [pub EXCEPT ![p] = IdlePub])
  <2>1. PICK s \in Subscribers : s = pub[p].at
    BY <1>1, <1>5 DEF CallOK
  <2>2. PICK after : after = [pub EXCEPT ![p] = IdlePub]
    BY ZenonT(60)
  <2>3. ReleasePermit(s, after)
    BY <1>5, <2>1, <2>2 DEF ReleasePermit, AddPermit
  <2>4. \A t : Share(pub[p], t) = Slot(t, s) /\ Share(IdlePub, t) = 0 /\ Slot(t, s) \in Nat
    BY <1>3, <1>5, <2>1 DEF Share, Slot, Holds
  <2>5. \A t \in Subscribers : Len(queue[t]) \in Nat
    BY <1>1 DEF ChannelTypeOK
  <2>6. GivenUp(p, IdlePub, s)
    BY <1>1, <2>4, <2>5 DEF GivenUp
  <2>7. queue' \in [Subscribers -> Seq(Value)] /\ received' \in [Subscribers -> Seq(Value)]
    BY <1>1 DEF ChannelTypeOK
  <2>8. pub[p].pc # "waiting" /\ IdlePub.pc # "waiting" /\ UNCHANGED <<count, registered, closed>>
    BY <1>1, <1>3, <1>5
  <2> QED  BY <1>3, <2>2, <2>3, <2>6, <2>7, <2>8, ReleasedBy, Zenon
<1> QED  BY <1>2, <1>4, <1>5 DEF Abandon

\* A permit, p's own or an available one, is spent on a slot of s.
Spent(p, s) ==
    \A t \in Subscribers : permits'[t] + Slot(t, s) = permits[t] + Share(pub[p], t)

\* p's value goes into the queue of s.
LEMMA PushedBy ==
    ASSUME Counted, BusInv, NEW p \in Publishers, NEW r, CallOK(r),
           pub[p].pc # "waiting", r.pc \in {"idle", "push"}, NEW s \in Subscribers,
           NEW v \in Value, queue' = [queue EXCEPT ![s] = Append(@, v)],
           pub' = [pub EXCEPT ![p] = r], permits' \in [Subscribers -> Nat], Spent(p, s),
           UNCHANGED <<waiters, received, count, registered, closed>>
    PROVE  BusInv'
<1>1. /\ pub' \in [Publishers -> Call \union {IdlePub}] /\ \A q \in Publishers : CallOK(pub'[q])
      /\ LineOK(pub', waiters)
  BY OwnStep, Zenon DEF BusInv
<1>2. ChannelTypeOK
  BY DEF BusInv
<1>3. pub'[p] = r /\ \A q \in Publishers : q # p => pub'[q] = pub[q]
  BY <1>2 DEF ChannelTypeOK
<1>4. /\ queue' \in [Subscribers -> Seq(Value)]
      /\ \A t \in Subscribers : Len(queue[t]) \in Nat /\ Len(queue'[t]) = Len(queue[t]) + Slot(t, s)
  BY <1>2 DEF ChannelTypeOK, Slot
<1>5. \A t : Share(pub'[p], t) = 0
  BY <1>3 DEF Share, Holds
<1>6. ASSUME NEW t \in Subscribers
      PROVE  /\ permits'[t] \in Nat /\ Len(queue'[t]) \in Nat
             /\ permits'[t] + Len(queue'[t]) + Share(pub'[p], t) =
                permits[t] + Len(queue[t]) + Share(pub[p], t)
  <2> DEFINE free == permits[t]
             full == Len(queue[t])
             nowFree == permits'[t]
             nowFull == Len(queue'[t])
             held == Share(pub[p], t)
             slot == Slot(t, s)
  <2>1. /\ free \in Nat /\ full \in Nat /\ nowFree \in Nat /\ held \in Nat /\ slot \in Nat
        /\ nowFull = full + slot /\ nowFree + slot = free + held
    BY <1>2, <1>4 DEF ChannelTypeOK, Share, Slot, Spent
  <2> HIDE DEF free, full, nowFree, nowFull, held, slot
  <2>2. nowFree \in Nat /\ nowFull \in Nat /\ nowFree + nowFull + 0 = free + full + held
    BY ONLY <2>1
  <2> QED  BY <1>5, <2>2 DEF free, full, nowFree, nowFull, held
<1>7. PermitsAccount'
  BY <1>1, <1>3, <1>6, AccountKept, SMTT(30)
<1>8. ChannelTypeOK'
  BY <1>1, <1>2, <1>4, SMTT(30) DEF ChannelTypeOK
<1> QED  BY <1>1, <1>7, <1>8 DEF BusInv

\* enqueue, which keeps the permit for the value or gives it back.
LEMMA EnqueueStep ==
    ASSUME Counted, BusInv, NEW p \in Publishers, Enqueue(p)
    PROVE  BusInv'
<1>1. /\ UNCHANGED <<received, registered, closed, count>> /\ ChannelTypeOK /\ CallOK(pub[p])
      /\ pub[p].pc \in {"granted", "assigned"}
  BY ZenonT(60) DEF Enqueue, subscription, BusInv, ChannelTypeOK
<1>2. pub[p] \in Call
  BY <1>1 DEF CallOK, IdlePub
<1>3. PICK s \in Subscribers : s = pub[p].at
  BY <1>1 DEF CallOK
<1>4. PICK r : r = Turn(pub[p])
  BY SMTT(30)
<1>5. CallOK(r) /\ r.pc \in {"idle", "push"}
  BY <1>2, <1>4, TurnFacts, ZenonT(60)
<1>6. \A t : Share(pub[p], t) = Slot(t, s) /\ Share(r, t) = 0 /\ Slot(t, s) \in Nat
  BY <1>1, <1>3, <1>5 DEF Share, Slot, Holds
<1>7. CASE ReleasePermit(pub[p].at, [pub EXCEPT ![p] = Turn(@)]) /\ UNCHANGED <<queue, notified, stored>>
  <2>1. PICK after : after = [pub EXCEPT ![p] = r]
    BY ZenonT(60)
  <2>2. ReleasePermit(s, after)
    BY <1>3, <1>4, <1>7, <2>1 DEF ReleasePermit, AddPermit
  <2>3. \A t \in Subscribers : Len(queue[t]) \in Nat
    BY <1>1 DEF ChannelTypeOK
  <2>4. GivenUp(p, r, s)
    BY <1>6, <1>7, <2>3 DEF GivenUp
  <2>5. queue' \in [Subscribers -> Seq(Value)] /\ received' \in [Subscribers -> Seq(Value)]
    BY <1>1, <1>7 DEF ChannelTypeOK
  <2>6. pub[p].pc # "waiting" /\ r.pc # "waiting" /\ UNCHANGED <<count, registered, closed>>
    BY <1>1, <1>5
  <2> QED  BY <1>5, <2>1, <2>2, <2>4, <2>5, <2>6, ReleasedBy, Zenon
<1>8. CASE /\ queue' = [queue EXCEPT ![pub[p].at] = PushBack(@, pub[p].value)]
           /\ pub' = [pub EXCEPT ![p] = Turn(@)]
           /\ UNCHANGED <<permits, waiters>>
  <2>1. PICK v \in Value : v = pub[p].value
    BY <1>2 DEF Call
  <2>2. /\ queue' = [queue EXCEPT ![s] = Append(@, v)] /\ pub' = [pub EXCEPT ![p] = r]
        /\ pub[p].pc # "waiting" /\ UNCHANGED <<waiters, received, count, registered, closed>>
    BY <1>1, <1>3, <1>4, <1>8, <2>1 DEF PushBack
  <2>3. permits' \in [Subscribers -> Nat]
    BY <1>1, <1>8 DEF ChannelTypeOK
  <2>4. Spent(p, s)
    BY <1>6, <1>8 DEF Spent
  <2> QED  BY <1>5, <2>2, <2>3, <2>4, PushedBy, ZenonT(60)
<1> QED  BY <1>7, <1>8, SMTT(30) DEF Enqueue

\* The first half of replace_oldest: an evicted value's slot goes to whoever is first in line.
LEMMA ReplaceOldestStep ==
    ASSUME Counted, BusInv, NEW p \in Publishers, NEW s \in Subscribers, ReplaceOldest(p, s)
    PROVE  BusInv'
<1>1. /\ Take(p, s) /\ pub[p].pc = "push" /\ ChannelTypeOK /\ s \notin closed
      /\ UNCHANGED <<received, registered, closed, count>>
  BY DEF ReplaceOldest, Take, subscription, BusInv
<1>2. PICK r : r = Entered(p, s, "replace")
  BY SMTT(30)
<1>3. CallOK(r) /\ r.pc = "replace"
  BY <1>1, <1>2, EnteredFacts
<1>4. PICK after : after = [pub EXCEPT ![p] = r]
  BY Zenon
<1>5. queue \in [Subscribers -> Seq(Value)] /\ received \in [Subscribers -> Seq(Value)] /\ count \in Nat
  BY <1>1 DEF ChannelTypeOK
<1>6. CASE Len(queue[s]) >= Capacity
  <2>1. queue' = [queue EXCEPT ![s] = Tail(@)] /\ AddPermit(s, after)
    BY <1>2, <1>4, <1>6 DEF ReplaceOldest, AddPermit
  <2>2. ReleasePermit(s, after)
    BY <1>1, <2>1 DEF ReleasePermit
  <2>3. queue[s] # <<>>
    BY <1>5, <1>6, BusAssumption
  <2>4. Tail(queue[s]) \in Seq(Value) /\ Len(queue[s]) \in Nat /\ Len(Tail(queue[s])) = Len(queue[s]) - 1
    BY <1>5, <2>3
  <2>5. /\ queue' \in [Subscribers -> Seq(Value)]
        /\ \A t \in Subscribers : Len(queue[t]) \in Nat /\ Len(queue'[t]) + Slot(t, s) = Len(queue[t])
    BY <1>5, <2>1, <2>4 DEF Slot
  <2>6. \A t : Share(pub[p], t) = 0 /\ Share(r, t) = 0 /\ Slot(t, s) \in Nat
    BY <1>1, <1>3 DEF Share, Slot, Holds
  <2>7. GivenUp(p, r, s)
    BY <1>5, <2>5, <2>6 DEF GivenUp
  <2>8. /\ pub[p].pc # "waiting" /\ r.pc # "waiting" /\ UNCHANGED <<count, registered, closed>>
        /\ received' \in [Subscribers -> Seq(Value)]
    BY <1>1, <1>3, <1>5
  <2> QED  BY <1>3, <1>4, <2>2, <2>5, <2>7, <2>8, ReleasedBy, ZenonT(60)
<1>7. CASE ~(Len(queue[s]) >= Capacity)
  <2>1. pub' = [pub EXCEPT ![p] = r] /\ UNCHANGED channel
    BY <1>1, <1>2, <1>7 DEF ReplaceOldest, channel
  <2> QED  BY <1>1, <1>3, <1>5, <2>1, PlainCall, ZenonT(60)
<1> QED  BY <1>6, <1>7

\* The second half: a permit is taken for the value, or the call goes on without one.
LEMMA ReplaceFinishStep ==
    ASSUME Counted, BusInv, NEW p \in Publishers, ReplaceFinish(p)
    PROVE  BusInv'
<1>1. /\ UNCHANGED <<waiters, received, registered, closed, count>> /\ ChannelTypeOK
      /\ CallOK(pub[p]) /\ pub[p].pc = "replace"
  BY SMTT(30) DEF ReplaceFinish, subscription, BusInv, ChannelTypeOK
<1>2. pub[p] \in Call
  BY <1>1 DEF CallOK, IdlePub
<1>3. PICK s \in Subscribers : s = pub[p].at
  BY <1>1, SMTT(30) DEF CallOK
<1>4. PICK r : r = Turn(pub[p])
  OBVIOUS
<1>5. CallOK(r) /\ r.pc \in {"idle", "push"}
  BY <1>2, <1>4, TurnFacts, Zenon
<1>6. pub' = [pub EXCEPT ![p] = r] /\ permits \in [Subscribers -> Nat] /\ count \in Nat
  BY <1>1, <1>4, ZenonT(60) DEF ReplaceFinish, ChannelTypeOK
<1>7. CASE permits[s] > 0
  <2>1. PICK v \in Value : v = pub[p].value
    BY <1>2 DEF Call
  <2>2. /\ queue' = [queue EXCEPT ![s] = Append(@, v)] /\ pub[p].pc # "waiting"
        /\ permits' = [permits EXCEPT ![s] = @ - 1]
    BY <1>1, <1>3, <1>7, <2>1, Zenon DEF ReplaceFinish, PushBack
  <2>3. \A t \in Subscribers : permits[t] \in Nat /\ Share(pub[p], t) = 0
    BY <1>1, <1>6 DEF Share, Holds
  <2>4. permits' \in [Subscribers -> Nat]
    BY <1>6, <1>7, <2>2
  <2>5. Spent(p, s)
    BY <1>6, <1>7, <2>2, <2>3 DEF Spent, Slot
  <2> QED  BY <1>1, <1>5, <1>6, <2>2, <2>4, <2>5, PushedBy, ZenonT(60)
<1>8. CASE ~(permits[s] > 0)
  <2>1. UNCHANGED channel
    BY <1>1, <1>3, <1>8 DEF ReplaceFinish, channel
  <2> QED  BY <1>1, <1>5, <1>6, <2>1, PlainCall, ZenonT(60)
<1> QED  BY <1>7, <1>8

\* pop, which releases the permit of the slot it empties.
LEMMA PopStep ==
    ASSUME Counted, BusInv, NEW s \in Subscribers, Pop(s)
    PROVE  BusInv'
<1>1. ChannelTypeOK /\ LineOK(pub, waiters)
  BY DEF BusInv
<1>2. PICK after : after = pub
  OBVIOUS
<1>3. /\ ReleasePermit(s, after) /\ queue[s] # <<>> /\ queue' = [queue EXCEPT ![s] = Tail(@)]
      /\ received' = [received EXCEPT ![s] = Append(@, Head(queue[s]))]
      /\ UNCHANGED <<count, registered, closed>>
  BY <1>2 DEF Pop, PopReturnsPermit, subscription, ReleasePermit, AddPermit
<1>4. /\ queue \in [Subscribers -> Seq(Value)] /\ received \in [Subscribers -> Seq(Value)]
      /\ after \in [Publishers -> Call \union {IdlePub}] /\ \A q \in Publishers : CallOK(after[q])
      /\ LineOK(after, waiters)
  BY <1>1, <1>2 DEF ChannelTypeOK
<1>5. /\ Tail(queue[s]) \in Seq(Value) /\ Len(queue[s]) \in Nat /\ Head(queue[s]) \in Value
      /\ Len(Tail(queue[s])) = Len(queue[s]) - 1
  BY <1>3, <1>4
<1>6. queue' \in [Subscribers -> Seq(Value)] /\ received' \in [Subscribers -> Seq(Value)]
  BY <1>3, <1>4, <1>5, SMTT(30)
<1>7. ASSUME NEW t \in Subscribers \ closed
      PROVE  /\ Cardinality(Hold(after, t)) \in Nat
             /\ Len(queue'[t]) + Slot(t, s) + Cardinality(Hold(after, t)) =
                Len(queue[t]) + Cardinality(Hold(pub, t))
  <2>1. Hold(after, t) \subseteq Publishers
    BY DEF Hold
  <2>2. Cardinality(Hold(after, t)) \in Nat /\ Hold(after, t) = Hold(pub, t)
    BY <1>2, <2>1, SMTT(30) DEF Counted
  <2>3. Len(queue[t]) \in Nat /\ Len(queue'[t]) + Slot(t, s) = Len(queue[t])
    BY <1>3, <1>4, <1>5, SMTT(30) DEF Slot
  <2> QED  BY <2>2, <2>3
<1> QED  BY <1>3, <1>4, <1>6, <1>7, Released, ZenonT(60)

\* Every step keeps the books.
LEMMA BusStep ==
    ASSUME Counted, BusInv, [Next]_vars
    PROVE  BusInv'
<1>1. CASE UNCHANGED vars
  <2>1. UNCHANGED <<channel, pub, count, registered, closed>> /\ registered \subseteq Subscribers
    BY <1>1 DEF vars, channel, BusInv, ChannelTypeOK
  <2> QED  BY <2>1, BusFrame
<1>2. ASSUME NEW s \in Subscribers,
             \/ Subscribe(s) \/ Insert(s) \/ Recheck(s) \/ CloseSubscription(s) \/ Remove(s)
             \/ DropSubscription(s) \/ CloseBusSweep(s) \/ Arm(s) \/ FoundEmpty(s)
             \/ ReturnClosed(s) \/ Sleep(s) \/ Wake(s) \/ CancelRecv(s)
      PROVE  BusInv'
  <2>1. /\ UNCHANGED <<channel, pub, count>> /\ closed \subseteq closed'
        /\ registered' \subseteq registered \union {s}
    BY <1>2, ZenonT(60) DEF Subscribe, Insert, Recheck, CloseSubscription, Remove,
       DropSubscription,
                CloseBusSweep, Arm, FoundEmpty, ReturnClosed, Sleep, Wake, CancelRecv,
                CloseSubscriber, subscription
  <2>2. registered' \subseteq Subscribers
    BY <2>1 DEF BusInv, ChannelTypeOK
  <2> QED  BY <2>1, <2>2, BusFrame, SMTT(30)
<1>3. CASE CloseBus \/ CloseBusSnapshot \/ CloseBusClear \/ DropBus
  <2>1. /\ UNCHANGED <<channel, pub, count>> /\ closed \subseteq closed'
        /\ registered' \subseteq registered
    BY <1>3, Zenon DEF CloseBus, CloseBusSnapshot, CloseBusClear, DropBus
  <2>2. registered' \subseteq Subscribers
    BY <2>1 DEF BusInv, ChannelTypeOK
  <2> QED  BY <2>1, <2>2, BusFrame, SMTT(30)
<1> QED  BY <1>1, <1>2, <1>3, PopStep, PublishStep, SnapshotStep, EndWaitStep, EnqueueStep,
            ReplaceFinishStep, PushClosedStep, AcquireStep, ReplaceOldestStep, SMTT(30) DEF Next

\* At the start every slot has its permit available.
LEMMA BusStart ==
    ASSUME Counted, Init
    PROVE  BusInv
<1>1. ChannelTypeOK
  <2>1. /\ registered \subseteq Subscribers /\ permits \in [Subscribers -> Nat] /\ count \in Nat
        /\ pub \in [Publishers -> Call \union {IdlePub}]
    BY BusAssumption DEF Init
  <2>2. /\ queue \in [Subscribers -> Seq(Value)] /\ received \in [Subscribers -> Seq(Value)]
        /\ waiters \in [Subscribers -> Seq(Publishers)]
    BY SMTT(30) DEF Init
  <2>3. \A p \in Publishers : CallOK(pub[p])
    BY DEF Init, CallOK, IdlePub
  <2> QED  BY <2>1, <2>2, <2>3, Zenon DEF ChannelTypeOK
<1>2. LineOK(pub, waiters)
  BY DEF Init, LineOK, Distinct, Members, IdlePub
<1>3. \A s \in Subscribers : Holders(s) = {}
  BY DEF Init, Holders, IdlePub
<1>4. PermitsAccount
  <2>1. \A s \in Subscribers : Cardinality(Holders(s)) = 0
    BY <1>3 DEF Counted
  <2>2. \A s \in Subscribers : permits[s] = Capacity /\ Len(queue[s]) = 0
    BY DEF Init
  <2> QED  BY <2>1, <2>2, BusAssumption DEF PermitsAccount
<1> QED  BY <1>1, <1>2, <1>4, SMTT(30) DEF BusInv

-----------------------------------------------------------------------------
(* Order.                                                                   *)

Before(u, v) == u[1] = v[1] => u[2] < v[2]

Increasing(line) == \A i, j \in 1..Len(line) : i < j => Before(line[i], line[j])

\* What was received and what is still queued, in the order published.
Ordered(got, line) ==
    /\ Increasing(got) /\ Increasing(line)
    /\ \A i \in 1..Len(got), j \in 1..Len(line) : Before(got[i], line[j])

Seen(got, line) == Members(got) \union Members(line)

\* A publish has yet to come to s, or is at it.
Due(r, s) == r.pc = "snapshot" \/ (r.pc # "idle" /\ (s \in r.todo \/ s = r.at))

\* A publisher's value is newer than whatever of its own a subscriber has seen that it is due at.
OrderInv ==
    /\ \A s \in Subscribers :
         /\ Ordered(received[s], queue[s])
         /\ \A v \in Seen(received[s], queue[s]) : v[2] <= count
    /\ \A p \in Publishers : pub[p].pc # "idle" =>
         /\ pub[p].value[1] = p /\ pub[p].value[2] <= count
         /\ \A s \in Subscribers : Due(pub[p], s) =>
              \A v \in Seen(received[s], queue[s]) : Before(v, pub[p].value)

\* The head of the queue is evicted.
LEMMA Evicted ==
    ASSUME NEW got \in Seq(Value), NEW line \in Seq(Value), line # <<>>, Ordered(got, line)
    PROVE  Ordered(got, Tail(line)) /\ Seen(got, Tail(line)) \subseteq Seen(got, line)
<1> DEFINE rest == Tail(line)
<1>1. /\ Len(line) \in Nat \ {0} /\ Len(rest) = Len(line) - 1
      /\ \A i \in 1..Len(rest) : rest[i] = line[i + 1] /\ i + 1 \in 1..Len(line)
  OBVIOUS
<1> HIDE DEF rest
<1>2. Increasing(rest)
  <2> SUFFICES ASSUME NEW i \in 1..Len(rest), NEW j \in 1..Len(rest), i < j
               PROVE  Before(rest[i], rest[j])
    BY DEF Increasing
  <2>1. i + 1 < j + 1
    BY <1>1
  <2> QED  BY <1>1, <2>1, SMTT(30) DEF Ordered, Increasing
<1>3. \A i \in 1..Len(got), j \in 1..Len(rest) : Before(got[i], rest[j])
  BY <1>1, SMTT(30) DEF Ordered
<1>4. Members(rest) \subseteq Members(line)
  BY <1>1 DEF Members
<1> QED  BY <1>2, <1>3, <1>4 DEF Ordered, Seen, rest

\* The head of the queue is received.
LEMMA Popped ==
    ASSUME NEW got \in Seq(Value), NEW line \in Seq(Value), line # <<>>, Ordered(got, line)
    PROVE  /\ Ordered(Append(got, Head(line)), Tail(line))
           /\ Seen(Append(got, Head(line)), Tail(line)) \subseteq Seen(got, line)
<1> DEFINE rest == Tail(line)
           more == Append(got, Head(line))
           n == Len(got)
<1>1. /\ Len(line) \in Nat \ {0} /\ Len(rest) = Len(line) - 1 /\ Head(line) = line[1]
      /\ Head(line) \in Value
      /\ \A i \in 1..Len(rest) : rest[i] = line[i + 1] /\ i + 1 \in 1..Len(line)
  OBVIOUS
<1>2. /\ n \in Nat /\ Len(more) = n + 1 /\ more[n + 1] = line[1]
      /\ \A i \in 1..n : more[i] = got[i]
  BY <1>1
<1>3. Ordered(got, rest) /\ Seen(got, rest) \subseteq Seen(got, line)
  BY Evicted
<1> HIDE DEF rest, more
<1>4. \A i \in 1..(n + 1) : i \in 1..n \/ i = n + 1
  BY <1>2
<1>5. Increasing(more)
  <2> SUFFICES ASSUME NEW i \in 1..(n + 1), NEW j \in 1..(n + 1), i < j
               PROVE  Before(more[i], more[j])
    BY <1>2 DEF Increasing
  <2>1. i \in 1..n
    BY <1>2
  <2>2. CASE j \in 1..n
    BY <1>2, <2>1, <2>2, SMTT(30) DEF Ordered, Increasing
  <2>3. CASE j = n + 1
    <3>1. 1 \in 1..Len(line)
      BY <1>1
    <3> QED  BY <1>2, <2>1, <2>3, <3>1 DEF Ordered
  <2> QED  BY <1>4, <2>2, <2>3
<1>6. ASSUME NEW i \in 1..(n + 1), NEW j \in 1..Len(rest)
      PROVE  Before(more[i], rest[j])
  <2>1. CASE i \in 1..n
    BY <1>2, <1>3, <2>1 DEF Ordered
  <2>2. CASE i = n + 1
    <3>1. 1 \in 1..Len(line) /\ j + 1 \in 1..Len(line) /\ 1 < j + 1 /\ rest[j] = line[j + 1]
      BY <1>1
    <3>2. Before(line[1], line[j + 1])
      BY <3>1 DEF Ordered, Increasing
    <3> QED  BY <1>2, <2>2, <3>1, <3>2
  <2> QED  BY <1>4, <2>1, <2>2
<1>7. Members(more) \subseteq Members(got) \union Members(line)
  <2>1. line[1] \in Members(line)
    BY <1>1 DEF Members
  <2> QED  BY <1>2, <1>4, <2>1 DEF Members
<1>8. Seen(more, rest) \subseteq Seen(got, line)
  BY <1>3, <1>7 DEF Seen
<1>9. Ordered(more, rest)
  BY <1>2, <1>3, <1>5, <1>6, SMTT(30) DEF Ordered
<1> QED  BY <1>8, <1>9 DEF more, rest

\* A value newer than all that was seen of its publisher is queued.
LEMMA Pushed ==
    ASSUME NEW got \in Seq(Value), NEW line \in Seq(Value), NEW x \in Value, Ordered(got, line),
           \A v \in Seen(got, line) : Before(v, x)
    PROVE  /\ Ordered(got, Append(line, x))
           /\ Seen(got, Append(line, x)) \subseteq Seen(got, line) \union {x}
<1> DEFINE long == Append(line, x)
           n == Len(line)
<1>1. /\ n \in Nat /\ Len(long) = n + 1 /\ long[n + 1] = x
      /\ \A i \in 1..n : long[i] = line[i]
  OBVIOUS
<1> HIDE DEF long
<1>2. \A i \in 1..(n + 1) : i \in 1..n \/ i = n + 1
  BY <1>1
<1>3. \A i \in 1..n : Before(line[i], x)
  BY DEF Seen, Members
<1>4. \A i \in 1..Len(got) : Before(got[i], x)
  BY DEF Seen, Members
<1>5. Increasing(long)
  <2> SUFFICES ASSUME NEW i \in 1..(n + 1), NEW j \in 1..(n + 1), i < j
               PROVE  Before(long[i], long[j])
    BY <1>1 DEF Increasing
  <2>1. i \in 1..n
    BY <1>1
  <2>2. CASE j \in 1..n
    BY <1>1, <2>1, <2>2, SMTT(30) DEF Ordered, Increasing
  <2>3. CASE j = n + 1
    BY <1>1, <1>3, <2>1, <2>3, SMTT(30)
  <2> QED  BY <1>2, <2>2, <2>3, SMTT(30)
<1>6. \A i \in 1..Len(got), j \in 1..(n + 1) : Before(got[i], long[j])
  BY <1>1, <1>2, <1>4, SMTT(30) DEF Ordered
<1>7. Members(long) \subseteq Members(line) \union {x}
  BY <1>1, <1>2, SMTT(30) DEF Members
<1> QED  BY <1>1, <1>5, <1>6, <1>7 DEF Ordered, Seen, long

\* A call goes on with the same value and comes to nobody it was not due at, or ends.
Follows(after, r) ==
    \/ after.pc = "idle"
    \/ /\ r.pc # "idle" /\ after.value = r.value
       /\ \A s \in Subscribers : Due(after, s) => Due(r, s)

Calls == \A q \in Publishers : Follows(pub'[q], pub[q])

\* Nothing new is seen, and what is left is in order.
Streams ==
    \A s \in Subscribers :
       /\ Ordered(received'[s], queue'[s])
       /\ Seen(received'[s], queue'[s]) \subseteq Seen(received[s], queue[s])

\* Calls that only go on, and streams that only lose, keep the order.
LEMMA OrderKept ==
    ASSUME OrderInv, Calls, Streams, UNCHANGED count
    PROVE  OrderInv'
<1>1. ASSUME NEW s \in Subscribers
      PROVE  /\ Ordered(received'[s], queue'[s])
             /\ \A v \in Seen(received'[s], queue'[s]) : v[2] <= count'
  BY ZenonT(60) DEF Streams, OrderInv
<1>2. ASSUME NEW p \in Publishers, pub'[p].pc # "idle"
      PROVE  /\ pub'[p].value[1] = p /\ pub'[p].value[2] <= count'
             /\ \A s \in Subscribers : Due(pub'[p], s) =>
                  \A v \in Seen(received'[s], queue'[s]) : Before(v, pub'[p].value)
  <2>1. /\ pub[p].pc # "idle" /\ pub'[p].value = pub[p].value
        /\ \A s \in Subscribers : Due(pub'[p], s) => Due(pub[p], s)
    BY <1>2 DEF Calls, Follows
  <2> QED  BY <2>1, ZenonT(60) DEF Streams, OrderInv
<1> QED  BY <1>1, <1>2, ZenonT(60) DEF OrderInv

\* A call that turns to the next subscriber, or enters one, follows what it was.
LEMMA TurnFollows ==
    ASSUME Counted, NEW r \in Call
    PROVE  Follows(Turn(r), r)
<1>1. r.pc # "idle" /\ r.todo \subseteq Subscribers
  BY DEF Call
<1>2. CASE r.todo = {}
  BY <1>2 DEF Turn, Follows, IdlePub
<1>3. CASE r.todo # {}
  <2> DEFINE c == [r EXCEPT !.pc = "push", !.at = None]
  <2>1. c.pc = "push" /\ c.at = None /\ c.value = r.value /\ c.todo = r.todo /\ Turn(r) = c
    BY <1>3 DEF Call, Turn
  <2> HIDE DEF c
  <2>2. \A s \in Subscribers : Due(c, s) => Due(r, s)
    BY <1>1, <2>1, SMTT(30) DEF Due, Counted
  <2> QED  BY <1>1, <2>1, <2>2 DEF Follows
<1> QED  BY <1>2, <1>3

\* A publisher that comes to s was due at it.
LEMMA EnteredFollows ==
    ASSUME Counted, ChannelTypeOK, NEW p \in Publishers, NEW s \in Subscribers, Take(p, s),
           NEW pc \in {"push", "waiting", "granted", "replace"}
    PROVE  Follows(Entered(p, s, pc), pub[p])
<1>1. /\ Entered(p, s, pc).pc = pc /\ Entered(p, s, pc).at = s
      /\ Entered(p, s, pc).todo = pub[p].todo \ {s}
      /\ Entered(p, s, pc).value = pub[p].value
  BY EnteredFacts
<1>2. s \in pub[p].todo /\ pub[p].pc = "push"
  BY SMTT(30) DEF Take
<1>3. \A t \in Subscribers : Due(Entered(p, s, pc), t) => Due(pub[p], t)
  BY <1>1, <1>2 DEF Due
<1> QED  BY <1>1, <1>2, <1>3, SMTT(30) DEF Follows

\* A publisher that passes s by was due at it.
LEMMA TurnedFollows ==
    ASSUME Counted, ChannelTypeOK, NEW p \in Publishers, NEW s \in Subscribers, Take(p, s)
    PROVE  Follows(Turn(Entered(p, s, "push")), pub[p])
<1>1. PICK e : e = Entered(p, s, "push")
  BY SMTT(30)
<1>2. e \in Call /\ Follows(e, pub[p])
  BY <1>1, EnteredFacts, EnteredFollows
<1>3. Follows(Turn(e), e)
  BY <1>2, TurnFollows, SMTT(30)
<1>4. Follows(Turn(e), pub[p])
  BY <1>2, <1>3 DEF Follows, Call
<1> QED  BY <1>1, <1>4

\* A call that stands still.
LEMMA SelfFollows ==
    ASSUME NEW r
    PROVE  Follows(r, r)
  BY DEF Follows

\* p's call alone goes on.
LEMMA OwnFollows ==
    ASSUME ChannelTypeOK, NEW p \in Publishers, NEW r, Follows(r, pub[p])
    PROVE  \A q \in Publishers : Follows([pub EXCEPT ![p] = r][q], pub[q])
<1>1. \A q \in Publishers : [pub EXCEPT ![p] = r][q] = IF q = p THEN r ELSE pub[q]
  BY SMTT(30) DEF ChannelTypeOK
<1> QED  BY <1>1, SelfFollows

\* A permit is handed on.
LEMMA ReleaseFollows ==
    ASSUME Counted, BusInv, NEW s \in Subscribers,
           NEW after \in [Publishers -> Call \union {IdlePub}], \A p \in Publishers : CallOK(after[p]),
           LineOK(after, waiters), ReleasePermit(s, after),
           \A q \in Publishers : Follows(after[q], pub[q])
    PROVE  Calls
<1>1. \A q \in Publishers :
         \/ pub'[q] = after[q]
         \/ after[q].pc = "waiting" /\ pub'[q] = [after[q] EXCEPT !.pc = "assigned"]
  <2>1. CASE s \in closed
    BY <2>1 DEF ReleasePermit
  <2>2. CASE s \notin closed
    <3>1. AddPermit(s, after) /\ ChannelTypeOK
      BY <2>2 DEF ReleasePermit, BusInv
    <3> QED  BY <3>1, AddPermitFacts, SMTT(30)
  <2> QED  BY <2>1, <2>2
<1>2. ASSUME NEW q \in Publishers
      PROVE  Follows(pub'[q], pub[q])
  <2>1. CASE pub'[q] = after[q]
    BY <2>1, Zenon
  <2>2. CASE after[q].pc = "waiting" /\ pub'[q] = [after[q] EXCEPT !.pc = "assigned"]
    <3>1. after[q] \in Call
      BY <2>2 DEF IdlePub
    <3>2. /\ pub'[q].pc = "assigned" /\ pub'[q].at = after[q].at
          /\ pub'[q].todo = after[q].todo /\ pub'[q].value = after[q].value
      BY <2>2, <3>1 DEF Call
    <3>3. \A t \in Subscribers : Due(pub'[q], t) => Due(after[q], t)
      BY <2>2, <3>2 DEF Due
    <3> QED  BY <2>2, <3>2, <3>3 DEF Follows
  <2> QED  BY <1>1, <2>1, <2>2, SMTT(30)
<1> QED  BY <1>2, Zenon DEF Calls

\* p's call goes on as r and a permit is handed on.
LEMMA ReleasedByFollows ==
    ASSUME Counted, BusInv, NEW p \in Publishers, NEW r, CallOK(r), Follows(r, pub[p]),
           pub[p].pc # "waiting", r.pc # "waiting", NEW s \in Subscribers,
           NEW after, after = [pub EXCEPT ![p] = r], ReleasePermit(s, after)
    PROVE  Calls
<1>1. /\ after \in [Publishers -> Call \union {IdlePub}] /\ \A q \in Publishers : CallOK(after[q])
      /\ LineOK(after, waiters)
  BY OwnStep, ZenonT(60) DEF BusInv
<1>2. \A q \in Publishers : Follows(after[q], pub[q])
  BY OwnFollows, SMTT(30) DEF BusInv
<1> QED  BY <1>1, <1>2, ReleaseFollows, Zenon

\* The queues and what was received stay.
LEMMA SameStreams ==
    ASSUME OrderInv, UNCHANGED <<queue, received>>
    PROVE  Streams
  BY DEF OrderInv, Streams

\* p's value goes into the queue of s, where p was due, and p goes on to another.
LEMMA OrderPush ==
    ASSUME Counted, BusInv, OrderInv, NEW p \in Publishers, NEW s \in Subscribers,
           pub[p].pc \in {"granted", "assigned", "replace"}, pub[p].at = s,
           pub' = [pub EXCEPT ![p] = Turn(pub[p])],
           queue' = [queue EXCEPT ![s] = Append(@, pub[p].value)],
           UNCHANGED <<received, count>>
    PROVE  OrderInv'
<1> DEFINE x == pub[p].value
           c == Turn(pub[p])
<1>1. /\ ChannelTypeOK /\ pub[p] \in Call /\ s \notin pub[p].todo /\ x \in Value
      /\ queue \in [Subscribers -> Seq(Value)] /\ received \in [Subscribers -> Seq(Value)]
  <2>1. ChannelTypeOK /\ CallOK(pub[p])
    BY Zenon DEF BusInv, ChannelTypeOK
  <2>2. pub[p] \in Call /\ s \notin pub[p].todo
    BY <2>1 DEF CallOK, IdlePub
  <2>3. x \in Value
    BY <2>2 DEF Call
  <2> QED  BY <2>1, <2>2, <2>3, Zenon DEF ChannelTypeOK
<1>2. /\ x[1] = p /\ x[2] <= count
      /\ \A v \in Seen(received[s], queue[s]) : Before(v, x)
  BY Zenon DEF OrderInv, Due
<1>3. pub'[p] = c /\ \A q \in Publishers : q # p => pub'[q] = pub[q]
  BY <1>1, SMTT(30) DEF ChannelTypeOK
<1>4. c.pc # "idle" => c.value = x /\ ~Due(c, s) /\ \A t \in Subscribers : Due(c, t) => Due(pub[p], t)
  <2>1. c.pc # "idle" => c.at = None /\ c.todo = pub[p].todo /\ c.pc = "push"
    BY <1>1, SMTT(30) DEF Turn, Call, IdlePub
  <2>2. Follows(c, pub[p])
    BY <1>1, TurnFollows, SMTT(30)
  <2> HIDE DEF c, x
  <2> QED  BY <1>1, <2>1, <2>2 DEF Follows, Due, Counted, x
<1> HIDE DEF c, x
<1>5. queue'[s] = Append(queue[s], x) /\ \A t \in Subscribers : t # s => queue'[t] = queue[t]
  BY <1>1, SMTT(30) DEF x
<1>6. /\ Ordered(received[s], queue'[s])
      /\ Seen(received[s], queue'[s]) \subseteq Seen(received[s], queue[s]) \union {x}
  <2>1. /\ received[s] \in Seq(Value) /\ queue[s] \in Seq(Value) /\ x \in Value
        /\ Ordered(received[s], queue[s])
    BY <1>1, Zenon DEF OrderInv
  <2>2. /\ Ordered(received[s], Append(queue[s], x))
        /\ Seen(received[s], Append(queue[s], x)) \subseteq Seen(received[s], queue[s]) \union {x}
    BY <1>2, <2>1, Pushed
  <2> QED  BY <1>5, <2>2, Zenon
<1>7. ASSUME NEW t \in Subscribers
      PROVE  /\ Ordered(received'[t], queue'[t])
             /\ \A v \in Seen(received'[t], queue'[t]) : v[2] <= count'
  <2>1. CASE t = s
    BY <1>2, <1>6, <2>1, ZenonT(60) DEF OrderInv
  <2>2. CASE t # s
    BY <1>5, <2>2, ZenonT(60) DEF OrderInv
  <2> QED  BY <2>1, <2>2, Zenon
<1>8. ASSUME NEW q \in Publishers, pub'[q].pc # "idle"
      PROVE  /\ pub'[q].value[1] = q /\ pub'[q].value[2] <= count'
             /\ \A t \in Subscribers : Due(pub'[q], t) =>
                  \A v \in Seen(received'[t], queue'[t]) : Before(v, pub'[q].value)
  <2>1. /\ pub[q].pc # "idle" /\ pub'[q].value = pub[q].value
        /\ \A t \in Subscribers : Due(pub'[q], t) => Due(pub[q], t)
    BY <1>3, <1>4, <1>8, SMTT(30) DEF x
  <2>2. pub'[q].value[1] = q /\ pub'[q].value[2] <= count'
    <3>1. pub[q].value[1] = q /\ pub[q].value[2] <= count
      BY <2>1, Zenon DEF OrderInv
    <3> QED  BY <2>1, <3>1
  <2>3. ASSUME NEW t \in Subscribers, Due(pub'[q], t), NEW v \in Seen(received'[t], queue'[t])
        PROVE  Before(v, pub'[q].value)
    <3>1. CASE v \in Seen(received[t], queue[t])
      BY <2>1, <2>3, <3>1, ZenonT(60) DEF OrderInv
    <3>2. CASE v \notin Seen(received[t], queue[t])
      <4>1. t = s /\ v = x
        BY <1>5, <1>6, <2>3, <3>2, SMTT(30)
      <4>2. q # p
        BY <1>3, <1>4, <1>8, <2>3, <4>1, SMTT(30)
      <4> QED  BY <1>2, <2>2, <4>1, <4>2, SMTT(30) DEF Before
    <3> QED  BY <3>1, <3>2, SMTT(30)
  <2> QED  BY <2>2, <2>3, ZenonT(60)
<1> QED  BY <1>7, <1>8, ZenonT(60) DEF OrderInv

\* p's call goes on as r and no value moves.
LEMMA OwnOrder ==
    ASSUME BusInv, OrderInv, NEW p \in Publishers, NEW r, Follows(r, pub[p]),
           pub' = [pub EXCEPT ![p] = r], UNCHANGED <<queue, received, count>>
    PROVE  OrderInv'
<1>1. Calls
  BY OwnFollows DEF BusInv, Calls
<1>2. Streams
  BY SameStreams
<1> QED  BY <1>1, <1>2, OrderKept

\* No call goes on and no value moves.
LEMMA OrderFrame ==
    ASSUME OrderInv, UNCHANGED <<queue, received, pub, count>>
    PROVE  OrderInv'
<1>1. Calls
  BY SelfFollows DEF Calls
<1>2. Streams
  BY SameStreams, SMTT(30)
<1> QED  BY <1>1, <1>2, OrderKept

\* publish gives its value a number no subscriber has seen.
LEMMA PublishOrder ==
    ASSUME Counted, BusInv, OrderInv, NEW p \in Publishers, NEW policy \in Policies,
           Publish(p, policy)
    PROVE  OrderInv'
<1> DEFINE r == [pc |-> "snapshot", policy |-> policy, at |-> None,
                 value |-> <<p, count + 1>>, todo |-> {}]
<1>1. /\ pub' = [pub EXCEPT ![p] = r] /\ count' = count + 1 /\ count \in Nat
      /\ UNCHANGED <<queue, received>> /\ ChannelTypeOK
  BY ZenonT(60) DEF Publish, channel, BusInv, ChannelTypeOK
<1>2. r.pc = "snapshot" /\ r.value[1] = p /\ r.value[2] = count + 1
  OBVIOUS
<1> HIDE DEF r
<1>3. pub'[p] = r /\ \A q \in Publishers : q # p => pub'[q] = pub[q]
  BY <1>1, SMTT(30) DEF ChannelTypeOK
<1>4. ASSUME NEW s \in Subscribers, NEW v \in Seen(received[s], queue[s])
      PROVE  v[2] \in Nat /\ v[2] <= count
  <2>1. received[s] \in Seq(Value) /\ queue[s] \in Seq(Value)
    BY <1>1 DEF ChannelTypeOK
  <2>2. v \in Value
    BY <2>1, SMTT(30) DEF Seen, Members
  <2> QED  BY <2>2, ZenonT(60) DEF Value, OrderInv
<1>5. ASSUME NEW s \in Subscribers
      PROVE  /\ Ordered(received'[s], queue'[s])
             /\ \A v \in Seen(received'[s], queue'[s]) : v[2] <= count'
  <2>1. Ordered(received[s], queue[s])
    BY Zenon DEF OrderInv
  <2>2. received' = received /\ queue' = queue /\ count' = count + 1 /\ count \in Nat
    BY <1>1, SMTT(30)
  <2>3. \A v \in Seen(received[s], queue[s]) : v[2] <= count + 1
    BY <1>4, <2>2
  <2> QED  BY <2>1, <2>2, <2>3, Zenon
<1>6. ASSUME NEW q \in Publishers, pub'[q].pc # "idle"
      PROVE  /\ pub'[q].value[1] = q /\ pub'[q].value[2] <= count'
             /\ \A s \in Subscribers : Due(pub'[q], s) =>
                  \A v \in Seen(received'[s], queue'[s]) : Before(v, pub'[q].value)
  <2>1. CASE q = p
    <3>1. pub'[q].value[1] = q /\ pub'[q].value[2] = count + 1
      BY <1>2, <1>3, <2>1, SMTT(30)
    <3>2. ASSUME NEW s \in Subscribers, NEW v \in Seen(received[s], queue[s])
          PROVE  Before(v, pub'[q].value)
      BY <1>1, <1>4, <3>1, SMTT(30) DEF Before
    <3> QED  BY <1>1, <3>1, <3>2
  <2>2. CASE q # p
    <3>1. pub'[q] = pub[q] /\ pub[q].value[1] = q /\ pub[q].value[2] <= count
      BY <1>3, <1>6, <2>2, Zenon DEF OrderInv
    <3>2. pub[q].value[2] \in Nat
      <4>1. pub[q] \in Call
        <5>1. CallOK(pub[q]) /\ pub[q].pc # "idle"
          BY <1>1, <1>6, <3>1, Zenon DEF ChannelTypeOK
        <5> QED  BY <5>1 DEF CallOK, IdlePub
      <4> QED  BY <4>1, SMTT(30) DEF Call, Value
    <3>3. pub[q].value[2] <= count'
      BY <1>1, <3>1, <3>2
    <3>4. \A s \in Subscribers : Due(pub[q], s) =>
             \A v \in Seen(received[s], queue[s]) : Before(v, pub[q].value)
      BY <1>6, <3>1, Zenon DEF OrderInv
    <3>5. received' = received /\ queue' = queue
      BY <1>1
    <3> QED  BY <3>1, <3>3, <3>4, <3>5, Zenon
  <2> QED  BY <2>1, <2>2, ZenonT(60)
<1> QED  BY <1>5, <1>6, ZenonT(60) DEF OrderInv

\* The snapshot leaves the call due at no more subscribers than before it.
LEMMA SnapshotOrder ==
    ASSUME Counted, BusInv, OrderInv, NEW p \in Publishers, Snapshot(p)
    PROVE  OrderInv'
<1>1. /\ pub[p].pc = "snapshot" /\ pub[p] \in Call /\ registered \subseteq Subscribers
      /\ UNCHANGED <<queue, received, count>>
  BY DEF Snapshot, channel, BusInv, ChannelTypeOK, IdlePub
<1>2. PICK c : c = [pub[p] EXCEPT !.todo = registered]
  BY ZenonT(60)
<1>3. c \in Call /\ c.value = pub[p].value /\ pub' = [pub EXCEPT ![p] = Turn(c)]
  BY <1>1, <1>2, SMTT(30) DEF Call, Snapshot
<1>4. Follows(Turn(c), c)
  BY <1>3, TurnFollows, SMTT(30)
<1>5. Follows(Turn(c), pub[p])
  BY <1>1, <1>3, <1>4 DEF Follows, Due
<1>6. PICK r : r = Turn(c)
  OBVIOUS
<1> QED  BY <1>1, <1>3, <1>5, <1>6, OwnOrder, Zenon

\* A closed subscriber is passed over; a permit is taken, waited for or not to be had.
LEMMA TakeOrder ==
    ASSUME Counted, BusInv, OrderInv, NEW p \in Publishers, NEW s \in Subscribers,
           PushClosed(p, s) \/ AcquirePermit(p, s)
    PROVE  OrderInv'
<1>1. Take(p, s) /\ ChannelTypeOK /\ UNCHANGED <<queue, received, count>>
  BY DEF PushClosed, AcquirePermit, channel, BusInv
<1>2. /\ Follows(Turn(Entered(p, s, "push")), pub[p])
      /\ Follows(Entered(p, s, "granted"), pub[p]) /\ Follows(Entered(p, s, "waiting"), pub[p])
  BY <1>1, TurnedFollows, EnteredFollows
<1>3. PICK r : Follows(r, pub[p]) /\ pub' = [pub EXCEPT ![p] = r]
  <2>1. \/ pub' = [pub EXCEPT ![p] = Turn(Entered(p, s, "push"))]
        \/ pub' = [pub EXCEPT ![p] = Entered(p, s, "granted")]
        \/ pub' = [pub EXCEPT ![p] = Entered(p, s, "waiting")]
    BY SMTT(30) DEF PushClosed, AcquirePermit
  <2> QED  BY <1>2, <2>1, SMTT(30)
<1> QED  BY <1>1, <1>3, OwnOrder, ZenonT(60)

\* A wait ends by timeout or by a dropped future, which may hand its permit on.
LEMMA EndWaitOrder ==
    ASSUME Counted, BusInv, OrderInv, NEW p \in Publishers, GiveUp(p) \/ Abandon(p)
    PROVE  OrderInv'
<1>1. UNCHANGED <<queue, received, count>> /\ ChannelTypeOK /\ CallOK(pub[p])
  BY SMTT(30) DEF GiveUp, Abandon, BusInv, ChannelTypeOK
<1>2. Follows(IdlePub, pub[p]) /\ CallOK(IdlePub) /\ IdlePub.pc = "idle"
  BY DEF Follows, IdlePub, CallOK
<1>3. CASE GiveUp(p)
  <2>1. pub[p] \in Call /\ pub' = [pub EXCEPT ![p] = Turn(pub[p])]
    BY <1>1, <1>3 DEF GiveUp, CallOK, IdlePub
  <2>2. PICK r : r = Turn(pub[p])
    OBVIOUS
  <2>3. Follows(r, pub[p]) /\ pub' = [pub EXCEPT ![p] = r]
    BY <2>1, <2>2, TurnFollows
  <2> QED  BY <1>1, <2>3, OwnOrder, Zenon
<1>4. CASE pub' = [pub EXCEPT ![p] = IdlePub]
  BY <1>1, <1>2, <1>4, OwnOrder, ZenonT(60)
<1>5. CASE pub[p].pc = "assigned" /\ ReleasePermit(pub[p].at, [pub EXCEPT ![p] = IdlePub])
  <2>1. PICK s \in Subscribers : s = pub[p].at
    BY <1>1, <1>5 DEF CallOK
  <2>2. PICK after : after = [pub EXCEPT ![p] = IdlePub]
    BY ZenonT(60)
  <2>3. ReleasePermit(s, after)
    BY <1>5, <2>1, <2>2 DEF ReleasePermit, AddPermit
  <2>4. Calls
    BY <1>2, <1>5, <2>2, <2>3, ReleasedByFollows, ZenonT(60)
  <2>5. Streams
    BY <1>1, SameStreams, SMTT(30)
  <2> QED  BY <1>1, <2>4, <2>5, OrderKept, SMTT(30)
<1> QED  BY <1>3, <1>4, <1>5, ZenonT(60) DEF Abandon

\* enqueue puts the value behind all that was seen of its publisher, or hands the permit on.
LEMMA EnqueueOrder ==
    ASSUME Counted, BusInv, OrderInv, NEW p \in Publishers, Enqueue(p)
    PROVE  OrderInv'
<1>1. /\ UNCHANGED <<received, count>> /\ CallOK(pub[p])
      /\ pub[p].pc \in {"granted", "assigned"}
  BY ZenonT(60) DEF Enqueue, BusInv, ChannelTypeOK
<1>2. pub[p] \in Call
  BY <1>1 DEF CallOK, IdlePub
<1>3. PICK s \in Subscribers : s = pub[p].at
  BY <1>1, SMTT(30) DEF CallOK
<1>4. CASE ReleasePermit(pub[p].at, [pub EXCEPT ![p] = Turn(@)]) /\ UNCHANGED <<queue, notified, stored>>
  <2>1. PICK r : r = Turn(pub[p])
    BY SMTT(30)
  <2>2. CallOK(r) /\ r.pc # "waiting" /\ Follows(r, pub[p])
    BY <1>2, <2>1, TurnFacts, TurnFollows, ZenonT(60)
  <2>3. PICK after : after = [pub EXCEPT ![p] = r]
    BY ZenonT(60)
  <2>4. ReleasePermit(s, after)
    BY <1>3, <1>4, <2>1, <2>3 DEF ReleasePermit, AddPermit
  <2>5. Calls
    BY <1>1, <2>2, <2>3, <2>4, ReleasedByFollows, Zenon
  <2>6. Streams
    BY <1>1, <1>4, SameStreams
  <2> QED  BY <1>1, <2>5, <2>6, OrderKept
<1>5. CASE /\ queue' = [queue EXCEPT ![pub[p].at] = PushBack(@, pub[p].value)]
           /\ pub' = [pub EXCEPT ![p] = Turn(@)]
  <2>1. /\ queue' = [queue EXCEPT ![s] = Append(@, pub[p].value)]
        /\ pub' = [pub EXCEPT ![p] = Turn(pub[p])]
    BY <1>3, <1>5 DEF PushBack
  <2> QED  BY <1>1, <1>3, <2>1, OrderPush, ZenonT(60)
<1> QED  BY <1>4, <1>5 DEF Enqueue

\* replace_oldest evicts from the front, and later pushes at the back.
LEMMA ReplaceOldestOrder ==
    ASSUME Counted, BusInv, OrderInv, NEW p \in Publishers, NEW s \in Subscribers, ReplaceOldest(p, s)
    PROVE  OrderInv'
<1>1. /\ Take(p, s) /\ pub[p].pc = "push" /\ ChannelTypeOK /\ s \notin closed
      /\ UNCHANGED <<received, count>>
  BY DEF ReplaceOldest, Take, BusInv
<1>2. PICK r : r = Entered(p, s, "replace")
  BY SMTT(30)
<1>3. CallOK(r) /\ r.pc = "replace" /\ Follows(r, pub[p])
  BY <1>1, <1>2, EnteredFacts, EnteredFollows, ZenonT(60)
<1>4. CASE Len(queue[s]) >= Capacity
  <2>1. PICK after : after = [pub EXCEPT ![p] = r]
    BY Zenon
  <2>2. queue' = [queue EXCEPT ![s] = Tail(@)] /\ ReleasePermit(s, after)
    BY <1>1, <1>2, <1>4, <2>1 DEF ReplaceOldest, AddPermit, ReleasePermit
  <2>3. Calls
    BY <1>1, <1>3, <2>1, <2>2, ReleasedByFollows, ZenonT(60)
  <2>4. /\ queue \in [Subscribers -> Seq(Value)] /\ received \in [Subscribers -> Seq(Value)]
        /\ queue[s] # <<>>
    BY <1>1, <1>4, BusAssumption DEF ChannelTypeOK
  <2>5. /\ Ordered(received[s], Tail(queue[s]))
        /\ Seen(received[s], Tail(queue[s])) \subseteq Seen(received[s], queue[s])
    BY <2>4, Evicted, ZenonT(60) DEF OrderInv
  <2>6. Streams
    BY <1>1, <2>2, <2>4, <2>5, ZenonT(60) DEF OrderInv, Streams
  <2> QED  BY <1>1, <2>3, <2>6, OrderKept
<1>5. CASE ~(Len(queue[s]) >= Capacity)
  <2>1. pub' = [pub EXCEPT ![p] = r] /\ UNCHANGED queue
    BY <1>2, <1>5 DEF ReplaceOldest
  <2> QED  BY <1>1, <1>3, <2>1, OwnOrder, ZenonT(60)
<1> QED  BY <1>4, <1>5

\* A replacing publisher queues its value if it still finds a permit, and
\* reports Closed otherwise.
LEMMA ReplaceFinishOrder ==
    ASSUME Counted, BusInv, OrderInv, NEW p \in Publishers, ReplaceFinish(p)
    PROVE  OrderInv'
<1>1. /\ UNCHANGED <<received, count>> /\ CallOK(pub[p]) /\ pub[p].pc = "replace"
      /\ pub' = [pub EXCEPT ![p] = Turn(pub[p])]
  BY SMTT(30) DEF ReplaceFinish, BusInv, ChannelTypeOK
<1>2. pub[p] \in Call
  <2>1. pub[p] # IdlePub
    BY <1>1, SMTT(30) DEF IdlePub
  <2> QED  BY <1>1, <2>1, Zenon DEF CallOK
<1>3. PICK s \in Subscribers : s = pub[p].at
  BY <1>1 DEF CallOK
<1>4. CASE permits[s] > 0
  <2>1. queue' = [queue EXCEPT ![s] = Append(@, pub[p].value)]
    BY <1>3, <1>4, ZenonT(60) DEF ReplaceFinish, PushBack
  <2> QED  BY <1>1, <1>3, <2>1, OrderPush, ZenonT(60)
<1>5. CASE ~(permits[s] > 0)
  <2>1. UNCHANGED queue
    BY <1>3, <1>5 DEF ReplaceFinish
  <2>2. PICK r : r = Turn(pub[p])
    OBVIOUS
  <2>3. Follows(r, pub[p]) /\ pub' = [pub EXCEPT ![p] = r]
    BY <1>1, <1>2, <2>2, TurnFollows
  <2> QED  BY <1>1, <2>1, <2>3, OwnOrder, ZenonT(60)
<1> QED  BY <1>4, <1>5, SMTT(30)

\* pop moves the head of the queue behind all that was received.
LEMMA PopOrder ==
    ASSUME Counted, BusInv, OrderInv, NEW s \in Subscribers, Pop(s)
    PROVE  OrderInv'
<1>1. PICK after : after = pub
  OBVIOUS
<1>2. /\ ReleasePermit(s, after) /\ queue[s] # <<>> /\ queue' = [queue EXCEPT ![s] = Tail(@)]
      /\ received' = [received EXCEPT ![s] = Append(@, Head(queue[s]))] /\ count' = count
  BY <1>1 DEF Pop, PopReturnsPermit, ReleasePermit, AddPermit
<1>3. /\ queue \in [Subscribers -> Seq(Value)] /\ received \in [Subscribers -> Seq(Value)]
      /\ after \in [Publishers -> Call \union {IdlePub}] /\ \A q \in Publishers : CallOK(after[q])
      /\ LineOK(after, waiters)
  BY <1>1 DEF BusInv, ChannelTypeOK
<1>4. Calls
  <2>1. \A q \in Publishers : Follows(after[q], pub[q])
    BY <1>1, SelfFollows
  <2> QED  BY <1>2, <1>3, <2>1, ReleaseFollows, Zenon
<1>5. /\ Ordered(Append(received[s], Head(queue[s])), Tail(queue[s]))
      /\ Seen(Append(received[s], Head(queue[s])), Tail(queue[s])) \subseteq Seen(received[s], queue[s])
  BY <1>2, <1>3, Popped, ZenonT(60) DEF OrderInv
<1>6. Streams
  BY <1>2, <1>3, <1>5, ZenonT(60) DEF OrderInv, Streams
<1> QED  BY <1>2, <1>4, <1>6, OrderKept

\* Every step keeps the order.
LEMMA OrderStep ==
    ASSUME Counted, BusInv, OrderInv, [Next]_vars
    PROVE  OrderInv'
<1>1. CASE UNCHANGED vars
  BY <1>1, OrderFrame DEF vars
<1>2. ASSUME NEW s \in Subscribers,
             \/ Subscribe(s) \/ Insert(s) \/ Recheck(s) \/ CloseSubscription(s) \/ Remove(s)
             \/ DropSubscription(s) \/ CloseBusSweep(s) \/ Arm(s) \/ FoundEmpty(s)
             \/ ReturnClosed(s) \/ Sleep(s) \/ Wake(s) \/ CancelRecv(s)
      PROVE  OrderInv'
  <2>1. UNCHANGED <<queue, received, pub, count>>
    BY <1>2, ZenonT(60) DEF Subscribe, Insert, Recheck, CloseSubscription, Remove,
       DropSubscription,
                CloseBusSweep, Arm, FoundEmpty, ReturnClosed, Sleep, Wake, CancelRecv, channel
  <2> QED  BY <2>1, OrderFrame, SMTT(30)
<1>3. CASE CloseBus \/ CloseBusSnapshot \/ CloseBusClear \/ DropBus
  <2>1. UNCHANGED <<queue, received, pub, count>>
    BY <1>3, Zenon DEF CloseBus, CloseBusSnapshot, CloseBusClear, DropBus, channel
  <2> QED  BY <2>1, OrderFrame, SMTT(30)
<1> QED  BY <1>1, <1>2, <1>3, PopOrder, PublishOrder, SnapshotOrder, EndWaitOrder, EnqueueOrder,
            ReplaceFinishOrder, TakeOrder, ReplaceOldestOrder, SMTT(30) DEF Next

-----------------------------------------------------------------------------
(* The theorems.                                                            *)

INSTANCE FiniteSetTheorems

\* Sets of finitely many publishers can be counted.
LEMMA PartiesCounted == Parties => Counted
<1> SUFFICES ASSUME Parties  PROVE Counted
  OBVIOUS
<1>1. \A S \in SUBSET Publishers : IsFiniteSet(S)
  BY FS_Subset DEF Parties
<1> QED  BY <1>1, FS_EmptySet, FS_CardinalityType, FS_AddElement, SMTT(30) DEF Counted, Parties

\* Every slot of an open subscriber's queue holds a value, has a permit available, or is promised
\* to a publisher: no enqueue, eviction, timeout or dropped future loses a permit or makes one.
THEOREM BusPermitsAccount == Parties /\ Spec => []PermitsAccount
<1>1. Counted => Counted'
  BY DEF Counted
<1>2. Counted /\ Init => BusInv
  BY BusStart
<1>3. Counted /\ BusInv /\ [Next]_vars => BusInv'
  BY BusStep
<1>4. BusInv => PermitsAccount
  BY DEF BusInv
<1> QED  BY <1>1, <1>2, <1>3, <1>4, PartiesCounted, PTL DEF Spec

\* What a subscriber receives of one publisher comes in the order it was published, each value
\* once, whatever was evicted, refused, timed out or abandoned in between; and once close() has
\* returned no subscription is left open.
THEOREM BusInOrderUntilClosed == Parties /\ Spec => []InOrderUntilClosed
<1>1. Counted => Counted'
  BY DEF Counted
<1>2. Counted /\ Init => BusInv /\ OrderInv
  <2> SUFFICES ASSUME Counted, Init  PROVE OrderInv
    BY BusStart
  <2>1. \A s \in Subscribers : received[s] = <<>> /\ queue[s] = <<>>
    BY DEF Init
  <2>2. \A p \in Publishers : pub[p].pc = "idle"
    BY DEF Init, IdlePub
  <2>3. Ordered(<<>>, <<>>) /\ Seen(<<>>, <<>>) = {}
    BY DEF Ordered, Increasing, Seen, Members
  <2> QED  BY <2>1, <2>2, <2>3, ZenonT(60) DEF OrderInv
<1>3. Counted /\ BusInv /\ OrderInv /\ [Next]_vars => BusInv' /\ OrderInv'
  BY BusStep, OrderStep, SMTT(30)
<1>4. BusInv /\ OrderInv => ReceivedInOrder
  <2> SUFFICES ASSUME BusInv, OrderInv, NEW s \in Subscribers,
                      NEW i \in DOMAIN received[s], NEW j \in DOMAIN received[s], i < j,
                      received[s][i][1] = received[s][j][1]
               PROVE  received[s][i][2] < received[s][j][2]
    BY ZenonT(60) DEF ReceivedInOrder
  <2>1. DOMAIN received[s] = 1..Len(received[s])
    BY SMTT(30) DEF BusInv, ChannelTypeOK
  <2>2. Before(received[s][i], received[s][j])
    BY <2>1, Zenon DEF OrderInv, Ordered, Increasing
  <2> QED  BY <2>2, SMTT(30) DEF Before
<1>5. ReceivedInOrder /\ ClosedBusIsQuiet => InOrderUntilClosed
  BY DEF InOrderUntilClosed
<1> QED  BY <1>1, <1>2, <1>3, <1>4, <1>5, BusClosedIsQuiet, PartiesCounted, PTL DEF Spec
=============================================================================
