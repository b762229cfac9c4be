------------------------------ MODULE EventBus ------------------------------
(***************************************************************************)
(* The bounded event bus (core/src/backpressure.rs) as the simulation       *)
(* stream uses it (core/src/ws.rs): publishers push a value to a snapshot   *)
(* of the subscribers, each with a bounded queue behind a lock, a semaphore *)
(* with one permit per free slot, and a Notify its receiver sleeps on.      *)
(*                                                                          *)
(* The semaphore and the Notify are tokio's: a released permit goes to the  *)
(* longest waiting acquirer before it becomes available; notify_one wakes   *)
(* the registered receiver or is stored, notify_waiters is never stored.    *)
(***************************************************************************)
EXTENDS Integers, Sequences, FiniteSets

CONSTANTS Subscribers, Publishers,
          Capacity,    \* BoundedEventBus::capacity
          None,
          MaxPublish   \* bound: values published

ASSUME BusAssumption == Capacity \in Nat \ {0} /\ MaxPublish \in Nat

VARIABLES bus,         \* BusInner::closed and how far close() got
          registered,  \* BusInner::subscribers
          sweep,       \* subscribers close() has yet to close
          phase,       \* subscriber -> where its subscribe, close or drop is
          closed,      \* subscribers whose `closed` is set and semaphore closed
          queue,       \* subscriber -> Subscriber::queue
          lock,        \* subscriber -> the publisher inside replace_oldest, or None
          permits,     \* subscriber -> permits available
          waiters,     \* subscriber -> publishers waiting for a permit, oldest first
          rx,          \* subscriber -> where recv is
          notified,    \* subscriber -> how the registered receiver was woken
          stored,      \* subscriber -> a notification is stored
          pub,         \* publisher -> where its publish is
          count,       \* values published so far
          received,    \* history: subscriber -> what its receiver got, in order
          refused      \* history: open subscribers that refused a terminal event

vars == <<bus, registered, sweep, phase, closed, queue, lock, permits, waiters, rx,
          notified, stored, pub, count, received, refused>>
subscription == <<bus, registered, sweep, phase>>
channel == <<queue, permits, waiters, received>>
receiver == <<rx, notified, stored>>

Policies == {"DropOldest", "DropNewest", "Wait", "Async"}
IdlePub == [pc |-> "idle", at |-> None]

Init ==
  /\ bus = "open"
  /\ registered = {} /\ sweep = {} /\ closed = {} /\ refused = {}
  /\ phase = [s \in Subscribers |-> "none"]
  /\ queue = [s \in Subscribers |-> <<>>]
  /\ lock = [s \in Subscribers |-> None]
  /\ permits = [s \in Subscribers |-> Capacity]
  /\ waiters = [s \in Subscribers |-> <<>>]
  /\ rx = [s \in Subscribers |-> "idle"]
  /\ notified = [s \in Subscribers |-> "no"]
  /\ stored = [s \in Subscribers |-> FALSE]
  /\ pub = [p \in Publishers |-> IdlePub]
  /\ count = 0
  /\ received = [s \in Subscribers |-> <<>>]

-----------------------------------------------------------------------------
(* tokio's Semaphore and Notify.                                            *)

Listening(s) == rx[s] \in {"armed", "empty", "asleep"} /\ notified[s] = "no"

notify_one(s) ==
  /\ notified' = IF Listening(s) THEN [notified EXCEPT ![s] = "one"] ELSE notified
  /\ stored' = IF Listening(s) THEN stored ELSE [stored EXCEPT ![s] = TRUE]

notify_waiters(s) ==
  /\ notified' = IF Listening(s) THEN [notified EXCEPT ![s] = "all"] ELSE notified
  /\ stored' = stored

\* add_permits(1) on an open semaphore; `after` is pub as the caller leaves it.
AddPermit(s, after) ==
  IF waiters[s] = <<>>
  THEN permits' = [permits EXCEPT ![s] = @ + 1] /\ waiters' = waiters /\ pub' = after
  ELSE /\ pub' = [after EXCEPT ![Head(waiters[s])].pc = "assigned"]
       /\ waiters' = [waiters EXCEPT ![s] = Tail(@)]
       /\ permits' = permits

\* A closed semaphore hands nothing out, so its permits no longer matter.
ReleasePermit(s, after) ==
  IF s \in closed THEN permits' = permits /\ waiters' = waiters /\ pub' = after
  ELSE AddPermit(s, after)

-----------------------------------------------------------------------------
(* Subscribing, unsubscribing and closing.                                  *)

\* Subscriber::close, all under the queue lock.
CloseSilently(s) == UNCHANGED <<notified, stored>>
CloseWakes(s) == notify_waiters(s)

CloseSubscriber(s) ==
  /\ lock[s] = None
  /\ closed' = closed \union {s}
  /\ CloseWakes(s)

Subscribe(s) ==
  /\ phase[s] = "none" /\ bus # "gone"
  /\ IF bus # "open"
     THEN CloseSubscriber(s) /\ phase' = [phase EXCEPT ![s] = "live"]
     ELSE phase' = [phase EXCEPT ![s] = "insert"] /\ UNCHANGED <<closed, notified, stored>>
  /\ UNCHANGED <<bus, registered, sweep, channel, lock, rx, pub, count, refused>>

Insert(s) ==
  /\ phase[s] = "insert"
  /\ registered' = registered \union {s}
  /\ phase' = [phase EXCEPT ![s] = "recheck"]
  /\ UNCHANGED <<bus, sweep, closed, channel, lock, receiver, pub, count, refused>>

\* The bus may have been closed since subscribe looked the first time.
RecheckSkipped == FALSE
RecheckCloses == bus # "open"

Recheck(s) ==
  /\ phase[s] = "recheck"
  /\ IF RecheckCloses
     THEN CloseSubscriber(s) /\ phase' = [phase EXCEPT ![s] = "remove"]
     ELSE phase' = [phase EXCEPT ![s] = "live"] /\ UNCHANGED <<closed, notified, stored>>
  /\ UNCHANGED <<bus, registered, sweep, channel, lock, rx, pub, count, refused>>

\* BoundedSubscription::close, whose second half is BusInner::remove.
CloseSubscription(s) ==
  /\ phase[s] = "live" /\ rx[s] = "idle" /\ s \notin closed
  /\ CloseSubscriber(s)
  /\ phase' = [phase EXCEPT ![s] = "remove"]
  /\ UNCHANGED <<bus, registered, sweep, channel, lock, rx, pub, count, refused>>

Remove(s) ==
  /\ phase[s] = "remove"
  /\ registered' = registered \ {s}
  /\ phase' = [phase EXCEPT ![s] = "live"]
  /\ UNCHANGED <<bus, sweep, closed, channel, lock, receiver, pub, count, refused>>

\* Dropping a subscription removes it from the bus and leaves the subscriber open.
DropSubscription(s) ==
  /\ phase[s] = "live" /\ rx[s] = "idle"
  /\ registered' = registered \ {s}
  /\ phase' = [phase EXCEPT ![s] = "dropped"]
  /\ UNCHANGED <<bus, sweep, closed, channel, lock, receiver, pub, count, refused>>

\* BoundedEventBus::close: set the flag, snapshot, close one by one, clear.
CloseBus ==
  /\ bus = "open"
  /\ bus' = "closing"
  /\ UNCHANGED <<registered, sweep, phase, closed, channel, lock, receiver, pub, count, refused>>

CloseBusSnapshot ==
  /\ bus = "closing"
  /\ bus' = "sweeping"
  /\ sweep' = registered
  /\ UNCHANGED <<registered, phase, closed, channel, lock, receiver, pub, count, refused>>

CloseBusSweep(s) ==
  /\ bus = "sweeping" /\ s \in sweep
  /\ CloseSubscriber(s)
  /\ sweep' = sweep \ {s}
  /\ UNCHANGED <<bus, registered, phase, channel, lock, rx, pub, count, refused>>

CloseBusClear ==
  /\ bus = "sweeping" /\ sweep = {}
  /\ bus' = "closed"
  /\ registered' = {}
  /\ UNCHANGED <<sweep, phase, closed, channel, lock, receiver, pub, count, refused>>

\* The last handle of the bus goes: BusInner's Drop closes whoever is still registered.
DropBus ==
  /\ bus \in {"open", "closed"}
  /\ \A p \in Publishers : pub[p].pc = "idle"
  /\ \A s \in Subscribers : phase[s] \notin {"insert", "recheck"}
  /\ bus' = "gone"
  /\ closed' = closed \union registered
  /\ notified' = [s \in Subscribers |->
                    IF s \in registered /\ Listening(s) THEN "all" ELSE notified[s]]
  /\ UNCHANGED <<registered, sweep, phase, channel, lock, rx, stored, pub, count, refused>>

-----------------------------------------------------------------------------
(* Publishing.                                                              *)

\* The flag is read first; a closed bus refuses the value outright.
Publish(p, policy) ==
  /\ pub[p].pc = "idle" /\ count < MaxPublish /\ bus = "open"
  /\ count' = count + 1
  /\ pub' = [pub EXCEPT ![p] = [pc |-> "snapshot", policy |-> policy, at |-> None,
                                value |-> <<p, count + 1>>, todo |-> {}]]
  /\ UNCHANGED <<subscription, closed, channel, lock, receiver, refused>>

\* The loop over the snapshot goes on to another subscriber, or publish returns.
Turn(call) == IF call.todo = {} THEN IdlePub ELSE [call EXCEPT !.pc = "push", !.at = None]

Snapshot(p) ==
  /\ pub[p].pc = "snapshot"
  /\ pub' = [pub EXCEPT ![p] = Turn([@ EXCEPT !.todo = registered])]
  /\ UNCHANGED <<subscription, closed, channel, lock, receiver, count, refused>>

Take(p, s) ==
  /\ pub[p].pc = "push" /\ s \in pub[p].todo

Entered(p, s, pc) == [pub[p] EXCEPT !.pc = pc, !.at = s, !.todo = @ \ {s}]

\* A closed subscriber refuses the value; the first check takes no lock.
PushClosed(p, s) ==
  /\ Take(p, s) /\ s \in closed
  /\ pub' = [pub EXCEPT ![p] = Turn(Entered(p, s, "push"))]
  /\ UNCHANGED <<subscription, closed, channel, lock, receiver, count, refused>>

\* try_acquire_owned or acquire_owned: a permit, WouldBlock or Dropped, or a place in line.
AcquirePermit(p, s) ==
  /\ Take(p, s) /\ s \notin closed /\ pub[p].policy # "DropOldest"
  /\ \/ /\ permits[s] > 0
        /\ permits' = [permits EXCEPT ![s] = @ - 1]
        /\ pub' = [pub EXCEPT ![p] = Entered(p, s, "granted")]
        /\ waiters' = waiters
     \/ /\ permits[s] = 0 /\ pub[p].policy = "Async"
        /\ waiters' = [waiters EXCEPT ![s] = Append(@, p)]
        /\ pub' = [pub EXCEPT ![p] = Entered(p, s, "waiting")]
        /\ permits' = permits
     \/ /\ permits[s] = 0 /\ pub[p].policy # "Async"
        /\ pub' = [pub EXCEPT ![p] = Turn(Entered(p, s, "push"))]
        /\ UNCHANGED <<permits, waiters>>
  /\ UNCHANGED <<subscription, closed, queue, received, lock, receiver, count, refused>>

\* The line without p, who stands in it once.
WithoutWaiter(p, s) ==
  LET line == waiters[s]
      place == CHOOSE i \in 1..Len(line) : line[i] = p IN
  [i \in 1..(Len(line) - 1) |-> IF i < place THEN line[i] ELSE line[i + 1]]

\* The wait ends without a permit: the timeout, or the semaphore was closed.
GiveUp(p) ==
  LET s == pub[p].at IN
  /\ pub[p].pc = "waiting"
  /\ waiters' = [waiters EXCEPT ![s] = WithoutWaiter(p, s)]
  /\ pub' = [pub EXCEPT ![p] = Turn(@)]
  /\ UNCHANGED <<subscription, closed, queue, permits, received, lock, receiver, count, refused>>

\* The future of publish_async is dropped at its await; a permit it was given goes back.
Abandon(p) ==
  LET s == pub[p].at IN
  /\ \/ /\ pub[p].pc = "waiting"
        /\ waiters' = [waiters EXCEPT ![s] = WithoutWaiter(p, s)]
        /\ pub' = [pub EXCEPT ![p] = IdlePub]
        /\ permits' = permits
     \/ pub[p].pc = "assigned" /\ ReleasePermit(s, [pub EXCEPT ![p] = IdlePub])
  /\ UNCHANGED <<subscription, closed, queue, received, lock, receiver, count, refused>>

PushBack(q, v) == Append(q, v)

\* Subscriber::enqueue under the queue lock; the permit is forgotten with the value in.
Enqueue(p) ==
  LET s == pub[p].at IN
  /\ pub[p].pc \in {"granted", "assigned"} /\ lock[s] = None
  /\ IF s \in closed \/ Len(queue[s]) >= Capacity
     THEN /\ ReleasePermit(s, [pub EXCEPT ![p] = Turn(@)])
          /\ UNCHANGED <<queue, notified, stored>>
     ELSE /\ queue' = [queue EXCEPT ![s] = PushBack(@, pub[p].value)]
          /\ pub' = [pub EXCEPT ![p] = Turn(@)]
          /\ notify_one(s)
          /\ UNCHANGED <<permits, waiters>>
  /\ UNCHANGED <<subscription, closed, received, lock, rx, count, refused>>

\* replace_oldest: with the lock, a full queue loses its head, whose permit is released ...
ReplaceOldest(p, s) ==
  /\ Take(p, s) /\ s \notin closed /\ pub[p].policy = "DropOldest"
  /\ lock[s] = None
  /\ lock' = [lock EXCEPT ![s] = p]
  /\ LET entered == [pub EXCEPT ![p] = Entered(p, s, "replace")] IN
     IF Len(queue[s]) >= Capacity
     THEN queue' = [queue EXCEPT ![s] = Tail(@)] /\ AddPermit(s, entered)
     ELSE pub' = entered /\ UNCHANGED <<queue, permits, waiters>>
  /\ UNCHANGED <<subscription, closed, received, receiver, count, refused>>

\* ... and a permit is asked for again; without one the call reports Closed.
ReplaceFinish(p) ==
  LET s == pub[p].at IN
  /\ pub[p].pc = "replace"
  /\ lock' = [lock EXCEPT ![s] = None]
  /\ IF permits[s] > 0
     THEN /\ permits' = [permits EXCEPT ![s] = @ - 1]
          /\ queue' = [queue EXCEPT ![s] = PushBack(@, pub[p].value)]
          /\ notify_one(s)
          /\ refused' = refused
     ELSE /\ refused' = refused \union {s}
          /\ UNCHANGED <<permits, queue, notified, stored>>
  /\ pub' = [pub EXCEPT ![p] = Turn(@)]
  /\ UNCHANGED <<subscription, closed, waiters, received, rx, count>>

-----------------------------------------------------------------------------
(* Receiving.                                                               *)

\* recv registers with the Notify before it looks at the queue.
Arm(s) ==
  /\ phase[s] = "live" /\ rx[s] = "idle"
  /\ rx' = [rx EXCEPT ![s] = "armed"]
  /\ notified' = [notified EXCEPT ![s] = IF stored[s] THEN "one" ELSE "no"]
  /\ stored' = [stored EXCEPT ![s] = FALSE]
  /\ UNCHANGED <<subscription, closed, channel, lock, pub, count, refused>>

\* pop, by recv or (idle) by try_recv.  It notifies, and as the receiver leaves the loop the
\* notification stays stored for its next turn.
PopReturnsNothing(s) == permits' = permits /\ waiters' = waiters /\ pub' = pub
PopReturnsPermit(s) == ReleasePermit(s, pub)

Pop(s) ==
  /\ phase[s] = "live" /\ rx[s] \in {"idle", "armed"} /\ lock[s] = None
  /\ queue[s] # <<>>
  /\ queue' = [queue EXCEPT ![s] = Tail(@)]
  /\ received' = [received EXCEPT ![s] = Append(@, Head(queue[s]))]
  /\ PopReturnsPermit(s)
  /\ rx' = [rx EXCEPT ![s] = "idle"]
  /\ notified' = [notified EXCEPT ![s] = "no"]
  /\ stored' = [stored EXCEPT ![s] = TRUE]
  /\ UNCHANGED <<subscription, closed, lock, count, refused>>

FoundEmpty(s) ==
  /\ rx[s] = "armed" /\ lock[s] = None /\ queue[s] = <<>>
  /\ rx' = [rx EXCEPT ![s] = "empty"]
  /\ UNCHANGED <<subscription, closed, channel, lock, notified, stored, pub, count, refused>>

\* A dropped Notified that notify_one had woken passes the notification on.
Disarm(s) ==
  /\ rx' = [rx EXCEPT ![s] = "idle"]
  /\ notified' = [notified EXCEPT ![s] = "no"]

\* recv returns Closed, or waits; it wakes to look again, or its future is dropped.
ReturnClosed(s) ==
  /\ rx[s] = "empty" /\ s \in closed
  /\ Disarm(s)
  /\ stored' = [stored EXCEPT ![s] = @ \/ notified[s] = "one"]
  /\ UNCHANGED <<subscription, closed, channel, lock, pub, count, refused>>

Sleep(s) ==
  /\ rx[s] = "empty" /\ s \notin closed
  /\ rx' = [rx EXCEPT ![s] = "asleep"]
  /\ UNCHANGED <<subscription, closed, channel, lock, notified, stored, pub, count, refused>>

Wake(s) ==
  /\ rx[s] = "asleep" /\ notified[s] # "no"
  /\ Disarm(s)
  /\ stored' = stored
  /\ UNCHANGED <<subscription, closed, channel, lock, pub, count, refused>>

CancelRecv(s) ==
  /\ rx[s] = "asleep"
  /\ Disarm(s)
  /\ stored' = [stored EXCEPT ![s] = @ \/ notified[s] = "one"]
  /\ UNCHANGED <<subscription, closed, channel, lock, pub, count, refused>>

Next ==
  \/ \E s \in Subscribers :
       \/ Subscribe(s) \/ Insert(s) \/ Recheck(s)
       \/ CloseSubscription(s) \/ Remove(s) \/ DropSubscription(s)
       \/ CloseBusSweep(s)
       \/ Arm(s) \/ Pop(s) \/ FoundEmpty(s) \/ ReturnClosed(s)
       \/ Sleep(s) \/ Wake(s) \/ CancelRecv(s)
  \/ CloseBus \/ CloseBusSnapshot \/ CloseBusClear \/ DropBus
  \/ \E p \in Publishers :
       \/ \E policy \in Policies : Publish(p, policy)
       \/ Snapshot(p) \/ GiveUp(p) \/ Abandon(p) \/ Enqueue(p) \/ ReplaceFinish(p)
       \/ \E s \in Subscribers :
            \/ PushClosed(p, s) \/ AcquirePermit(p, s) \/ ReplaceOldest(p, s)

Spec == Init /\ [][Next]_vars

-----------------------------------------------------------------------------
(* Properties.                                                              *)

Holders(s) == {p \in Publishers : pub[p].at = s /\ pub[p].pc \in {"granted", "assigned"}}

\* Every slot of an open subscriber is accounted for: a value in it, a permit available for it,
\* or a publisher that holds its permit.  Cancelled publishers and evictions lose none.
PermitsAccount ==
  \A s \in Subscribers \ closed :
    permits[s] + Len(queue[s]) + Cardinality(Holders(s)) = Capacity

\* A receiver asleep with no notification on its way has nothing to receive and is not closed:
\* recv registers before it looks, so no value and no close slips past it.
NoLostWakeup ==
  \A s \in Subscribers :
    rx[s] = "asleep" /\ notified[s] = "no" => queue[s] = <<>> /\ s \notin closed

\* What a subscriber receives from one publisher it receives in the order it was published, each
\* value once, whatever was evicted, refused or published by others in between.
ReceivedInOrder ==
  \A s \in Subscribers : \A i, j \in DOMAIN received[s] :
    i < j /\ received[s][i][1] = received[s][j][1] => received[s][i][2] < received[s][j][2]

\* Once close() has returned no subscription is left open, not even one whose subscribe ran
\* alongside: its receiver would wait for ever.
ClosedBusIsQuiet ==
  bus = "closed" => \A s \in Subscribers : phase[s] = "live" => s \in closed

\* Subscribers are sent events in the order they were published, and
\* nothing after the bus has closed.
InOrderUntilClosed == ReceivedInOrder /\ ClosedBusIsQuiet

\* "The server streams ... until the job reaches a terminal state ... at which point it sends the
\* final event": publishing a terminal event puts it into the queue of every open subscriber.
TerminalEventQueued == refused = {}
=============================================================================
