------------------------------ MODULE Webhooks ------------------------------
(***************************************************************************)
(* Webhook delivery (core/src/webhooks.rs): endpoints and the delivery log  *)
(* behind one lock, and passes of run_due that snapshot what is due, send   *)
(* without the lock and take it again to record each outcome.  Publishes,   *)
(* replays, switches and other passes run in between.                       *)
(*                                                                          *)
(* Time is kept as far as the code looks at it: a retry is `later` until    *)
(* its wait has passed, then it is `due`.                                   *)
(***************************************************************************)
EXTENDS Integers, Sequences, FiniteSets

CONSTANTS Endpoints, Events,
          Passes,      \* concurrent passes of run_due
          Retries,     \* the length of RETRY_SCHEDULE_SECS
          MaxReplays   \* bound: replays by an operator

VARIABLES endpoints,   \* endpoint -> "none", or its enable switch and the events it wants
          deliveries,  \* State::deliveries; a delivery's id is its place
          passes,      \* pass -> ids it snapshot and has yet to record
          replays,     \* replays so far
          failed       \* history: id -> failures recorded since it was published or replayed

vars == <<endpoints, deliveries, passes, replays, failed>>

Unregistered == [enabled |-> FALSE, events |-> {}]

Init ==
  /\ endpoints = [e \in Endpoints |-> Unregistered]
  /\ deliveries = <<>>
  /\ passes = [p \in Passes |-> {}]
  /\ replays = 0
  /\ failed = <<>>

\* Registering again replaces the endpoint; an empty filter wants every event.
RegisterEndpoint(e, wanted) ==
  /\ endpoints' = [endpoints EXCEPT ![e] =
                     [enabled |-> TRUE, events |-> IF wanted = {} THEN Events ELSE wanted]]
  /\ UNCHANGED <<deliveries, passes, replays, failed>>

SetEnabled(e, enabled) ==
  /\ endpoints[e] # Unregistered /\ endpoints[e].enabled # enabled
  /\ endpoints' = [endpoints EXCEPT ![e].enabled = enabled]
  /\ UNCHANGED <<deliveries, passes, replays, failed>>

wants(e, event) == endpoints[e].enabled /\ event \in endpoints[e].events

\* Whether publish finds a delivery of the event to the endpoint.
Finds(e, event) ==
  \E i \in DOMAIN deliveries : deliveries[i].endpoint = e /\ deliveries[i].event = event

Fresh(e, event) ==
  [endpoint |-> e, event |-> event, status |-> "Pending", next_attempt_at |-> "due",
   cycle_failures |-> 0]

\* One call queues a delivery for every endpoint that wants the event and has none.
Publish(event) ==
  LET targets == {e \in Endpoints : wants(e, event) /\ ~ Finds(e, event)} IN
  /\ \E order \in [1..Cardinality(targets) -> targets] :
       /\ \A e \in targets : \E i \in DOMAIN order : order[i] = e
       /\ deliveries' = deliveries \o [i \in DOMAIN order |-> Fresh(order[i], event)]
       /\ failed' = failed \o [i \in DOMAIN order |-> 0]
  /\ UNCHANGED <<endpoints, passes, replays>>

Settled(d) == d.status \in {"Delivered", "DeadLettered"}

Due(i) ==
  LET d == deliveries[i] IN
  /\ ~ Settled(d) /\ d.next_attempt_at = "due"
  /\ endpoints[d.endpoint].enabled

\* run_due, first half: under the lock, what is due to an enabled endpoint.
RunDue(p) ==
  LET due == {i \in DOMAIN deliveries : Due(i)} IN
  /\ passes[p] = {} /\ due # {}
  /\ passes' = [passes EXCEPT ![p] = due]
  /\ UNCHANGED <<endpoints, deliveries, replays, failed>>

\* A retry after each of the first Retries failures of a cycle, then the dead letter.
Scheduled(d) == d.cycle_failures < Retries

Recorded(d, success) ==
  IF success THEN [d EXCEPT !.status = "Delivered", !.next_attempt_at = "none"]
  ELSE IF Scheduled(d)
  THEN [d EXCEPT !.status = "Retrying", !.next_attempt_at = "later", !.cycle_failures = @ + 1]
  ELSE [d EXCEPT !.status = "DeadLettered", !.next_attempt_at = "none", !.cycle_failures = @ + 1]

\* ... second half, once per delivery in the order of the log: the transport answers and the
\* outcome is recorded in whatever state the delivery is in by now.
Attempt(p) ==
  /\ \E i \in passes[p], success \in BOOLEAN :
       /\ \A j \in passes[p] : i <= j
       /\ deliveries' = [deliveries EXCEPT ![i] = Recorded(@, success)]
       /\ failed' = IF success THEN failed ELSE [failed EXCEPT ![i] = @ + 1]
       /\ passes' = [passes EXCEPT ![p] = @ \ {i}]
  /\ UNCHANGED <<endpoints, replays>>

\* The transport panics and ends the pass; nothing it had in flight is recorded.
PassLost(p) ==
  /\ passes[p] # {}
  /\ passes' = [passes EXCEPT ![p] = {}]
  /\ UNCHANGED <<endpoints, deliveries, replays, failed>>

\* The wait before a retry is over.
Elapse(i) ==
  /\ deliveries[i].next_attempt_at = "later"
  /\ deliveries' = [deliveries EXCEPT ![i].next_attempt_at = "due"]
  /\ UNCHANGED <<endpoints, passes, replays, failed>>

\* A replay starts the delivery from scratch, whatever its status.
RestartKeepsCycle(d) == [d EXCEPT !.status = "Pending", !.next_attempt_at = "due"]
RestartKeepsTime(d) == [d EXCEPT !.status = "Pending", !.cycle_failures = 0]
Restart(d) == [d EXCEPT !.status = "Pending", !.next_attempt_at = "due", !.cycle_failures = 0]

Replay(i) ==
  /\ replays < MaxReplays
  /\ replays' = replays + 1
  /\ deliveries' = [deliveries EXCEPT ![i] = Restart(@)]
  /\ failed' = [failed EXCEPT ![i] = 0]
  /\ UNCHANGED <<endpoints, passes>>

Next ==
  \/ \E e \in Endpoints :
       \/ \E wanted \in SUBSET Events : RegisterEndpoint(e, wanted)
       \/ \E enabled \in BOOLEAN : SetEnabled(e, enabled)
  \/ \E event \in Events : Publish(event)
  \/ \E p \in Passes : RunDue(p) \/ Attempt(p) \/ PassLost(p)
  \/ \E i \in DOMAIN deliveries : Elapse(i) \/ Replay(i)

Spec == Init /\ [][Next]_vars

-----------------------------------------------------------------------------
(* Properties.                                                              *)

\* A delivery is given up only after its first attempt and every scheduled retry failed since it
\* was published or last replayed: a replay really is a fresh cycle.
DeadLetterEarned ==
  \A i \in DOMAIN deliveries : deliveries[i].status = "DeadLettered" => failed[i] > Retries

Waits(i) ==
  /\ i \in DOMAIN deliveries
  /\ ~ Settled(deliveries[i]) /\ endpoints[deliveries[i].endpoint].enabled

\* A delivery to an endpoint that stays enabled is delivered or dead-lettered in the end.
EveryDeliverySettles ==
  \A i \in 1..(Cardinality(Endpoints) * Cardinality(Events)) : Waits(i) ~> ~ Waits(i)
=============================================================================
