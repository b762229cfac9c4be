------------------------- MODULE IdempotentConsumer -------------------------
(***************************************************************************)
(* IdempotentConsumer of core/src/outbox.rs: the workers of a consumer     *)
(* share the set of handled keys.  handle looks the key up under the lock, *)
(* runs the handler without it, and records the key under the lock again.  *)
(* The broker delivers at least once: any message may be delivered again,  *)
(* to any worker, and a failed one is redelivered.                         *)
(***************************************************************************)
EXTENDS Naturals, FiniteSets

CONSTANTS
    Consumers,
    Keys,           \* idempotency keys of the messages
    Workers,        \* workers of each consumer
    MaxDeliveries   \* bound: deliveries of one message to one consumer

VARIABLES
    processed,      \* the (consumer, key) pairs recorded
    worker,         \* what each worker is doing
    delivered,      \* deliveries so far
    ran             \* how often the handler had its effect

vars == <<processed, worker, delivered, ran>>

Pairs == Consumers \X Keys

Init ==
    /\ processed = {}
    /\ worker = [w \in Consumers \X Workers |-> [pc |-> "idle"]]
    /\ delivered = [p \in Pairs |-> 0]
    /\ ran = [p \in Pairs |-> 0]

\* handle finds the key recorded and answers Duplicate.
Duplicate(c, w, k) ==
    /\ worker[<<c, w>>].pc = "idle"
    /\ delivered[<<c, k>>] < MaxDeliveries
    /\ delivered' = [delivered EXCEPT ![<<c, k>>] = @ + 1]
    /\ <<c, k>> \in processed
    /\ UNCHANGED <<processed, worker, ran>>

\* Slip: the key is not looked up.
LookUpSkipped(c, w, k) ==
    /\ worker[<<c, w>>].pc = "idle"
    /\ delivered[<<c, k>>] < MaxDeliveries
    /\ delivered' = [delivered EXCEPT ![<<c, k>>] = @ + 1]
    /\ worker' = [worker EXCEPT ![<<c, w>>] = [pc |-> "handling", key |-> k]]
    /\ UNCHANGED <<processed, ran>>

\* The first critical section of handle: the key is new.
LookUp(c, w, k) ==
    /\ worker[<<c, w>>].pc = "idle"
    /\ delivered[<<c, k>>] < MaxDeliveries
    /\ delivered' = [delivered EXCEPT ![<<c, k>>] = @ + 1]
    /\ <<c, k>> \notin processed
    /\ worker' = [worker EXCEPT ![<<c, w>>] = [pc |-> "handling", key |-> k]]
    /\ UNCHANGED <<processed, ran>>

\* handler(message) returns Err: nothing is recorded.
HandlerFails(c, w) ==
    /\ worker[<<c, w>>].pc = "handling"
    /\ worker' = [worker EXCEPT ![<<c, w>>] = [pc |-> "idle"]]
    /\ UNCHANGED <<processed, delivered, ran>>

HandlerSucceeds(c, w) ==
    /\ worker[<<c, w>>].pc = "handling"
    /\ worker' = [worker EXCEPT ![<<c, w>>].pc = "recording"]
    /\ ran' = [ran EXCEPT ![<<c, worker[<<c, w>>].key>>] = @ + 1]
    /\ UNCHANGED <<processed, delivered>>

\* The second critical section of handle.
Record(c, w) ==
    /\ worker[<<c, w>>].pc = "recording"
    /\ processed' = processed \union {<<c, worker[<<c, w>>].key>>}
    /\ worker' = [worker EXCEPT ![<<c, w>>] = [pc |-> "idle"]]
    /\ UNCHANGED <<delivered, ran>>

Next ==
    \E c \in Consumers, w \in Workers :
        \/ \E k \in Keys : Duplicate(c, w, k) \/ LookUp(c, w, k)
        \/ HandlerFails(c, w) \/ HandlerSucceeds(c, w) \/ Record(c, w)

Spec == Init /\ [][Next]_vars

-----------------------------------------------------------------------------
(* Properties *)

\* A message has at most one effect per worker of the consumer: each records the
\* key before it takes another message, and from then on nobody handles it.
OncePerWorker == \A p \in Pairs : ran[p] <= Cardinality(Workers)
=============================================================================
