-------------------------- MODULE ServiceDiscovery --------------------------
(***************************************************************************)
(* Service discovery (core/src/service_discovery.rs) for one downstream     *)
(* service: the registry of its instances, the catalog's cached copy with a *)
(* time to live, the circuit breaker, and the callers of                    *)
(* ServiceDiscoveryClient::resolve.  A caller asks the breaker, then the    *)
(* catalog, then makes its call and reports the outcome, or never does.     *)
(***************************************************************************)
EXTENDS Integers, Sequences

CONSTANTS Instances, Callers,
          Threshold,     \* failure_threshold
          ResetTimeout,  \* reset_timeout
          Ttl,           \* the catalog's ttl
          CursorWrap,    \* where the cursor of a cached list wraps around (usize)
          None,
          MaxTime        \* bound on the clock

VARIABLES clock,
          entries,       \* the registry: the instances in the order they registered
          healthy,       \* those of them that are marked healthy
          cache,         \* CacheEntry, or None before the first pick
          breaker,       \* CircuitBreakerInner
          callers,       \* caller -> idle, allowed, or the instance it calls and since when
          wasHealthy,    \* history: instance -> when it was last healthy
          letThrough     \* history: requests let through since the breaker last tripped

vars == <<clock, entries, healthy, cache, breaker, callers, wasHealthy, letThrough>>

Idle == [pc |-> "idle"]

ToSetOf(s) == {s[i] : i \in DOMAIN s}

Init ==
  /\ clock = 0
  /\ entries = <<>> /\ healthy = {}
  /\ cache = None
  /\ breaker = [state |-> "Closed", failure_count |-> 0, last_failure |-> None]
  /\ callers = [c \in Callers |-> Idle]
  /\ wasHealthy = [i \in Instances |-> None]
  /\ letThrough = 0

Seen(now, ok) == [i \in Instances |-> IF i \in ok THEN now ELSE wasHealthy[i]]

Tick ==
  /\ clock < MaxTime
  /\ clock' = clock + 1
  /\ wasHealthy' = Seen(clock + 1, healthy)
  /\ UNCHANGED <<entries, healthy, cache, breaker, callers, letThrough>>

Register(i) ==
  /\ i \notin healthy
  /\ entries' = IF i \in ToSetOf(entries) THEN entries ELSE Append(entries, i)
  /\ healthy' = healthy \union {i}
  /\ wasHealthy' = Seen(clock, healthy')
  /\ UNCHANGED <<clock, cache, breaker, callers, letThrough>>

\* deregister marks the instance unhealthy and keeps its entry.
Deregister(i) ==
  /\ i \in healthy
  /\ healthy' = healthy \ {i}
  /\ UNCHANGED <<clock, entries, cache, breaker, callers, wasHealthy, letThrough>>

\* ServiceRegistry::resolve: the healthy ones among the first n entries, then all of them.
Resolving[n \in 0..Len(entries)] ==
  IF n = 0 THEN <<>>
  ELSE IF entries[n] \in healthy THEN Append(Resolving[n - 1], entries[n]) ELSE Resolving[n - 1]
Resolved == Resolving[Len(entries)]

-----------------------------------------------------------------------------
(* The circuit breaker, each method under its lock.                         *)

TimeoutOver ==
  breaker.last_failure # None /\ clock - breaker.last_failure >= ResetTimeout

\* allow_request: an open breaker whose timeout is over lets one probe through as it turns half
\* open, and a half-open one nothing more.
AllowedProbing == breaker.state \in {"Closed", "HalfOpen"} \/ TimeoutOver
Allowed == breaker.state = "Closed" \/ (breaker.state = "Open" /\ TimeoutOver)

AllowRequest(c) ==
  /\ callers[c] = Idle /\ Allowed
  /\ breaker' = [breaker EXCEPT !.state = IF @ = "Open" THEN "HalfOpen" ELSE @]
  /\ callers' = [callers EXCEPT ![c] = [pc |-> "allowed"]]
  /\ letThrough' = IF breaker.state = "Closed" THEN letThrough ELSE letThrough + 1
  /\ UNCHANGED <<clock, entries, healthy, cache, wasHealthy>>

Succeeded == [state |-> "Closed", failure_count |-> 0, last_failure |-> None]

Failed(b) ==
  [b EXCEPT !.failure_count = @ + 1, !.last_failure = clock,
            !.state = IF b.failure_count + 1 >= Threshold THEN "Open" ELSE @]

RecordFailure ==
  /\ breaker' = Failed(breaker)
  /\ letThrough' = IF breaker'.state = "Open" THEN 0 ELSE letThrough

-----------------------------------------------------------------------------
(* Picking an instance, calling it and reporting.                           *)

\* The cached list, fetched if there is none yet or the copy is older than the time to live.
Fetched(cursor) == [instances |-> Resolved, fetched_at |-> clock, rr_cursor |-> cursor]
Refreshed ==
  IF cache = None THEN Fetched(0)
  ELSE IF clock - cache.fetched_at > Ttl THEN Fetched(cache.rr_cursor)
  ELSE cache

\* wrapping_add.
Advanced(cursor) == (cursor + 1) % CursorWrap

\* pick, in turn over the cached list; an empty list is a failure of the service.
Pick(c) ==
  LET entry == Refreshed
      n == Len(entry.instances) IN
  /\ callers[c].pc = "allowed"
  /\ IF n = 0
     THEN /\ cache' = entry
          /\ RecordFailure
          /\ callers' = [callers EXCEPT ![c] = Idle]
     ELSE /\ cache' = [entry EXCEPT !.rr_cursor = Advanced(@)]
          /\ callers' = [callers EXCEPT ![c] = [pc |-> "calling", at |-> clock,
                           instance |-> entry.instances[(entry.rr_cursor % n) + 1]]]
          /\ UNCHANGED <<breaker, letThrough>>
  /\ UNCHANGED <<clock, entries, healthy, wasHealthy>>

ReportSuccess(c) ==
  /\ callers[c].pc = "calling"
  /\ breaker' = Succeeded
  /\ callers' = [callers EXCEPT ![c] = Idle]
  /\ letThrough' = 0
  /\ UNCHANGED <<clock, entries, healthy, cache, wasHealthy>>

ReportFailure(c) ==
  /\ callers[c].pc = "calling"
  /\ RecordFailure
  /\ callers' = [callers EXCEPT ![c] = Idle]
  /\ UNCHANGED <<clock, entries, healthy, cache, wasHealthy>>

\* The caller goes away without a report.
Forget(c) ==
  /\ callers[c].pc = "calling"
  /\ callers' = [callers EXCEPT ![c] = Idle]
  /\ UNCHANGED <<clock, entries, healthy, cache, breaker, wasHealthy, letThrough>>

Next ==
  \/ Tick
  \/ \E i \in Instances : Register(i) \/ Deregister(i)
  \/ \E c \in Callers :
       \/ AllowRequest(c) \/ Pick(c)
       \/ ReportSuccess(c) \/ ReportFailure(c) \/ Forget(c)

Spec == Init /\ [][Next]_vars

-----------------------------------------------------------------------------
(* Properties.                                                              *)

\* "one request is allowed through to test recovery": since the breaker last tripped, none passed
\* while it is open and exactly one while it is half open, whatever late reports arrive.
OneProbe ==
  /\ breaker.state = "Open" => letThrough = 0
  /\ breaker.state = "HalfOpen" => letThrough = 1

\* An instance a caller is sent to was healthy at most the time to live before.
FreshEnough ==
  \A c \in Callers : callers[c].pc = "calling" =>
    LET t == wasHealthy[callers[c].instance] IN
    t # None /\ callers[c].at - t <= Ttl

=============================================================================
