------------------------------ MODULE RpcBreaker ------------------------------
(***************************************************************************)
(* The circuit breaker of one RPC provider (core/src/rpc_provider.rs) and  *)
(* the retrying caller that uses it (core/src/stellar_service.rs).         *)
(*                                                                         *)
(* Every attempt of a call takes a permit (try_acquire_provider) and gives *)
(* it back by reporting success, by reporting a failure, or by             *)
(* release_provider when the error says nothing about the provider.  A     *)
(* cancelled call returns without giving its permit back, so the breaker   *)
(* keeps two time stamps by which it forgets permits that are too old.     *)
(* The counter of consecutive failures is an atomic outside the lock of    *)
(* the circuit, so a report takes two steps.  The health checker is one    *)
(* more caller, whose calls have one attempt.  Scores, latencies and the   *)
(* gossip between registries are left out.                                 *)
(***************************************************************************)
EXTENDS Integers

CONSTANTS Call,               \* the concurrent calls to the provider
          failure_threshold,
          recovery_timeout,
          success_threshold,
          half_open_max_calls,
          max_attempts,
          MaxPermits,         \* bound on the closed permits outstanding
          MaxTime             \* bound on the clock

VARIABLES circuit,      \* ProviderCircuitState
          failures,     \* consecutive_failures, counted up to the threshold
          call,         \* per call: its phase, attempt and the count it read
          now

breakerVars == <<circuit, failures, call, now>>

Unset == -1

Init ==
    /\ circuit = [state |-> "Closed", opened_at |-> Unset,
                  half_open_started_at |-> Unset, closed_in_flight |-> 0,
                  closed_in_flight_since |-> Unset, half_open_in_flight |-> 0,
                  half_open_successes |-> 0]
    /\ failures = 0
    /\ call = [c \in Call |-> [phase |-> "idle", attempt |-> 0, seen |-> 0]]
    /\ now = 0

-----------------------------------------------------------------------------
(* The circuit. *)

Elapsed(since, t) == since # Unset /\ t - since >= recovery_timeout

\* Permits taken before the trip are forgotten once the oldest is too old.
ForgetStale(c, t) ==
    IF Elapsed(c.closed_in_flight_since, t)
    THEN [c EXCEPT !.closed_in_flight = 0, !.closed_in_flight_since = Unset]
    ELSE c

HalfOpened(c, t, permits) ==
    [c EXCEPT !.state = "HalfOpen", !.opened_at = Unset,
              !.half_open_started_at = t, !.half_open_in_flight = permits,
              !.half_open_successes = 0]

Renewed(c, t) ==
    IF c.half_open_started_at = Unset \/ Elapsed(c.half_open_started_at, t)
    THEN [c EXCEPT !.half_open_started_at = t, !.half_open_in_flight = 0,
                   !.half_open_successes = 0]
    ELSE c

\* Whether try_acquire_provider grants a permit at time t ...
Admits(c, t) ==
    CASE c.state = "Closed"   -> TRUE
      [] c.state = "Open"     -> /\ c.opened_at = Unset \/ Elapsed(c.opened_at, t)
                                 /\ ForgetStale(c, t).closed_in_flight = 0
      [] c.state = "HalfOpen" -> Renewed(c, t).half_open_in_flight < half_open_max_calls

\* ... and the circuit it leaves behind.
Acquired(c, t) ==
    CASE c.state = "Closed" ->
             [c EXCEPT !.closed_in_flight = @ + 1,
                       !.closed_in_flight_since = IF c.closed_in_flight = 0 THEN t ELSE @]
      [] c.state = "Open" ->
             IF Admits(c, t) THEN HalfOpened(ForgetStale(c, t), t, 1) ELSE ForgetStale(c, t)
      [] c.state = "HalfOpen" ->
             IF Admits(c, t) THEN [Renewed(c, t) EXCEPT !.half_open_in_flight = @ + 1]
             ELSE Renewed(c, t)

\* Slip: any permit returned resets the time the closed ones are out since.
ReleasedForgetsSince(c) ==
    IF c.closed_in_flight > 0
    THEN [c EXCEPT !.closed_in_flight = @ - 1, !.closed_in_flight_since = Unset]
    ELSE IF c.half_open_in_flight > 0 THEN [c EXCEPT !.half_open_in_flight = @ - 1] ELSE c

\* A returned permit is taken from the closed ones first.
Released(c) ==
    IF c.closed_in_flight > 0
    THEN [c EXCEPT !.closed_in_flight = @ - 1,
                   !.closed_in_flight_since = IF c.closed_in_flight = 1 THEN Unset ELSE @]
    ELSE IF c.half_open_in_flight > 0 THEN [c EXCEPT !.half_open_in_flight = @ - 1] ELSE c

Closed(c) ==
    [c EXCEPT !.state = "Closed", !.opened_at = Unset, !.half_open_started_at = Unset,
              !.closed_in_flight_since = Unset, !.half_open_in_flight = 0,
              !.half_open_successes = 0]

\* A success counts unless it answers for a permit of an earlier period.
Counts(c) ==
    CASE c.state = "HalfOpen" -> c.closed_in_flight = 0
      [] c.state = "Open"     -> c.closed_in_flight = 0 /\ c.half_open_in_flight = 0
      [] c.state = "Closed"   -> TRUE

Succeeded(c) ==
    LET r == Released(c)
        s == [r EXCEPT !.half_open_successes = @ + 1]
    IN  CASE ~Counts(c) \/ c.state = "Closed" -> r
          [] Counts(c) /\ c.state = "HalfOpen" ->
                 IF s.half_open_successes >= success_threshold /\ s.half_open_in_flight = 0
                 THEN Closed(s) ELSE s
          [] Counts(c) /\ c.state = "Open" -> Closed(r)

Failed(c, seen) ==
    LET r == Released(c)
    IN  IF c.state = "HalfOpen" \/ (c.state = "Closed" /\ seen >= failure_threshold)
        THEN [r EXCEPT !.state = "Open", !.opened_at = now,
                       !.half_open_started_at = Unset, !.half_open_successes = 0]
        ELSE r

-----------------------------------------------------------------------------
(* A call: acquire, send, report, and retry up to max_attempts times. *)

Idle == [phase |-> "idle", attempt |-> 0, seen |-> 0]

\* call_rpc, or the next round of its loop: no permit means CircuitOpen.
try_acquire_provider(k) ==
    /\ call[k].phase \in {"idle", "retry"}
    /\ circuit.state = "Closed" => circuit.closed_in_flight < MaxPermits
    /\ circuit' = Acquired(circuit, now)
    /\ call' = [call EXCEPT ![k] =
           IF Admits(circuit, now)
           THEN [phase |-> "sending", attempt |-> @.attempt + 1, seen |-> 0]
           ELSE Idle]
    /\ UNCHANGED <<failures, now>>

\* The cancellation token fires: the call returns, its permit stays out.
Cancel(k) ==
    /\ call[k].phase = "sending"
    /\ call' = [call EXCEPT ![k] = Idle]
    /\ UNCHANGED <<circuit, failures, now>>

report_success(k) ==
    /\ call[k].phase = "sending"
    /\ circuit' = Succeeded(circuit)
    /\ call' = [call EXCEPT ![k] = IF Counts(circuit) THEN [@ EXCEPT !.phase = "resetting"] ELSE Idle]
    /\ UNCHANGED <<failures, now>>

ResetFailures(k) ==
    /\ call[k].phase = "resetting"
    /\ failures' = 0
    /\ call' = [call EXCEPT ![k] = Idle]
    /\ UNCHANGED <<circuit, now>>

\* report_failure counts the failure first and locks the circuit later.
CountFailure(k) ==
    /\ call[k].phase = "sending"
    /\ failures' = IF failures < failure_threshold THEN failures + 1 ELSE failures
    /\ call' = [call EXCEPT ![k].phase = "reporting", ![k].seen = failures']
    /\ UNCHANGED <<circuit, now>>

\* A failed attempt is followed by another one or by the end of the call.
AfterFailure(k) ==
    \/ /\ call[k].attempt < max_attempts
       /\ call' = [call EXCEPT ![k].phase = "retry", ![k].seen = 0]
    \/ call' = [call EXCEPT ![k] = Idle]

report_failure(k) ==
    /\ call[k].phase = "reporting"
    /\ circuit' = Failed(circuit, call[k].seen)
    /\ AfterFailure(k)
    /\ UNCHANGED <<failures, now>>

\* An error that does not count against the provider is never retried.
release_provider(k) ==
    /\ call[k].phase = "sending"
    /\ circuit' = Released(circuit)
    /\ call' = [call EXCEPT ![k] = Idle]
    /\ UNCHANGED <<failures, now>>

\* Every health report and every routing decision refreshes the circuit.
refresh_circuit_state ==
    LET c == ForgetStale(circuit, now)
    IN  /\ circuit.state = "Open"
        /\ circuit' = IF Elapsed(circuit.opened_at, now) /\ c.closed_in_flight = 0
                      THEN HalfOpened([c EXCEPT !.closed_in_flight_since = Unset], now, 0)
                      ELSE c
        /\ UNCHANGED <<failures, call, now>>

Tick ==
    /\ now < MaxTime
    /\ now' = now + 1
    /\ UNCHANGED <<circuit, failures, call>>

Next ==
    \/ \E k \in Call : \/ try_acquire_provider(k) \/ Cancel(k)
                       \/ report_success(k) \/ ResetFailures(k)
                       \/ CountFailure(k) \/ report_failure(k)
                       \/ release_provider(k)
    \/ refresh_circuit_state
    \/ Tick

Spec == Init /\ [][Next]_breakerVars

-----------------------------------------------------------------------------
(* However many permits cancelled calls have taken with them, and in        *)
(* whatever order late answers arrive, the provider is never locked out:    *)
(* once recovery_timeout has passed, try_acquire_provider grants a permit.  *)
NeverWedged == Admits(circuit, now + recovery_timeout)

=============================================================================
